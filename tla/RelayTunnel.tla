---------------------------- MODULE RelayTunnel ----------------------------
(***************************************************************************)
(* Reliable byte tunnels (src/src/shared/reliable-relay-byte-tunnel.ts) at *)
(* both ends of the relay's channels.  A tunnel is named by its connection *)
(* and its channel: <<d, d>> at a device, <<h, d>> at a host.  A write is  *)
(* one chunk; a tunnel sends the next one when the receipt for the last    *)
(* one is in.  Errors differ by their code only, so `LocalClose` is        *)
(* close(), an abort, a reader that returns, a send the connector refuses  *)
(* and an exhausted message id.                                            *)
(*                                                                         *)
(* The connector between a tunnel and its WebSocket is not part of the     *)
(* repository.  As OpenRelayRoutingChannel and the tests use it, it opens  *)
(* a tunnel at the first peer_open of a channel; a device's connection     *)
(* ends with its tunnel; a host's carries the channels of other devices    *)
(* and stays.                                                              *)
(***************************************************************************)
EXTENDS RelayServer

CONSTANTS
    MaxWrites,        \* bound: chunks handed to tunnels
    MaxBufferedReads  \* maxBufferedReadItems

ASSUME TunnelAssumption == {MaxWrites, MaxBufferedReads} \subseteq Nat \ {0}

Tunnels == {t \in Attempts \X Devices :
    Route[t[1]] = Route[t[2]] /\ (t[1] = t[2] \/ t[1] \in Hosts)}

VARIABLE tun  \* the tunnels, by connection and channel

tunnelVars == <<relayVars, tun>>

(* life: "none", "open", "closed".  handed: chunks send() has taken.       *)
(* sent: #nextOutgoingMessageId less one.  acked: chunks whose send is     *)
(* done.  receipt: #pendingReceipt.  arrived: #nextIncomingMessageId less  *)
(* one.  queue: chunks its one reader has not taken.  given: chunks it has. *)
Whole == {"settled", "received"}  \* taken by the connector, receipt in
NoReceipt == {"none"}

Absent == [life |-> "none", handed |-> 0, sent |-> 0, acked |-> 0, receipt |-> NoReceipt,
           arrived |-> 0, queue |-> <<>>, given |-> <<>>]

TunnelInit == RelayInit /\ tun = [t \in Tunnels |-> Absent]

Conn(t) == t[1]
Channel(t) == t[2]
Open(t) == tun[t].life = "open"

(* #fail and close(): the pending receipt is rejected, unread chunks are   *)
(* dropped, and nothing else of the tunnel is looked at again.             *)
Ended(t) == IF Open(t)
    THEN [Absent EXCEPT !.life = "closed", !.handed = tun[t].handed, !.given = tun[t].given]
    ELSE tun[t]

(* The tunnel changes, and `rest` is what its connection still has to      *)
(* read; a device hangs up when its tunnel ends.                           *)
Become(t, new, rest) ==
    LET over == new.life = "closed" /\ Conn(t) \in Devices
    IN /\ tun' = [tun EXCEPT ![t] = new]
       /\ alive' = IF over THEN alive \ {Conn(t)} ELSE alive
       /\ down' = [down EXCEPT ![Conn(t)] = IF over THEN <<>> ELSE rest]

Act(t, new) ==
    /\ Open(t) /\ Become(t, new, down[Conn(t)])
    /\ UNCHANGED <<admission, conn, host, devices>>

-----------------------------------------------------------------------------
LocalClose(t) == Act(t, Ended(t)) /\ UNCHANGED up

(* Mutant: the chunk is sent once more instead.                            *)
SendAgain(t) == [tun[t] EXCEPT !.receipt = NoReceipt]

TimedOut(t) == Ended(t)

ReceiptTimeout(t) ==
    /\ tun[t].receipt # NoReceipt
    /\ Act(t, TimedOut(t)) /\ UNCHANGED up

(* Chunks handed to tunnels.                                               *)
Handed == FoldFunction(LAMBDA x, n : x.handed + n, 0, tun)

(* Writing: send(), then #sendTail and #sendChunk.  A chunk has its        *)
(* message id, its receipt and its frame on the wire at once: a tunnel     *)
(* that ends between them puts nothing on the wire.                        *)
Send(t) ==
    /\ Handed < MaxWrites
    /\ Act(t, [tun[t] EXCEPT !.handed = @ + 1]) /\ UNCHANGED up

SendChunk(t) ==
    /\ tun[t].receipt = NoReceipt /\ tun[t].acked < tun[t].handed
    /\ Act(t, [tun[t] EXCEPT !.sent = @ + 1, !.receipt = {}])
    /\ up' = [up EXCEPT ![Conn(t)] =
          Append(@, Data(Channel(t), tun[t].sent + 1, <<t, tun[t].acked + 1>>))]

(* #resolvePendingIfComplete: a chunk is done when the connector has taken *)
(* it and the relay's receipt is in, whichever comes last.                 *)
Resolve(t, receipt) ==
    IF receipt = Whole
    THEN [tun[t] EXCEPT !.receipt = NoReceipt, !.acked = @ + 1]
    ELSE [tun[t] EXCEPT !.receipt = receipt]

SendSettles(t) ==
    /\ tun[t].receipt # NoReceipt
    /\ "settled" \notin tun[t].receipt
    /\ Act(t, Resolve(t, tun[t].receipt \cup {"settled"})) /\ UNCHANGED up

-----------------------------------------------------------------------------
(* Reading: a chunk pushed to a reader that waits is one it takes at once. *)
Next(t) ==
    /\ tun[t].queue # <<>>
    /\ Act(t, [tun[t] EXCEPT !.given = Append(@, Head(tun[t].queue)), !.queue = Tail(@)])
    /\ UNCHANGED up

AfterData(t, frame) ==
    IF frame.id = tun[t].arrived + 1 /\ Len(tun[t].queue) < MaxBufferedReads
    THEN [tun[t] EXCEPT !.queue = Append(@, frame.load), !.arrived = @ + 1]
    ELSE Ended(t)

AfterResult(t, frame) ==
    IF tun[t].receipt = NoReceipt \/ frame.id # tun[t].sent \/ frame.status # "accepted"
       \/ "received" \in tun[t].receipt
    THEN Ended(t)
    ELSE Resolve(t, tun[t].receipt \cup {"received"})

AfterPeerClose(t) == Ended(t)

(* A frame for a tunnel that is over, or was never opened, finds nobody;   *)
(* a channel is opened once.                                               *)
After(t, frame) ==
    CASE frame.kind = "peer_open" ->
            IF tun[t].life = "none" THEN [tun[t] EXCEPT !.life = "open"] ELSE Ended(t)
      [] frame.kind # "peer_open" /\ ~Open(t) -> tun[t]
      [] frame.kind = "data" /\ Open(t) -> AfterData(t, frame)
      [] frame.kind = "forward_result" /\ Open(t) -> AfterResult(t, frame)
      [] frame.kind = "peer_close" /\ Open(t) -> AfterPeerClose(t)

Receive(c) ==
    /\ c \in alive /\ down[c] # <<>>
    /\ LET frame == Head(down[c])  t == <<c, frame.channel>>
       IN Become(t, After(t, frame), Tail(down[c]))
    /\ UNCHANGED <<admission, conn, host, devices, up>>

(* The client hangs up, or finds its connection ended; what it has not     *)
(* read is lost.                                                           *)
HangUp(c) ==
    /\ c \in alive
    /\ alive' = alive \ {c}
    /\ tun' = [t \in Tunnels |-> IF Conn(t) = c THEN Ended(t) ELSE tun[t]]
    /\ down' = [down EXCEPT ![c] = <<>>]
    /\ UNCHANGED <<admission, conn, host, devices, up>>

RelayStep ==
    \/ \E a \in Attempts :
        \/ \E g \in Grants : Present(a, g)
        \/ Admitted(a) \/ Refused(a)
        \/ OnMessage(a) \/ CloseConnection(a) \/ OnClose(a)
    \/ Stop

TunnelStep(t) ==
    ReceiptTimeout(t) \/ LocalClose(t) \/ Send(t) \/ SendChunk(t) \/ SendSettles(t) \/ Next(t)

TunnelNext ==
    \/ RelayStep /\ UNCHANGED tun
    \/ \E a \in Attempts : Receive(a) \/ HangUp(a)
    \/ \E t \in Tunnels : TunnelStep(t)

TunnelSpec == TunnelInit /\ [][TunnelNext]_tunnelVars

-----------------------------------------------------------------------------
(* The two ends of a channel: a writer and its reader.                     *)
Ends == {p \in Tunnels \X Tunnels : Channel(p[1]) = Channel(p[2]) /\ Conn(p[1]) # Conn(p[2])
            /\ Channel(p[1]) \in {Conn(p[1]), Conn(p[2])}}

Underway(t) == Cardinality({i \in DOMAIN down[Conn(t)] :
    down[Conn(t)][i].kind = "data" /\ down[Conn(t)][i].channel = Channel(t)})
EndOnItsWay(t) ==
    conn[Conn(t)] # "open" \/ PeerClose(Channel(t)) \in Range(down[Conn(t)])

(* A chunk whose send() succeeded is at its reader or on the way there, as *)
(* long as both ends are open and no notice of an end, of the peer's or    *)
(* its own connection, is on its way to the writer.                        *)
AckedNotLost == \A p \in Ends :
    LET w == p[1]  r == p[2]
    IN Open(w) /\ Open(r) /\ ~EndOnItsWay(w) =>
        tun[w].acked <= Len(tun[r].given) + Len(tun[r].queue) + Underway(r)

(* Neither side of a channel is left waiting for a dead peer: a tunnel     *)
(* whose peer's connection has left the route is over, or it still has     *)
(* frames to read and the notice is one of them, or its own connection is  *)
(* ending.                                                                 *)
PeerEndOnItsWay == \A d \in Devices, h \in Hosts : <<h, d>> \in Tunnels =>
    /\ Open(<<h, d>>) /\ conn[d] = "closed" => EndOnItsWay(<<h, d>>)
    /\ Open(<<d, d>>) /\ conn[h] = "closed" /\ tun[<<h, d>>].life # "none" => EndOnItsWay(<<d, d>>)

-----------------------------------------------------------------------------
(* The tunnels implement ByteStream.                                       *)

WritersTo(t) == {w \in Tunnels : <<w, t>> \in Ends}

Streams == INSTANCE ByteStream WITH
    Readers <- Tunnels, Writers <- WritersTo,
    written <- [w \in UNION {WritersTo(t) : t \in Tunnels} |-> tun[w].handed],
    stream <- [t \in Tunnels |-> tun[t].given],
    ended <- {t \in Tunnels : tun[t].life = "closed"}

(* Every reader is given an unbroken beginning of what one writer at the   *)
(* other end of its channel wrote.                                         *)
StreamSpec == Streams!StreamSpec
=============================================================================
