--------------------------- MODULE RelayInvariant ---------------------------
(***************************************************************************)
(* What holds of the relay, of the frames on their way and of the tunnels  *)
(* in every reachable state: the inductive invariant of RelayTunnel.       *)
(***************************************************************************)
EXTENDS RelayTunnel

Frames ==
    [kind : {"peer_open", "peer_close"}, channel : Devices]
    \cup [kind : {"data"}, channel : Devices, id : Nat, load : Tunnels \X Nat]
    \cup [kind : {"forward_result"}, channel : Devices, id : Nat,
          status : {"accepted", "unavailable", "backpressure"}]

SlotsShape ==
    /\ grants \subseteq Grants
    /\ attempt \in [Attempts -> {"none", "pending", "refused", "attached"}]
    /\ grant \in [Attempts -> Grants \cup {NoGrant}]
    /\ conn \in [Attempts -> {"none", "open", "closing", "closed"}]
    /\ host \in [Routes -> Hosts \cup {NoConn}]
    /\ devices \in [Routes -> SUBSET Devices]

-----------------------------------------------------------------------------
(* Admission.                                                              *)

(* A grant that a lookup found is spent, and is one attempt's alone.       *)
Holds(a) == attempt[a] \in {"pending", "attached"} /\ grant[a] # NoGrant

GrantsSpent ==
    /\ \A a \in Attempts : Holds(a) => grant[a] \notin grants
    /\ \A a, b \in Attempts : Holds(a) /\ Holds(b) /\ grant[a] = grant[b] => a = b
    /\ \A a \in Attempts : attempt[a] = "attached" => grant[a] # NoGrant
    /\ \A a \in Attempts : attempt[a] = "attached" <=> conn[a] # "none"

(* A route's table is the connections that have not left it.               *)
TablesExact ==
    /\ \A a \in Hosts : Connected(a) <=> host[Route[a]] = a
    /\ \A a \in Devices : Connected(a) <=> a \in devices[Route[a]]
    /\ \A r \in Routes :
        /\ host[r] # NoConn => Route[host[r]] = r
        /\ \A d \in devices[r] : Route[d] = r

WithinLimits ==
    /\ IsFiniteSet(Connections) /\ Cardinality(Connections) <= MaxConnections
    /\ \A r \in Routes :
        /\ Cardinality(devices[r]) <= MaxDevices
        /\ \A c, d \in devices[r] : Endpoint[c] = Endpoint[d] => c = d

SlotsInvariant == SlotsShape /\ GrantsSpent /\ TablesExact /\ WithinLimits

-----------------------------------------------------------------------------
(* Tunnels and frames.                                                     *)

FramesShape ==
    /\ alive \subseteq Attempts
    /\ up \in [Attempts -> Seq(Frames)]
    /\ down \in [Attempts -> Seq(Frames)]
    /\ \A a \in Attempts : conn[a] = "none" =>
            a \notin alive /\ down[a] = <<>> /\ up[a] = <<>>

Tunnel == [life : {"none", "open", "closed"}, handed : Nat, sent : Nat, acked : Nat,
           receipt : {NoReceipt} \cup SUBSET Whole, arrived : Nat,
           queue : Seq(Tunnels \X Nat), given : Seq(Tunnels \X Nat)]

TunnelShape ==
    /\ tun \in [Tunnels -> Tunnel]
    /\ \A t \in Tunnels :
        /\ Open(t) => Conn(t) \in alive
        /\ tun[t].sent = tun[t].acked + (IF tun[t].receipt = NoReceipt THEN 0 ELSE 1)
        /\ tun[t].sent <= tun[t].handed
        /\ tun[t].life = "none" => tun[t] = Absent

(* A frame of data holds the chunk of its number, which its writer wrote;  *)
(* a result tells a writer of a chunk it wrote.                            *)
FromWriter(f, w) == f.load = <<w, f.id>> /\ f.id \in 1 .. tun[w].handed

FramesTrue ==
    /\ \A a \in Attempts : \A i \in 1 .. Len(up[a]) : LET f == up[a][i] IN
        /\ <<a, f.channel>> \in Tunnels /\ f.kind = "data"
        /\ FromWriter(f, <<a, f.channel>>)
    /\ \A a \in Attempts : \A i \in 1 .. Len(down[a]) : LET f == down[a][i] IN
        /\ <<a, f.channel>> \in Tunnels
        /\ f.kind = "data" => \E w \in WritersTo(<<a, f.channel>>) : FromWriter(f, w)
        /\ f.kind = "forward_result" => f.id \in 1 .. tun[<<a, f.channel>>].handed

(* A reader has, in order, the first chunks of one writer.                 *)
Reads(t, w) ==
    /\ Len(tun[t].given) + Len(tun[t].queue) = tun[t].arrived
    /\ \A n \in 1 .. Len(tun[t].given) : tun[t].given[n] = <<w, n>>
    /\ \A n \in 1 .. Len(tun[t].queue) : tun[t].queue[n] = <<w, Len(tun[t].given) + n>>
    /\ tun[t].arrived <= tun[w].handed

Fresh(d) == tun[<<d, d>>].life = "none"

Leaves(d, i) == down[d][i].kind = "peer_close"
NoLeaveIn(d) == \A i \in 1 .. Len(down[d]) : ~Leaves(d, i)

(* What a device whose tunnel is not over has read, and will read before it*)
(* hears that its host has left, is of one host; the host that is there, if*)
(* it hears of no other.                                                   *)
OneHost(d, h) ==
    /\ Reads(<<d, d>>, <<h, d>>)
    /\ \A i \in 1 .. Len(down[d]) :
        down[d][i].kind = "data" /\ (\A j \in 1 .. i : ~Leaves(d, j)) =>
            down[d][i].load[1] = <<h, d>>
    /\ conn[d] = "open" /\ NoLeaveIn(d) => host[Route[d]] = h

StreamsWhole ==
    /\ \A t \in Tunnels : Open(t) /\ Conn(t) \in Hosts => Reads(t, <<Channel(t), Channel(t)>>)
    /\ \A d \in Devices : d \in alive /\ tun[<<d, d>>].life # "closed" =>
        IF Fresh(d) /\ down[d] = <<>>
        THEN conn[d] = "open" => host[Route[d]] = NoConn
        ELSE \E h \in Hosts : <<h, d>> \in Tunnels /\ OneHost(d, h)
    /\ \A d \in Devices : Fresh(d) /\ down[d] # <<>> => down[d][1].kind = "peer_open"

RelayInvariant ==
    /\ SlotsInvariant /\ FramesShape /\ TunnelShape /\ FramesTrue /\ StreamsWhole

-----------------------------------------------------------------------------
(* The ends of peers.                                                      *)

In(q, f) == \E i \in 1 .. Len(q) : q[i] = f
Answered(q, f, g) == \A i \in 1 .. Len(q) : q[i] = f => \E j \in i + 1 .. Len(q) : q[j] = g

(* The host at the other end of a device's channel has been told of it.    *)
Known(h, d) == tun[<<h, d>>].life # "none" \/ In(down[h], PeerOpen(d))

(* A host that is there has, for each device that has left, the notice in  *)
(* front of it, and behind every peer_open of its channel; a device has it *)
(* for each host that knew of it.                                          *)
HostTold(h, d) == h \in alive /\ conn[d] = "closed" /\ conn[h] = "open" =>
    /\ Open(<<h, d>>) => In(down[h], PeerClose(d))
    /\ Answered(down[h], PeerOpen(d), PeerClose(d))

DeviceTold(h, d) ==
    Known(h, d) /\ conn[h] = "closed" /\ conn[d] = "open" /\ d \in alive /\ tun[<<d, d>>].life # "closed"
    => In(down[d], PeerClose(d))

EndsTold == \A d \in Devices, h \in Hosts : <<h, d>> \in Tunnels =>
    /\ Known(h, d) => conn[d] # "none"
    /\ HostTold(h, d) /\ DeviceTold(h, d)

-----------------------------------------------------------------------------
(* Chunks that were accepted.                                              *)

(* A host that takes frames knows of the devices that are there, and hears *)
(* first that a device has come.                                           *)
Knows(h, d) == h \in alive =>
    /\ conn[h] = "open" /\ Connected(d) => Known(h, d)
    /\ tun[<<h, d>>].life = "none" => \A i \in 1 .. Len(down[h]) :
          down[h][i].channel = d => \E j \in 1 .. i : down[h][j] = PeerOpen(d)

(* A tunnel that takes, or will take, the frames of its channel.           *)
Hearing(t) ==
    /\ Conn(t) \in alive
    /\ Open(t) \/ (tun[t].life = "none" /\ In(down[Conn(t)], PeerOpen(Channel(t))))

(* A writer's chunk whose frame the relay has accepted, as the writer has  *)
(* it or will hear; a chunk that is at its reader or on the way there.     *)
Heard(w, n) == n <= tun[w].acked \/ (n = tun[w].sent /\ "received" \in tun[w].receipt)
Accepted(w, n) ==
    Heard(w, n) \/ In(down[Conn(w)], Result(Channel(w), n, "accepted"))

Reaches(r, n) ==
    \/ n <= tun[r].arrived
    \/ \E i \in 1 .. Len(down[Conn(r)]) : LET f == down[Conn(r)][i] IN
          f.kind = "data" /\ f.channel = Channel(r) /\ f.id = n

Kept(w, r) == Open(w) /\ Hearing(r) /\ ~EndOnItsWay(w) =>
    \A n \in Nat : Accepted(w, n) => Reaches(r, n)

AcceptedKept ==
    /\ \A d \in Devices, h \in Hosts : <<h, d>> \in Tunnels => Knows(h, d)
    /\ \A p \in Ends : Kept(p[1], p[2])
=============================================================================
