---------------------------- MODULE RelayProofs ----------------------------
(***************************************************************************)
(* RelayInvariant is inductive, the safety properties of RelayServer and   *)
(* RelayTunnel follow from it, and the tunnels implement ByteStream: for   *)
(* any attempts, grants, routes, roles, endpoints and limits, however the  *)
(* lookups, upgrades, frames, receipts, deadlines and closes interleave.   *)
(*                                                                         *)
(* The argument goes from the tables outwards.  Slots: a table holds just  *)
(* the connections that have not left it, so a delivery, which only begins *)
(* to close, changes nothing of them.  Frames: what is sent fits its       *)
(* channel (AttachSends, LeaveSends, ForwardSends), and a frame that fits  *)
(* goes on fitting, for writers only write more (FramesStep).  Streams: a  *)
(* tunnel advances in five ways (Advances), each of which keeps what it    *)
(* has read a beginning of one writer's; that the writer stays the same is *)
(* the order of the frames: between the data of two hosts there is the     *)
(* notice that the first has left (OneHost), and it ends the tunnel.       *)
(* Ends: the notice of an end follows every peer_open it answers, and a    *)
(* client has read it, or it is still in front of it (EndsTold).  Chunks:  *)
(* the relay accepts a frame as it puts it on its way, so what a writer    *)
(* hears was accepted has reached its reader while it hears of no end      *)
(* (AcceptedKept); that it still is the same reader is Streams and Ends.   *)
(***************************************************************************)
EXTENDS RelayInvariant, TLAPS, FiniteSetTheorems, SequenceTheorems

(* Hosts and devices are the two kinds of attempts.                        *)
LEMMA Kinds ==
    /\ Hosts \cap Devices = {} /\ Attempts = Hosts \cup Devices
    /\ NoConn \notin Hosts /\ NoConn \notin Attempts
    /\ \A a \in Attempts : Route[a] \in Routes
    /\ MaxConnections \in Nat /\ MaxDevices \in Nat \ {0}
  BY GrantAssumption, RelayLimitAssumption DEF Hosts, Devices, Routes

(* Connections only begin to close.                                        *)
Quiet ==
    /\ conn' \in [Attempts -> {"none", "open", "closing", "closed"}]
    /\ \A a \in Attempts : conn'[a] = conn[a] \/ (conn[a] = "open" /\ conn'[a] = "closing")
    /\ UNCHANGED <<host, devices>>

(* Where connections only begin to close, the tables and limits stay.      *)
LEMMA QuietTables ==
    ASSUME SlotsInvariant, Quiet
    PROVE  TablesExact' /\ WithinLimits'
<1>1. \A a \in Attempts : Connected(a)' <=> Connected(a)
  BY DEF Quiet, Connected
<1>2. Connections' = Connections
  BY <1>1 DEF Connections
<1>3. TablesExact'
  BY <1>1 DEF SlotsInvariant, TablesExact, Quiet, Hosts, Devices
<1>4. WithinLimits'
  BY <1>2 DEF SlotsInvariant, WithinLimits, Quiet
<1> QED BY <1>3, <1>4

LEMMA QuietPreservesSlots ==
    ASSUME SlotsInvariant, Quiet, UNCHANGED <<grants, attempt, grant>>
    PROVE  SlotsInvariant'
<1>1. SlotsShape' BY DEF SlotsInvariant, SlotsShape, Quiet
<1>2. GrantsSpent' BY DEF SlotsInvariant, SlotsShape, GrantsSpent, Holds, Quiet
<1> QED BY <1>1, <1>2, QuietTables DEF SlotsInvariant

(* What a delivery does to the connections.                                *)
LEMMA Delivered ==
    ASSUME NEW state \in [Attempts -> {"none", "open", "closing", "closed"}], NEW sent, NEW full,
           Deliver(state, sent, full)
    PROVE  /\ conn' \in [Attempts -> {"none", "open", "closing", "closed"}]
           /\ \A a \in Attempts :
                conn'[a] = state[a] \/ (state[a] = "open" /\ conn'[a] = "closing")
  BY DEF Deliver

LEMMA PresentPreservesSlots ==
    ASSUME SlotsInvariant, NEW a \in Attempts, NEW g \in Grants, Present(a, g)
    PROVE  SlotsInvariant'
<1>1. SlotsShape' BY DEF SlotsInvariant, SlotsShape, Present, ConsumeSha256
<1>2. GrantsSpent'
  BY GrantAssumption
  DEF SlotsInvariant, SlotsShape, GrantsSpent, Holds, Present, ConsumeSha256
<1>3. Quiet BY DEF SlotsInvariant, SlotsShape, Quiet, Present
<1> QED BY <1>1, <1>2, <1>3, QuietTables DEF SlotsInvariant

LEMMA RefusedPreservesSlots ==
    ASSUME SlotsInvariant, NEW a \in Attempts, Refused(a)
    PROVE  SlotsInvariant'
<1>1. SlotsShape' BY DEF SlotsInvariant, SlotsShape, Refused
<1>2. GrantsSpent' BY DEF SlotsInvariant, SlotsShape, GrantsSpent, Holds, Refused
<1>3. Quiet BY DEF SlotsInvariant, SlotsShape, Quiet, Refused
<1> QED BY <1>1, <1>2, <1>3, QuietTables DEF SlotsInvariant

LEMMA AdmittedPreservesSlots ==
    ASSUME SlotsInvariant, NEW a \in Attempts, Admitted(a)
    PROVE  SlotsInvariant'
<1> DEFINE r == Route[a]
<1>1. /\ attempt[a] = "pending" /\ grant[a] # NoGrant /\ CanAdmit(a)
      /\ attempt' = [attempt EXCEPT ![a] = "attached"] /\ UNCHANGED <<grants, grant>>
  BY DEF Admitted
<1>2. /\ conn' \in [Attempts -> {"none", "open", "closing", "closed"}]
      /\ conn'[a] \in {"open", "closing"}
      /\ \A b \in Attempts \ {a} : conn'[b] = conn[b] \/ (conn[b] = "open" /\ conn'[b] = "closing")
  <2>1. [conn EXCEPT ![a] = "open"] \in [Attempts -> {"none", "open", "closing", "closed"}]
    BY DEF SlotsInvariant, SlotsShape
  <2>2. PICK sent, full : Deliver([conn EXCEPT ![a] = "open"], sent, full)
    BY DEF Admitted, Attach
  <2> QED BY <2>1, <2>2, Delivered DEF SlotsInvariant, SlotsShape
<1>3. conn[a] = "none" BY <1>1 DEF SlotsInvariant, SlotsShape, GrantsSpent
<1>4. /\ a \in Hosts => host' = [host EXCEPT ![r] = a] /\ UNCHANGED devices
      /\ a \notin Hosts => devices' = [devices EXCEPT ![r] = @ \cup {a}] /\ UNCHANGED host
  BY DEF Admitted, Attach
<1>5. SlotsShape'
  BY <1>1, <1>2, <1>4, Kinds DEF SlotsInvariant, SlotsShape
<1>6. GrantsSpent'
  BY <1>1, <1>2 DEF SlotsInvariant, SlotsShape, GrantsSpent, Holds
<1>7. /\ Connected(a)' /\ ~Connected(a)
      /\ \A b \in Attempts \ {a} : Connected(b)' <=> Connected(b)
  BY <1>2, <1>3 DEF Connected
<1>8. Exists(r) /\ a \in Hosts => host[r] = NoConn BY <1>1 DEF CanAdmit
<1>9. TablesExact'
  <2>1. a \in Hosts => host[r] = NoConn BY <1>8 DEF Exists
  <2> QED BY <1>4, <1>7, <2>1, Kinds DEF SlotsInvariant, SlotsShape, TablesExact
<1>10. WithinLimits'
  <2>1. Connections' = Connections \cup {a} /\ a \notin Connections
    BY <1>7 DEF Connections
  <2>2. IsFiniteSet(Connections') /\ Cardinality(Connections') <= MaxConnections
    <3>1. /\ IsFiniteSet(Connections) /\ Cardinality(Connections) < MaxConnections
      BY <1>1 DEF SlotsInvariant, WithinLimits, CanAdmit
    <3>2. Cardinality(Connections) \in Nat BY <3>1, FS_CardinalityType
    <3>3. IsFiniteSet(Connections \cup {a}) /\ Cardinality(Connections \cup {a}) = Cardinality(Connections) + 1
      BY <2>1, <3>1, FS_AddElement
    <3> QED BY <2>1, <3>1, <3>2, <3>3, Kinds
  <2>3. a \notin Hosts =>
          /\ Cardinality(devices'[r]) <= MaxDevices
          /\ \A d \in devices[r] : Endpoint[d] # Endpoint[a]
    <3>1. devices[r] \subseteq Connections
      BY Kinds DEF SlotsInvariant, SlotsShape, TablesExact, Connections
    <3>2. IsFiniteSet(devices[r]) BY <3>1, FS_Subset DEF SlotsInvariant, WithinLimits
    <3>3. a \notin Hosts => devices'[r] = devices[r] \cup {a}
      BY <1>4, Kinds DEF SlotsInvariant, SlotsShape
    <3>4. Exists(r) /\ a \notin Hosts =>
            /\ Cardinality(devices[r]) < MaxDevices
            /\ Endpoint[a] \notin {Endpoint[d] : d \in devices[r]}
      BY <1>1 DEF CanAdmit
    <3>5. ~Exists(r) => devices[r] = {} BY DEF Exists
    <3>6. CASE Exists(r)
      <4>1. Cardinality(devices[r]) \in Nat BY <3>2, FS_CardinalityType
      <4>2. Cardinality(devices[r] \cup {a}) <= Cardinality(devices[r]) + 1
        <5>1. Cardinality(devices[r] \cup {a}) =
                IF a \in devices[r] THEN Cardinality(devices[r]) ELSE Cardinality(devices[r]) + 1
          BY <3>2, FS_AddElement
        <5> QED BY <4>1, <5>1
      <4>3. Cardinality(devices[r] \cup {a}) \in Nat BY <3>2, FS_AddElement, FS_CardinalityType
      <4>4. a \notin Hosts => Cardinality(devices[r] \cup {a}) <= MaxDevices
        BY <3>4, <3>6, <4>1, <4>2, <4>3, Kinds
      <4> QED BY <3>3, <3>4, <3>6, <4>4
    <3>7. CASE ~Exists(r)
      <4>1. a \notin Hosts => devices'[r] = {a} BY <3>3, <3>5, <3>7
      <4>2. Cardinality({a}) = 1 BY FS_Singleton
      <4> QED BY <3>5, <3>7, <4>1, <4>2, Kinds
    <3> QED BY <3>6, <3>7
  <2>4. \A q \in Routes : q # r => devices'[q] = devices[q]
    BY <1>4 DEF SlotsInvariant, SlotsShape
  <2>5. a \notin Hosts => devices'[r] = devices[r] \cup {a}
      BY <1>4, Kinds DEF SlotsInvariant, SlotsShape
  <2> QED BY <1>4, <2>2, <2>3, <2>4, <2>5, Kinds DEF SlotsInvariant, WithinLimits
<1> QED BY <1>5, <1>6, <1>9, <1>10 DEF SlotsInvariant

LEMMA OnClosePreservesSlots ==
    ASSUME SlotsInvariant, NEW a \in Attempts, OnClose(a)
    PROVE  SlotsInvariant'
<1> DEFINE r == Route[a]
<1>1. Connected(a) /\ UNCHANGED <<grants, attempt, grant>>
  BY DEF OnClose, admission
<1>2. /\ conn' \in [Attempts -> {"none", "open", "closing", "closed"}]
      /\ conn'[a] = "closed"
      /\ \A b \in Attempts \ {a} : conn'[b] = conn[b] \/ (conn[b] = "open" /\ conn'[b] = "closing")
  <2>1. [conn EXCEPT ![a] = "closed"] \in [Attempts -> {"none", "open", "closing", "closed"}]
    BY DEF SlotsInvariant, SlotsShape
  <2>2. PICK sent, full : Deliver([conn EXCEPT ![a] = "closed"], sent, full)
    BY DEF OnClose, Leave
  <2>3. \A b \in Attempts : [conn EXCEPT ![a] = "closed"][b] = IF b = a THEN "closed" ELSE conn[b]
    BY DEF SlotsInvariant, SlotsShape
  <2> QED BY <2>1, <2>2, <2>3, Delivered
<1>3. /\ a \in Hosts => host' = [host EXCEPT ![r] = NoConn] /\ UNCHANGED devices
      /\ a \notin Hosts => devices' = [devices EXCEPT ![r] = @ \ {a}] /\ UNCHANGED host
  BY DEF OnClose, Leave
<1>4. SlotsShape'
  BY <1>1, <1>2, <1>3, Kinds DEF SlotsInvariant, SlotsShape
<1>5. GrantsSpent'
  BY <1>1, <1>2 DEF SlotsInvariant, SlotsShape, GrantsSpent, Holds, Connected
<1>6. /\ ~Connected(a)'
      /\ \A b \in Attempts \ {a} : Connected(b)' <=> Connected(b)
  BY <1>2 DEF Connected
<1>7. TablesExact'
  BY <1>1, <1>3, <1>6, Kinds DEF SlotsInvariant, SlotsShape, TablesExact
<1>8. WithinLimits'
  <2>1. Connections' = Connections \ {a} BY <1>6 DEF Connections
  <2>2. IsFiniteSet(Connections') /\ Cardinality(Connections') <= MaxConnections
    <3>1. IsFiniteSet(Connections) /\ Cardinality(Connections) <= MaxConnections /\ Connections' \subseteq Connections
      BY <2>1 DEF SlotsInvariant, WithinLimits
    <3>2. /\ IsFiniteSet(Connections') /\ Cardinality(Connections') <= Cardinality(Connections)
          /\ Cardinality(Connections) \in Nat /\ Cardinality(Connections') \in Nat
      BY <3>1, FS_Subset, FS_CardinalityType
    <3> QED BY <3>1, <3>2, Kinds
  <2>3. ASSUME NEW q \in Routes
        PROVE  devices'[q] \subseteq devices[q] /\ Cardinality(devices'[q]) <= MaxDevices
    <3>1. devices[q] \subseteq Connections
      BY Kinds DEF SlotsInvariant, SlotsShape, TablesExact, Connections
    <3>2. IsFiniteSet(devices[q]) BY <3>1, FS_Subset DEF SlotsInvariant, WithinLimits
    <3>3. devices'[q] \subseteq devices[q] BY <1>3 DEF SlotsInvariant, SlotsShape
    <3> QED BY <3>2, <3>3, FS_Subset, FS_CardinalityType, Kinds DEF SlotsInvariant, WithinLimits
  <2> QED BY <2>2, <2>3 DEF SlotsInvariant, WithinLimits
<1> QED BY <1>4, <1>5, <1>7, <1>8 DEF SlotsInvariant

LEMMA OnMessagePreservesSlots ==
    ASSUME SlotsInvariant, NEW a \in Attempts, OnMessage(a)
    PROVE  SlotsInvariant'
<1>1. PICK sent, full : Deliver(conn, sent, full)
  BY DEF OnMessage, Forward
<1>2. Quiet
  BY <1>1, Delivered DEF Quiet, OnMessage, SlotsInvariant, SlotsShape
<1> QED BY <1>2, QuietPreservesSlots DEF OnMessage, admission

LEMMA CloseConnectionPreservesSlots ==
    ASSUME SlotsInvariant, NEW a \in Attempts, CloseConnection(a)
    PROVE  SlotsInvariant'
<1>1. Quiet BY DEF Quiet, CloseConnection, SlotsInvariant, SlotsShape
<1> QED BY <1>1, QuietPreservesSlots DEF CloseConnection, admission

LEMMA StopPreservesSlots ==
    ASSUME SlotsInvariant, Stop
    PROVE  SlotsInvariant'
<1>1. Quiet BY DEF Quiet, Stop, SlotsInvariant, SlotsShape
<1> QED BY <1>1, QuietPreservesSlots DEF Stop

(* What a client does at its end is no step of the relay.                  *)
LEMMA ClientLeavesRelay ==
    ASSUME \/ \E a \in Attempts : Receive(a) \/ HangUp(a)
           \/ \E t \in Tunnels : TunnelStep(t)
    PROVE  UNCHANGED <<admission, conn, host, devices>>
<1>1. ASSUME NEW t, NEW new, Act(t, new) PROVE UNCHANGED <<admission, conn, host, devices>>
  BY <1>1 DEF Act
<1> QED BY <1>1 DEF Receive, HangUp, TunnelStep, ReceiptTimeout, LocalClose, Send, SendChunk,
      SendSettles, Next

(* Every step preserves SlotsInvariant.                                    *)
LEMMA SlotsStep == SlotsInvariant /\ [TunnelNext]_tunnelVars => SlotsInvariant'
<1> SUFFICES ASSUME SlotsInvariant, [TunnelNext]_tunnelVars PROVE SlotsInvariant'
  OBVIOUS
<1>1. ASSUME UNCHANGED <<admission, conn, host, devices>> PROVE SlotsInvariant'
  <2>1. Quiet BY <1>1 DEF Quiet, SlotsInvariant, SlotsShape
  <2> QED BY <1>1, <2>1, QuietPreservesSlots DEF admission
<1>2. CASE RelayStep
  BY <1>2, PresentPreservesSlots, AdmittedPreservesSlots, RefusedPreservesSlots,
     OnMessagePreservesSlots, CloseConnectionPreservesSlots, OnClosePreservesSlots,
     StopPreservesSlots DEF RelayStep
<1>3. CASE UNCHANGED tunnelVars
  BY <1>1, <1>3 DEF tunnelVars, relayVars, admission
<1> QED BY <1>1, <1>2, <1>3, ClientLeavesRelay DEF TunnelNext

LEMMA SlotsInit == TunnelInit => SlotsInvariant
<1> SUFFICES ASSUME TunnelInit PROVE SlotsInvariant
  OBVIOUS
<1> USE DEF TunnelInit, RelayInit
<1>1. SlotsShape BY DEF SlotsShape
<1>2. GrantsSpent BY DEF GrantsSpent, Holds
<1>3. TablesExact BY Kinds DEF TablesExact, Connected
<1>4. WithinLimits
  <2>1. Connections = {} BY DEF Connections, Connected
  <2> QED BY <2>1, FS_EmptySet, Kinds DEF WithinLimits
<1> QED BY <1>1, <1>2, <1>3, <1>4 DEF SlotsInvariant

(* The tables hold just the connections, so what is within the limits for  *)
(* the one is for the other.                                               *)
LEMMA SlotsFollow == SlotsInvariant => SlotsExclusive
<1> SUFFICES ASSUME SlotsInvariant PROVE SlotsExclusive
  OBVIOUS
<1>1. OneShotGrants
  BY DEF SlotsInvariant, GrantsSpent, Holds, OneShotGrants
<1>2. Cardinality(Connections) <= MaxConnections
  BY DEF SlotsInvariant, WithinLimits
<1>3. ASSUME NEW r \in Routes
      PROVE  /\ {a \in Connections \cap Hosts : Route[a] = r} = {host[r]} \cap Attempts
             /\ {a \in Connections \cap Devices : Route[a] = r} = devices[r]
  <2>1. \A a \in Hosts : Connected(a) <=> host[Route[a]] = a
    BY DEF SlotsInvariant, TablesExact
  <2>2. \A a \in Devices : Connected(a) <=> a \in devices[Route[a]]
    BY DEF SlotsInvariant, TablesExact
  <2>3. host[r] \in Hosts \cup {NoConn} /\ devices[r] \subseteq Devices
    BY DEF SlotsInvariant, SlotsShape
  <2>4. (host[r] # NoConn => Route[host[r]] = r) /\ \A d \in devices[r] : Route[d] = r
    BY DEF SlotsInvariant, TablesExact
  <2> QED BY <2>1, <2>2, <2>3, <2>4, Kinds DEF Connections
<1> QED BY <1>1, <1>2, <1>3 DEF SlotsInvariant, WithinLimits, SlotsExclusive

(* SlotsExclusive holds in every reachable state: however upgrades, grant  *)
(* lookups, closes and stop() interleave, for any attempts, grants, routes *)
(* and limits.                                                             *)
THEOREM SlotsExclusiveHolds == TunnelSpec => []SlotsExclusive
BY SlotsInit, SlotsStep, SlotsFollow, PTL DEF TunnelSpec

-----------------------------------------------------------------------------
(* What Append, Tail and Head return.                                      *)
LEMMA SeqFacts ==
    ASSUME NEW S, NEW s \in Seq(S), NEW e \in S
    PROVE  /\ Append(s, e) \in Seq(S) /\ Len(Append(s, e)) = Len(s) + 1 /\ Len(s) \in Nat
           /\ \A i \in 1..Len(s) + 1 : Append(s, e)[i] = IF i = Len(s) + 1 THEN e ELSE s[i]
           /\ s \o <<e>> = Append(s, e) /\ s \o <<>> = s
           /\ s # <<>> => /\ Tail(s) \in Seq(S) /\ Len(Tail(s)) = Len(s) - 1 /\ Head(s) = s[1]
                          /\ Head(s) \in S /\ Len(s) \in Nat \ {0}
                          /\ \A i \in 1..Len(s) - 1 : Tail(s)[i] = s[i + 1]
  OBVIOUS

(* A tunnel is of a device with itself, or of a host with a device of its  *)
(* route.                                                                  *)
LEMMA TunnelFacts ==
    /\ \A d \in Devices : <<d, d>> \in Tunnels /\ d \in Attempts
    /\ \A h \in Hosts, d \in Devices : <<h, d>> \in Tunnels <=> Route[h] = Route[d]
    /\ \A a \in Attempts, d \in Devices : <<a, d>> \in Tunnels /\ a \in Devices => a = d
    /\ \A t \in Tunnels : /\ Conn(t) \in Attempts /\ Channel(t) \in Devices /\ t = <<Conn(t), Channel(t)>>
                          /\ Route[Conn(t)] = Route[Channel(t)]
    /\ \A c, d : Conn(<<c, d>>) = c /\ Channel(<<c, d>>) = d
  BY Kinds DEF Tunnels, Conn, Channel

(* The writers at the other end: a host's is the device; a device's, any   *)
(* host.                                                                   *)
LEMMA WriterFacts ==
    /\ \A h \in Hosts, d \in Devices : <<h, d>> \in Tunnels =>
        \A w : w \in WritersTo(<<h, d>>) <=> w = <<d, d>>
    /\ \A d \in Devices : \A w :
        w \in WritersTo(<<d, d>>) <=> \E h \in Hosts : <<h, d>> \in Tunnels /\ w = <<h, d>>
<1>1. \A w, t : w \in WritersTo(t) <=> 
        /\ w \in Tunnels /\ t \in Tunnels /\ Channel(w) = Channel(t) /\ Conn(w) # Conn(t)
        /\ Channel(w) \in {Conn(w), Conn(t)}
  BY DEF WritersTo, Ends
<1>2. ASSUME NEW h \in Hosts, NEW d \in Devices, <<h, d>> \in Tunnels, NEW w
      PROVE w \in WritersTo(<<h, d>>) <=> w = <<d, d>>
  BY <1>1, <1>2, TunnelFacts, Kinds
<1>3. ASSUME NEW d \in Devices, NEW w
      PROVE w \in WritersTo(<<d, d>>) <=> \E h \in Hosts : <<h, d>> \in Tunnels /\ w = <<h, d>>
  <2>1. <<d, d>> \in Tunnels /\ Conn(<<d, d>>) = d /\ Channel(<<d, d>>) = d BY TunnelFacts
  <2>2. ASSUME w \in WritersTo(<<d, d>>) PROVE \E h \in Hosts : <<h, d>> \in Tunnels /\ w = <<h, d>>
    <3>1. w \in Tunnels /\ Channel(w) = d /\ Conn(w) # d BY <1>1, <2>1, <2>2
    <3>2. w = <<Conn(w), d>> /\ Conn(w) \in Hosts BY <3>1, TunnelFacts, Kinds
    <3> QED BY <3>1, <3>2
  <2>3. ASSUME NEW h \in Hosts, <<h, d>> \in Tunnels, w = <<h, d>> PROVE w \in WritersTo(<<d, d>>)
    <3>1. Conn(w) = h /\ Channel(w) = d /\ h # d BY <2>3, TunnelFacts, Kinds
    <3> QED BY <1>1, <2>1, <2>3, <3>1
  <2> QED BY <2>2, <2>3
<1> QED BY <1>2, <1>3

(* The four kinds of frames.                                               *)
LEMMA FrameFacts ==
    /\ \A d \in Devices :
        /\ PeerOpen(d) \in Frames /\ PeerOpen(d).kind = "peer_open" /\ PeerOpen(d).channel = d
        /\ PeerClose(d) \in Frames /\ PeerClose(d).kind = "peer_close" /\ PeerClose(d).channel = d
        /\ \A n \in Nat, t \in Tunnels, k \in Nat : LET f == Data(d, n, <<t, k>>) IN
            f \in Frames /\ f.kind = "data" /\ f.channel = d /\ f.id = n /\ f.load = <<t, k>>
        /\ \A n \in Nat, s \in {"accepted", "unavailable", "backpressure"} :
            LET f == Result(d, n, s) IN
            f \in Frames /\ f.kind = "forward_result" /\ f.channel = d /\ f.id = n /\ f.status = s
    /\ \A f \in Frames : f.channel \in Devices
    /\ \A f \in Frames : f.kind = "data" => f.id \in Nat
    /\ \A f \in Frames : f.kind \in {"peer_open", "peer_close", "data", "forward_result"}
    /\ \A f \in Frames : f.kind = "peer_open" => f = PeerOpen(f.channel)
    /\ \A f \in Frames : f.kind = "peer_close" => f = PeerClose(f.channel)
<1>1. \A d \in Devices :
        /\ PeerOpen(d) \in Frames /\ PeerOpen(d).kind = "peer_open" /\ PeerOpen(d).channel = d
        /\ PeerClose(d) \in Frames /\ PeerClose(d).kind = "peer_close" /\ PeerClose(d).channel = d
  BY DEF PeerOpen, PeerClose, Frames
<1>2. \A d \in Devices, n \in Nat, t \in Tunnels, k \in Nat : LET f == Data(d, n, <<t, k>>) IN
            f \in Frames /\ f.kind = "data" /\ f.channel = d /\ f.id = n /\ f.load = <<t, k>>
  BY DEF Data, Frames
<1>3. \A d \in Devices, n \in Nat, s \in {"accepted", "unavailable", "backpressure"} :
            LET f == Result(d, n, s) IN
            f \in Frames /\ f.kind = "forward_result" /\ f.channel = d /\ f.id = n /\ f.status = s
  BY DEF Result, Frames
<1>4. ASSUME NEW f \in Frames PROVE
        /\ f.channel \in Devices
        /\ f.kind = "data" => f.id \in Nat
        /\ f.kind \in {"peer_open", "peer_close", "data", "forward_result"}
        /\ f.kind = "peer_open" => f = PeerOpen(f.channel)
        /\ f.kind = "peer_close" => f = PeerClose(f.channel)
  BY DEF Frames, PeerOpen, PeerClose
<1> QED BY <1>1, <1>2, <1>3, <1>4

(* What a delivery does to the frames of a connection.                     *)
LEMMA DeliveredFrames ==
    ASSUME FramesShape, NEW state, NEW sent, NEW full, Deliver(state, sent, full),
           NEW c \in Attempts
    PROVE  /\ down'[c] = down[c] \/ (down'[c] = down[c] \o sent[c] /\ state[c] = "open" /\ (c \in alive \/ conn[c] = "none"))
           /\ sent[c] = <<>> => down'[c] = down[c] /\ conn'[c] = state[c]
           /\ conn'[c] = state[c] \/ (state[c] = "open" /\ conn'[c] = "closing")
           /\ \A f \in Frames : sent[c] = <<f>> =>
                \/ down'[c] = Append(down[c], f) /\ state[c] = "open" /\ (c \in alive \/ conn[c] = "none")
                \/ /\ down'[c] = down[c]
                   /\ conn'[c] # "open" \/ (c \notin alive /\ conn[c] # "none")
<1>1. down[c] \in Seq(Frames) BY DEF FramesShape
<1>2. /\ down'[c] = IF state[c] = "open" /\ c \notin full /\ (c \in alive \/ conn[c] = "none")
          THEN down[c] \o sent[c] ELSE down[c]
      /\ conn'[c] = IF state[c] = "open" /\ c \in full /\ sent[c] # <<>> THEN "closing" ELSE state[c]
  BY DEF Deliver
<1>3. down[c] \o <<>> = down[c] BY <1>1
<1>4. \A f \in Frames : down[c] \o <<f>> = Append(down[c], f) BY <1>1
<1> QED BY <1>2, <1>3, <1>4

-----------------------------------------------------------------------------
(* What becomes of a tunnel.                                               *)

(* A tunnel as a step may leave it.                                        *)
Sound(t, new) ==
    /\ new \in Tunnel
    /\ new.sent = new.acked + (IF new.receipt = NoReceipt THEN 0 ELSE 1)
    /\ new.sent <= new.handed
    /\ tun[t].handed <= new.handed
    /\ new.life = "none" => new = Absent /\ tun[t] = Absent
    /\ tun[t].life = "closed" => new.life = "closed"

LEMMA AbsentSound == Absent \in Tunnel /\ Absent.sent = 0 /\ Absent.acked = 0
    /\ Absent.receipt = NoReceipt /\ Absent.handed = 0 /\ Absent.life = "none"
    /\ Absent.queue = <<>> /\ Absent.given = <<>> /\ Absent.arrived = 0
  BY DEF Absent, Tunnel, NoReceipt

LEMMA SameSound ==
    ASSUME TunnelShape, NEW t \in Tunnels
    PROVE  Sound(t, tun[t])
  BY DEF TunnelShape, Tunnel, Sound

(* Steps that leave what the tunnel has read alone.                        *)
SameReading(t, new) ==
    /\ new.arrived = tun[t].arrived /\ new.queue = tun[t].queue /\ new.given = tun[t].given

(* A tunnel, over any sets of values for its fields.                       *)
Shape(L, N, R, Q) ==
    [life : L, handed : N, sent : N, acked : N, receipt : R, arrived : N, queue : Q, given : Q]

Lives == {"none", "open", "closed"}
Receipts == {NoReceipt} \cup SUBSET Whole
Chunks == Seq(Tunnels \X Nat)

LEMMA TunnelIsShape == Tunnel = Shape(Lives, Nat, Receipts, Chunks)
  BY DEF Tunnel, Shape, Lives, Receipts, Chunks

LEMMA Fields ==
    ASSUME NEW x \in Tunnel
    PROVE  /\ x.life \in {"none", "open", "closed"} /\ x.handed \in Nat /\ x.sent \in Nat
           /\ x.acked \in Nat /\ x.receipt \in Receipts /\ x.arrived \in Nat
           /\ x.queue \in Chunks /\ x.given \in Chunks
  BY DEF Tunnel, Chunks, Receipts

LEMMA FieldsSound ==
    ASSUME TunnelShape, NEW t \in Tunnels
    PROVE  /\ tun[t] \in Tunnel
           /\ tun[t].sent = tun[t].acked + (IF tun[t].receipt = NoReceipt THEN 0 ELSE 1)
           /\ tun[t].sent <= tun[t].handed
           /\ tun[t].life = "none" => tun[t] = Absent
           /\ Open(t) => Conn(t) \in alive
  BY DEF TunnelShape

(* Each thing a tunnel does leaves it sound, by action.                    *)
LEMMA EndedSound ==
    ASSUME TunnelShape, NEW t \in Tunnels
    PROVE  /\ Sound(t, Ended(t)) /\ Ended(t).given = tun[t].given /\ Ended(t).handed = tun[t].handed
           /\ Ended(t).life # "open"
           /\ tun[t].life # "none" => Ended(t).life = "closed"
<1>1. CASE Open(t)
  <2> DEFINE x == tun[t]
             new == Ended(t)
  <2>1. new = [Absent EXCEPT !.life = "closed", !.handed = x.handed, !.given = x.given]
    BY <1>1 DEF Ended
  <2>2. x \in Tunnel /\ x.handed \in Nat /\ x.given \in Chunks /\ "closed" \in Lives /\ 0 <= x.handed
    BY Fields, FieldsSound DEF Lives
  <2> HIDE DEF x, new
  <2>3. /\ new \in Tunnel /\ new.life = "closed" /\ new.handed = x.handed /\ new.given = x.given
        /\ new.sent = 0 /\ new.acked = 0 /\ new.receipt = NoReceipt
    BY <2>1, <2>2, TunnelIsShape, AbsentSound DEF Shape
  <2> QED BY <1>1, <2>2, <2>3 DEF Sound, Open, x, new
<1>2. CASE ~Open(t)
  BY <1>2, SameSound, Fields, FieldsSound DEF Ended, Open
<1> QED BY <1>1, <1>2

LEMMA SendSound ==
    ASSUME TunnelShape, NEW t \in Tunnels, Open(t)
    PROVE  LET new == [tun[t] EXCEPT !.handed = @ + 1] IN
           Sound(t, new) /\ SameReading(t, new) /\ new.life = "open" /\ new.handed = tun[t].handed + 1
<1> DEFINE x == tun[t]
           new == [tun[t] EXCEPT !.handed = @ + 1]
<1>1. x \in Tunnel /\ x.handed + 1 \in Nat /\ x.handed <= x.handed + 1 /\ x.sent <= x.handed + 1
  BY Fields, FieldsSound
<1>2. new = [x EXCEPT !.handed = x.handed + 1]
  OBVIOUS
<1> HIDE DEF new, x
<1>3. /\ new \in Tunnel /\ new.handed = x.handed + 1
      /\ new.life = x.life /\ new.sent = x.sent /\ new.acked = x.acked /\ new.receipt = x.receipt
      /\ new.arrived = x.arrived /\ new.queue = x.queue /\ new.given = x.given
  BY <1>1, <1>2, TunnelIsShape DEF Shape
<1> QED BY <1>1, <1>3, FieldsSound DEF Sound, SameReading, Open, x, new

LEMMA SendChunkSound ==
    ASSUME TunnelShape, NEW t \in Tunnels, Open(t), tun[t].receipt = NoReceipt, tun[t].acked < tun[t].handed
    PROVE  LET new == [tun[t] EXCEPT !.sent = @ + 1, !.receipt = {}] IN
           Sound(t, new) /\ SameReading(t, new) /\ new.life = "open" /\ new.handed = tun[t].handed
<1> DEFINE x == tun[t]
           new == [tun[t] EXCEPT !.sent = @ + 1, !.receipt = {}]
<1>1. x \in Tunnel /\ x.sent + 1 \in Nat /\ x.sent = x.acked /\ x.sent + 1 <= x.handed
  BY Fields, FieldsSound
<1>2. {} \in Receipts /\ {} # NoReceipt
  BY DEF Receipts, NoReceipt
<1>3. new = [x EXCEPT !.sent = x.sent + 1, !.receipt = {}]
  OBVIOUS
<1> HIDE DEF new, x
<1>4. /\ new \in Tunnel /\ new.sent = x.sent + 1 /\ new.receipt = {}
      /\ new.life = x.life /\ new.handed = x.handed /\ new.acked = x.acked
      /\ new.arrived = x.arrived /\ new.queue = x.queue /\ new.given = x.given
  BY <1>1, <1>2, <1>3, TunnelIsShape DEF Shape
<1> QED BY <1>1, <1>2, <1>4, Fields, FieldsSound DEF Sound, SameReading, Open, x, new

LEMMA ResolveSound ==
    ASSUME TunnelShape, NEW t \in Tunnels, Open(t), tun[t].receipt # NoReceipt, NEW s \in Whole
    PROVE  LET new == Resolve(t, tun[t].receipt \cup {s}) IN
           Sound(t, new) /\ SameReading(t, new) /\ new.life = "open" /\ new.handed = tun[t].handed
<1> DEFINE x == tun[t]
           r == x.receipt \cup {s}
           new == Resolve(t, tun[t].receipt \cup {s})
<1>1. r \in Receipts /\ r # NoReceipt /\ NoReceipt \in Receipts
  BY Fields, FieldsSound DEF Receipts, NoReceipt, Whole
<1>2. x \in Tunnel /\ x.acked + 1 \in Nat /\ x.sent = x.acked + 1
  BY Fields, FieldsSound
<1>3. new = IF r = Whole THEN [x EXCEPT !.receipt = NoReceipt, !.acked = x.acked + 1]
            ELSE [x EXCEPT !.receipt = r]
  BY DEF Resolve
<1> HIDE DEF new, x, r
<1>4. /\ new \in Tunnel /\ new.life = x.life /\ new.handed = x.handed /\ new.sent = x.sent
      /\ new.arrived = x.arrived /\ new.queue = x.queue /\ new.given = x.given
      /\ \/ new.receipt = NoReceipt /\ new.acked = x.acked + 1
         \/ new.receipt = r /\ new.acked = x.acked
  <2>1. CASE r = Whole
    <3>1. new = [x EXCEPT !.receipt = NoReceipt, !.acked = x.acked + 1]
      BY <1>3, <2>1
    <3>2. /\ new \in Tunnel /\ new.life = x.life /\ new.handed = x.handed /\ new.sent = x.sent
          /\ new.arrived = x.arrived /\ new.queue = x.queue /\ new.given = x.given
          /\ new.receipt = NoReceipt /\ new.acked = x.acked + 1
      BY <1>1, <1>2, <3>1, TunnelIsShape DEF Shape
    <3> QED BY <3>2
  <2>2. CASE r # Whole
    BY <1>1, <1>2, <1>3, <2>2, TunnelIsShape DEF Shape
  <2> QED BY <2>1, <2>2
<1> QED BY <1>1, <1>2, <1>4, Fields, FieldsSound DEF Sound, SameReading, Open, x, new

LEMMA NextSound ==
    ASSUME TunnelShape, NEW t \in Tunnels, Open(t), tun[t].queue # <<>>
    PROVE  LET new == [tun[t] EXCEPT !.given = Append(@, Head(tun[t].queue)), !.queue = Tail(@)] IN
           /\ Sound(t, new) /\ new.life = "open" /\ new.handed = tun[t].handed
           /\ new.arrived = tun[t].arrived
           /\ new.given = Append(tun[t].given, Head(tun[t].queue)) /\ new.queue = Tail(tun[t].queue)
<1> DEFINE x == tun[t]
           g == Append(tun[t].given, Head(tun[t].queue))
           q == Tail(tun[t].queue)
           new == [tun[t] EXCEPT !.given = Append(@, Head(tun[t].queue)), !.queue = Tail(@)]
<1>1. x \in Tunnel /\ q \in Chunks /\ g \in Chunks
  BY Fields, FieldsSound, SeqFacts DEF Chunks
<1>2. new = [x EXCEPT !.given = g, !.queue = q]
  OBVIOUS
<1> HIDE DEF new, g, q, x
<1>3. /\ new \in Tunnel /\ new.given = g /\ new.queue = q
      /\ new.life = x.life /\ new.handed = x.handed /\ new.sent = x.sent /\ new.acked = x.acked
      /\ new.receipt = x.receipt /\ new.arrived = x.arrived
  BY <1>1, <1>2, TunnelIsShape DEF Shape
<1>4. Sound(t, new) /\ new.life = "open"
  BY <1>1, <1>3, Fields, FieldsSound DEF Sound, Open, x
<1> QED BY <1>3, <1>4 DEF new, g, q, x

LEMMA AfterDataSound ==
    ASSUME TunnelShape, NEW t \in Tunnels, Open(t), NEW f \in Frames, f.kind = "data"
    PROVE  LET new == AfterData(t, f) IN
           /\ Sound(t, new) /\ new.handed = tun[t].handed /\ new.given = tun[t].given
           /\ \/ new = Ended(t)
              \/ /\ new.life = "open" /\ f.id = tun[t].arrived + 1
                 /\ new.queue = Append(tun[t].queue, f.load) /\ new.arrived = f.id
<1> DEFINE x == tun[t]
           q == Append(tun[t].queue, f.load)
           new == AfterData(t, f)
<1>1. CASE f.id = tun[t].arrived + 1 /\ Len(tun[t].queue) < MaxBufferedReads
  <2>1. f.load \in Tunnels \X Nat BY DEF Frames
  <2>2. x \in Tunnel /\ q \in Chunks /\ x.arrived + 1 \in Nat
    BY <2>1, Fields, FieldsSound, SeqFacts DEF Chunks
  <2>3. new = [x EXCEPT !.queue = q, !.arrived = x.arrived + 1]
    BY <1>1 DEF AfterData
  <2> HIDE DEF new, q, x
  <2>4. /\ new \in Tunnel /\ new.queue = q /\ new.arrived = x.arrived + 1
        /\ new.life = x.life /\ new.handed = x.handed /\ new.sent = x.sent /\ new.acked = x.acked
        /\ new.receipt = x.receipt /\ new.given = x.given
    BY <2>2, <2>3, TunnelIsShape DEF Shape
  <2>5. Sound(t, new) /\ new.life = "open"
    BY <2>2, <2>4, Fields, FieldsSound DEF Sound, Open, x
  <2> QED BY <1>1, <2>4, <2>5 DEF new, q, x
<1>2. CASE ~(f.id = tun[t].arrived + 1 /\ Len(tun[t].queue) < MaxBufferedReads)
  <2>1. new = Ended(t) BY <1>2 DEF AfterData
  <2> HIDE DEF new
  <2> QED BY <2>1, EndedSound DEF new
<1> QED BY <1>1, <1>2

(* Reading a frame leaves a tunnel sound, and does one of five things to   *)
(* it.                                                                     *)
LEMMA AfterSound ==
    ASSUME TunnelShape, NEW t \in Tunnels, NEW f \in Frames
    PROVE  LET new == After(t, f) IN
           /\ Sound(t, new) /\ new.handed = tun[t].handed /\ new.given = tun[t].given
           /\ \/ new = Ended(t) /\ new.life # "open"
              \/ /\ f.kind = "peer_open" /\ tun[t].life = "none"
                 /\ new.life = "open" /\ new.arrived = 0 /\ new.queue = <<>> /\ new.given = <<>>
              \/ f.kind # "peer_open" /\ ~Open(t) /\ new = tun[t]
              \/ f.kind = "data" /\ Open(t) /\ new = AfterData(t, f)
              \/ f.kind = "forward_result" /\ Open(t) /\ SameReading(t, new) /\ new.life = "open"
<1> DEFINE new == After(t, f)
<1>1. CASE f.kind = "peer_open"
  <2>1. CASE tun[t].life = "none"
    <3>1. tun[t] = Absent BY <2>1, FieldsSound
    <3>2. new = [Absent EXCEPT !.life = "open"] BY <1>1, <2>1, <3>1 DEF After
    <3>3. new = [life |-> "open", handed |-> 0, sent |-> 0, acked |-> 0, receipt |-> NoReceipt,
                 arrived |-> 0, queue |-> <<>>, given |-> <<>>]
      BY <3>2 DEF Absent
    <3> HIDE DEF new
    <3>4. /\ new \in Tunnel /\ new.life = "open" /\ new.handed = 0 /\ new.sent = 0 /\ new.acked = 0
          /\ new.receipt = NoReceipt /\ new.arrived = 0 /\ new.queue = <<>> /\ new.given = <<>>
      BY <3>3 DEF Tunnel
    <3>5. Sound(t, new) BY <3>1, <3>4, AbsentSound DEF Sound
    <3> QED BY <1>1, <2>1, <3>1, <3>4, <3>5, AbsentSound DEF new
  <2>2. CASE tun[t].life # "none"
    <3>1. new = Ended(t) BY <1>1, <2>2 DEF After
    <3> HIDE DEF new
    <3> QED BY <3>1, EndedSound DEF new
  <2> QED BY <2>1, <2>2
<1>2. CASE f.kind # "peer_open" /\ ~Open(t)
  <2>1. new = tun[t] BY <1>2 DEF After
  <2> HIDE DEF new
  <2> QED BY <1>2, <2>1, SameSound DEF new
<1>3. CASE f.kind = "data" /\ Open(t)
  <2>1. new = AfterData(t, f) BY <1>3 DEF After
  <2> HIDE DEF new
  <2> QED BY <1>3, <2>1, AfterDataSound DEF new
<1>4. CASE f.kind = "forward_result" /\ Open(t)
  <2>1. new = AfterResult(t, f) BY <1>4 DEF After
  <2>2. AfterResult(t, f) = Ended(t) \/
        (tun[t].receipt # NoReceipt /\ AfterResult(t, f) = Resolve(t, tun[t].receipt \cup {"received"}))
    BY DEF AfterResult
  <2> HIDE DEF new
  <2>3. CASE new = Ended(t) BY <2>3, EndedSound DEF new
  <2>4. CASE tun[t].receipt # NoReceipt /\ new = Resolve(t, tun[t].receipt \cup {"received"})
    <3>1. "received" \in Whole BY DEF Whole
    <3>2. Sound(t, new) /\ SameReading(t, new) /\ new.life = "open" /\ new.handed = tun[t].handed
      BY <1>4, <2>4, <3>1, ResolveSound
    <3> QED BY <1>4, <3>2 DEF new, SameReading
  <2> QED BY <2>1, <2>2, <2>3, <2>4
<1>5. CASE f.kind = "peer_close" /\ Open(t)
  <2>1. new = Ended(t) BY <1>5 DEF After, AfterPeerClose
  <2> HIDE DEF new
  <2> QED BY <2>1, EndedSound DEF new
<1> QED BY <1>1, <1>2, <1>3, <1>4, <1>5, FrameFacts
-----------------------------------------------------------------------------
(* What a step does to the frames and the tunnels.                         *)

(* A frame that may be on its way to connection c.                         *)
Fit(c, f) ==
    /\ <<c, f.channel>> \in Tunnels
    /\ f.kind = "data" => \E w \in WritersTo(<<c, f.channel>>) : FromWriter(f, w)
    /\ f.kind = "forward_result" => f.id \in 1..tun[<<c, f.channel>>].handed

HandedKept == \A t \in Tunnels : tun[t].handed <= tun'[t].handed

(* A frame that fits goes on fitting: writers only write more.             *)
LEMMA FitStays ==
    ASSUME TunnelShape, TunnelShape', HandedKept, NEW c, NEW f \in Frames, Fit(c, f)
    PROVE  Fit(c, f)'
<1>1. ASSUME NEW w \in Tunnels, FromWriter(f, w) PROVE FromWriter(f, w)'
  <2>1. tun[w].handed \in Nat /\ tun'[w].handed \in Nat
    BY Fields DEF TunnelShape
  <2> QED BY <1>1, <2>1 DEF FromWriter, HandedKept
<1>2. WritersTo(<<c, f.channel>>) \subseteq Tunnels
  BY DEF WritersTo
<1>3. ASSUME f.kind = "forward_result" PROVE f.id \in 1..tun'[<<c, f.channel>>].handed
  <2> DEFINE t == <<c, f.channel>>
  <2>1. t \in Tunnels /\ f.id \in 1..tun[t].handed BY <1>3 DEF Fit
  <2>2. tun[t].handed \in Nat /\ tun'[t].handed \in Nat /\ tun[t].handed <= tun'[t].handed
    BY <2>1, Fields DEF TunnelShape, HandedKept
  <2> HIDE DEF t
  <2>3. f.id \in 1..tun'[t].handed BY <2>1, <2>2
  <2> QED BY <2>3 DEF t
<1> QED BY <1>1, <1>2, <1>3 DEF Fit

(* What is sent, and where it goes.                                        *)
Fitting(sent) == \A c \in Attempts :
    sent[c] \in Seq(Frames) /\ \A i \in 1..Len(sent[c]) : Fit(c, sent[c][i])

FramesDown == \A a \in Attempts : \A i \in 1..Len(down[a]) : Fit(a, down[a][i])
FramesUp == \A a \in Attempts : \A i \in 1..Len(up[a]) :
    /\ <<a, up[a][i].channel>> \in Tunnels /\ up[a][i].kind = "data"
    /\ FromWriter(up[a][i], <<a, up[a][i].channel>>)

LEMMA FramesTrueIs == FramesTrue <=> FramesUp /\ FramesDown
  BY DEF FramesTrue, FramesUp, FramesDown, Fit

(* A delivery of fitting frames keeps every queue fitting.                 *)
LEMMA DeliveredFits ==
    ASSUME FramesShape, FramesDown, UNCHANGED tun,
           NEW state \in [Attempts -> {"none", "open", "closing", "closed"}],
           NEW sent, NEW full, Fitting(sent), Deliver(state, sent, full)
    PROVE  down' \in [Attempts -> Seq(Frames)] /\ FramesDown'
<1>1. ASSUME NEW c \in Attempts
      PROVE  down'[c] \in Seq(Frames) /\ \A i \in 1..Len(down'[c]) : Fit(c, down'[c][i])
  <2>1. down[c] \in Seq(Frames) /\ sent[c] \in Seq(Frames) BY DEF FramesShape, Fitting
  <2>2. down'[c] = down[c] \/ down'[c] = down[c] \o sent[c] BY DeliveredFrames
  <2>3. /\ down[c] \o sent[c] \in Seq(Frames) /\ Len(down[c] \o sent[c]) = Len(down[c]) + Len(sent[c])
        /\ \A j \in 1..Len(down[c]) + Len(sent[c]) :
              (down[c] \o sent[c])[j] = IF j <= Len(down[c]) THEN down[c][j] ELSE sent[c][j - Len(down[c])]
    BY <2>1, ConcatProperties
  <2>4. Len(down[c]) \in Nat /\ Len(sent[c]) \in Nat BY <2>1
  <2>a. \A m, n \in Nat : \A j \in 1..m + n : ~(j <= m) => j - m \in 1..n
    OBVIOUS
  <2>5. \A j \in 1..Len(down[c]) + Len(sent[c]) : ~(j <= Len(down[c])) => j - Len(down[c]) \in 1..Len(sent[c])
    BY <2>4, <2>a
  <2>6. \A j \in 1..Len(down[c]) + Len(sent[c]) : j <= Len(down[c]) => j \in 1..Len(down[c])
    BY <2>4
  <2>7. \A j \in 1..Len(down[c]) + Len(sent[c]) : Fit(c, (down[c] \o sent[c])[j])
    BY <2>3, <2>5, <2>6 DEF FramesDown, Fitting
  <2> QED BY <2>1, <2>2, <2>3, <2>7 DEF FramesDown
<1>2. down' = [a \in Attempts |-> down'[a]] BY DEF Deliver
<1>3. ASSUME NEW c, NEW f, Fit(c, f) PROVE Fit(c, f)'
  BY <1>3 DEF Fit, FromWriter
<1> QED BY <1>1, <1>2, <1>3 DEF FramesDown

(* The peers a host learns of when it attaches.                            *)
LEMMA PeersSent ==
    ASSUME NEW D \in SUBSET Devices, IsFiniteSet(D), NEW s, s = SetToSeq({PeerOpen(d) : d \in D})
    PROVE  /\ s \in Seq(Frames)
           /\ \A i \in 1..Len(s) : \E d \in D : s[i] = PeerOpen(d)
           /\ \A d \in D : \E i \in 1..Len(s) : s[i] = PeerOpen(d)
<1> DEFINE P == {PeerOpen(d) : d \in D}
           open == [d \in D |-> PeerOpen(d)]
           n == Cardinality(P)
<1>1. open \in Surjection(D, P)
  BY DEF Surjection
<1>2. IsFiniteSet(P)
  BY <1>1, FS_Surjection
<1>3. n \in Nat /\ ExistsBijection(1..n, P)
  BY <1>2, FS_CardinalityType
<1>4. \E f : f \in [1..n -> P] /\ IsInjective(f)
  BY <1>3 DEF ExistsBijection, Bijection, Injection
<1>5. s \in [1..n -> P] /\ IsInjective(s)
  <2>1. s = CHOOSE f \in [1..n -> P] : IsInjective(f) BY DEF SetToSeq
  <2> HIDE DEF P, n
  <2> QED BY <1>4, <2>1
<1>6. P \subseteq Frames
  BY FrameFacts
<1> HIDE DEF n
<1>7. s \in Seq(Frames) /\ Len(s) = n
  BY <1>3, <1>5, <1>6
<1>8. \A i \in 1..Len(s) : s[i] \in P
  BY <1>5, <1>7
<1>9. \A d \in D : \E i \in 1..Len(s) : s[i] = PeerOpen(d)
  <2>1. s \in Injection(1..n, P) BY <1>5 DEF Injection, IsInjective
  <2>2. IsFiniteSet(1..n) /\ Cardinality(1..n) = n BY <1>3, FS_Interval
  <2>3. n = Cardinality(P) BY DEF n
  <2> HIDE DEF P
  <2>4. s \in Surjection(1..n, P) BY <1>2, <2>1, <2>2, <2>3, FS_Injection
  <2> QED BY <1>7, <2>4 DEF Surjection, P
<1> QED BY <1>7, <1>8, <1>9

LEMMA Alone ==
    ASSUME NEW c \in Attempts, NEW f \in Frames, Fit(c, f), NEW s, s = <<f>> \/ s = <<>>
    PROVE  s \in Seq(Frames) /\ \A i \in 1..Len(s) : Fit(c, s[i])
<1>1. CASE s = <<f>>
  <2>1. s \in Seq(Frames) /\ Len(s) = 1 /\ s[1] = f BY <1>1
  <2>2. \A i \in 1..Len(s) : i = 1 BY <2>1
  <2> QED BY <2>1, <2>2
<1>2. CASE s = <<>>
  <2>1. s \in Seq(Frames) /\ Len(s) = 0 BY <1>2
  <2> QED BY <2>1
<1> QED BY <1>1, <1>2

LEMMA ControlFits ==
    ASSUME NEW c \in Attempts, NEW d \in Devices, <<c, d>> \in Tunnels
    PROVE  Fit(c, PeerOpen(d)) /\ Fit(c, PeerClose(d))
<1>1. /\ PeerOpen(d).kind = "peer_open" /\ PeerOpen(d).channel = d
      /\ PeerClose(d).kind = "peer_close" /\ PeerClose(d).channel = d
  BY DEF PeerOpen, PeerClose
<1> QED BY <1>1 DEF Fit

(* What is sent when a connection attaches.                                *)
AttachSends(a, sent) ==
    /\ Fitting(sent)
    /\ \A d \in Devices : sent[d] =
          IF a \in Hosts /\ d \in devices[Route[a]] THEN <<PeerOpen(d)>>
          ELSE IF a = d /\ host[Route[d]] # NoConn THEN <<PeerOpen(d)>> ELSE <<>>
    /\ \A h \in Hosts \ {a} : sent[h] =
          IF a \in Devices /\ h = host[Route[a]] THEN <<PeerOpen(a)>> ELSE <<>>
    /\ a \in Hosts =>
        /\ \A i \in 1..Len(sent[a]) : \E d \in devices[Route[a]] : sent[a][i] = PeerOpen(d)
        /\ \A d \in devices[Route[a]] : \E i \in 1..Len(sent[a]) : sent[a][i] = PeerOpen(d)

LEMMA AttachedSends ==
    ASSUME SlotsInvariant, NEW a \in Attempts, Admitted(a)
    PROVE  \E sent : \E full \in Overflowing :
              AttachSends(a, sent) /\ Deliver([conn EXCEPT ![a] = "open"], sent, full)
<1> DEFINE r == Route[a]
           sent == IF a \in Hosts
                   THEN [c \in Attempts |-> IF c \in devices[r] THEN <<PeerOpen(c)>>
                          ELSE IF c = a THEN SetToSeq({PeerOpen(d) : d \in devices[r]}) ELSE <<>>]
                   ELSE [c \in Attempts |-> IF c \in {a, host[r]} /\ host[r] # NoConn
                                            THEN <<PeerOpen(a)>> ELSE <<>>]
<1>1. \E full \in Overflowing : Deliver([conn EXCEPT ![a] = "open"], sent, full)
  BY DEF Admitted, Attach
<1>2. /\ devices[r] \subseteq Devices /\ IsFiniteSet(devices[r])
      /\ \A d \in devices[r] : Route[d] = r
      /\ host[r] \in Hosts \cup {NoConn} /\ (host[r] # NoConn => Route[host[r]] = r)
      /\ r \in Routes
  <2>1. devices[r] \subseteq Connections
    BY Kinds DEF SlotsInvariant, SlotsShape, TablesExact, Connections
  <2> QED BY <2>1, Kinds, FS_Subset DEF SlotsInvariant, SlotsShape, TablesExact, WithinLimits
<1>3. CASE a \in Hosts
  <2>1. ASSUME NEW d \in devices[r] PROVE <<a, d>> \in Tunnels /\ <<d, d>> \in Tunnels /\ d # a
    <3>1. d \in Devices /\ Route[d] = Route[a] BY <1>2
    <3> QED BY <1>3, <3>1, TunnelFacts, Kinds
  <2>2. /\ \A c \in devices[r] : sent[c] = <<PeerOpen(c)>>
        /\ sent[a] = SetToSeq({PeerOpen(d) : d \in devices[r]})
        /\ \A c \in Attempts : c \notin devices[r] /\ c # a => sent[c] = <<>>
    BY <1>2, <1>3, <2>1, Kinds
  <2> HIDE DEF sent
  <2>3. /\ sent[a] \in Seq(Frames)
        /\ \A i \in 1..Len(sent[a]) : \E d \in devices[r] : sent[a][i] = PeerOpen(d)
        /\ \A d \in devices[r] : \E i \in 1..Len(sent[a]) : sent[a][i] = PeerOpen(d)
    <3> DEFINE D == devices[r]
    <3>1. sent[a] = SetToSeq({PeerOpen(d) : d \in D}) BY <2>2
    <3>2. D \in SUBSET Devices /\ IsFiniteSet(D) BY <1>2
    <3> HIDE DEF D
    <3>3. /\ sent[a] \in Seq(Frames)
          /\ \A i \in 1..Len(sent[a]) : \E d \in D : sent[a][i] = PeerOpen(d)
          /\ \A d \in D : \E i \in 1..Len(sent[a]) : sent[a][i] = PeerOpen(d)
      BY <3>1, <3>2, PeersSent, Zenon
    <3> QED BY <3>3 DEF D
  <2>4. \A i \in 1..Len(sent[a]) : Fit(a, sent[a][i])
    BY <1>2, <2>1, <2>3, ControlFits
  <2>5. ASSUME NEW c \in Attempts
        PROVE  sent[c] \in Seq(Frames) /\ \A i \in 1..Len(sent[c]) : Fit(c, sent[c][i])
    <3>1. CASE c \in devices[r]
      <4>1. c \in Devices /\ sent[c] = <<PeerOpen(c)>> /\ <<c, c>> \in Tunnels
        BY <1>2, <2>1, <2>2, <3>1
      <4>2. PeerOpen(c) \in Frames /\ Fit(c, PeerOpen(c)) BY <4>1, ControlFits, FrameFacts
      <4> QED BY <4>1, <4>2, Alone
    <3>2. CASE c = a BY <2>3, <2>4, <3>2
    <3>3. CASE c \notin devices[r] /\ c # a
      <4>1. sent[c] = <<>> BY <2>2, <3>3
      <4>2. sent[c] \in Seq(Frames) /\ Len(sent[c]) = 0 BY <4>1
      <4> QED BY <4>2
    <3> QED BY <3>1, <3>2, <3>3
  <2>6. AttachSends(a, sent)
    BY <1>2, <1>3, <2>2, <2>3, <2>5, Kinds DEF AttachSends, Fitting
  <2> QED BY <1>1, <2>6
<1>4. CASE a \in Devices
  <2>1. host[r] # NoConn => <<host[r], a>> \in Tunnels /\ <<a, a>> \in Tunnels /\ host[r] # a
    BY <1>2, <1>4, TunnelFacts, Kinds
  <2>2. \A c \in Attempts :
          sent[c] = IF c \in {a, host[r]} /\ host[r] # NoConn THEN <<PeerOpen(a)>> ELSE <<>>
    BY <1>4, Kinds
  <2> HIDE DEF sent
  <2>3. ASSUME NEW c \in Attempts
        PROVE  sent[c] \in Seq(Frames) /\ \A i \in 1..Len(sent[c]) : Fit(c, sent[c][i])
    <3>1. CASE c \in {a, host[r]} /\ host[r] # NoConn
      BY <1>4, <2>1, <2>2, <3>1, Alone, ControlFits, FrameFacts
    <3>2. CASE ~(c \in {a, host[r]} /\ host[r] # NoConn)
      <4>1. sent[c] = <<>> BY <2>2, <3>2
      <4>2. sent[c] \in Seq(Frames) /\ Len(sent[c]) = 0 BY <4>1
      <4> QED BY <4>2
    <3> QED BY <3>1, <3>2
  <2>4. AttachSends(a, sent)
    BY <1>2, <1>4, <2>1, <2>2, <2>3, Kinds DEF AttachSends, Fitting
  <2> QED BY <1>1, <2>4
<1> QED BY <1>3, <1>4, Kinds

(* What is sent when a connection is gone.                                 *)
LeaveSends(a, sent) ==
    /\ Fitting(sent)
    /\ \A d \in Devices : sent[d] =
          IF a \in Hosts /\ d \in devices[Route[a]] THEN <<PeerClose(d)>> ELSE <<>>
    /\ \A h \in Hosts : sent[h] =
          IF a \in Devices /\ h = host[Route[a]] THEN <<PeerClose(a)>> ELSE <<>>

LEMMA LeftSends ==
    ASSUME SlotsInvariant, NEW a \in Attempts, OnClose(a)
    PROVE  \E sent : \E full \in Overflowing :
              LeaveSends(a, sent) /\ Deliver([conn EXCEPT ![a] = "closed"], sent, full)
<1> DEFINE r == Route[a]
           sent == [c \in Attempts |-> IF c \in Told(a) THEN <<PeerClose(IF a \in Hosts THEN c ELSE a)>>
                                       ELSE <<>>]
<1>1. \E full \in Overflowing : Deliver([conn EXCEPT ![a] = "closed"], sent, full)
  BY DEF OnClose, Leave
<1>2. /\ devices[r] \subseteq Devices
      /\ \A d \in devices[r] : Route[d] = r
      /\ host[r] \in Hosts \cup {NoConn} /\ (host[r] # NoConn => Route[host[r]] = r)
  BY Kinds DEF SlotsInvariant, SlotsShape, TablesExact
<1>3. \A c \in Attempts : sent[c] = IF c \in Told(a) THEN <<PeerClose(IF a \in Hosts THEN c ELSE a)>>
                                    ELSE <<>>
  OBVIOUS
<1> HIDE DEF sent
<1>4. ASSUME NEW c \in Attempts
      PROVE  sent[c] \in Seq(Frames) /\ \A i \in 1..Len(sent[c]) : Fit(c, sent[c][i])
  <2>1. CASE c \in Told(a)
    <3> DEFINE d == IF a \in Hosts THEN c ELSE a
    <3>1. d \in Devices /\ <<c, d>> \in Tunnels
      BY <1>2, <2>1, TunnelFacts, Kinds DEF Told
    <3>2. PeerClose(d) \in Frames /\ Fit(c, PeerClose(d)) BY <3>1, ControlFits, FrameFacts
    <3>3. sent[c] = <<PeerClose(d)>> BY <1>3, <2>1
    <3> HIDE DEF d
    <3> QED BY <3>2, <3>3, Alone
  <2>2. CASE c \notin Told(a)
    <3>1. sent[c] = <<>> BY <1>3, <2>2
    <3>2. sent[c] \in Seq(Frames) /\ Len(sent[c]) = 0 BY <3>1
    <3> QED BY <3>2
  <2> QED BY <2>1, <2>2
<1>5. LeaveSends(a, sent)
  BY <1>2, <1>3, <1>4, Kinds DEF LeaveSends, Fitting, Told
<1> QED BY <1>1, <1>5

(* A frame that is forwarded: f, of connection a, with its verdict.         *)
Forwarded(a, f, status, sent, full) ==
    LET d == f.channel
        c == Recipient(a, d)
        g == Result(d, f.id, status)
    IN  /\ f \in Frames /\ f.kind = "data" /\ <<a, d>> \in Tunnels /\ FromWriter(f, <<a, d>>)
        /\ d \in Devices /\ Route[a] = Route[d] /\ f.id \in Nat
        /\ Deliver(conn, sent, full)
        /\ status \in {"accepted", "unavailable", "backpressure"}
        /\ status = "accepted" => c # NoConn /\ conn[c] = "open" /\ c \notin full
        /\ c # a
        /\ c # NoConn => /\ c \in Attempts /\ <<c, d>> \in Tunnels /\ <<a, d>> \in WritersTo(<<c, d>>)
                         /\ c \in Devices => c = d /\ a \in Hosts
        /\ host[Route[a]] \in Hosts \cup {NoConn} /\ devices[Route[a]] \subseteq Devices
        /\ host[Route[a]] # NoConn => Route[host[Route[a]]] = Route[a]
        /\ a \in Hosts => host[Route[a]] = a
        /\ sent[a] = <<g>>
        /\ \A b \in Attempts : b # a => sent[b] = IF status = "accepted" /\ b = c THEN <<f>> ELSE <<>>

LEMMA ForwardedOne ==
    ASSUME SlotsInvariant, FramesShape, FramesTrue, NEW a \in Attempts, OnMessage(a)
    PROVE  \E f, status, sent, full : Forwarded(a, f, status, sent, full)
<1> DEFINE f == Head(up[a])
           d == f.channel
           c == Recipient(a, d)
<1>1. /\ f \in Frames /\ f.kind = "data" /\ <<a, d>> \in Tunnels /\ FromWriter(f, <<a, d>>)
      /\ d \in Devices /\ Route[a] = Route[d] /\ f.id \in Nat
  <2>1. up[a] \in Seq(Frames) /\ up[a] # <<>> BY DEF FramesShape, OnMessage
  <2>2. f = up[a][1] /\ f \in Frames /\ 1 \in 1..Len(up[a]) BY <2>1, SeqFacts
  <2>3. f.kind = "data" /\ <<a, d>> \in Tunnels /\ FromWriter(f, <<a, d>>)
    BY <2>2 DEF FramesTrue
  <2> QED BY <2>2, <2>3, FrameFacts, TunnelFacts
<1>2. PICK status \in Statuses(a, d), full \in Overflowing :
        Deliver(conn, [b \in Attempts |->
              (IF status = "accepted" /\ b = c THEN <<f>> ELSE <<>>)
              \o (IF b = a THEN <<Receipt(f, status)>> ELSE <<>>)],
              IF status = "accepted" THEN full \ {c} ELSE full)
  BY DEF OnMessage, Forward
<1> DEFINE sent == [b \in Attempts |->
              (IF status = "accepted" /\ b = c THEN <<f>> ELSE <<>>)
              \o (IF b = a THEN <<Receipt(f, status)>> ELSE <<>>)]
           g == Receipt(f, status)
           fit == IF status = "accepted" THEN full \ {c} ELSE full
<1>3. /\ status \in {"accepted", "unavailable", "backpressure"}
      /\ status = "accepted" => c # NoConn /\ conn[c] = "open"
  BY <1>2 DEF Statuses
<1>4. /\ host[Route[a]] \in Hosts \cup {NoConn} /\ devices[Route[a]] \subseteq Devices
      /\ host[Route[a]] # NoConn => Route[host[Route[a]]] = Route[a]
      /\ a \in Hosts => host[Route[a]] = a
  BY Kinds DEF SlotsInvariant, SlotsShape, TablesExact, OnMessage, Connected
<1>5. /\ c # a
      /\ c # NoConn => /\ c \in Attempts /\ <<c, d>> \in Tunnels /\ <<a, d>> \in WritersTo(<<c, d>>)
                       /\ c \in Devices => c = d /\ a \in Hosts
  <2>1. CASE a \in Devices
    <3>1. a = d /\ c = host[Route[a]] BY <1>1, <2>1, TunnelFacts DEF Recipient
    <3>2. c # a /\ (c # NoConn => c \in Hosts /\ Route[c] = Route[d]) BY <1>1, <1>4, <2>1, <3>1, Kinds
    <3>3. c # NoConn => <<c, d>> \in Tunnels BY <1>1, <3>2, TunnelFacts
    <3>4. c # NoConn => <<a, d>> \in WritersTo(<<c, d>>) BY <1>1, <3>1, <3>2, <3>3, WriterFacts
    <3> QED BY <3>2, <3>3, <3>4, Kinds
  <2>2. CASE a \in Hosts
    <3>1. c = d \/ c = NoConn BY <2>2, Kinds DEF Recipient
    <3> QED BY <1>1, <2>2, <3>1, TunnelFacts, WriterFacts, Kinds
  <2> QED BY <2>1, <2>2, Kinds
<1>6. /\ sent[a] = <<g>>
      /\ \A b \in Attempts : b # a => sent[b] = IF status = "accepted" /\ b = c THEN <<f>> ELSE <<>>
  <2>1. \A x : <<>> \o <<x>> = <<x>> /\ <<x>> \o <<>> = <<x>> /\ <<>> \o <<>> = <<>>
    OBVIOUS
  <2>2. \A b \in Attempts : sent[b] = (IF status = "accepted" /\ b = c THEN <<f>> ELSE <<>>)
                                     \o (IF b = a THEN <<g>> ELSE <<>>)
    OBVIOUS
  <2> HIDE DEF sent, f, g, c, d
  <2> QED BY <1>5, <2>1, <2>2
<1>7. Deliver(conn, sent, fit) /\ (status = "accepted" => c \notin fit) BY <1>2
<1>8. g = Result(d, f.id, status) BY DEF Receipt
<1> HIDE DEF f, c, g, d, sent, fit
<1>9. Forwarded(a, f, status, sent, fit)
  BY <1>1, <1>3, <1>4, <1>5, <1>6, <1>7, <1>8 DEF Forwarded, c, d
<1> QED BY <1>9

(* What is sent when a frame is forwarded: the frame to the other end of   *)
(* its channel, and the receipt to the one who sent it.                    *)
ForwardSends(a, sent) ==
    /\ Fitting(sent)
    /\ \A d \in Devices :
        \/ sent[d] = <<>>
        \/ a = d /\ ~Fresh(d) /\ \E f \in Frames : f.kind = "forward_result" /\ sent[d] = <<f>>
        \/ /\ a \in Hosts /\ a = host[Route[d]]
           /\ \E f \in Frames : f.kind = "data" /\ f.load[1] = <<a, d>> /\ sent[d] = <<f>>
    /\ \A h \in Hosts :
        \/ sent[h] = <<>>
        \/ \E f \in Frames : f.kind \in {"data", "forward_result"} /\ sent[h] = <<f>>

LEMMA ForwardedSends ==
    ASSUME SlotsInvariant, FramesShape, TunnelShape, FramesTrue, NEW a \in Attempts, OnMessage(a)
    PROVE  \E sent, full : ForwardSends(a, sent) /\ Deliver(conn, sent, full)
<1>1. PICK f, status, sent, full : Forwarded(a, f, status, sent, full) BY ForwardedOne
<1> DEFINE d == f.channel
           c == Recipient(a, d)
           g == Result(d, f.id, status)
<1>2. /\ f \in Frames /\ f.kind = "data" /\ <<a, d>> \in Tunnels /\ FromWriter(f, <<a, d>>)
      /\ d \in Devices /\ Route[a] = Route[d] /\ f.id \in Nat
      /\ status \in {"accepted", "unavailable", "backpressure"} /\ (status = "accepted" => c # NoConn)
  BY <1>1 DEF Forwarded
<1>4. host[Route[a]] \in Hosts \cup {NoConn} /\ (a \in Hosts => host[Route[a]] = a)
  BY <1>1 DEF Forwarded
<1>5. /\ c # a
      /\ c # NoConn => /\ c \in Attempts /\ <<c, d>> \in Tunnels /\ <<a, d>> \in WritersTo(<<c, d>>)
                       /\ c \in Devices => c = d /\ a \in Hosts
  BY <1>1 DEF Forwarded
<1>6. /\ g \in Frames /\ g.kind = "forward_result" /\ g.channel = d /\ g.id = f.id
  BY <1>2, FrameFacts
<1>9. /\ sent[a] = <<g>>
      /\ \A b \in Attempts : b # a => sent[b] = IF status = "accepted" /\ b = c THEN <<f>> ELSE <<>>
  BY <1>1 DEF Forwarded
<1> HIDE DEF c, g, d
<1>7. Fit(a, g)
  BY <1>2, <1>6 DEF Fit, FromWriter
<1>8. c # NoConn => Fit(c, f)
  BY <1>2, <1>5 DEF Fit, d
<1>10. Fitting(sent)
  <2>1. ASSUME NEW b \in Attempts
        PROVE  sent[b] \in Seq(Frames) /\ \A i \in 1..Len(sent[b]) : Fit(b, sent[b][i])
    <3>1. CASE b = a BY <1>6, <1>7, <1>9, <3>1, Alone
    <3>2. CASE b # a /\ c # NoConn /\ b = c BY <1>2, <1>8, <1>9, <3>2, Alone
    <3>3. CASE b # a /\ ~(c # NoConn /\ b = c)
      <4>1. sent[b] = <<>> BY <1>2, <1>9, <3>3
      <4>2. sent[b] \in Seq(Frames) /\ Len(sent[b]) = 0 BY <4>1
      <4> QED BY <4>2
    <3> QED BY <3>1, <3>2, <3>3
  <2> QED BY <2>1 DEF Fitting
<1>11. a \in Devices => a = d /\ ~Fresh(a)
  <2>1. ASSUME a \in Devices PROVE a = d /\ ~Fresh(a)
    <3>1. a = d BY <1>2, <2>1, TunnelFacts
    <3>2. tun[<<a, a>>].handed # 0 BY <1>2, <3>1, Fields, FieldsSound DEF FromWriter
    <3>3. <<a, a>> \in Tunnels BY <1>2, <3>1
    <3> QED BY <3>1, <3>2, <3>3, FieldsSound, AbsentSound DEF Fresh
  <2> QED BY <2>1
<1>12. ForwardSends(a, sent)
  <2>1. ASSUME NEW e \in Devices PROVE
        \/ sent[e] = <<>>
        \/ a = e /\ ~Fresh(e) /\ \E x \in Frames : x.kind = "forward_result" /\ sent[e] = <<x>>
        \/ /\ a \in Hosts /\ a = host[Route[e]]
           /\ \E x \in Frames : x.kind = "data" /\ x.load[1] = <<a, e>> /\ sent[e] = <<x>>
    <3>1. CASE a = e BY <1>6, <1>9, <1>11, <3>1
    <3>2. CASE a # e /\ status = "accepted" /\ e = c
      <4>1. e = d /\ a \in Hosts BY <1>2, <1>5, <3>2
      <4>2. f.load[1] = <<a, d>> BY <1>2 DEF FromWriter
      <4> QED BY <1>2, <1>4, <1>9, <3>2, <4>1, <4>2, Kinds
    <3>3. CASE a # e /\ ~(status = "accepted" /\ e = c) BY <1>9, <3>3, Kinds
    <3> QED BY <3>1, <3>2, <3>3
  <2>2. ASSUME NEW h \in Hosts PROVE
        \/ sent[h] = <<>>
        \/ \E x \in Frames : x.kind \in {"data", "forward_result"} /\ sent[h] = <<x>>
    BY <1>2, <1>6, <1>9, Kinds
  <2> QED BY <1>10, <2>1, <2>2 DEF ForwardSends
<1>13. Deliver(conn, sent, full) BY <1>1 DEF Forwarded
<1> QED BY <1>12, <1>13

(* A tunnel changes soundly, and its connection has read some frames.      *)
LEMMA BecomeStep ==
    ASSUME TunnelShape, FramesShape, FramesDown, NEW t \in Tunnels, NEW new, Sound(t, new),
           new.life = "open" => Conn(t) \in alive, conn[Conn(t)] # "none",
           NEW rest \in Seq(Frames), \A i \in 1..Len(rest) : Fit(Conn(t), rest[i]),
           Become(t, new, rest), UNCHANGED conn
    PROVE  /\ TunnelShape' /\ HandedKept /\ FramesDown'
           /\ alive' \subseteq alive /\ down' \in [Attempts -> Seq(Frames)]
           /\ \A a \in Attempts : conn'[a] = "none" => a \notin alive' /\ down'[a] = <<>>
           /\ tun'[t] = new /\ \A u \in Tunnels \ {t} : tun'[u] = tun[u]
           /\ \A a \in Attempts \ {Conn(t)} : down'[a] = down[a] /\ (a \in alive' <=> a \in alive)
           /\ down'[Conn(t)] = IF new.life = "closed" /\ Conn(t) \in Devices THEN <<>> ELSE rest
           /\ Conn(t) \in alive' <=> Conn(t) \in alive /\ ~(new.life = "closed" /\ Conn(t) \in Devices)
<1> DEFINE a == Conn(t)
           over == new.life = "closed" /\ Conn(t) \in Devices
<1>1. /\ tun' = [tun EXCEPT ![t] = new]
      /\ alive' = IF over THEN alive \ {a} ELSE alive
      /\ down' = [down EXCEPT ![a] = IF over THEN <<>> ELSE rest]
  BY DEF Become
<1>2. a \in Attempts /\ tun \in [Tunnels -> Tunnel] /\ new \in Tunnel
  BY TunnelFacts DEF TunnelShape, Sound
<1>3. tun' \in [Tunnels -> Tunnel] /\ tun'[t] = new /\ \A u \in Tunnels \ {t} : tun'[u] = tun[u]
  BY <1>1, <1>2
<1>4. /\ down' \in [Attempts -> Seq(Frames)] /\ down'[a] = (IF over THEN <<>> ELSE rest)
      /\ \A b \in Attempts \ {a} : down'[b] = down[b]
  BY <1>1, <1>2 DEF FramesShape
<1>5. HandedKept
  <2>1. ASSUME NEW u \in Tunnels PROVE tun[u].handed <= tun'[u].handed
    BY <1>3, Fields, FieldsSound DEF Sound
  <2> QED BY <2>1 DEF HandedKept
<1>6. TunnelShape'
  <2>1. ASSUME NEW u \in Tunnels PROVE
        /\ Open(u)' => Conn(u) \in alive'
        /\ tun'[u].sent = tun'[u].acked + (IF tun'[u].receipt = NoReceipt THEN 0 ELSE 1)
        /\ tun'[u].sent <= tun'[u].handed
        /\ tun'[u].life = "none" => tun'[u] = Absent
    <3>1. CASE u = t
      BY <1>1, <1>3, <3>1 DEF Sound, Open
    <3>2. CASE u # t
      <4>1. Conn(u) = a => ~over
        <5>1. ASSUME Conn(u) = a, a \in Devices PROVE FALSE
          <6>1. u = <<a, Channel(u)>> /\ t = <<a, Channel(t)>> /\ Channel(u) \in Devices /\ Channel(t) \in Devices
            BY <5>1, TunnelFacts
          <6>2. Channel(u) = a /\ Channel(t) = a BY <1>2, <5>1, <6>1, TunnelFacts
          <6> QED BY <3>2, <6>1, <6>2
        <5> QED BY <5>1
      <4> QED BY <1>1, <1>3, <3>2, <4>1, FieldsSound DEF Open
    <3> QED BY <3>1, <3>2
  <2> QED BY <1>3, <2>1 DEF TunnelShape
<1>7. FramesDown'
  <2>1. ASSUME NEW b \in Attempts, NEW i \in 1..Len(down'[b])
        PROVE  down'[b][i] \in Frames /\ Fit(b, down'[b][i])
    <3>1. down'[b] \in Seq(Frames) BY <1>4
    <3>2. down'[b][i] \in Frames BY <3>1
    <3>3. Fit(b, down'[b][i])
      <4>1. CASE b # a BY <1>4, <2>1, <4>1 DEF FramesDown
      <4>2. CASE b = a /\ ~over BY <1>4, <2>1, <4>2
      <4>3. CASE b = a /\ over
        <5>1. Len(down'[b]) = 0 BY <1>4, <4>3
        <5> QED BY <2>1, <5>1
      <4> QED BY <4>1, <4>2, <4>3
    <3> QED BY <3>2, <3>3
  <2>2. ASSUME NEW b, NEW f \in Frames, Fit(b, f) PROVE Fit(b, f)'
    BY <1>5, <1>6, <2>2, FitStays
  <2> QED BY <2>1, <2>2 DEF FramesDown
<1>8. \A b \in Attempts : conn'[b] = "none" => b \notin alive' /\ down'[b] = <<>>
  BY <1>1, <1>4 DEF FramesShape
<1> QED BY <1>1, <1>2, <1>3, <1>4, <1>5, <1>6, <1>7, <1>8

(* What a tunnel does by itself leaves its connection's frames alone.      *)
LEMMA ActIs ==
    ASSUME TunnelShape, FramesShape, NEW t \in Tunnels, NEW new, Act(t, new)
    PROVE  /\ Open(t) /\ Become(t, new, down[Conn(t)]) /\ UNCHANGED <<conn, host, devices>>
           /\ down[Conn(t)] \in Seq(Frames) /\ Conn(t) \in alive /\ conn[Conn(t)] # "none"
  BY TunnelFacts, FieldsSound DEF Act, FramesShape

(* What a tunnel does by itself, as one change of its record.              *)
LEMMA TunnelStepSound ==
    ASSUME TunnelShape, NEW t \in Tunnels, TunnelStep(t)
    PROVE  \E new : /\ Act(t, new) /\ Sound(t, new)
                    /\ \/ up' = up
                       \/ /\ up' = [up EXCEPT ![Conn(t)] =
                                Append(@, Data(Channel(t), tun[t].sent + 1, <<t, tun[t].sent + 1>>))]
                          /\ tun[t].sent + 1 <= tun[t].handed
                    /\ \/ new = Ended(t)
                       \/ new.life = "open" /\ SameReading(t, new)
                       \/ /\ new.life = "open" /\ new.arrived = tun[t].arrived /\ tun[t].queue # <<>>
                          /\ new.given = Append(tun[t].given, Head(tun[t].queue))
                          /\ new.queue = Tail(tun[t].queue)
<1>1. CASE ReceiptTimeout(t) \/ LocalClose(t)
  BY <1>1, EndedSound DEF ReceiptTimeout, LocalClose, TimedOut
<1>2. CASE Send(t)
  <2>1. Act(t, [tun[t] EXCEPT !.handed = @ + 1]) /\ up' = up /\ Open(t) BY <1>2 DEF Send, Act
  <2> QED BY <2>1, SendSound
<1>3. CASE SendChunk(t)
  <2>1. /\ Act(t, [tun[t] EXCEPT !.sent = @ + 1, !.receipt = {}]) /\ Open(t)
        /\ tun[t].receipt = NoReceipt /\ tun[t].acked < tun[t].handed
        /\ up' = [up EXCEPT ![Conn(t)] =
              Append(@, Data(Channel(t), tun[t].sent + 1, <<t, tun[t].acked + 1>>))]
    BY <1>3 DEF SendChunk, Act
  <2>2. tun[t].sent = tun[t].acked /\ tun[t].sent + 1 <= tun[t].handed
    BY <2>1, Fields, FieldsSound
  <2> QED BY <2>1, <2>2, SendChunkSound
<1>4. CASE SendSettles(t)
  <2>1. "settled" \in Whole BY DEF Whole
  <2>2. Act(t, Resolve(t, tun[t].receipt \cup {"settled"})) /\ Open(t) /\ tun[t].receipt # NoReceipt /\ up' = up
    BY <1>4 DEF SendSettles, Act
  <2> QED BY <2>1, <2>2, ResolveSound
<1>5. CASE Next(t)
  <2>1. /\ Act(t, [tun[t] EXCEPT !.given = Append(@, Head(tun[t].queue)), !.queue = Tail(@)])
        /\ Open(t) /\ tun[t].queue # <<>> /\ up' = up
    BY <1>5 DEF Next, Act
  <2> QED BY <2>1, NextSound
<1> QED BY <1>1, <1>2, <1>3, <1>4, <1>5 DEF TunnelStep

(* What goes up stays true as the relay takes it or drops it.              *)
LEMMA FramesUpStays ==
    ASSUME TunnelShape, TunnelShape', HandedKept, FramesShape, FramesUp,
           \A a \in Attempts : \/ up'[a] = up[a] \/ up'[a] = <<>>
                               \/ up[a] # <<>> /\ up'[a] = Tail(up[a])
    PROVE  FramesUp' /\ \A a \in Attempts : up'[a] \in Seq(Frames)
<1>1. ASSUME NEW w \in Tunnels, NEW f, FromWriter(f, w) PROVE FromWriter(f, w)'
  <2>1. tun[w].handed \in Nat /\ tun'[w].handed \in Nat BY Fields DEF TunnelShape
  <2> QED BY <1>1, <2>1 DEF FromWriter, HandedKept
<1>2. ASSUME NEW a \in Attempts
      PROVE  /\ up'[a] \in Seq(Frames)
             /\ \A i \in 1..Len(up'[a]) : \E j \in 1..Len(up[a]) : up'[a][i] = up[a][j]
  <2>1. up[a] \in Seq(Frames) BY DEF FramesShape
  <2>2. CASE up'[a] = up[a] BY <2>1, <2>2
  <2>3. CASE up'[a] = <<>>
    <3>1. up'[a] \in Seq(Frames) /\ Len(up'[a]) = 0 BY <2>3
    <3> QED BY <3>1
  <2>4. CASE up[a] # <<>> /\ up'[a] = Tail(up[a])
    <3>1. /\ up'[a] \in Seq(Frames) /\ Len(up'[a]) = Len(up[a]) - 1 /\ Len(up[a]) \in Nat
          /\ \A i \in 1..Len(up[a]) - 1 : up'[a][i] = up[a][i + 1]
      BY <2>1, <2>4, SeqFacts
    <3>2. \A i \in 1..Len(up[a]) - 1 : i + 1 \in 1..Len(up[a]) BY <3>1
    <3> QED BY <3>1, <3>2
  <2> QED BY <2>2, <2>3, <2>4
<1>3. ASSUME NEW a \in Attempts, NEW i \in 1..Len(up'[a])
      PROVE  /\ <<a, up'[a][i].channel>> \in Tunnels /\ up'[a][i].kind = "data"
             /\ FromWriter(up'[a][i], <<a, up'[a][i].channel>>)
  <2>1. PICK j \in 1..Len(up[a]) : up'[a][i] = up[a][j] BY <1>2
  <2> QED BY <2>1 DEF FramesUp
<1> QED BY <1>1, <1>2, <1>3 DEF FramesUp

(* What a step of the relay does to the frames, and to its clients.        *)
RelayMoves ==
    /\ down' \in [Attempts -> Seq(Frames)] /\ FramesDown'
    /\ up' = [b \in Attempts |-> up'[b]]
    /\ \A b \in Attempts :
        /\ up'[b] = up[b] \/ up'[b] = <<>> \/ (up[b] # <<>> /\ up'[b] = Tail(up[b]))
        /\ conn'[b] = "none" =>
              conn[b] = "none" /\ down'[b] = down[b] /\ up'[b] = up[b] /\ (b \in alive' => b \in alive)
    /\ alive \subseteq alive' /\ alive' \subseteq Attempts

LEMMA DeliverMoves ==
    ASSUME SlotsInvariant, FramesShape, FramesDown, UNCHANGED tun,
           NEW state \in [Attempts -> {"none", "open", "closing", "closed"}],
           NEW sent, NEW full, Fitting(sent), Deliver(state, sent, full),
           NEW a \in Attempts, \A b \in Attempts \ {a} : state[b] = conn[b], state[a] # "none",
           NEW s, up' = [up EXCEPT ![a] = s], s = up[a] \/ s = <<>> \/ (up[a] # <<>> /\ s = Tail(up[a])),
           alive \subseteq alive', alive' \subseteq alive \cup {a}
    PROVE  RelayMoves
<1>1. down' \in [Attempts -> Seq(Frames)] /\ FramesDown'
  BY DeliveredFits
<1>2. ASSUME NEW b \in Attempts, conn'[b] = "none" PROVE b # a /\ conn[b] = "none" /\ down'[b] = down[b]
  <2>1. conn'[b] = state[b] \/ conn'[b] = "closing" BY DeliveredFrames
  <2>2. state[b] = "none" /\ b # a BY <1>2, <2>1
  <2>3. down'[b] = down[b] \/ state[b] = "open" BY DeliveredFrames
  <2> QED BY <2>2, <2>3
<1>3. up \in [Attempts -> Seq(Frames)] /\ alive \subseteq Attempts BY DEF FramesShape
<1> QED BY <1>1, <1>2, <1>3 DEF RelayMoves

LEMMA QuietMoves ==
    ASSUME FramesShape, FramesDown, UNCHANGED <<tun, alive, up, down>>,
           \A b \in Attempts : conn'[b] = "none" => conn[b] = "none"
    PROVE  RelayMoves
<1>1. FramesDown' BY DEF FramesDown, Fit, FromWriter
<1> QED BY <1>1 DEF RelayMoves, FramesShape

(* Every action of the relay is such a move.                               *)
LEMMA RelayStepMoves ==
    ASSUME SlotsInvariant, FramesShape, TunnelShape, FramesTrue, RelayStep, UNCHANGED tun
    PROVE  RelayMoves
<1>1. FramesDown BY FramesTrueIs
<1>2. conn \in [Attempts -> {"none", "open", "closing", "closed"}]
  BY DEF SlotsInvariant, SlotsShape
<1>3. /\ up \in [Attempts -> Seq(Frames)]
      /\ \A a \in Attempts : up = [up EXCEPT ![a] = up[a]]
  BY DEF FramesShape
<1>4. ASSUME NEW a \in Attempts, Admitted(a) PROVE RelayMoves
  <2>1. PICK sent, full : AttachSends(a, sent) /\ Deliver([conn EXCEPT ![a] = "open"], sent, full)
    BY <1>4, AttachedSends
  <2> DEFINE state == [conn EXCEPT ![a] = "open"]
  <2>2. /\ state \in [Attempts -> {"none", "open", "closing", "closed"}]
        /\ state[a] # "none" /\ \A b \in Attempts \ {a} : state[b] = conn[b]
    BY <1>2
  <2>3. up' = [up EXCEPT ![a] = up[a]] /\ alive' = alive \cup {a}
    BY <1>3, <1>4 DEF Admitted
  <2> HIDE DEF state
  <2>4. Fitting(sent) /\ Deliver(state, sent, full) BY <2>1 DEF AttachSends, state
  <2> QED BY <1>1, <2>2, <2>3, <2>4, DeliverMoves
<1>5. ASSUME NEW a \in Attempts, OnClose(a) PROVE RelayMoves
  <2>1. PICK sent, full : LeaveSends(a, sent) /\ Deliver([conn EXCEPT ![a] = "closed"], sent, full)
    BY <1>5, LeftSends
  <2> DEFINE state == [conn EXCEPT ![a] = "closed"]
  <2>2. /\ state \in [Attempts -> {"none", "open", "closing", "closed"}]
        /\ state[a] # "none" /\ \A b \in Attempts \ {a} : state[b] = conn[b]
    BY <1>2
  <2>3. up' = [up EXCEPT ![a] = <<>>] /\ alive' = alive
    BY <1>5 DEF OnClose
  <2> HIDE DEF state
  <2>4. Fitting(sent) /\ Deliver(state, sent, full) BY <2>1 DEF LeaveSends, state
  <2> QED BY <1>1, <2>2, <2>3, <2>4, DeliverMoves
<1>6. ASSUME NEW a \in Attempts, OnMessage(a) PROVE RelayMoves
  <2>1. PICK sent, full : ForwardSends(a, sent) /\ Deliver(conn, sent, full)
    BY <1>6, ForwardedSends
  <2>2. /\ up' = [up EXCEPT ![a] = Tail(up[a])] /\ up[a] # <<>> /\ alive' = alive /\ conn[a] # "none"
    BY <1>6 DEF OnMessage
  <2>3. Fitting(sent) BY <2>1 DEF ForwardSends
  <2> QED BY <1>1, <1>2, <2>1, <2>2, <2>3, DeliverMoves
<1>7. ASSUME NEW a \in Attempts, NEW g \in Grants, Present(a, g) PROVE RelayMoves
  BY <1>1, <1>7, QuietMoves DEF Present
<1>8. ASSUME NEW a \in Attempts, Refused(a) PROVE RelayMoves
  BY <1>1, <1>8, QuietMoves DEF Refused
<1>9. ASSUME NEW a \in Attempts, CloseConnection(a) PROVE RelayMoves
  BY <1>1, <1>2, <1>9, QuietMoves DEF CloseConnection
<1>10. ASSUME Stop PROVE RelayMoves
  BY <1>1, <1>10, QuietMoves DEF Stop
<1> QED BY <1>4, <1>5, <1>6, <1>7, <1>8, <1>9, <1>10 DEF RelayStep

LEMMA RelayMovesSound ==
    ASSUME FramesShape, TunnelShape, FramesTrue, RelayMoves, UNCHANGED tun
    PROVE  FramesShape' /\ TunnelShape' /\ FramesTrue' /\ HandedKept
<1>1. TunnelShape' BY DEF TunnelShape, RelayMoves, Open
<1>2. HandedKept BY Fields, FieldsSound DEF HandedKept
<1>3. FramesUp' /\ \A a \in Attempts : up'[a] \in Seq(Frames)
  BY <1>1, <1>2, FramesTrueIs, FramesUpStays DEF RelayMoves
<1>4. FramesShape'
  BY <1>3 DEF FramesShape, RelayMoves
<1>5. FramesTrue'
  BY <1>3 DEF FramesTrue, FramesUp, FramesDown, Fit, RelayMoves
<1> QED BY <1>1, <1>2, <1>4, <1>5

LEMMA TunnelStepFrames ==
    ASSUME SlotsInvariant, FramesShape, TunnelShape, FramesTrue, NEW t \in Tunnels, TunnelStep(t)
    PROVE  FramesShape' /\ TunnelShape' /\ FramesTrue' /\ HandedKept
<1> DEFINE a == Conn(t)
<1>1. PICK new :
        /\ Act(t, new) /\ Sound(t, new)
        /\ \/ up' = up
           \/ /\ up' = [up EXCEPT ![a] =
                    Append(@, Data(Channel(t), tun[t].sent + 1, <<t, tun[t].sent + 1>>))]
              /\ tun[t].sent + 1 <= tun[t].handed
  BY TunnelStepSound
<1>2. FramesUp /\ FramesDown BY FramesTrueIs
<1>3. a \in Attempts /\ down[a] \in Seq(Frames) /\ \A i \in 1..Len(down[a]) : Fit(a, down[a][i])
  BY <1>2, TunnelFacts DEF FramesShape, FramesDown
<1>4. Become(t, new, down[a]) /\ UNCHANGED conn /\ a \in alive /\ conn[a] # "none"
  BY <1>1, ActIs
<1>5. /\ TunnelShape' /\ HandedKept /\ FramesDown'
      /\ alive' \subseteq alive /\ down' \in [Attempts -> Seq(Frames)]
      /\ \A b \in Attempts : conn'[b] = "none" => b \notin alive' /\ down'[b] = <<>>
  BY <1>1, <1>2, <1>3, <1>4, BecomeStep
<1>6. FramesUp' /\ up' \in [Attempts -> Seq(Frames)]
      /\ \A b \in Attempts : conn'[b] = "none" => up'[b] = <<>>
  <2>1. up \in [Attempts -> Seq(Frames)] /\ \A b \in Attempts : conn[b] = "none" => up[b] = <<>>
    BY DEF FramesShape
  <2>2. CASE up' = up
    <3>1. FramesUp' /\ \A b \in Attempts : up'[b] \in Seq(Frames)
      BY <1>2, <1>5, <2>2, FramesUpStays
    <3> QED BY <1>4, <2>1, <2>2, <3>1
  <2>3. CASE up' # up
    <3>0. PICK f : f = Data(Channel(t), tun[t].sent + 1, <<t, tun[t].sent + 1>>)
      OBVIOUS
    <3>1. /\ up' = [up EXCEPT ![a] = Append(up[a], f)] /\ tun[t].sent + 1 <= tun[t].handed
      BY <1>1, <2>3, <3>0
    <3>2. tun[t].sent \in Nat /\ tun[t].sent + 1 \in Nat /\ tun[t].handed \in Nat /\ tun'[t].handed \in Nat
          /\ tun[t].handed <= tun'[t].handed
      BY <1>5, Fields, FieldsSound DEF HandedKept, TunnelShape
    <3>3. /\ f \in Frames /\ f.kind = "data" /\ f.channel = Channel(t) /\ f.id = tun[t].sent + 1
          /\ f.load = <<t, f.id>>
      BY <3>0, <3>2, TunnelFacts DEF Data, Frames
    <3>4. f.id \in 1..tun'[t].handed /\ t = <<a, f.channel>>
      BY <3>1, <3>2, <3>3, TunnelFacts
    <3>5. up'[a] = Append(up[a], f) /\ \A b \in Attempts \ {a} : up'[b] = up[b]
      BY <1>3, <2>1, <3>1
    <3>6. /\ up'[a] \in Seq(Frames) /\ Len(up'[a]) = Len(up[a]) + 1 /\ Len(up[a]) \in Nat
          /\ \A i \in 1..Len(up[a]) + 1 : up'[a][i] = IF i = Len(up[a]) + 1 THEN f ELSE up[a][i]
      BY <1>3, <2>1, <3>3, <3>5, SeqFacts
    <3>7. ASSUME NEW w \in Tunnels, NEW e, FromWriter(e, w) PROVE FromWriter(e, w)'
      <4>1. tun[w].handed \in Nat /\ tun'[w].handed \in Nat BY <1>5, Fields DEF TunnelShape
      <4> QED BY <1>5, <3>7, <4>1 DEF FromWriter, HandedKept
    <3>8. FromWriter(f, t)' BY <3>3, <3>4 DEF FromWriter
    <3>9. ASSUME NEW b \in Attempts, NEW i \in 1..Len(up'[b])
          PROVE  \/ b = a /\ up'[b][i] = f
                 \/ i \in 1..Len(up[b]) /\ up'[b][i] = up[b][i]
      BY <3>5, <3>6, <3>9
    <3>10. FramesUp'
      BY <1>2, <3>3, <3>4, <3>7, <3>8, <3>9 DEF FramesUp
    <3>11. up' \in [Attempts -> Seq(Frames)]
      BY <2>1, <3>1, <3>5, <3>6
    <3> QED BY <1>4, <2>1, <3>5, <3>10, <3>11
  <2> QED BY <2>2, <2>3
<1>7. FramesShape' BY <1>5, <1>6 DEF FramesShape
<1>8. FramesTrue' BY <1>5, <1>6 DEF FramesTrue, FramesUp, FramesDown, Fit
<1> QED BY <1>5, <1>7, <1>8

(* What it means that a client reads a frame.                              *)
LEMMA ReceiveIs ==
    ASSUME SlotsInvariant, FramesShape, TunnelShape, FramesTrue, NEW c \in Attempts, Receive(c)
    PROVE  \E f \in Frames, d \in Devices : LET t == <<c, d>> IN
           /\ f.channel = d /\ t \in Tunnels /\ f = down[c][1] /\ Fit(c, f)
           /\ c \in alive /\ conn[c] # "none" /\ down[c] # <<>>
           /\ Become(t, After(t, f), Tail(down[c])) /\ Sound(t, After(t, f))
           /\ Tail(down[c]) \in Seq(Frames) /\ \A i \in 1..Len(Tail(down[c])) : Fit(c, Tail(down[c])[i])
           /\ UNCHANGED <<conn, host, devices, up>>
<1> DEFINE f == Head(down[c])
           d == f.channel
<1>1. /\ c \in alive /\ down[c] # <<>> /\ down[c] \in Seq(Frames) /\ conn[c] # "none"
      /\ FramesDown
  BY FramesTrueIs DEF Receive, FramesShape
<1>2. /\ f = down[c][1] /\ f \in Frames /\ 1 \in 1..Len(down[c]) /\ Tail(down[c]) \in Seq(Frames)
      /\ Len(Tail(down[c])) = Len(down[c]) - 1 /\ Len(down[c]) \in Nat
      /\ \A i \in 1..Len(down[c]) - 1 : Tail(down[c])[i] = down[c][i + 1]
  BY <1>1, SeqFacts
<1>3. Fit(c, f) /\ <<c, d>> \in Tunnels /\ d \in Devices
  BY <1>1, <1>2, FrameFacts DEF FramesDown, Fit
<1>4. \A i \in 1..Len(Tail(down[c])) : Fit(c, Tail(down[c])[i])
  <2>1. \A i \in 1..Len(Tail(down[c])) : i \in 1..Len(down[c]) - 1 /\ i + 1 \in 1..Len(down[c])
    BY <1>2
  <2>2. \A i \in 1..Len(down[c]) : Fit(c, down[c][i]) BY <1>1 DEF FramesDown
  <2> HIDE DEF Fit
  <2> QED BY <1>2, <2>1, <2>2
<1>5. Become(<<c, d>>, After(<<c, d>>, f), Tail(down[c])) /\ UNCHANGED <<conn, host, devices, up>>
  BY DEF Receive
<1>6. Sound(<<c, d>>, After(<<c, d>>, f))
  BY <1>2, <1>3, AfterSound
<1> HIDE DEF f, d
<1> QED BY <1>1, <1>2, <1>3, <1>4, <1>5, <1>6 DEF d

LEMMA ReceiveFrames ==
    ASSUME SlotsInvariant, FramesShape, TunnelShape, FramesTrue, NEW c \in Attempts, Receive(c)
    PROVE  FramesShape' /\ TunnelShape' /\ FramesTrue' /\ HandedKept
<1>1. PICK f \in Frames, d \in Devices : LET t == <<c, d>> IN
           /\ f.channel = d /\ t \in Tunnels /\ f = down[c][1] /\ Fit(c, f)
           /\ c \in alive /\ conn[c] # "none" /\ down[c] # <<>>
           /\ Become(t, After(t, f), Tail(down[c])) /\ Sound(t, After(t, f))
           /\ Tail(down[c]) \in Seq(Frames) /\ \A i \in 1..Len(Tail(down[c])) : Fit(c, Tail(down[c])[i])
           /\ UNCHANGED <<conn, host, devices, up>>
  BY ReceiveIs
<1> DEFINE t == <<c, d>>
<1>2. FramesUp /\ FramesDown /\ Conn(t) = c BY FramesTrueIs, TunnelFacts
<1>3. /\ TunnelShape' /\ HandedKept /\ FramesDown'
      /\ alive' \subseteq alive /\ down' \in [Attempts -> Seq(Frames)]
      /\ \A b \in Attempts : conn'[b] = "none" => b \notin alive' /\ down'[b] = <<>>
  BY <1>1, <1>2, BecomeStep
<1>4. FramesUp' BY <1>1, <1>2, <1>3, FramesUpStays
<1>5. FramesShape' BY <1>1, <1>3 DEF FramesShape
<1>6. FramesTrue' BY <1>3, <1>4 DEF FramesTrue, FramesUp, FramesDown, Fit
<1> QED BY <1>3, <1>5, <1>6

LEMMA HangUpFrames ==
    ASSUME SlotsInvariant, FramesShape, TunnelShape, FramesTrue, NEW c \in Attempts, HangUp(c)
    PROVE  FramesShape' /\ TunnelShape' /\ FramesTrue' /\ HandedKept
<1>1. /\ alive' = alive \ {c} /\ down' = [down EXCEPT ![c] = <<>>]
      /\ tun' = [t \in Tunnels |-> IF Conn(t) = c THEN Ended(t) ELSE tun[t]]
      /\ UNCHANGED <<conn, host, devices, up>>
  BY DEF HangUp
<1>2. FramesUp /\ FramesDown BY FramesTrueIs
<1>3. ASSUME NEW t \in Tunnels
      PROVE  /\ tun'[t] \in Tunnel /\ tun[t].handed <= tun'[t].handed
             /\ Open(t)' => Conn(t) \in alive'
             /\ tun'[t].sent = tun'[t].acked + (IF tun'[t].receipt = NoReceipt THEN 0 ELSE 1)
             /\ tun'[t].sent <= tun'[t].handed
             /\ tun'[t].life = "none" => tun'[t] = Absent
  <2>1. CASE Conn(t) = c
    <3>1. tun'[t] = Ended(t) BY <1>1, <2>1
    <3>2. Sound(t, Ended(t)) /\ Ended(t).life # "open" BY EndedSound
    <3> QED BY <3>1, <3>2 DEF Sound, Open
  <2>2. CASE Conn(t) # c
    <3>1. tun'[t] = tun[t] BY <1>1, <2>2
    <3> QED BY <1>1, <2>2, <3>1, FieldsSound, Fields DEF Open
  <2> QED BY <2>1, <2>2
<1>4. TunnelShape' /\ HandedKept
  <2>1. tun' \in [Tunnels -> Tunnel] BY <1>1, <1>3
  <2> QED BY <1>3, <2>1 DEF TunnelShape, HandedKept
<1>5. down' \in [Attempts -> Seq(Frames)] /\ down'[c] = <<>> /\ \A b \in Attempts \ {c} : down'[b] = down[b]
  BY <1>1 DEF FramesShape
<1>6. FramesDown'
  <2>1. ASSUME NEW b \in Attempts, NEW i \in 1..Len(down'[b]) PROVE down'[b][i] \in Frames /\ Fit(b, down'[b][i])
    <3>1. b # c
      <4>1. Len(down'[c]) = 0 BY <1>5
      <4> QED BY <2>1, <4>1
    <3>2. down[b] \in Seq(Frames) BY DEF FramesShape
    <3> QED BY <1>2, <1>5, <2>1, <3>1, <3>2 DEF FramesDown
  <2>2. ASSUME NEW b, NEW f \in Frames, Fit(b, f) PROVE Fit(b, f)'
    BY <1>4, <2>2, FitStays
  <2> QED BY <2>1, <2>2 DEF FramesDown
<1>7. FramesUp' BY <1>1, <1>2, <1>4, FramesUpStays
<1>8. FramesShape' BY <1>1, <1>5 DEF FramesShape
<1>9. FramesTrue' BY <1>6, <1>7 DEF FramesTrue, FramesUp, FramesDown, Fit
<1> QED BY <1>4, <1>8, <1>9

(* Every step preserves FramesShape, TunnelShape and FramesTrue, and       *)
(* unwrites nothing.                                                       *)
LEMMA FramesStep ==
    ASSUME SlotsInvariant, FramesShape, TunnelShape, FramesTrue, TunnelNext
    PROVE  FramesShape' /\ TunnelShape' /\ FramesTrue' /\ HandedKept
<1>1. CASE RelayStep /\ UNCHANGED tun
  BY <1>1, RelayStepMoves, RelayMovesSound
<1> QED BY <1>1, ReceiveFrames, HangUpFrames, TunnelStepFrames DEF TunnelNext

-----------------------------------------------------------------------------
(* What a tunnel has read.                                                 *)

(* Reads is kept by each of the ways a tunnel advances.                    *)
LEMMA ReadsKept ==
    ASSUME TunnelShape, TunnelShape', HandedKept, NEW t \in Tunnels, NEW w \in Tunnels,
           Reads(t, w), SameReading(t, tun'[t])
    PROVE  Reads(t, w)'
<1>1. /\ tun[w].handed \in Nat /\ tun'[w].handed \in Nat /\ tun[w].handed <= tun'[w].handed
      /\ tun[t].arrived \in Nat
  BY Fields DEF TunnelShape, HandedKept
<1>2. tun[t].arrived <= tun'[w].handed
  <2>1. tun[t].arrived <= tun[w].handed BY DEF Reads
  <2> QED BY <1>1, <2>1
<1>3. tun'[t].arrived = tun[t].arrived /\ tun'[t].queue = tun[t].queue /\ tun'[t].given = tun[t].given
  BY DEF SameReading
<1> QED BY <1>2, <1>3 DEF Reads

LEMMA ReadsGiven ==
    ASSUME TunnelShape, TunnelShape', HandedKept, NEW t \in Tunnels, NEW w \in Tunnels,
           Reads(t, w), tun'[t].arrived = tun[t].arrived, tun[t].queue # <<>>,
           tun'[t].given = Append(tun[t].given, Head(tun[t].queue)),
           tun'[t].queue = Tail(tun[t].queue)
    PROVE  Reads(t, w)'
<1> DEFINE g == tun[t].given
           q == tun[t].queue
           n == Len(tun[t].given)
           m == Len(tun[t].queue)
<1>1. /\ tun[w].handed \in Nat /\ tun'[w].handed \in Nat /\ tun[w].handed <= tun'[w].handed
      /\ tun[t].arrived \in Nat /\ g \in Seq(Tunnels \X Nat) /\ q \in Seq(Tunnels \X Nat)
  BY Fields DEF TunnelShape, HandedKept, Chunks
<1>2. /\ n \in Nat /\ m \in Nat \ {0} /\ Head(q) = q[1] /\ Head(q) \in Tunnels \X Nat
      /\ Len(Tail(q)) = m - 1 /\ \A i \in 1..m - 1 : Tail(q)[i] = q[i + 1]
  BY <1>1, SeqFacts
<1>3. Len(Append(g, q[1])) = n + 1 /\ \A i \in 1..n + 1 : Append(g, q[1])[i] = IF i = n + 1 THEN q[1] ELSE g[i]
  BY <1>1, <1>2, SeqFacts
<1>4. /\ n + m = tun[t].arrived /\ \A i \in 1..n : g[i] = <<w, i>>
      /\ \A i \in 1..m : q[i] = <<w, n + i>>
      /\ tun[t].arrived <= tun[w].handed
  BY <1>2 DEF Reads
<1>5. /\ Len(tun'[t].given) = n + 1 /\ Len(tun'[t].queue) = m - 1
      /\ \A i \in 1..n + 1 : tun'[t].given[i] = IF i = n + 1 THEN q[1] ELSE g[i]
      /\ \A i \in 1..m - 1 : tun'[t].queue[i] = q[i + 1]
  BY <1>2, <1>3
<1> HIDE DEF g, q, n, m
<1>6. \A i \in 1..n + 1 : tun'[t].given[i] = <<w, i>>
  <2>1. q[1] = <<w, n + 1>> BY <1>2, <1>4
  <2>2. \A i \in 1..n + 1 : i = n + 1 \/ i \in 1..n BY <1>2
  <2> QED BY <1>4, <1>5, <2>1, <2>2
<1>7. \A i \in 1..m - 1 : tun'[t].queue[i] = <<w, (n + 1) + i>>
  <2>1. \A i \in 1..m - 1 : i + 1 \in 1..m /\ n + (i + 1) = (n + 1) + i BY <1>2
  <2> QED BY <1>4, <1>5, <2>1
<1>8. (n + 1) + (m - 1) = tun[t].arrived /\ tun[t].arrived <= tun'[w].handed
  <2>1. (n + 1) + (m - 1) = n + m BY <1>2
  <2>2. tun[t].arrived <= tun'[w].handed BY <1>1, <1>4
  <2> QED BY <1>4, <2>1, <2>2
<1> QED BY <1>5, <1>6, <1>7, <1>8 DEF Reads

LEMMA ReadsTaken ==
    ASSUME TunnelShape, TunnelShape', HandedKept, NEW t \in Tunnels, NEW w \in Tunnels,
           Reads(t, w), NEW f \in Frames, f.kind = "data", FromWriter(f, w),
           f.id = tun[t].arrived + 1, tun'[t].given = tun[t].given,
           tun'[t].queue = Append(tun[t].queue, f.load), tun'[t].arrived = f.id
    PROVE  Reads(t, w)'
<1> DEFINE g == tun[t].given
           q == tun[t].queue
           n == Len(tun[t].given)
           m == Len(tun[t].queue)
<1>1. /\ tun[w].handed \in Nat /\ tun'[w].handed \in Nat /\ tun[w].handed <= tun'[w].handed
      /\ tun[t].arrived \in Nat /\ g \in Seq(Tunnels \X Nat) /\ q \in Seq(Tunnels \X Nat)
  BY Fields DEF TunnelShape, HandedKept, Chunks
<1>2. f.load \in Tunnels \X Nat /\ f.load = <<w, f.id>> /\ f.id <= tun[w].handed /\ f.id \in Nat
  BY <1>1 DEF Frames, FromWriter
<1>3. /\ n \in Nat /\ m \in Nat /\ Len(Append(q, f.load)) = m + 1
      /\ \A i \in 1..m + 1 : Append(q, f.load)[i] = IF i = m + 1 THEN f.load ELSE q[i]
  BY <1>1, <1>2, SeqFacts
<1>4. /\ n + m = tun[t].arrived /\ \A i \in 1..n : g[i] = <<w, i>>
      /\ \A i \in 1..m : q[i] = <<w, n + i>>
  BY <1>3 DEF Reads
<1>5. /\ Len(tun'[t].given) = n /\ Len(tun'[t].queue) = m + 1 /\ tun'[t].given = g
      /\ \A i \in 1..m + 1 : tun'[t].queue[i] = IF i = m + 1 THEN f.load ELSE q[i]
  BY <1>3
<1> HIDE DEF g, q, n, m
<1>6. \A i \in 1..m + 1 : tun'[t].queue[i] = <<w, n + i>>
  <2>1. n + (m + 1) = f.id BY <1>3, <1>4
  <2>2. \A i \in 1..m + 1 : i = m + 1 \/ i \in 1..m BY <1>3
  <2> QED BY <1>2, <1>4, <1>5, <2>1, <2>2
<1>7. n + (m + 1) = tun'[t].arrived /\ tun'[t].arrived <= tun'[w].handed
  BY <1>1, <1>2, <1>3, <1>4
<1> QED BY <1>4, <1>5, <1>6, <1>7 DEF Reads

LEMMA ReadsNothing ==
    ASSUME TunnelShape', NEW t \in Tunnels, NEW w \in Tunnels,
           tun'[t].arrived = 0, tun'[t].queue = <<>>, tun'[t].given = <<>>
    PROVE  Reads(t, w)'
<1>1. 0 <= tun'[w].handed BY Fields DEF TunnelShape
<1>2. Len(<<>>) = 0 /\ \A i : i \notin 1..0 OBVIOUS
<1> QED BY <1>1, <1>2 DEF Reads

(* How a tunnel may change.                                                *)
Given(t) ==
    /\ Open(t) /\ tun'[t].life = "open" /\ tun'[t].arrived = tun[t].arrived /\ tun[t].queue # <<>>
    /\ tun'[t].given = Append(tun[t].given, Head(tun[t].queue))
    /\ tun'[t].queue = Tail(tun[t].queue)

Opened(t, f) ==
    /\ f.kind = "peer_open" /\ tun[t].life = "none"
    /\ tun'[t].arrived = 0 /\ tun'[t].queue = <<>> /\ tun'[t].given = <<>>

Taken(t, f) ==
    /\ f.kind = "data" /\ Open(t) /\ f.id = tun[t].arrived + 1 /\ tun'[t].given = tun[t].given
    /\ tun'[t].queue = Append(tun[t].queue, f.load) /\ tun'[t].arrived = f.id

Advance(t) ==
    \/ tun'[t] = tun[t]
    \/ tun[t].life # "none" /\ tun'[t].life = "closed" /\ tun'[t].given = tun[t].given
    \/ Open(t) /\ tun'[t].life = "open" /\ SameReading(t, tun'[t])
    \/ Given(t)
    \/ \E f \in Frames :
        /\ Receive(Conn(t)) /\ f = down[Conn(t)][1] /\ Fit(Conn(t), f) /\ f.channel = Channel(t)
        /\ tun'[t].life = "open"
        /\ Opened(t, f) \/ Taken(t, f)

(* Every step advances every tunnel so.                                    *)
LEMMA Advances ==
    ASSUME SlotsInvariant, FramesShape, TunnelShape, FramesTrue, TunnelNext, NEW t \in Tunnels
    PROVE  Advance(t)
<1>1. CASE UNCHANGED tun BY <1>1 DEF Advance
<1>2. ASSUME NEW c \in Attempts, Receive(c) PROVE Advance(t)
  <2>1. PICK f \in Frames, d \in Devices : LET u == <<c, d>> IN
           /\ f.channel = d /\ u \in Tunnels /\ f = down[c][1] /\ Fit(c, f)
           /\ Become(u, After(u, f), Tail(down[c])) /\ Sound(u, After(u, f))
    BY <1>2, ReceiveIs
  <2> DEFINE u == <<c, d>>
             new == After(u, f)
  <2>2. tun' = [tun EXCEPT ![u] = new] /\ tun \in [Tunnels -> Tunnel] /\ Conn(u) = c /\ Channel(u) = d
    BY <2>1, TunnelFacts DEF Become, TunnelShape
  <2>3. CASE t # u BY <2>1, <2>2, <2>3 DEF Advance
  <2>4. CASE t = u
    <3>1. tun'[t] = new BY <2>1, <2>2, <2>4
    <3>2. /\ new.given = tun[u].given
          /\ \/ new = Ended(u) /\ new.life # "open"
             \/ /\ f.kind = "peer_open" /\ tun[u].life = "none"
                /\ new.life = "open" /\ new.arrived = 0 /\ new.queue = <<>> /\ new.given = <<>>
             \/ f.kind # "peer_open" /\ ~Open(u) /\ new = tun[u]
             \/ f.kind = "data" /\ Open(u) /\ new = AfterData(u, f)
             \/ f.kind = "forward_result" /\ Open(u) /\ SameReading(u, new) /\ new.life = "open"
      BY <2>1, AfterSound
    <3> HIDE DEF new
    <3>3. CASE new = Ended(u)
      <4>1. (tun[u].life # "none" /\ Ended(u).life = "closed") \/ Ended(u) = tun[u]
        <5>1. CASE Open(u) BY <2>1, <5>1, EndedSound DEF Open
        <5>2. CASE ~Open(u) BY <5>2 DEF Ended
        <5> QED BY <5>1, <5>2
      <4> QED BY <2>4, <3>1, <3>2, <3>3, <4>1 DEF Advance
    <3>4. CASE new # Ended(u) /\ f.kind = "peer_open"
      BY <1>2, <2>1, <2>2, <2>4, <3>1, <3>2, <3>4 DEF Advance, Opened
    <3>5. CASE new = tun[u]
      BY <2>4, <3>1, <3>5 DEF Advance
    <3>6. CASE f.kind = "data" /\ Open(u) /\ new = AfterData(u, f) /\ new # Ended(u)
      <4>1. /\ new.life = "open" /\ f.id = tun[u].arrived + 1
            /\ new.queue = Append(tun[u].queue, f.load) /\ new.arrived = f.id
        BY <2>1, <3>6, AfterDataSound
      <4> QED BY <1>2, <2>1, <2>2, <2>4, <3>1, <3>2, <3>6, <4>1 DEF Advance, Taken
    <3>7. CASE Open(u) /\ SameReading(u, new) /\ new.life = "open"
      BY <2>4, <3>1, <3>7 DEF Advance
    <3> QED BY <3>2, <3>3, <3>4, <3>5, <3>6, <3>7
  <2> QED BY <2>3, <2>4
<1>3. ASSUME NEW c \in Attempts, HangUp(c) PROVE Advance(t)
  <2>1. tun'[t] = IF Conn(t) = c THEN Ended(t) ELSE tun[t] BY <1>3 DEF HangUp
  <2>2. Ended(t).given = tun[t].given /\ ((tun[t].life # "none" /\ Ended(t).life = "closed") \/ Ended(t) = tun[t])
    BY EndedSound DEF Ended, Open
  <2> QED BY <2>1, <2>2 DEF Advance
<1>4. ASSUME NEW u \in Tunnels, TunnelStep(u) PROVE Advance(t)
  <2>1. PICK new :
          /\ Act(u, new)
          /\ \/ new = Ended(u)
             \/ new.life = "open" /\ SameReading(u, new)
             \/ /\ new.life = "open" /\ new.arrived = tun[u].arrived /\ tun[u].queue # <<>>
                /\ new.given = Append(tun[u].given, Head(tun[u].queue))
                /\ new.queue = Tail(tun[u].queue)
    BY <1>4, TunnelStepSound
  <2>2. tun' = [tun EXCEPT ![u] = new] /\ Open(u) /\ tun \in [Tunnels -> Tunnel]
    BY <2>1 DEF Act, Become, TunnelShape
  <2>3. CASE t # u BY <2>2, <2>3 DEF Advance
  <2>4. CASE t = u
    <3>1. tun'[t] = new BY <2>2, <2>4
    <3>2. tun[u].life # "none" /\ (new = Ended(u) => new.life = "closed" /\ new.given = tun[u].given)
      BY <2>2, EndedSound DEF Open
    <3> QED BY <2>1, <2>2, <2>4, <3>1, <3>2 DEF Advance, Given, Open
  <2> QED BY <2>3, <2>4
<1> QED BY <1>1, <1>2, <1>3, <1>4 DEF TunnelNext

(* What a tunnel that goes on has read goes on too.                        *)
LEMMA ReadsStep ==
    ASSUME SlotsInvariant, FramesShape, TunnelShape, FramesTrue, TunnelNext,
           NEW t \in Tunnels, NEW w \in Tunnels, tun'[t].life # "closed",
           tun[t].life = "none" \/ Reads(t, w),
           tun[t].life = "none" => tun'[t] # tun[t],
           \A f \in Frames : Receive(Conn(t)) /\ f = down[Conn(t)][1] /\ f.channel = Channel(t)
              /\ f.kind = "data" /\ Open(t) /\ Fit(Conn(t), f) => FromWriter(f, w)
    PROVE  Reads(t, w)'
<1>1. TunnelShape' /\ HandedKept BY FramesStep
<1>2. Advance(t) BY Advances
<1>3. CASE tun'[t] = tun[t]
  BY <1>1, <1>3, ReadsKept DEF SameReading
<1>4. CASE Open(t) /\ tun'[t].life = "open" /\ SameReading(t, tun'[t])
  BY <1>1, <1>4, ReadsKept DEF Open
<1>5. CASE Given(t)
  BY <1>1, <1>5, ReadsGiven DEF Given, Open
<1>6. ASSUME NEW f \in Frames, Receive(Conn(t)), f = down[Conn(t)][1], Fit(Conn(t), f),
             f.channel = Channel(t), Opened(t, f) \/ Taken(t, f)
      PROVE  Reads(t, w)'
  <2>1. CASE Opened(t, f) BY <1>1, <2>1, ReadsNothing DEF Opened
  <2>2. CASE Taken(t, f)
    <3>1. FromWriter(f, w) /\ Reads(t, w) BY <1>6, <2>2 DEF Taken, Open
    <3> QED BY <1>1, <2>2, <3>1, ReadsTaken DEF Taken
  <2> QED BY <1>6, <2>1, <2>2
<1> QED BY <1>2, <1>3, <1>4, <1>5, <1>6 DEF Advance

(* Hosts read what the device of the channel wrote.                        *)
HostReads(t) == Open(t) /\ Conn(t) \in Hosts => Reads(t, <<Channel(t), Channel(t)>>)

(* Hosts go on reading the chunks of their channel's device.               *)
LEMMA HostsRead ==
    ASSUME SlotsInvariant, FramesShape, TunnelShape, FramesTrue, TunnelNext,
           NEW t \in Tunnels, HostReads(t)
    PROVE  HostReads(t)'
<1> DEFINE d == Channel(t)
           h == Conn(t)
<1>1. SUFFICES ASSUME tun'[t].life = "open", h \in Hosts PROVE Reads(t, <<d, d>>)'
  BY DEF HostReads, Open
<1>2. d \in Devices /\ <<d, d>> \in Tunnels /\ t = <<h, d>> BY TunnelFacts
<1>3. tun[t].life = "closed" => Advance(t) /\ FALSE
  BY Advances, <1>1 DEF Advance, Open, Given, Opened, Taken
<1>4. tun[t].life \in {"none", "open"} BY <1>3, Fields, FieldsSound
<1>5. tun[t].life = "none" \/ Reads(t, <<d, d>>)
  BY <1>1, <1>4 DEF HostReads, Open
<1>6. ASSUME NEW f \in Frames, Fit(h, f), f.channel = d, f.kind = "data" PROVE FromWriter(f, <<d, d>>)
  BY <1>1, <1>2, <1>6, WriterFacts DEF Fit
<1>7. tun[t].life = "none" => tun'[t] # tun[t] BY <1>1
<1> QED BY <1>1, <1>2, <1>5, <1>6, <1>7, ReadsStep

-----------------------------------------------------------------------------
(* What a device reads is of one host.                                     *)

DeviceWhole(d) ==
    d \in alive /\ tun[<<d, d>>].life # "closed" =>
        IF Fresh(d) /\ down[d] = <<>>
        THEN conn[d] = "open" => host[Route[d]] = NoConn
        ELSE \E h \in Hosts : <<h, d>> \in Tunnels /\ OneHost(d, h)

OpenFirst(d) == Fresh(d) /\ down[d] # <<>> => down[d][1].kind = "peer_open"

LEMMA StreamsWholeIs ==
    StreamsWhole <=> /\ \A t \in Tunnels : HostReads(t)
                     /\ \A d \in Devices : DeviceWhole(d) /\ OpenFirst(d)
  BY DEF StreamsWhole, HostReads, DeviceWhole, OpenFirst

(* More frames are on their way to a device, or less of its host is known. *)
LEMMA OneHostStays ==
    ASSUME FramesShape, NEW d \in Devices, NEW h \in Hosts, OneHost(d, h),
           Reads(<<d, d>>, <<h, d>>)',
           \/ down'[d] = down[d]
           \/ \E f \in Frames :
                down'[d] = Append(down[d], f) /\ (f.kind = "data" => f.load[1] = <<h, d>> \/ ~NoLeaveIn(d)),
           conn'[d] = "open" /\ NoLeaveIn(d) =>
                \/ host'[Route[d]] = h
                \/ \E f \in Frames : down'[d] = Append(down[d], f) /\ f.kind = "peer_close"
    PROVE  OneHost(d, h)'
<1> DEFINE q == down[d]
           r == down'[d]
<1>1. q \in Seq(Frames) /\ Len(q) \in Nat BY Kinds DEF FramesShape
<1>2. /\ \A i \in 1..Len(q) : i \in 1..Len(r) /\ r[i] = q[i]
      /\ \A i \in 1..Len(r) : i \in 1..Len(q) \/ \E f \in Frames : i = Len(q) + 1 /\ r = Append(q, f) /\ r[i] = f
      /\ \A f \in Frames : r = Append(q, f) => Len(q) + 1 \in 1..Len(r) /\ r[Len(q) + 1] = f
  <2>1. ASSUME NEW f \in Frames, r = Append(q, f)
        PROVE  /\ Len(r) = Len(q) + 1
               /\ \A i \in 1..Len(q) + 1 : r[i] = IF i = Len(q) + 1 THEN f ELSE q[i]
    BY <1>1, <2>1, SeqFacts
  <2>2. \A i \in 1..Len(q) : i \in 1..Len(q) + 1 /\ i # Len(q) + 1 BY <1>1
  <2>3. \A i \in 1..Len(q) + 1 : i \in 1..Len(q) \/ i = Len(q) + 1 BY <1>1
  <2>4. Len(q) + 1 \in 1..Len(q) + 1 BY <1>1
  <2>5. CASE r = q
    <3>1. \A f \in Frames : r # Append(q, f) BY <1>1, <2>1, <2>5
    <3> QED BY <2>5, <3>1
  <2>6. CASE \E f \in Frames : r = Append(q, f)
    <3>1. PICK f \in Frames : r = Append(q, f) BY <2>6
    <3>2. /\ Len(r) = Len(q) + 1
          /\ \A i \in 1..Len(q) + 1 : r[i] = IF i = Len(q) + 1 THEN f ELSE q[i]
      BY <2>1, <3>1
    <3>3. \A g \in Frames : r = Append(q, g) => r[Len(q) + 1] = g BY <2>1, <2>4
    <3> HIDE DEF q, r
    <3> QED BY <2>2, <2>3, <2>4, <3>1, <3>2, <3>3
  <2> QED BY <2>5, <2>6
<1>3. NoLeaveIn(d)' => NoLeaveIn(d)
  BY <1>2 DEF NoLeaveIn, Leaves
<1>4. ASSUME NEW i \in 1..Len(r), r[i].kind = "data", \A j \in 1..i : ~Leaves(d, j)'
      PROVE  r[i].load[1] = <<h, d>>
  <2>1. i \in Nat /\ \A j \in 1..Len(q) : i = Len(q) + 1 => j \in 1..i BY <1>1, <1>4
  <2>2. CASE i \in 1..Len(q)
    <3>1. \A j \in 1..i : j \in 1..Len(q) BY <1>1, <2>2
    <3>2. \A j \in 1..i : ~Leaves(d, j) BY <1>2, <1>4, <3>1 DEF Leaves
    <3>3. r[i] = q[i] /\ q[i].kind = "data" BY <1>2, <1>4, <2>2
    <3> QED BY <2>2, <3>2, <3>3 DEF OneHost
  <2>3. CASE i \notin 1..Len(q)
    <3>1. PICK f \in Frames : i = Len(q) + 1 /\ r = Append(q, f) /\ r[i] = f BY <1>2, <2>3
    <3>2. NoLeaveIn(d)
      <4>1. \A j \in 1..Len(q) : ~Leaves(d, j) BY <1>2, <1>4, <2>1, <3>1 DEF Leaves
      <4> QED BY <4>1 DEF NoLeaveIn
    <3>3. \E g \in Frames : r = Append(q, g) /\ (g.kind = "data" => g.load[1] = <<h, d>>)
      <4>1. r # q
        <5>1. Len(Append(q, f)) = Len(q) + 1 BY <1>1, SeqFacts
        <5> QED BY <1>1, <3>1, <5>1
      <4> QED BY <3>2, <4>1
    <3>4. PICK g \in Frames : r = Append(q, g) /\ (g.kind = "data" => g.load[1] = <<h, d>>) BY <3>3
    <3>5. g = f BY <1>2, <3>1, <3>4
    <3> QED BY <1>4, <3>1, <3>4, <3>5
  <2> QED BY <2>2, <2>3
<1>5. conn'[d] = "open" /\ NoLeaveIn(d)' => host'[Route[d]] = h
  <2>1. ASSUME NoLeaveIn(d)', NEW f \in Frames, down'[d] = Append(down[d], f) PROVE f.kind # "peer_close"
    BY <1>2, <2>1 DEF NoLeaveIn, Leaves
  <2> QED BY <1>3, <2>1
<1> QED BY <1>4, <1>5 DEF OneHost

(* What a step of the relay may tell a device that is there.               *)
Hears(d) ==
    \/ /\ down'[d] = down[d]
       /\ conn'[d] = "open" => conn[d] = "open" /\ host'[Route[d]] = host[Route[d]]
    \/ /\ conn[d] = "open"
       /\ \E f \in Frames :
            /\ down'[d] = Append(down[d], f)
            /\ \/ /\ f.kind = "peer_open" /\ host[Route[d]] = NoConn
                  /\ host'[Route[d]] \in Hosts /\ Route[host'[Route[d]]] = Route[d]
               \/ f.kind = "peer_close" /\ host[Route[d]] # NoConn
               \/ /\ f.kind = "data" /\ host[Route[d]] # NoConn /\ f.load[1] = <<host[Route[d]], d>>
                  /\ host'[Route[d]] = host[Route[d]]
               \/ f.kind = "forward_result" /\ ~Fresh(d) /\ host'[Route[d]] = host[Route[d]]

(* The first thing a device hears is that there is a host.                 *)
LEMMA FirstHeard ==
    ASSUME TunnelShape, TunnelShape', UNCHANGED tun, NEW d \in Devices, Fresh(d), down[d] = <<>>,
           NEW f \in Frames, f.kind = "peer_open", down'[d] = Append(down[d], f),
           host'[Route[d]] \in Hosts, Route[host'[Route[d]]] = Route[d]
    PROVE  /\ down'[d] # <<>> /\ down'[d][1].kind = "peer_open"
           /\ \E h \in Hosts : <<h, d>> \in Tunnels /\ OneHost(d, h)'
<1> DEFINE t == <<d, d>>
<1>1. PICK h \in Hosts : h = host'[Route[d]] OBVIOUS
<1>2. <<h, d>> \in Tunnels /\ t \in Tunnels BY <1>1, TunnelFacts
<1>3. tun[t] = Absent BY <1>2, FieldsSound DEF Fresh
<1>4. Reads(t, <<h, d>>)'
  BY <1>2, <1>3, AbsentSound, ReadsNothing
<1>5. Len(down'[d]) = 1 /\ down'[d][1].kind = "peer_open" /\ down'[d] # <<>>
  <2>1. Append(<<>>, f) = <<f>> /\ Len(<<f>>) = 1 /\ <<f>>[1] = f /\ Len(<<>>) = 0 OBVIOUS
  <2> QED BY <2>1
<1>6. \A i \in 1..Len(down'[d]) : i = 1 BY <1>5
<1>7. OneHost(d, h)'
  BY <1>1, <1>4, <1>5, <1>6 DEF OneHost
<1> QED BY <1>2, <1>5, <1>7

(* Whatever it hears, a device that is there goes on reading one host.     *)
LEMMA HearsWhole ==
    ASSUME SlotsInvariant, FramesShape, TunnelShape, NEW d \in Devices, DeviceWhole(d), OpenFirst(d),
           TunnelShape', HandedKept, UNCHANGED tun, d \in alive, Hears(d)
    PROVE  DeviceWhole(d)' /\ OpenFirst(d)'
<1> DEFINE t == <<d, d>>
           r == Route[d]
<1>1. t \in Tunnels /\ d \in Attempts /\ r \in Routes /\ down[d] \in Seq(Frames)
  BY TunnelFacts, Kinds DEF FramesShape
<1>2. \A f \in Frames : /\ Append(down[d], f) # <<>> /\ Append(down[d], f)[1] = IF down[d] = <<>> THEN f ELSE down[d][1]
  <2>1. ASSUME NEW f \in Frames
        PROVE Append(down[d], f) # <<>> /\ Append(down[d], f)[1] = IF down[d] = <<>> THEN f ELSE down[d][1]
    <3>1. /\ Len(Append(down[d], f)) = Len(down[d]) + 1 /\ Len(down[d]) \in Nat
          /\ \A i \in 1..Len(down[d]) + 1 : Append(down[d], f)[i] = IF i = Len(down[d]) + 1 THEN f ELSE down[d][i]
      BY <1>1, SeqFacts
    <3>2. Len(<<>>) = 0 /\ (down[d] = <<>> <=> Len(down[d]) = 0) BY <1>1
    <3>3. 1 \in 1..Len(down[d]) + 1 /\ (1 = Len(down[d]) + 1 <=> Len(down[d]) = 0) BY <3>1
    <3> QED BY <3>1, <3>2, <3>3
  <2> QED BY <2>1
<1>3. Fresh(d)' <=> Fresh(d) BY DEF Fresh
<1>4. OpenFirst(d)'
  <2>1. CASE down'[d] = down[d] BY <1>3, <2>1 DEF OpenFirst
  <2>2. CASE down'[d] # down[d]
    <3>1. PICK f \in Frames : down'[d] = Append(down[d], f) /\ (Fresh(d) /\ f.kind # "peer_open" =>
                \/ conn[d] = "open" /\ host[r] # NoConn)
      BY <2>2 DEF Hears
    <3>2. CASE down[d] = <<>> /\ Fresh(d)
      <4>1. tun[t].life # "closed" BY <3>2 DEF Fresh
      <4>2. conn[d] = "open" => host[r] = NoConn BY <3>2, <4>1 DEF DeviceWhole
      <4> QED BY <1>2, <3>1, <3>2, <4>2 DEF OpenFirst
    <3>3. CASE down[d] # <<>> /\ Fresh(d)
      BY <1>2, <3>1, <3>3 DEF OpenFirst
    <3> QED BY <1>3, <3>2, <3>3 DEF OpenFirst
  <2> QED BY <2>1, <2>2
<1>5. DeviceWhole(d)'
  <2>1. SUFFICES ASSUME tun[t].life # "closed"
                 PROVE  IF Fresh(d) /\ down'[d] = <<>>
                        THEN conn'[d] = "open" => host'[r] = NoConn
                        ELSE \E h \in Hosts : <<h, d>> \in Tunnels /\ OneHost(d, h)'
    BY <1>3 DEF DeviceWhole
  <2>2. CASE Fresh(d) /\ down[d] = <<>>
    <3>1. conn[d] = "open" => host[r] = NoConn BY <2>1, <2>2 DEF DeviceWhole
    <3>2. CASE down'[d] = down[d] /\ (conn'[d] = "open" => conn[d] = "open" /\ host'[r] = host[r])
      BY <2>2, <3>1, <3>2
    <3>3. CASE \E f \in Frames :
            /\ down'[d] = Append(down[d], f) /\ f.kind = "peer_open"
            /\ host'[r] \in Hosts /\ Route[host'[r]] = r
      BY <2>2, <3>3, FirstHeard
    <3> QED BY <2>2, <3>1, <3>2, <3>3 DEF Hears
  <2>3. CASE ~(Fresh(d) /\ down[d] = <<>>)
    <3>1. PICK h \in Hosts : <<h, d>> \in Tunnels /\ OneHost(d, h) BY <2>1, <2>3 DEF DeviceWhole
    <3>2. Reads(t, <<h, d>>)'
      BY <1>1, <3>1, ReadsKept DEF OneHost, SameReading
    <3>3. /\ conn[d] = "open" /\ NoLeaveIn(d) => host[r] = h
          /\ h # NoConn
      BY <3>1, Kinds DEF OneHost
    <3>4. ~(Fresh(d) /\ down'[d] = <<>>)
      BY <1>2, <2>3 DEF Hears
    <3>5. OneHost(d, h)'
      <4>1. CASE down'[d] = down[d] /\ (conn'[d] = "open" => conn[d] = "open" /\ host'[r] = host[r])
        BY <3>1, <3>2, <3>3, <4>1, OneHostStays
      <4>2. ASSUME NEW f \in Frames, conn[d] = "open", down'[d] = Append(down[d], f),
                   f.kind = "peer_open", host[r] = NoConn
            PROVE  OneHost(d, h)'
        <5>1. ~NoLeaveIn(d) BY <3>3, <4>2
        <5> QED BY <3>1, <3>2, <4>2, <5>1, OneHostStays
      <4>3. ASSUME NEW f \in Frames, down'[d] = Append(down[d], f), f.kind = "peer_close"
            PROVE  OneHost(d, h)'
        BY <3>1, <3>2, <4>3, OneHostStays
      <4>4. ASSUME NEW f \in Frames, conn[d] = "open", down'[d] = Append(down[d], f),
                   f.kind = "data", f.load[1] = <<host[r], d>>, host'[r] = host[r]
            PROVE  OneHost(d, h)'
        BY <3>1, <3>2, <3>3, <4>4, OneHostStays
      <4>5. ASSUME NEW f \in Frames, conn[d] = "open", down'[d] = Append(down[d], f),
                   f.kind = "forward_result", host'[r] = host[r]
            PROVE  OneHost(d, h)'
        BY <3>1, <3>2, <3>3, <4>5, OneHostStays
      <4> QED BY <4>1, <4>2, <4>3, <4>4, <4>5 DEF Hears
    <3> QED BY <3>1, <3>4, <3>5
  <2> QED BY <2>2, <2>3
<1> QED BY <1>4, <1>5

(* What a connection that is sent nothing, or one frame, finds.            *)
LEMMA DeliveredNone ==
    ASSUME FramesShape, NEW state, NEW sent, NEW full, Deliver(state, sent, full),
           NEW c \in Attempts, sent[c] = <<>>
    PROVE  down'[c] = down[c] /\ conn'[c] = state[c]
  BY DeliveredFrames

LEMMA DeliveredOne ==
    ASSUME FramesShape, NEW state, NEW sent, NEW full, Deliver(state, sent, full),
           NEW c \in Attempts, c \in alive \/ conn[c] = "none", NEW f \in Frames, sent[c] = <<f>>
    PROVE  \/ down'[c] = Append(down[c], f) /\ state[c] = "open"
           \/ down'[c] = down[c] /\ conn'[c] # "open"
<1>1. \/ down'[c] = Append(down[c], f) /\ state[c] = "open" /\ (c \in alive \/ conn[c] = "none")
      \/ down'[c] = down[c] /\ (conn'[c] # "open" \/ (c \notin alive /\ conn[c] # "none"))
  BY DeliveredFrames
<1> QED BY <1>1

(* Every relay step tells the devices that are there one of those.         *)
LEMMA DeviceHears ==
    ASSUME SlotsInvariant, FramesShape, TunnelShape, FramesTrue, RelayStep, UNCHANGED tun,
           NEW d \in Devices, d \in alive
    PROVE  Hears(d)
<1> DEFINE r == Route[d]
<1>1. /\ d \in Attempts /\ r \in Routes /\ conn[d] # "none" /\ attempt[d] = "attached"
      /\ host[r] \in Hosts \cup {NoConn} /\ (host[r] # NoConn => Route[host[r]] = r)
      /\ NoConn \notin Hosts
      /\ conn[d] = "open" => d \in devices[r]
      /\ conn \in [Attempts -> {"none", "open", "closing", "closed"}]
      /\ host \in [Routes -> Hosts \cup {NoConn}]
  BY Kinds DEF SlotsInvariant, SlotsShape, GrantsSpent, TablesExact, FramesShape, Connected
<1>2. ASSUME NEW a \in Attempts, Admitted(a) PROVE Hears(d)
  <2>1. PICK sent, full : AttachSends(a, sent) /\ Deliver([conn EXCEPT ![a] = "open"], sent, full)
    BY <1>2, AttachedSends
  <2> DEFINE state == [conn EXCEPT ![a] = "open"]
  <2>2. attempt[a] = "pending" /\ a # d /\ state[d] = conn[d] /\ CanAdmit(a)
    BY <1>1, <1>2 DEF Admitted
  <2>3. sent[d] = IF a \in Hosts /\ d \in devices[Route[a]] THEN <<PeerOpen(d)>> ELSE <<>>
    BY <2>1, <2>2 DEF AttachSends
  <2>4. /\ a \in Hosts => host' = [host EXCEPT ![Route[a]] = a]
        /\ a \notin Hosts => host' = host
    BY <1>2 DEF Admitted, Attach
  <2> HIDE DEF state
  <2>5. Deliver(state, sent, full) BY <2>1 DEF state
  <2>6. CASE a \in Hosts /\ d \in devices[Route[a]]
    <3>1. Route[a] = r /\ Route[a] \in Routes
      BY <2>6, Kinds DEF SlotsInvariant, TablesExact
    <3>2. host[r] = NoConn /\ host'[r] = a
      BY <1>1, <2>2, <2>4, <2>6, <3>1 DEF CanAdmit, Exists
    <3>3. PeerOpen(d) \in Frames /\ PeerOpen(d).kind = "peer_open" BY FrameFacts
    <3>4. \/ down'[d] = Append(down[d], PeerOpen(d)) /\ state[d] = "open"
          \/ down'[d] = down[d] /\ conn'[d] # "open"
      <4>1. d \in Attempts /\ sent[d] = <<PeerOpen(d)>> BY <1>1, <2>3, <2>6
      <4> QED BY <2>5, <3>3, <4>1, DeliveredOne
    <3> QED BY <2>2, <2>6, <3>1, <3>2, <3>3, <3>4 DEF Hears
  <2>7. CASE ~(a \in Hosts /\ d \in devices[Route[a]])
    <3>1. down'[d] = down[d] /\ conn'[d] = conn[d]
      <4>1. d \in Attempts /\ sent[d] = <<>> BY <1>1, <2>3, <2>7
      <4> QED BY <2>2, <2>5, <4>1, DeliveredNone
    <3>2. conn[d] = "open" => host'[r] = host[r]
      BY <1>1, <2>4, <2>7
    <3> QED BY <3>1, <3>2 DEF Hears
  <2> QED BY <2>6, <2>7
<1>3. ASSUME NEW a \in Attempts, OnClose(a) PROVE Hears(d)
  <2>1. PICK sent, full : LeaveSends(a, sent) /\ Deliver([conn EXCEPT ![a] = "closed"], sent, full)
    BY <1>3, LeftSends
  <2> DEFINE state == [conn EXCEPT ![a] = "closed"]
  <2>2. state[d] = IF a = d THEN "closed" ELSE conn[d]
    BY <1>1
  <2>3. sent[d] = IF a \in Hosts /\ d \in devices[Route[a]] THEN <<PeerClose(d)>> ELSE <<>>
    BY <2>1 DEF LeaveSends
  <2>4. /\ a \in Hosts => host' = [host EXCEPT ![Route[a]] = NoConn] /\ host[Route[a]] = a
        /\ a \notin Hosts => host' = host
    BY <1>3 DEF OnClose, Leave, SlotsInvariant, TablesExact
  <2> HIDE DEF state
  <2>5. Deliver(state, sent, full) BY <2>1 DEF state
  <2>6. CASE a \in Hosts /\ d \in devices[Route[a]]
    <3>1. Route[a] = r /\ a # d
      BY <2>6, Kinds DEF SlotsInvariant, TablesExact
    <3>2. host[r] # NoConn
      BY <1>1, <2>4, <2>6, <3>1
    <3>3. PeerClose(d) \in Frames /\ PeerClose(d).kind = "peer_close" BY FrameFacts
    <3>4. \/ down'[d] = Append(down[d], PeerClose(d)) /\ state[d] = "open"
          \/ down'[d] = down[d] /\ conn'[d] # "open"
      <4>1. d \in Attempts /\ sent[d] = <<PeerClose(d)>> BY <1>1, <2>3, <2>6
      <4> QED BY <2>5, <3>3, <4>1, DeliveredOne
    <3> QED BY <2>2, <3>1, <3>2, <3>3, <3>4 DEF Hears
  <2>7. CASE ~(a \in Hosts /\ d \in devices[Route[a]])
    <3>1. down'[d] = down[d] /\ conn'[d] = state[d]
      <4>1. d \in Attempts /\ sent[d] = <<>> BY <1>1, <2>3, <2>7
      <4> QED BY <2>5, <4>1, DeliveredNone
    <3>2. conn[d] = "open" => host'[r] = host[r]
      BY <1>1, <2>4, <2>7
    <3> QED BY <2>2, <3>1, <3>2 DEF Hears
  <2> QED BY <2>6, <2>7
<1>4. ASSUME NEW a \in Attempts, OnMessage(a) PROVE Hears(d)
  <2>1. PICK sent, full : ForwardSends(a, sent) /\ Deliver(conn, sent, full)
    BY <1>4, ForwardedSends
  <2>2. host' = host BY <1>4 DEF OnMessage
  <2>3. CASE sent[d] = <<>>
    <3>1. d \in Attempts BY <1>1
    <3>2. down'[d] = down[d] /\ conn'[d] = conn[d] BY <2>1, <2>3, <3>1, DeliveredNone
    <3> QED BY <2>2, <3>2 DEF Hears
  <2>4. ASSUME NEW f \in Frames, sent[d] = <<f>>,
               \/ f.kind = "forward_result" /\ ~Fresh(d)
               \/ f.kind = "data" /\ host[r] \in Hosts /\ f.load[1] = <<host[r], d>>
        PROVE  Hears(d)
    <3>1. \/ down'[d] = Append(down[d], f) /\ conn[d] = "open"
          \/ down'[d] = down[d] /\ conn'[d] # "open"
      <4>1. d \in Attempts BY <1>1
      <4> QED BY <2>1, <2>4, <4>1, DeliveredOne
    <3> QED BY <1>1, <2>2, <2>4, <3>1 DEF Hears
  <2> QED BY <2>1, <2>3, <2>4 DEF ForwardSends
<1>5. ASSUME down' = down, host' = host, conn'[d] = "open" => conn[d] = "open" PROVE Hears(d)
  BY <1>5 DEF Hears
<1>6. ASSUME NEW a \in Attempts, NEW g \in Grants, Present(a, g) PROVE Hears(d)
  BY <1>5, <1>6 DEF Present
<1>7. ASSUME NEW a \in Attempts, Refused(a) \/ CloseConnection(a) PROVE Hears(d)
  BY <1>1, <1>5, <1>7 DEF Refused, CloseConnection
<1>8. ASSUME Stop PROVE Hears(d)
  BY <1>1, <1>5, <1>8 DEF Stop
<1> QED BY <1>2, <1>3, <1>4, <1>6, <1>7, <1>8 DEF RelayStep

(* A client that is not there has nothing put on its way.                  *)
LEMMA NotThere ==
    ASSUME SlotsInvariant, FramesShape, RelayStep, NEW d \in Attempts, d \notin alive, d \notin alive'
    PROVE  down'[d] = down[d]
<1>1. d \in Attempts /\ conn \in [Attempts -> {"none", "open", "closing", "closed"}]
  BY Kinds DEF SlotsInvariant, SlotsShape
<1>2. ASSUME NEW state, NEW sent, NEW full, Deliver(state, sent, full),
             state[d] = conn[d] \/ state[d] = "closed"
      PROVE  down'[d] = down[d]
  <2>1. down'[d] = down[d] \/ (state[d] = "open" /\ conn[d] = "none") BY <1>1, <1>2, DeliveredFrames
  <2> QED BY <1>2, <2>1
<1>3. ASSUME NEW a \in Attempts, Admitted(a) PROVE down'[d] = down[d]
  <2>1. PICK sent, full : Deliver([conn EXCEPT ![a] = "open"], sent, full) BY <1>3 DEF Admitted, Attach
  <2>2. a # d BY <1>1, <1>3 DEF Admitted
  <2>3. [conn EXCEPT ![a] = "open"][d] = conn[d] BY <1>1, <2>2
  <2> QED BY <1>2, <2>1, <2>3
<1>4. ASSUME NEW a \in Attempts, OnClose(a) PROVE down'[d] = down[d]
  <2>1. PICK sent, full : Deliver([conn EXCEPT ![a] = "closed"], sent, full) BY <1>4 DEF OnClose, Leave
  <2>2. [conn EXCEPT ![a] = "closed"][d] \in {conn[d], "closed"} BY <1>1
  <2> QED BY <1>2, <2>1, <2>2
<1>5. ASSUME NEW a \in Attempts, OnMessage(a) PROVE down'[d] = down[d]
  <2>1. PICK sent, full : Deliver(conn, sent, full) BY <1>5 DEF OnMessage, Forward
  <2> QED BY <1>2, <2>1
<1>6. ASSUME NEW a \in Attempts, NEW g \in Grants,
             Present(a, g) \/ Refused(a) \/ CloseConnection(a) \/ Stop
      PROVE  down' = down
  BY <1>6 DEF Present, Refused, CloseConnection, Stop
<1>7. ASSUME NEW a \in Attempts, Refused(a) \/ CloseConnection(a) \/ Stop PROVE down' = down
  BY <1>7 DEF Refused, CloseConnection, Stop
<1> QED BY <1>1, <1>3, <1>4, <1>5, <1>6, <1>7 DEF RelayStep

(* A device that is admitted has read nothing yet.                         *)
LEMMA AdmittedWhole ==
    ASSUME SlotsInvariant, FramesShape, TunnelShape, TunnelShape', UNCHANGED tun,
           NEW d \in Devices, Admitted(d)
    PROVE  DeviceWhole(d)' /\ OpenFirst(d)'
<1> DEFINE r == Route[d]
           t == <<d, d>>
           state == [conn EXCEPT ![d] = "open"]
<1>1. d \in Attempts /\ d \notin Hosts /\ r \in Routes /\ t \in Tunnels /\ Conn(t) = d
  BY Kinds, TunnelFacts
<1>2. conn[d] = "none" /\ d \notin alive /\ down[d] = <<>>
  BY <1>1 DEF Admitted, SlotsInvariant, SlotsShape, GrantsSpent, FramesShape
<1>3. PICK sent, full : AttachSends(d, sent) /\ Deliver(state, sent, full)
  BY <1>1, AttachedSends
<1>4. sent[d] = IF host[r] # NoConn THEN <<PeerOpen(d)>> ELSE <<>>
  BY <1>1, <1>3 DEF AttachSends
<1>5. host' = host BY <1>1 DEF Admitted, Attach
<1>6. Fresh(d)' <=> Fresh(d) BY DEF Fresh
<1>7. Fresh(d) \/ tun'[t].life = "closed"
  <2>1. ~Open(t) BY <1>1, <1>2, FieldsSound
  <2> QED BY <1>1, <2>1, Fields, FieldsSound DEF Open, Fresh
<1> HIDE DEF state
<1>8. CASE ~Fresh(d) BY <1>6, <1>7, <1>8 DEF DeviceWhole, OpenFirst
<1>9. CASE Fresh(d) /\ host[r] = NoConn
  <2>1. down'[d] = <<>> BY <1>1, <1>2, <1>3, <1>4, <1>9, DeliveredNone
  <2> QED BY <1>5, <1>6, <1>9, <2>1 DEF DeviceWhole, OpenFirst
<1>10. CASE Fresh(d) /\ host[r] # NoConn
  <2>1. PeerOpen(d) \in Frames /\ PeerOpen(d).kind = "peer_open" BY FrameFacts
  <2>2. host'[r] \in Hosts /\ Route[host'[r]] = r
    BY <1>1, <1>5, <1>10 DEF SlotsInvariant, SlotsShape, TablesExact
  <2>3. \/ down'[d] = Append(down[d], PeerOpen(d))
        \/ down'[d] = down[d] /\ conn'[d] # "open"
    <3>1. sent[d] = <<PeerOpen(d)>> BY <1>4, <1>10
    <3> QED BY <1>1, <1>2, <1>3, <2>1, <3>1, DeliveredOne
  <2>4. CASE down'[d] = Append(down[d], PeerOpen(d))
    <3>1. /\ down'[d] # <<>> /\ down'[d][1].kind = "peer_open"
          /\ \E h \in Hosts : <<h, d>> \in Tunnels /\ OneHost(d, h)'
      BY <1>2, <1>10, <2>1, <2>2, <2>4, FirstHeard
    <3> QED BY <3>1 DEF DeviceWhole, OpenFirst
  <2>5. CASE down'[d] = down[d] /\ conn'[d] # "open"
    BY <1>2, <1>6, <1>10, <2>5 DEF DeviceWhole, OpenFirst
  <2> QED BY <2>3, <2>4, <2>5
<1> QED BY <1>8, <1>9, <1>10

(* No step of the relay makes a device read two hosts.                     *)
LEMMA RelayWhole ==
    ASSUME SlotsInvariant, FramesShape, TunnelShape, FramesTrue, RelayStep, UNCHANGED tun,
           TunnelShape', HandedKept, NEW d \in Devices, DeviceWhole(d), OpenFirst(d)
    PROVE  DeviceWhole(d)' /\ OpenFirst(d)'
<1>1. CASE d \in alive
  BY <1>1, DeviceHears, HearsWhole
<1>2. CASE d \notin alive /\ d \notin alive'
  <2>1. down'[d] = down[d] BY <1>2, Kinds, NotThere
  <2> QED BY <1>2, <2>1 DEF DeviceWhole, OpenFirst, Fresh
<1>3. CASE d \notin alive /\ d \in alive'
  <2>1. PICK a \in Attempts : Admitted(a)
    BY <1>3 DEF RelayStep, Present, Refused, OnMessage, CloseConnection, OnClose, Stop
  <2>2. a = d BY <1>3, <2>1 DEF Admitted
  <2> QED BY <2>1, <2>2, AdmittedWhole
<1> QED BY <1>1, <1>2, <1>3

(* Its device has read one frame, and it was not the notice that a host    *)
(* has left.                                                               *)
LEMMA OneHostTail ==
    ASSUME FramesShape, NEW d \in Devices, NEW h \in Hosts, OneHost(d, h), Reads(<<d, d>>, <<h, d>>)',
           down[d] # <<>>, down'[d] = Tail(down[d]), ~Leaves(d, 1), UNCHANGED <<conn, host>>
    PROVE  OneHost(d, h)'
<1> DEFINE q == down[d]
           r == down'[d]
           n == Len(down[d])
<1>1. /\ q \in Seq(Frames) /\ n \in Nat \ {0} /\ Len(r) = n - 1
      /\ \A i \in 1..n - 1 : r[i] = q[i + 1]
  <2>1. down[d] \in Seq(Frames) BY Kinds DEF FramesShape
  <2> QED BY <2>1, SeqFacts
<1>2. /\ \A i \in 1..n - 1 : i + 1 \in 1..n /\ Leaves(d, i)' = Leaves(d, i + 1)
      /\ \A j \in 1..n : j = 1 \/ (j - 1 \in 1..n - 1 /\ (j - 1) + 1 = j)
  BY <1>1 DEF Leaves
<1>3. ASSUME NEW i \in 1..n - 1, r[i].kind = "data", \A j \in 1..i : ~Leaves(d, j)'
      PROVE  r[i].load[1] = <<h, d>>
  <2>1. i \in Nat /\ i <= n - 1 /\ i + 1 \in 1..n BY <1>1
  <2>2. \A j \in 1..i + 1 : j = 1 \/ j - 1 \in 1..i BY <2>1
  <2>3. \A j \in 1..i + 1 : j \in 1..n BY <1>1, <2>1
  <2>4. \A j \in 1..i : j \in 1..n - 1 BY <1>1, <2>1
  <2>5. \A j \in 1..i + 1 : ~Leaves(d, j) BY <1>2, <1>3, <2>2, <2>3, <2>4
  <2> QED BY <1>1, <1>3, <2>1, <2>5 DEF OneHost
<1>4. NoLeaveIn(d)' => NoLeaveIn(d)
  <2>1. SUFFICES ASSUME NoLeaveIn(d)', NEW j \in 1..n PROVE ~Leaves(d, j)
    BY DEF NoLeaveIn
  <2>2. \A i \in 1..n - 1 : ~Leaves(d, i + 1) BY <1>1, <1>2, <2>1 DEF NoLeaveIn
  <2> QED BY <1>2, <2>2
<1>5. conn'[d] = "open" /\ NoLeaveIn(d)' => host'[Route[d]] = h
  BY <1>4 DEF OneHost
<1> QED BY <1>1, <1>3, <1>5 DEF OneHost

(* What its client and the others do to a device.                          *)
LEMMA DeviceReceives ==
    ASSUME SlotsInvariant, FramesShape, TunnelShape, FramesTrue, NEW d \in Devices, Receive(d), OpenFirst(d)
    PROVE  LET t == <<d, d>> IN \E f \in Frames :
           /\ f.channel = d /\ f = down[d][1] /\ Fit(d, f) /\ d \in alive /\ down[d] # <<>>
           /\ tun'[t] = After(t, f) /\ Sound(t, After(t, f)) /\ UNCHANGED <<conn, host>>
           /\ Fresh(d) => f.kind = "peer_open" /\ tun'[t].life = "open"
           /\ tun'[t].life # "closed" => down'[d] = Tail(down[d]) /\ ~Leaves(d, 1)
<1> DEFINE t == <<d, d>>
<1>1. t \in Tunnels /\ d \in Attempts /\ Conn(t) = d /\ Channel(t) = d BY TunnelFacts
<1>2. PICK f \in Frames :
        /\ f.channel = d /\ f = down[d][1] /\ Fit(d, f) /\ d \in alive /\ down[d] # <<>>
        /\ Become(t, After(t, f), Tail(down[d])) /\ Sound(t, After(t, f))
        /\ UNCHANGED <<conn, host>>
  <2>1. PICK f \in Frames, e \in Devices : LET u == <<d, e>> IN
           /\ f.channel = e /\ u \in Tunnels /\ f = down[d][1] /\ Fit(d, f)
           /\ d \in alive /\ down[d] # <<>>
           /\ Become(u, After(u, f), Tail(down[d])) /\ Sound(u, After(u, f))
           /\ UNCHANGED <<conn, host>>
    BY <1>1, ReceiveIs
  <2>2. e = d BY <1>1, <2>1, TunnelFacts
  <2> QED BY <2>1, <2>2
<1>3. tun'[t] = After(t, f) BY <1>1, <1>2 DEF Become, TunnelShape
<1>4. Fresh(d) => f.kind = "peer_open" /\ tun'[t].life = "open"
  <2>1. SUFFICES ASSUME Fresh(d) PROVE f.kind = "peer_open" /\ tun'[t].life = "open" OBVIOUS
  <2>2. f.kind = "peer_open" BY <1>2, <2>1 DEF OpenFirst
  <2>3. After(t, f) = [tun[t] EXCEPT !.life = "open"] BY <2>1, <2>2 DEF After, Fresh
  <2>4. tun[t] = Absent BY <1>1, <2>1, FieldsSound DEF Fresh
  <2>5. [Absent EXCEPT !.life = "open"].life = "open" BY DEF Absent
  <2> QED BY <1>3, <2>2, <2>3, <2>4, <2>5
<1>5. tun'[t].life # "closed" => down'[d] = Tail(down[d]) /\ ~Leaves(d, 1)
  <2>1. SUFFICES ASSUME tun'[t].life # "closed" PROVE down'[d] = Tail(down[d]) /\ ~Leaves(d, 1)
    OBVIOUS
  <2>2. down'[d] = Tail(down[d]) BY <1>1, <1>2, <1>3, <2>1 DEF Become, FramesShape
  <2>3. tun[t].life # "closed" BY <1>2, <1>3, <2>1 DEF Sound
  <2>4. ASSUME f.kind = "peer_close" PROVE FALSE
    <3>1. Open(t) BY <1>1, <1>4, <2>3, <2>4, Fields, FieldsSound DEF Open, Fresh
    <3>2. After(t, f) = Ended(t) BY <2>4, <3>1 DEF After, AfterPeerClose
    <3>3. Ended(t).life = "closed" BY <1>1, <3>1, EndedSound DEF Open
    <3> QED BY <1>3, <2>1, <3>2, <3>3
  <2> QED BY <1>2, <2>2, <2>4 DEF Leaves
<1> QED BY <1>2, <1>3, <1>4, <1>5

LEMMA ReceiveWhole ==
    ASSUME SlotsInvariant, FramesShape, TunnelShape, FramesTrue, NEW d \in Devices, Receive(d),
           DeviceWhole(d), OpenFirst(d)
    PROVE  DeviceWhole(d)' /\ OpenFirst(d)'
<1> DEFINE t == <<d, d>>
<1>1. t \in Tunnels /\ d \in Attempts /\ Conn(t) = d /\ Channel(t) = d BY TunnelFacts
<1>2. PICK f \in Frames :
        /\ f.channel = d /\ f = down[d][1] /\ Fit(d, f) /\ d \in alive /\ down[d] # <<>>
        /\ tun'[t] = After(t, f) /\ Sound(t, After(t, f)) /\ UNCHANGED <<conn, host>>
        /\ Fresh(d) => f.kind = "peer_open" /\ tun'[t].life = "open"
        /\ tun'[t].life # "closed" => down'[d] = Tail(down[d]) /\ ~Leaves(d, 1)
  BY DeviceReceives
<1>3. TunnelNext BY <1>1 DEF TunnelNext
<1>4. ~Fresh(d)'
  <2>1. SUFFICES ASSUME tun'[t].life = "none" PROVE FALSE BY DEF Fresh
  <2>2. tun[t].life = "none" BY <1>2, <2>1, AbsentSound DEF Sound
  <2> QED BY <1>2, <2>1, <2>2 DEF Fresh
<1>5. OpenFirst(d)' BY <1>4 DEF OpenFirst
<1>6. ASSUME tun'[t].life # "closed" PROVE \E h \in Hosts : <<h, d>> \in Tunnels /\ OneHost(d, h)'
  <2>1. tun[t].life # "closed" BY <1>2, <1>6 DEF Sound
  <2>2. PICK h \in Hosts : <<h, d>> \in Tunnels /\ OneHost(d, h)
    BY <1>2, <2>1 DEF DeviceWhole
  <2>3. ASSUME f.kind = "data" PROVE FromWriter(f, <<h, d>>)
    <3>1. PICK w \in WritersTo(t) : FromWriter(f, w) BY <1>2, <2>3 DEF Fit
    <3>2. f.load[1] = w BY <3>1 DEF FromWriter
    <3>3. 1 \in 1..Len(down[d]) /\ \A j \in 1..1 : j = 1
      BY <1>1, <1>2 DEF FramesShape
    <3>4. f.load[1] = <<h, d>> BY <1>2, <1>6, <2>2, <2>3, <3>3 DEF OneHost
    <3> QED BY <3>1, <3>2, <3>4
  <2>4. tun[t].life = "none" => tun'[t] # tun[t] BY <1>2 DEF Fresh
  <2>5. Reads(t, <<h, d>>) BY <2>2 DEF OneHost
  <2>6. \A g \in Frames : g = down[d][1] /\ g.kind = "data" => FromWriter(g, <<h, d>>) BY <1>2, <2>3
  <2>7. Reads(t, <<h, d>>)' BY <1>1, <1>3, <1>6, <2>2, <2>4, <2>5, <2>6, ReadsStep
  <2> QED BY <1>2, <1>6, <2>2, <2>7, OneHostTail
<1> QED BY <1>4, <1>5, <1>6 DEF DeviceWhole

LEMMA ElsewhereWhole ==
    ASSUME SlotsInvariant, FramesShape, TunnelShape, FramesTrue, TunnelNext, NEW d \in Devices, ~Receive(d),
           DeviceWhole(d), OpenFirst(d), UNCHANGED <<conn, host>>, alive' \subseteq alive,
           down'[d] = down[d] \/ (down'[d] = <<>> /\ d \notin alive')
    PROVE  DeviceWhole(d)' /\ OpenFirst(d)'
<1> DEFINE t == <<d, d>>
<1>1. t \in Tunnels /\ d \in Attempts /\ Conn(t) = d /\ Channel(t) = d BY TunnelFacts
<1>2. Advance(t) /\ TunnelShape' /\ HandedKept BY <1>1, Advances, FramesStep
<1>3. /\ tun'[t].life = "none" => tun'[t] = tun[t]
      /\ tun'[t].life # "closed" => tun[t].life # "closed"
      /\ Fresh(d) /\ tun'[t].life # "closed" => tun'[t] = tun[t]
  BY <1>1, <1>2 DEF Advance, Open, Given, Opened, Taken, Fresh
<1>4. OpenFirst(d)'
  BY <1>3 DEF OpenFirst, Fresh
<1>5. ASSUME d \in alive', tun'[t].life # "closed", NEW h \in Hosts, <<h, d>> \in Tunnels, OneHost(d, h)
      PROVE  OneHost(d, h)'
  <2>1. down'[d] = down[d] BY <1>5
  <2>2. Reads(t, <<h, d>>) BY <1>5 DEF OneHost
  <2>3. CASE tun'[t] = tun[t]
    <3>1. Reads(t, <<h, d>>)' BY <1>1, <1>2, <1>5, <2>2, <2>3, ReadsKept DEF SameReading
    <3> QED BY <1>5, <2>1, <3>1, OneHostStays DEF OneHost
  <2>4. CASE tun'[t] # tun[t]
    <3>1. Reads(t, <<h, d>>)' BY <1>1, <1>5, <2>2, <2>4, ReadsStep
    <3> QED BY <1>5, <2>1, <3>1, OneHostStays DEF OneHost
  <2> QED BY <2>3, <2>4
<1>6. DeviceWhole(d)'
  <2>1. SUFFICES ASSUME d \in alive', tun'[t].life # "closed"
                 PROVE  IF Fresh(d)' /\ down'[d] = <<>>
                        THEN conn'[d] = "open" => host'[Route[d]] = NoConn
                        ELSE \E h \in Hosts : <<h, d>> \in Tunnels /\ OneHost(d, h)'
    BY DEF DeviceWhole
  <2>2. d \in alive /\ tun[t].life # "closed" /\ down'[d] = down[d] /\ (Fresh(d)' <=> Fresh(d))
    BY <1>3, <2>1 DEF Fresh
  <2>3. CASE Fresh(d) /\ down[d] = <<>>
    BY <2>2, <2>3 DEF DeviceWhole
  <2>4. CASE ~(Fresh(d) /\ down[d] = <<>>)
    <3>1. PICK h \in Hosts : <<h, d>> \in Tunnels /\ OneHost(d, h) BY <2>2, <2>4 DEF DeviceWhole
    <3> QED BY <1>5, <2>1, <2>2, <2>4, <3>1
  <2> QED BY <2>3, <2>4
<1> QED BY <1>4, <1>6

(* What a client does changes its own frames only.                         *)
LEMMA ClientMoves ==
    ASSUME SlotsInvariant, FramesShape, TunnelShape, FramesTrue, NEW d \in Attempts, ~Receive(d),
           \/ \E c \in Attempts : Receive(c) \/ HangUp(c)
           \/ \E t \in Tunnels : TunnelStep(t)
    PROVE  /\ alive' \subseteq alive
           /\ down'[d] = down[d] \/ (down'[d] = <<>> /\ d \notin alive')
<1>1. d \in Attempts /\ down \in [Attempts -> Seq(Frames)] BY Kinds DEF FramesShape
<1>2. ASSUME NEW u \in Tunnels, NEW new, NEW rest, Become(u, new, rest), rest = down[Conn(u)] \/ Conn(u) # d
      PROVE  /\ alive' \subseteq alive
             /\ down'[d] = down[d] \/ (down'[d] = <<>> /\ d \notin alive')
  BY <1>1, <1>2 DEF Become
<1>3. ASSUME NEW c \in Attempts, Receive(c)
      PROVE  /\ alive' \subseteq alive
             /\ down'[d] = down[d] \/ (down'[d] = <<>> /\ d \notin alive')
  <2>1. PICK f \in Frames, e \in Devices :
           <<c, e>> \in Tunnels /\ Become(<<c, e>>, After(<<c, e>>, f), Tail(down[c]))
    BY <1>3, ReceiveIs
  <2>2. Conn(<<c, e>>) = c /\ c # d BY <1>3, <2>1, TunnelFacts
  <2> QED BY <1>2, <2>1, <2>2
<1>4. ASSUME NEW c \in Attempts, HangUp(c)
      PROVE  /\ alive' \subseteq alive
             /\ down'[d] = down[d] \/ (down'[d] = <<>> /\ d \notin alive')
  BY <1>1, <1>4 DEF HangUp
<1>5. ASSUME NEW t \in Tunnels, TunnelStep(t)
      PROVE  /\ alive' \subseteq alive
             /\ down'[d] = down[d] \/ (down'[d] = <<>> /\ d \notin alive')
  <2>1. PICK new : Act(t, new) BY <1>5, TunnelStepSound
  <2> QED BY <1>2, <2>1 DEF Act
<1> QED BY <1>3, <1>4, <1>5

(* Every step preserves StreamsWhole.                                      *)
LEMMA StreamsStep ==
    ASSUME SlotsInvariant, FramesShape, TunnelShape, FramesTrue, StreamsWhole, TunnelNext
    PROVE  StreamsWhole'
<1>1. ASSUME NEW t \in Tunnels PROVE HostReads(t)'
  BY StreamsWholeIs, HostsRead
<1>2. ASSUME NEW d \in Devices PROVE DeviceWhole(d)' /\ OpenFirst(d)'
  <2>1. DeviceWhole(d) /\ OpenFirst(d) BY StreamsWholeIs
  <2>2. CASE RelayStep /\ UNCHANGED tun
    BY <2>1, <2>2, FramesStep, RelayWhole
  <2>3. CASE Receive(d) BY <2>1, <2>3, ReceiveWhole
  <2>4. ASSUME ~Receive(d), (\E c \in Attempts : Receive(c) \/ HangUp(c)) \/ \E t \in Tunnels : TunnelStep(t)
        PROVE  DeviceWhole(d)' /\ OpenFirst(d)'
    <3>1. UNCHANGED <<conn, host>> BY <2>4, ClientLeavesRelay
    <3>2. /\ alive' \subseteq alive
          /\ down'[d] = down[d] \/ (down'[d] = <<>> /\ d \notin alive')
      BY <2>4, Kinds, ClientMoves
    <3> QED BY <2>1, <2>4, <3>1, <3>2, ElsewhereWhole
  <2> QED BY <2>2, <2>3, <2>4 DEF TunnelNext
<1>3. (\A t \in Tunnels : HostReads(t)') /\ \A d \in Devices : DeviceWhole(d)' /\ OpenFirst(d)'
  BY <1>1, <1>2
<1> QED BY <1>3 DEF StreamsWhole, HostReads, DeviceWhole, OpenFirst

-----------------------------------------------------------------------------
(* The invariant.                                                          *)

LEMMA RelayInvariantInit == TunnelInit => RelayInvariant
<1> SUFFICES ASSUME TunnelInit PROVE RelayInvariant
  OBVIOUS
<1>1. \A a \in Attempts : up[a] = <<>> /\ down[a] = <<>> /\ a \notin alive /\ conn[a] = "none"
  BY DEF TunnelInit, RelayInit
<1>2. FramesShape
  <2>1. <<>> \in Seq(Frames) OBVIOUS
  <2> QED BY <1>1, <2>1 DEF TunnelInit, RelayInit, FramesShape
<1>3. \A t \in Tunnels : tun[t] = Absent BY DEF TunnelInit
<1>4. TunnelShape
  BY <1>3, AbsentSound DEF TunnelInit, TunnelShape, Open
<1>5. FramesTrue
  <2>1. \A i : i \notin 1..Len(<<>>) OBVIOUS
  <2> QED BY <1>1, <2>1 DEF FramesTrue
<1>6. StreamsWhole
  <2>1. \A t \in Tunnels : HostReads(t) BY <1>3, AbsentSound DEF HostReads, Open
  <2>2. \A d \in Devices : DeviceWhole(d) /\ OpenFirst(d)
    BY <1>1, Kinds DEF DeviceWhole, OpenFirst
  <2> QED BY <2>1, <2>2, StreamsWholeIs
<1> QED BY <1>2, <1>4, <1>5, <1>6, SlotsInit DEF RelayInvariant

(* The invariant is inductive.                                             *)
LEMMA RelayInvariantStep == RelayInvariant /\ [TunnelNext]_tunnelVars => RelayInvariant'
<1> SUFFICES ASSUME RelayInvariant, [TunnelNext]_tunnelVars PROVE RelayInvariant'
  OBVIOUS
<1>1. SlotsInvariant' BY SlotsStep DEF RelayInvariant
<1>2. CASE TunnelNext
  <2>1. FramesShape' /\ TunnelShape' /\ FramesTrue' BY <1>2, FramesStep DEF RelayInvariant
  <2>2. StreamsWhole' BY <1>2, StreamsStep DEF RelayInvariant
  <2> QED BY <1>1, <2>1, <2>2 DEF RelayInvariant
<1>3. CASE UNCHANGED tunnelVars
  <2> USE <1>3 DEF tunnelVars, relayVars, admission
  <2>1. FramesShape' BY DEF RelayInvariant, FramesShape
  <2>2. TunnelShape' BY DEF RelayInvariant, TunnelShape, Open
  <2>3. FramesTrue' BY DEF RelayInvariant, FramesTrue, FromWriter
  <2>4. StreamsWhole'
    BY DEF RelayInvariant, StreamsWhole, Open, Reads, Fresh, OneHost, Leaves, NoLeaveIn
  <2> QED BY <1>1, <2>1, <2>2, <2>3, <2>4 DEF RelayInvariant
<1> QED BY <1>2, <1>3

(* What holds of the relay, of the frames on their way and of the tunnels  *)
(* holds in every reachable state.                                         *)
THEOREM RelayInvariantHolds == TunnelSpec => []RelayInvariant
BY RelayInvariantInit, RelayInvariantStep, PTL DEF TunnelSpec

-----------------------------------------------------------------------------
(* The tunnels implement ByteStream.                                       *)

(* A tunnel that is open has a writer, and the first of its chunks.        *)
LEMMA OpenReads ==
    ASSUME RelayInvariant, NEW t \in Tunnels, Open(t)
    PROVE  \E w \in WritersTo(t) : w \in Tunnels /\ Reads(t, w)
<1> DEFINE d == Channel(t)
<1>1. d \in Devices /\ t = <<Conn(t), d>> /\ Conn(t) \in Attempts /\ <<d, d>> \in Tunnels
  BY TunnelFacts
<1>2. CASE Conn(t) \in Hosts
  <2>1. HostReads(t) BY StreamsWholeIs DEF RelayInvariant
  <2> QED BY <1>1, <1>2, <2>1, WriterFacts DEF HostReads
<1>3. CASE Conn(t) \in Devices
  <2>1. t = <<d, d>> BY <1>1, <1>3, TunnelFacts
  <2>2. d \in alive BY <2>1, FieldsSound, TunnelFacts DEF RelayInvariant
  <2>3. PICK h \in Hosts : <<h, d>> \in Tunnels /\ OneHost(d, h)
    BY <1>1, <2>1, <2>2, StreamsWholeIs DEF RelayInvariant, DeviceWhole, Fresh, Open
  <2> QED BY <1>1, <2>1, <2>3, WriterFacts DEF OneHost
<1> QED BY <1>1, <1>2, <1>3, Kinds

(* What a step means to a stream: nothing but that some are over, a chunk  *)
(* is written, or a chunk is given.                                        *)
Onward(t) == tun'[t].handed = tun[t].handed /\ (tun[t].life = "closed" => tun'[t].life = "closed")

OnlyEnds == \A t \in Tunnels : Onward(t) /\ tun'[t].given = tun[t].given

WroteTo(u) ==
    /\ Open(u) /\ tun'[u].life = "open" /\ tun'[u].given = tun[u].given
    /\ tun'[u].handed = tun[u].handed + 1
    /\ \A t \in Tunnels \ {u} : tun'[t] = tun[t]

GaveTo(u) ==
    /\ Open(u) /\ tun'[u].life = "open" /\ tun'[u].handed = tun[u].handed
    /\ tun[u].queue # <<>> /\ tun'[u].given = Append(tun[u].given, Head(tun[u].queue))
    /\ \A t \in Tunnels \ {u} : tun'[t] = tun[t]

(* Every step means one of those to the streams.                           *)
LEMMA StreamMoves ==
    ASSUME RelayInvariant, TunnelNext
    PROVE  OnlyEnds \/ \E u \in Tunnels : WroteTo(u) \/ GaveTo(u)
<1> USE DEF RelayInvariant
<1>1. CASE UNCHANGED tun BY <1>1 DEF OnlyEnds, Onward
<1>2. ASSUME NEW u \in Tunnels, NEW new, tun' = [tun EXCEPT ![u] = new], Sound(u, new),
             new.handed = tun[u].handed, new.given = tun[u].given
      PROVE  OnlyEnds
  <2>1. tun \in [Tunnels -> Tunnel] BY DEF TunnelShape
  <2>2. tun'[u] = new /\ \A t \in Tunnels \ {u} : tun'[t] = tun[t] BY <1>2, <2>1
  <2> QED BY <1>2, <2>2 DEF OnlyEnds, Onward, Sound
<1>3. ASSUME NEW c \in Attempts, Receive(c) PROVE OnlyEnds
  <2>1. PICK f \in Frames, d \in Devices : LET t == <<c, d>> IN
           t \in Tunnels /\ Become(t, After(t, f), Tail(down[c])) /\ Sound(t, After(t, f))
    BY <1>3, ReceiveIs
  <2> DEFINE t == <<c, d>>
             new == After(t, f)
  <2>2. new.handed = tun[t].handed /\ new.given = tun[t].given BY <2>1, AfterSound
  <2>3. tun' = [tun EXCEPT ![t] = new] BY <2>1 DEF Become
  <2> HIDE DEF new
  <2>4. Sound(t, new) BY <2>1 DEF new
  <2> QED BY <1>2, <2>1, <2>2, <2>3, <2>4
<1>4. ASSUME NEW c \in Attempts, HangUp(c) PROVE OnlyEnds
  <2>1. \A t \in Tunnels : tun'[t] = IF Conn(t) = c THEN Ended(t) ELSE tun[t] BY <1>4 DEF HangUp
  <2>2. \A t \in Tunnels : /\ Ended(t).given = tun[t].given /\ Ended(t).handed = tun[t].handed
                           /\ tun[t].life = "closed" => Ended(t).life = "closed"
    BY EndedSound
  <2> QED BY <2>1, <2>2 DEF OnlyEnds, Onward
<1>5. ASSUME NEW u \in Tunnels, TunnelStep(u)
      PROVE  OnlyEnds \/ WroteTo(u) \/ GaveTo(u)
  <2>1. ASSUME NEW new, Act(u, new) PROVE tun' = [tun EXCEPT ![u] = new] /\ Open(u)
    BY <2>1 DEF Act, Become
  <2>2. CASE ReceiptTimeout(u) \/ LocalClose(u)
    <3>1. Act(u, Ended(u)) BY <2>2 DEF ReceiptTimeout, LocalClose, TimedOut
    <3> QED BY <1>2, <2>1, <3>1, EndedSound
  <2>3. CASE Send(u)
    <3> DEFINE new == [tun[u] EXCEPT !.handed = @ + 1]
    <3>1. Act(u, new) BY <2>3 DEF Send
    <3>2. Open(u) /\ tun' = [tun EXCEPT ![u] = new] BY <2>1, <3>1
    <3>3. SameReading(u, new) /\ new.life = "open" /\ new.handed = tun[u].handed + 1 BY <3>2, SendSound
    <3>4. tun'[u] = new /\ \A t \in Tunnels \ {u} : tun'[t] = tun[t]
      BY <3>2 DEF TunnelShape
    <3> HIDE DEF new
    <3> QED BY <3>2, <3>3, <3>4 DEF WroteTo, SameReading
  <2>4. CASE SendChunk(u)
    <3> DEFINE new == [tun[u] EXCEPT !.sent = @ + 1, !.receipt = {}]
    <3>1. Act(u, new) /\ tun[u].receipt = NoReceipt /\ tun[u].acked < tun[u].handed BY <2>4 DEF SendChunk
    <3>2. Open(u) /\ tun' = [tun EXCEPT ![u] = new] BY <2>1, <3>1
    <3>3. Sound(u, new) /\ SameReading(u, new) /\ new.handed = tun[u].handed
      BY <3>1, <3>2, SendChunkSound
    <3> HIDE DEF new
    <3> QED BY <1>2, <3>2, <3>3 DEF SameReading
  <2>5. CASE SendSettles(u)
    <3> DEFINE new == Resolve(u, tun[u].receipt \cup {"settled"})
    <3>1. Act(u, new) /\ tun[u].receipt # NoReceipt BY <2>5 DEF SendSettles
    <3>2. Open(u) /\ tun' = [tun EXCEPT ![u] = new] BY <2>1, <3>1
    <3>3. "settled" \in Whole BY DEF Whole
    <3>4. Sound(u, new) /\ SameReading(u, new) /\ new.handed = tun[u].handed
      BY <3>1, <3>2, <3>3, ResolveSound
    <3> HIDE DEF new
    <3> QED BY <1>2, <3>2, <3>4 DEF SameReading
  <2>6. CASE Next(u)
    <3> DEFINE new == [tun[u] EXCEPT !.given = Append(@, Head(tun[u].queue)), !.queue = Tail(@)]
    <3>1. Act(u, new) /\ tun[u].queue # <<>> BY <2>6 DEF Next
    <3>2. Open(u) /\ tun' = [tun EXCEPT ![u] = new] BY <2>1, <3>1
    <3>3. /\ new.life = "open" /\ new.handed = tun[u].handed
          /\ new.given = Append(tun[u].given, Head(tun[u].queue))
      BY <3>1, <3>2, NextSound
    <3>4. tun'[u] = new /\ \A t \in Tunnels \ {u} : tun'[t] = tun[t]
      BY <3>2 DEF TunnelShape
    <3> HIDE DEF new
    <3> QED BY <3>1, <3>2, <3>3, <3>4 DEF GaveTo
  <2> QED BY <1>5, <2>2, <2>3, <2>4, <2>5, <2>6 DEF TunnelStep
<1> QED BY <1>1, <1>3, <1>4, <1>5 DEF TunnelNext

(* Initial states map to initial states, and steps to steps or stutters.   *)
LEMMA StreamsInit == TunnelInit => Streams!StreamInit
<1> SUFFICES ASSUME TunnelInit PROVE Streams!StreamInit
  OBVIOUS
<1>1. \A t \in Tunnels : tun[t] = Absent BY DEF TunnelInit
<1>2. \A t \in Tunnels : tun[t].handed = 0 /\ tun[t].given = <<>> /\ tun[t].life # "closed"
  BY <1>1, AbsentSound
<1>3. \A t \in Tunnels : WritersTo(t) \subseteq Tunnels BY DEF WritersTo
<1> QED BY <1>2, <1>3 DEF Streams!StreamInit, Streams!AllWriters

LEMMA StreamsImplemented ==
    RelayInvariant /\ [TunnelNext]_tunnelVars => [Streams!StreamNext]_(Streams!streamVars)
<1> SUFFICES ASSUME RelayInvariant, [TunnelNext]_tunnelVars
             PROVE  Streams!StreamNext \/ UNCHANGED Streams!streamVars
  OBVIOUS
<1> DEFINE All == UNION {WritersTo(t) : t \in Tunnels}
           written == [w \in All |-> tun[w].handed]
           stream == [t \in Tunnels |-> tun[t].given]
           ended == {t \in Tunnels : tun[t].life = "closed"}
<1>1. \A w \in All : w \in Tunnels BY DEF WritersTo
<1>2. CASE OnlyEnds
  <2>1. written' = written BY <1>1, <1>2 DEF OnlyEnds, Onward
  <2>2. stream' = stream BY <1>2 DEF OnlyEnds
  <2>3. ended' \in SUBSET Tunnels /\ ended \subseteq ended' BY <1>2 DEF OnlyEnds, Onward
  <2>4. Streams!End BY <2>1, <2>2, <2>3 DEF Streams!End
  <2> QED BY <2>4 DEF Streams!StreamNext
<1>3. ASSUME NEW u \in Tunnels, WroteTo(u) PROVE Streams!StreamNext \/ UNCHANGED Streams!streamVars
  <2>1. stream' = stream BY <1>3 DEF WroteTo
  <2>2. ended' = ended
    <3>1. \A t \in Tunnels : tun'[t].life = "closed" <=> tun[t].life = "closed" BY <1>3 DEF WroteTo, Open
    <3> QED BY <3>1
  <2>3. written' = IF u \in All THEN [written EXCEPT ![u] = @ + 1] ELSE written
    BY <1>1, <1>3 DEF WroteTo
  <2>4. CASE u \in All
    <3>1. Streams!Write(u) BY <2>1, <2>2, <2>3, <2>4 DEF Streams!Write
    <3> QED BY <2>4, <3>1 DEF Streams!StreamNext, Streams!AllWriters
  <2>5. CASE u \notin All
    BY <2>1, <2>2, <2>3, <2>5 DEF Streams!streamVars
  <2> QED BY <2>4, <2>5
<1>4. ASSUME NEW u \in Tunnels, GaveTo(u) PROVE Streams!StreamNext
  <2>1. PICK w \in WritersTo(u) : w \in Tunnels /\ Reads(u, w) BY <1>4, OpenReads DEF GaveTo
  <2> DEFINE g == tun[u].given
             q == tun[u].queue
  <2>2. /\ g \in Chunks /\ q \in Chunks /\ tun[w].handed \in Nat /\ tun[u].arrived \in Nat
    BY <2>1, Fields DEF RelayInvariant, TunnelShape
  <2>3. Len(g) \in Nat /\ Len(q) \in Nat \ {0} /\ Head(q) = q[1] /\ 1 \in 1..Len(q)
    <3>1. q # <<>> /\ q \in Seq(Tunnels \X Nat) BY <1>4, <2>2 DEF GaveTo, Chunks
    <3> QED BY <2>2, <3>1, SeqFacts DEF Chunks
  <2>4. Head(q) = <<w, Len(g) + 1>> BY <2>1, <2>3 DEF Reads
  <2>5. Len(g) < tun[w].handed
    <3>1. Len(g) + Len(q) = tun[u].arrived /\ tun[u].arrived <= tun[w].handed BY <2>1 DEF Reads
    <3>2. \A a, b, n, k \in Nat : a + b = n /\ n <= k /\ b # 0 => a < k OBVIOUS
    <3> QED BY <2>2, <2>3, <3>1, <3>2
  <2>6. g = [n \in 1..Len(g) |-> <<w, n>>]
    <3>1. g = [n \in 1..Len(g) |-> g[n]] BY <2>2 DEF Chunks
    <3> QED BY <2>1, <3>1 DEF Reads
  <2>7. written' = written BY <1>1, <1>4 DEF GaveTo
  <2>8. ended' = ended /\ u \notin ended
    <3>1. \A t \in Tunnels : tun'[t].life = "closed" <=> tun[t].life = "closed" BY <1>4 DEF GaveTo, Open
    <3> QED BY <1>4, <3>1 DEF GaveTo, Open
  <2>9. stream' = [stream EXCEPT ![u] = Append(@, <<w, Len(@) + 1>>)]
    BY <1>4, <2>4 DEF GaveTo
  <2>10. w \in All BY <2>1
  <2>11. Streams!Give(u, w)
    BY <2>5, <2>6, <2>7, <2>8, <2>9, <2>10 DEF Streams!Give, Streams!Begins
  <2> QED BY <2>1, <2>11 DEF Streams!StreamNext
<1>5. CASE UNCHANGED tunnelVars
  <2>1. OnlyEnds BY <1>5 DEF tunnelVars, OnlyEnds, Onward
  <2> QED BY <1>2, <2>1
<1> QED BY <1>2, <1>3, <1>4, <1>5, StreamMoves

(* The tunnels implement ByteStream: whatever the relay, the network and   *)
(* the clients do, each reader is given an unbroken beginning of what one  *)
(* writer at the other end of its channel wrote.                           *)
THEOREM TunnelImplementsStreams == TunnelSpec => StreamSpec
<1>1. TunnelSpec => []RelayInvariant BY RelayInvariantHolds
<1> QED BY <1>1, StreamsInit, StreamsImplemented, PTL DEF TunnelSpec, StreamSpec, Streams!StreamSpec

-----------------------------------------------------------------------------
(* Ends that are told.                                                     *)

(* What In and Answered say of a longer and of a shorter queue.            *)
LEMMA InAppend ==
    ASSUME NEW q \in Seq(Frames), NEW e \in Frames, NEW f
    PROVE  In(Append(q, e), f) <=> In(q, f) \/ e = f
<1> DEFINE r == Append(q, e)
           n == Len(q)
<1>1. n \in Nat /\ Len(r) = n + 1 /\ \A i \in 1..n + 1 : r[i] = IF i = n + 1 THEN e ELSE q[i]
  BY SeqFacts
<1>2. /\ n + 1 \in 1..n + 1
      /\ \A i \in 1..n : i \in 1..n + 1 /\ i # n + 1
      /\ \A i \in 1..n + 1 : i = n + 1 \/ i \in 1..n
  BY <1>1
<1> HIDE DEF r, n
<1> QED BY <1>1, <1>2 DEF In, r, n

LEMMA AnsweredAppend ==
    ASSUME NEW q \in Seq(Frames), NEW e \in Frames, NEW f, NEW g, e # f,
           Answered(q, f, g) \/ e = g
    PROVE  Answered(Append(q, e), f, g)
<1> DEFINE r == Append(q, e)
           n == Len(q)
<1>1. n \in Nat /\ Len(r) = n + 1 /\ \A i \in 1..n + 1 : r[i] = IF i = n + 1 THEN e ELSE q[i]
  BY SeqFacts
<1>2. /\ \A i \in 1..n + 1 : i = n + 1 \/ (i \in 1..n /\ i # n + 1 /\ n + 1 \in i + 1..n + 1)
      /\ \A i \in 1..n : \A j \in i + 1..n : j \in i + 1..n + 1 /\ j \in 1..n + 1 /\ j # n + 1
      /\ n + 1 \in 1..n + 1
  BY <1>1
<1> HIDE DEF r, n
<1>3. SUFFICES ASSUME NEW i \in 1..n + 1, r[i] = f PROVE \E j \in i + 1..n + 1 : r[j] = g
  BY <1>1 DEF Answered, r
<1>4. i \in 1..n /\ i # n + 1 /\ n + 1 \in i + 1..n + 1 /\ q[i] = f BY <1>1, <1>2, <1>3
<1>5. CASE e = g BY <1>1, <1>2, <1>4, <1>5
<1>6. CASE Answered(q, f, g)
  <2>1. PICK j \in i + 1..n : q[j] = g BY <1>4, <1>6 DEF Answered, n
  <2> QED BY <1>1, <1>2, <1>4, <2>1
<1> QED BY <1>5, <1>6

LEMMA InTail ==
    ASSUME NEW q \in Seq(Frames), q # <<>>, NEW f
    PROVE  /\ In(Tail(q), f) => In(q, f)
           /\ In(q, f) => q[1] = f \/ In(Tail(q), f)
<1> DEFINE n == Len(q)
<1>1. n \in Nat \ {0} /\ Len(Tail(q)) = n - 1 /\ \A i \in 1..n - 1 : Tail(q)[i] = q[i + 1]
  BY SeqFacts
<1>2. /\ \A i \in 1..n - 1 : i + 1 \in 1..n
      /\ \A i \in 1..n : i = 1 \/ (i - 1 \in 1..n - 1 /\ (i - 1) + 1 = i)
  BY <1>1
<1> HIDE DEF n
<1>3. In(Tail(q), f) => In(q, f) BY <1>1, <1>2 DEF In, n
<1>4. ASSUME NEW i \in 1..n, q[i] = f, i # 1 PROVE In(Tail(q), f)
  <2>1. i - 1 \in 1..n - 1 /\ (i - 1) + 1 = i BY <1>2, <1>4
  <2>2. Tail(q)[i - 1] = f BY <1>1, <1>4, <2>1
  <2> QED BY <1>1, <2>1, <2>2 DEF In
<1> QED BY <1>3, <1>4 DEF In, n

LEMMA AnsweredTail ==
    ASSUME NEW q \in Seq(Frames), q # <<>>, NEW f, NEW g, Answered(q, f, g)
    PROVE  Answered(Tail(q), f, g) /\ (q[1] = f => In(Tail(q), g))
<1> DEFINE n == Len(q)
<1>1. n \in Nat \ {0} /\ Len(Tail(q)) = n - 1 /\ \A i \in 1..n - 1 : Tail(q)[i] = q[i + 1]
  BY SeqFacts
<1>2. /\ \A i \in 1..n - 1 : i + 1 \in 1..n
      /\ \A i \in 0..n - 1 : \A j \in (i + 1) + 1..n : j - 1 \in i + 1..n - 1 /\ (j - 1) + 1 = j /\ j - 1 \in 1..n - 1
      /\ 1 \in 1..n /\ 0 \in 0..n - 1 /\ 0 + 1 = 1
      /\ \A i \in 1..n - 1 : i \in 0..n - 1
  BY <1>1
<1> HIDE DEF n
<1>3. ASSUME NEW i \in 0..n - 1, q[i + 1] = f, i + 1 \in 1..n
      PROVE  \E j \in i + 1..n - 1 : j \in 1..n - 1 /\ Tail(q)[j] = g
  <2>1. PICK j \in (i + 1) + 1..n : q[j] = g BY <1>3 DEF Answered, n
  <2>2. j - 1 \in i + 1..n - 1 /\ (j - 1) + 1 = j /\ j - 1 \in 1..n - 1 BY <1>2, <2>1
  <2> QED BY <1>1, <2>1, <2>2
<1>4. Answered(Tail(q), f, g)
  <2>1. SUFFICES ASSUME NEW i \in 1..n - 1, Tail(q)[i] = f PROVE \E j \in i + 1..n - 1 : Tail(q)[j] = g
    BY <1>1 DEF Answered
  <2> QED BY <1>1, <1>2, <1>3, <2>1
<1>5. q[1] = f => In(Tail(q), g)
  <2>1. q[1] = f => \E j \in 1..n - 1 : Tail(q)[j] = g BY <1>2, <1>3
  <2> QED BY <1>1, <2>1 DEF In
<1> QED BY <1>4, <1>5

(* Frames that are put on their way to a connection that is there.         *)
LEMMA NothingIn == \A f : ~In(<<>>, f)
<1>1. Len(<<>>) = 0 /\ \A i : i \notin 1..0 OBVIOUS
<1> QED BY <1>1 DEF In

(* The connections only move on.                                           *)
LEMMA ConnMoves ==
    ASSUME SlotsInvariant, FramesShape, RelayStep, NEW b \in Attempts
    PROVE  /\ conn[b] = "closed" => conn'[b] = "closed"
           /\ conn[b] # "none" => conn'[b] # "none"
           /\ conn'[b] = "closed" => conn[b] = "closed" \/ OnClose(b)
           /\ conn'[b] = "open" => conn[b] = "open" \/ Admitted(b)
           /\ Connected(b)' => Connected(b) \/ Admitted(b)
           /\ b \in alive' => b \in alive \/ Admitted(b)
           /\ Admitted(b) => conn[b] = "none" /\ b \notin alive /\ down[b] = <<>>
<1>1. conn \in [Attempts -> {"none", "open", "closing", "closed"}]
  BY DEF SlotsInvariant, SlotsShape
<1>2. Admitted(b) => conn[b] = "none" /\ b \notin alive /\ down[b] = <<>>
  BY DEF Admitted, SlotsInvariant, SlotsShape, GrantsSpent, FramesShape
<1>3. b \in alive' => b \in alive \/ Admitted(b)
  BY DEF RelayStep, Present, Refused, Admitted, OnMessage, CloseConnection, OnClose, Stop
<1>4. ASSUME NEW a \in Attempts, Admitted(a)
      PROVE  IF a = b THEN conn'[b] \in {"open", "closing"}
             ELSE conn'[b] = conn[b] \/ (conn[b] = "open" /\ conn'[b] = "closing")
  <2>1. PICK sent, full : Deliver([conn EXCEPT ![a] = "open"], sent, full) BY <1>4 DEF Admitted, Attach
  <2>2. [conn EXCEPT ![a] = "open"] \in [Attempts -> {"none", "open", "closing", "closed"}] BY <1>1
  <2>3. [conn EXCEPT ![a] = "open"][b] = IF a = b THEN "open" ELSE conn[b] BY <1>1
  <2> QED BY <2>1, <2>2, <2>3, Delivered
<1>5. ASSUME NEW a \in Attempts, OnClose(a)
      PROVE  IF a = b THEN conn'[b] = "closed"
             ELSE conn'[b] = conn[b] \/ (conn[b] = "open" /\ conn'[b] = "closing")
  <2>1. PICK sent, full : Deliver([conn EXCEPT ![a] = "closed"], sent, full) BY <1>5 DEF OnClose, Leave
  <2>2. [conn EXCEPT ![a] = "closed"] \in [Attempts -> {"none", "open", "closing", "closed"}] BY <1>1
  <2>3. [conn EXCEPT ![a] = "closed"][b] = IF a = b THEN "closed" ELSE conn[b] BY <1>1
  <2> QED BY <2>1, <2>2, <2>3, Delivered
<1>6. ASSUME NEW a \in Attempts, OnMessage(a)
      PROVE  conn'[b] = conn[b] \/ (conn[b] = "open" /\ conn'[b] = "closing")
  <2>1. PICK sent, full : Deliver(conn, sent, full) BY <1>6 DEF OnMessage, Forward
  <2> QED BY <1>1, <2>1, Delivered
<1>7. ASSUME NEW a \in Attempts, (\E g \in Grants : Present(a, g)) \/ Refused(a) \/ CloseConnection(a)
      PROVE  conn'[b] = conn[b] \/ (conn[b] = "open" /\ conn'[b] = "closing")
  BY <1>1, <1>7 DEF Present, Refused, CloseConnection
<1>8. ASSUME Stop
      PROVE  conn'[b] = conn[b] \/ (conn[b] = "open" /\ conn'[b] = "closing")
  BY <1>1, <1>8 DEF Stop
<1>9. \/ Admitted(b) /\ conn'[b] \in {"open", "closing"}
      \/ OnClose(b) /\ conn'[b] = "closed"
      \/ conn'[b] = conn[b] \/ (conn[b] = "open" /\ conn'[b] = "closing")
  BY <1>4, <1>5, <1>6, <1>7, <1>8 DEF RelayStep
<1> QED BY <1>2, <1>3, <1>9 DEF Connected

(* What a step of the relay puts on its way to a host, and says of the     *)
(* device of one of its channels.                                          *)
HostHears(h, d) ==
    \/ down'[h] = down[h]
    \/ /\ conn[h] = "open"
       /\ \E f \in Frames :
            /\ down'[h] = Append(down[h], f)
            /\ f = PeerOpen(d) => conn[d] = "none" /\ conn'[d] # "none"
            /\ f.channel = d => f = PeerOpen(d) \/ Connected(d) \/ tun[<<h, d>>].life # "none"
    \/ /\ Admitted(h) /\ down'[h] \in Seq(Frames)
       /\ \A i \in 1..Len(down'[h]) : down'[h][i].kind = "peer_open"
       /\ In(down'[h], PeerOpen(d)) => conn[d] \notin {"none", "closed"}

(* Every action of the relay tells a host one of those.                    *)
LEMMA HostTells ==
    ASSUME SlotsInvariant, FramesShape, TunnelShape, FramesTrue, RelayStep, UNCHANGED tun,
           NEW h \in Hosts, NEW d \in Devices
    PROVE  HostHears(h, d)
<1>1. h \in Attempts /\ d \in Attempts /\ h # d /\ h \notin Devices
      /\ conn \in [Attempts -> {"none", "open", "closing", "closed"}]
  BY Kinds DEF SlotsInvariant, SlotsShape
<1>2. ASSUME NEW a \in Attempts, Admitted(a) PROVE HostHears(h, d)
  <2>1. PICK sent, full : AttachSends(a, sent) /\ Deliver([conn EXCEPT ![a] = "open"], sent, full)
    BY <1>2, AttachedSends
  <2> DEFINE state == [conn EXCEPT ![a] = "open"]
  <2>2. \A b \in Attempts : state[b] = IF a = b THEN "open" ELSE conn[b] BY <1>1
  <2> HIDE DEF state
  <2>3. Deliver(state, sent, full) BY <2>1 DEF state
  <2>4. CASE a = h
    <3>1. down[h] = <<>> BY <1>2, <2>4, ConnMoves
    <3>2. sent[h] \in Seq(Frames) BY <1>1, <2>1 DEF AttachSends, Fitting
    <3>3. <<>> \o sent[h] = sent[h] BY <3>2
    <3>4. down'[h] = down[h] \/ down'[h] = sent[h]
      <4>1. down'[h] = down[h] \/ down'[h] = down[h] \o sent[h]
        <5>1. h \in Attempts BY <1>1
        <5>2. down'[h] = down[h] \/ (down'[h] = down[h] \o sent[h] /\ state[h] = "open")
          BY <2>3, <5>1, DeliveredFrames
        <5> QED BY <5>2
      <4> QED BY <3>1, <3>3, <4>1
    <3>5. In(sent[h], PeerOpen(d)) => conn[d] \notin {"none", "closed"}
      <4>1. SUFFICES ASSUME NEW i \in 1..Len(sent[h]), sent[h][i] = PeerOpen(d)
                     PROVE  conn[d] \notin {"none", "closed"}
        BY DEF In
      <4>2. PICK e \in devices[Route[a]] : sent[h][i] = PeerOpen(e)
        BY <2>1, <2>4 DEF AttachSends
      <4>3. e = d BY <4>1, <4>2 DEF PeerOpen
      <4>4. Route[a] \in Routes /\ Route[d] = Route[a] /\ d \in devices[Route[d]]
        BY <4>2, <4>3, Kinds DEF SlotsInvariant, TablesExact
      <4> QED BY <4>4 DEF SlotsInvariant, TablesExact, Connected
    <3>6. \A i \in 1..Len(sent[h]) : sent[h][i].kind = "peer_open"
      <4>1. \A i \in 1..Len(sent[h]) : \E e \in devices[Route[a]] : sent[h][i] = PeerOpen(e)
        BY <2>1, <2>4 DEF AttachSends
      <4>2. \A e : PeerOpen(e).kind = "peer_open" BY DEF PeerOpen
      <4> QED BY <4>1, <4>2
    <3> QED BY <1>2, <2>4, <3>2, <3>4, <3>5, <3>6 DEF HostHears
  <2>5. CASE a # h
    <3>1. sent[h] = IF a \in Devices /\ h = host[Route[a]] THEN <<PeerOpen(a)>> ELSE <<>>
      BY <2>1, <2>5 DEF AttachSends
    <3>2. CASE ~(a \in Devices /\ h = host[Route[a]])
      <4>1. sent[h] = <<>> BY <3>1, <3>2
      <4> QED BY <1>1, <2>3, <4>1, DeliveredNone DEF HostHears
    <3>3. CASE a \in Devices /\ h = host[Route[a]]
      <4>1. sent[h] = <<PeerOpen(a)>> /\ PeerOpen(a) \in Frames BY <3>1, <3>3, FrameFacts
      <4>2. down'[h] = down[h] \/ (down'[h] = Append(down[h], PeerOpen(a)) /\ state[h] = "open")
        <5>1. /\ down'[h] = down[h] \/ (down'[h] = down[h] \o sent[h] /\ state[h] = "open")
              /\ down[h] \in Seq(Frames)
          BY <1>1, <2>3, DeliveredFrames DEF FramesShape
        <5> QED BY <4>1, <5>1, SeqFacts
      <4>3. PeerOpen(a).channel = a /\ (PeerOpen(a) = PeerOpen(d) => a = d) BY DEF PeerOpen
      <4>4. conn[a] = "none" BY <1>2, ConnMoves
      <4>5. conn'[a] # "none"
        <5>1. state \in [Attempts -> {"none", "open", "closing", "closed"}] BY <1>1 DEF state
        <5> QED BY <2>2, <2>3, <5>1, Delivered
      <4> QED BY <2>2, <2>5, <1>1, <4>1, <4>2, <4>3, <4>4, <4>5 DEF HostHears
    <3> QED BY <3>2, <3>3
  <2> QED BY <2>4, <2>5
<1>3. ASSUME NEW state, NEW sent, NEW full, Deliver(state, sent, full), state[h] = "open" => conn[h] = "open",
             sent[h] = <<>> \/ \E f \in Frames : /\ sent[h] = <<f>> /\ f.kind # "peer_open"
                                                 /\ f.channel = d => Connected(d) \/ tun[<<h, d>>].life # "none"
      PROVE  HostHears(h, d)
  <2>1. CASE sent[h] = <<>> BY <1>1, <1>3, <2>1, DeliveredNone DEF HostHears
  <2>2. ASSUME NEW f \in Frames, sent[h] = <<f>>, f.kind # "peer_open",
               f.channel = d => Connected(d) \/ tun[<<h, d>>].life # "none"
        PROVE  HostHears(h, d)
    <3>1. /\ down'[h] = down[h] \/ (down'[h] = down[h] \o sent[h] /\ state[h] = "open")
          /\ down[h] \in Seq(Frames)
      BY <1>1, <1>3, DeliveredFrames DEF FramesShape
    <3>2. down'[h] = down[h] \/ (down'[h] = Append(down[h], f) /\ state[h] = "open")
      BY <2>2, <3>1, SeqFacts
    <3>3. f # PeerOpen(d) BY <2>2, FrameFacts
    <3> QED BY <1>3, <2>2, <3>2, <3>3 DEF HostHears
  <2>3. CASE sent[h] # <<>>
    <3>1. PICK f \in Frames : /\ sent[h] = <<f>> /\ f.kind # "peer_open"
                              /\ f.channel = d => Connected(d) \/ tun[<<h, d>>].life # "none"
      BY <1>3, <2>3
    <3> QED BY <2>2, <3>1
  <2> QED BY <2>1, <2>3
<1>4. ASSUME NEW a \in Attempts, OnClose(a) PROVE HostHears(h, d)
  <2>1. PICK sent, full : LeaveSends(a, sent) /\ Deliver([conn EXCEPT ![a] = "closed"], sent, full)
    BY <1>4, LeftSends
  <2>2. [conn EXCEPT ![a] = "closed"][h] \in {conn[h], "closed"} BY <1>1
  <2>3. sent[h] = <<>> \/ (a \in Devices /\ sent[h] = <<PeerClose(a)>>) BY <2>1 DEF LeaveSends
  <2>4. a \in Devices => /\ PeerClose(a) \in Frames /\ PeerClose(a).kind # "peer_open"
                         /\ PeerClose(a).channel = a
    BY FrameFacts
  <2>5. Connected(a) BY <1>4 DEF OnClose
  <2> QED BY <1>3, <2>1, <2>2, <2>3, <2>4, <2>5
<1>5. ASSUME NEW a \in Attempts, OnMessage(a) PROVE HostHears(h, d)
  <2>1. PICK f, status, sent, full : Forwarded(a, f, status, sent, full) BY <1>5, ForwardedOne
  <2> DEFINE e == f.channel
             g == Result(e, f.id, status)
  <2>2. /\ f \in Frames /\ f.kind = "data" /\ <<a, e>> \in Tunnels /\ FromWriter(f, <<a, e>>)
        /\ e \in Devices /\ f.id \in Nat /\ status \in {"accepted", "unavailable", "backpressure"}
        /\ Deliver(conn, sent, full) /\ sent[a] = <<g>>
        /\ a # h => sent[h] = <<>> \/ (sent[h] = <<f>> /\ (a \in Hosts => Recipient(a, e) = h /\ host[Route[a]] = a))
    BY <1>1, <2>1 DEF Forwarded
  <2>3. CASE a = h
    <3>1. g \in Frames /\ g.kind = "forward_result" /\ g.channel = e BY <2>2, FrameFacts
    <3>2. tun[<<a, e>>].life # "none" BY <2>2, FieldsSound, AbsentSound, Fields DEF FromWriter
    <3> QED BY <1>3, <2>2, <2>3, <3>1, <3>2
  <2>4. CASE a # h
    <3>1. a \in Devices => a = e BY <2>2, TunnelFacts
    <3>2. a \in Hosts => Recipient(a, e) # h BY <1>1, <2>2, Kinds DEF Recipient
    <3>3. Connected(a) BY <1>5 DEF OnMessage, Connected
    <3> QED BY <1>3, <2>2, <2>4, <3>1, <3>2, <3>3, Kinds
  <2> QED BY <2>3, <2>4
<1>6. ASSUME down' = down PROVE HostHears(h, d)
  BY <1>6 DEF HostHears
<1> QED BY <1>2, <1>4, <1>5, <1>6 DEF RelayStep, Present, Refused, CloseConnection, Stop

(* Those who are there when a connection goes are told.                    *)
LEMMA LeavingTold ==
    ASSUME SlotsInvariant, FramesShape, NEW a \in Attempts, OnClose(a), NEW h \in Hosts, NEW d \in Devices,
           <<h, d>> \in Tunnels
    PROVE  /\ a = d /\ h \in alive /\ conn'[h] = "open" => down'[h] = Append(down[h], PeerClose(d))
           /\ a = h /\ d \in alive /\ conn'[d] = "open" => down'[d] = Append(down[d], PeerClose(d))
<1>1. /\ h \in Attempts /\ d \in Attempts /\ h # d /\ Route[h] = Route[d] /\ Route[d] \in Routes
      /\ conn \in [Attempts -> {"none", "open", "closing", "closed"}]
      /\ PeerClose(d) \in Frames
  BY Kinds, TunnelFacts, FrameFacts DEF SlotsInvariant, SlotsShape
<1>2. PICK sent, full : LeaveSends(a, sent) /\ Deliver([conn EXCEPT ![a] = "closed"], sent, full)
  BY LeftSends
<1> DEFINE state == [conn EXCEPT ![a] = "closed"]
<1>3. \A b \in Attempts : state[b] = IF a = b THEN "closed" ELSE conn[b] BY <1>1
<1> HIDE DEF state
<1>4. Deliver(state, sent, full) BY <1>2 DEF state
<1>5. \A b \in Attempts : conn'[b] = "open" => state[b] = "open" BY <1>4, DeliveredFrames
<1>6. ASSUME a = d, h \in alive, conn'[h] = "open" PROVE down'[h] = Append(down[h], PeerClose(d))
  <2>1. conn[h] = "open" BY <1>1, <1>3, <1>5, <1>6
  <2>2. host[Route[d]] = h BY <1>1, <2>1 DEF SlotsInvariant, TablesExact, Connected
  <2>3. sent[h] = <<PeerClose(d)>> BY <1>2, <1>6, <2>2 DEF LeaveSends
  <2> QED BY <1>1, <1>4, <1>6, <2>3, DeliveredOne
<1>7. ASSUME a = h, d \in alive, conn'[d] = "open" PROVE down'[d] = Append(down[d], PeerClose(d))
  <2>1. conn[d] = "open" BY <1>1, <1>3, <1>5, <1>7
  <2>2. d \in devices[Route[h]] BY <1>1, <2>1 DEF SlotsInvariant, TablesExact, Connected
  <2>3. sent[d] = <<PeerClose(d)>> BY <1>2, <1>7, <2>2 DEF LeaveSends
  <2> QED BY <1>1, <1>4, <1>7, <2>3, DeliveredOne
<1> QED BY <1>6, <1>7

LEMMA EndsToldIs == EndsTold <=>
    \A d \in Devices, h \in Hosts : <<h, d>> \in Tunnels =>
        (Known(h, d) => conn[d] # "none") /\ HostTold(h, d) /\ DeviceTold(h, d)
  BY DEF EndsTold

(* No step of the relay loses the news of an end.                          *)
LEMMA RelayTells ==
    ASSUME RelayInvariant, RelayStep, UNCHANGED tun, NEW h \in Hosts, NEW d \in Devices, <<h, d>> \in Tunnels,
           Known(h, d) => conn[d] # "none", HostTold(h, d), DeviceTold(h, d)
    PROVE  (Known(h, d)' => conn'[d] # "none") /\ HostTold(h, d)' /\ DeviceTold(h, d)'
<1> USE DEF RelayInvariant
<1>1. /\ h \in Attempts /\ d \in Attempts /\ <<d, d>> \in Tunnels
      /\ down[h] \in Seq(Frames) /\ down[d] \in Seq(Frames)
      /\ PeerClose(d) \in Frames /\ PeerOpen(d) \in Frames /\ PeerClose(d) # PeerOpen(d)
  <2>1. h \in Attempts /\ d \in Attempts /\ <<d, d>> \in Tunnels BY Kinds, TunnelFacts
  <2>2. PeerClose(d) \in Frames /\ PeerOpen(d) \in Frames /\ PeerClose(d) # PeerOpen(d)
    BY FrameFacts DEF PeerClose, PeerOpen
  <2> QED BY <2>1, <2>2 DEF FramesShape
<1>2. HostHears(h, d) BY HostTells
<1>3. \A f \in Frames : \A g : In(Append(down[h], f), g) <=> In(down[h], g) \/ f = g BY <1>1, InAppend
<1>4. Known(h, d)' => conn'[d] # "none"
  <2>1. SUFFICES ASSUME Known(h, d)', conn'[d] = "none" PROVE FALSE OBVIOUS
  <2>2. ~Known(h, d) /\ conn[d] = "none" BY <1>1, <2>1, ConnMoves
  <2>3. In(down'[h], PeerOpen(d)) /\ ~In(down[h], PeerOpen(d)) BY <2>1, <2>2 DEF Known
  <2> QED BY <1>2, <1>3, <2>1, <2>2, <2>3 DEF HostHears
<1>5. HostTold(h, d)'
  <2>1. SUFFICES ASSUME h \in alive', conn'[d] = "closed", conn'[h] = "open"
                 PROVE  /\ Open(<<h, d>>) => In(down'[h], PeerClose(d))
                        /\ Answered(down'[h], PeerOpen(d), PeerClose(d))
    BY DEF HostTold, Open
  <2>2. CASE Admitted(h)
    <3>1. conn[h] = "none" /\ h \notin alive /\ down[h] = <<>> BY <1>1, <2>2, ConnMoves
    <3>2. ~Open(<<h, d>>) BY <3>1, FieldsSound, TunnelFacts
    <3>3. ~OnClose(d) BY <1>1, <2>1, <3>1 DEF OnClose
    <3>4. conn[d] = "closed" BY <1>1, <2>1, <3>3, ConnMoves
    <3>5. ~In(down'[h], PeerOpen(d)) BY <1>2, <3>1, <3>4, NothingIn DEF HostHears
    <3> QED BY <3>2, <3>5 DEF In, Answered
  <2>3. CASE ~Admitted(h)
    <3>1. h \in alive /\ conn[h] = "open" BY <1>1, <2>1, <2>3, ConnMoves
    <3>2. CASE conn[d] = "closed"
      <4>1. /\ Open(<<h, d>>) => In(down[h], PeerClose(d))
            /\ Answered(down[h], PeerOpen(d), PeerClose(d))
        BY <3>1, <3>2 DEF HostTold
      <4>2. CASE down'[h] = down[h] BY <4>1, <4>2
      <4>3. ASSUME NEW f \in Frames, down'[h] = Append(down[h], f), f # PeerOpen(d)
            PROVE  /\ Open(<<h, d>>) => In(down'[h], PeerClose(d))
                   /\ Answered(down'[h], PeerOpen(d), PeerClose(d))
        BY <1>1, <1>3, <4>1, <4>3, AnsweredAppend
      <4> QED BY <1>2, <2>3, <3>2, <4>2, <4>3 DEF HostHears
    <3>3. CASE conn[d] # "closed"
      <4>1. OnClose(d) BY <1>1, <2>1, <3>3, ConnMoves
      <4>2. down'[h] = Append(down[h], PeerClose(d)) BY <1>1, <2>1, <3>1, <4>1, LeavingTold
      <4>3. In(down'[h], PeerClose(d)) BY <1>1, <1>3, <4>2
      <4>4. Answered(down'[h], PeerOpen(d), PeerClose(d)) BY <1>1, <4>2, AnsweredAppend
      <4> QED BY <4>3, <4>4
    <3> QED BY <3>2, <3>3
  <2> QED BY <2>2, <2>3
<1>6. DeviceTold(h, d)'
  <2>1. SUFFICES ASSUME Known(h, d)', conn'[h] = "closed", conn'[d] = "open", d \in alive',
                        tun[<<d, d>>].life # "closed"
                 PROVE  In(down'[d], PeerClose(d))
    BY DEF DeviceTold
  <2>2. CASE conn[h] = "closed"
    <3>1. down'[h] = down[h] BY <1>1, <1>2, <2>2, ConnMoves DEF HostHears
    <3>2. Known(h, d) BY <2>1, <3>1 DEF Known
    <3>3. d \in alive /\ conn[d] = "open" BY <1>1, <2>1, <3>2, ConnMoves
    <3>4. In(down[d], PeerClose(d)) BY <2>1, <2>2, <3>2, <3>3 DEF DeviceTold
    <3>5. Hears(d) BY <3>3, DeviceHears
    <3>6. down'[d] = down[d] \/ \E f \in Frames : down'[d] = Append(down[d], f) BY <3>5 DEF Hears
    <3>7. ASSUME NEW f \in Frames, down'[d] = Append(down[d], f) PROVE In(down'[d], PeerClose(d))
      BY <1>1, <3>4, <3>7, InAppend
    <3> QED BY <3>4, <3>6, <3>7
  <2>3. CASE conn[h] # "closed"
    <3>1. OnClose(h) BY <1>1, <2>1, <2>3, ConnMoves
    <3>2. d \in alive BY <2>1, <3>1 DEF OnClose
    <3>3. down'[d] = Append(down[d], PeerClose(d)) BY <1>1, <2>1, <3>1, <3>2, LeavingTold
    <3> QED BY <1>1, <3>3, InAppend
  <2> QED BY <2>2, <2>3
<1> QED BY <1>4, <1>5, <1>6

(* A host that reads the end of its device is over on that channel.        *)
LEMMA HostReceives ==
    ASSUME SlotsInvariant, FramesShape, TunnelShape, FramesTrue, NEW h \in Hosts, Receive(h),
           NEW d \in Devices, <<h, d>> \in Tunnels
    PROVE  /\ down[h] # <<>> /\ down'[h] = Tail(down[h])
           /\ down[h][1] = PeerClose(d) /\ Open(<<h, d>>) => ~Open(<<h, d>>)'
<1>1. h \in Attempts /\ h \notin Devices /\ down \in [Attempts -> Seq(Frames)] /\ tun \in [Tunnels -> Tunnel]
  BY Kinds DEF FramesShape, TunnelShape
<1>2. PICK f \in Frames, e \in Devices : LET u == <<h, e>> IN
         /\ f.channel = e /\ u \in Tunnels /\ f = down[h][1] /\ down[h] # <<>>
         /\ Become(u, After(u, f), Tail(down[h]))
  BY <1>1, ReceiveIs
<1>3. down'[h] = Tail(down[h])
  <2>1. Conn(<<h, e>>) = h BY TunnelFacts
  <2> QED BY <1>1, <1>2, <2>1 DEF Become
<1>4. ASSUME down[h][1] = PeerClose(d), Open(<<h, d>>) PROVE ~Open(<<h, d>>)'
  <2>1. e = d /\ f.kind = "peer_close" BY <1>2, <1>4, FrameFacts
  <2>2. After(<<h, d>>, f) = Ended(<<h, d>>) BY <1>4, <2>1 DEF After, AfterPeerClose
  <2>3. tun'[<<h, d>>] = Ended(<<h, d>>) BY <1>1, <1>2, <2>1, <2>2 DEF Become
  <2> QED BY <2>3, EndedSound DEF Open
<1> QED BY <1>2, <1>3, <1>4

(* No client loses it before it has read it.                               *)
LEMMA ClientTells ==
    ASSUME RelayInvariant, NEW h \in Hosts, NEW d \in Devices, <<h, d>> \in Tunnels,
           \/ \E c \in Attempts : Receive(c) \/ HangUp(c)
           \/ \E t \in Tunnels : TunnelStep(t),
           Known(h, d) => conn[d] # "none", HostTold(h, d), DeviceTold(h, d)
    PROVE  (Known(h, d)' => conn'[d] # "none") /\ HostTold(h, d)' /\ DeviceTold(h, d)'
<1> USE DEF RelayInvariant
<1> DEFINE t == <<h, d>>
           u == <<d, d>>
<1>1. /\ h \in Attempts /\ d \in Attempts /\ u \in Tunnels /\ Conn(t) = h /\ Channel(t) = d /\ Conn(u) = d
      /\ down[h] \in Seq(Frames) /\ down[d] \in Seq(Frames)
  BY Kinds, TunnelFacts DEF FramesShape
<1>2. conn' = conn /\ TunnelNext BY ClientLeavesRelay DEF TunnelNext
<1>3. Advance(t) /\ Advance(u) BY <1>1, <1>2, Advances
<1>4. alive' \subseteq alive
  <2>1. CASE Receive(h)
    <3>1. PICK f \in Frames, e \in Devices : Become(<<h, e>>, After(<<h, e>>, f), Tail(down[h]))
      BY <1>1, <2>1, ReceiveIs
    <3> QED BY <3>1 DEF Become
  <2>2. CASE ~Receive(h) BY <1>1, <2>2, ClientMoves
  <2> QED BY <2>1, <2>2
<1>5. /\ ~Receive(h) => down'[h] = down[h] \/ (down'[h] = <<>> /\ h \notin alive')
      /\ ~Receive(d) => down'[d] = down[d] \/ (down'[d] = <<>> /\ d \notin alive')
  BY <1>1, ClientMoves
<1>6. Receive(h) => /\ down[h] # <<>> /\ down'[h] = Tail(down[h])
                    /\ down[h][1] = PeerClose(d) /\ Open(t) => ~Open(t)'
  BY HostReceives
<1>7. ASSUME NEW f \in Frames, f.channel = d, f.kind = "peer_open" PROVE f = PeerOpen(d)
  BY <1>7, FrameFacts
<1>8. tun[t].life = "none" /\ tun'[t].life # "none" =>
          Receive(h) /\ down[h][1] = PeerOpen(d)
  BY <1>1, <1>3, <1>7 DEF Advance, Open, Given, Opened, Taken
<1>9. Known(h, d)' => Known(h, d)
  <2>1. \A f : In(down'[h], f) => In(down[h], f) BY <1>1, <1>5, <1>6, InTail, NothingIn
  <2>2. Receive(h) => In(down[h], down[h][1])
    <3>1. Receive(h) => 1 \in 1..Len(down[h]) BY <1>1, <1>6
    <3> QED BY <3>1 DEF In
  <2> QED BY <1>8, <2>1, <2>2 DEF Known
<1>10. HostTold(h, d)'
  <2>1. SUFFICES ASSUME h \in alive', conn[d] = "closed", conn[h] = "open"
                 PROVE  /\ Open(t)' => In(down'[h], PeerClose(d))
                        /\ Answered(down'[h], PeerOpen(d), PeerClose(d))
    BY <1>2 DEF HostTold
  <2>2. /\ Open(t) => In(down[h], PeerClose(d))
        /\ Answered(down[h], PeerOpen(d), PeerClose(d))
    BY <1>4, <2>1 DEF HostTold
  <2>3. Open(t)' => Open(t) \/ (tun[t].life = "none" /\ Receive(h) /\ down[h][1] = PeerOpen(d))
    <3>1. tun[t].life \in {"none", "open", "closed"} BY Fields, FieldsSound
    <3>2. tun[t].life = "closed" => tun'[t].life = "closed"
      BY <1>3 DEF Advance, Open, Given, Opened, Taken
    <3> QED BY <1>8, <3>1, <3>2 DEF Open
  <2>4. CASE Receive(h)
    <3>1. /\ Answered(down'[h], PeerOpen(d), PeerClose(d))
          /\ down[h][1] = PeerOpen(d) => In(down'[h], PeerClose(d))
      BY <1>1, <1>6, <2>2, <2>4, AnsweredTail
    <3>2. Open(t) /\ Open(t)' => In(down'[h], PeerClose(d))
      BY <1>1, <1>6, <2>2, <2>4, InTail
    <3> QED BY <2>3, <3>1, <3>2
  <2>5. CASE ~Receive(h)
    BY <1>5, <2>1, <2>2, <2>3, <2>5
  <2> QED BY <2>4, <2>5
<1>11. DeviceTold(h, d)'
  <2>1. SUFFICES ASSUME Known(h, d)', conn[h] = "closed", conn[d] = "open", d \in alive',
                        tun'[u].life # "closed"
                 PROVE  In(down'[d], PeerClose(d))
    BY <1>2 DEF DeviceTold
  <2>2. tun[u].life # "closed" BY <1>3, <2>1 DEF Advance, Open, Given, Opened, Taken
  <2>3. In(down[d], PeerClose(d)) BY <1>4, <1>9, <2>1, <2>2 DEF DeviceTold
  <2>4. CASE Receive(d)
    <3>1. OpenFirst(d) BY StreamsWholeIs
    <3>2. down[d] # <<>> /\ down'[d] = Tail(down[d]) /\ ~Leaves(d, 1)
      BY <2>1, <2>4, <3>1, DeviceReceives
    <3>3. down[d][1] # PeerClose(d) BY <3>2, FrameFacts DEF Leaves
    <3> QED BY <1>1, <2>3, <3>2, <3>3, InTail
  <2>5. CASE ~Receive(d) BY <1>5, <2>1, <2>3, <2>5
  <2> QED BY <2>4, <2>5
<1> QED BY <1>2, <1>9, <1>10, <1>11

LEMMA EndsToldInit == TunnelInit => EndsTold
<1> SUFFICES ASSUME TunnelInit PROVE EndsTold
  OBVIOUS
<1>1. ASSUME NEW d \in Devices, NEW h \in Hosts, <<h, d>> \in Tunnels
      PROVE  (Known(h, d) => conn[d] # "none") /\ HostTold(h, d) /\ DeviceTold(h, d)
  <2>1. h \notin alive /\ d \notin alive /\ down[h] = <<>> BY Kinds DEF TunnelInit, RelayInit
  <2>2. tun[<<h, d>>].life = "none" BY <1>1, AbsentSound DEF TunnelInit
  <2> QED BY <2>1, <2>2, NothingIn DEF Known, HostTold, DeviceTold
<1> QED BY <1>1, EndsToldIs

(* EndsTold is inductive, relative to RelayInvariant, and says what is     *)
(* promised.                                                               *)
LEMMA EndsToldStep == RelayInvariant /\ EndsTold /\ [TunnelNext]_tunnelVars => EndsTold'
<1> SUFFICES ASSUME RelayInvariant, EndsTold, [TunnelNext]_tunnelVars PROVE EndsTold'
  OBVIOUS
<1>1. CASE UNCHANGED tunnelVars
  BY <1>1 DEF tunnelVars, relayVars, EndsTold, Known, HostTold, DeviceTold, Open
<1>2. CASE TunnelNext
  <2>1. ASSUME NEW d \in Devices, NEW h \in Hosts, <<h, d>> \in Tunnels
        PROVE  (Known(h, d)' => conn'[d] # "none") /\ HostTold(h, d)' /\ DeviceTold(h, d)'
    <3>1. (Known(h, d) => conn[d] # "none") /\ HostTold(h, d) /\ DeviceTold(h, d)
      BY <2>1, EndsToldIs
    <3>2. CASE RelayStep /\ UNCHANGED tun BY <2>1, <3>1, <3>2, RelayTells
    <3>3. CASE (\E c \in Attempts : Receive(c) \/ HangUp(c)) \/ \E t \in Tunnels : TunnelStep(t)
      BY <2>1, <3>1, <3>3, ClientTells
    <3> QED BY <1>2, <3>2, <3>3 DEF TunnelNext
  <2> QED BY <2>1 DEF EndsTold
<1> QED BY <1>1, <1>2

LEMMA EndsFollow == RelayInvariant /\ EndsTold => PeerEndOnItsWay
<1> SUFFICES ASSUME RelayInvariant, EndsTold, NEW d \in Devices, NEW h \in Hosts, <<h, d>> \in Tunnels
             PROVE  /\ Open(<<h, d>>) /\ conn[d] = "closed" => EndOnItsWay(<<h, d>>)
                    /\ Open(<<d, d>>) /\ conn[h] = "closed" /\ tun[<<h, d>>].life # "none" =>
                          EndOnItsWay(<<d, d>>)
  BY DEF PeerEndOnItsWay
<1> USE DEF RelayInvariant
<1>1. /\ h \in Attempts /\ d \in Attempts /\ <<d, d>> \in Tunnels
      /\ Conn(<<h, d>>) = h /\ Conn(<<d, d>>) = d /\ Channel(<<h, d>>) = d /\ Channel(<<d, d>>) = d
  BY Kinds, TunnelFacts
<1>2. HostTold(h, d) /\ DeviceTold(h, d) BY EndsToldIs
<1>3. ASSUME NEW c \in Attempts, In(down[c], PeerClose(d)) PROVE PeerClose(d) \in Range(down[c])
  <2>1. PICK i \in 1..Len(down[c]) : down[c][i] = PeerClose(d) BY <1>3 DEF In
  <2>2. i \in DOMAIN down[c] BY <2>1 DEF FramesShape
  <2> QED BY <2>1, <2>2 DEF Range
<1>4. Open(<<h, d>>) /\ conn[d] = "closed" => EndOnItsWay(<<h, d>>)
  <2>1. Open(<<h, d>>) => h \in alive BY <1>1, FieldsSound
  <2> QED BY <1>1, <1>2, <1>3, <2>1 DEF HostTold, EndOnItsWay
<1>5. Open(<<d, d>>) /\ conn[h] = "closed" /\ tun[<<h, d>>].life # "none" => EndOnItsWay(<<d, d>>)
  <2>1. Open(<<d, d>>) => d \in alive /\ tun[<<d, d>>].life # "closed" BY <1>1, FieldsSound DEF Open
  <2> QED BY <1>1, <1>2, <1>3, <2>1 DEF DeviceTold, Known, EndOnItsWay
<1> QED BY <1>4, <1>5

(* PeerEndOnItsWay holds in every reachable state: no tunnel is left       *)
(* waiting for a peer that has gone.                                       *)
THEOREM PeerEndOnItsWayHolds == TunnelSpec => []PeerEndOnItsWay
<1>1. TunnelSpec => []RelayInvariant BY RelayInvariantHolds
<1> QED BY <1>1, EndsToldInit, EndsToldStep, EndsFollow, PTL DEF TunnelSpec

-----------------------------------------------------------------------------
(* Chunks that were accepted.                                              *)

(* A frame is on its way, as the runs and as the proofs say it.            *)
LEMMA RangeIs ==
    ASSUME NEW q \in Seq(Frames), NEW f
    PROVE  f \in Range(q) <=> In(q, f)
  BY DEF Range, In

LEMMA EndIs ==
    ASSUME FramesShape, NEW t \in Tunnels
    PROVE  EndOnItsWay(t) <=> conn[Conn(t)] # "open" \/ In(down[Conn(t)], PeerClose(Channel(t)))
<1>1. down[Conn(t)] \in Seq(Frames) BY TunnelFacts DEF FramesShape
<1> QED BY <1>1, RangeIs DEF EndOnItsWay

(* A writer and its reader are a host's tunnel and its device's.           *)
LEMMA EndsAre ==
    ASSUME NEW p \in Ends
    PROVE  \E h \in Hosts, d \in Devices :
              /\ <<h, d>> \in Tunnels /\ <<d, d>> \in Tunnels
              /\ \/ p[1] = <<h, d>> /\ p[2] = <<d, d>>
                 \/ p[1] = <<d, d>> /\ p[2] = <<h, d>>
<1> DEFINE w == p[1]
           r == p[2]
           d == Channel(w)
<1>1. /\ w \in Tunnels /\ r \in Tunnels /\ Channel(w) = Channel(r) /\ Conn(w) # Conn(r)
      /\ Channel(w) \in {Conn(w), Conn(r)}
  BY DEF Ends
<1>2. /\ d \in Devices /\ w = <<Conn(w), d>> /\ r = <<Conn(r), d>> /\ <<d, d>> \in Tunnels
      /\ Conn(w) \in Attempts /\ Conn(r) \in Attempts
  BY <1>1, TunnelFacts
<1> HIDE DEF w, r, d
<1>3. CASE Conn(w) = d
  <2>1. Conn(r) \in Hosts BY <1>1, <1>2, <1>3, TunnelFacts, Kinds
  <2> QED BY <1>1, <1>2, <1>3, <2>1 DEF w, r
<1>4. CASE Conn(r) = d
  <2>1. Conn(w) \in Hosts BY <1>1, <1>2, <1>4, TunnelFacts, Kinds
  <2> QED BY <1>1, <1>2, <1>4, <2>1 DEF w, r
<1> QED BY <1>1, <1>3, <1>4 DEF d

(* Nothing that is on its way is lost by a step of the relay.              *)
LEMMA RelayKeeps ==
    ASSUME SlotsInvariant, FramesShape, TunnelShape, FramesTrue, RelayStep, NEW c \in Attempts
    PROVE  /\ \A i \in 1..Len(down[c]) : i \in 1..Len(down'[c]) /\ down'[c][i] = down[c][i]
           /\ \A f : In(down[c], f) => In(down'[c], f)
           /\ ~Admitted(c) /\ conn[c] # "open" => down'[c] = down[c]
<1>1. down[c] \in Seq(Frames) /\ Len(down[c]) \in Nat BY DEF FramesShape
<1>2. ASSUME NEW s \in Seq(Frames), down'[c] = down[c] \o s
      PROVE  \A i \in 1..Len(down[c]) : i \in 1..Len(down'[c]) /\ down'[c][i] = down[c][i]
  <2>1. Len(s) \in Nat /\ Len(down'[c]) = Len(down[c]) + Len(s) BY <1>1, <1>2
  <2>2. \A i \in 1..Len(down[c]) : (down[c] \o s)[i] = down[c][i] BY <1>1
  <2> QED BY <1>1, <1>2, <2>1, <2>2
<1>3. ASSUME NEW state, NEW sent, NEW full, Deliver(state, sent, full), sent[c] \in Seq(Frames),
             ~Admitted(c) /\ conn[c] # "open" => state[c] # "open"
      PROVE  /\ \A i \in 1..Len(down[c]) : i \in 1..Len(down'[c]) /\ down'[c][i] = down[c][i]
             /\ ~Admitted(c) /\ conn[c] # "open" => down'[c] = down[c]
  <2>1. down'[c] = down[c] \/ (down'[c] = down[c] \o sent[c] /\ state[c] = "open")
    BY <1>3, DeliveredFrames
  <2>2. CASE down'[c] = down[c] BY <2>2
  <2>3. CASE down'[c] = down[c] \o sent[c] /\ state[c] = "open" BY <1>2, <1>3, <2>3
  <2> QED BY <2>1, <2>2, <2>3
<1> DEFINE Done == /\ \A i \in 1..Len(down[c]) : i \in 1..Len(down'[c]) /\ down'[c][i] = down[c][i]
                   /\ ~Admitted(c) /\ conn[c] # "open" => down'[c] = down[c]
<1>c. conn \in [Attempts -> {"none", "open", "closing", "closed"}] BY DEF SlotsInvariant, SlotsShape
<1>4. ASSUME NEW a \in Attempts, Admitted(a) PROVE Done
  <2>1. PICK sent, full : AttachSends(a, sent) /\ Deliver([conn EXCEPT ![a] = "open"], sent, full)
    BY <1>4, AttachedSends
  <2>2. sent[c] \in Seq(Frames) BY <2>1 DEF AttachSends, Fitting
  <2> DEFINE state == [conn EXCEPT ![a] = "open"]
  <2>3. state[c] = IF a = c THEN "open" ELSE conn[c] BY <1>c
  <2> HIDE DEF state
  <2>4. Deliver(state, sent, full) BY <2>1 DEF state
  <2>5. ~Admitted(c) => a # c BY <1>4
  <2> QED BY <1>3, <2>2, <2>3, <2>4, <2>5
<1>5. ASSUME NEW a \in Attempts, OnClose(a) PROVE Done
  <2>1. PICK sent, full : LeaveSends(a, sent) /\ Deliver([conn EXCEPT ![a] = "closed"], sent, full)
    BY <1>5, LeftSends
  <2>2. sent[c] \in Seq(Frames) BY <2>1 DEF LeaveSends, Fitting
  <2> DEFINE state == [conn EXCEPT ![a] = "closed"]
  <2>3. state[c] = IF a = c THEN "closed" ELSE conn[c] BY <1>c
  <2> HIDE DEF state
  <2>4. Deliver(state, sent, full) BY <2>1 DEF state
  <2> QED BY <1>3, <2>2, <2>3, <2>4
<1>6. ASSUME NEW a \in Attempts, OnMessage(a) PROVE Done
  <2>1. PICK sent, full : ForwardSends(a, sent) /\ Deliver(conn, sent, full) BY <1>6, ForwardedSends
  <2>2. sent[c] \in Seq(Frames) BY <2>1 DEF ForwardSends, Fitting
  <2> QED BY <1>3, <2>1, <2>2
<1>7. CASE down' = down BY <1>7
<1>8. Done BY <1>4, <1>5, <1>6, <1>7 DEF RelayStep, Present, Refused, CloseConnection, Stop
<1> QED BY <1>8 DEF In

(* A host goes on knowing of the devices that are there.                   *)
LEMMA RelayKnows ==
    ASSUME RelayInvariant, RelayStep, UNCHANGED tun, NEW h \in Hosts, NEW d \in Devices, <<h, d>> \in Tunnels,
           Knows(h, d)
    PROVE  Knows(h, d)'
<1> USE DEF RelayInvariant
<1>1. /\ h \in Attempts /\ d \in Attempts /\ h # d /\ Route[h] = Route[d] /\ Route[d] \in Routes
      /\ h \notin Devices /\ d \notin Hosts
      /\ down[h] \in Seq(Frames) /\ down'[h] \in Seq(Frames) /\ Len(down[h]) \in Nat
      /\ conn \in [Attempts -> {"none", "open", "closing", "closed"}]
  <2>1. h \in Attempts /\ d \in Attempts /\ h # d /\ h \notin Devices /\ d \notin Hosts BY Kinds
  <2>2. Route[h] = Route[d] /\ Route[d] \in Routes BY <2>1, TunnelFacts, Kinds
  <2>3. FramesShape' BY FramesStep DEF TunnelNext
  <2> QED BY <2>1, <2>2, <2>3 DEF FramesShape, SlotsInvariant, SlotsShape
<1>2. HostHears(h, d) BY HostTells
<1>3. h \in alive' => h \in alive \/ Admitted(h) BY <1>1, ConnMoves
<1>4. Known(h, d) => Known(h, d)' BY <1>1, RelayKeeps DEF Known
<1>5. ASSUME h \in alive', conn'[h] = "open", Connected(d)' PROVE Known(h, d)'
  <2>1. Connected(d) \/ Admitted(d) BY <1>1, <1>5, ConnMoves DEF Connected
  <2>2. CASE ~Admitted(h)
    <3>1. h \in alive /\ conn[h] = "open" BY <1>1, <1>3, <1>5, <2>2, ConnMoves
    <3>2. CASE Connected(d) BY <1>4, <3>1, <3>2 DEF Knows
    <3>3. CASE Admitted(d)
      <4>1. PICK sent, full : AttachSends(d, sent) /\ Deliver([conn EXCEPT ![d] = "open"], sent, full)
        BY <1>1, <3>3, AttachedSends
      <4>2. host[Route[d]] = h BY <1>1, <3>1 DEF SlotsInvariant, TablesExact, Connected
      <4>3. sent[h] = <<PeerOpen(d)>> /\ PeerOpen(d) \in Frames
        BY <1>1, <4>1, <4>2, FrameFacts DEF AttachSends
      <4>4. down'[h] = Append(down[h], PeerOpen(d)) BY <1>1, <1>5, <3>1, <4>1, <4>3, DeliveredOne
      <4> QED BY <1>1, <4>3, <4>4, InAppend DEF Known
    <3> QED BY <2>1, <3>2, <3>3
  <2>3. CASE Admitted(h)
    <3>1. PICK sent, full : AttachSends(h, sent) /\ Deliver([conn EXCEPT ![h] = "open"], sent, full)
      BY <1>1, <2>3, AttachedSends
    <3> DEFINE state == [conn EXCEPT ![h] = "open"]
    <3>2. state[h] = "open" /\ state[d] = conn[d] BY <1>1
    <3> HIDE DEF state
    <3>3. Deliver(state, sent, full) BY <3>1 DEF state
    <3>4. conn[h] = "none" /\ down[h] = <<>> BY <1>1, <2>3, ConnMoves
    <3>5. Connected(d)
      <4>1. conn'[d] = state[d] \/ (state[d] = "open" /\ conn'[d] = "closing") BY <1>1, <3>3 DEF Deliver
      <4> QED BY <1>5, <3>2, <4>1 DEF Connected
    <3>6. d \in devices[Route[h]] BY <1>1, <3>5 DEF SlotsInvariant, TablesExact
    <3>7. PICK i \in 1..Len(sent[h]) : sent[h][i] = PeerOpen(d) BY <3>1, <3>6 DEF AttachSends
    <3>8. sent[h] \in Seq(Frames) /\ sent[h] # <<>>
      <4>1. sent[h] \in Seq(Frames) BY <1>1, <3>1 DEF AttachSends, Fitting
      <4>2. Len(<<>>) = 0 /\ \A j : j \notin 1..0 OBVIOUS
      <4> QED BY <3>7, <4>1, <4>2
    <3>9. down'[h] = <<>> \o sent[h]
      <4>1. conn'[h] = (IF state[h] = "open" /\ h \in full /\ sent[h] # <<>> THEN "closing" ELSE state[h])
        BY <1>1, <3>3 DEF Deliver
      <4>2. h \notin full BY <1>5, <3>2, <3>8, <4>1
      <4>3. down'[h] = (IF state[h] = "open" /\ h \notin full /\ (h \in alive \/ conn[h] = "none")
                        THEN down[h] \o sent[h] ELSE down[h])
        BY <1>1, <3>3 DEF Deliver
      <4> QED BY <3>2, <3>4, <4>2, <4>3
    <3>10. down'[h] = sent[h] BY <3>8, <3>9
    <3> QED BY <3>7, <3>10 DEF Known, In
  <2> QED BY <2>2, <2>3
<1>6. ASSUME h \in alive', tun[<<h, d>>].life = "none", NEW i \in 1..Len(down'[h]), down'[h][i].channel = d
      PROVE  \E j \in 1..i : down'[h][j] = PeerOpen(d)
  <2>0. i \in 1..i BY <1>1
  <2>1. CASE down'[h] = down[h] /\ ~Admitted(h)
    BY <1>3, <1>6, <2>1 DEF Knows
  <2>2. CASE Admitted(h) /\ down'[h] = down[h]
    <3>1. Len(down'[h]) = 0 BY <1>1, <2>2, ConnMoves
    <3>2. \A j : j \notin 1..0 OBVIOUS
    <3> QED BY <1>6, <3>1, <3>2
  <2>3. ASSUME NEW f \in Frames, conn[h] = "open", down'[h] = Append(down[h], f),
               f.channel = d => f = PeerOpen(d) \/ Connected(d) \/ tun[<<h, d>>].life # "none"
        PROVE  \E j \in 1..i : down'[h][j] = PeerOpen(d)
    <3>1. h \in alive BY <1>1, <1>3, <1>6, <2>3, ConnMoves
    <3>2. /\ Len(down'[h]) = Len(down[h]) + 1
          /\ \A j \in 1..Len(down[h]) + 1 : down'[h][j] = IF j = Len(down[h]) + 1 THEN f ELSE down[h][j]
      BY <1>1, <2>3, SeqFacts
    <3>3. i \in 1..Len(down[h]) + 1 BY <1>6, <3>2
    <3>4. CASE i # Len(down[h]) + 1
      <4>1. i \in 1..Len(down[h]) /\ \A j \in 1..i : j \in 1..Len(down[h]) + 1 /\ j # Len(down[h]) + 1
        BY <1>1, <3>3, <3>4
      <4>2. down[h][i].channel = d BY <1>6, <3>2, <3>3, <3>4
      <4>3. PICK j \in 1..i : down[h][j] = PeerOpen(d) BY <1>6, <3>1, <4>1, <4>2 DEF Knows
      <4> QED BY <3>2, <4>1, <4>3
    <3>5. CASE i = Len(down[h]) + 1
      <4>1. down'[h][i] = f /\ f.channel = d BY <1>6, <3>2, <3>3, <3>5
      <4>2. CASE f = PeerOpen(d) BY <2>0, <4>1, <4>2
      <4>3. CASE Connected(d)
        <5>1. In(down[h], PeerOpen(d)) BY <1>6, <2>3, <3>1, <4>3 DEF Knows, Known
        <5>2. PICK j \in 1..Len(down[h]) : down[h][j] = PeerOpen(d) BY <5>1 DEF In
        <5>3. j \in 1..i /\ j \in 1..Len(down[h]) + 1 /\ j # Len(down[h]) + 1 BY <1>1, <3>5, <5>2
        <5> QED BY <3>2, <5>2, <5>3
      <4> QED BY <1>6, <2>3, <4>1, <4>2, <4>3
    <3> QED BY <3>4, <3>5
  <2>4. CASE Admitted(h) /\ \A j \in 1..Len(down'[h]) : down'[h][j].kind = "peer_open"
    <3>1. down'[h][i] \in Frames /\ down'[h][i].kind = "peer_open" BY <1>1, <1>6, <2>4
    <3>2. down'[h][i] = PeerOpen(d) BY <1>6, <3>1, FrameFacts
    <3> QED BY <2>0, <3>2
  <2> QED BY <1>2, <2>1, <2>2, <2>3, <2>4 DEF HostHears
<1> QED BY <1>5, <1>6 DEF Knows

(* What reading a frame makes of a tunnel, by the frame.                   *)
LEMMA AfterKinds ==
    ASSUME TunnelShape, NEW t \in Tunnels, NEW f \in Frames
    PROVE  /\ f.kind = "peer_open" => After(t, f).life # "none"
           /\ f.kind = "peer_close" => After(t, f).life # "open"
           /\ f.kind = "data" /\ After(t, f).life = "open" => After(t, f).arrived = f.id
           /\ tun[t].life # "none" => After(t, f).life # "none"
           /\ tun[t].life = "closed" => After(t, f).life = "closed"
<1>1. Sound(t, After(t, f)) BY AfterSound
<1>2. tun[t].life # "none" => After(t, f).life # "none" BY <1>1 DEF Sound
<1>3. f.kind = "peer_open" => After(t, f).life # "none"
  <2>1. CASE f.kind = "peer_open" /\ tun[t].life = "none"
    <3>1. tun[t] = Absent /\ After(t, f) = [tun[t] EXCEPT !.life = "open"] BY <2>1, FieldsSound DEF After
    <3>2. [Absent EXCEPT !.life = "open"].life = "open" BY DEF Absent
    <3> QED BY <3>1, <3>2
  <2> QED BY <1>2, <2>1
<1>4. f.kind = "peer_close" => After(t, f).life # "open"
  <2>1. CASE f.kind = "peer_close" /\ Open(t)
    BY <2>1, EndedSound DEF After, AfterPeerClose
  <2>2. CASE f.kind = "peer_close" /\ ~Open(t) BY <2>2 DEF After, Open
  <2> QED BY <2>1, <2>2
<1>5. f.kind = "data" /\ After(t, f).life = "open" => After(t, f).arrived = f.id
  <2>1. CASE f.kind = "data" /\ Open(t)
    <3>1. After(t, f) = AfterData(t, f) BY <2>1 DEF After
    <3>2. AfterData(t, f) = Ended(t) \/ AfterData(t, f).arrived = f.id BY <2>1, AfterDataSound
    <3> QED BY <3>1, <3>2, EndedSound
  <2>2. CASE f.kind = "data" /\ ~Open(t) BY <2>2 DEF After, Open
  <2> QED BY <2>1, <2>2
<1> QED BY <1>1, <1>2, <1>3, <1>4, <1>5 DEF Sound

ClientStep ==
    \/ \E c \in Attempts : Receive(c) \/ HangUp(c)
    \/ \E t \in Tunnels : TunnelStep(t)

(* What a client that stays has read, and what that made of a tunnel.      *)
Reading(c, d) ==
    /\ Receive(c) /\ down[c] # <<>> /\ down'[c] = Tail(down[c]) /\ down[c][1] \in Frames
    /\ down[c][1].channel = d => tun'[<<c, d>>] = After(<<c, d>>, down[c][1])

(* A client that stays has read the first frame on its way, or nothing.    *)
LEMMA ClientReads ==
    ASSUME SlotsInvariant, FramesShape, TunnelShape, FramesTrue, ClientStep, NEW t \in Tunnels,
           Conn(t) \in alive'
    PROVE  /\ Conn(t) \in alive
           /\ Reading(Conn(t), Channel(t)) \/ (~Receive(Conn(t)) /\ down'[Conn(t)] = down[Conn(t)])
<1> DEFINE c == Conn(t)
           d == Channel(t)
<1>1. c \in Attempts /\ d \in Devices /\ t = <<c, d>> BY TunnelFacts
<1>2. CASE ~Receive(c)
  <2>1. alive' \subseteq alive /\ (down'[c] = down[c] \/ (down'[c] = <<>> /\ c \notin alive'))
    BY <1>1, <1>2, ClientMoves DEF ClientStep
  <2> QED BY <1>2, <2>1
<1>3. CASE Receive(c)
  <2>1. PICK f \in Frames, e \in Devices : LET u == <<c, e>> IN
           /\ f.channel = e /\ u \in Tunnels /\ f = down[c][1]
           /\ c \in alive /\ down[c] # <<>>
           /\ Become(u, After(u, f), Tail(down[c]))
    BY <1>1, <1>3, ReceiveIs
  <2>2. Conn(<<c, e>>) = c BY TunnelFacts
  <2>3. down'[c] = Tail(down[c]) BY <1>1, <2>1, <2>2 DEF Become, FramesShape
  <2>4. down[c][1].channel = d => tun'[t] = After(t, down[c][1])
    BY <1>1, <2>1 DEF Become, TunnelShape
  <2> QED BY <1>1, <1>3, <2>1, <2>3, <2>4 DEF Reading
<1> QED BY <1>2, <1>3

(* A host that stays has heard what it needs, whatever the clients do.     *)
LEMMA ClientKnows ==
    ASSUME RelayInvariant, ClientStep, NEW h \in Hosts, NEW d \in Devices, <<h, d>> \in Tunnels,
           Knows(h, d)
    PROVE  Knows(h, d)'
<1> USE DEF RelayInvariant
<1> DEFINE t == <<h, d>>
<1>1. /\ t \in Tunnels /\ Conn(t) = h /\ Channel(t) = d /\ down[h] \in Seq(Frames)
      /\ tun[t].life \in {"none", "open", "closed"}
  BY Kinds, TunnelFacts, Fields, FieldsSound DEF FramesShape
<1>2. conn' = conn BY ClientLeavesRelay DEF ClientStep
<1>3. SUFFICES ASSUME h \in alive'
               PROVE  /\ conn[h] = "open" /\ Connected(d) => Known(h, d)'
                      /\ tun'[t].life = "none" => \A i \in 1..Len(down'[h]) :
                            down'[h][i].channel = d => \E j \in 1..i : down'[h][j] = PeerOpen(d)
  BY <1>2 DEF Knows, Connected
<1>4. h \in alive /\ (Reading(h, d) \/ (~Receive(h) /\ down'[h] = down[h])) BY <1>1, <1>3, ClientReads
<1>5. /\ conn[h] = "open" /\ Connected(d) => Known(h, d)
      /\ tun[t].life = "none" => \A i \in 1..Len(down[h]) :
            down[h][i].channel = d => \E j \in 1..i : down[h][j] = PeerOpen(d)
  BY <1>4 DEF Knows
<1>6. Advance(t) BY <1>1, Advances DEF ClientStep, TunnelNext
<1>7. tun'[t].life = "none" => tun[t].life = "none"
  BY <1>1, <1>6, AbsentSound DEF Advance, Open, Given, Opened, Taken
<1>8. CASE ~Receive(h) /\ down'[h] = down[h]
  <2>1. Known(h, d) => Known(h, d)' BY <1>7, <1>8 DEF Known
  <2> QED BY <1>5, <1>7, <1>8, <2>1
<1>9. CASE Reading(h, d)
  <2> DEFINE f == down[h][1]
             n == Len(down[h])
  <2>1. /\ down[h] # <<>> /\ down'[h] = Tail(down[h]) /\ f \in Frames
        /\ f.channel = d => tun'[t] = After(t, f)
    BY <1>9 DEF Reading
  <2>2. f = PeerOpen(d) => tun'[t].life # "none"
    <3>1. f = PeerOpen(d) => f.kind = "peer_open" /\ f.channel = d BY FrameFacts
    <3>2. f.kind = "peer_open" => After(t, f).life # "none" BY <1>1, <2>1, AfterKinds
    <3> QED BY <2>1, <3>1, <3>2
  <2>3. Known(h, d) => Known(h, d)'
    <3>1. In(down[h], PeerOpen(d)) => f = PeerOpen(d) \/ In(down'[h], PeerOpen(d))
      BY <1>1, <2>1, InTail
    <3> QED BY <1>7, <2>2, <3>1 DEF Known
  <2>4. /\ n \in Nat \ {0} /\ Len(down'[h]) = n - 1
        /\ \A i \in 1..n - 1 : down'[h][i] = down[h][i + 1]
    BY <1>1, <2>1, SeqFacts
  <2>5. ASSUME tun'[t].life = "none", NEW i \in 1..Len(down'[h]), down'[h][i].channel = d
        PROVE  \E j \in 1..i : down'[h][j] = PeerOpen(d)
    <3>1. i \in 1..n - 1 /\ i + 1 \in 1..n BY <2>4, <2>5
    <3>2. down[h][i + 1].channel = d BY <2>4, <2>5, <3>1
    <3>3. PICK j \in 1..i + 1 : down[h][j] = PeerOpen(d) BY <1>5, <1>7, <2>5, <3>1, <3>2
    <3>4. j # 1 BY <2>2, <2>5, <3>3
    <3>5. j - 1 \in 1..i /\ j - 1 \in 1..n - 1 /\ (j - 1) + 1 = j BY <2>4, <3>1, <3>3, <3>4
    <3>6. down'[h][j - 1] = PeerOpen(d) BY <2>4, <3>3, <3>5
    <3> QED BY <3>5, <3>6
  <2> QED BY <1>5, <2>3, <2>5
<1> QED BY <1>4, <1>8, <1>9

LEMMA ResultIs ==
    ASSUME NEW f \in Frames, f.kind = "forward_result", f.status = "accepted"
    PROVE  f = Result(f.channel, f.id, "accepted")
  BY DEF Frames, Result

(* What is taken or acknowledged tells a writer of its last chunk alone.   *)
LEMMA ResolveLearns ==
    ASSUME TunnelShape, NEW t \in Tunnels, tun[t].receipt # NoReceipt, NEW s \in Whole, NEW n \in Nat,
           LET new == Resolve(t, tun[t].receipt \cup {s}) IN
           n <= new.acked \/ (n = new.sent /\ "received" \in new.receipt)
    PROVE  Heard(t, n) \/ (s = "received" /\ n = tun[t].sent)
<1> DEFINE x == tun[t]
           r == x.receipt \cup {s}
           new == Resolve(t, tun[t].receipt \cup {s})
<1>1. /\ x \in Tunnel /\ x.acked \in Nat /\ x.acked + 1 \in Nat /\ x.sent = x.acked + 1 /\ x.receipt \subseteq Whole
      /\ r \in Receipts /\ NoReceipt \in Receipts
  BY Fields, FieldsSound DEF Receipts
<1>2. new = IF r = Whole THEN [x EXCEPT !.receipt = NoReceipt, !.acked = x.acked + 1]
            ELSE [x EXCEPT !.receipt = r]
  BY DEF Resolve
<1>3. n <= new.acked \/ (n = new.sent /\ "received" \in new.receipt) OBVIOUS
<1>4. Heard(t, n) <=> n <= x.acked \/ (n = x.sent /\ "received" \in x.receipt) BY DEF Heard
<1> HIDE DEF new, x
<1>5. CASE r = Whole
  <2>1. new = [x EXCEPT !.receipt = NoReceipt, !.acked = x.acked + 1] BY <1>2, <1>5
  <2>2. new.acked = x.acked + 1 /\ new.receipt = NoReceipt
    BY <1>1, <2>1, TunnelIsShape DEF Shape
  <2>3. n <= x.acked \/ n = x.sent BY <1>1, <1>3, <2>2 DEF NoReceipt
  <2>4. "received" \in x.receipt \/ s = "received" BY <1>5 DEF Whole
  <2> QED BY <1>4, <2>3, <2>4 DEF x
<1>6. CASE r # Whole
  <2>1. new = [x EXCEPT !.receipt = r] BY <1>2, <1>6
  <2>2. new.acked = x.acked /\ new.sent = x.sent /\ new.receipt = r
    BY <1>1, <2>1, TunnelIsShape DEF Shape
  <2> QED BY <1>3, <1>4, <2>2 DEF x
<1> QED BY <1>5, <1>6

(* A tunnel that is over is not open.                                      *)
LEMMA EndedSilent ==
    ASSUME TunnelShape, NEW t \in Tunnels, Ended(t).life = "open"
    PROVE  FALSE
  BY EndedSound

(* Reading: nothing but the result of a chunk tells of it.                 *)
LEMMA AfterLearns ==
    ASSUME TunnelShape, NEW t \in Tunnels, NEW f \in Frames, f.channel = Channel(t), After(t, f).life = "open",
           NEW n \in Nat, LET new == After(t, f) IN
           n <= new.acked \/ (n = new.sent /\ "received" \in new.receipt)
    PROVE  Heard(t, n) \/ f = Result(Channel(t), n, "accepted")
<1> DEFINE x == tun[t]
           new == After(t, f)
<1>1. n <= new.acked \/ (n = new.sent /\ "received" \in new.receipt) OBVIOUS
<1>2. new.life = "open" OBVIOUS
<1>3. Heard(t, n) <=> n <= x.acked \/ (n = x.sent /\ "received" \in x.receipt) BY DEF Heard
<1>4. CASE f.kind = "peer_open"
  <2>1. tun[t].life = "none"
    <3>1. tun[t].life # "none" => new = Ended(t) BY <1>4 DEF After
    <3> HIDE DEF new
    <3> QED BY <1>2, <3>1, EndedSilent
  <2>2. x = Absent /\ new = [Absent EXCEPT !.life = "open"] BY <1>4, <2>1, FieldsSound DEF After
  <2> HIDE DEF new, x
  <2>3. /\ new.acked = Absent.acked /\ new.sent = Absent.sent /\ new.receipt = Absent.receipt
    BY <2>2 DEF Absent
  <2> QED BY <1>1, <1>3, <2>2, <2>3
<1>5. CASE f.kind # "peer_open" /\ ~Open(t)
  <2>1. new = tun[t] BY <1>5 DEF After
  <2> QED BY <1>2, <1>5, <2>1 DEF Open
<1>6. CASE f.kind = "data" /\ Open(t)
  <2>1. new = AfterData(t, f) BY <1>6 DEF After
  <2>2. new = Ended(t) \/ new = [x EXCEPT !.queue = Append(x.queue, f.load), !.arrived = x.arrived + 1]
    BY <2>1 DEF AfterData
  <2>3. new = Ended(t) => FALSE
    <3> HIDE DEF new
    <3> QED BY <1>2, EndedSilent
  <2>4. f.load \in Tunnels \X Nat BY <1>6 DEF Frames
  <2>5. x \in Tunnel /\ Append(x.queue, f.load) \in Chunks /\ x.arrived + 1 \in Nat
    BY <2>4, Fields, FieldsSound DEF Chunks
  <2> HIDE DEF new, x
  <2>6. new.acked = x.acked /\ new.sent = x.sent /\ new.receipt = x.receipt
    BY <2>2, <2>3, <2>5, TunnelIsShape DEF Shape
  <2> QED BY <1>1, <1>3, <2>6
<1>7. CASE f.kind = "forward_result" /\ Open(t)
  <2>1. new = AfterResult(t, f) BY <1>7 DEF After
  <2>2. new = Ended(t) => FALSE
    <3> HIDE DEF new
    <3> QED BY <1>2, EndedSilent
  <2>3. /\ tun[t].receipt # NoReceipt /\ f.id = tun[t].sent /\ f.status = "accepted"
        /\ new = Resolve(t, tun[t].receipt \cup {"received"})
    BY <2>1, <2>2 DEF AfterResult
  <2>4. "received" \in Whole BY DEF Whole
  <2> HIDE DEF new
  <2>5. Heard(t, n) \/ n = tun[t].sent BY <1>1, <2>3, <2>4, ResolveLearns
  <2>6. f = Result(Channel(t), f.id, "accepted") BY <1>7, <2>3, ResultIs
  <2> QED BY <2>3, <2>5, <2>6
<1>8. CASE f.kind = "peer_close" /\ Open(t)
  <2>1. new = Ended(t) BY <1>8 DEF After, AfterPeerClose
  <2> HIDE DEF new
  <2> QED BY <1>2, <2>1, EndedSilent
<1> QED BY <1>4, <1>5, <1>6, <1>7, <1>8, FrameFacts

(* What a tunnel does by itself tells its writer nothing new.              *)
LEMMA StepLearns ==
    ASSUME TunnelShape, NEW t \in Tunnels, TunnelStep(t), Open(t)', NEW n \in Nat, Heard(t, n)'
    PROVE  Heard(t, n)
<1> DEFINE x == tun[t]
           y == tun'[t]
<1>1. y.life = "open" /\ (n <= y.acked \/ (n = y.sent /\ "received" \in y.receipt)) BY DEF Open, Heard
<1>2. Heard(t, n) <=> n <= x.acked \/ (n = x.sent /\ "received" \in x.receipt) BY DEF Heard
<1>3. x \in Tunnel BY FieldsSound
<1>4. ASSUME NEW new, Act(t, new) PROVE y = new /\ Open(t)
  BY <1>4 DEF Act, Become, TunnelShape
<1> HIDE DEF y
<1>5. ASSUME y.acked = x.acked, y.sent = x.sent, y.receipt = x.receipt PROVE Heard(t, n)
  BY <1>1, <1>2, <1>5
<1>6. CASE ReceiptTimeout(t) \/ LocalClose(t)
  <2>1. y = Ended(t) BY <1>4, <1>6 DEF ReceiptTimeout, LocalClose, TimedOut
  <2> QED BY <1>1, <2>1, EndedSilent
<1>7. CASE Send(t)
  <2>1. y = [x EXCEPT !.handed = x.handed + 1] BY <1>4, <1>7 DEF Send
  <2>2. x.handed + 1 \in Nat BY <1>3, Fields
  <2> HIDE DEF x
  <2> QED BY <1>3, <1>5, <2>1, <2>2, TunnelIsShape DEF Shape
<1>8. CASE SendChunk(t)
  <2>1. y = [x EXCEPT !.sent = x.sent + 1, !.receipt = {}] BY <1>4, <1>8 DEF SendChunk
  <2>2. x.sent + 1 \in Nat /\ {} \in Receipts BY <1>3, Fields DEF Receipts
  <2> HIDE DEF x
  <2>3. y.acked = x.acked /\ y.receipt = {} BY <1>3, <2>1, <2>2, TunnelIsShape DEF Shape
  <2> QED BY <1>1, <1>2, <2>3
<1>9. CASE SendSettles(t)
  <2>1. /\ y = Resolve(t, tun[t].receipt \cup {"settled"}) /\ tun[t].receipt # NoReceipt
    BY <1>4, <1>9 DEF SendSettles
  <2>2. "settled" \in Whole BY DEF Whole
  <2> QED BY <1>1, <2>1, <2>2, ResolveLearns
<1>10. CASE Next(t)
  <2>1. y = [x EXCEPT !.given = Append(x.given, Head(x.queue)), !.queue = Tail(x.queue)] /\ x.queue # <<>>
    BY <1>4, <1>10 DEF Next
  <2>2. Append(x.given, Head(x.queue)) \in Chunks /\ Tail(x.queue) \in Chunks
    BY <1>3, <2>1, Fields, SeqFacts DEF Chunks
  <2> HIDE DEF x
  <2> QED BY <1>3, <1>5, <2>1, <2>2, TunnelIsShape DEF Shape
<1> QED BY <1>6, <1>7, <1>8, <1>9, <1>10 DEF TunnelStep

(* A writer learns of an accepted chunk by the result for it alone.        *)
LEMMA ClientLearns ==
    ASSUME SlotsInvariant, FramesShape, TunnelShape, FramesTrue, ClientStep, NEW t \in Tunnels, Open(t)',
           Conn(t) \in alive', NEW n \in Nat, Heard(t, n)'
    PROVE  Heard(t, n) \/ (Receive(Conn(t)) /\ down[Conn(t)][1] = Result(Channel(t), n, "accepted"))
<1>1. CASE tun'[t] = tun[t] BY <1>1 DEF Heard
<1>2. ASSUME NEW c \in Attempts, HangUp(c) PROVE Heard(t, n)
  <2>1. tun'[t] = IF Conn(t) = c THEN Ended(t) ELSE tun[t] BY <1>2 DEF HangUp
  <2>2. tun'[t] # Ended(t) BY EndedSilent DEF Open
  <2> QED BY <1>1, <2>1, <2>2, EndedSilent DEF Heard
<1>3. ASSUME NEW u \in Tunnels, TunnelStep(u) PROVE Heard(t, n)
  <2>1. CASE u = t BY <1>3, <2>1, StepLearns
  <2>2. CASE u # t
    <3>1. PICK new : Act(u, new) BY <1>3, TunnelStepSound
    <3>2. tun'[t] = tun[t] BY <2>2, <3>1 DEF Act, Become, TunnelShape
    <3> QED BY <3>2 DEF Heard
  <2> QED BY <2>1, <2>2
<1>4. ASSUME NEW c \in Attempts, Receive(c)
      PROVE  Heard(t, n) \/ (Receive(Conn(t)) /\ down[Conn(t)][1] = Result(Channel(t), n, "accepted"))
  <2>1. PICK f \in Frames, d \in Devices : LET u == <<c, d>> IN
           /\ f.channel = d /\ u \in Tunnels /\ f = down[c][1] /\ Become(u, After(u, f), Tail(down[c]))
    BY <1>4, ReceiveIs
  <2>2. tun' = [tun EXCEPT ![<<c, d>>] = After(<<c, d>>, f)] BY <2>1 DEF Become
  <2>3. CASE t # <<c, d>>
    <3>1. tun'[t] = tun[t] BY <2>2, <2>3 DEF TunnelShape
    <3> QED BY <1>1, <3>1
  <2>4. CASE t = <<c, d>>
    <3>1. Conn(t) = c /\ Channel(t) = d BY <2>4, TunnelFacts
    <3>2. tun'[t] = After(t, f) BY <2>2, <2>4 DEF TunnelShape
    <3>3. Heard(t, n) \/ f = Result(Channel(t), n, "accepted")
      BY <2>1, <3>1, <3>2, AfterLearns DEF Open, Heard
    <3> QED BY <1>4, <2>1, <3>1, <3>3
  <2> QED BY <2>3, <2>4
<1> QED BY <1>2, <1>3, <1>4 DEF ClientStep

(* A result is put on its way by the relay for a frame of its connection.  *)
LEMMA NewResults ==
    ASSUME RelayInvariant, RelayStep, UNCHANGED tun, NEW c \in Attempts, ~Admitted(c), NEW d \in Devices,
           NEW n \in Nat, In(down'[c], Result(d, n, "accepted")), ~In(down[c], Result(d, n, "accepted"))
    PROVE  \E f, sent, full : Forwarded(c, f, "accepted", sent, full) /\ f.channel = d /\ f.id = n
<1> USE DEF RelayInvariant
<1> DEFINE e == Result(d, n, "accepted")
<1>1. /\ e.kind = "forward_result" /\ e.channel = d /\ e.id = n /\ e.status = "accepted"
      /\ down[c] \in Seq(Frames)
  BY DEF Result, FramesShape
<1>3. ASSUME NEW state, NEW sent, NEW full, Deliver(state, sent, full), NEW g \in Frames,
             sent[c] = <<>> \/ sent[c] = <<g>>
      PROVE  g = e
  <2>1. down'[c] # down[c] OBVIOUS
  <2>2. down'[c] = Append(down[c], g)
    <3>0. /\ sent[c] = <<>> => down'[c] = down[c]
          /\ sent[c] = <<g>> => down'[c] = down[c] \/ down'[c] = Append(down[c], g)
      <4>1. FramesShape /\ Deliver(state, sent, full) BY <1>3
      <4>2. sent[c] = <<>> => down'[c] = down[c] BY <4>1, DeliveredNone
      <4>3. down'[c] = down[c] \/ down'[c] = down[c] \o sent[c] BY <4>1, DeliveredFrames
      <4>4. down[c] \o <<g>> = Append(down[c], g) BY <1>1, <1>3, SeqFacts
      <4> QED BY <4>2, <4>3, <4>4
    <3>1. CASE sent[c] = <<>> BY <2>1, <3>0, <3>1
    <3>2. CASE sent[c] = <<g>> BY <1>3, <2>1, <3>0, <3>2
    <3> QED BY <1>3, <3>1, <3>2
  <2> QED BY <1>1, <2>2, InAppend
<1> HIDE DEF e
<1>4. c \in Hosts \/ c \in Devices BY Kinds
<1>5. ASSUME NEW a \in Attempts, Admitted(a) PROVE FALSE
  <2>1. PICK sent, full : AttachSends(a, sent) /\ Deliver([conn EXCEPT ![a] = "open"], sent, full)
    BY <1>5, AttachedSends
  <2>2. a # c BY <1>5
  <2>3. \A b \in Devices : PeerOpen(b) \in Frames /\ PeerOpen(b).kind # e.kind BY <1>1, FrameFacts
  <2>4. a \in Hosts \/ a \in Devices BY Kinds
  <2>5. \E b \in Devices : sent[c] = <<>> \/ sent[c] = <<PeerOpen(b)>>
    <3>1. CASE c \in Devices BY <2>1, <3>1 DEF AttachSends
    <3>2. CASE c \in Hosts /\ a \in Devices BY <2>1, <2>2, <3>2 DEF AttachSends
    <3>3. CASE c \in Hosts /\ a \in Hosts
      <4>1. sent[c] = <<>> BY <2>1, <2>2, <3>3, Kinds DEF AttachSends
      <4> QED BY <4>1
    <3> QED BY <1>4, <2>4, <3>1, <3>2, <3>3
  <2>6. PICK b \in Devices : sent[c] = <<>> \/ sent[c] = <<PeerOpen(b)>> BY <2>5
  <2> DEFINE state == [conn EXCEPT ![a] = "open"]
  <2>7. Deliver(state, sent, full) BY <2>1
  <2> HIDE DEF state
  <2> QED BY <1>3, <2>3, <2>6, <2>7
<1>6. ASSUME NEW a \in Attempts, OnClose(a) PROVE FALSE
  <2>1. PICK sent, full : LeaveSends(a, sent) /\ Deliver([conn EXCEPT ![a] = "closed"], sent, full)
    BY <1>6, LeftSends
  <2>2. \A b \in Devices : PeerClose(b) \in Frames /\ PeerClose(b).kind # e.kind BY <1>1, FrameFacts
  <2>3. \E b \in Devices : sent[c] = <<>> \/ sent[c] = <<PeerClose(b)>>
    <3>1. CASE c \in Devices BY <2>1, <3>1 DEF LeaveSends
    <3>2. CASE c \in Hosts /\ a \in Devices BY <2>1, <3>2 DEF LeaveSends
    <3>3. CASE c \in Hosts /\ a \notin Devices
      <4>1. sent[c] = <<>> BY <2>1, <3>3 DEF LeaveSends
      <4> QED BY <4>1
    <3> QED BY <1>4, <3>1, <3>2, <3>3
  <2>4. PICK b \in Devices : sent[c] = <<>> \/ sent[c] = <<PeerClose(b)>> BY <2>3
  <2> DEFINE state == [conn EXCEPT ![a] = "closed"]
  <2>5. Deliver(state, sent, full) BY <2>1
  <2> HIDE DEF state
  <2> QED BY <1>3, <2>2, <2>4, <2>5
<1>7. ASSUME NEW a \in Attempts, OnMessage(a)
      PROVE  \E f, sent, full : Forwarded(c, f, "accepted", sent, full) /\ f.channel = d /\ f.id = n
  <2>1. PICK f, status, sent, full : Forwarded(a, f, status, sent, full) BY <1>7, ForwardedOne
  <2> DEFINE g == Result(f.channel, f.id, status)
  <2>2. /\ f \in Frames /\ f.kind = "data" /\ Deliver(conn, sent, full)
        /\ g \in Frames /\ g.channel = f.channel /\ g.id = f.id /\ g.status = status
        /\ sent[a] = <<g>> /\ (a # c => sent[c] = <<>> \/ sent[c] = <<f>>)
    <3>1. /\ f \in Frames /\ f.kind = "data" /\ Deliver(conn, sent, full) /\ f.channel \in Devices
          /\ f.id \in Nat /\ status \in {"accepted", "unavailable", "backpressure"}
          /\ sent[a] = <<g>>
      BY <2>1 DEF Forwarded
    <3>2. a # c => sent[c] = <<>> \/ sent[c] = <<f>> BY <2>1 DEF Forwarded
    <3> QED BY <3>1, <3>2, FrameFacts
  <2> HIDE DEF g
  <2>3. CASE a # c
    <3>1. f = e BY <1>3, <2>2, <2>3
    <3> QED BY <1>1, <2>2, <3>1
  <2>4. CASE a = c
    <3>1. g = e BY <1>3, <2>2, <2>4
    <3>2. status = "accepted" /\ f.channel = d /\ f.id = n BY <1>1, <2>2, <3>1
    <3> QED BY <2>1, <2>4, <3>2
  <2> QED BY <2>3, <2>4
<1>8. down' # down OBVIOUS
<1> QED BY <1>5, <1>6, <1>7, <1>8 DEF RelayStep, Present, Refused, CloseConnection, Stop

(* While a writer hears of no end, the relay opens no second reader.       *)
LEMMA HearingKept ==
    ASSUME RelayInvariant, EndsTold, RelayStep, UNCHANGED tun, NEW h \in Hosts, NEW d \in Devices,
           <<h, d>> \in Tunnels, NEW w, NEW r,
           \/ w = <<h, d>> /\ r = <<d, d>>
           \/ w = <<d, d>> /\ r = <<h, d>>,
           Open(w), conn[Conn(w)] = "open", ~In(down[Conn(w)], PeerClose(d)), Hearing(r)'
    PROVE  Hearing(r)
<1> USE DEF RelayInvariant
<1>1. /\ h \in Attempts /\ d \in Attempts /\ h # d /\ Route[h] = Route[d] /\ Route[d] \in Routes
      /\ h \notin Devices /\ d \notin Hosts /\ <<d, d>> \in Tunnels
      /\ Conn(<<h, d>>) = h /\ Conn(<<d, d>>) = d /\ Channel(<<h, d>>) = d /\ Channel(<<d, d>>) = d
      /\ Conn(w) \in alive
  <2>1. h \in Attempts /\ d \in Attempts /\ h # d /\ h \notin Devices /\ d \notin Hosts BY Kinds
  <2>2. Route[h] = Route[d] /\ Route[d] \in Routes BY <2>1, TunnelFacts, Kinds
  <2>3. <<d, d>> \in Tunnels BY TunnelFacts
  <2> QED BY <2>1, <2>2, <2>3, TunnelFacts, FieldsSound
<1>2. /\ DeviceWhole(d) /\ OpenFirst(d) /\ down[d] \in Seq(Frames) /\ down[h] \in Seq(Frames)
      /\ \A i \in 1..Len(down[d]) : down[d][i] \in Frames /\ down[d][i].channel = d
  <2>1. \A i \in 1..Len(down[d]) : <<d, down[d][i].channel>> \in Tunnels /\ down[d][i] \in Frames
    BY <1>1 DEF FramesTrue, FramesShape
  <2>2. ASSUME NEW i \in 1..Len(down[d]) PROVE down[d][i] \in Frames /\ down[d][i].channel = d
    <3>1. down[d][i] \in Frames /\ <<d, down[d][i].channel>> \in Tunnels /\ down[d][i].channel \in Devices
      BY <2>1, FrameFacts
    <3> QED BY <1>1, <3>1, TunnelFacts
  <2> QED BY <1>1, <2>2, StreamsWholeIs DEF FramesShape
<1>3. \A c \in Attempts : c \in alive' => c \in alive \/ Admitted(c) BY ConnMoves
<1>4. CASE w = <<h, d>> /\ r = <<d, d>>
  <2>1. conn[d] # "none" BY <1>4 DEF EndsTold, Known, Open
  <2>2. ~Admitted(d) BY <1>1, <2>1, ConnMoves
  <2>3. d \in alive BY <1>1, <1>3, <1>4, <2>2 DEF Hearing
  <2>4. CASE Open(r) BY <1>1, <1>4, <2>3, <2>4 DEF Hearing
  <2>5. ASSUME ~Open(r), ~In(down[d], PeerOpen(d)) PROVE FALSE
    <3>1. Fresh(d) /\ In(down'[d], PeerOpen(d)) BY <1>1, <1>4, <2>5 DEF Hearing, Fresh, Open
    <3>2. down[d] = <<>>
      <4>1. ASSUME down[d] # <<>> PROVE FALSE
        <5>1. 1 \in 1..Len(down[d]) /\ down[d][1].kind = "peer_open"
          BY <1>2, <3>1, <4>1, SeqFacts DEF OpenFirst
        <5>2. down[d][1] = PeerOpen(d) BY <1>2, <5>1, FrameFacts
        <5> QED BY <2>5, <5>1, <5>2 DEF In
      <4> QED BY <4>1
    <3>3. host[Route[d]] = h BY <1>1, <1>4 DEF SlotsInvariant, TablesExact, Connected
    <3>4. conn[d] # "open" BY <1>2, <2>3, <3>1, <3>2, <3>3, Kinds DEF DeviceWhole, Fresh
    <3>5. down'[d] = down[d] BY <1>1, <2>2, <3>4, RelayKeeps
    <3> QED BY <2>5, <3>1, <3>5
  <2>6. CASE ~Open(r)
    <3>1. tun[r].life = "none" BY <2>6 DEF Hearing, Open
    <3> QED BY <1>1, <1>4, <2>3, <2>5, <2>6, <3>1 DEF Hearing
  <2> QED BY <2>4, <2>6
<1>5. CASE w = <<d, d>> /\ r = <<h, d>>
  <2>1. NoLeaveIn(d)
    <3>1. ASSUME NEW i \in 1..Len(down[d]), Leaves(d, i) PROVE FALSE
      <4>1. down[d][i] = PeerClose(d)
        <5>1. down[d][i] \in Frames /\ down[d][i].channel = d /\ down[d][i].kind = "peer_close"
          BY <1>2, <3>1 DEF Leaves
        <5> QED BY <5>1, FrameFacts
      <4> QED BY <1>1, <1>5, <4>1 DEF In
    <3> QED BY <3>1 DEF NoLeaveIn
  <2>2. host[Route[d]] # NoConn
    <3>1. d \in alive /\ conn[d] = "open" /\ tun[<<d, d>>].life = "open" BY <1>1, <1>5 DEF Open
    <3>2. PICK k \in Hosts : OneHost(d, k) BY <1>2, <3>1 DEF DeviceWhole, Fresh
    <3> QED BY <2>1, <3>1, <3>2, Kinds DEF OneHost
  <2>3. ~Admitted(h) BY <1>1, <2>2 DEF Admitted, CanAdmit, Exists
  <2>4. h \in alive BY <1>1, <1>3, <1>5, <2>3 DEF Hearing
  <2>5. HostHears(h, d) BY HostTells
  <2>6. In(down'[h], PeerOpen(d)) => In(down[h], PeerOpen(d))
    <3>1. conn[d] # "none" BY <1>1, <1>5
    <3>2. \A f \in Frames : In(Append(down[h], f), PeerOpen(d)) => In(down[h], PeerOpen(d)) \/ f = PeerOpen(d)
      BY <1>2, InAppend
    <3> QED BY <2>3, <2>5, <3>1, <3>2 DEF HostHears
  <2> QED BY <1>1, <1>5, <2>4, <2>6 DEF Hearing, Open
<1> QED BY <1>4, <1>5

(* A chunk that is on its way to its reader, or there, stays so while the  *)
(* relay works.                                                            *)
LEMMA RelayReaches ==
    ASSUME SlotsInvariant, FramesShape, TunnelShape, FramesTrue, RelayStep, UNCHANGED tun,
           NEW r \in Tunnels, NEW n \in Nat, Reaches(r, n)
    PROVE  Reaches(r, n)'
<1>1. Conn(r) \in Attempts BY TunnelFacts
<1>2. \A i \in 1..Len(down[Conn(r)]) : i \in 1..Len(down'[Conn(r)]) /\ down'[Conn(r)][i] = down[Conn(r)][i]
  BY <1>1, RelayKeeps
<1>3. CASE n <= tun[r].arrived BY <1>3 DEF Reaches
<1>4. ASSUME NEW i \in 1..Len(down[Conn(r)]), down[Conn(r)][i].kind = "data",
             down[Conn(r)][i].channel = Channel(r), down[Conn(r)][i].id = n
      PROVE  Reaches(r, n)'
  BY <1>2, <1>4 DEF Reaches
<1> QED BY <1>3, <1>4 DEF Reaches

(* What the relay says it has accepted, it has put on its way.             *)
LEMMA RelayKept ==
    ASSUME RelayInvariant, EndsTold, RelayStep, UNCHANGED tun, NEW h \in Hosts, NEW d \in Devices,
           <<h, d>> \in Tunnels, NEW w, NEW r,
           \/ w = <<h, d>> /\ r = <<d, d>>
           \/ w = <<d, d>> /\ r = <<h, d>>,
           Kept(w, r)
    PROVE  Kept(w, r)'
<1> USE DEF RelayInvariant
<1>1. /\ h \in Attempts /\ d \in Attempts /\ h # d /\ Route[h] = Route[d] /\ Route[d] \in Routes
      /\ h \notin Devices /\ d \notin Hosts
      /\ Conn(<<h, d>>) = h /\ Conn(<<d, d>>) = d /\ Channel(<<h, d>>) = d /\ Channel(<<d, d>>) = d
      /\ w \in Tunnels /\ r \in Tunnels
  <2>1. h \in Attempts /\ d \in Attempts /\ h # d /\ h \notin Devices /\ d \notin Hosts BY Kinds
  <2>2. Route[h] = Route[d] /\ Route[d] \in Routes BY <2>1, TunnelFacts, Kinds
  <2>3. <<d, d>> \in Tunnels BY TunnelFacts
  <2> QED BY <2>1, <2>2, <2>3, TunnelFacts
<1> DEFINE c == Conn(w)
           b == Conn(r)
<1>2. /\ c \in Attempts /\ b \in Attempts /\ Channel(w) = d /\ Channel(r) = d
      /\ \/ w = <<h, d>> /\ c = h /\ r = <<d, d>> /\ b = d
         \/ w = <<d, d>> /\ c = d /\ r = <<h, d>> /\ b = h
  BY <1>1
<1> HIDE DEF c, b
<1>3. SUFFICES ASSUME Open(w), Hearing(r)', ~EndOnItsWay(w)', NEW n \in Nat, Accepted(w, n)'
               PROVE  Reaches(r, n)'
  BY DEF Kept, Open
<1>4. FramesShape' BY FramesStep DEF TunnelNext
<1>5. conn'[c] = "open" /\ ~In(down'[c], PeerClose(d))
  <2>1. ~(EndOnItsWay(w)') BY <1>3
  <2>2. c \in Attempts /\ down'[c] \in Seq(Frames) BY <1>2, <1>4 DEF FramesShape
  <2>3. PeerClose(d) \in Range(down'[c]) <=> In(down'[c], PeerClose(d)) BY <2>2, RangeIs
  <2> QED BY <1>2, <2>1, <2>3 DEF EndOnItsWay, c
<1>6. c \in alive /\ ~Admitted(c) /\ conn[c] = "open" /\ ~In(down[c], PeerClose(d))
  <2>1. c \in alive BY <1>1, <1>3, FieldsSound DEF c
  <2>2. ~Admitted(c) BY <1>2, <2>1, ConnMoves
  <2> QED BY <1>2, <1>5, <2>1, <2>2, ConnMoves, RelayKeeps
<1>7. Hearing(r)
  <2>1. ~In(down[Conn(w)], PeerClose(d)) /\ conn[Conn(w)] = "open" BY <1>6 DEF c
  <2> QED BY <1>3, <2>1, HearingKept
<1>8. ~EndOnItsWay(w) BY <1>1, <1>2, <1>6, EndIs DEF c
<1>9. CASE Accepted(w, n)
  <2>1. Reaches(r, n) BY <1>3, <1>7, <1>8, <1>9 DEF Kept
  <2> QED BY <1>1, <2>1, RelayReaches
<1>10. CASE ~Accepted(w, n)
  <2>1. /\ In(down'[c], Result(d, n, "accepted")) /\ ~In(down[c], Result(d, n, "accepted"))
    <3>1. Heard(w, n)' <=> Heard(w, n) BY DEF Heard
    <3> QED BY <1>2, <1>3, <1>10, <3>1 DEF Accepted, c
  <2>2. PICK f, sent, full : Forwarded(c, f, "accepted", sent, full) /\ f.channel = d /\ f.id = n
    BY <1>2, <1>6, <2>1, NewResults
  <2>3. /\ Recipient(c, d) # NoConn /\ Recipient(c, d) \in Attempts /\ Recipient(c, d) # c
        /\ conn[Recipient(c, d)] = "open" /\ Recipient(c, d) \notin full /\ sent[Recipient(c, d)] = <<f>>
        /\ f \in Frames /\ f.kind = "data" /\ Deliver(conn, sent, full)
    BY <2>2 DEF Forwarded
  <2>4. b \in alive BY <1>7 DEF Hearing, b
  <2>5. Recipient(c, d) = b
    <3>1. CASE c = h /\ b = d BY <1>1, <2>3, <3>1 DEF Recipient
    <3>2. CASE w = <<d, d>> /\ c = d /\ r = <<h, d>> /\ b = h
      <4>1. Recipient(c, d) = host[Route[d]] BY <3>2 DEF Recipient
      <4>2. conn[h] # "closed"
        <5>1. ASSUME conn[h] = "closed" PROVE FALSE
          <6>1. Known(h, d) BY <1>1, <1>7, <3>2 DEF Known, Hearing, Open
          <6>2. conn[d] = "open" /\ d \in alive /\ tun[<<d, d>>].life # "closed"
            BY <1>3, <1>6, <3>2 DEF Open
          <6>3. In(down[d], PeerClose(d)) BY <5>1, <6>1, <6>2 DEF EndsTold, DeviceTold
          <6> QED BY <1>6, <3>2, <6>3
        <5> QED BY <5>1
      <4>3. conn[h] # "none" BY <1>1, <2>4, <3>2 DEF FramesShape
      <4>4. Connected(h)
        <5>1. conn[h] \in {"none", "open", "closing", "closed"} BY <1>1 DEF SlotsInvariant, SlotsShape
        <5> QED BY <4>2, <4>3, <5>1 DEF Connected
      <4>5. host[Route[h]] = h BY <4>4 DEF SlotsInvariant, TablesExact
      <4> QED BY <1>1, <3>2, <4>1, <4>5
    <3> QED BY <1>2, <3>1, <3>2
  <2>6. down[b] \in Seq(Frames) BY <1>2 DEF FramesShape
  <2>7. down'[b] = Append(down[b], f)
    <3>1. down'[b] = down[b] \o sent[b] BY <1>2, <2>3, <2>4, <2>5 DEF Deliver
    <3>2. down'[b] = down[b] \o <<f>> BY <2>3, <2>5, <3>1
    <3> QED BY <2>3, <2>6, <3>2, SeqFacts
  <2>8. /\ Len(down'[b]) = Len(down[b]) + 1 /\ Len(down[b]) \in Nat
        /\ down'[b][Len(down[b]) + 1] = f
    BY <2>3, <2>6, <2>7, SeqFacts
  <2>9. Len(down[b]) + 1 \in 1..Len(down'[b]) BY <2>8
  <2>10. \E i \in 1..Len(down'[b]) : LET x == down'[b][i] IN x.kind = "data" /\ x.channel = d /\ x.id = n
    BY <2>2, <2>3, <2>8, <2>9
  <2> QED BY <1>2, <2>10 DEF Reaches, b
<1> QED BY <1>9, <1>10

(* What a tunnel that is or becomes open was, and that it has read no less.*)
LEMMA StillHearing ==
    ASSUME RelayInvariant, ClientStep, NEW t \in Tunnels, tun'[t].life \in {"none", "open"}
    PROVE  /\ tun[t].life \in {"none", tun'[t].life}
           /\ tun[t].arrived <= tun'[t].arrived
           /\ tun[t].life = "none" /\ tun'[t].life = "open" =>
                Receive(Conn(t)) /\ In(down[Conn(t)], PeerOpen(Channel(t)))
<1> USE DEF RelayInvariant
<1>1. Advance(t) BY Advances DEF ClientStep, TunnelNext
<1>2. /\ tun[t] \in Tunnel /\ tun[t].arrived \in Nat /\ tun[t].life \in {"none", "open", "closed"}
      /\ tun[t].life = "none" => tun[t] = Absent
  BY Fields, FieldsSound
<1>3. CASE tun'[t] = tun[t] BY <1>2, <1>3
<1>4. CASE Open(t) /\ tun'[t].life = "open" /\ SameReading(t, tun'[t])
  BY <1>2, <1>4 DEF Open, SameReading
<1>5. CASE Given(t) BY <1>2, <1>5 DEF Given, Open
<1>6. ASSUME NEW f \in Frames, Receive(Conn(t)), f = down[Conn(t)][1], f.channel = Channel(t),
             tun'[t].life = "open", Opened(t, f)
      PROVE  /\ tun[t].life \in {"none", tun'[t].life}
             /\ tun[t].arrived <= tun'[t].arrived
             /\ In(down[Conn(t)], PeerOpen(Channel(t)))
  <2>1. tun[t].life = "none" /\ tun[t].arrived = 0 /\ tun'[t].arrived = 0 /\ f.kind = "peer_open"
    BY <1>2, <1>6, FieldsSound DEF Opened, Absent
  <2>2. f = PeerOpen(Channel(t)) BY <1>6, <2>1, FrameFacts
  <2>3. down[Conn(t)] \in Seq(Frames) /\ down[Conn(t)] # <<>> BY <1>6, TunnelFacts DEF FramesShape, Receive
  <2>4. 1 \in 1..Len(down[Conn(t)]) BY <2>3, SeqFacts
  <2>5. In(down[Conn(t)], PeerOpen(Channel(t))) BY <1>6, <2>2, <2>4 DEF In
  <2> QED BY <2>1, <2>5
<1>7. ASSUME NEW f \in Frames, tun'[t].life = "open", Taken(t, f)
      PROVE  tun[t].life = "open" /\ tun[t].arrived <= tun'[t].arrived
  BY <1>2, <1>7 DEF Taken, Open
<1> QED BY <1>1, <1>2, <1>3, <1>4, <1>5, <1>6, <1>7 DEF Advance, Open

(* A chunk that is on its way to a tunnel, or there, stays so while its    *)
(* connection reads.                                                       *)
LEMMA ClientReaches ==
    ASSUME RelayInvariant, ClientStep, NEW r \in Tunnels, NEW n \in Nat,
           Conn(r) \in alive', tun'[r].life \in {"none", "open"},
           tun[r].life = "none" /\ down[Conn(r)] # <<>> /\ down[Conn(r)][1].channel = Channel(r) =>
                down[Conn(r)][1].kind = "peer_open",
           Reaches(r, n)
    PROVE  Reaches(r, n)'
<1> DEFINE b == Conn(r)
           d == Channel(r)
           q == down[b]
<1>1. b \in Attempts /\ d \in Devices /\ r = <<b, d>> BY TunnelFacts
<1>2. TunnelShape' BY RelayInvariantStep DEF ClientStep, TunnelNext, RelayInvariant
<1>3. tun[r].arrived <= tun'[r].arrived /\ tun[r].arrived \in Nat /\ tun'[r].arrived \in Nat
  BY <1>2, StillHearing, Fields DEF TunnelShape, RelayInvariant
<1>4. Reading(b, d) \/ (~Receive(b) /\ down'[b] = q) BY ClientReads DEF RelayInvariant
<1>5. q \in Seq(Frames) BY <1>1 DEF RelayInvariant, FramesShape
<1> HIDE DEF b, d, q
<1>6. CASE n <= tun[r].arrived BY <1>3, <1>6 DEF Reaches
<1>7. ASSUME NEW i \in 1..Len(q), q[i].kind = "data", q[i].channel = d, q[i].id = n
      PROVE  Reaches(r, n)'
  <2>1. CASE down'[b] = q BY <1>7, <2>1 DEF Reaches, b, d, q
  <2>2. CASE Reading(b, d)
    <3>1. /\ q # <<>> /\ down'[b] = Tail(q) /\ q[1] \in Frames
          /\ q[1].channel = d => tun'[r] = After(r, q[1])
      BY <1>1, <2>2 DEF Reading, q
    <3>2. /\ Len(down'[b]) = Len(q) - 1 /\ Len(q) \in Nat \ {0}
          /\ \A j \in 1..Len(q) - 1 : down'[b][j] = q[j + 1]
      BY <1>5, <3>1, SeqFacts
    <3>3. CASE i # 1
      <4>1. i - 1 \in 1..Len(down'[b]) /\ down'[b][i - 1] = q[i]
        <5>1. i - 1 \in 1..Len(q) - 1 /\ (i - 1) + 1 = i BY <3>2, <3>3
        <5> QED BY <3>2, <5>1
      <4> QED BY <1>7, <4>1 DEF Reaches, b, d
    <3>4. CASE i = 1
      <4>1. tun'[r] = After(r, q[1]) BY <1>7, <3>1, <3>4
      <4>2. tun[r].life # "none" BY <1>7, <3>1, <3>4 DEF b, d, q
      <4>3. tun'[r].life = "open" BY <3>1, <4>1, <4>2, AfterKinds DEF RelayInvariant
      <4>4. tun'[r].arrived = n BY <1>7, <3>1, <3>4, <4>1, <4>3, AfterKinds DEF RelayInvariant
      <4> QED BY <1>3, <4>4 DEF Reaches
    <3> QED BY <3>3, <3>4
  <2> QED BY <1>4, <2>1, <2>2
<1> QED BY <1>6, <1>7 DEF Reaches, b, d, q

(* No client that stays loses a chunk that it heard was accepted.          *)
LEMMA ClientKept ==
    ASSUME RelayInvariant, ClientStep, NEW h \in Hosts, NEW d \in Devices,
           <<h, d>> \in Tunnels, Knows(h, d), NEW w \in Tunnels, NEW r \in Tunnels,
           \/ w = <<h, d>> /\ r = <<d, d>>
           \/ w = <<d, d>> /\ r = <<h, d>>,
           Kept(w, r)
    PROVE  Kept(w, r)'
<1> USE DEF RelayInvariant
<1>1. /\ Conn(<<h, d>>) = h /\ Conn(<<d, d>>) = d /\ Channel(<<h, d>>) = d /\ Channel(<<d, d>>) = d
      /\ h \in Attempts /\ d \in Attempts
  BY TunnelFacts, Kinds
<1> DEFINE c == Conn(w)
           b == Conn(r)
<1>2. /\ c \in Attempts /\ b \in Attempts /\ Channel(w) = d /\ Channel(r) = d /\ w = <<c, d>> /\ r = <<b, d>>
      /\ b = h \/ b = d
  BY <1>1
<1> HIDE DEF c, b
<1>3. SUFFICES ASSUME Open(w)', Hearing(r)', ~EndOnItsWay(w)', NEW n \in Nat, Accepted(w, n)'
               PROVE  Reaches(r, n)'
  BY DEF Kept
<1>4. FramesShape' /\ TunnelShape' BY RelayInvariantStep DEF ClientStep, TunnelNext
<1>5. c \in alive' /\ b \in alive' /\ tun'[w].life = "open" /\ tun'[r].life \in {"none", "open"}
  BY <1>3, <1>4 DEF TunnelShape, Hearing, Open, c, b
<1>6. /\ c \in alive /\ (Reading(c, d) \/ (~Receive(c) /\ down'[c] = down[c]))
      /\ b \in alive /\ (Reading(b, d) \/ (~Receive(b) /\ down'[b] = down[b]))
  BY <1>2, <1>5, ClientReads DEF c, b
<1>7. down[c] \in Seq(Frames) /\ down[b] \in Seq(Frames) BY <1>2 DEF FramesShape
<1>8. conn[c] = "open" /\ ~In(down'[c], PeerClose(d))
  <2>1. ~(EndOnItsWay(w)') BY <1>3
  <2>2. c \in Attempts /\ down'[c] \in Seq(Frames) BY <1>2, <1>4 DEF FramesShape
  <2>3. PeerClose(d) \in Range(down'[c]) <=> In(down'[c], PeerClose(d)) BY <2>2, RangeIs
  <2>4. conn' = conn BY ClientLeavesRelay DEF ClientStep
  <2> QED BY <1>2, <2>1, <2>3, <2>4 DEF EndOnItsWay, c
<1>9. ASSUME NEW q \in Seq(Frames), NEW e \in Attempts, q = down[e],
             Reading(e, d) \/ (~Receive(e) /\ down'[e] = down[e]), NEW f
      PROVE  /\ In(down'[e], f) => In(q, f)
             /\ In(q, f) => In(down'[e], f) \/ (Reading(e, d) /\ q[1] = f)
  BY <1>9, InTail DEF Reading
<1>10. Accepted(w, n)
  <2>1. ASSUME Heard(w, n)' PROVE Accepted(w, n)
    <3>1. Heard(w, n) \/ (Receive(c) /\ down[c][1] = Result(d, n, "accepted"))
      BY <1>2, <1>3, <1>5, <2>1, ClientLearns DEF c
    <3>2. Receive(c) => 1 \in 1..Len(down[c]) BY <1>7, SeqFacts DEF Receive
    <3> QED BY <1>2, <3>1, <3>2 DEF Accepted, In, c
  <2>2. In(down'[c], Result(d, n, "accepted")) => In(down[c], Result(d, n, "accepted"))
    BY <1>2, <1>6, <1>7, <1>9
  <2> QED BY <1>2, <1>3, <2>1, <2>2 DEF Accepted, c
<1>11. tun[w].life \in {"none", "open"} BY <1>5, StillHearing
<1>12. CASE tun[w].life = "none"
  <2>1. tun[w] = Absent BY <1>12, FieldsSound
  <2>2. ~In(down[c], Result(d, n, "accepted"))
    <3>1. ASSUME NEW i \in 1..Len(down[c]), down[c][i] = Result(d, n, "accepted") PROVE FALSE
      <4>1. down[c][i].kind = "forward_result" /\ down[c][i].channel = d BY <3>1 DEF Result
      <4>2. down[c][i].id \in 1..tun[w].handed BY <1>2, <4>1 DEF FramesTrue
      <4> QED BY <2>1, <4>2, AbsentSound
    <3> QED BY <3>1 DEF In
  <2>3. n <= 0
    <3>1. Heard(w, n) BY <1>2, <1>10, <2>2 DEF Accepted, c
    <3>2. Absent.acked = 0 /\ "received" \notin Absent.receipt BY DEF Absent, NoReceipt
    <3> QED BY <2>1, <3>1, <3>2 DEF Heard
  <2>4. tun'[r].arrived \in Nat BY <1>4, Fields DEF TunnelShape
  <2> QED BY <2>3, <2>4 DEF Reaches
<1>13. CASE Open(w)
  <2>1. ~In(down[c], PeerClose(d))
    <3>1. ASSUME In(down[c], PeerClose(d)) PROVE FALSE
      <4>1. Reading(c, d) /\ down[c][1] = PeerClose(d) BY <1>2, <1>6, <1>7, <1>8, <1>9, <3>1
      <4>2. PeerClose(d) \in Frames /\ PeerClose(d).kind = "peer_close" /\ PeerClose(d).channel = d BY FrameFacts
      <4>3. tun'[w] = After(w, PeerClose(d)) BY <1>2, <4>1, <4>2 DEF Reading
      <4> QED BY <1>5, <4>2, <4>3, AfterKinds
    <3> QED BY <3>1
  <2>2. ~EndOnItsWay(w) BY <1>2, <1>8, <2>1, EndIs DEF c
  <2>3. Hearing(r)
    <3>1. CASE tun[r].life = "open" BY <1>6, <3>1 DEF Hearing, Open, b
    <3>2. CASE tun[r].life # "open"
      <4>1. tun[r].life = "none" BY <1>5, <3>2, StillHearing
      <4>2. In(down[b], PeerOpen(d))
        <5>1. CASE tun'[r].life = "open" BY <1>2, <1>5, <4>1, <5>1, StillHearing DEF b
        <5>2. CASE tun'[r].life # "open"
          <6>1. In(down'[b], PeerOpen(d)) BY <1>2, <1>3, <5>2 DEF Hearing, Open, b
          <6> QED BY <1>2, <1>6, <1>7, <1>9, <6>1
        <5> QED BY <5>1, <5>2
      <4> QED BY <1>2, <1>6, <4>1, <4>2 DEF Hearing, b
    <3> QED BY <3>1, <3>2
  <2>4. Reaches(r, n) BY <1>10, <1>13, <2>2, <2>3 DEF Kept
  <2>5. ASSUME tun[r].life = "none", down[b] # <<>>, down[b][1].channel = d PROVE down[b][1].kind = "peer_open"
    <3>1. CASE b = h
      <4>1. 1 \in 1..Len(down[b]) BY <1>7, <2>5, SeqFacts
      <4>2. PICK j \in 1..1 : down[h][j] = PeerOpen(d) BY <1>2, <1>6, <2>5, <3>1, <4>1 DEF Knows
      <4>3. j = 1 OBVIOUS
      <4> QED BY <3>1, <4>2, <4>3, FrameFacts
    <3>2. CASE b = d
      <4>1. OpenFirst(d) BY StreamsWholeIs
      <4> QED BY <1>2, <2>5, <3>2, <4>1 DEF OpenFirst, Fresh
    <3> QED BY <1>2, <3>1, <3>2
  <2> QED BY <1>2, <1>5, <2>4, <2>5, ClientReaches DEF b
<1> QED BY <1>11, <1>12, <1>13 DEF Open

(* AcceptedKept is inductive, relative to RelayInvariant and EndsTold.     *)
LEMMA AcceptedKeptInit == TunnelInit => AcceptedKept
<1> SUFFICES ASSUME TunnelInit PROVE AcceptedKept OBVIOUS
<1>1. alive = {} BY DEF TunnelInit, RelayInit
<1> QED BY <1>1 DEF AcceptedKept, Knows, Kept, Hearing

LEMMA AcceptedKeptStep ==
    RelayInvariant /\ EndsTold /\ AcceptedKept /\ [TunnelNext]_tunnelVars => AcceptedKept'
<1> SUFFICES ASSUME RelayInvariant, EndsTold, AcceptedKept, [TunnelNext]_tunnelVars PROVE AcceptedKept'
  OBVIOUS
<1>1. CASE RelayStep /\ UNCHANGED tun
  <2>1. ASSUME NEW d \in Devices, NEW h \in Hosts, <<h, d>> \in Tunnels PROVE Knows(h, d)'
    BY <1>1, <2>1, RelayKnows DEF AcceptedKept
  <2>2. ASSUME NEW p \in Ends PROVE Kept(p[1], p[2])'
    <3>1. Kept(p[1], p[2]) BY DEF AcceptedKept
    <3> QED BY <1>1, <3>1, EndsAre, RelayKept
  <2> QED BY <2>1, <2>2 DEF AcceptedKept, Ends
<1>2. CASE ClientStep
  <2>1. ASSUME NEW d \in Devices, NEW h \in Hosts, <<h, d>> \in Tunnels PROVE Knows(h, d)'
    BY <1>2, <2>1, ClientKnows DEF AcceptedKept
  <2>2. ASSUME NEW p \in Ends PROVE Kept(p[1], p[2])'
    <3>1. Kept(p[1], p[2]) /\ p[1] \in Tunnels /\ p[2] \in Tunnels BY DEF AcceptedKept, Ends
    <3>2. PICK h \in Hosts, d \in Devices :
              /\ <<h, d>> \in Tunnels
              /\ \/ p[1] = <<h, d>> /\ p[2] = <<d, d>>
                 \/ p[1] = <<d, d>> /\ p[2] = <<h, d>>
      BY EndsAre
    <3>3. Knows(h, d) BY <3>2 DEF AcceptedKept
    <3> QED BY <1>2, <3>1, <3>2, <3>3, ClientKept
  <2> QED BY <2>1, <2>2 DEF AcceptedKept, Ends
<1>3. CASE UNCHANGED tunnelVars
  BY <1>3 DEF tunnelVars, relayVars, AcceptedKept, Knows, Known, Connected, Kept, Hearing, Accepted, Heard, Reaches,
              EndOnItsWay, Open, In
<1> QED BY <1>1, <1>2, <1>3 DEF TunnelNext, ClientStep

(* What reaches a reader is counted once for each frame under way.         *)
LEMMA AckedFollow == RelayInvariant /\ AcceptedKept => AckedNotLost
<1> SUFFICES ASSUME RelayInvariant, AcceptedKept, NEW p \in Ends,
                    Open(p[1]), Open(p[2]), ~EndOnItsWay(p[1])
             PROVE  tun[p[1]].acked <= Len(tun[p[2]].given) + Len(tun[p[2]].queue) + Underway(p[2])
  BY DEF AckedNotLost
<1> DEFINE w == p[1]
           r == p[2]
           k == tun[w].acked
           m == tun[r].arrived
           q == down[Conn(r)]
           On(i) == q[i].kind = "data" /\ q[i].channel = Channel(r)
           I == {i \in DOMAIN q : On(i)}
           g == [i \in I |-> q[i].id]
           S == {g[i] : i \in I}
<1>1. w \in Tunnels /\ r \in Tunnels /\ Open(w) /\ Open(r) BY DEF Ends
<1>2. Hearing(r) BY <1>1, FieldsSound DEF RelayInvariant, Hearing
<1>3. k \in Nat /\ m \in Nat BY <1>1, Fields, FieldsSound DEF RelayInvariant
<1>4. Len(tun[r].given) + Len(tun[r].queue) = m BY <1>1, OpenReads DEF Reads
<1>5. q \in Seq(Frames) BY <1>1, TunnelFacts DEF RelayInvariant, FramesShape
<1>6. DOMAIN q = 1..Len(q) /\ Len(q) \in Nat BY <1>5
<1>7. IsFiniteSet(I) /\ Cardinality(I) \in Nat
  <2>1. IsFiniteSet(1..Len(q)) BY <1>6, FS_Interval
  <2>2. I \subseteq 1..Len(q) BY <1>6
  <2> HIDE DEF I
  <2>3. IsFiniteSet(I) BY <2>1, <2>2, FS_Subset
  <2> QED BY <2>3, FS_CardinalityType
<1>8. Underway(r) = Cardinality(I) BY DEF Underway
<1>9. \A n \in m + 1..k : \E i \in I : g[i] = n
  <2>1. SUFFICES ASSUME NEW n \in m + 1..k PROVE \E i \in I : g[i] = n
    OBVIOUS
  <2>2. n \in Nat /\ n <= k /\ ~(n <= m) BY <1>3
  <2>3. Accepted(w, n) BY <2>2 DEF Accepted, Heard
  <2>4. Reaches(r, n) BY <1>1, <1>2, <2>2, <2>3 DEF AcceptedKept, Kept
  <2>5. PICK i \in 1..Len(q) : On(i) /\ q[i].id = n BY <2>2, <2>4 DEF Reaches
  <2> QED BY <1>6, <2>5
<1>10. g \in Surjection(I, S)
  <2> HIDE DEF I
  <2> QED BY DEF Surjection
<1> HIDE DEF k, m, g, S, I
<1>11. IsFiniteSet(S) /\ Cardinality(S) <= Cardinality(I) BY <1>7, <1>10, FS_Surjection
<1>12. m + 1..k \subseteq S BY <1>9 DEF S
<1>13. Cardinality(m + 1..k) <= Cardinality(S) BY <1>11, <1>12, FS_Subset
<1>14. Cardinality(S) \in Nat BY <1>11, FS_CardinalityType
<1>15. Cardinality(m + 1..k) = IF m + 1 > k THEN 0 ELSE k - (m + 1) + 1 BY <1>3, FS_Interval
<1>16. k <= m + Cardinality(I) BY <1>3, <1>7, <1>11, <1>13, <1>14, <1>15
<1> QED BY <1>4, <1>8, <1>16 DEF k

(* A chunk whose send() succeeded is at its reader or on the way there.    *)
THEOREM AckedNotLostHolds == TunnelSpec => []AckedNotLost
<1>1. RelayInvariant /\ EndsTold /\ AcceptedKept /\ [TunnelNext]_tunnelVars => (EndsTold /\ AcceptedKept)'
  BY EndsToldStep, AcceptedKeptStep
<1>2. TunnelInit => EndsTold /\ AcceptedKept BY EndsToldInit, AcceptedKeptInit
<1>3. RelayInvariant /\ AcceptedKept => AckedNotLost BY AckedFollow
<1> QED BY <1>1, <1>2, <1>3, RelayInvariantHolds, PTL DEF TunnelSpec
=============================================================================
