---------------------------- MODULE RelayServer ----------------------------
(***************************************************************************)
(* The relay (src/packages/relay-server/src): one-shot grants, bounded     *)
(* admission, and the routing of frames between the one host and the       *)
(* devices of a route.  The relay runs on one thread; it gives it up only  *)
(* while a grant is looked up, so a step below is one callback.            *)
(*                                                                         *)
(* An upgrade request is an attempt; the connection it may become bears    *)
(* its name, and a device's channel bears the name of its connection (the  *)
(* relay draws a fresh random channel for each).  A frame carries its      *)
(* channel; `ready` frames and payload bytes are left out.  A route exists *)
(* while it has a host or a device.  The socket's buffered bytes are some  *)
(* part of what its peer has not read yet, so a frame can overflow only a  *)
(* socket with at least MaxBuffered unread frames, or one whose client no  *)
(* longer reads; what such a client is sent is lost.                       *)
(***************************************************************************)
EXTENDS Naturals, FiniteSets, SequencesExt

CONSTANTS
    Attempts,       \* upgrade requests
    Grants,         \* issued relay grants
    GrantsOf,       \* the grants whose token an attempt may present
    Role,           \* "host" or "device": the role its grants are for
    Route,          \* the route
    Endpoint,       \* the endpoint
    MaxConnections, MaxRoutes, MaxDevices,
    MaxBuffered,    \* unread frames that may fill a socket's buffer
    Idlers,         \* bound: connections the relay may close by itself
    NoConn, NoGrant

ASSUME GrantAssumption ==
    /\ GrantsOf \in [Attempts -> SUBSET Grants]
    /\ Role \in [Attempts -> {"host", "device"}]
    /\ \A a, b \in Attempts : GrantsOf[a] \cap GrantsOf[b] # {} =>
          Role[a] = Role[b] /\ Route[a] = Route[b] /\ Endpoint[a] = Endpoint[b]
    /\ NoConn \notin Attempts /\ NoGrant \notin Grants /\ Idlers \subseteq Attempts
ASSUME RelayLimitAssumption ==
    {MaxConnections, MaxRoutes, MaxDevices, MaxBuffered} \subseteq Nat \ {0}

VARIABLES
    started,  \* is the server serving?
    grants,   \* digests the grant store still holds
    attempt,  \* life of each upgrade request
    grant,    \* the grant the store answered with, or NoGrant
    conn,     \* relay's view of each connection
    alive,    \* connections whose client end is open
    host,     \* the host connection of each route
    devices,  \* the device connections of each route
    up, down  \* frames on the way to the relay, and to the client

relayVars == <<started, grants, attempt, grant, conn, alive, host, devices, up, down>>
admission == <<started, grants, attempt, grant>>

Hosts == {a \in Attempts : Role[a] = "host"}
Devices == Attempts \ Hosts
Routes == {Route[a] : a \in Attempts}

Connected(a) == conn[a] \in {"open", "closing"}
Connections == {a \in Attempts : Connected(a)}
Pending == {a \in Attempts : attempt[a] = "pending"}
Exists(r) == host[r] # NoConn \/ devices[r] # {}

PeerOpen(d) == [kind |-> "peer_open", channel |-> d]
PeerClose(d) == [kind |-> "peer_close", channel |-> d]
Data(d, n, load) == [kind |-> "data", channel |-> d, id |-> n, load |-> load]
Result(d, n, status) == [kind |-> "forward_result", channel |-> d, id |-> n, status |-> status]

RelayInit ==
    /\ started = TRUE /\ grants = Grants
    /\ attempt = [a \in Attempts |-> "none"]
    /\ grant = [a \in Attempts |-> NoGrant]
    /\ conn = [a \in Attempts |-> "none"] /\ alive = {}
    /\ host = [r \in Routes |-> NoConn]
    /\ devices = [r \in Routes |-> {}]
    /\ up = [a \in Attempts |-> <<>>]
    /\ down = [a \in Attempts |-> <<>>]

-----------------------------------------------------------------------------
(* Grants and admission.                                                   *)

ConsumeSha256(g) == grants' = grants \ {g}

(* The grant is looked up, and spent whether or not its time is over.      *)
Present(a, g) ==
    /\ attempt[a] = "none" /\ started /\ g \in GrantsOf[a]
    /\ IF Cardinality(Connections) + Cardinality(Pending) >= MaxConnections
       THEN /\ attempt' = [attempt EXCEPT ![a] = "refused"]
            /\ UNCHANGED <<grants, grant>>
       ELSE /\ attempt' = [attempt EXCEPT ![a] = "pending"]
            /\ grant' = [grant EXCEPT ![a] = IF g \in grants THEN g ELSE NoGrant]
            /\ ConsumeSha256(g)
    /\ UNCHANGED <<started, conn, alive, host, devices, up, down>>

(* Mutant: a host is let in beside the host its route has.                 *)
AnyHost(a) ==
    /\ Cardinality(Connections) < MaxConnections
    /\ IF ~Exists(Route[a]) THEN Cardinality({r \in Routes : Exists(r)}) < MaxRoutes
       ELSE a \in Hosts \/ Cardinality(devices[Route[a]]) < MaxDevices

CanAdmit(a) ==
    /\ Cardinality(Connections) < MaxConnections
    /\ IF ~Exists(Route[a]) THEN Cardinality({r \in Routes : Exists(r)}) < MaxRoutes
       ELSE IF a \in Hosts THEN host[Route[a]] = NoConn
       ELSE /\ Cardinality(devices[Route[a]]) < MaxDevices
            /\ Endpoint[a] \notin {Endpoint[d] : d \in devices[Route[a]]}

-----------------------------------------------------------------------------
(* #sendControl and #forward: frames go to open sockets only; one whose    *)
(* buffer is full is closed by a control frame that does not fit.          *)

MayBeFull(a) == a \notin alive \/ Len(down[a]) >= MaxBuffered
Overflowing == SUBSET {a \in Attempts : conn[a] = "open" /\ MayBeFull(a)}

(* What each connection is sent, and who of them overflows.                *)
Deliver(state, sent, full) ==
    /\ conn' = [a \in Attempts |->
          IF state[a] = "open" /\ a \in full /\ sent[a] # <<>> THEN "closing" ELSE state[a]]
    /\ down' = [a \in Attempts |->
          IF state[a] = "open" /\ a \notin full /\ (a \in alive \/ conn[a] = "none")
          THEN down[a] \o sent[a] ELSE down[a]]

Attach(a) ==
    LET r == Route[a]
        sent == IF a \in Hosts
                THEN [c \in Attempts |-> IF c \in devices[r] THEN <<PeerOpen(c)>>
                        ELSE IF c = a THEN SetToSeq({PeerOpen(d) : d \in devices[r]}) ELSE <<>>]
                ELSE [c \in Attempts |-> IF c \in {a, host[r]} /\ host[r] # NoConn
                                         THEN <<PeerOpen(a)>> ELSE <<>>]
    IN \E full \in Overflowing :
        /\ Deliver([conn EXCEPT ![a] = "open"], sent, full)
        /\ IF a \in Hosts THEN host' = [host EXCEPT ![r] = a] /\ UNCHANGED devices
                          ELSE devices' = [devices EXCEPT ![r] = @ \cup {a}] /\ UNCHANGED host

(* The continuation of #handleUpgrade, when the grant store has answered;  *)
(* the grant's time may have run out, before the lookup or since.          *)
Refused(a) ==
    /\ attempt[a] = "pending"
    /\ attempt' = [attempt EXCEPT ![a] = "refused"]
    /\ grant' = [grant EXCEPT ![a] = NoGrant]
    /\ UNCHANGED <<started, grants, conn, alive, host, devices, up, down>>

Admitted(a) ==
    /\ attempt[a] = "pending" /\ grant[a] # NoGrant /\ started /\ CanAdmit(a)
    /\ attempt' = [attempt EXCEPT ![a] = "attached"]
    /\ Attach(a) /\ alive' = alive \cup {a}
    /\ UNCHANGED <<started, grants, grant, up>>

-----------------------------------------------------------------------------
(* #onMessage and #forward.                                                *)

Recipient(a, d) ==
    IF a \in Devices THEN host[Route[a]]
    ELSE IF d \in devices[Route[a]] THEN d ELSE NoConn

(* The verdicts #forward can reach about a frame on channel d.             *)
Statuses(a, d) ==
    LET c == Recipient(a, d)
    IN IF c = NoConn THEN {"unavailable"}
       ELSE IF conn[c] # "open" THEN {"unavailable"}
       ELSE {"accepted"} \cup (IF MayBeFull(c) THEN {"backpressure"} ELSE {})

(* Mutant: the sender hears "accepted", whatever became of its frame.      *)
Acceptance(frame, status) == Result(frame.channel, frame.id, "accepted")

Receipt(frame, status) == Result(frame.channel, frame.id, status)

Forward(a, frame) ==
    \E status \in Statuses(a, frame.channel), full \in Overflowing :
        LET c == Recipient(a, frame.channel)
        IN Deliver(conn, [b \in Attempts |->
              (IF status = "accepted" /\ b = c THEN <<frame>> ELSE <<>>)
              \o (IF b = a THEN <<Receipt(frame, status)>> ELSE <<>>)],
              IF status = "accepted" THEN full \ {c} ELSE full)

OnMessage(a) ==
    /\ conn[a] = "open" /\ up[a] # <<>>
    /\ Forward(a, Head(up[a]))
    /\ up' = [up EXCEPT ![a] = Tail(@)]
    /\ UNCHANGED <<admission, alive, host, devices>>

(* The idle task, a frame over the rate budget: no more frames are taken.  *)
CloseConnection(a) ==
    /\ conn[a] = "open" /\ a \in Idlers
    /\ conn' = [conn EXCEPT ![a] = "closing"]
    /\ UNCHANGED <<admission, alive, host, devices, up, down>>

(* Mutant: the devices of a host that leaves are told nothing.             *)
HostOfDevice(a) == IF a \in Hosts THEN {} ELSE {host[Route[a]]} \cap Attempts

(* Who hears that a connection is gone.                                    *)
Told(a) == IF a \in Hosts THEN devices[Route[a]] ELSE {host[Route[a]]} \cap Attempts

Leave(a) ==
    LET r == Route[a]
        notice(c) == <<PeerClose(IF a \in Hosts THEN c ELSE a)>>
    IN \E full \in Overflowing :
        /\ Deliver([conn EXCEPT ![a] = "closed"],
              [c \in Attempts |-> IF c \in Told(a) THEN notice(c) ELSE <<>>], full)
        /\ IF a \in Hosts THEN host' = [host EXCEPT ![r] = NoConn] /\ UNCHANGED devices
                          ELSE devices' = [devices EXCEPT ![r] = @ \ {a}] /\ UNCHANGED host

(* The socket's close event, asked for here or by the client.              *)
OnClose(a) ==
    /\ Connected(a) /\ (conn[a] = "closing" \/ a \notin alive)
    /\ Leave(a)
    /\ up' = [up EXCEPT ![a] = <<>>]
    /\ UNCHANGED <<admission, alive>>

(* stop(): every connection is terminated; a pending upgrade is refused    *)
(* when its grant comes back, and the grant is spent.                      *)
Stop ==
    /\ started
    /\ started' = FALSE
    /\ conn' = [a \in Attempts |-> IF conn[a] = "open" THEN "closing" ELSE conn[a]]
    /\ UNCHANGED <<grants, attempt, grant, alive, host, devices, up, down>>

-----------------------------------------------------------------------------
(* A grant lets in one connection, however often its token is presented    *)
(* and however the lookups interleave.                                     *)
OneShotGrants == \A a, b \in Attempts :
    attempt[a] = "attached" /\ attempt[b] = "attached" /\ grant[a] = grant[b] => a = b

(* No interleaving of upgrades, closes and lookups exceeds a slot: one     *)
(* connection of a grant, one host of a route, one connection of a device  *)
(* endpoint, the limits on connections and devices; and the route's table  *)
(* holds just those.                                                       *)
SlotsExclusive ==
    /\ OneShotGrants
    /\ Cardinality(Connections) <= MaxConnections
    /\ \A r \in Routes :
        /\ {a \in Connections \cap Hosts : Route[a] = r} = {host[r]} \cap Attempts
        /\ {a \in Connections \cap Devices : Route[a] = r} = devices[r]
        /\ Cardinality(devices[r]) <= MaxDevices
        /\ \A c, d \in devices[r] : Endpoint[c] = Endpoint[d] => c = d
=============================================================================
