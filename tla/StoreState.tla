----------------------------- MODULE StoreState -----------------------------
(***************************************************************************)
(* The files of HostStore (src/src/hostd/store.ts) that several of its     *)
(* multi-file transactions write: the public catalog (projects, threads,   *)
(* one snapshot per thread), the private workspace authorities, the        *)
(* bootstrap and lifecycle registries, the session bindings, the retired   *)
(* fence and the retirement marker.                                        *)
(*                                                                         *)
(* One saved project and its one workspace directory: transactions of two  *)
(* workspaces share nothing but the limits of the registries.  A session   *)
(* is named by the provision that created it.  A lifecycle record is kept  *)
(* at the grain the other transactions read it; LifecycleStore describes   *)
(* its phases and the writes between them.                                 *)
(***************************************************************************)
EXTENDS Naturals, FiniteSets

CONSTANTS
    Threads,         \* saved threads of the project
    Bootstraps,      \* workspace bootstrap operations
    Provisions,      \* resident.provision operations, and the session each creates
    Ends,            \* resident.end operations
    ThreadOf,        \* the thread an operation's envelope names
    Reserves,        \* the provision a registered bootstrap reserves; NoOp: a local one
    ReferenceOf,     \* the thread a registered bootstrap resolves its workspace through
    BootstrapLimit,  \* workspaceThreadBootstrapOperationLimit
    NoOp

LifecycleOps == Provisions \cup Ends

ASSUME IdentityAssumption ==
    /\ Provisions \cap Ends = {} /\ Bootstraps \cap LifecycleOps = {}
    /\ NoOp \notin Bootstraps \cup LifecycleOps
    /\ ThreadOf \in [Bootstraps \cup LifecycleOps -> Threads]
    /\ BootstrapLimit \in Nat \ {0}
ASSUME ReservationAssumption ==
    /\ Reserves \in [Bootstraps -> Provisions \cup {NoOp}]
    /\ ReferenceOf \in [Bootstraps -> Threads]
    /\ \A b \in Bootstraps : Reserves[b] # NoOp => ThreadOf[Reserves[b]] = ThreadOf[b]
    /\ \A b, c \in Bootstraps : Reserves[b] = Reserves[c] /\ Reserves[b] # NoOp => b = c

VARIABLES
    project,    \* durable: is the project in the saved-project catalog?
    snapshot,   \* durable: the public snapshot file of each thread
    catalog,    \* durable: each thread's row in the one thread catalog file
    authority,  \* durable: threads with a private workspace authority
    boot,       \* durable: bootstrap operation records
    life,       \* durable: lifecycle records; a quarantined one keeps its stage
    held,       \* durable: why a lifecycle record is quarantined
    bind,       \* durable: binding record of each session
    target,     \* durable: the session an end's record names
    fenced,     \* durable: operations in the retired fence
    marker,     \* durable: the terminal operation of a pending retirement
    ws,         \* is the workspace directory present?
    mode,       \* life of the Store instance
    call,       \* the method that holds the mutex, and its next write
    retiring,   \* the next write of a retirement that method performs
    todo        \* what a recovery pass has not visited yet

files == <<project, snapshot, catalog, authority>>
resident == <<life, held, bind, target>>
retirement == <<fenced, marker>>
stateVars == <<files, boot, resident, retirement, ws, mode, call, retiring, todo>>

-----------------------------------------------------------------------------
(* What a snapshot or a catalog row says of its thread.                    *)
Shows(st, p, at) == [st |-> st, of |-> p, at |-> at]
NoView == Shows("none", NoOp, <<>>)
Initial == Shows("initial", NoOp, <<>>)

(* Lifecycle records.                                                      *)
ProvisionStages == {"creating", "promoted", "published", "committed", "failed"}
EndStages == {"ending", "acknowledged", "completed"}
HeldReasons == {"no", "unknown", "missing"}
BindStates == {"none", "activating", "active", "detached", "completed"}

Recorded(o) == life[o] # "none"
Nonterminal(o) ==
    /\ Recorded(o)
    /\ life[o] \in {"committed", "failed", "completed"} => held[o] # "no"
Commanding(p) == bind[p] \in {"activating", "active"}
OnThread(t, O) == {o \in O : ThreadOf[o] = t}
ThreadBusy(t) == \E o \in OnThread(t, LifecycleOps) : Nonterminal(o)

(* Bootstrap records.                                                      *)
Artifacts == {"project", "snapshot", "thread", "authority"}
Rank == [project |-> 1, snapshot |-> 2, thread |-> 3, authority |-> 4]
First(S) == CHOOSE a \in S : \A c \in S : Rank[a] <= Rank[c]
Last(S) == CHOOSE a \in S : \A c \in S : Rank[a] >= Rank[c]
BootPhases == {"none", "open", "committed", "undoing", "retired"}
NoRecord == [phase |-> "none", claimed |-> {}, placed |-> {}, adopted |-> {},
             remove |-> {}, retain |-> {}, undone |-> {}, released |-> FALSE]

Registered(b) == Reserves[b] # NoOp
BootRecorded == {b \in Bootstraps : boot[b].phase # "none"}
BootOpen(b) == boot[b].phase \in {"open", "undoing"}
Committed(b) == boot[b].phase = "committed"
Reservations == {b \in Bootstraps : Registered(b) /\ Committed(b)}

Present(t) == {a \in Artifacts :
    CASE a = "project" -> project
      [] a = "snapshot" -> snapshot[t] # NoView
      [] a = "thread" -> catalog[t] # NoView
      [] a = "authority" -> t \in authority}

-----------------------------------------------------------------------------
(* The mutex and the life of the Store.  "faulted": a boundary threw and   *)
(* cleared `initialized`; "failed": initialize() threw; "degraded": it     *)
(* returned, without its resident subsystem.                               *)
Modes == {"down", "retirement", "bootstrap", "before", "replay", "after",
          "up", "degraded", "faulted", "failed"}
Idle == [job |-> "none", op |-> NoOp, at |-> "idle"]
Job(job, o, at) == [job |-> job, op |-> o, at |-> at]
Step(job, o, at) == retiring = "no" /\ call = Job(job, o, at)
Ready == mode = "up" /\ call = Idle /\ retiring = "no"

(* A method returns to its caller; a recovery pass goes on to its next.    *)
Done(x) ==
    /\ call' = Idle
    /\ todo' = todo \ {x}

Throw ==
    /\ mode' = IF mode = "up" THEN "faulted" ELSE "failed"
    /\ call' = Idle

-----------------------------------------------------------------------------
StateInit ==
    /\ project = FALSE
    /\ snapshot = [t \in Threads |-> NoView]
    /\ catalog = [t \in Threads |-> NoView]
    /\ authority = {}
    /\ boot = [b \in Bootstraps |-> NoRecord]
    /\ life = [o \in LifecycleOps |-> "none"]
    /\ held = [o \in LifecycleOps |-> "no"]
    /\ bind = [p \in Provisions |-> "none"]
    /\ target = [e \in Ends |-> NoOp]
    /\ fenced = {}
    /\ marker = NoOp
    /\ ws = TRUE
    /\ mode = "down"
    /\ call = Idle
    /\ retiring = "no"
    /\ todo = {}
=============================================================================
