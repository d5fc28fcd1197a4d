--------------------------- MODULE LifecycleStore ---------------------------
(***************************************************************************)
(* The durable resident-lifecycle authority of prime-agent-hostd           *)
(* (src/src/hostd/store.ts): the write-ahead record of every provision and *)
(* end operation, the resident session bindings, the published projection, *)
(* the process-local leases, and the recovery HostStore.initialize() runs. *)
(*                                                                         *)
(* Every method of the Store runs under one mutex (`exclusive`) but makes  *)
(* several separately durable writes, and the process may stop between any *)
(* two of them.  `call` is the method that holds the mutex and the write   *)
(* it makes next; a method with a single write is a single action.  The    *)
(* environment is any caller: it calls in any order and is held back only  *)
(* by what the Store itself checks.                                        *)
(*                                                                         *)
(* Abstractions.  A session is one identity for activeSessionId and        *)
(* sessionId; an operation's envelope is immutable, so its thread is a     *)
(* constant; times, digests and fingerprints are left out; the projection  *)
(* transaction and the terminal retirement transaction, each with a        *)
(* write-ahead file of its own, are one atomic write.  detach, the         *)
(* owned-create cleanup and the deprecated direct binding have no caller   *)
(* in hostd's lifecycle path and are not modelled.                         *)
(***************************************************************************)
EXTENDS Naturals, FiniteSets

CONSTANTS
    Threads,            \* saved threads of this host
    ProvisionOps,       \* operation ids of resident.provision requests
    EndOps,             \* operation ids of resident.end requests
    Sessions,           \* upstream session identities
    ThreadOf,           \* the thread an operation's envelope names
    OperationLimit,     \* residentLifecycleOperationLimit
    WorkspaceMayVanish, \* may a workspace directory be missing for a while?
    NoOp, NoSession

Ops == ProvisionOps \cup EndOps

ASSUME OpsAssumption ==
    /\ ProvisionOps \cap EndOps = {}
    /\ ThreadOf \in [Ops -> Threads]
    /\ NoOp \notin Ops
    /\ NoSession \notin Sessions
ASSUME LimitAssumption == OperationLimit \in Nat \ {0}
ASSUME FlagAssumption == WorkspaceMayVanish \in BOOLEAN

VARIABLES
    phase,   \* durable: phase of each operation record ("none": no record)
    from,    \* durable: quarantinedFrom
    reason,  \* durable: quarantineReason
    sess,    \* durable: the session of the record's binding
    bind,    \* durable: binding record of each session, and the operation it names
    proj,    \* durable: what the thread's published snapshot shows
    ws,      \* is the thread's canonical workspace directory present?
    mode,    \* life of the Store instance
    call,    \* the method holding the mutex, and its next durable write
    lease,   \* process-local leases of each operation
    todo     \* records a recovery pass has not visited yet

durable == <<phase, from, reason, sess, bind, proj>>
storeVars == <<phase, from, reason, sess, bind, proj, ws, mode, call, lease, todo>>

-----------------------------------------------------------------------------
(* Records.                                                                *)

ProvisionPhases == {"prepared", "owned_create_dispatching", "owned_observed",
    "promotion_dispatching", "promoted_observed", "projection_committed", "committed"}
EndPhases == {"ending", "kill_dispatching", "kill_acknowledged"}
Phases == ProvisionPhases \cup EndPhases \cup {"none", "completed", "quarantined", "retired"}
DispatchPhases == {"owned_create_dispatching", "promotion_dispatching", "kill_dispatching"}
Reasons == {"none", "external_outcome_unknown", "owned_client_lost", "authority_changed"}
BindStates == {"none", "activating", "active", "detached", "completed", "retired"}
LeaseKinds == {"create", "promotion", "projection", "kill", "authorized"}
Modes == {"down", "before", "after", "up", "degraded", "faulted"}
Writes == {"idle", "register", "activating", "projection_committed", "committed",
    "detached", "ended", "binding_completed", "completed"}

Idle == [op |-> NoOp, at |-> "idle"]
Unbound == [st |-> "none", op |-> NoOp]
Shows(st, s) == [st |-> st, sess |-> s]

Recorded(o) == phase[o] \notin {"none", "retired"}
Nonterminal(o) == Recorded(o) /\ phase[o] \notin {"committed", "completed"}
OnThread(t) == {o \in Ops : ThreadOf[o] = t}
ThreadBusy(t) == \E o \in OnThread(t) : Nonterminal(o)

BoundTo(s, t) == bind[s].op \in OnThread(t)
ActiveOn(t) == {s \in Sessions : bind[s].st = "active" /\ BoundTo(s, t)}
AuthorityOn(t) == {s \in Sessions : bind[s].st \in {"active", "activating"} /\ BoundTo(s, t)}

(* Mutant: a known session passes for a revoked one.                       *)
AssumedRevoked(o) == sess[o] \in Sessions

(* The session an operation's binding names is detached by this very end.  *)
Revoked(o) == bind[sess[o]] = [st |-> "detached", op |-> o]

(* Phases whose record requires an activating binding.                     *)
PostPromotion == {"promoted_observed", "projection_committed"}
QuarantinedIn(o, P) == phase[o] = "quarantined" /\ from[o] \in P
WorkspaceCurrent(o) == ws[ThreadOf[o]]
ProjectionProven(o) == proj[ThreadOf[o]] = Shows("resident", sess[o])
EndProjected(o) == proj[ThreadOf[o]] = Shows("ended", sess[o])

-----------------------------------------------------------------------------
StoreInit ==
    /\ phase = [o \in Ops |-> "none"]
    /\ from = [o \in Ops |-> "none"]
    /\ reason = [o \in Ops |-> "none"]
    /\ sess = [o \in Ops |-> NoSession]
    /\ bind = [s \in Sessions |-> Unbound]
    /\ proj = [t \in Threads |-> Shows("none", NoSession)]
    /\ ws = [t \in Threads |-> TRUE]
    /\ mode = "down"
    /\ call = Idle
    /\ lease = [o \in Ops |-> {}]
    /\ todo = {}

Ready == mode = "up" /\ call = Idle
Writing(o, at) == mode = "up" /\ call = [op |-> o, at |-> at]
Continue(o, at) == call' = [op |-> o, at |-> at]
Return == call' = Idle

Record(o, p) == phase' = [phase EXCEPT ![o] = p]
Bind(s, st, o) == bind' = [bind EXCEPT ![s] = [st |-> st, op |-> o]]
Grant(o, k) == lease' = [lease EXCEPT ![o] = @ \cup {k}]
Drop(o, K) == lease' = [lease EXCEPT ![o] = @ \ K]
KillLeases == {"kill", "authorized"}

(* A boundary that throws clears `initialized`: every later call is        *)
(* rejected until the process restarts.                                    *)
Fault == mode' = "faulted" /\ Return

-----------------------------------------------------------------------------
(* The registry of operation records is bounded; a terminal provision, or  *)
(* a completed end with its committed predecessor, can be compacted away   *)
(* and leaves only a fence on its operation and session identities.        *)

RegistryFull == Cardinality({o \in Ops : Recorded(o)}) >= OperationLimit

TerminalGroupHead(o) ==
    /\ phase[o] = "completed"
    /\ o \in EndOps => bind[sess[o]] = [st |-> "completed", op |-> o]

TerminalGroup(o) == {o} \cup {p \in ProvisionOps :
    /\ o \in EndOps
    /\ phase[p] = "committed"
    /\ sess[p] = sess[o]}

(* Mutant: a thread's completed end stays on record until the registry is  *)
(* full.                                                                   *)
RetirableWhenFull(o) == {g \in Ops : TerminalGroupHead(g) /\ RegistryFull}

Retirable(o) == {g \in Ops :
    /\ TerminalGroupHead(g)
    /\ \/ o \in ProvisionOps /\ ThreadOf[g] = ThreadOf[o]
       \/ RegistryFull}

(* Mutant: retirement forgets the session instead of fencing it.           *)
RetireWithoutFence(o) ==
    /\ Writing(o, "register")
    /\ \E g \in Retirable(o) :
        /\ phase' = [p \in Ops |-> IF p \in TerminalGroup(g) THEN "retired" ELSE phase[p]]
        /\ bind' = [s \in Sessions |->
               IF g \in EndOps /\ s = sess[g] THEN Unbound ELSE bind[s]]
    /\ UNCHANGED <<from, reason, sess, proj, ws, mode, call, lease, todo>>

RetireTerminalGroup(o) ==
    /\ Writing(o, "register")
    /\ \E g \in Retirable(o) :
        IF g \in EndOps /\ ~EndProjected(g)
        THEN Fault /\ UNCHANGED <<phase, bind>>
        ELSE /\ phase' = [p \in Ops |-> IF p \in TerminalGroup(g) THEN "retired" ELSE phase[p]]
             /\ bind' = [s \in Sessions |->
                    IF g \in EndOps /\ s = sess[g] THEN [st |-> "retired", op |-> NoOp] ELSE bind[s]]
             /\ UNCHANGED <<mode, call>>
    /\ UNCHANGED <<from, reason, sess, proj, ws, lease, todo>>

(* The limit is checked inside the boundary that clears `initialized`.     *)
RefuseRegistryFull(o) ==
    /\ Writing(o, "register")
    /\ RegistryFull /\ Retirable(o) = {}
    /\ Fault
    /\ UNCHANGED <<durable, ws, lease, todo>>

-----------------------------------------------------------------------------
(* Provisioning: prepare, create an owned candidate, promote it, publish   *)
(* its projection, commit.                                                 *)

(* Mutant: the thread's active session is not looked for.                  *)
PrepareBesideSession(o) ==
    /\ Ready /\ o \in ProvisionOps
    /\ phase[o] = "none" /\ WorkspaceCurrent(o)
    /\ ~ThreadBusy(ThreadOf[o])
    /\ Continue(o, "register")
    /\ UNCHANGED <<durable, ws, mode, lease, todo>>

PrepareProvision(o) ==
    /\ Ready /\ o \in ProvisionOps
    /\ phase[o] = "none" /\ WorkspaceCurrent(o)
    /\ ~ThreadBusy(ThreadOf[o]) /\ ActiveOn(ThreadOf[o]) = {}
    /\ Continue(o, "register")
    /\ UNCHANGED <<durable, ws, mode, lease, todo>>

WritePrepared(o) ==
    /\ Writing(o, "register") /\ o \in ProvisionOps
    /\ Retirable(o) = {} /\ ~RegistryFull
    /\ Record(o, "prepared")
    /\ Return
    /\ UNCHANGED <<from, reason, sess, bind, proj, ws, mode, lease, todo>>

BeginOwnedCreate(o) ==
    /\ Ready /\ phase[o] = "prepared" /\ WorkspaceCurrent(o)
    /\ Record(o, "owned_create_dispatching")
    /\ Grant(o, "create")
    /\ UNCHANGED <<from, reason, sess, bind, proj, ws, mode, call, todo>>

(* assertResidentLifecycleCandidateUnused: no fence, no binding record and *)
(* no other operation knows this session, and the thread has no authority. *)
CandidateUnused(o, s) ==
    /\ bind[s].st = "none"
    /\ \A p \in Ops \ {o} : Recorded(p) => sess[p] # s
    /\ AuthorityOn(ThreadOf[o]) = {}

ObserveOwnedCandidate(o, s) ==
    /\ Ready /\ "create" \in lease[o] /\ phase[o] = "owned_create_dispatching"
    /\ WorkspaceCurrent(o) /\ CandidateUnused(o, s)
    /\ Record(o, "owned_observed")
    /\ sess' = [sess EXCEPT ![o] = s]
    /\ Drop(o, {"create"})
    /\ UNCHANGED <<from, reason, bind, proj, ws, mode, call, todo>>

FailOwnedCreateBeforeEffect(o) ==
    /\ Ready /\ "create" \in lease[o] /\ phase[o] = "owned_create_dispatching"
    /\ Record(o, "completed")
    /\ Drop(o, {"create"})
    /\ UNCHANGED <<from, reason, sess, bind, proj, ws, mode, call, todo>>

BeginPromotion(o) ==
    /\ Ready /\ phase[o] = "owned_observed" /\ WorkspaceCurrent(o)
    /\ Record(o, "promotion_dispatching")
    /\ Grant(o, "promotion")
    /\ UNCHANGED <<from, reason, sess, bind, proj, ws, mode, call, todo>>

FailPromotionBeforeEffect(o) ==
    /\ Ready /\ "promotion" \in lease[o] /\ phase[o] = "promotion_dispatching"
    /\ Record(o, "owned_observed")
    /\ Drop(o, {"promotion"})
    /\ UNCHANGED <<from, reason, sess, bind, proj, ws, mode, call, todo>>

ObservePromotion(o) ==
    /\ Ready /\ "promotion" \in lease[o] /\ phase[o] = "promotion_dispatching"
    /\ WorkspaceCurrent(o)
    /\ Record(o, "promoted_observed")
    /\ Continue(o, "activating")
    /\ UNCHANGED <<from, reason, sess, bind, proj, ws, mode, lease, todo>>

(* materializeActivatingResidentBinding: it keeps an exact record, adds a  *)
(* missing one, and throws on any other binding state.                     *)
KeepsActivating(o) ==
    \/ bind[sess[o]] = [st |-> "activating", op |-> o]
    \/ /\ bind[sess[o]].st = "active"
       /\ phase[o] = "projection_committed" \/ QuarantinedIn(o, {"projection_committed"})
CanActivate(o) ==
    KeepsActivating(o) \/ (bind[sess[o]].st = "none" /\ AuthorityOn(ThreadOf[o]) = {})
MaterializeActivating(o) ==
    IF KeepsActivating(o) THEN UNCHANGED bind ELSE Bind(sess[o], "activating", o)

WriteActivating(o) ==
    /\ Writing(o, "activating")
    /\ IF CanActivate(o)
       THEN /\ MaterializeActivating(o)
            /\ lease' = [lease EXCEPT ![o] = (@ \ {"promotion"}) \cup {"projection"}]
            /\ Return /\ UNCHANGED mode
       ELSE Fault /\ UNCHANGED <<bind, lease>>
    /\ UNCHANGED <<phase, from, reason, sess, proj, ws, todo>>

AcquireRecoveryLease(o) ==
    /\ Ready /\ phase[o] \in PostPromotion /\ WorkspaceCurrent(o)
    /\ IF CanActivate(o)
       THEN MaterializeActivating(o) /\ Grant(o, "projection") /\ UNCHANGED <<mode, call>>
       ELSE Fault /\ UNCHANGED <<bind, lease>>
    /\ UNCHANGED <<phase, from, reason, sess, proj, ws, todo>>

PublishLifecycleProjection(o) ==
    /\ Ready /\ "projection" \in lease[o] /\ phase[o] \in PostPromotion
    /\ WorkspaceCurrent(o)
    /\ proj' = [proj EXCEPT ![ThreadOf[o]] = Shows("resident", sess[o])]
    /\ Continue(o, "projection_committed")
    /\ UNCHANGED <<phase, from, reason, sess, bind, ws, mode, lease, todo>>

WriteProjectionCommitted(o) ==
    /\ Writing(o, "projection_committed")
    /\ Record(o, "projection_committed")
    /\ Return
    /\ UNCHANGED <<from, reason, sess, bind, proj, ws, mode, lease, todo>>

CanCommit(o) ==
    \/ bind[sess[o]].st = "active"
    \/ bind[sess[o]] = [st |-> "activating", op |-> o]

CommitProvision(o) ==
    /\ Ready /\ "projection" \in lease[o] /\ phase[o] = "projection_committed"
    /\ WorkspaceCurrent(o) /\ ProjectionProven(o)
    /\ IF CanCommit(o)
       THEN Bind(sess[o], "active", o) /\ Continue(o, "committed") /\ UNCHANGED mode
       ELSE Fault /\ UNCHANGED bind
    /\ UNCHANGED <<phase, from, reason, sess, proj, ws, lease, todo>>

WriteCommitted(o) ==
    /\ Writing(o, "committed")
    /\ Record(o, "committed")
    /\ Drop(o, {"projection"})
    /\ Return
    /\ UNCHANGED <<from, reason, sess, bind, proj, ws, mode, todo>>

-----------------------------------------------------------------------------
(* Ending: record `ending`, revoke the binding, then at most one kill lease*)
(* carries the authority to the runtime.                                   *)

PrepareEnd(o) ==
    /\ Ready /\ o \in EndOps
    /\ phase[o] = "none" /\ WorkspaceCurrent(o)
    /\ ActiveOn(ThreadOf[o]) # {} /\ ~ThreadBusy(ThreadOf[o])
    /\ Continue(o, "register")
    /\ UNCHANGED <<durable, ws, mode, lease, todo>>

WriteEnding(o) ==
    /\ Writing(o, "register") /\ o \in EndOps
    /\ Retirable(o) = {} /\ ~RegistryFull
    /\ Record(o, "ending")
    /\ \E s \in ActiveOn(ThreadOf[o]) : sess' = [sess EXCEPT ![o] = s]
    /\ Continue(o, "detached")
    /\ UNCHANGED <<from, reason, bind, proj, ws, mode, lease, todo>>

(* materializeEndingResidentBindingRevocation.                             *)
KeepsRevoked(o) ==
    \/ Revoked(o)
    \/ bind[sess[o]].st = "completed" /\ phase[o] \in {"kill_acknowledged", "completed"}
CanRevoke(o) == KeepsRevoked(o) \/ bind[sess[o]].st = "active"

MaterializeRevoked(o) ==
    IF KeepsRevoked(o) THEN UNCHANGED bind ELSE Bind(sess[o], "detached", o)

(* An end quarantined after its acknowledgement may not supersede the      *)
(* thread's dispatch barriers: the helper throws inside the guard.         *)
CanSupersede(o) == ~QuarantinedIn(o, {"kill_acknowledged"})

WriteDetached(o) ==
    /\ Writing(o, "detached")
    /\ IF CanRevoke(o)
       THEN MaterializeRevoked(o) /\ Return /\ UNCHANGED mode
       ELSE Fault /\ UNCHANGED bind
    /\ UNCHANGED <<phase, from, reason, sess, proj, ws, lease, todo>>

(* The same envelope again: the revocation is materialised once more.      *)
PrepareEndAgain(o) ==
    /\ Ready /\ o \in EndOps /\ Recorded(o)
    /\ IF CanRevoke(o) /\ CanSupersede(o)
       THEN MaterializeRevoked(o) /\ UNCHANGED <<mode, call>>
       ELSE Fault /\ (IF CanRevoke(o) THEN MaterializeRevoked(o) ELSE UNCHANGED bind)
    /\ UNCHANGED <<phase, from, reason, sess, proj, ws, lease, todo>>

BeginKill(o) ==
    /\ Ready /\ phase[o] = "ending" /\ WorkspaceCurrent(o)
    /\ Revoked(o) /\ "kill" \notin lease[o]
    /\ Grant(o, "kill")
    /\ UNCHANGED <<durable, ws, mode, call, todo>>

AuthorizeKill(o) ==
    /\ Ready /\ "kill" \in lease[o] /\ "authorized" \notin lease[o]
    /\ phase[o] = "ending" /\ WorkspaceCurrent(o) /\ Revoked(o)
    /\ Record(o, "kill_dispatching")
    /\ Grant(o, "authorized")
    /\ UNCHANGED <<from, reason, sess, bind, proj, ws, mode, call, todo>>

FailKillBeforeEffect(o) ==
    /\ Ready /\ "kill" \in lease[o]
    /\ \/ phase[o] = "ending" /\ "authorized" \notin lease[o] /\ UNCHANGED phase
       \/ phase[o] = "kill_dispatching" /\ Record(o, "ending")
    /\ Drop(o, KillLeases)
    /\ UNCHANGED <<from, reason, sess, bind, proj, ws, mode, call, todo>>

AcknowledgeKill(o) ==
    /\ Ready /\ KillLeases \subseteq lease[o] /\ phase[o] = "kill_dispatching"
    /\ Record(o, "kill_acknowledged")
    /\ Continue(o, "ended")
    /\ UNCHANGED <<from, reason, sess, bind, proj, ws, mode, lease, todo>>

(* Read-only evidence that the session is gone settles an unknown kill.    *)
CompleteQuarantinedEnd(o) ==
    /\ Ready /\ QuarantinedIn(o, {"kill_dispatching"})
    /\ reason[o] = "external_outcome_unknown" /\ WorkspaceCurrent(o)
    /\ Record(o, "kill_acknowledged")
    /\ from' = [from EXCEPT ![o] = "none"]
    /\ reason' = [reason EXCEPT ![o] = "none"]
    /\ Continue(o, "ended")
    /\ UNCHANGED <<sess, bind, proj, ws, mode, lease, todo>>

(* prepareResidentEndProjection: publish the ended snapshot over the live  *)
(* one of this very session.  Another session's live snapshot is refused   *)
(* before anything is written; a workspace that does not resolve, or a     *)
(* binding this end does not hold, throws after the write-ahead file.      *)
ForeignProjection(o) ==
    /\ proj[ThreadOf[o]].st = "resident"
    /\ proj[ThreadOf[o]].sess # sess[o]
CanProjectEnd(o) ==
    \/ EndProjected(o)
    \/ WorkspaceCurrent(o) /\ bind[sess[o]].op = o /\ bind[sess[o]].st \in {"detached", "completed"}
ProjectEnd(o) == proj' = [proj EXCEPT ![ThreadOf[o]] = Shows("ended", sess[o])]

WriteEnded(o) ==
    /\ Writing(o, "ended")
    /\ IF ForeignProjection(o) THEN Return /\ UNCHANGED <<proj, mode>>
       ELSE IF CanProjectEnd(o) THEN ProjectEnd(o) /\ Continue(o, "binding_completed") /\ UNCHANGED mode
       ELSE Fault /\ UNCHANGED proj
    /\ UNCHANGED <<phase, from, reason, sess, bind, ws, lease, todo>>

(* materializeCompletedResidentBinding.                                    *)
CanCompleteBinding(o) == Revoked(o) \/ bind[sess[o]].st = "completed"
CompleteBinding(o) ==
    IF bind[sess[o]].st = "completed" THEN UNCHANGED bind ELSE Bind(sess[o], "completed", o)

WriteBindingCompleted(o) ==
    /\ Writing(o, "binding_completed")
    /\ IF CanCompleteBinding(o)
       THEN CompleteBinding(o) /\ Continue(o, "completed") /\ UNCHANGED mode
       ELSE Fault /\ UNCHANGED bind
    /\ UNCHANGED <<phase, from, reason, sess, proj, ws, lease, todo>>

WriteCompleted(o) ==
    /\ Writing(o, "completed")
    /\ Record(o, "completed")
    /\ Drop(o, KillLeases)
    /\ Return
    /\ UNCHANGED <<from, reason, sess, bind, proj, ws, mode, todo>>

(* The outcome of a dispatched mutation is unknown.                        *)
DispatchOf == [create |-> "owned_create_dispatching",
               promotion |-> "promotion_dispatching",
               kill |-> "kill_dispatching"]

QuarantineOutcomeUnknown(o) ==
    /\ Ready
    /\ \E k \in DOMAIN DispatchOf \cap lease[o] :
        /\ phase[o] = DispatchOf[k]
        /\ from' = [from EXCEPT ![o] = phase[o]]
        /\ Drop(o, IF k = "kill" THEN KillLeases ELSE {k})
    /\ Record(o, "quarantined")
    /\ reason' = [reason EXCEPT ![o] = "external_outcome_unknown"]
    /\ UNCHANGED <<sess, bind, proj, ws, mode, call, todo>>

-----------------------------------------------------------------------------
(* A write that fails, a crash, and the restart.                           *)

StoreFault ==
    /\ mode = "up" /\ Fault
    /\ UNCHANGED <<durable, ws, lease, todo>>

Crash ==
    /\ mode # "down" /\ mode' = "down" /\ Return
    /\ lease' = [o \in Ops |-> {}]
    /\ todo' = {}
    /\ UNCHANGED <<durable, ws>>

WorkspaceChange(t) ==
    /\ WorkspaceMayVanish
    /\ ws' = [ws EXCEPT ![t] = ~@]
    /\ UNCHANGED <<durable, mode, call, lease, todo>>

(* The directory check: one nonterminal record per thread.                 *)
DirectoryValid == \A o, p \in Ops :
    Nonterminal(o) /\ Nonterminal(p) /\ ThreadOf[o] = ThreadOf[p] => o = p

Boot ==
    /\ mode = "down"
    /\ mode' = IF DirectoryValid THEN "before" ELSE "degraded"
    /\ todo' = {o \in Ops : Recorded(o)}
    /\ UNCHANGED <<durable, ws, call, lease>>

(* Recovery before projections are replayed.  The records of one pass are  *)
(* independent, so their order is left open; within a record the code's    *)
(* order is kept: interrupted dispatch, revocation or activation, authority.*)
Recovering(stage, o) == mode = stage /\ o \in todo

Interrupted(o) == phase[o] \in DispatchPhases \cup {"owned_observed"}
(* Mutant: recovery forgets an end that stopped before its revocation.     *)
NeedsRevocationAfterKill(o) ==
    /\ o \in EndOps /\ ~KeepsRevoked(o)
    /\ \/ phase[o] \in {"kill_acknowledged", "completed"}
       \/ QuarantinedIn(o, {"ending", "kill_dispatching"})

NeedsRevocation(o) ==
    /\ o \in EndOps
    /\ \/ phase[o] \in {"ending", "kill_acknowledged", "completed"}
       \/ QuarantinedIn(o, {"ending", "kill_dispatching"})
    /\ ~KeepsRevoked(o)
NeedsActivating(o) == o \in ProvisionOps /\ phase[o] \in PostPromotion /\ ~KeepsActivating(o)
(* Mutant: a quarantined record is quarantined once more.                  *)
AuthorityChangedAgain(o) == Nonterminal(o) /\ ~WorkspaceCurrent(o)

AuthorityChanged(o) == Nonterminal(o) /\ phase[o] # "quarantined" /\ ~WorkspaceCurrent(o)

Quarantine(o, why) ==
    /\ Record(o, "quarantined")
    /\ from' = [from EXCEPT ![o] = phase[o]]
    /\ reason' = [reason EXCEPT ![o] = why]

(* Mutant: an interrupted create is taken up again after a restart.        *)
RecoverRetryingCreate(o) ==
    /\ Recovering("before", o) /\ Interrupted(o)
    /\ IF phase[o] = "owned_create_dispatching"
       THEN Record(o, "prepared") /\ UNCHANGED <<from, reason>>
       ELSE Quarantine(o, "external_outcome_unknown")
    /\ UNCHANGED <<sess, bind, proj, ws, mode, call, lease, todo>>

RecoverInterrupted(o) ==
    /\ Recovering("before", o) /\ Interrupted(o)
    /\ Quarantine(o, IF phase[o] = "owned_observed" THEN "owned_client_lost" ELSE "external_outcome_unknown")
    /\ UNCHANGED <<sess, bind, proj, ws, mode, call, lease, todo>>

RecoverRevocation(o) ==
    /\ Recovering("before", o) /\ ~Interrupted(o) /\ NeedsRevocation(o)
    /\ IF CanRevoke(o) THEN MaterializeRevoked(o) /\ UNCHANGED mode
       ELSE mode' = "degraded" /\ UNCHANGED bind
    /\ UNCHANGED <<phase, from, reason, sess, proj, ws, call, lease, todo>>

RecoverActivating(stage, o) ==
    /\ Recovering(stage, o) /\ NeedsActivating(o)
    /\ IF CanActivate(o) THEN MaterializeActivating(o) /\ UNCHANGED mode
       ELSE mode' = "degraded" /\ UNCHANGED bind
    /\ UNCHANGED <<phase, from, reason, sess, proj, ws, call, lease, todo>>

RecoverAuthority(o) ==
    /\ Recovering("before", o)
    /\ ~Interrupted(o) /\ ~NeedsRevocation(o) /\ ~NeedsActivating(o)
    /\ IF AuthorityChanged(o) THEN Quarantine(o, "authority_changed")
       ELSE UNCHANGED <<phase, from, reason>>
    /\ todo' = todo \ {o}
    /\ UNCHANGED <<sess, bind, proj, ws, mode, call, lease>>

FinishBefore ==
    /\ mode = "before" /\ todo = {}
    /\ mode' = "after"
    /\ todo' = {o \in Ops : Recorded(o)}
    /\ UNCHANGED <<durable, ws, call, lease>>

(* Recovery after projections are replayed: finish a commit whose binding  *)
(* is already active, and the local half of an acknowledged end.           *)
CommitInterrupted(o) ==
    phase[o] = "projection_committed" /\ bind[sess[o]].st = "active"
(* Mutant: only an end already recorded as completed is looked at again.   *)
EndRechecked(o) == o \in EndOps /\ phase[o] = "completed"

EndUnfinished(o) == o \in EndOps /\ phase[o] \in {"kill_acknowledged", "completed"}

RecoverCommit(o) ==
    /\ Recovering("after", o) /\ ~NeedsActivating(o) /\ CommitInterrupted(o)
    /\ IF ProjectionProven(o) THEN Record(o, "committed") /\ UNCHANGED mode
       ELSE mode' = "degraded" /\ UNCHANGED phase
    /\ todo' = todo \ {o}
    /\ UNCHANGED <<from, reason, sess, bind, proj, ws, call, lease>>

(* A projection that cannot be prepared for want of the workspace leaves   *)
(* its write-ahead file behind, and initialize() gives up altogether.      *)
RecoverEnded(o) ==
    /\ Recovering("after", o) /\ EndUnfinished(o) /\ ~EndProjected(o)
    /\ IF ForeignProjection(o) THEN mode' = "degraded" /\ UNCHANGED proj
       ELSE IF CanProjectEnd(o) THEN ProjectEnd(o) /\ UNCHANGED mode
       ELSE mode' = "faulted" /\ UNCHANGED proj
    /\ UNCHANGED <<phase, from, reason, sess, bind, ws, call, lease, todo>>

RecoverBindingCompleted(o) ==
    /\ Recovering("after", o) /\ EndUnfinished(o) /\ EndProjected(o)
    /\ bind[sess[o]].st # "completed"
    /\ IF CanCompleteBinding(o) THEN CompleteBinding(o) /\ UNCHANGED mode
       ELSE mode' = "degraded" /\ UNCHANGED bind
    /\ UNCHANGED <<phase, from, reason, sess, proj, ws, call, lease, todo>>

RecoverCompleted(o) ==
    /\ Recovering("after", o) /\ EndUnfinished(o) /\ EndProjected(o)
    /\ bind[sess[o]].st = "completed"
    /\ Record(o, "completed")
    /\ todo' = todo \ {o}
    /\ UNCHANGED <<from, reason, sess, bind, proj, ws, mode, call, lease>>

RecoverNothing(o) ==
    /\ Recovering("after", o)
    /\ ~NeedsActivating(o) /\ ~CommitInterrupted(o) /\ ~EndUnfinished(o)
    /\ todo' = todo \ {o}
    /\ UNCHANGED <<durable, ws, mode, call, lease>>

-----------------------------------------------------------------------------
(* validateResidentState: the cross-check of bindings and records that     *)
(* decides whether the resident subsystem may serve at all.                *)

BindingRecordValid(s) ==
    LET o == bind[s].op IN
    CASE bind[s].st = "activating" ->
            /\ o \in ProvisionOps /\ sess[o] = s
            /\ phase[o] \in PostPromotion \/ QuarantinedIn(o, PostPromotion)
      [] bind[s].st = "detached" ->
            /\ o \in EndOps /\ sess[o] = s
            /\ \/ phase[o] \in EndPhases \cup {"completed"}
               \/ QuarantinedIn(o, {"ending", "kill_dispatching"})
      [] bind[s].st = "active" ->
            /\ o \in ProvisionOps /\ sess[o] = s
            /\ phase[o] \in {"committed", "projection_committed"}
            /\ WorkspaceCurrent(o)
      [] bind[s].st = "completed" ->
            o \in EndOps /\ sess[o] = s /\ phase[o] = "completed"
      [] OTHER -> TRUE

ProvisionRecordValid(o) ==
    /\ phase[o] \in PostPromotion \/ QuarantinedIn(o, PostPromotion) =>
          \/ bind[sess[o]] = [st |-> "activating", op |-> o]
          \/ /\ QuarantinedIn(o, {"projection_committed"})
             /\ bind[sess[o]] = [st |-> "active", op |-> o]
    /\ phase[o] = "committed" =>
          \/ bind[sess[o]] = [st |-> "active", op |-> o]
          \/ \E e \in EndOps : Recorded(e) /\ sess[e] = sess[o]

EndRecordValid(o) ==
    /\ phase[o] \in {"ending", "kill_dispatching"}
          \/ QuarantinedIn(o, {"ending", "kill_dispatching"}) => Revoked(o)
    /\ phase[o] = "completed" =>
          bind[sess[o]] = [st |-> "completed", op |-> o] /\ EndProjected(o)

ValidResidentState ==
    /\ \A s \in Sessions : BindingRecordValid(s)
    /\ \A o \in ProvisionOps : ProvisionRecordValid(o)
    /\ \A o \in EndOps : EndRecordValid(o)

FinishAfter ==
    /\ mode = "after" /\ todo = {}
    /\ mode' = IF ValidResidentState THEN "up" ELSE "degraded"
    /\ UNCHANGED <<durable, ws, call, lease, todo>>

-----------------------------------------------------------------------------
(* What a method in progress does next; it holds the mutex until it returns.*)
CallStep(o) ==
    \/ RetireTerminalGroup(o) \/ RefuseRegistryFull(o)
    \/ WritePrepared(o) \/ WriteActivating(o)
    \/ WriteProjectionCommitted(o) \/ WriteCommitted(o)
    \/ WriteEnding(o) \/ WriteDetached(o)
    \/ WriteEnded(o) \/ WriteBindingCompleted(o) \/ WriteCompleted(o)

ProvisionStep(o) ==
    \/ PrepareProvision(o)
    \/ BeginOwnedCreate(o) \/ FailOwnedCreateBeforeEffect(o)
    \/ \E s \in Sessions : ObserveOwnedCandidate(o, s)
    \/ BeginPromotion(o) \/ FailPromotionBeforeEffect(o)
    \/ ObservePromotion(o) \/ AcquireRecoveryLease(o)
    \/ PublishLifecycleProjection(o) \/ CommitProvision(o)

EndStep(o) ==
    \/ PrepareEnd(o) \/ PrepareEndAgain(o)
    \/ BeginKill(o) \/ AuthorizeKill(o) \/ FailKillBeforeEffect(o)
    \/ AcknowledgeKill(o) \/ CompleteQuarantinedEnd(o)

RecoveryStep(o) ==
    \/ RecoverInterrupted(o) \/ RecoverRevocation(o) \/ RecoverAuthority(o)
    \/ \E stage \in {"before", "after"} : RecoverActivating(stage, o)
    \/ RecoverCommit(o) \/ RecoverEnded(o) \/ RecoverBindingCompleted(o)
    \/ RecoverCompleted(o) \/ RecoverNothing(o)

StoreNext ==
    \/ \E o \in Ops :
        \/ CallStep(o) \/ ProvisionStep(o) \/ EndStep(o)
        \/ RecoveryStep(o) \/ QuarantineOutcomeUnknown(o)
    \/ StoreFault \/ Crash \/ Boot \/ FinishBefore \/ FinishAfter
    \/ \E t \in Threads : WorkspaceChange(t)

StoreSpec == StoreInit /\ [][StoreNext]_storeVars

-----------------------------------------------------------------------------
(* Types.  The records keep exactly the values the code's schemas admit.   *)
TypeOK ==
    /\ phase \in [Ops -> Phases]
    /\ from \in [Ops -> Phases]
    /\ reason \in [Ops -> Reasons]
    /\ sess \in [Ops -> Sessions \cup {NoSession}]
    /\ bind \in [Sessions -> [st : BindStates, op : Ops \cup {NoOp}]]
    /\ proj \in [Threads -> [st : {"none", "resident", "ended"}, sess : Sessions \cup {NoSession}]]
    /\ ws \in [Threads -> BOOLEAN]
    /\ mode \in Modes
    /\ call \in [op : Ops \cup {NoOp}, at : Writes]
    /\ lease \in [Ops -> SUBSET LeaseKinds]
    /\ todo \subseteq Ops

-----------------------------------------------------------------------------
(* Safety.                                                                 *)

(* A thread has at most one nonterminal operation and at most one session  *)
(* with (pending) command authority, and while an operation is in progress *)
(* nobody but its own session may hold that authority.  Provision, end and *)
(* recovery each touch the binding file and the records in separate writes.*)
SingleAuthority ==
    /\ DirectoryValid
    /\ \A t \in Threads : \A s, r \in AuthorityOn(t) : s = r
    /\ \A o \in Ops : Nonterminal(o) => AuthorityOn(ThreadOf[o]) \subseteq {sess[o]}

(* Once a kill may have been sent, and until the end is compacted away,    *)
(* the session it targets has no command authority and none can be         *)
(* restored: not by a failed write, a crash or recovery, nor by an unknown *)
(* outcome.                                                                *)
PastKill == {"kill_dispatching", "kill_acknowledged"}
RevokedBeforeKill == \A o \in EndOps :
    phase[o] \in PastKill \cup {"completed"} \/ QuarantinedIn(o, PastKill) =>
        /\ bind[sess[o]].op = o
        /\ bind[sess[o]].st \in {"detached", "completed"}

(* While a completed end is on record, the thread publishes that very end: *)
(* no live snapshot of a later session replaces it before the record and   *)
(* its predecessor are retired.                                            *)
EndedIsPublished == \A o \in EndOps :
    phase[o] = "completed" =>
        bind[sess[o]] = [st |-> "completed", op |-> o] /\ EndProjected(o)

(* A session behind the retirement fence is named by no remaining record.  *)
RetiredUnreferenced == \A o \in Ops :
    Recorded(o) /\ sess[o] # NoSession => bind[sess[o]].st # "retired"

(* However the process stopped, recovery finds bindings, records and       *)
(* projections it can serve, unless a workspace is missing or was when an  *)
(* earlier recovery quarantined an operation for it.                       *)
RecoveryServes == [][
    mode # "degraded" /\ mode' = "degraded" =>
        \/ \E t \in Threads : ~ws[t]
        \/ \E o \in Ops : phase[o] = "quarantined" /\ reason[o] = "authority_changed"
    ]_storeVars

(* No caller finds an end between its acknowledgement and its completion:  *)
(* the method, or the recovery after it was cut off, finishes it or the    *)
(* Store does not serve.  completeAcknowledgedResidentEnd, which takes up  *)
(* such an end, therefore never has one, and is no action of this module.  *)
AcknowledgedNotServed == Ready => \A o \in EndOps : phase[o] # "kill_acknowledged"

(* A definitive kill acknowledgement is never demoted to an unknown        *)
(* outcome.                                                                *)
AcknowledgedEndSurvives == \A o \in EndOps : ~QuarantinedIn(o, {"kill_acknowledged"})

-----------------------------------------------------------------------------
(* The Store implements SessionAuthority.                                  *)

StageOf == [none |-> "fresh", activating |-> "fresh", active |-> "granted",
            detached |-> "revoked", completed |-> "ended", retired |-> "ended"]

Authority == INSTANCE SessionAuthority WITH
    stage <- [s \in Sessions |-> StageOf[bind[s].st]],
    held <- [t \in Threads |-> ActiveOn(t)]

AuthoritySpec == Authority!Spec
=============================================================================
