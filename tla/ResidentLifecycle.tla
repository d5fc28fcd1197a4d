-------------------------- MODULE ResidentLifecycle --------------------------
(***************************************************************************)
(* The resident lifecycle of prime-agent-hostd as it runs: the coordinator *)
(* (src/src/hostd/resident-lifecycle-coordinator.ts) drives provision and  *)
(* end jobs over the Store of LifecycleStore and the Prime Agent daemon.   *)
(*                                                                         *)
(* A job is an async function: between two awaits it is one action, and    *)
(* anything may happen while it waits: another job, a store fault, a crash,*)
(* a daemon answer that is late, lost or never comes.  A Store method that *)
(* makes several writes is begun by the job and finished by the Store's    *)
(* own steps; the job goes on when the mutex is free again.                *)
(*                                                                         *)
(* The daemon and its client are external; they are modelled by what the   *)
(* adapter (src/src/hostd/prime-agent-resident-adapter.ts) relies on: a    *)
(* created session belongs to the client connection that created it until  *)
(* it is promoted, and is cleaned up when that connection goes; a resident *)
(* session outlives hostd.                                                 *)
(***************************************************************************)
EXTENDS LifecycleStore

VARIABLES
    job,      \* where each operation's job stands ("idle": no job)
    held,     \* coordinator.candidates: the session of the held candidate
    closing,  \* coordinator.closeRequested
    up,       \* the daemon's view of each session
    owner,    \* the operation whose create made the session
    req,      \* the mutation an operation has in flight, or its answer
    effects   \* mutations invoked and not proven to have had no effect

coordVars == <<job, held, closing>>
upVars == <<up, owner, req, effects>>
vars == <<storeVars, coordVars, upVars>>

Mutations == {"create", "promote", "kill"}
Live == {"owned", "orphaned", "resident"}

Init ==
    /\ StoreInit
    /\ job = [o \in Ops |-> "idle"]
    /\ held = [o \in Ops |-> NoSession]
    /\ closing = FALSE
    /\ up = [s \in Sessions |-> "none"]
    /\ owner = [s \in Sessions |-> NoOp]
    /\ req = [o \in Ops |-> "none"]
    /\ effects = [o \in Ops |-> [m \in Mutations |-> 0]]

-----------------------------------------------------------------------------
At(o, pc) == job[o] = pc
Goto(o, pc) == job' = [job EXCEPT ![o] = pc]
Finish(o) == Goto(o, "idle")

(* A Store call this job awaits has returned, or throws: the Store faulted.*)
Returned(o) == call.op # o
Serving == mode = "up"

Keep == UNCHANGED <<held, closing>>

(* Disposing of a candidate: Prime completes an owned session, or notices  *)
(* that its owner is gone; a promoted one only loses this connection.      *)
Orphan(S) == up' = [s \in Sessions |-> IF s \in S /\ up[s] = "owned" THEN "orphaned" ELSE up[s]]
Release(o) ==
    /\ held' = [held EXCEPT ![o] = NoSession]
    /\ Orphan({held[o]})

Send(o, m) ==
    /\ req' = [req EXCEPT ![o] = m]
    /\ effects' = [effects EXCEPT ![o][m] = @ + 1]
Consume(o) == req' = [req EXCEPT ![o] = "none"]

(* The job stops waiting: an answer that already arrived is thrown away,   *)
(* one still to come will find nobody.                                     *)
StopWaiting(o) == req' = [req EXCEPT ![o] = IF @ \in Mutations THEN @ ELSE "none"]

-----------------------------------------------------------------------------
(* provision() and run().                                                  *)

StartProvision(o) ==
    /\ At(o, "idle") /\ ~closing
    /\ PrepareProvision(o)
    /\ Goto(o, "prepare") /\ Keep
    /\ UNCHANGED upVars

Prepared(o) ==
    /\ At(o, "prepare") /\ Returned(o) /\ Serving
    /\ Goto(o, "status") /\ Keep
    /\ UNCHANGED <<storeVars, upVars>>

ResumeProvision(o) ==
    /\ At(o, "idle") /\ ~closing /\ o \in ProvisionOps
    /\ Ready /\ Recorded(o) /\ WorkspaceCurrent(o)
    /\ Goto(o, "status") /\ Keep
    /\ UNCHANGED <<storeVars, upVars>>

(* The job ends where it finds the record: settled, or held back.          *)
LeaveSettled(o) ==
    /\ At(o, "status") /\ phase[o] \in {"committed", "completed", "retired", "quarantined"}
    /\ Finish(o) /\ Release(o)
    /\ UNCHANGED <<storeVars, closing, owner, req, effects>>

LeaveOpen(o) ==
    /\ At(o, "status")
    /\ \/ phase[o] = "prepared" /\ (closing \/ ~WorkspaceCurrent(o))
       \/ phase[o] \in DispatchPhases
       \/ phase[o] = "owned_observed" /\ (held[o] = NoSession \/ ~WorkspaceCurrent(o))
       \/ phase[o] \in PostPromotion /\ ~WorkspaceCurrent(o)
    /\ Finish(o) /\ Keep
    /\ UNCHANGED <<storeVars, upVars>>

LeaveClosing(o) ==
    /\ At(o, "status") /\ closing /\ phase[o] \in PostPromotion \cup {"owned_observed"}
    /\ Finish(o) /\ Release(o)
    /\ UNCHANGED <<storeVars, closing, owner, req, effects>>

(* createOwnedCandidate().                                                 *)
StartCreate(o) ==
    /\ At(o, "status") /\ ~closing
    /\ BeginOwnedCreate(o)
    /\ Goto(o, "create") /\ Keep
    /\ UNCHANGED upVars

AbandonCreate(o) ==
    /\ At(o, "create")
    /\ FailOwnedCreateBeforeEffect(o)
    /\ Finish(o) /\ Keep
    /\ UNCHANGED upVars

(* The gateway's custody check is not a runtime contract error, so the job *)
(* cannot tell that nothing was sent.                                      *)
MisjudgeCreate(o) ==
    /\ At(o, "create") /\ ~closing
    /\ Goto(o, "unknown") /\ Keep
    /\ UNCHANGED <<storeVars, upVars>>

InvokeCreate(o) ==
    /\ At(o, "create") /\ ~closing
    /\ Send(o, "create")
    /\ Goto(o, "creating") /\ Keep
    /\ UNCHANGED <<storeVars, up, owner>>

Created(o) == {s \in Sessions : owner[s] = o /\ up[s] \in {"owned", "orphaned"}}

ObserveCreated(o) ==
    /\ At(o, "creating") /\ req[o] = "done"
    /\ \E s \in Created(o) :
        /\ ObserveOwnedCandidate(o, s)
        /\ held' = [held EXCEPT ![o] = s]
    /\ Consume(o)
    /\ Goto(o, "status")
    /\ UNCHANGED <<closing, up, owner, effects>>

(* The Store refuses the candidate: dispose of it and quarantine.          *)
ObserveRefused(o) ==
    /\ At(o, "creating") /\ req[o] = "done"
    /\ \/ ~Serving
       \/ Ready /\ ~(WorkspaceCurrent(o) /\ \E s \in Created(o) : CandidateUnused(o, s))
    /\ Orphan(Created(o)) /\ Consume(o)
    /\ Goto(o, "unknown") /\ Keep
    /\ UNCHANGED <<storeVars, owner, effects>>

CreateUnknown(o) ==
    /\ At(o, "creating")
    /\ Orphan(Created(o)) /\ StopWaiting(o)
    /\ Goto(o, "unknown") /\ Keep
    /\ UNCHANGED <<storeVars, owner, effects>>

(* promoteOwnedCandidate().                                                *)
StartPromote(o) ==
    /\ At(o, "status") /\ ~closing /\ held[o] # NoSession
    /\ BeginPromotion(o)
    /\ Goto(o, "promote") /\ Keep
    /\ UNCHANGED upVars

AbandonPromotion(o) ==
    /\ At(o, "promote")
    /\ FailPromotionBeforeEffect(o)
    /\ Finish(o)
    /\ IF closing THEN Release(o) ELSE UNCHANGED <<held, up>>
    /\ UNCHANGED <<closing, owner, req, effects>>

InvokePromote(o) ==
    /\ At(o, "promote") /\ ~closing
    /\ Send(o, "promote")
    /\ Goto(o, "promoting") /\ Keep
    /\ UNCHANGED <<storeVars, up, owner>>

ObservePromoted(o) ==
    /\ At(o, "promoting") /\ req[o] = "done"
    /\ ObservePromotion(o)
    /\ Consume(o)
    /\ Goto(o, "promoted") /\ Keep
    /\ UNCHANGED <<up, owner, effects>>

PromoteUnknown(o) ==
    /\ At(o, "promoting")
    /\ StopWaiting(o)
    /\ Goto(o, "unknown") /\ Keep
    /\ UNCHANGED <<storeVars, up, owner, effects>>

Promoted(o) ==
    /\ At(o, "promoted") /\ Returned(o) /\ Serving
    /\ Goto(o, "status") /\ Keep
    /\ UNCHANGED <<storeVars, upVars>>

(* Mutant: an unknown outcome is settled as a failure.                     *)
SettleAsFailed(o) ==
    /\ At(o, "unknown") /\ Ready
    /\ Record(o, "completed")
    /\ Drop(o, LeaseKinds)
    /\ Finish(o) /\ Release(o)
    /\ UNCHANGED <<from, reason, sess, bind, proj, ws, mode, call, todo>>
    /\ UNCHANGED <<closing, owner, req, effects>>

SettleUnknown(o) ==
    /\ At(o, "unknown")
    /\ QuarantineOutcomeUnknown(o)
    /\ Finish(o) /\ Release(o)
    /\ UNCHANGED <<closing, owner, req, effects>>

(* publishCommitAndHandoff().                                              *)
StartPublish(o) ==
    /\ At(o, "status") /\ ~closing
    /\ AcquireRecoveryLease(o)
    /\ Goto(o, IF phase[o] = "promoted_observed" THEN "publish" ELSE "commit") /\ Keep
    /\ UNCHANGED upVars

Publish(o) ==
    /\ At(o, "publish") /\ ~closing /\ up[sess[o]] = "resident"
    /\ PublishLifecycleProjection(o)
    /\ Goto(o, "commit") /\ Keep
    /\ UNCHANGED upVars

Commit(o) ==
    /\ At(o, "commit") /\ ~closing
    /\ CommitProvision(o)
    /\ Goto(o, "committing") /\ Keep
    /\ UNCHANGED upVars

(* Mutant: a job that waits to commit is not told of the close.            *)
LeaveUnlessCommitting(o) ==
    /\ At(o, "publish")
    /\ Finish(o) /\ Keep
    /\ UNCHANGED <<storeVars, upVars>>

(* The stable read or the Store call fails, or close comes first: the job  *)
(* returns the status it reads, and keeps the candidate.                   *)
LeaveUnpublished(o) ==
    /\ \/ At(o, "publish")
       \/ At(o, "commit") /\ Returned(o) /\ (closing \/ ~WorkspaceCurrent(o))
    /\ Finish(o) /\ Keep
    /\ UNCHANGED <<storeVars, upVars>>

Committed(o) ==
    /\ At(o, "committing") /\ Returned(o) /\ Serving
    /\ Finish(o) /\ Release(o)
    /\ UNCHANGED <<storeVars, closing, owner, req, effects>>

-----------------------------------------------------------------------------
(* end(), runEnd() and reconcileQuarantinedEnd().                          *)

StartEnd(o) ==
    /\ At(o, "idle") /\ ~closing
    /\ PrepareEnd(o)
    /\ Goto(o, "end_prepare") /\ Keep
    /\ UNCHANGED upVars

EndPrepared(o) ==
    /\ At(o, "end_prepare") /\ Returned(o) /\ Serving
    /\ Goto(o, "end_status") /\ Keep
    /\ UNCHANGED <<storeVars, upVars>>

ResumeEnd(o) ==
    /\ At(o, "idle") /\ ~closing
    /\ PrepareEndAgain(o)
    /\ job' = [job EXCEPT ![o] = IF mode' = "up" THEN "end_status" ELSE "idle"]
    /\ Keep
    /\ UNCHANGED upVars

UnknownKill(o) ==
    QuarantinedIn(o, {"kill_dispatching"}) /\ reason[o] = "external_outcome_unknown"

StartReconcile(o) ==
    /\ At(o, "end_status") /\ UnknownKill(o)
    /\ Goto(o, "reconcile") /\ Keep
    /\ UNCHANGED <<storeVars, upVars>>

(* A settled end, or one that cannot go on: no adapter, closing, a lease   *)
(* that is refused.                                                        *)
LeaveEnd(o) ==
    /\ At(o, "end_status")
    /\ \/ phase[o] \in {"completed", "ending", "kill_dispatching", "retired"}
       \/ phase[o] = "quarantined" /\ ~UnknownKill(o)
    /\ Finish(o) /\ Keep
    /\ UNCHANGED <<storeVars, upVars>>

StartKill(o) ==
    /\ At(o, "end_status") /\ ~closing
    /\ BeginKill(o)
    /\ Goto(o, "kill") /\ Keep
    /\ UNCHANGED upVars

(* Close, a definitive failure of the preflight, or a refused              *)
(* authorization: nothing was sent and the lease is given back.            *)
AbandonKill(o) ==
    /\ job[o] \in {"kill", "kill_live", "kill_gone"}
    /\ FailKillBeforeEffect(o)
    /\ Finish(o) /\ Keep
    /\ UNCHANGED upVars

(* The gateway's custody check fails before the adapter is reached.  It is *)
(* no runtime contract error, so the job asks for a quarantine; the record *)
(* is still `ending`, the Store throws, and the job is over.               *)
MisjudgeKill(o) ==
    /\ At(o, "kill") /\ ~closing /\ Ready
    /\ Finish(o) /\ Keep
    /\ UNCHANGED <<storeVars, upVars>>

ListSession(o) ==
    /\ At(o, "kill") /\ ~closing
    /\ Goto(o, IF up[sess[o]] \in Live THEN "kill_live" ELSE "kill_gone") /\ Keep
    /\ UNCHANGED <<storeVars, upVars>>

InvokeKill(o) ==
    /\ At(o, "kill_live")
    /\ AuthorizeKill(o)
    /\ Send(o, "kill")
    /\ Goto(o, "killing") /\ Keep
    /\ UNCHANGED <<up, owner>>

AuthorizeAbsent(o) ==
    /\ At(o, "kill_gone")
    /\ AuthorizeKill(o)
    /\ Goto(o, "absent") /\ Keep
    /\ UNCHANGED upVars

Acknowledged(o) ==
    /\ At(o, "absent") \/ (At(o, "killing") /\ req[o] = "done")
    /\ AcknowledgeKill(o)
    /\ Consume(o)
    /\ Goto(o, "settle") /\ Keep
    /\ UNCHANGED <<up, owner, effects>>

KillRejected(o) ==
    /\ At(o, "killing") /\ req[o] = "rejected"
    /\ FailKillBeforeEffect(o)
    /\ Consume(o)
    /\ effects' = [effects EXCEPT ![o]["kill"] = @ - 1]
    /\ Finish(o) /\ Keep
    /\ UNCHANGED <<up, owner>>

KillUnknown(o) ==
    /\ At(o, "killing")
    /\ QuarantineOutcomeUnknown(o)
    /\ StopWaiting(o)
    /\ Goto(o, "reconcile") /\ Keep
    /\ UNCHANGED <<up, owner, effects>>

(* Mutant: the end is taken for settled without reading the session list.  *)
ReconcileUnread(o) ==
    /\ At(o, "reconcile")
    /\ Goto(o, "evidence") /\ Keep
    /\ UNCHANGED <<storeVars, upVars>>

Reconcile(o) ==
    /\ At(o, "reconcile")
    /\ IF up[sess[o]] \in Live THEN Finish(o) ELSE Goto(o, "evidence")
    /\ Keep
    /\ UNCHANGED <<storeVars, upVars>>

(* The list cannot be read, or the Store refuses the evidence.             *)
LeaveUnreconciled(o) ==
    /\ \/ At(o, "reconcile")
       \/ At(o, "evidence") /\ Ready /\ ~WorkspaceCurrent(o)
    /\ Finish(o) /\ Keep
    /\ UNCHANGED <<storeVars, upVars>>

CompleteReconciled(o) ==
    /\ At(o, "evidence")
    /\ CompleteQuarantinedEnd(o)
    /\ Goto(o, "settle") /\ Keep
    /\ UNCHANGED upVars

Settled(o) ==
    /\ At(o, "settle") /\ Returned(o) /\ Serving
    /\ Finish(o) /\ Keep
    /\ UNCHANGED <<storeVars, upVars>>

(* Any job whose next Store call throws because the Store has faulted.     *)
StoreUnavailable(o) ==
    /\ ~At(o, "idle") /\ ~Serving
    /\ Finish(o) /\ StopWaiting(o) /\ Keep
    /\ UNCHANGED <<storeVars, up, owner, effects>>

-----------------------------------------------------------------------------
(* close(), and the process: hostd may stop at any instant.                *)

RequestClose ==
    /\ ~closing /\ closing' = TRUE
    /\ mode \notin {"down", "before", "after"}
    /\ UNCHANGED <<storeVars, job, held, upVars>>

(* Mutant: close gives back only candidates that were never promoted.      *)
ReleaseUnpromoted(o) ==
    /\ closing /\ held[o] # NoSession
    /\ \A p \in Ops : At(p, "idle")
    /\ phase[o] = "owned_observed"
    /\ Release(o)
    /\ UNCHANGED <<storeVars, job, closing, owner, req, effects>>

ReleaseOnClose(o) ==
    /\ closing /\ held[o] # NoSession
    /\ \A p \in Ops : At(p, "idle")
    /\ Release(o)
    /\ UNCHANGED <<storeVars, job, closing, owner, req, effects>>

ProcessCrash ==
    /\ Crash
    /\ job' = [o \in Ops |-> "idle"]
    /\ held' = [o \in Ops |-> NoSession]
    /\ closing' = FALSE
    /\ Orphan(Sessions)
    /\ req' = [o \in Ops |-> IF req[o] \in Mutations THEN req[o] ELSE "none"]
    /\ UNCHANGED <<owner, effects>>

-----------------------------------------------------------------------------
(* The daemon (external).  A create makes a new session, or resumes one    *)
(* that is gone; its owner is the connection of the job that still waits.  *)

Answer(o, pc) == req' = [req EXCEPT ![o] = IF At(o, pc) THEN "done" ELSE "none"]

LandCreate(o, s) ==
    /\ req[o] = "create" /\ up[s] \in {"none", "gone"}
    /\ up' = [up EXCEPT ![s] = IF At(o, "creating") THEN "owned" ELSE "orphaned"]
    /\ owner' = [owner EXCEPT ![s] = o]
    /\ Answer(o, "creating")
    /\ UNCHANGED <<storeVars, coordVars, effects>>

LandPromote(o) ==
    /\ req[o] = "promote" /\ up[sess[o]] \in {"owned", "orphaned"}
    /\ owner[sess[o]] = o
    /\ up' = [up EXCEPT ![sess[o]] = "resident"]
    /\ Answer(o, "promoting")
    /\ UNCHANGED <<storeVars, coordVars, owner, effects>>

LandKill(o) ==
    /\ req[o] = "kill" /\ up[sess[o]] \in Live
    /\ up' = [up EXCEPT ![sess[o]] = "gone"]
    /\ Answer(o, "killing")
    /\ UNCHANGED <<storeVars, coordVars, owner, effects>>

(* Only a kill can be rejected with proof that it was not invoked.         *)
RejectKill(o) ==
    /\ req[o] = "kill" /\ At(o, "killing")
    /\ req' = [req EXCEPT ![o] = "rejected"]
    /\ UNCHANGED <<storeVars, coordVars, up, owner, effects>>

LoseRequest(o) ==
    /\ req[o] \in Mutations
    /\ Consume(o)
    /\ UNCHANGED <<storeVars, coordVars, up, owner, effects>>

OwnerCleanup(s) ==
    /\ up[s] = "orphaned"
    /\ up' = [up EXCEPT ![s] = "gone"]
    /\ UNCHANGED <<storeVars, coordVars, owner, req, effects>>

Passivate(s) ==
    /\ up[s] = "resident"
    /\ up' = [up EXCEPT ![s] = "gone"]
    /\ UNCHANGED <<storeVars, coordVars, owner, req, effects>>

-----------------------------------------------------------------------------
Request(o) == StartProvision(o) \/ ResumeProvision(o) \/ StartEnd(o) \/ ResumeEnd(o)

ProvisionJob(o) ==
    \/ Prepared(o) \/ LeaveSettled(o) \/ LeaveOpen(o) \/ LeaveClosing(o)
    \/ StartCreate(o) \/ AbandonCreate(o) \/ MisjudgeCreate(o) \/ InvokeCreate(o)
    \/ ObserveCreated(o) \/ ObserveRefused(o) \/ CreateUnknown(o)
    \/ StartPromote(o) \/ AbandonPromotion(o) \/ InvokePromote(o)
    \/ ObservePromoted(o) \/ PromoteUnknown(o) \/ Promoted(o) \/ SettleUnknown(o)
    \/ StartPublish(o) \/ Publish(o) \/ Commit(o) \/ LeaveUnpublished(o) \/ Committed(o)

EndJob(o) ==
    \/ EndPrepared(o) \/ StartReconcile(o) \/ LeaveEnd(o)
    \/ StartKill(o) \/ AbandonKill(o) \/ MisjudgeKill(o) \/ ListSession(o)
    \/ InvokeKill(o) \/ AuthorizeAbsent(o) \/ Acknowledged(o)
    \/ KillRejected(o) \/ KillUnknown(o)
    \/ Reconcile(o) \/ LeaveUnreconciled(o) \/ CompleteReconciled(o) \/ Settled(o)

JobStep(o) == ProvisionJob(o) \/ EndJob(o) \/ StoreUnavailable(o) \/ ReleaseOnClose(o)

Daemon ==
    \/ \E o \in Ops :
        \/ \E s \in Sessions : LandCreate(o, s)
        \/ LandPromote(o) \/ LandKill(o) \/ RejectKill(o) \/ LoseRequest(o)
    \/ \E s \in Sessions : OwnerCleanup(s) \/ Passivate(s)

StoreStep ==
    \/ \E o \in Ops : CallStep(o) \/ RecoveryStep(o)
    \/ StoreFault \/ Boot \/ FinishBefore \/ FinishAfter
    \/ \E t \in Threads : WorkspaceChange(t)

Next ==
    \/ \E o \in Ops : Request(o) \/ JobStep(o)
    \/ StoreStep /\ UNCHANGED <<coordVars, upVars>>
    \/ RequestClose \/ ProcessCrash
    \/ Daemon

Spec == Init /\ [][Next]_vars

(* Every await of a job settles: a Store call takes its turn on a mutex    *)
(* that is first come, first served, and returns or throws; every daemon   *)
(* request has a timeout.                                                  *)
FairSpec ==
    /\ Spec
    /\ \A o \in Ops :
        /\ SF_vars(JobStep(o))
        /\ WF_vars(CallStep(o) /\ UNCHANGED <<coordVars, upVars>>)

-----------------------------------------------------------------------------
(* Safety of the composition.                                              *)

(* No create, promotion or kill is sent a second time unless the first was *)
(* proven not to have been invoked, whatever was lost, timed out, crashed  *)
(* or was requested again in between.                                      *)
NoMutationReplayed == \A o \in Ops, m \in Mutations : effects[o][m] <= 1

(* A candidate is kept between jobs only while its provision can go on.    *)
HeldCandidateOpen == \A o \in Ops :
    held[o] # NoSession /\ At(o, "idle") /\ Serving =>
        sess[o] = held[o] /\ phase[o] \in PostPromotion \cup {"owned_observed"}

(* Nothing upstream is orphaned.  A resident session outlives hostd; each  *)
(* one is named by a provision record that is still open to the user, and  *)
(* a candidate's connection is kept only for a provision that can go on.   *)
ResidentTracked ==
    /\ \A s \in Sessions :
        up[s] = "resident" => \E o \in ProvisionOps : Recorded(o) /\ sess[o] = s
    /\ HeldCandidateOpen

(* An end that is recorded as complete, or retired, is the end of the      *)
(* session: it is not resident, and never becomes so again.                *)
EndedMeansGone == \A s \in Sessions :
    bind[s].st \in {"completed", "retired"} => up[s] # "resident"

(* A kill that is under way, even one that lands long after its job is     *)
(* gone, targets a session whose command authority was revoked.            *)
KillTargetsRevoked == \A o \in EndOps :
    req[o] = "kill" => bind[sess[o]].st \in {"detached", "completed", "retired"}

-----------------------------------------------------------------------------
(* Liveness.                                                               *)

(* Every request returns.                                                  *)
JobsReturn == \A o \in Ops : ~At(o, "idle") ~> At(o, "idle")

(* close() drains every job and gives back every candidate.                *)
CloseDrains ==
    closing ~> (~closing \/ \A o \in Ops : At(o, "idle") /\ held[o] = NoSession)
=============================================================================
