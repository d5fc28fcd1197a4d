------------------------ MODULE ResidentLifecycleProofs ------------------------
(***************************************************************************)
(* The resident lifecycle as it runs keeps LifecycleInvariant, and is safe.*)
(*                                                                         *)
(* The argument: every step of the whole is one of the Store or leaves it  *)
(* alone, so all that is proved of the Store holds here.  A job's step     *)
(* writes what is its operation's own (StoreOwn, CoordOwn), so it has to   *)
(* be looked at for that operation only; the Store's own steps move a      *)
(* record on in a few ways (RecordMove), the daemon moves sessions and     *)
(* requests (DaemonMove).                                                  *)
(***************************************************************************)
EXTENDS ResidentLifecycleInvariant, LifecycleStoreProofs

-----------------------------------------------------------------------------
(* A step of the whole is a step of the Store, or leaves it alone.         *)
JobAction(o) == Request(o) \/ JobStep(o)
StoreAction(o) == ProvisionStep(o) \/ EndStep(o) \/ QuarantineOutcomeUnknown(o)

LEMMA JobStoreAction ==
  ASSUME NEW o \in Ops, JobAction(o)
  PROVE  StoreAction(o) \/ UNCHANGED storeVars
<1>1. CASE Request(o)
  BY <1>1 DEF Request, StartProvision, ResumeProvision, StartEnd, ResumeEnd, StoreAction,
      ProvisionStep, EndStep
<1>2. CASE ProvisionJob(o)
  <2>1. CASE Prepared(o) \/ LeaveSettled(o) \/ LeaveOpen(o) \/ LeaveClosing(o) \/ StartCreate(o)
            \/ AbandonCreate(o) \/ MisjudgeCreate(o) \/ InvokeCreate(o)
    BY <2>1 DEF Prepared, LeaveSettled, LeaveOpen, LeaveClosing, StartCreate, AbandonCreate,
        MisjudgeCreate, InvokeCreate, StoreAction, ProvisionStep
  <2>2. CASE ObserveRefused(o) \/ CreateUnknown(o) \/ StartPromote(o) \/ AbandonPromotion(o)
            \/ InvokePromote(o) \/ ObservePromoted(o) \/ PromoteUnknown(o) \/ Promoted(o)
    BY <2>2 DEF ObserveRefused, CreateUnknown, StartPromote, AbandonPromotion, InvokePromote,
        ObservePromoted, PromoteUnknown, Promoted, StoreAction, ProvisionStep
  <2>3. CASE SettleUnknown(o) \/ StartPublish(o) \/ Publish(o) \/ Commit(o) \/ LeaveUnpublished(o) \/ Committed(o)
    BY <2>3 DEF SettleUnknown, StartPublish, Publish, Commit, LeaveUnpublished, Committed,
        StoreAction, ProvisionStep
  <2>4. CASE ObserveCreated(o)
    <3>1. PICK s \in Sessions : ObserveOwnedCandidate(o, s) BY <2>4 DEF ObserveCreated, Created
    <3> QED BY <3>1 DEF StoreAction, ProvisionStep
  <2> QED BY <1>2, <2>1, <2>2, <2>3, <2>4 DEF ProvisionJob
<1>3. CASE EndJob(o)
  BY <1>3 DEF EndJob, EndPrepared, StartReconcile, LeaveEnd, StartKill, AbandonKill, MisjudgeKill,
      ListSession, InvokeKill, AuthorizeAbsent, Acknowledged, KillRejected, KillUnknown, Reconcile,
      LeaveUnreconciled, CompleteReconciled, Settled, StoreAction, EndStep
<1>4. CASE StoreUnavailable(o) \/ ReleaseOnClose(o)
  BY <1>4 DEF StoreUnavailable, ReleaseOnClose
<1> QED BY <1>1, <1>2, <1>3, <1>4 DEF JobAction, JobStep

LEMMA DaemonKeepsStore == Daemon => UNCHANGED <<storeVars, coordVars>>
BY DEF Daemon, LandCreate, LandPromote, LandKill, RejectKill, LoseRequest, OwnerCleanup, Passivate

LEMMA StepIsStoreStep == [Next]_vars => [StoreNext]_storeVars
<1>1. ASSUME NEW o \in Ops, JobAction(o) PROVE [StoreNext]_storeVars
  BY <1>1, JobStoreAction DEF StoreAction, StoreNext
<1>2. CASE StoreStep
  BY <1>2 DEF StoreStep, StoreNext
<1>3. CASE RequestClose \/ ProcessCrash
  BY <1>3 DEF RequestClose, ProcessCrash, StoreNext
<1>4. CASE Daemon
  BY <1>4, DaemonKeepsStore
<1>5. CASE UNCHANGED vars
  BY <1>5 DEF vars
<1>6. ASSUME Next PROVE [StoreNext]_storeVars
  BY <1>1, <1>2, <1>3, <1>4, <1>6 DEF Next, JobAction
<1> QED BY <1>5, <1>6

(* The Store in this composition is the Store of LifecycleStore, so what   *)
(* is proved of it for any caller holds for the coordinator's calls.       *)
THEOREM LifecycleImplementsStore == Spec => StoreSpec
<1>1. Init => StoreInit BY DEF Init
<1>2. QED BY <1>1, StepIsStoreStep, PTL DEF Spec, StoreSpec

(* A job writes what belongs to its own operation; of the rest it can at   *)
(* most orphan a session, or make the Store fault.                         *)
StoreOwn(o) ==
    /\ \A q \in Ops \ {o} : phase'[q] = phase[q] /\ from'[q] = from[q] /\ sess'[q] = sess[q]
    /\ \A s \in Sessions : bind'[s].st = "retired" => bind[s].st = "retired"
    /\ phase'[o] = "retired" => phase[o] = "retired"
    /\ (Recorded(o)' <=> Recorded(o)) /\ (sess'[o] = sess[o] \/ phase[o] = "owned_create_dispatching")
    /\ mode' = mode \/ mode' = "faulted"

LEMMA StoreOwnKept == ASSUME NEW o \in Ops, UNCHANGED storeVars PROVE StoreOwn(o)
BY DEF storeVars, StoreOwn, Recorded

LEMMA StoreActionOwn ==
  ASSUME TypeOK, NEW o \in Ops, StoreAction(o)
  PROVE  StoreOwn(o)
<1> USE DEF TypeOK, Record, Recorded, StoreOwn
<1>1. CASE ProvisionStep(o)
  <2>1. CASE PrepareProvision(o) BY <2>1 DEF PrepareProvision, durable
  <2>2. CASE BeginOwnedCreate(o) BY <2>2 DEF BeginOwnedCreate
  <2>3. CASE FailOwnedCreateBeforeEffect(o) BY <2>3 DEF FailOwnedCreateBeforeEffect
  <2>4. CASE \E s \in Sessions : ObserveOwnedCandidate(o, s) BY <2>4 DEF ObserveOwnedCandidate
  <2>5. CASE BeginPromotion(o) BY <2>5 DEF BeginPromotion
  <2>6. CASE FailPromotionBeforeEffect(o) BY <2>6 DEF FailPromotionBeforeEffect
  <2>7. CASE ObservePromotion(o) BY <2>7 DEF ObservePromotion
  <2>8. CASE AcquireRecoveryLease(o)
    BY <2>8 DEF AcquireRecoveryLease, MaterializeActivating, Bind, Fault
  <2>9. CASE PublishLifecycleProjection(o) BY <2>9 DEF PublishLifecycleProjection
  <2>10. CASE CommitProvision(o) BY <2>10 DEF CommitProvision, Bind, Fault
  <2> QED BY <1>1, <2>1, <2>2, <2>3, <2>4, <2>5, <2>6, <2>7, <2>8, <2>9, <2>10 DEF ProvisionStep
<1>2. CASE EndStep(o)
  <2>1. CASE PrepareEnd(o) BY <2>1 DEF PrepareEnd, durable
  <2>2. CASE PrepareEndAgain(o) BY <2>2 DEF PrepareEndAgain, MaterializeRevoked, Bind, Fault
  <2>3. CASE BeginKill(o) BY <2>3 DEF BeginKill, durable
  <2>4. CASE AuthorizeKill(o) BY <2>4 DEF AuthorizeKill
  <2>5. CASE FailKillBeforeEffect(o) BY <2>5 DEF FailKillBeforeEffect
  <2>6. CASE AcknowledgeKill(o) BY <2>6 DEF AcknowledgeKill
  <2>7. CASE CompleteQuarantinedEnd(o) BY <2>7 DEF CompleteQuarantinedEnd, QuarantinedIn
  <2> QED BY <1>2, <2>1, <2>2, <2>3, <2>4, <2>5, <2>6, <2>7 DEF EndStep
<1>3. CASE QuarantineOutcomeUnknown(o)
  <2>1. PICK k : from' = [from EXCEPT ![o] = phase[o]] /\ phase[o] = DispatchOf[k] /\ k \in DOMAIN DispatchOf
    BY <1>3 DEF QuarantineOutcomeUnknown
  <2>2. phase[o] \in {"owned_create_dispatching", "promotion_dispatching", "kill_dispatching"}
    BY <2>1 DEF DispatchOf
  <2> QED BY <1>3, <2>1, <2>2 DEF QuarantineOutcomeUnknown
<1> QED BY <1>1, <1>2, <1>3 DEF StoreAction

CoordOwn(o) ==
    /\ \A q \in Ops \ {o} :
        job'[q] = job[q] /\ held'[q] = held[q] /\ req'[q] = req[q] /\ effects'[q] = effects[q]
    /\ \A s \in Sessions : up'[s] = "resident" <=> up[s] = "resident"

LEMMA JobOwn ==
  ASSUME CoordTypeOK, NEW o \in Ops, JobAction(o)
  PROVE  CoordOwn(o)
<1> USE DEF CoordTypeOK, CoordOwn, At, Goto, Finish, Keep, Release, Orphan, Send, Consume, StopWaiting, upVars
<1>1. CASE Request(o)
  BY <1>1 DEF Request, StartProvision, ResumeProvision, StartEnd, ResumeEnd
<1>2. CASE ProvisionJob(o)
  <2>1. CASE Prepared(o) \/ LeaveSettled(o) \/ LeaveOpen(o) \/ LeaveClosing(o) \/ StartCreate(o)
            \/ AbandonCreate(o) \/ MisjudgeCreate(o)
    BY <2>1 DEF Prepared, LeaveSettled, LeaveOpen, LeaveClosing, StartCreate, AbandonCreate,
        MisjudgeCreate
  <2>2. CASE InvokeCreate(o) \/ InvokePromote(o)
    BY <2>2 DEF InvokeCreate, InvokePromote
  <2>3. CASE ObserveCreated(o)
    BY <2>3 DEF ObserveCreated
  <2>4. CASE ObserveRefused(o) \/ CreateUnknown(o)
    BY <2>4 DEF ObserveRefused, CreateUnknown
  <2>5. CASE StartPromote(o) \/ AbandonPromotion(o) \/ ObservePromoted(o) \/ PromoteUnknown(o) \/ Promoted(o)
    BY <2>5 DEF StartPromote, AbandonPromotion, ObservePromoted, PromoteUnknown, Promoted
  <2>6. CASE SettleUnknown(o) \/ StartPublish(o) \/ Publish(o) \/ Commit(o) \/ LeaveUnpublished(o) \/ Committed(o)
    BY <2>6 DEF SettleUnknown, StartPublish, Publish, Commit, LeaveUnpublished, Committed
  <2> QED BY <1>2, <2>1, <2>2, <2>3, <2>4, <2>5, <2>6 DEF ProvisionJob
<1>3. CASE EndJob(o)
  <2>1. CASE EndPrepared(o) \/ StartReconcile(o) \/ LeaveEnd(o) \/ StartKill(o) \/ AbandonKill(o)
            \/ MisjudgeKill(o) \/ ListSession(o) \/ AuthorizeAbsent(o)
    BY <2>1 DEF EndPrepared, StartReconcile, LeaveEnd, StartKill, AbandonKill, MisjudgeKill,
        ListSession, AuthorizeAbsent
  <2>2. CASE InvokeKill(o) \/ KillRejected(o)
    BY <2>2 DEF InvokeKill, KillRejected
  <2>3. CASE Acknowledged(o) \/ KillUnknown(o) \/ Reconcile(o) \/ LeaveUnreconciled(o)
            \/ CompleteReconciled(o) \/ Settled(o)
    BY <2>3 DEF Acknowledged, KillUnknown, Reconcile, LeaveUnreconciled, CompleteReconciled, Settled
  <2> QED BY <1>3, <2>1, <2>2, <2>3 DEF EndJob
<1>4. CASE StoreUnavailable(o) \/ ReleaseOnClose(o)
  BY <1>4 DEF StoreUnavailable, ReleaseOnClose, coordVars
<1> QED BY <1>1, <1>2, <1>3, <1>4 DEF JobAction, JobStep

Local(o) == JobFact(o) /\ HeldFact(o) /\ EffectFact(o) /\ RequestFact(o)

LEMMA SendCounts ==
  ASSUME CoordTypeOK, NEW o \in Ops, NEW m \in Mutations, Send(o, m), effects[o][m] = 0
  PROVE  /\ effects' \in [Ops -> [Mutations -> {0, 1}]]
         /\ effects'[o][m] = 1 /\ \A n \in Mutations \ {m} : effects'[o][n] = effects[o][n]
         /\ req' \in [Ops -> {"none", "done", "rejected"} \cup Mutations] /\ req'[o] = m
<1> DEFINE e == [effects[o] EXCEPT ![m] = 1]
<1>1. effects[o] \in [Mutations -> {0, 1}] BY DEF CoordTypeOK
<1>2. e \in [Mutations -> {0, 1}] /\ e[m] = 1 /\ \A n \in Mutations \ {m} : e[n] = effects[o][n]
  BY <1>1
<1>3. effects' = [effects EXCEPT ![o] = e]
  BY <1>1 DEF Send
<1> HIDE DEF e
<1>4. effects' \in [Ops -> [Mutations -> {0, 1}]] /\ effects'[o] = e
  BY <1>2, <1>3 DEF CoordTypeOK
<1>5. req' \in [Ops -> {"none", "done", "rejected"} \cup Mutations] /\ req'[o] = m
  BY DEF Send, CoordTypeOK
<1> QED BY <1>2, <1>4, <1>5

LEMMA RequestKeeps ==
  ASSUME CoordTypeOK, TypeOK, RecordShape, NEW o \in Ops, Local(o), Request(o)
  PROVE  CoordTypeOK' /\ Local(o)'
<1> USE DEF TypeOK, CoordTypeOK, Local, JobFact, HeldFact, EffectFact, RequestFact, At, Goto, Keep, upVars,
      Ready, durable, Stage, Recorded, ProvisionPlaces, EndPlaces, Unobserved, Resting, PostPromotion, storeVars
<1>1. CASE StartProvision(o)
  BY <1>1 DEF StartProvision, PrepareProvision
<1>2. CASE ResumeProvision(o)
  BY <1>2 DEF ResumeProvision
<1>3. CASE StartEnd(o)
  BY <1>3 DEF StartEnd, PrepareEnd
<1>4. CASE ResumeEnd(o)
  BY <1>4 DEF ResumeEnd, PrepareEndAgain, Fault
<1> QED BY <1>1, <1>2, <1>3, <1>4 DEF Request

LEMMA ProvisionJobKeeps ==
  ASSUME CoordTypeOK, TypeOK, RecordShape, NEW o \in Ops, Local(o), ProvisionJob(o)
  PROVE  CoordTypeOK' /\ Local(o)'
<1>k. /\ phase[o] \in ProvisionPhases => o \in ProvisionOps
      /\ phase[o] # "quarantined" => phase[o] \in Phases \ {"quarantined"}
  BY DEF RecordShape, EndShape, ProvisionPhases, EndPhases, TypeOK, Ops
<1> USE DEF TypeOK, CoordTypeOK, Local, JobFact, HeldFact, EffectFact, RequestFact, At, Goto, Finish, Keep,
      Release, Orphan, Consume, StopWaiting, upVars, Record, Drop, Fault, Continue, Ready, durable, Stage, Recorded, 
      ProvisionPlaces, EndPlaces, Unobserved, Resting, PostPromotion, storeVars, Mutations, BeforeCreate, BeforePromote, BeforeKill
<1>1. CASE Prepared(o) BY <1>1 DEF Prepared
<1>2. CASE LeaveSettled(o) BY <1>2 DEF LeaveSettled
<1>3. CASE LeaveOpen(o) BY <1>3 DEF LeaveOpen
<1>4. CASE LeaveClosing(o) BY <1>4 DEF LeaveClosing
<1>5. CASE StartCreate(o) BY <1>5 DEF StartCreate, BeginOwnedCreate, Phases
<1>6. CASE AbandonCreate(o) BY <1>6 DEF AbandonCreate, FailOwnedCreateBeforeEffect
<1>7. CASE MisjudgeCreate(o) BY <1>7 DEF MisjudgeCreate
<1>8. CASE InvokeCreate(o)
  <2>1. effects[o]["create"] = 0 BY <1>8 DEF InvokeCreate
  <2>2. Send(o, "create") BY <1>8 DEF InvokeCreate
  <2>3. /\ effects' \in [Ops -> [Mutations -> {0, 1}]]
        /\ effects'[o]["create"] = 1 /\ effects'[o]["promote"] = effects[o]["promote"]
        /\ effects'[o]["kill"] = effects[o]["kill"]
        /\ req' \in [Ops -> {"none", "done", "rejected"} \cup Mutations] /\ req'[o] = "create"
    BY <2>1, <2>2, SendCounts
  <2>4. job'[o] = "creating" /\ job[o] = "create" BY <1>8 DEF InvokeCreate
  <2>5. CoordTypeOK' BY <1>8, <2>3 DEF InvokeCreate
  <2>6. JobFact(o)' /\ HeldFact(o)' BY <1>8, <2>4 DEF InvokeCreate
  <2>7. EffectFact(o)' /\ RequestFact(o)' BY <1>8, <2>3, <2>4 DEF InvokeCreate
  <2> QED BY <2>5, <2>6, <2>7
<1>9. CASE ObserveCreated(o)
  <2>1. PICK s \in Sessions : ObserveOwnedCandidate(o, s) /\ held' = [held EXCEPT ![o] = s]
    BY <1>9 DEF ObserveCreated, Created
  <2> QED BY <1>9, <1>k, <2>1 DEF ObserveCreated, ObserveOwnedCandidate, ProvisionPhases
<1>10. CASE ObserveRefused(o) BY <1>10 DEF ObserveRefused
<1>11. CASE CreateUnknown(o) BY <1>11 DEF CreateUnknown
<1>12. CASE StartPromote(o) BY <1>12 DEF StartPromote, BeginPromotion
<1>13. CASE AbandonPromotion(o)
  <2>1. /\ job[o] = "promote" /\ job' = [job EXCEPT ![o] = "idle"]
        /\ phase[o] = "promotion_dispatching" /\ phase' = [phase EXCEPT ![o] = "owned_observed"]
        /\ UNCHANGED <<from, sess, closing, owner, req, effects, mode>>
    BY <1>13 DEF AbandonPromotion, FailPromotionBeforeEffect
  <2>2. /\ held' = held \/ held' = [held EXCEPT ![o] = NoSession]
        /\ up' \in [Sessions -> {"none", "owned", "orphaned", "resident", "gone"}]
    BY <1>13 DEF AbandonPromotion
  <2>3. CoordTypeOK' BY <2>1, <2>2
  <2>4. JobFact(o)' /\ HeldFact(o)' BY <2>1, <2>2
  <2>5. EffectFact(o)' /\ RequestFact(o)' BY <2>1
  <2> QED BY <2>3, <2>4, <2>5
<1>14. CASE InvokePromote(o)
  <2>1. effects[o]["promote"] = 0 BY <1>14 DEF InvokePromote
  <2>2. Send(o, "promote") BY <1>14 DEF InvokePromote
  <2> QED BY <1>14, <2>1, <2>2, SendCounts DEF InvokePromote
<1>15. CASE ObservePromoted(o) BY <1>15 DEF ObservePromoted, ObservePromotion
<1>16. CASE PromoteUnknown(o) BY <1>16 DEF PromoteUnknown
<1>17. CASE Promoted(o) BY <1>17 DEF Promoted
<1>18. CASE SettleUnknown(o)
  <2>1. PICK k \in DOMAIN DispatchOf : phase[o] = DispatchOf[k] /\ from' = [from EXCEPT ![o] = phase[o]]
    BY <1>18 DEF SettleUnknown, QuarantineOutcomeUnknown
  <2>2. phase[o] \in {"owned_create_dispatching", "promotion_dispatching", "kill_dispatching"}
    BY <2>1 DEF DispatchOf
  <2> QED BY <1>18, <2>1, <2>2 DEF SettleUnknown, QuarantineOutcomeUnknown
<1>19. CASE StartPublish(o) BY <1>19 DEF StartPublish, AcquireRecoveryLease
<1>20. CASE Publish(o) BY <1>20 DEF Publish, PublishLifecycleProjection
<1>21. CASE Commit(o) BY <1>21 DEF Commit, CommitProvision
<1>22. CASE LeaveUnpublished(o) BY <1>22 DEF LeaveUnpublished
<1>23. CASE Committed(o) BY <1>23 DEF Committed
<1> QED BY ONLY ProvisionJob(o), <1>1, <1>2, <1>3, <1>4, <1>5, <1>6, <1>7, <1>8, <1>9, <1>10, <1>11, <1>12, <1>13, <1>14,
      <1>15, <1>16, <1>17, <1>18, <1>19, <1>20, <1>21, <1>22, <1>23 DEF ProvisionJob

LEMMA EndJobKeeps ==
  ASSUME CoordTypeOK, TypeOK, RecordShape, NEW o \in Ops, Local(o), EndJob(o)
  PROVE  CoordTypeOK' /\ Local(o)'
<1> USE DEF TypeOK, CoordTypeOK, Local, JobFact, HeldFact, EffectFact, RequestFact, At, Goto, Finish, Keep,
      Consume, StopWaiting, upVars, Record, Drop, Fault, Continue, Ready, durable, Stage, Recorded,
      ProvisionPlaces, EndPlaces, Unobserved, Resting, PostPromotion, storeVars, Mutations, BeforeCreate, BeforePromote, BeforeKill
<1>k. job[o] \in EndPlaces => o \in EndOps /\ held[o] = NoSession
  BY OpsAssumption
<1>1. CASE EndPrepared(o) BY <1>1 DEF EndPrepared
<1>2. CASE StartReconcile(o) BY <1>2 DEF StartReconcile, UnknownKill, QuarantinedIn
<1>3. CASE LeaveEnd(o) BY <1>3, <1>k DEF LeaveEnd
<1>4. CASE StartKill(o) BY <1>4 DEF StartKill, BeginKill
<1>5. CASE AbandonKill(o) BY <1>5, <1>k DEF AbandonKill, FailKillBeforeEffect
<1>6. CASE MisjudgeKill(o) BY <1>6, <1>k DEF MisjudgeKill
<1>7. CASE ListSession(o) BY <1>7 DEF ListSession
<1>8. CASE InvokeKill(o)
  <2>1. phase[o] = "ending" /\ effects[o]["kill"] = 0 BY <1>8 DEF InvokeKill
  <2>2. Send(o, "kill") BY <1>8 DEF InvokeKill
  <2>3. /\ effects' \in [Ops -> [Mutations -> {0, 1}]]
        /\ effects'[o]["kill"] = 1 /\ effects'[o]["promote"] = effects[o]["promote"]
        /\ effects'[o]["create"] = effects[o]["create"]
        /\ req' \in [Ops -> {"none", "done", "rejected"} \cup Mutations] /\ req'[o] = "kill"
    BY <2>1, <2>2, SendCounts
  <2>4. job'[o] = "killing" /\ job[o] = "kill_live" BY <1>8 DEF InvokeKill
  <2>5. CoordTypeOK' BY <1>8, <2>3 DEF InvokeKill
  <2>6. JobFact(o)' /\ HeldFact(o)' BY <1>8, <1>k, <2>4 DEF InvokeKill, AuthorizeKill
  <2>7. EffectFact(o)' /\ RequestFact(o)' BY <1>8, <2>3, <2>4 DEF InvokeKill, AuthorizeKill
  <2> QED BY <2>5, <2>6, <2>7
<1>9. CASE AuthorizeAbsent(o) BY <1>9 DEF AuthorizeAbsent, AuthorizeKill
<1>10. CASE Acknowledged(o) BY <1>10, <1>k DEF Acknowledged, AcknowledgeKill
<1>11. CASE KillRejected(o)
  <2> DEFINE e == [effects[o] EXCEPT !["kill"] = 0]
  <2>1. job[o] = "killing" /\ phase[o] = "kill_dispatching" /\ effects[o]["kill"] = 1 /\ req[o] = "rejected"
    BY <1>11 DEF KillRejected
  <2>2. /\ e \in [Mutations -> {0, 1}] /\ e["kill"] = 0
        /\ e["create"] = effects[o]["create"] /\ e["promote"] = effects[o]["promote"]
    OBVIOUS
  <2>3. effects' = [effects EXCEPT ![o] = e]
    BY <1>11, <2>1 DEF KillRejected
  <2> HIDE DEF e
  <2>4. effects' \in [Ops -> [Mutations -> {0, 1}]] /\ effects'[o] = e
    BY <2>2, <2>3
  <2>5. CoordTypeOK' BY <1>11, <2>4 DEF KillRejected
  <2>6. JobFact(o)' /\ HeldFact(o)' BY <1>11, <1>k DEF KillRejected, FailKillBeforeEffect
  <2>7. EffectFact(o)' /\ RequestFact(o)' BY <1>11, <2>1, <2>2, <2>4 DEF KillRejected, FailKillBeforeEffect
  <2> QED BY <2>5, <2>6, <2>7
<1>12. CASE KillUnknown(o)
  <2>1. PICK k \in DOMAIN DispatchOf : phase[o] = DispatchOf[k] /\ from' = [from EXCEPT ![o] = phase[o]]
    BY <1>12 DEF KillUnknown, QuarantineOutcomeUnknown
  <2> QED BY <1>12, <1>k, <2>1 DEF KillUnknown, QuarantineOutcomeUnknown
<1>13. CASE Reconcile(o)
  <2>1. job[o] = "reconcile" /\ (job' = [job EXCEPT ![o] = "idle"] \/ job' = [job EXCEPT ![o] = "evidence"])
    BY <1>13 DEF Reconcile
  <2>2. UNCHANGED <<storeVars, held, closing, up, owner, req, effects>>
    BY <1>13 DEF Reconcile
  <2>3. CoordTypeOK' /\ JobFact(o)' BY <1>k, <2>1, <2>2
  <2>4. HeldFact(o)' BY <1>k, <2>1, <2>2
  <2>5. EffectFact(o)' /\ RequestFact(o)' BY <1>k, <2>1, <2>2
  <2> QED BY <2>3, <2>4, <2>5
<1>14. CASE LeaveUnreconciled(o) BY <1>14, <1>k DEF LeaveUnreconciled
<1>15. CASE CompleteReconciled(o) BY <1>15, <1>k DEF CompleteReconciled, CompleteQuarantinedEnd, QuarantinedIn
<1>16. CASE Settled(o) BY <1>16, <1>k DEF Settled
<1> QED BY ONLY EndJob(o), <1>1, <1>2, <1>3, <1>4, <1>5, <1>6, <1>7, <1>8, <1>9, <1>10, <1>11, <1>12, <1>13, <1>14,
      <1>15, <1>16 DEF EndJob

LEMMA LeavingKeeps ==
  ASSUME CoordTypeOK, NEW o \in Ops, Local(o), StoreUnavailable(o) \/ ReleaseOnClose(o)
  PROVE  CoordTypeOK' /\ Local(o)'
<1> USE DEF CoordTypeOK, Local, JobFact, HeldFact, EffectFact, RequestFact, At, Goto, Finish, Keep, Release, Orphan,
      StopWaiting, Stage, Recorded, storeVars, Mutations, ProvisionPlaces, EndPlaces, Unobserved, Resting
<1>1. CASE StoreUnavailable(o) BY <1>1 DEF StoreUnavailable, Serving
<1>2. CASE ReleaseOnClose(o) BY <1>2 DEF ReleaseOnClose
<1> QED BY <1>1, <1>2

(* A job keeps the facts of its operation.                                 *)
LEMMA JobKeeps ==
  ASSUME CoordTypeOK, TypeOK, RecordShape, NEW o \in Ops, Local(o), JobAction(o)
  PROVE  CoordTypeOK' /\ Local(o)'
BY RequestKeeps, ProvisionJobKeeps, EndJobKeeps, LeavingKeeps DEF JobAction, JobStep

(* An end has evidence that its session is gone only from the list of      *)
(* sessions, from the kill's acknowledgement, or from what it had recorded.*)
LEMMA EvidenceRead ==
  ASSUME CoordTypeOK, TypeOK, NEW o \in EndOps, EndShape(o), JobFact(o), JobAction(o), Evident(o)'
  PROVE  Evident(o) \/ up[sess[o]] # "resident"
<1>o. o \in Ops BY DEF Ops
<1>e. phase[o] \in EndPhases \cup {"none", "completed", "quarantined", "retired"} BY DEF EndShape
<1>p. phase[o] \notin ProvisionPhases BY <1>e DEF EndPhases, ProvisionPhases
<1> USE DEF TypeOK, CoordTypeOK, At, Goto, Finish, Keep, Consume, StopWaiting, Orphan, Release, upVars, Record, Fault, Continue,
      Ready, durable, Stage, storeVars, Evident
<1>1. CASE Request(o)
  BY <1>1, <1>o DEF Request, StartProvision, ResumeProvision, StartEnd, ResumeEnd, PrepareProvision, PrepareEnd,
      PrepareEndAgain
<1>2. CASE ProvisionJob(o)
  <2>1. CASE Prepared(o) \/ LeaveSettled(o) \/ LeaveOpen(o) \/ LeaveClosing(o) \/ MisjudgeCreate(o) \/ InvokeCreate(o)
    BY <2>1, <1>o DEF Prepared, LeaveSettled, LeaveOpen, LeaveClosing, MisjudgeCreate, InvokeCreate
  <2>2. CASE StartCreate(o) \/ AbandonCreate(o) \/ ObserveCreated(o) \/ StartPromote(o) \/ AbandonPromotion(o) \/ ObservePromoted(o)
    BY <2>2, <1>p DEF StartCreate, AbandonCreate, ObserveCreated, StartPromote, AbandonPromotion, ObservePromoted,
        BeginOwnedCreate, FailOwnedCreateBeforeEffect, ObserveOwnedCandidate, BeginPromotion,
        FailPromotionBeforeEffect, ObservePromotion, ProvisionPhases
  <2>3. CASE ObserveRefused(o) \/ CreateUnknown(o) \/ InvokePromote(o) \/ PromoteUnknown(o) \/ Promoted(o)
    BY <2>3, <1>o DEF ObserveRefused, CreateUnknown, InvokePromote, PromoteUnknown, Promoted
  <2>4. CASE SettleUnknown(o)
    <3>1. PICK k \in DOMAIN DispatchOf : phase[o] = DispatchOf[k] /\ from' = [from EXCEPT ![o] = phase[o]]
      BY <2>4 DEF SettleUnknown, QuarantineOutcomeUnknown
    <3>2. phase[o] \in {"owned_create_dispatching", "promotion_dispatching", "kill_dispatching"}
      BY <3>1 DEF DispatchOf
    <3> QED BY <2>4, <3>1, <3>2, <1>o DEF SettleUnknown, QuarantineOutcomeUnknown
  <2>5. CASE StartPublish(o) \/ Publish(o) \/ Commit(o) \/ LeaveUnpublished(o) \/ Committed(o)
    BY <2>5, <1>o DEF StartPublish, Publish, Commit, LeaveUnpublished, Committed, AcquireRecoveryLease,
        PublishLifecycleProjection, CommitProvision
  <2> QED BY ONLY ProvisionJob(o), <2>1, <2>2, <2>3, <2>4, <2>5 DEF ProvisionJob
<1>3. CASE EndJob(o)
  <2>1. CASE EndPrepared(o) \/ StartReconcile(o) \/ LeaveEnd(o) \/ StartKill(o) \/ AbandonKill(o) \/ MisjudgeKill(o)
    BY <2>1, <1>o DEF EndPrepared, StartReconcile, LeaveEnd, StartKill, AbandonKill, MisjudgeKill, BeginKill,
        FailKillBeforeEffect
  <2>2. CASE ListSession(o)
    BY <2>2, <1>o DEF ListSession, Live
  <2>3. CASE InvokeKill(o) BY <2>3, <1>o DEF InvokeKill, AuthorizeKill, Send
  <2>4. CASE AuthorizeAbsent(o) BY <2>4, <1>o DEF AuthorizeAbsent, AuthorizeKill
  <2>5. CASE Acknowledged(o) BY <2>5, <1>o DEF Acknowledged, AcknowledgeKill
  <2>6. CASE KillRejected(o) BY <2>6, <1>o DEF KillRejected, FailKillBeforeEffect
  <2>7. CASE KillUnknown(o)
    <3>1. PICK k \in DOMAIN DispatchOf : phase[o] = DispatchOf[k] /\ from' = [from EXCEPT ![o] = phase[o]]
      BY <2>7 DEF KillUnknown, QuarantineOutcomeUnknown
    <3>2. phase[o] \in {"owned_create_dispatching", "promotion_dispatching", "kill_dispatching"}
      BY <3>1 DEF DispatchOf
    <3> QED BY <2>7, <3>1, <3>2, <1>o DEF KillUnknown, QuarantineOutcomeUnknown
  <2>8. CASE Reconcile(o)
    BY <2>8, <1>o DEF Reconcile, Live
  <2>9. CASE LeaveUnreconciled(o) \/ CompleteReconciled(o) \/ Settled(o)
    BY <2>9, <1>o DEF LeaveUnreconciled, CompleteReconciled, Settled, CompleteQuarantinedEnd
  <2> QED BY ONLY EndJob(o), <2>1, <2>2, <2>3, <2>4, <2>5, <2>6, <2>7, <2>8, <2>9 DEF EndJob
<1>4. CASE StoreUnavailable(o) \/ ReleaseOnClose(o)
  BY <1>4, <1>o DEF StoreUnavailable, ReleaseOnClose
<1> QED BY ONLY JobAction(o), <1>1, <1>2, <1>3, <1>4 DEF JobAction, JobStep

(* The fence of a compacted session is for good.                           *)
LEMMA FenceStays ==
  ASSUME TypeOK, BindingStep, NEW s \in Sessions, bind[s].st = "retired"
  PROVE  bind'[s].st = "retired"
<1>1. ASSUME NEW o \in ProvisionOps, sess[o] \in Sessions, bind[sess[o]].st = "none",
             bind' = [bind EXCEPT ![sess[o]] = [st |-> "activating", op |-> o]]
      PROVE  bind'[s].st = "retired"
  BY <1>1 DEF TypeOK
<1>2. ASSUME NEW o \in ProvisionOps, sess[o] \in Sessions,
             bind[sess[o]] \in {[st |-> "activating", op |-> o], [st |-> "active", op |-> o]},
             bind' = [bind EXCEPT ![sess[o]] = [st |-> "active", op |-> o]]
      PROVE  bind'[s].st = "retired"
  BY <1>2 DEF TypeOK
<1>3. ASSUME NEW o \in EndOps, sess[o] \in Sessions, NEW b,
             bind[sess[o]].st = "active" \/ bind[sess[o]] \in {[st |-> "detached", op |-> o], [st |-> "completed", op |-> o]},
             bind' = [bind EXCEPT ![sess[o]] = b]
      PROVE  bind'[s].st = "retired"
  BY <1>3 DEF TypeOK
<1> QED BY <1>1, <1>2, <1>3 DEF BindingStep

LEMMA JobKeepsEnd ==
  ASSUME CoordTypeOK, StoreInvariant, NEW o \in EndOps, JobFact(o), JobFact(o)', GoneFact(o), RetiredFact(o), JobAction(o),
         StoreOwn(o), CoordOwn(o), BindingStep
  PROVE  GoneFact(o)' /\ RetiredFact(o)'
<1>o. o \in Ops BY DEF Ops
<1>t. TypeOK /\ EndShape(o) BY DEF StoreInvariant, DurableInvariant, RecordShape
<1>1. ASSUME Evident(o)' PROVE (up[sess[o]] # "resident")'
  <2>1. up[sess[o]] # "resident" BY <1>1, <1>t, EvidenceRead DEF GoneFact
  <2>2. Recorded(o)
    <3>1. \/ Stage(o)' \in {"kill_acknowledged", "completed"}
          \/ job'[o] \in {"kill_gone", "absent", "evidence", "killing"}
      BY <1>1 DEF Evident
    <3>2. Recorded(o)'
      BY <3>1 DEF Stage, Recorded, JobFact
    <3> QED BY <3>2 DEF StoreOwn
  <2>3. sess'[o] = sess[o] /\ sess[o] \in Sessions
    BY <2>2, <1>t DEF StoreOwn, EndShape, EndPhases
  <2> QED BY <2>1, <2>3 DEF CoordOwn
<1>2. ASSUME phase'[o] = "retired" PROVE sess'[o] \in Sessions /\ bind'[sess'[o]].st = "retired"
  <2>1. phase[o] = "retired" /\ sess'[o] = sess[o] BY <1>2 DEF StoreOwn
  <2> QED BY <2>1, <1>t, FenceStays DEF RetiredFact
<1> QED BY <1>1, <1>2 DEF GoneFact, RetiredFact

LEMMA JobsRun ==
  ASSUME ServeFact, NEW o \in Ops, JobAction(o)
  PROVE  mode \in {"up", "faulted"}
<1>1. At(o, "idle") /\ held[o] = NoSession => Ready
  <2> USE DEF At
  <2>1. CASE Request(o)
    BY <2>1 DEF Request, StartProvision, ResumeProvision, StartEnd, ResumeEnd, PrepareProvision, PrepareEnd, PrepareEndAgain
  <2>2. CASE ProvisionJob(o)
    BY <2>2 DEF ProvisionJob, Prepared, LeaveSettled, LeaveOpen, LeaveClosing, StartCreate, AbandonCreate, MisjudgeCreate,
        InvokeCreate, ObserveCreated, ObserveRefused, CreateUnknown, StartPromote, AbandonPromotion, InvokePromote, ObservePromoted,
        PromoteUnknown, Promoted, SettleUnknown, StartPublish, Publish, Commit, LeaveUnpublished, Committed
  <2>3. CASE EndJob(o)
    BY <2>3 DEF EndJob, EndPrepared, StartReconcile, LeaveEnd, StartKill, AbandonKill, MisjudgeKill, ListSession, InvokeKill,
        AuthorizeAbsent, Acknowledged, KillRejected, KillUnknown, Reconcile, LeaveUnreconciled, CompleteReconciled, Settled
  <2>4. CASE StoreUnavailable(o) \/ ReleaseOnClose(o)
    BY <2>4 DEF StoreUnavailable, ReleaseOnClose
  <2> QED BY <2>1, <2>2, <2>3, <2>4 DEF JobAction, JobStep
<1> QED BY <1>1 DEF ServeFact, Ready

LEMMA CommitIsCalled ==
  ASSUME NEW o \in Ops, JobAction(o), call' # call, call'.at = "committed"
  PROVE  Commit(o)
<1> USE DEF Continue, Return, Fault, Ready, Idle, storeVars
<1>1. CASE Request(o)
  BY <1>1 DEF Request, StartProvision, ResumeProvision, StartEnd, ResumeEnd, PrepareProvision, PrepareEnd, PrepareEndAgain
<1>2. CASE ProvisionJob(o)
  <2>1. CASE Prepared(o) \/ LeaveSettled(o) \/ LeaveOpen(o) \/ LeaveClosing(o) \/ StartCreate(o) \/ AbandonCreate(o)
          \/ MisjudgeCreate(o) \/ InvokeCreate(o) \/ ObserveCreated(o)
    BY <2>1 DEF Prepared, LeaveSettled, LeaveOpen, LeaveClosing, StartCreate, AbandonCreate, MisjudgeCreate,
        InvokeCreate, ObserveCreated, BeginOwnedCreate, FailOwnedCreateBeforeEffect, ObserveOwnedCandidate
  <2>2. CASE ObserveRefused(o) \/ CreateUnknown(o) \/ StartPromote(o) \/ AbandonPromotion(o) \/ InvokePromote(o)
          \/ ObservePromoted(o) \/ PromoteUnknown(o) \/ Promoted(o)
    BY <2>2 DEF ObserveRefused, CreateUnknown, StartPromote, AbandonPromotion, InvokePromote, ObservePromoted,
        PromoteUnknown, Promoted, BeginPromotion, FailPromotionBeforeEffect, ObservePromotion
  <2>3. CASE SettleUnknown(o) \/ StartPublish(o) \/ Publish(o) \/ LeaveUnpublished(o) \/ Committed(o)
    BY <2>3 DEF SettleUnknown, StartPublish, Publish, LeaveUnpublished, Committed, QuarantineOutcomeUnknown,
        AcquireRecoveryLease, PublishLifecycleProjection
  <2> QED BY <1>2, <2>1, <2>2, <2>3 DEF ProvisionJob
<1>3. CASE EndJob(o)
  BY <1>3 DEF EndJob, EndPrepared, StartReconcile, LeaveEnd, StartKill, AbandonKill, MisjudgeKill, ListSession, InvokeKill,
      AuthorizeAbsent, Acknowledged, KillRejected, KillUnknown, Reconcile, LeaveUnreconciled, CompleteReconciled, Settled,
      BeginKill, AuthorizeKill, FailKillBeforeEffect, AcknowledgeKill, QuarantineOutcomeUnknown, CompleteQuarantinedEnd
<1>4. CASE StoreUnavailable(o) \/ ReleaseOnClose(o)
  BY <1>4 DEF StoreUnavailable, ReleaseOnClose
<1> QED BY <1>1, <1>2, <1>3, <1>4 DEF JobAction, JobStep

(* Of the jobs, none that waits for its commit moves before it is made.    *)
LEMMA CommitterWaits ==
  ASSUME CallFacts, NEW o \in Ops, JobAction(o), call.op = o, call # Idle, job[o] = "committing"
  PROVE  FALSE
<1>m. mode = "up" /\ ~Ready BY DEF CallFacts, Ready
<1> USE DEF At, Returned, Serving
<1>1. CASE Request(o)
  BY <1>1 DEF Request, StartProvision, ResumeProvision, StartEnd, ResumeEnd
<1>2. CASE ProvisionJob(o)
  BY <1>2 DEF ProvisionJob, Prepared, LeaveSettled, LeaveOpen, LeaveClosing, StartCreate, AbandonCreate, MisjudgeCreate,
      InvokeCreate, ObserveCreated, ObserveRefused, CreateUnknown, StartPromote, AbandonPromotion, InvokePromote, ObservePromoted,
      PromoteUnknown, Promoted, SettleUnknown, StartPublish, Publish, Commit, LeaveUnpublished, Committed
<1>3. CASE EndJob(o)
  BY <1>3 DEF EndJob, EndPrepared, StartReconcile, LeaveEnd, StartKill, AbandonKill, MisjudgeKill, ListSession, InvokeKill,
      AuthorizeAbsent, Acknowledged, KillRejected, KillUnknown, Reconcile, LeaveUnreconciled, CompleteReconciled, Settled
<1>4. CASE StoreUnavailable(o) \/ ReleaseOnClose(o)
  BY <1>4, <1>m DEF StoreUnavailable, ReleaseOnClose
<1> QED BY <1>1, <1>2, <1>3, <1>4 DEF JobAction, JobStep

(* A commit under way has its job waiting for it.                          *)
LEMMA JobCommits ==
  ASSUME CoordTypeOK, CallFacts, ServeFact, NEW o \in Ops, JobAction(o), CoordOwn(o), call'.at = "committed"
  PROVE  job'[call'.op] = "committing"
<1>1. CASE call' # call
  <2>1. Commit(o) BY <1>1, CommitIsCalled
  <2>2. job' = [job EXCEPT ![o] = "committing"] /\ call' # call
    BY <1>1, <2>1 DEF Commit, Goto
  <2>3. call' = [op |-> o, at |-> "committed"] \/ call' = Idle
    BY <2>1 DEF Commit, CommitProvision, Continue, Fault, Return
  <2> QED BY <2>2, <2>3 DEF CoordTypeOK, Idle
<1>2. CASE call' = call
  <2>1. call.at = "committed" /\ job[call.op] = "committing" BY <1>2 DEF ServeFact
  <2>2. call # Idle /\ call.op \in Ops BY <2>1 DEF CallFacts, Idle
  <2>3. call.op # o BY <2>1, <2>2, CommitterWaits
  <2> QED BY <2>1, <2>2, <2>3, <1>2 DEF CoordOwn
<1> QED BY <1>1, <1>2

LEMMA EvidentIsRecorded ==
  ASSUME StoreInvariant, NEW e \in EndOps, JobFact(e), Evident(e)
  PROVE  Recorded(e) /\ sess[e] \in Sessions
<1>1. EndShape(e) BY DEF StoreInvariant, DurableInvariant, RecordShape
<1>2. Recorded(e) BY DEF Evident, JobFact, Recorded, Stage
<1> QED BY <1>1, <1>2 DEF EndShape

(* What a job does leaves the facts of every other operation alone.        *)
LEMMA OthersKeep ==
  ASSUME NEW o \in Ops, NEW q \in Ops \ {o}, Local(q), StoreOwn(o), CoordOwn(o)
  PROVE  Local(q)'
<1>1. /\ job'[q] = job[q] /\ held'[q] = held[q] /\ req'[q] = req[q] /\ effects'[q] = effects[q]
      /\ phase'[q] = phase[q] /\ from'[q] = from[q] /\ sess'[q] = sess[q]
      /\ mode' = "up" => mode = "up"
  BY DEF StoreOwn, CoordOwn
<1>2. JobFact(q)' BY <1>1 DEF Local, JobFact, Recorded, Stage
<1>3. HeldFact(q)' BY <1>1 DEF Local, HeldFact
<1>4. EffectFact(q)' BY <1>1 DEF Local, EffectFact, Stage
<1>5. RequestFact(q)' BY <1>1 DEF Local, RequestFact, Recorded, Stage
<1> QED BY <1>2, <1>3, <1>4, <1>5 DEF Local

LEMMA OthersKeepEnd ==
  ASSUME StoreInvariant, NEW o \in Ops, NEW q \in EndOps \ {o}, JobFact(q), GoneFact(q), RetiredFact(q),
         StoreOwn(o), CoordOwn(o), BindingStep
  PROVE  GoneFact(q)' /\ RetiredFact(q)'
<1>1. /\ job'[q] = job[q] /\ req'[q] = req[q]
      /\ phase'[q] = phase[q] /\ from'[q] = from[q] /\ sess'[q] = sess[q]
  BY DEF StoreOwn, CoordOwn, Ops
<1>2. ASSUME Evident(q)' PROVE (up[sess[q]] # "resident")'
  <2>1. Evident(q) BY <1>1, <1>2 DEF Evident, Stage
  <2>2. sess[q] \in Sessions /\ up[sess[q]] # "resident" BY <2>1, EvidentIsRecorded DEF GoneFact
  <2> QED BY <1>1, <2>2 DEF CoordOwn
<1>3. RetiredFact(q)'
  BY <1>1, FenceStays DEF RetiredFact, StoreInvariant
<1> QED BY <1>2, <1>3 DEF GoneFact

LEMMA JobKeepsTracked ==
  ASSUME StoreInvariant, NEW o \in Ops, StoreOwn(o), CoordOwn(o), NEW s \in Sessions, TrackedFact(s)
  PROVE  TrackedFact(s)'
<1>1. ASSUME up'[s] = "resident" PROVE \E p \in ProvisionOps : Recorded(p)' /\ sess'[p] = s
  <2>1. PICK p \in ProvisionOps : Recorded(p) /\ sess[p] = s
    BY <1>1 DEF CoordOwn, TrackedFact
  <2>2. phase[p] # "owned_create_dispatching"
    <3>1. ProvisionShape(p) BY DEF StoreInvariant, DurableInvariant, RecordShape
    <3> QED BY <2>1, <3>1, OpsAssumption DEF ProvisionShape, Stage, EarlyStages
  <2>3. p \in Ops BY DEF Ops
  <2> QED BY <2>1, <2>2, <2>3 DEF StoreOwn, Recorded
<1>2. ASSUME bind'[s].st = "retired" PROVE up'[s] # "resident"
  BY <1>2 DEF StoreOwn, CoordOwn, TrackedFact
<1> QED BY <1>1, <1>2 DEF TrackedFact

LEMMA JobStepKeeps ==
  ASSUME StoreInvariant, LifecycleInvariant, NEW o \in Ops, JobAction(o)
  PROVE  LifecycleInvariant'
<1>1. /\ CoordTypeOK /\ TypeOK /\ RecordShape /\ CallFacts /\ ServeFact
      /\ \A q \in Ops : Local(q)
      /\ \A e \in EndOps : GoneFact(e) /\ RetiredFact(e)
      /\ \A s \in Sessions : TrackedFact(s)
  BY DEF StoreInvariant, DurableInvariant, LifecycleInvariant, Local
<1>2. StoreOwn(o) /\ CoordOwn(o)
  BY <1>1, JobStoreAction, StoreOwnKept, StoreActionOwn, JobOwn
<1>3. BindingStep
  <2>1. [StoreNext]_storeVars BY JobStoreAction DEF StoreAction, StoreNext
  <2> QED BY <2>1, StepIsBindingStep
<1>4. CoordTypeOK' /\ Local(o)' BY <1>1, JobKeeps
<1>5. \A q \in Ops : Local(q)'
  BY <1>1, <1>2, <1>4, OthersKeep
<1>6. \A e \in EndOps : GoneFact(e)' /\ RetiredFact(e)'
  <2>1. ASSUME NEW e \in EndOps PROVE GoneFact(e)' /\ RetiredFact(e)'
    <3>1. e \in Ops /\ JobFact(e) /\ JobFact(e)' BY <1>1, <1>5 DEF Ops, Local
    <3>2. CASE e = o BY <1>1, <1>2, <1>3, <3>1, <3>2, JobKeepsEnd
    <3>3. CASE e # o
      <4>1. e \in EndOps \ {o} BY <3>3
      <4> QED BY <1>1, <1>2, <1>3, <3>1, <4>1, OthersKeepEnd
    <3> QED BY <3>2, <3>3
  <2> QED BY <2>1
<1>7. \A s \in Sessions : TrackedFact(s)' BY <1>1, <1>2, JobKeepsTracked
<1>8. ServeFact'
  <2>1. mode' \in {"up", "faulted"} BY <1>1, <1>2, JobsRun DEF StoreOwn
  <2>2. call'.at = "committed" => job'[call'.op] = "committing" BY <1>1, <1>2, JobCommits
  <2> QED BY <2>1, <2>2 DEF ServeFact
<1> QED BY <1>4, <1>5, <1>6, <1>7, <1>8 DEF LifecycleInvariant, Local

(* The ways in which the Store's own steps move a record on.               *)
Compacted(q) ==
    /\ q \in EndOps => sess[q] \in Sessions /\ bind'[sess[q]].st = "retired"
    /\ q \in ProvisionOps => phase[q] = "completed" \/ \E g \in EndOps : phase[g] = "completed" /\ sess[g] = sess[q]

RecordMove(q) ==
    \/ phase'[q] = phase[q] /\ from'[q] = from[q] /\ sess'[q] = sess[q]
    \/ /\ phase[q] = "none" /\ sess'[q] \in Sessions /\ phase'[q] = "ending" /\ q \in EndOps
       /\ from'[q] = from[q]
    \/ /\ from'[q] = from[q] /\ sess'[q] = sess[q]
       /\ \/ phase[q] = "none" /\ phase'[q] = "prepared"
          \/ phase[q] \in PostPromotion /\ phase'[q] = "projection_committed"
          \/ /\ phase[q] = "projection_committed" /\ phase'[q] = "committed"
             /\ mode = "after" \/ (call.at = "committed" /\ call.op = q)
          \/ phase[q] \in {"kill_acknowledged", "completed"} /\ phase'[q] = "completed" /\ q \in EndOps
          \/ phase[q] \in {"committed", "completed"} /\ phase'[q] = "retired" /\ Compacted(q)
    \/ /\ phase[q] \notin {"none", "retired", "quarantined"} /\ phase'[q] = "quarantined"
       /\ from'[q] = phase[q] /\ sess'[q] = sess[q] /\ mode = "before"

LEMMA CallMoves ==
  ASSUME StoreInvariant, NEW o \in Ops, CallStep(o), NEW q \in Ops
  PROVE  RecordMove(q)
<1>t. TypeOK /\ CallFacts /\ DurableInvariant BY DEF StoreInvariant
<1>c. call.op = o /\ CallFact(o)
  BY <1>t DEF CallStep, CallFacts, RetireTerminalGroup, RefuseRegistryFull, WritePrepared, WriteActivating,
      WriteProjectionCommitted, WriteCommitted, WriteEnding, WriteDetached, WriteEnded, WriteBindingCompleted,
      WriteCompleted, Writing
<1> USE DEF Record, Writing, RecordMove, durable, TypeOK
<1>1. CASE RetireTerminalGroup(o)
  <2>1. CASE UNCHANGED phase BY <1>1, <2>1 DEF RetireTerminalGroup
  <2>2. CASE ~UNCHANGED phase
    <3>1. PICK g \in Retirable(o) :
            /\ phase' = [p \in Ops |-> IF p \in TerminalGroup(g) THEN "retired" ELSE phase[p]]
            /\ bind' = [s \in Sessions |->
                    IF g \in EndOps /\ s = sess[g] THEN [st |-> "retired", op |-> NoOp] ELSE bind[s]]
      BY <1>1, <2>2 DEF RetireTerminalGroup
    <3>2. g \in Ops /\ phase[g] = "completed" BY <3>1 DEF Retirable, TerminalGroupHead
    <3>3. UNCHANGED <<from, sess>> BY <1>1 DEF RetireTerminalGroup
    <3>4. CASE q \notin TerminalGroup(g) BY <3>1, <3>3, <3>4
    <3>5. CASE q \in TerminalGroup(g)
      <4>1. phase'[q] = "retired" BY <3>1, <3>5
      <4>2. phase[q] \in {"committed", "completed"} BY <3>2, <3>5 DEF TerminalGroup
      <4>3. q \in ProvisionOps => phase[q] = "completed" \/ \E h \in EndOps : phase[h] = "completed" /\ sess[h] = sess[q]
        BY <3>2, <3>5 DEF TerminalGroup
      <4>4. ASSUME q \in EndOps PROVE sess[q] \in Sessions /\ bind'[sess[q]].st = "retired"
        <5>1. q = g BY <3>5, <4>4, OpsAssumption DEF TerminalGroup
        <5>2. sess[q] \in Sessions
          BY <4>2, <4>4, SessionOfRecord DEF Recorded
        <5> QED BY <3>1, <4>4, <5>1, <5>2
      <4> QED BY <3>3, <4>1, <4>2, <4>3, <4>4 DEF Compacted
    <3> QED BY <3>4, <3>5
  <2> QED BY <2>1, <2>2
<1>2. CASE RefuseRegistryFull(o) BY <1>2 DEF RefuseRegistryFull
<1>3. CASE WritePrepared(o) BY <1>3, <1>c DEF WritePrepared, CallFact
<1>4. CASE WriteActivating(o) BY <1>4 DEF WriteActivating
<1>5. CASE WriteProjectionCommitted(o) BY <1>5, <1>c DEF WriteProjectionCommitted, CallFact
<1>6. CASE WriteCommitted(o) BY <1>6, <1>c DEF WriteCommitted, CallFact
<1>7. CASE WriteEnding(o)
  <2>1. PICK s \in Sessions : sess' = [sess EXCEPT ![o] = s] BY <1>7 DEF WriteEnding, ActiveOn
  <2>2. phase[o] = "none" /\ o \in EndOps /\ phase' = [phase EXCEPT ![o] = "ending"] /\ UNCHANGED from
    BY <1>7, <1>c DEF WriteEnding, CallFact
  <2>3. CASE q = o
    <3>1. phase[q] = "none" /\ sess'[q] \in Sessions /\ phase'[q] = "ending" /\ q \in EndOps /\ from'[q] = from[q]
      BY <1>t, <2>1, <2>2, <2>3
    <3> QED BY <3>1
  <2>4. CASE q # o
    <3>1. phase'[q] = phase[q] /\ from'[q] = from[q] /\ sess'[q] = sess[q]
      BY <1>t, <2>1, <2>2, <2>4
    <3> QED BY <3>1
  <2> QED BY <2>3, <2>4
<1>8. CASE WriteDetached(o) BY <1>8 DEF WriteDetached
<1>9. CASE WriteEnded(o) BY <1>9 DEF WriteEnded
<1>10. CASE WriteBindingCompleted(o) BY <1>10 DEF WriteBindingCompleted
<1>11. CASE WriteCompleted(o)
  <2>1. phase[o] = "kill_acknowledged" BY <1>11, <1>c DEF WriteCompleted, CallFact
  <2>2. o \in EndOps BY <2>1, <1>t, KindOfRecord DEF EndPhases
  <2> QED BY <1>11, <2>1, <2>2 DEF WriteCompleted
<1> QED BY ONLY CallStep(o), <1>1, <1>2, <1>3, <1>4, <1>5, <1>6, <1>7, <1>8, <1>9, <1>10, <1>11 DEF CallStep

LEMMA RecoveryMoves ==
  ASSUME StoreInvariant, NEW o \in Ops, RecoveryStep(o), NEW q \in Ops
  PROVE  RecordMove(q) /\ mode \in {"before", "after"}
<1>t. TypeOK BY DEF StoreInvariant
<1> USE DEF Record, Quarantine, Recovering, RecordMove, durable, TypeOK
<1>1. CASE RecoverInterrupted(o)
  BY <1>1, <1>t DEF RecoverInterrupted, Interrupted, DispatchPhases
<1>2. CASE RecoverRevocation(o) BY <1>2 DEF RecoverRevocation
<1>3. CASE RecoverAuthority(o) BY <1>3, <1>t DEF RecoverAuthority, AuthorityChanged, Nonterminal, Recorded
<1>4. CASE \E stage \in {"before", "after"} : RecoverActivating(stage, o) BY <1>4 DEF RecoverActivating
<1>5. CASE RecoverCommit(o) BY <1>5, <1>t DEF RecoverCommit, CommitInterrupted
<1>6. CASE RecoverEnded(o) BY <1>6 DEF RecoverEnded
<1>7. CASE RecoverBindingCompleted(o) BY <1>7 DEF RecoverBindingCompleted
<1>8. CASE RecoverCompleted(o) BY <1>8, <1>t DEF RecoverCompleted, EndUnfinished
<1>9. CASE RecoverNothing(o) BY <1>9 DEF RecoverNothing
<1> QED BY ONLY RecoveryStep(o), <1>1, <1>2, <1>3, <1>4, <1>5, <1>6, <1>7, <1>8, <1>9 DEF RecoveryStep

(* How the Store's life goes on, and which call a step leaves.             *)
StoreGoesOn ==
    /\ mode' = "up" => mode \in {"up", "after"}
    /\ mode' \notin {"up", "faulted"} => mode \notin {"up", "faulted"}
    /\ call'.at = "committed" => call' = call

LEMMA StoreSteps ==
  ASSUME StoreInvariant, StoreStep
  PROVE  StoreGoesOn /\ \A q \in Ops : RecordMove(q)
<1> USE DEF StoreGoesOn
<1>1. ASSUME NEW o \in Ops, CallStep(o) PROVE StoreGoesOn /\ \A q \in Ops : RecordMove(q)
  <2>1. StoreGoesOn
    BY <1>1 DEF CallStep, RetireTerminalGroup, RefuseRegistryFull, WritePrepared, WriteActivating,
      WriteProjectionCommitted, WriteCommitted, WriteEnding, WriteDetached, WriteEnded, WriteBindingCompleted,
      WriteCompleted, Writing, Fault, Return, Continue, Idle
  <2> QED BY <1>1, <2>1, CallMoves
<1>2. ASSUME NEW o \in Ops, RecoveryStep(o) PROVE StoreGoesOn /\ \A q \in Ops : RecordMove(q)
  <2>1. StoreGoesOn
    BY <1>2 DEF RecoveryStep, RecoverInterrupted, RecoverRevocation, RecoverAuthority, RecoverActivating, RecoverCommit,
      RecoverEnded, RecoverBindingCompleted, RecoverCompleted, RecoverNothing, Recovering
  <2> QED BY <1>2, <2>1, RecoveryMoves
<1>3. CASE StoreFault \/ Boot \/ FinishBefore \/ FinishAfter \/ \E t \in Threads : WorkspaceChange(t)
  BY <1>3 DEF StoreFault, Boot, FinishBefore, FinishAfter, WorkspaceChange, durable, Fault, Return, Idle, RecordMove
<1> QED BY <1>1, <1>2, <1>3 DEF StoreStep

(* The facts of an operation survive what the Store does on its own.       *)
LEMMA StoreKeepsLocal ==
  ASSUME StoreInvariant, ServeFact, NEW q \in Ops, Local(q), RecordMove(q), StoreGoesOn, UNCHANGED <<coordVars, upVars>>
  PROVE  Local(q)'
<1>1. UNCHANGED <<job, held, req, effects, up>> BY DEF coordVars, upVars
<1>2. mode \in {"before", "after"} => job[q] = "idle" /\ held[q] = NoSession BY DEF ServeFact, At
<1>3. call.at = "committed" /\ call.op = q => job[q] = "committing" BY DEF ServeFact
<1>4. phase[q] \in ProvisionPhases => q \in ProvisionOps BY KindOfRecord DEF StoreInvariant
<1> USE DEF Local, RecordMove, Stage, Recorded, PostPromotion
<1>5. JobFact(q)' BY <1>1, <1>2, <1>3 DEF JobFact
<1>6. HeldFact(q)'
  <2>1. mode' = "up" => mode = "up" \/ held[q] = NoSession BY <1>2 DEF StoreGoesOn
  <2> QED BY <1>1, <1>2, <1>3, <2>1, OpsAssumption DEF HeldFact, Resting
<1>7. EffectFact(q)' BY <1>1 DEF EffectFact, BeforeCreate, BeforePromote, BeforeKill
<1>8. RequestFact(q)' BY <1>1 DEF RequestFact
<1> QED BY <1>5, <1>6, <1>7, <1>8

LEMMA StoreKeepsEnd ==
  ASSUME StoreInvariant, ServeFact, NEW q \in EndOps, JobFact(q), GoneFact(q), RetiredFact(q), RecordMove(q), BindingStep,
         UNCHANGED <<coordVars, upVars>>
  PROVE  GoneFact(q)' /\ RetiredFact(q)'
<1>1. UNCHANGED <<job, req, up>> BY DEF coordVars, upVars
<1>2. q \in Ops /\ q \notin ProvisionOps BY OpsAssumption DEF Ops
<1>3. phase[q] \notin {"projection_committed", "promoted_observed", "committed"}
  BY <1>2, KindOfRecord DEF StoreInvariant, ProvisionPhases
<1>4. ASSUME Evident(q)' PROVE Evident(q) /\ sess'[q] = sess[q]
  BY <1>1, <1>3, <1>4 DEF Evident, RecordMove, Stage, JobFact, PostPromotion, Recorded
<1>5. RetiredFact(q)'
  <2>1. ASSUME phase'[q] = "retired" PROVE sess'[q] \in Sessions /\ bind'[sess'[q]].st = "retired"
    <3>1. sess'[q] = sess[q] BY <2>1 DEF RecordMove
    <3>2. CASE phase[q] = "retired" BY <3>1, <3>2, FenceStays DEF RetiredFact, StoreInvariant
    <3>3. CASE phase[q] # "retired" BY <2>1, <3>1, <3>3, <1>2 DEF RecordMove, Compacted
    <3> QED BY <3>2, <3>3
  <2> QED BY <2>1 DEF RetiredFact
<1> QED BY <1>1, <1>4, <1>5 DEF GoneFact

(* Only a completed end puts its session behind the fence.                 *)
LEMMA FenceWritten ==
  ASSUME StoreInvariant, BindingStep, NEW s \in Sessions, bind'[s].st = "retired", bind[s].st # "retired"
  PROVE  \E o \in EndOps : sess[o] = s /\ Stage(o) \in {"kill_acknowledged", "completed"}
<1>t. TypeOK BY DEF StoreInvariant
<1>1. \E o \in EndOps : sess[o] = s /\ bind[s] = [st |-> "completed", op |-> o]
  <2>1. ASSUME NEW r, NEW b, b.st # "retired", bind' = [bind EXCEPT ![r] = b] PROVE FALSE
    BY <1>t, <2>1 DEF TypeOK
  <2>2. ~UNCHANGED bind OBVIOUS
  <2>3. ASSUME NEW o \in ProvisionOps, bind' = [bind EXCEPT ![sess[o]] = [st |-> "activating", op |-> o]] PROVE FALSE
    BY <2>1, <2>3
  <2>4. ASSUME NEW o \in ProvisionOps, bind' = [bind EXCEPT ![sess[o]] = [st |-> "active", op |-> o]] PROVE FALSE
    BY <2>1, <2>4
  <2>5. ASSUME NEW o \in EndOps, bind' = [bind EXCEPT ![sess[o]] = [st |-> "detached", op |-> o]] PROVE FALSE
    BY <2>1, <2>5
  <2>6. ASSUME NEW o \in EndOps, bind' = [bind EXCEPT ![sess[o]] = [st |-> "completed", op |-> o]] PROVE FALSE
    BY <2>1, <2>6
  <2>7. ASSUME NEW o \in EndOps, bind[sess[o]] = [st |-> "completed", op |-> o],
               bind' = [bind EXCEPT ![sess[o]] = [st |-> "retired", op |-> NoOp]]
        PROVE  sess[o] = s /\ bind[s] = [st |-> "completed", op |-> o]
    BY <1>t, <2>7 DEF TypeOK
  <2> QED BY <2>2, <2>3, <2>4, <2>5, <2>6, <2>7 DEF BindingStep
<1>2. PICK o \in EndOps : sess[o] = s /\ bind[s] = [st |-> "completed", op |-> o] BY <1>1
<1>3. BindingFact(s) BY DEF StoreInvariant, DurableInvariant, BindingFacts
<1>4. bind[s].st = "completed" /\ bind[s].op = o BY <1>2
<1> QED BY <1>2, <1>3, <1>4 DEF BindingFact

LEMMA StoreKeepsTracked ==
  ASSUME StoreInvariant, NEW s \in Sessions, TrackedFact(s), \A e \in EndOps : GoneFact(e), \A e \in EndOps : RetiredFact(e),
         \A q \in Ops : RecordMove(q), BindingStep, UNCHANGED <<coordVars, upVars>>
  PROVE  TrackedFact(s)'
<1>1. UNCHANGED up BY DEF upVars
<1>2. ASSUME up[s] = "resident" PROVE \E p \in ProvisionOps : Recorded(p)' /\ sess'[p] = s
  <2>1. PICK p \in ProvisionOps : Recorded(p) /\ sess[p] = s BY <1>2 DEF TrackedFact
  <2>2. p \in Ops /\ RecordMove(p) BY DEF Ops
  <2>3. ~Compacted(p) \/ phase'[p] # "retired"
    <3>1. SUFFICES ASSUME phase[p] = "completed" \/ \E g \in EndOps : phase[g] = "completed" /\ sess[g] = sess[p]
                   PROVE  FALSE
      BY DEF Compacted
    <3>2. phase[p] # "completed"
      <4>1. ProvisionShape(p) BY DEF StoreInvariant, DurableInvariant, RecordShape
      <4> QED BY <2>1, <4>1, OpsAssumption DEF ProvisionShape, Stage, EarlyStages
    <3>3. ASSUME NEW g \in EndOps, phase[g] = "completed", sess[g] = sess[p] PROVE FALSE
      BY <1>2, <2>1, <3>3 DEF GoneFact, Evident, Stage
    <3> QED BY <3>1, <3>2, <3>3
  <2>4. p \notin EndOps BY OpsAssumption
  <2> QED BY <2>1, <2>2, <2>3, <2>4 DEF RecordMove, Recorded
<1>3. ASSUME bind'[s].st = "retired" PROVE up[s] # "resident"
  <2>1. CASE bind[s].st = "retired" BY <2>1 DEF TrackedFact
  <2>2. CASE bind[s].st # "retired" BY <1>3, <2>2, FenceWritten DEF GoneFact, Evident
  <2> QED BY <2>1, <2>2
<1> QED BY <1>1, <1>2, <1>3 DEF TrackedFact

LEMMA StoreStepKeeps ==
  ASSUME StoreInvariant, LifecycleInvariant, StoreStep, UNCHANGED <<coordVars, upVars>>
  PROVE  LifecycleInvariant'
<1>1. /\ CoordTypeOK /\ ServeFact
      /\ \A q \in Ops : Local(q)
      /\ \A e \in EndOps : GoneFact(e) /\ RetiredFact(e)
      /\ \A s \in Sessions : TrackedFact(s)
  BY DEF LifecycleInvariant, Local
<1>2. StoreGoesOn /\ \A q \in Ops : RecordMove(q) BY StoreSteps
<1>3. BindingStep
  <2>1. [StoreNext]_storeVars BY DEF StoreStep, StoreNext
  <2> QED BY <2>1, StepIsBindingStep
<1>4. CoordTypeOK' BY <1>1 DEF CoordTypeOK, coordVars, upVars
<1>5. \A q \in Ops : Local(q)' BY <1>1, <1>2, StoreKeepsLocal
<1>6. \A e \in EndOps : GoneFact(e)' /\ RetiredFact(e)'
  <2>1. ASSUME NEW e \in EndOps PROVE e \in Ops /\ JobFact(e) BY <2>1, <1>1 DEF Ops, Local
  <2> QED BY <2>1, <1>1, <1>2, <1>3, StoreKeepsEnd
<1>7. \A s \in Sessions : TrackedFact(s)' BY <1>1, <1>2, <1>3, StoreKeepsTracked
<1>8. ServeFact' BY <1>1, <1>2 DEF ServeFact, StoreGoesOn, coordVars, At
<1> QED BY <1>4, <1>5, <1>6, <1>7, <1>8 DEF LifecycleInvariant, Local

(* A promotion lands on a session nobody has ended.                        *)
LEMMA PromotionLands ==
  ASSUME StoreInvariant, LifecycleInvariant, NEW o \in Ops, req[o] = "promote"
  PROVE  /\ o \in ProvisionOps /\ Recorded(o) /\ sess[o] \in Sessions
         /\ bind[sess[o]].st # "retired"
         /\ \A e \in EndOps : sess[e] = sess[o] => ~Evident(e)
<1>1. Recorded(o) /\ Stage(o) = "promotion_dispatching" BY DEF LifecycleInvariant, RequestFact
<1>2. o \in ProvisionOps
  BY <1>1, OpsAssumption DEF StoreInvariant, DurableInvariant, RecordShape, EndShape, Stage, Recorded, EndPhases, Ops
<1>3. sess[o] \in Sessions
  BY <1>1, <1>2 DEF StoreInvariant, DurableInvariant, RecordShape, ProvisionShape, CandidateStages
<1>4. bind[sess[o]].st = "none"
  BY <1>1, <1>2 DEF StoreInvariant, DurableInvariant, RecordFacts, ProvisionFact, CandidateStages
<1>5. ASSUME NEW e \in EndOps, sess[e] = sess[o], Evident(e) PROVE FALSE
  <2>1. Recorded(e) BY <1>5, EvidentIsRecorded DEF LifecycleInvariant, Ops
  <2>2. e \in Ops /\ e # o BY <1>2, OpsAssumption DEF Ops
  <2>3. SessionShared BY DEF StoreInvariant, DurableInvariant
  <2>4. phase[o] = "committed" BY <1>1, <1>2, <1>3, <1>5, <2>1, <2>2, <2>3 DEF SessionShared
  <2> QED BY <1>1, <2>4 DEF Stage
<1> QED BY <1>1, <1>2, <1>3, <1>4, <1>5

(* What the daemon does to sessions and to the requests on their way.      *)
DaemonMove ==
    /\ \A q \in Ops : req'[q] = req[q] \/ req'[q] \notin Mutations
    /\ \A s \in Sessions : up'[s] = "resident" => up[s] = "resident" \/ \E o \in Ops : req[o] = "promote" /\ s = sess[o]
    /\ \A q \in Ops : job[q] = "killing" /\ req'[q] = "done" /\ req[q] # "done" /\ sess[q] \in Sessions =>
          up'[sess[q]] = "gone"

LEMMA DaemonMoves ==
  ASSUME CoordTypeOK, Daemon
  PROVE  CoordTypeOK' /\ UNCHANGED effects /\ DaemonMove
<1> USE DEF CoordTypeOK, DaemonMove, Answer, Consume, At, Mutations, coordVars
<1>1. ASSUME NEW o \in Ops, NEW s \in Sessions, LandCreate(o, s)
      PROVE  CoordTypeOK' /\ UNCHANGED effects /\ DaemonMove
  BY <1>1 DEF LandCreate
<1>2. ASSUME NEW o \in Ops, LandPromote(o) PROVE CoordTypeOK' /\ UNCHANGED effects /\ DaemonMove
  BY <1>2 DEF LandPromote
<1>3. ASSUME NEW o \in Ops, LandKill(o) PROVE CoordTypeOK' /\ UNCHANGED effects /\ DaemonMove
  BY <1>3 DEF LandKill
<1>4. ASSUME NEW o \in Ops, RejectKill(o) \/ LoseRequest(o) PROVE CoordTypeOK' /\ UNCHANGED effects /\ DaemonMove
  BY <1>4 DEF RejectKill, LoseRequest
<1>5. ASSUME NEW s \in Sessions, OwnerCleanup(s) \/ Passivate(s) PROVE CoordTypeOK' /\ UNCHANGED effects /\ DaemonMove
  BY <1>5 DEF OwnerCleanup, Passivate
<1> QED BY ONLY Daemon, <1>1, <1>2, <1>3, <1>4, <1>5 DEF Daemon
-------------------------------------------------------------------------
LEMMA DaemonKeeps ==
  ASSUME StoreInvariant, LifecycleInvariant, Daemon
  PROVE  LifecycleInvariant'
<1>1. CoordTypeOK' /\ UNCHANGED effects /\ DaemonMove BY DaemonMoves DEF LifecycleInvariant
<1>2. UNCHANGED <<job, held, phase, from, sess, bind, mode, call>>
  BY DaemonKeepsStore DEF coordVars, storeVars
<1>3. ASSUME NEW q \in Ops PROVE JobFact(q)' /\ HeldFact(q)' /\ EffectFact(q)' /\ RequestFact(q)'
  <2>1. JobFact(q) /\ HeldFact(q) /\ EffectFact(q) /\ RequestFact(q) BY DEF LifecycleInvariant
  <2>2. JobFact(q)' BY <1>2, <2>1 DEF JobFact, Recorded, Stage
  <2>3. HeldFact(q)' BY <1>2, <2>1 DEF HeldFact
  <2>4. EffectFact(q)' BY <1>1, <1>2, <2>1 DEF EffectFact, Stage
  <2>5. RequestFact(q)' BY <1>1, <1>2, <2>1 DEF RequestFact, DaemonMove, Recorded, Stage, Mutations
  <2> QED BY <2>2, <2>3, <2>4, <2>5
<1>4. ASSUME NEW e \in EndOps PROVE GoneFact(e)' /\ RetiredFact(e)'
  <2>1. e \in Ops /\ JobFact(e) /\ GoneFact(e) /\ RetiredFact(e) BY DEF LifecycleInvariant, Ops
  <2>2. RetiredFact(e)' BY <1>2, <2>1 DEF RetiredFact
  <2>3. CASE Evident(e)
    <3>1. up[sess[e]] # "resident" /\ sess[e] \in Sessions BY <2>1, <2>3, EvidentIsRecorded DEF GoneFact
    <3>2. \A o \in Ops : req[o] = "promote" => sess[o] # sess[e] BY <2>3, PromotionLands
    <3> QED BY <1>1, <1>2, <2>2, <3>1, <3>2 DEF DaemonMove, GoneFact
  <2>4. CASE Evident(e)' /\ ~Evident(e)
    <3>1. job[e] = "killing" /\ req'[e] = "done" /\ req[e] # "done" BY <1>2, <2>4 DEF Evident, Stage
    <3>2. sess[e] \in Sessions
      BY <2>1, <3>1 DEF JobFact, StoreInvariant, DurableInvariant, RecordShape, EndShape, Recorded
    <3> QED BY <1>1, <1>2, <2>1, <2>2, <3>1, <3>2 DEF DaemonMove, GoneFact
  <2> QED BY <2>2, <2>3, <2>4 DEF GoneFact
<1>5. ASSUME NEW s \in Sessions PROVE TrackedFact(s)'
  <2>1. TrackedFact(s) BY DEF LifecycleInvariant
  <2>2. CASE up'[s] = "resident" /\ up[s] # "resident"
    <3>1. PICK o \in Ops : req[o] = "promote" /\ s = sess[o] BY <1>1, <2>2 DEF DaemonMove
    <3>2. o \in ProvisionOps /\ Recorded(o) /\ bind[s].st # "retired" BY <3>1, PromotionLands
    <3> QED BY <1>2, <3>1, <3>2 DEF TrackedFact, Recorded
  <2>3. CASE ~(up'[s] = "resident" /\ up[s] # "resident")
    BY <1>2, <2>1, <2>3 DEF TrackedFact, Recorded
  <2> QED BY <2>2, <2>3
<1>6. ServeFact' BY <1>2 DEF ServeFact, LifecycleInvariant, At
<1> QED BY <1>1, <1>3, <1>4, <1>5, <1>6 DEF LifecycleInvariant

LEMMA CrashKeeps ==
  ASSUME StoreInvariant, LifecycleInvariant, ProcessCrash
  PROVE  LifecycleInvariant'
<1>1. /\ CoordTypeOK /\ \A q \in Ops : JobFact(q) /\ HeldFact(q) /\ EffectFact(q) /\ RequestFact(q)
      /\ \A e \in EndOps : GoneFact(e) /\ RetiredFact(e)
      /\ \A s \in Sessions : TrackedFact(s)
  BY DEF LifecycleInvariant
<1>2. /\ UNCHANGED <<phase, from, sess, bind, owner, effects>> /\ mode' = "down" /\ call' = Idle
      /\ job' = [o \in Ops |-> "idle"] /\ held' = [o \in Ops |-> NoSession] /\ closing' = FALSE
      /\ up' = [s \in Sessions |-> IF s \in Sessions /\ up[s] = "owned" THEN "orphaned" ELSE up[s]]
      /\ req' = [o \in Ops |-> IF req[o] \in Mutations THEN req[o] ELSE "none"]
  BY DEF ProcessCrash, Crash, durable, Return, Orphan
<1>3. CoordTypeOK' BY <1>1, <1>2 DEF CoordTypeOK
<1>4. ASSUME NEW q \in Ops PROVE JobFact(q)' /\ HeldFact(q)' /\ EffectFact(q)' /\ RequestFact(q)'
  <2>1. JobFact(q)' /\ HeldFact(q)' BY <1>2 DEF JobFact, HeldFact, EndPlaces
  <2>2. EffectFact(q)' BY <1>1, <1>2 DEF EffectFact, Stage
  <2>3. RequestFact(q)' BY <1>1, <1>2 DEF RequestFact, Stage, Recorded, Mutations
  <2> QED BY <2>1, <2>2, <2>3
<1>5. ASSUME NEW e \in EndOps PROVE GoneFact(e)' /\ RetiredFact(e)'
  <2>1. Evident(e)' => Evident(e) BY <1>2 DEF Evident, Stage, Ops
  <2>2. Evident(e) => sess[e] \in Sessions BY <1>1, EvidentIsRecorded DEF Ops
  <2> QED BY <1>1, <1>2, <2>1, <2>2 DEF GoneFact, RetiredFact
<1>6. ASSUME NEW s \in Sessions PROVE TrackedFact(s)' BY <1>1, <1>2 DEF TrackedFact, Recorded
<1>7. ServeFact' BY <1>2 DEF ServeFact, At, Idle
<1> QED BY <1>3, <1>4, <1>5, <1>6, <1>7 DEF LifecycleInvariant

LEMMA CloseKeeps ==
  ASSUME LifecycleInvariant, RequestClose \/ UNCHANGED vars
  PROVE  LifecycleInvariant'
<1>1. /\ UNCHANGED <<phase, from, sess, bind, mode, call, job, held, up, owner, req, effects>>
      /\ closing' \in BOOLEAN
  BY DEF RequestClose, vars, storeVars, coordVars, upVars, LifecycleInvariant, CoordTypeOK
<1>2. CoordTypeOK' BY <1>1 DEF LifecycleInvariant, CoordTypeOK
<1>3. \A q \in Ops : JobFact(q)' /\ HeldFact(q)' BY <1>1 DEF LifecycleInvariant, JobFact, HeldFact, Recorded, Stage
<1>4. \A q \in Ops : EffectFact(q)' /\ RequestFact(q)'
  BY <1>1 DEF LifecycleInvariant, EffectFact, RequestFact, Recorded, Stage
<1>5. \A e \in EndOps : GoneFact(e)' /\ RetiredFact(e)'
  BY <1>1 DEF LifecycleInvariant, GoneFact, RetiredFact, Evident, Stage
<1>6. \A s \in Sessions : TrackedFact(s)' BY <1>1 DEF LifecycleInvariant, TrackedFact, Recorded
<1>7. ServeFact' BY <1>1 DEF LifecycleInvariant, ServeFact, At
<1> QED BY <1>2, <1>3, <1>4, <1>5, <1>6, <1>7 DEF LifecycleInvariant

LEMMA LifecycleInit == Init => LifecycleInvariant
<1> SUFFICES ASSUME Init PROVE LifecycleInvariant OBVIOUS
<1> USE DEF Init, StoreInit, Ops
<1>1. CoordTypeOK BY DEF CoordTypeOK, Mutations
<1>2. ASSUME NEW q \in Ops PROVE JobFact(q) /\ HeldFact(q) /\ EffectFact(q) /\ RequestFact(q)
  BY DEF JobFact, HeldFact, EffectFact, RequestFact, EndPlaces, Mutations, Stage
<1>3. ASSUME NEW e \in EndOps PROVE GoneFact(e) /\ RetiredFact(e)
  BY DEF GoneFact, RetiredFact, Evident, Stage
<1>4. ASSUME NEW s \in Sessions PROVE TrackedFact(s)
  BY DEF TrackedFact, Unbound
<1>5. ServeFact BY DEF ServeFact, At, Idle
<1> QED BY <1>1, <1>2, <1>3, <1>4, <1>5 DEF LifecycleInvariant

LEMMA LifecycleStep == StoreInvariant /\ LifecycleInvariant /\ [Next]_vars => LifecycleInvariant'
<1> SUFFICES ASSUME StoreInvariant, LifecycleInvariant, [Next]_vars PROVE LifecycleInvariant' OBVIOUS
<1>1. ASSUME NEW o \in Ops, Request(o) \/ JobStep(o) PROVE LifecycleInvariant'
  BY <1>1, JobStepKeeps DEF JobAction
<1>2. CASE StoreStep /\ UNCHANGED <<coordVars, upVars>> BY <1>2, StoreStepKeeps
<1>3. CASE RequestClose \/ UNCHANGED vars BY <1>3, CloseKeeps
<1>4. CASE ProcessCrash BY <1>4, CrashKeeps
<1>5. CASE Daemon BY <1>5, DaemonKeeps
<1> QED BY <1>1, <1>2, <1>3, <1>4, <1>5 DEF Next

-----------------------------------------------------------------------------
(* The inductive invariant of the composition, beside that of the Store.   *)
THEOREM LifecycleInvariantHolds == Spec => []LifecycleInvariant
<1>1. Spec => []StoreInvariant BY LifecycleImplementsStore, StoreInvariantHolds, PTL
<1> QED BY <1>1, LifecycleInit, LifecycleStep, PTL DEF Spec

(* However answers are lost or late, jobs stop, hostd crashes and users ask *)
(* again: no create, promotion or kill is sent twice unless the first was  *)
(* proven not to have been invoked.                                        *)
THEOREM NoMutationReplayedHolds == Spec => []NoMutationReplayed
<1>1. LifecycleInvariant => NoMutationReplayed
  <2> SUFFICES ASSUME LifecycleInvariant, NEW o \in Ops, NEW m \in Mutations PROVE effects[o][m] <= 1
    BY DEF NoMutationReplayed
  <2>1. effects[o][m] \in {0, 1} BY DEF LifecycleInvariant, CoordTypeOK
  <2> QED BY <2>1
<1> QED BY <1>1, LifecycleInvariantHolds, PTL

(* A session that outlives hostd is named by an open provision record, and *)
(* a candidate is kept between jobs only for a provision that can go on.   *)
THEOREM ResidentTrackedHolds == Spec => []ResidentTracked
<1>1. LifecycleInvariant => ResidentTracked
  BY DEF LifecycleInvariant, ResidentTracked, HeldCandidateOpen, TrackedFact, HeldFact, At, Serving, Resting
<1> QED BY <1>1, LifecycleInvariantHolds, PTL

(* An end that is recorded as complete, or was compacted away, is the end  *)
(* of its session, whatever requests were still on their way.              *)
THEOREM EndedMeansGoneHolds == Spec => []EndedMeansGone
<1>1. StoreInvariant /\ LifecycleInvariant => EndedMeansGone
  <2> SUFFICES ASSUME StoreInvariant, LifecycleInvariant, NEW s \in Sessions, bind[s].st \in {"completed", "retired"}
               PROVE  up[s] # "resident"
    BY DEF EndedMeansGone
  <2>1. CASE bind[s].st = "retired" BY <2>1 DEF LifecycleInvariant, TrackedFact
  <2>2. CASE bind[s].st = "completed"
    <3>1. BindingFact(s) BY DEF StoreInvariant, DurableInvariant, BindingFacts
    <3>2. PICK e \in EndOps : sess[e] = s /\ Stage(e) \in {"kill_acknowledged", "completed"}
      BY <2>2, <3>1 DEF BindingFact
    <3> QED BY <3>2 DEF LifecycleInvariant, GoneFact, Evident
  <2> QED BY <2>1, <2>2
<1>2. Spec => []StoreInvariant BY LifecycleImplementsStore, StoreInvariantHolds, PTL
<1> QED BY <1>1, <1>2, LifecycleInvariantHolds, PTL

(* A kill on its way, even one whose job is long gone, is for a session    *)
(* whose command authority was revoked for good.                           *)
THEOREM KillTargetsRevokedHolds == Spec => []KillTargetsRevoked
<1>1. StoreInvariant /\ LifecycleInvariant => KillTargetsRevoked
  <2> SUFFICES ASSUME StoreInvariant, LifecycleInvariant, NEW o \in EndOps, req[o] = "kill"
               PROVE  bind[sess[o]].st \in {"detached", "completed", "retired"}
    BY DEF KillTargetsRevoked
  <2>1. o \in Ops /\ EffectFact(o) /\ RequestFact(o) /\ RetiredFact(o) /\ EndFact(o) /\ EndShape(o)
    BY DEF LifecycleInvariant, StoreInvariant, DurableInvariant, RecordShape, RecordFacts, Ops
  <2>2. Stage(o) \notin {"none", "ending"}
    BY <2>1 DEF EffectFact, RequestFact, BeforeKill, Mutations
  <2>3. Stage(o) \in {"kill_dispatching", "kill_acknowledged"} \/ phase[o] \in {"completed", "retired"}
    BY <2>1, <2>2 DEF EndShape, Stage, EndPhases
  <2> QED BY <2>1, <2>3 DEF EndFact, Revoked, RetiredFact
<1>2. Spec => []StoreInvariant BY LifecycleImplementsStore, StoreInvariantHolds, PTL
<1> QED BY <1>1, <1>2, LifecycleInvariantHolds, PTL
=============================================================================
