------------------------ MODULE StoreFilesRefinement -------------------------
(***************************************************************************)
(* The records, bindings and reservations of the Store's files, what its   *)
(* threads show, that every behaviour of the files is one of               *)
(* PublishedThreads, and that initialize() can finish what a crash left.   *)
(*                                                                         *)
(* The argument: RecordWrites lists the writes of the lifecycle registries *)
(* and Shown the steps that change what a thread shows; ResidentInvariant  *)
(* survives both, conjunct by conjunct (...Step).  From it follow that a   *)
(* reservation keeps its workspace, and, with what a step may do to a      *)
(* cursor (ReachedMoves) and to a session that is over (SpentStays,        *)
(* SpentGrows), that each step of the files is a step of the abstract      *)
(* specification or leaves what a reader sees alone.  Last, StartInvariant *)
(* survives every step too; each check that may throw follows from it.     *)
(***************************************************************************)
EXTENDS StoreFilesProofs

USE IdentityAssumption, ReservationAssumption, CursorAssumption, NoTxAssumption
USE DEF LifecycleOps, files, resident, retirement, projectionVars

-----------------------------------------------------------------------------
(* What a step writes of the lifecycle registries and the fence.           *)
RecordWrite ==
    \/ ResidentWrite
    \/ \E o \in LifecycleOps : QuarantineUnknown(o) \/ RecoverBefore(o)
    \/ WriteFence

recordVars == <<life, held, bind, target, fenced, marker>>
RecordOnly == RecordWrite /\ UNCHANGED <<files, boot, projectionVars>>

LEMMA RecordWrites ==
  ASSUME [FilesNext]_storeFilesVars
  PROVE RecordOnly \/ UNCHANGED recordVars
<1>1. ASSUME NEW b \in Bootstraps, PrepareBootstrap(b), UNCHANGED projectionVars PROVE RecordOnly \/ UNCHANGED recordVars
  BY <1>1 DEF PrepareBootstrap, recordVars
<1>2. ASSUME NEW b \in Bootstraps, RecordPrepared(b), UNCHANGED projectionVars PROVE RecordOnly \/ UNCHANGED recordVars
  BY <1>2 DEF RecordPrepared, recordVars
<1>3. ASSUME NEW b \in Bootstraps, RefuseBootstrapsFull(b, Retirable # {}), UNCHANGED projectionVars PROVE RecordOnly \/ UNCHANGED recordVars
  BY <1>3 DEF RefuseBootstrapsFull, recordVars
<1>4. ASSUME NEW b \in Bootstraps, Reactivate(b), UNCHANGED projectionVars PROVE RecordOnly \/ UNCHANGED recordVars
  BY <1>4 DEF Reactivate, recordVars
<1>5. ASSUME NEW b \in Bootstraps, CheckArtifacts(b), UNCHANGED projectionVars PROVE RecordOnly \/ UNCHANGED recordVars
  BY <1>5 DEF CheckArtifacts, recordVars
<1>6. ASSUME NEW b \in Bootstraps, Claim(b), UNCHANGED projectionVars PROVE RecordOnly \/ UNCHANGED recordVars
  BY <1>6 DEF Claim, recordVars
<1>7. ASSUME NEW b \in Bootstraps, Place(b), UNCHANGED projectionVars PROVE RecordOnly \/ UNCHANGED recordVars
  BY <1>7 DEF Place, recordVars
<1>8. ASSUME NEW b \in Bootstraps, Advance(b), UNCHANGED projectionVars PROVE RecordOnly \/ UNCHANGED recordVars
  BY <1>8 DEF Advance, recordVars
<1>9. ASSUME NEW b \in Bootstraps, CommitBootstrap(b), UNCHANGED projectionVars PROVE RecordOnly \/ UNCHANGED recordVars
  BY <1>9 DEF CommitBootstrap, recordVars
<1>10. ASSUME NEW b \in Bootstraps, Settle(b), UNCHANGED projectionVars PROVE RecordOnly \/ UNCHANGED recordVars
  BY <1>10 DEF Settle, recordVars
<1>11. ASSUME NEW b \in Bootstraps, PrepareReserved(b, Retirable # {}), UNCHANGED projectionVars PROVE RecordOnly \/ UNCHANGED recordVars
  BY <1>11 DEF PrepareReserved, RecordOnly, RecordWrite, ResidentWrite
<1>12. ASSUME NEW b \in Bootstraps, PlanRollback(b), UNCHANGED projectionVars PROVE RecordOnly \/ UNCHANGED recordVars
  BY <1>12 DEF PlanRollback, recordVars
<1>13. ASSUME NEW b \in Bootstraps, RemoveArtifact(b), UNCHANGED projectionVars PROVE RecordOnly \/ UNCHANGED recordVars
  BY <1>13 DEF RemoveArtifact, recordVars
<1>14. ASSUME NEW b \in Bootstraps, AdvanceRollback(b), UNCHANGED projectionVars PROVE RecordOnly \/ UNCHANGED recordVars
  BY <1>14 DEF AdvanceRollback, recordVars
<1>15. ASSUME NEW b \in Bootstraps, RetireRollback(b), UNCHANGED projectionVars PROVE RecordOnly \/ UNCHANGED recordVars
  BY <1>15 DEF RetireRollback, recordVars
<1>16. ASSUME NEW b \in Bootstraps, RecoverBootstrap(b), UNCHANGED projectionVars PROVE RecordOnly \/ UNCHANGED recordVars
  BY <1>16 DEF RecoverBootstrap, recordVars
<1>17. ASSUME NEW o \in Provisions, NEW c \in Cursors, PreparePublication(o, c) PROVE RecordOnly \/ UNCHANGED recordVars
  BY <1>17 DEF PreparePublication, recordVars
<1>18. ASSUME NEW o \in Provisions, PublishSame(o) PROVE RecordOnly \/ UNCHANGED recordVars
  BY <1>18 DEF PublishSame, RecordOnly, RecordWrite, ResidentWrite
<1>19. ASSUME NEW o \in Provisions, WriteLineage(o) PROVE RecordOnly \/ UNCHANGED recordVars
  BY <1>19 DEF WriteLineage, recordVars
<1>20. ASSUME NEW o \in Provisions, WriteProof(o) PROVE RecordOnly \/ UNCHANGED recordVars
  BY <1>20 DEF WriteProof, RecordOnly, RecordWrite, ResidentWrite
<1>21. ASSUME NEW o \in Ends, PrepareEndProjection(o) PROVE RecordOnly \/ UNCHANGED recordVars
  BY <1>21 DEF PrepareEndProjection, recordVars
<1>22. ASSUME NEW o \in Ends, CheckEndProjection(o) PROVE RecordOnly \/ UNCHANGED recordVars
  BY <1>22 DEF CheckEndProjection, recordVars
<1>23. ASSUME NEW o \in Ends, CompleteEnd(o) PROVE RecordOnly \/ UNCHANGED recordVars
  BY <1>23 DEF CompleteEnd, RecordOnly, RecordWrite, ResidentWrite
<1>24. ASSUME NEW o \in LifecycleOps, WriteSnapshot(o) PROVE RecordOnly \/ UNCHANGED recordVars
  BY <1>24 DEF WriteSnapshot, recordVars
<1>25. ASSUME NEW o \in LifecycleOps, WriteCatalog(o) PROVE RecordOnly \/ UNCHANGED recordVars
  BY <1>25 DEF WriteCatalog, recordVars
<1>26. ASSUME NEW o \in LifecycleOps, RemoveWal(o) PROVE RecordOnly \/ UNCHANGED recordVars
  BY <1>26 DEF RemoveWal, recordVars
<1>27. ASSUME NEW o \in Provisions, PrepareProvision(o) PROVE RecordOnly \/ UNCHANGED recordVars
  BY <1>27 DEF PrepareProvision, recordVars
<1>28. ASSUME NEW o \in Provisions, RegisterProvision(o, Retirable # {}) PROVE RecordOnly \/ UNCHANGED recordVars
  BY <1>28 DEF RegisterProvision, RecordOnly, RecordWrite, ResidentWrite
<1>29. ASSUME NEW o \in Provisions, FailCreate(o) PROVE RecordOnly \/ UNCHANGED recordVars
  BY <1>29 DEF FailCreate, RecordOnly, RecordWrite, ResidentWrite
<1>30. ASSUME NEW o \in Provisions, ObservePromotion(o) PROVE RecordOnly \/ UNCHANGED recordVars
  BY <1>30 DEF ObservePromotion, RecordOnly, RecordWrite, ResidentWrite
<1>31. ASSUME NEW o \in Provisions, CommitProvision(o) PROVE RecordOnly \/ UNCHANGED recordVars
  BY <1>31 DEF CommitProvision, RecordOnly, RecordWrite, ResidentWrite
<1>32. ASSUME NEW o \in Ends, PrepareEnd(o) PROVE RecordOnly \/ UNCHANGED recordVars
  BY <1>32 DEF PrepareEnd, RecordOnly, RecordWrite, ResidentWrite
<1>33. ASSUME NEW o \in Ends, AcknowledgeEnd(o) PROVE RecordOnly \/ UNCHANGED recordVars
  BY <1>33 DEF AcknowledgeEnd, RecordOnly, RecordWrite, ResidentWrite
<1>34. ASSUME NEW o \in Ends, RecoverAfter(o) PROVE RecordOnly \/ UNCHANGED recordVars
  BY <1>34 DEF RecoverAfter, recordVars
<1>35. ASSUME NEW o \in LifecycleOps, QuarantineUnknown(o) PROVE RecordOnly \/ UNCHANGED recordVars
  BY <1>35 DEF QuarantineUnknown, RecordOnly, RecordWrite
<1>36. ASSUME NEW o \in LifecycleOps, RecoverBefore(o) PROVE RecordOnly \/ UNCHANGED recordVars
  BY <1>36 DEF RecoverBefore, RecordOnly, RecordWrite
<1>37. CASE BeginRetirement
  BY <1>37 DEF BeginRetirement, RecordOnly, RecordWrite, ResidentWrite
<1>38. CASE WriteFence
  BY <1>38 DEF WriteFence, RecordOnly, RecordWrite
<1>39. CASE ReleaseReservation
  BY <1>39 DEF ReleaseReservation, recordVars
<1>40. CASE RemoveLineage
  BY <1>40 DEF RemoveLineage, recordVars
<1>41. CASE RemoveBinding
  BY <1>41 DEF RemoveBinding, RecordOnly, RecordWrite, ResidentWrite
<1>42. CASE RemoveOperation
  BY <1>42 DEF RemoveOperation, RecordOnly, RecordWrite, ResidentWrite
<1>43. CASE CompactBootstrap
  BY <1>43 DEF CompactBootstrap, recordVars
<1>44. CASE RemoveMarker
  BY <1>44 DEF RemoveMarker, RecordOnly, RecordWrite, ResidentWrite
<1>45. CASE Boot
  BY <1>45 DEF Boot, Enter, recordVars
<1>46. CASE RecoverBootstraps
  BY <1>46 DEF RecoverBootstraps, Enter, recordVars
<1>47. CASE RecoverLifecycles
  BY <1>47 DEF RecoverLifecycles, Enter, Degrade, recordVars
<1>48. CASE RecoverPublications
  BY <1>48 DEF RecoverPublications, Enter, recordVars
<1>49. CASE RecoverEnds
  BY <1>49 DEF RecoverEnds, Enter, recordVars
<1>50. CASE Serve
  BY <1>50 DEF Serve, Enter, Degrade, recordVars
<1>51. ASSUME NEW t \in Threads, Replay(t) PROVE RecordOnly \/ UNCHANGED recordVars
  BY <1>51 DEF Replay, recordVars
<1>52. CASE Crash
  BY <1>52 DEF Crash, recordVars
<1>53. CASE WorkspaceChange
  BY <1>53 DEF WorkspaceChange, recordVars
<1>54. CASE UNCHANGED storeFilesVars
  BY <1>54 DEF storeFilesVars, stateVars, recordVars
<1> QED BY <1>1, <1>2, <1>3, <1>4, <1>5, <1>6, <1>7, <1>8, <1>9, <1>10, <1>11, <1>12, <1>13, <1>14,
     <1>15, <1>16, <1>17, <1>18, <1>19, <1>20, <1>21, <1>22, <1>23, <1>24, <1>25, <1>26,
     <1>27, <1>28, <1>29, <1>30, <1>31, <1>32, <1>33, <1>34, <1>35, <1>36, <1>37, <1>38,
     <1>39, <1>40, <1>41, <1>42, <1>43, <1>44, <1>45, <1>46, <1>47, <1>48, <1>49, <1>50,
     <1>51, <1>52, <1>53, <1>54
  DEF FilesNext, BootstrapStep, PublicationStep, LifecycleStep, Retirement, Recovery

-----------------------------------------------------------------------------
(* Lifecycle records.                                                      *)
LEMMA Typing ==
  ASSUME FilesInvariant
  PROVE  /\ life \in [LifecycleOps -> {"none"} \cup ProvisionStages \cup EndStages]
         /\ held \in [LifecycleOps -> HeldReasons] /\ bind \in [Provisions -> BindStates]
         /\ target \in [Ends -> Provisions \cup {NoOp}] /\ lineage \in [Provisions -> Lineages]
         /\ fenced \subseteq LifecycleOps /\ marker \in LifecycleOps \cup {NoOp}
         /\ marker \in Ends => target[marker] \in Provisions
  BY DEF FilesInvariant, FilesTypeOK, DurableFacts, TargetFacts

HeldFact(o) == life[o] \in {"none", "committed", "failed", "completed"} => held[o] = "no"
Exclusive(o) == \A q \in LifecycleOps : Open(o) /\ Open(q) /\ ThreadOf[o] = ThreadOf[q] => o = q

LEMMA RecordParts ==
  RecordFacts <=>
    /\ \A p \in Provisions : ProvisionFact(p) /\ DetachedFact(p)
    /\ \A e \in Ends : EndFact(e)
    /\ \A d, e \in Ends : target[d] = target[e] /\ target[d] # NoOp => d = e
    /\ \A o \in LifecycleOps : HeldFact(o) /\ Exclusive(o)
  BY DEF RecordFacts, HeldFact, Exclusive

(* The record of a provision moves, its binding with it.                   *)
LEMMA ProvisionMoves ==
  ASSUME RecordFacts, FilesInvariant, NEW p \in Provisions,
         UNCHANGED <<held, target, fenced, marker, lineage>>,
         \A o \in LifecycleOps \ {p} : life'[o] = life[o],
         \A q \in Provisions \ {p} : bind'[q] = bind[q],
         ProvisionFact(p)', HeldFact(p)', bind[p] \notin {"detached", "completed"}, bind'[p] # "detached",
         \A e \in Ends : target[e] = p => bind'[p] = bind[p],
         Open(p)' => Open(p) \/ \A o \in LifecycleOps : ThreadOf[o] = ThreadOf[p] => ~Open(o)
  PROVE  RecordFacts'
<1>t. target \in [Ends -> Provisions \cup {NoOp}] BY Typing
<1>1. \A q \in Provisions : ProvisionFact(q)' /\ DetachedFact(q)'
  <2> SUFFICES ASSUME NEW q \in Provisions \ {p} PROVE ProvisionFact(q)' /\ DetachedFact(q)'
    BY DEF DetachedFact
  <2>1. ProvisionFact(q) /\ DetachedFact(q) BY RecordParts
  <2>2. life'[q] = life[q] /\ bind'[q] = bind[q] /\ lineage'[q] = lineage[q] OBVIOUS
  <2>3. \A e \in Ends : life'[e] = life[e] /\ target'[e] = target[e] /\ (Retiring(e)' <=> Retiring(e))
    BY DEF Retiring, Group
  <2> QED BY <2>1, <2>2, <2>3 DEF ProvisionFact, DetachedFact
<1>2. ASSUME NEW e \in Ends PROVE EndFact(e)'
  <2>1. EndFact(e) BY RecordParts
  <2>2. life'[e] = life[e] /\ target'[e] = target[e] /\ (Retiring(e)' <=> Retiring(e)) BY DEF Retiring, Group
  <2>3. target[e] = NoOp \/ bind'[target[e]] = bind[target[e]] BY <1>t
  <2>4. target[e] = NoOp => life[e] = "none"
    BY DEF FilesInvariant, DurableFacts, TargetFacts, Recorded
  <2> QED BY <2>1, <2>2, <2>3, <2>4 DEF EndFact
<1>3. \A d, e \in Ends : target'[d] = target'[e] /\ target'[d] # NoOp => d = e BY RecordParts
<1>4. ASSUME NEW o \in LifecycleOps PROVE HeldFact(o)' BY RecordParts DEF HeldFact
<1>5. ASSUME NEW o \in LifecycleOps PROVE Exclusive(o)'
  <2>1. \A q \in LifecycleOps \ {p} : Open(q)' <=> Open(q) BY DEF Open
  <2>2. \A q \in LifecycleOps : Exclusive(q) BY RecordParts
  <2> QED BY <2>1, <2>2 DEF Exclusive
<1>6. (RecordFacts)' <=>
    (/\ \A q \in Provisions : ProvisionFact(q)' /\ DetachedFact(q)'
     /\ \A e \in Ends : EndFact(e)'
     /\ \A d, e \in Ends : target'[d] = target'[e] /\ target'[d] # NoOp => d = e
     /\ \A o \in LifecycleOps : HeldFact(o)' /\ Exclusive(o)')
  BY DEF RecordFacts, HeldFact, Exclusive
<1> QED BY <1>1, <1>2, <1>3, <1>4, <1>5, <1>6

(* An operation is open just when its record is nonterminal or its session *)
(* commands.                                                               *)
LEMMA OpenIs ==
  ASSUME RecordFacts, FilesInvariant, NEW o \in LifecycleOps
  PROVE  Open(o) <=> Nonterminal(o) \/ (o \in Provisions /\ Commanding(o))
<1>1. life[o] \in {"none"} \cup ProvisionStages \cup EndStages BY Typing
<1>2. HeldFact(o) BY RecordParts
<1>3. ASSUME o \in Provisions PROVE ProvisionFact(o) BY <1>3, RecordParts
<1>4. ASSUME o \in Ends PROVE EndFact(o) BY <1>4, RecordParts
<1>5. CASE o \in Ends
  BY <1>1, <1>2, <1>4, <1>5
  DEF EndFact, Open, Nonterminal, Recorded, HeldFact, OpenStages, ProvisionStages, EndStages
<1>6. CASE o \in Provisions
  BY <1>1, <1>2, <1>3, <1>6
  DEF ProvisionFact, Open, Nonterminal, Recorded, Commanding, HeldFact, OpenStages, ProvisionStages, EndStages
<1> QED BY <1>5, <1>6

LEMMA PrepareReservedKeepsRecords ==
  ASSUME FilesInvariant, ResidentInvariant, NEW b \in Bootstraps, PrepareReserved(b, Retirable # {}),
         UNCHANGED projectionVars
  PROVE  RecordFacts'
<1> DEFINE p == Reserves[b]
<1>0. RecordFacts BY DEF ResidentInvariant
<1>1. p \in Provisions /\ ~Recorded(p) BY DEF PrepareReserved, LifecycleDue, Registered
<1>t. life \in [LifecycleOps -> {"none"} \cup ProvisionStages \cup EndStages] BY Typing
<1>2. ProvisionFact(p) BY <1>0, <1>1, RecordParts
<1>3. CASE UNCHANGED life
  <2>1. UNCHANGED <<held, bind, target, fenced, marker, lineage>> BY DEF PrepareReserved
  <2>2. life'[p] = life[p] /\ bind'[p] = bind[p] /\ lineage'[p] = lineage[p] /\ held'[p] = held[p] BY <1>3, <2>1
  <2> QED BY <1>0, <1>3, <2>1 DEF RecordFacts, ProvisionFact, DetachedFact, EndFact, Open, Retiring, Group
<1>4. CASE life' = [life EXCEPT ![p] = "creating"] /\ ReservationFree(b)
  <2>1. UNCHANGED <<held, bind, target, fenced, marker, lineage>> BY DEF PrepareReserved
  <2>2. life'[p] = "creating" /\ \A o \in LifecycleOps \ {p} : life'[o] = life[o] BY <1>1, <1>4, <1>t
  <2>3. bind[p] = "none" /\ lineage[p] = NoLineage /\ life[p] = "none" BY <1>1, <1>2 DEF ProvisionFact, Recorded
  <2>4. ProvisionFact(p)' /\ HeldFact(p)' BY <2>1, <2>2, <2>3 DEF ProvisionFact, HeldFact
  <2>5. \A o \in LifecycleOps : ~Open(o)
    <3> SUFFICES ASSUME NEW o \in LifecycleOps PROVE ~Open(o) OBVIOUS
    <3>1. CASE o = p BY <3>1, <2>3 DEF Open, OpenStages
    <3>2. CASE o # p BY <3>2, <1>0, <1>4, OpenIs DEF ReservationFree
    <3> QED BY <3>1, <3>2
  <2> HIDE DEF p
  <2> QED BY <1>0, <1>1, <2>1, <2>2, <2>3, <2>4, <2>5, ProvisionMoves
<1> QED BY <1>3, <1>4 DEF PrepareReserved

LEMMA ProvisionStepKeepsRecords ==
  ASSUME FilesInvariant, ResidentInvariant, NEW p \in Provisions, UNCHANGED projectionVars,
         \/ RegisterProvision(p, Retirable # {}) \/ FailCreate(p) \/ ObservePromotion(p)
         \/ CommitProvision(p) \/ PublishSame(p) \/ WriteProof(p)
  PROVE  RecordFacts'
<1>0. RecordFacts /\ FenceFacts BY DEF ResidentInvariant
<1>t. /\ life \in [LifecycleOps -> {"none"} \cup ProvisionStages \cup EndStages]
      /\ bind \in [Provisions -> BindStates] /\ target \in [Ends -> Provisions \cup {NoOp}]
  BY Typing
<1>1. UNCHANGED <<held, target, fenced, marker, lineage>>
  BY DEF RegisterProvision, FailCreate, ObservePromotion, CommitProvision, PublishSame, WriteProof
<1>2. /\ \A o \in LifecycleOps \ {p} : life'[o] = life[o]
      /\ \A q \in Provisions \ {p} : bind'[q] = bind[q]
  BY <1>t DEF RegisterProvision, FailCreate, ObservePromotion, CommitProvision, PublishSame, WriteProof
<1>3. ProvisionFact(p) /\ HeldFact(p) BY <1>0, RecordParts
<1>4. ASSUME NEW e \in Ends, target[e] = p PROVE EndFact(e) /\ (Retiring(e) => marker = e)
  BY <1>0, RecordParts DEF Retiring
<1>5. CASE RegisterProvision(p, Retirable # {})
  <2>1. call.job = "provision" /\ call.op = p BY <1>5 DEF RegisterProvision, Step, Job
  <2>2. life[p] = "none" /\ \A o \in LifecycleOps : ThreadOf[o] = ThreadOf[p] => ~Open(o)
    BY <2>1 DEF ResidentInvariant, ResidentCallFacts, Recorded
  <2>3. life'[p] = "creating" /\ UNCHANGED bind BY <1>5, <1>t DEF RegisterProvision
  <2>4. bind[p] = "none" /\ lineage[p] = NoLineage BY <2>2, <1>3 DEF ProvisionFact
  <2>5. ProvisionFact(p)' /\ HeldFact(p)' BY <1>1, <2>3, <2>4 DEF ProvisionFact, HeldFact
  <2> QED BY <1>0, <1>1, <1>2, <2>2, <2>3, <2>4, <2>5, ProvisionMoves
<1>6. CASE FailCreate(p)
  <2>1. life[p] = "creating" /\ held[p] = "no" /\ life'[p] = "failed" /\ UNCHANGED bind
    BY <1>6, <1>t DEF FailCreate
  <2>2. bind[p] = "none" /\ lineage[p] = NoLineage BY <2>1, <1>3 DEF ProvisionFact
  <2>3. ProvisionFact(p)' /\ HeldFact(p)' BY <1>1, <2>1, <2>2 DEF ProvisionFact, HeldFact
  <2>4. ~Open(p)' BY <2>1, <2>2 DEF Open, OpenStages
  <2> QED BY <1>0, <1>1, <1>2, <2>1, <2>2, <2>3, <2>4, ProvisionMoves
<1>7. CASE ObservePromotion(p)
  <2>1. life[p] = "creating" /\ life'[p] = "promoted" /\ bind'[p] = "activating" /\ marker = NoOp
    BY <1>7, <1>t DEF ObservePromotion, FilesInvariant, ModeFacts, Ready
  <2>2. bind[p] = "none" /\ lineage[p] = NoLineage BY <2>1, <1>3 DEF ProvisionFact
  <2>3. ProvisionFact(p)' /\ HeldFact(p)' BY <1>1, <2>1, <2>2 DEF ProvisionFact, HeldFact
  <2>4. \A e \in Ends : target[e] # p
    <3> SUFFICES ASSUME NEW e \in Ends, target[e] = p PROVE FALSE OBVIOUS
    <3>1. EndFact(e) /\ ~Retiring(e) BY <1>4, <2>1 DEF Retiring
    <3> QED BY <3>1, <2>2 DEF EndFact
  <2>5. Open(p) BY <2>1 DEF Open, OpenStages
  <2> QED BY <1>0, <1>1, <1>2, <2>1, <2>2, <2>3, <2>4, <2>5, ProvisionMoves
<1>8. CASE CommitProvision(p)
  <2>1. life[p] = "published" /\ held[p] = "no" /\ life'[p] = "committed" /\ bind'[p] = "active"
    BY <1>8, <1>t DEF CommitProvision
  <2>2. bind[p] = "activating" BY <2>1, <1>3 DEF ProvisionFact
  <2>3. ProvisionFact(p)' /\ HeldFact(p)' BY <1>1, <2>1, <2>2 DEF ProvisionFact, HeldFact
  <2>4. \A e \in Ends : target[e] # p
    <3> SUFFICES ASSUME NEW e \in Ends, target[e] = p PROVE FALSE OBVIOUS
    <3>1. EndFact(e) BY <1>4
    <3> QED BY <3>1, <2>2 DEF EndFact
  <2>5. Open(p) BY <2>1 DEF Open, OpenStages
  <2> QED BY <1>0, <1>1, <1>2, <2>1, <2>2, <2>3, <2>4, <2>5, ProvisionMoves
<1>9. CASE PublishSame(p) \/ WriteProof(p)
  <2>1. life[p] \in {"promoted", "published"}
    BY <1>9 DEF PublishSame, Leased, WriteProof, Step, Job, ResidentInvariant, ResidentCallFacts
  <2>2. life'[p] = "published" /\ UNCHANGED bind BY <1>9, <1>t DEF PublishSame, WriteProof
  <2>3. bind[p] = "activating" BY <2>1, <1>3 DEF ProvisionFact
  <2>4. ProvisionFact(p)' /\ HeldFact(p)' BY <1>1, <2>2, <2>3 DEF ProvisionFact, HeldFact
  <2>5. Open(p) BY <2>1 DEF Open, OpenStages
  <2> QED BY <1>0, <1>1, <1>2, <2>2, <2>3, <2>4, <2>5, ProvisionMoves
<1> QED BY <1>5, <1>6, <1>7, <1>8, <1>9

LEMMA PrepareEndKeepsRecords ==
  ASSUME FilesInvariant, ResidentInvariant, NEW e \in Ends, PrepareEnd(e), UNCHANGED projectionVars
  PROVE  RecordFacts'
<1>0. RecordFacts BY DEF ResidentInvariant
<1>t. /\ life \in [LifecycleOps -> {"none"} \cup ProvisionStages \cup EndStages]
      /\ bind \in [Provisions -> BindStates] /\ target \in [Ends -> Provisions \cup {NoOp}]
  BY Typing
<1>1. PICK p \in Provisions :
        /\ ThreadOf[p] = ThreadOf[e] /\ bind[p] = "active"
        /\ life' = [life EXCEPT ![e] = "ending"] /\ bind' = [bind EXCEPT ![p] = "detached"]
        /\ target' = [target EXCEPT ![e] = p]
  BY DEF PrepareEnd, OnThread
<1>2. ~Recorded(e) /\ marker = NoOp /\ UNCHANGED <<held, fenced, marker, lineage>>
  BY DEF PrepareEnd, Ready, FilesInvariant, ModeFacts
<1>3. /\ \A o \in LifecycleOps \ {e} : life'[o] = life[o]
      /\ \A q \in Provisions \ {p} : bind'[q] = bind[q]
      /\ \A d \in Ends \ {e} : target'[d] = target[d]
      /\ life'[e] = "ending" /\ bind'[p] = "detached" /\ target'[e] = p
  BY <1>1, <1>t
<1>4. \A d \in Ends : ~Retiring(d) /\ ~Retiring(d)' BY <1>2 DEF Retiring
<1>5. \A d \in Ends \ {e} : target[d] # p
  <2> SUFFICES ASSUME NEW d \in Ends, target[d] = p PROVE FALSE OBVIOUS
  <2>1. EndFact(d) BY <1>0, RecordParts
  <2> QED BY <2>1, <1>1, <1>4 DEF EndFact
<1>6. life[p] = "committed"
  <2>1. ProvisionFact(p) BY <1>0, RecordParts
  <2> QED BY <2>1, <1>1 DEF ProvisionFact
<1>7. ASSUME NEW q \in Provisions PROVE ProvisionFact(q)' /\ DetachedFact(q)'
  <2>1. CASE q = p BY <2>1, <1>3, <1>6 DEF ProvisionFact, DetachedFact
  <2>2. CASE q # p
    <3>1. ProvisionFact(q) /\ DetachedFact(q) BY <1>0, RecordParts
    <3>2. life'[q] = life[q] /\ bind'[q] = bind[q] /\ lineage'[q] = lineage[q] BY <1>2, <1>3, <2>2
    <3>3. \A d \in Ends : life[d] \in {"ending", "acknowledged"} => d # e BY <1>2 DEF Recorded
    <3> QED BY <3>1, <3>2, <3>3, <1>3, <1>4 DEF ProvisionFact, DetachedFact
  <2> QED BY <2>1, <2>2
<1>8. ASSUME NEW d \in Ends PROVE EndFact(d)'
  <2>1. CASE d = e BY <2>1, <1>3 DEF EndFact
  <2>2. CASE d # e
    <3>1. EndFact(d) BY <1>0, RecordParts
    <3>2. life'[d] = life[d] /\ target'[d] = target[d] BY <1>3, <2>2
    <3>3. target[d] = NoOp \/ bind'[target[d]] = bind[target[d]] BY <1>3, <1>5, <1>t, <2>2
    <3>4. target[d] = NoOp => life[d] = "none" BY DEF FilesInvariant, DurableFacts, TargetFacts, Recorded
    <3> QED BY <3>1, <3>2, <3>3, <3>4, <1>4 DEF EndFact
  <2> QED BY <2>1, <2>2
<1>9. \A c, d \in Ends : target'[c] = target'[d] /\ target'[c] # NoOp => c = d
  BY <1>0, <1>3, <1>5 DEF RecordFacts
<1>10. ASSUME NEW o \in LifecycleOps PROVE HeldFact(o)'
  BY <1>0, <1>2, <1>3, RecordParts DEF HeldFact
<1>11. Open(p) BY <1>1 DEF Open
<1>12. ~Open(p)' BY <1>3, <1>6 DEF Open, OpenStages
<1>13. \A o \in LifecycleOps \ {e, p} : Open(o)' <=> Open(o) BY <1>3 DEF Open
<1>14. ASSUME NEW o \in LifecycleOps PROVE Exclusive(o)'
  <2>1. Exclusive(o) /\ Exclusive(p) BY <1>0, RecordParts
  <2> QED BY <2>1, <1>1, <1>11, <1>12, <1>13, RecordParts, <1>0 DEF Exclusive
<1> QED BY <1>7, <1>8, <1>9, <1>10, <1>14 DEF RecordFacts, HeldFact, Exclusive

LEMMA EndStepKeepsRecords ==
  ASSUME FilesInvariant, ResidentInvariant, NEW e \in Ends, UNCHANGED projectionVars,
         AcknowledgeEnd(e) \/ CompleteEnd(e)
  PROVE  RecordFacts'
<1> DEFINE p == target[e]
<1>0. RecordFacts BY DEF ResidentInvariant
<1>t. /\ life \in [LifecycleOps -> {"none"} \cup ProvisionStages \cup EndStages]
      /\ held \in [LifecycleOps -> HeldReasons]
      /\ bind \in [Provisions -> BindStates] /\ target \in [Ends -> Provisions \cup {NoOp}]
  BY Typing
<1>1. EndFact(e) BY <1>0, RecordParts
<1>2. marker = NoOp /\ \A d \in Ends : ~Retiring(d) /\ ~Retiring(d)'
  <2>1. marker = NoOp
    BY DEF AcknowledgeEnd, CompleteEnd, Ready, Step, Job, FilesInvariant, ModeFacts, CallFacts
  <2> QED BY <2>1 DEF AcknowledgeEnd, CompleteEnd, Retiring
<1>3. p \in Provisions /\ life[e] \in {"ending", "acknowledged", "completed"}
  <2>1. life[e] \in {"ending", "acknowledged", "completed"}
    BY DEF AcknowledgeEnd, CompleteEnd, Step, Job, ResidentInvariant, ResidentCallFacts
  <2> QED BY <2>1, <1>t DEF FilesInvariant, DurableFacts, TargetFacts, Recorded
<1>4. \/ life[e] \in {"ending", "acknowledged"} /\ bind[p] = "detached"
      \/ life[e] = "completed" /\ bind[p] = "completed"
  BY <1>1, <1>2, <1>3 DEF EndFact
<1>5. \/ life'[e] = "acknowledged" /\ bind'[p] = bind[p] /\ life[e] = "ending"
      \/ life'[e] = "completed" /\ bind'[p] = "completed" /\ held[e] = "no"
  BY <1>t, <1>3 DEF AcknowledgeEnd, CompleteEnd, Step, Job, ResidentInvariant, ResidentCallFacts
<1>6. /\ UNCHANGED <<target, fenced, marker, lineage>> /\ held'[e] = "no"
      /\ \A o \in LifecycleOps \ {e} : life'[o] = life[o] /\ held'[o] = held[o]
      /\ \A q \in Provisions \ {p} : bind'[q] = bind[q]
  BY <1>t, <1>5 DEF AcknowledgeEnd, CompleteEnd, Step, Job, ResidentInvariant, ResidentCallFacts
<1>7. life[p] = "committed"
  <2>1. ProvisionFact(p) BY <1>0, <1>3, RecordParts
  <2> QED BY <2>1, <1>4 DEF ProvisionFact
<1> HIDE DEF p
<1>u. p = target[e] BY DEF p
<1>8. \A d \in Ends \ {e} : target[d] # p BY <1>0, <1>3, <1>u DEF RecordFacts
<1>9. ASSUME NEW q \in Provisions PROVE ProvisionFact(q)' /\ DetachedFact(q)'
  <2>1. CASE q = p BY <2>1, <1>3, <1>4, <1>5, <1>6, <1>7, <1>u DEF ProvisionFact, DetachedFact
  <2>2. CASE q # p
    <3>1. ProvisionFact(q) /\ DetachedFact(q) BY <1>0, RecordParts
    <3>2. life'[q] = life[q] /\ bind'[q] = bind[q] /\ lineage'[q] = lineage[q] BY <1>6, <2>2
    <3> QED BY <3>1, <3>2, <1>2, <1>6, <2>2, <1>u DEF ProvisionFact, DetachedFact
  <2> QED BY <2>1, <2>2
<1>10. ASSUME NEW d \in Ends PROVE EndFact(d)'
  <2>1. CASE d = e BY <2>1, <1>4, <1>5, <1>6, <1>u DEF EndFact
  <2>2. CASE d # e
    <3>1. EndFact(d) BY <1>0, RecordParts
    <3>2. life'[d] = life[d] /\ target'[d] = target[d] BY <1>6, <2>2
    <3>3. target[d] = NoOp \/ bind'[target[d]] = bind[target[d]] BY <1>6, <1>8, <1>t, <2>2
    <3>4. target[d] = NoOp => life[d] = "none" BY DEF FilesInvariant, DurableFacts, TargetFacts, Recorded
    <3> QED BY <3>1, <3>2, <3>3, <3>4, <1>2 DEF EndFact
  <2> QED BY <2>1, <2>2
<1>11. ASSUME NEW o \in LifecycleOps PROVE HeldFact(o)'
  BY <1>0, <1>6, RecordParts DEF HeldFact
<1>12. \A o \in LifecycleOps : Open(o)' => Open(o)
  BY <1>3, <1>4, <1>5, <1>6 DEF Open, OpenStages
<1>13. \A o \in LifecycleOps : Exclusive(o)' BY <1>0, <1>12, RecordParts DEF Exclusive
<1> QED BY <1>0, <1>6, <1>9, <1>10, <1>11, <1>13 DEF RecordFacts, HeldFact, Exclusive

(* A retirement in progress has a fence around its group.                  *)
LEMMA GroupFenced ==
  ASSUME FilesInvariant, retiring \notin {"no", "fence"}
  PROVE  /\ marker \in LifecycleOps /\ Group(marker) \subseteq fenced
         /\ retiring \in {"lineage", "binding", "predecessor"} => marker \in Ends
         /\ marker \in Ends => target[marker] \in Provisions
         /\ retiring \in {"compact", "marker"} => ~Recorded(marker)
  BY Typing DEF FilesInvariant, RetiringFacts

LEMMA NothingRetires ==
  ASSUME FilesInvariant, ResidentInvariant, retiring = "no",
         mode \in {"retirement", "bootstrap", "before", "replay", "after", "up"}
  PROVE  /\ marker = NoOp /\ \A e \in Ends : ~Retiring(e)
         /\ \A o \in fenced : ~Recorded(o)
         /\ \A e \in Ends : target[e] # NoOp => Recorded(e)
<1>1. marker = NoOp BY DEF FilesInvariant, ModeFacts
<1>2. \A e \in Ends : ~Retiring(e) BY <1>1 DEF Retiring
<1>3. \A o \in fenced : ~Recorded(o) BY <1>1 DEF ResidentInvariant, FenceFacts
<1>4. \A e \in Ends : EndFact(e) BY RecordParts DEF ResidentInvariant
<1> QED BY <1>1, <1>2, <1>3, <1>4 DEF EndFact, Recorded

LEMMA RetirementBegins ==
  ASSUME FilesInvariant, BeginRetirement
  PROVE  retiring = "no" /\ mode \in {"bootstrap", "up"}
<1>1. PICK h \in Retirable : TRUE BY DEF BeginRetirement
<1>2. retiring = "no" /\ call.job \in {"provision", "bootstrap"}
  BY <1>1 DEF Retirable, Step, Job
<1> QED BY <1>2 DEF FilesInvariant, CallFacts

LEMMA RetirementKeepsRecords ==
  ASSUME FilesInvariant, ResidentInvariant,
         BeginRetirement \/ WriteFence \/ RemoveLineage \/ RemoveBinding \/ RemoveOperation \/ RemoveMarker
  PROVE  RecordFacts' /\ FenceFacts'
<1>0. RecordFacts /\ FenceFacts BY DEF ResidentInvariant
<1>t. /\ life \in [LifecycleOps -> {"none"} \cup ProvisionStages \cup EndStages]
      /\ bind \in [Provisions -> BindStates] /\ target \in [Ends -> Provisions \cup {NoOp}]
      /\ lineage \in [Provisions -> Lineages] /\ fenced \subseteq LifecycleOps
      /\ marker \in LifecycleOps \cup {NoOp}
  BY Typing
<1>1. \A p \in Provisions : ProvisionFact(p) /\ DetachedFact(p) BY <1>0, RecordParts
<1>2. \A e \in Ends : EndFact(e) BY <1>0, RecordParts
<1>3. CASE BeginRetirement
  <2>1. marker = NoOp /\ (\A e \in Ends : ~Retiring(e)) /\ \A o \in fenced : ~Recorded(o)
    BY <1>3, RetirementBegins, NothingRetires
  <2>2. UNCHANGED <<life, held, bind, target, lineage, fenced>> BY <1>3 DEF BeginRetirement
  <2>3. ASSUME NEW p \in Provisions PROVE ProvisionFact(p)' /\ DetachedFact(p)'
    BY <1>1, <2>1, <2>2 DEF ProvisionFact, DetachedFact
  <2>4. ASSUME NEW e \in Ends PROVE EndFact(e)' BY <1>2, <2>1, <2>2 DEF EndFact
  <2>5. RecordFacts' BY <1>0, <2>2, <2>3, <2>4 DEF RecordFacts, Open
  <2>6. PICK h \in Retirable : marker' \in {marker, h} BY <1>3 DEF BeginRetirement
  <2>7. h \in LifecycleOps /\ TerminalHead(h) BY <2>6 DEF Retirable
  <2>8. h \in Provisions => life[h] = "failed" BY <2>7 DEF TerminalHead
  <2>9. h \in Ends => life[h] = "completed" /\ life[target[h]] = "committed"
    <3> SUFFICES ASSUME h \in Ends PROVE life[h] = "completed" /\ life[target[h]] = "committed" OBVIOUS
    <3>1. life[h] = "completed" /\ bind[target[h]] = "completed" BY <2>7 DEF TerminalHead
    <3>2. target[h] \in Provisions
      BY <3>1, <1>t DEF FilesInvariant, DurableFacts, TargetFacts, Recorded
    <3>3. ProvisionFact(target[h]) BY <1>1, <3>2
    <3> QED BY <3>1, <3>3 DEF ProvisionFact
  <2>10. FenceFacts' BY <2>1, <2>2, <2>6, <2>7, <2>8, <2>9 DEF FenceFacts, Recorded
  <2> QED BY <2>5, <2>10
<1>4. CASE WriteFence
  <2>1. UNCHANGED <<life, held, bind, target, lineage, marker>> BY <1>4 DEF WriteFence
  <2>2. fenced' = fenced \cup Group(marker) \/ UNCHANGED fenced BY <1>4 DEF WriteFence
  <2>3. marker # NoOp BY <1>4 DEF WriteFence, FilesInvariant, RetiringFacts
  <2>4. \A e \in Ends : Retiring(e) => Retiring(e)' BY <2>1, <2>2 DEF Retiring, Group
  <2>5. ASSUME NEW p \in Provisions PROVE ProvisionFact(p)' /\ DetachedFact(p)'
    BY <1>1, <2>1, <2>4 DEF ProvisionFact, DetachedFact
  <2>6. ASSUME NEW e \in Ends PROVE EndFact(e)' BY <1>2, <2>1, <2>4 DEF EndFact
  <2>7. RecordFacts' BY <1>0, <2>1, <2>5, <2>6 DEF RecordFacts, Open
  <2>8. FenceFacts' BY <1>0, <2>1, <2>2, <2>3 DEF FenceFacts, Recorded, Group
  <2> QED BY <2>7, <2>8
<1>5. CASE RemoveLineage
  <2>1. UNCHANGED <<life, held, bind, target, fenced, marker>> BY <1>5 DEF RemoveLineage
  <2>2. \A p \in Provisions : lineage'[p] \in {lineage[p], NoLineage} BY <1>5, <1>t DEF RemoveLineage
  <2>3. \A e \in Ends : Retiring(e) <=> Retiring(e)' BY <2>1 DEF Retiring, Group
  <2>4. ASSUME NEW p \in Provisions PROVE ProvisionFact(p)' /\ DetachedFact(p)'
    BY <1>1, <2>1, <2>2, <2>3 DEF ProvisionFact, DetachedFact
  <2>5. ASSUME NEW e \in Ends PROVE EndFact(e)' BY <1>2, <2>1, <2>3 DEF EndFact
  <2>6. RecordFacts' BY <1>0, <2>1, <2>4, <2>5 DEF RecordFacts, Open
  <2>7. FenceFacts' BY <1>0, <2>1 DEF FenceFacts, Recorded, Group
  <2> QED BY <2>6, <2>7
<1>6. CASE RemoveBinding
  <2>1. retiring = "binding" /\ marker \in Ends /\ Group(marker) \subseteq fenced
    BY <1>6, GroupFenced DEF RemoveBinding
  <2> DEFINE p == target[marker]
  <2>2. p \in Provisions /\ lineage[p] = NoLineage
    BY <2>1, GroupFenced DEF ResidentInvariant, ResidentRetiringFacts
  <2>3. Retiring(marker) BY <2>1 DEF Retiring
  <2>4. UNCHANGED <<life, held, target, fenced, lineage, marker>>
    BY <1>6 DEF RemoveBinding
  <2>5. bind'[p] = "none" /\ \A q \in Provisions \ {p} : bind'[q] = bind[q] BY <1>6, <1>t, <2>2 DEF RemoveBinding
  <2>6. life[marker] \in {"completed", "none"} /\ life[p] \in {"committed", "none"}
    BY <1>0, <2>1 DEF FenceFacts
  <2> HIDE DEF p
  <2>p. p = target[marker] BY DEF p
  <2>7. \A d \in Ends \ {marker} : target[d] # p BY <1>0, <2>1, <2>2, <2>p DEF RecordFacts
  <2>8. \A e \in Ends : Retiring(e) <=> Retiring(e)' BY <2>4 DEF Retiring, Group
  <2>9. ASSUME NEW q \in Provisions PROVE ProvisionFact(q)' /\ DetachedFact(q)'
    <3>1. CASE q = p
      BY <3>1, <2>1, <2>2, <2>3, <2>4, <2>5, <2>6, <2>8, <2>p DEF ProvisionFact, DetachedFact
    <3>2. CASE q # p
      <4>1. ProvisionFact(q) /\ DetachedFact(q) BY <1>1
      <4> QED BY <4>1, <3>2, <2>4, <2>5, <2>8 DEF ProvisionFact, DetachedFact
    <3> QED BY <3>1, <3>2
  <2>10. ASSUME NEW d \in Ends PROVE EndFact(d)'
    <3>1. CASE d = marker BY <3>1, <2>3, <2>4, <2>5, <2>6, <2>8, <2>p DEF EndFact
    <3>2. CASE d # marker
      <4>1. EndFact(d) BY <1>2
      <4>2. target[d] = NoOp \/ bind'[target[d]] = bind[target[d]] BY <3>2, <2>5, <2>7, <1>t
      <4>3. target[d] = NoOp => life[d] = "none" BY DEF FilesInvariant, DurableFacts, TargetFacts, Recorded
      <4> QED BY <4>1, <4>2, <4>3, <2>4, <2>8 DEF EndFact
    <3> QED BY <3>1, <3>2
  <2>11. \A o \in LifecycleOps : Open(o)' => Open(o) BY <2>4, <2>5 DEF Open
  <2>12. RecordFacts' BY <1>0, <2>4, <2>9, <2>10, <2>11 DEF RecordFacts
  <2>13. FenceFacts' BY <1>0, <2>4 DEF FenceFacts, Recorded, Group
  <2> QED BY <2>12, <2>13
<1>7. CASE RemoveOperation
  <2>1. Group(marker) \subseteq fenced /\ marker \in LifecycleOps
    BY <1>7, GroupFenced DEF RemoveOperation
  <2>2. UNCHANGED <<held, bind, target, fenced, lineage, marker>> BY <1>7 DEF RemoveOperation
  <2>3. PICK o \in Group(marker) : life' = [life EXCEPT ![o] = "none"]
            /\ (o = marker \/ (marker \in Ends /\ o = target[marker]))
    BY <1>7, GroupFenced DEF RemoveOperation, Group
  <2>4. o \in LifecycleOps BY <2>1, <2>3, <1>t
  <2>5. life'[o] = "none" /\ \A q \in LifecycleOps \ {o} : life'[q] = life[q] BY <2>3, <2>4, <1>t
  <2>6. o \in Provisions => life[o] \in {"failed", "committed", "none"} /\ bind[o] = "none" /\ lineage[o] = NoLineage
    <3> SUFFICES ASSUME o \in Provisions
                 PROVE  life[o] \in {"failed", "committed", "none"} /\ bind[o] = "none" /\ lineage[o] = NoLineage
      OBVIOUS
    <3>1. CASE o = marker
      <4>1. life[o] \in {"failed", "none"} BY <1>0, <3>1 DEF FenceFacts
      <4>2. ProvisionFact(o) BY <1>1
      <4> QED BY <4>1, <4>2 DEF ProvisionFact
    <3>2. CASE marker \in Ends /\ o = target[marker]
      <4>1. life[o] \in {"committed", "none"} BY <1>0, <3>2 DEF FenceFacts
      <4>2. retiring \in {"predecessor", "terminal"} BY <1>7 DEF RemoveOperation
      <4>3. bind[o] = "none" BY <4>2, <3>2 DEF ResidentInvariant, ResidentRetiringFacts
      <4>4. ProvisionFact(o) BY <1>1
      <4> QED BY <4>1, <4>3, <4>4 DEF ProvisionFact
    <3> QED BY <3>1, <3>2, <2>3
  <2>7. o \in Ends => o = marker /\ life[o] \in {"completed", "none"} /\ Retiring(o) /\ bind[target[o]] = "none"
    <3> SUFFICES ASSUME o \in Ends
                 PROVE  o = marker /\ life[o] \in {"completed", "none"} /\ Retiring(o) /\ bind[target[o]] = "none"
      OBVIOUS
    <3>1. o = marker BY <2>3, GroupFenced, <1>7 DEF RemoveOperation
    <3>2. life[o] \in {"completed", "none"} BY <1>0, <3>1 DEF FenceFacts
    <3>3. Retiring(o) BY <3>1, <2>1 DEF Retiring
    <3>4. retiring \in {"predecessor", "terminal"} BY <1>7 DEF RemoveOperation
    <3>5. bind[target[o]] = "none" BY <3>1, <3>4 DEF ResidentInvariant, ResidentRetiringFacts
    <3> QED BY <3>1, <3>2, <3>3, <3>5
  <2>8. \A e \in Ends : Retiring(e) <=> Retiring(e)' BY <2>2 DEF Retiring, Group
  <2>9. ASSUME NEW q \in Provisions PROVE ProvisionFact(q)' /\ DetachedFact(q)'
    <3>1. CASE q = o BY <3>1, <2>2, <2>5, <2>6 DEF ProvisionFact, DetachedFact
    <3>2. CASE q # o
      <4>1. ProvisionFact(q) /\ DetachedFact(q) BY <1>1
      <4>2. life'[q] = life[q] BY <2>5, <3>2
      <4>3. \A e \in Ends : life[e] \in {"ending", "acknowledged"} => life'[e] = life[e] BY <2>5, <2>7
      <4> QED BY <4>1, <4>2, <4>3, <2>2, <2>8 DEF ProvisionFact, DetachedFact
    <3> QED BY <3>1, <3>2
  <2>10. ASSUME NEW d \in Ends PROVE EndFact(d)'
    <3>1. CASE d = o BY <3>1, <2>2, <2>5, <2>7, <2>8 DEF EndFact
    <3>2. CASE d # o
      <4>1. EndFact(d) BY <1>2
      <4>2. life'[d] = life[d] BY <2>5, <3>2
      <4> QED BY <4>1, <4>2, <2>2, <2>8 DEF EndFact
    <3> QED BY <3>1, <3>2
  <2>11. \A q \in LifecycleOps : Open(q)' => Open(q) BY <2>2, <2>5 DEF Open, OpenStages
  <2>12. \A q \in LifecycleOps : HeldFact(q)'
    <3>1. life[o] \in {"none", "committed", "failed", "completed"} BY <2>4, <2>6, <2>7
    <3> QED BY <3>1, <1>0, <2>2, <2>5, RecordParts DEF HeldFact
  <2>13. RecordFacts' BY <1>0, <2>2, <2>9, <2>10, <2>11, <2>12 DEF RecordFacts, HeldFact
  <2>14. FenceFacts'
    <3>1. \A q \in LifecycleOps : Recorded(q)' => Recorded(q) BY <2>5 DEF Recorded
    <3>2. \A q \in fenced' : Recorded(q)' => marker' # NoOp /\ q \in Group(marker)'
      BY <1>0, <1>t, <3>1, <2>2 DEF FenceFacts, Group
    <3>3. \A q \in Group(marker) : life'[q] = life[q] \/ (life'[q] = "none" /\ q \in fenced)
      BY <2>1, <2>3, <2>5, <1>t
    <3>4. marker \in Group(marker) /\ (marker \in Ends => target[marker] \in Group(marker)) BY DEF Group
    <3> QED BY <1>0, <2>2, <3>2, <3>3, <3>4 DEF FenceFacts
  <2> QED BY <2>13, <2>14
<1>8. CASE RemoveMarker
  <2>1. retiring = "marker" BY <1>8 DEF RemoveMarker
  <2>2. marker \in LifecycleOps /\ ~Recorded(marker) BY <2>1, GroupFenced
  <2>3. marker' = NoOp /\ UNCHANGED <<life, held, bind, lineage, fenced>> BY <1>8 DEF RemoveMarker
  <2>4. \A e \in Ends : target'[e] = IF e = marker THEN NoOp ELSE target[e] BY <1>8 DEF RemoveMarker
  <2>5. marker \in Ends => life[target[marker]] = "none"
    BY <2>1 DEF ResidentInvariant, ResidentRetiringFacts
  <2>6. \A e \in Ends \ {marker} : ~Retiring(e) BY DEF Retiring
  <2>7. ASSUME NEW p \in Provisions PROVE ProvisionFact(p)' /\ DetachedFact(p)'
    <3>1. ProvisionFact(p) /\ DetachedFact(p) BY <1>1
    <3>2. ASSUME NEW e \in Ends, life[e] \in {"ending", "acknowledged"} PROVE target'[e] = target[e]
      BY <3>2, <2>2, <2>4 DEF Recorded
    <3>3. ASSUME NEW e \in Ends, target[e] = p, Retiring(e) PROVE life[p] = "none"
      BY <3>3, <2>5, <2>6
    <3> QED BY <3>1, <3>2, <3>3, <2>3 DEF ProvisionFact, DetachedFact
  <2>8. ASSUME NEW d \in Ends PROVE EndFact(d)'
    <3>1. CASE d = marker BY <3>1, <2>2, <2>3, <2>4 DEF EndFact, Recorded
    <3>2. CASE d # marker
      <4>1. EndFact(d) /\ ~Retiring(d) BY <1>2, <2>6, <3>2
      <4> QED BY <4>1, <3>2, <2>3, <2>4 DEF EndFact
    <3> QED BY <3>1, <3>2
  <2>9. \A c, d \in Ends : target'[c] = target'[d] /\ target'[c] # NoOp => c = d
    BY <1>0, <2>4 DEF RecordFacts
  <2>10. RecordFacts' BY <1>0, <2>3, <2>7, <2>8, <2>9 DEF RecordFacts, Open
  <2>11. \A o \in fenced : ~Recorded(o)
    BY <1>0, <2>2, <2>5 DEF FenceFacts, Group, Recorded
  <2>12. FenceFacts' BY <2>3, <2>11 DEF FenceFacts, Recorded
  <2> QED BY <2>10, <2>12
<1> QED BY <1>3, <1>4, <1>5, <1>6, <1>7, <1>8

LEMMA HoldKeepsRecords ==
  ASSUME FilesInvariant, ResidentInvariant, NEW o \in LifecycleOps, QuarantineUnknown(o) \/ RecoverBefore(o)
  PROVE  RecordFacts'
<1>0. RecordFacts BY DEF ResidentInvariant
<1>t. held \in [LifecycleOps -> HeldReasons] BY Typing
<1>1. UNCHANGED <<life, bind, target, lineage, fenced, marker>> BY DEF QuarantineUnknown, RecoverBefore
<1>2. \A q \in LifecycleOps \ {o} : held'[q] = held[q] BY <1>t DEF QuarantineUnknown, RecoverBefore
<1>3. HeldFact(o)'
  <2>1. HeldFact(o) BY <1>0, RecordParts
  <2>2. UNCHANGED held \/ life[o] \in {"creating", "ending"} \/ Nonterminal(o)
    BY DEF QuarantineUnknown, RecoverBefore, Lost
  <2>3. life[o] \in {"committed", "failed", "completed"} /\ Nonterminal(o) => held[o] # "no" BY DEF Nonterminal
  <2> QED BY <2>1, <2>2, <2>3, <1>1 DEF HeldFact, Nonterminal, Recorded
<1>4. \A q \in LifecycleOps : HeldFact(q)' BY <1>0, <1>1, <1>2, <1>3, RecordParts DEF HeldFact
<1>5. ASSUME NEW p \in Provisions PROVE ProvisionFact(p)' /\ DetachedFact(p)'
  <2>1. ProvisionFact(p) /\ DetachedFact(p) BY <1>0, RecordParts
  <2> QED BY <2>1, <1>1 DEF ProvisionFact, DetachedFact, Retiring, Group
<1>6. ASSUME NEW e \in Ends PROVE EndFact(e)'
  <2>1. EndFact(e) BY <1>0, RecordParts
  <2> QED BY <2>1, <1>1 DEF EndFact, Retiring, Group
<1> QED BY <1>0, <1>1, <1>4, <1>5, <1>6 DEF RecordFacts, HeldFact, Open

LEMMA OthersKeepRecords ==
  ASSUME FilesInvariant, ResidentInvariant, [FilesNext]_storeFilesVars, UNCHANGED recordVars
  PROVE  RecordFacts' /\ FenceFacts'
<1>0. RecordFacts /\ FenceFacts BY DEF ResidentInvariant
<1>t. lineage \in [Provisions -> Lineages] BY Typing
<1>1. UNCHANGED <<life, held, bind, target, fenced, marker>> BY DEF recordVars
<1>2. ASSUME NEW p \in Provisions PROVE lineage'[p] \in {lineage[p], NoLineage} \/ bind[p] # "none"
  <2>1. CASE UNCHANGED lineage BY <2>1
  <2>2. ASSUME NEW q \in Provisions, WriteLineage(q)
        PROVE  lineage'[p] \in {lineage[p], NoLineage} \/ bind[p] # "none"
    <3>1. CASE UNCHANGED lineage BY <3>1
    <3>2. CASE PublicationAuthorized(q) /\ lineage' = [lineage EXCEPT ![q] = wal[ThreadOf[q]].next]
      <4>1. bind[q] # "none" BY <3>2 DEF PublicationAuthorized, Commanding
      <4> QED BY <4>1, <3>2, <1>t
    <3> QED BY <2>2, <3>1, <3>2 DEF WriteLineage
  <2>3. CASE RemoveLineage BY <2>3, <1>t DEF RemoveLineage
  <2>4. ASSUME NEW q \in Provisions, NEW c \in Cursors, PreparePublication(q, c) PROVE UNCHANGED lineage
    BY <2>4 DEF PreparePublication
  <2>5. ASSUME NEW e \in Ends, PrepareEndProjection(e) PROVE UNCHANGED lineage BY <2>5 DEF PrepareEndProjection
  <2>6. ASSUME NEW o \in LifecycleOps, RemoveWal(o) PROVE UNCHANGED lineage BY <2>6 DEF RemoveWal
  <2> QED BY <2>1, <2>2, <2>3, <2>4, <2>5, <2>6, Writes DEF Written, ProjectionWrite
<1>3. \A e \in Ends : Retiring(e) <=> Retiring(e)' BY <1>1 DEF Retiring, Group
<1>4. ASSUME NEW p \in Provisions PROVE ProvisionFact(p)' /\ DetachedFact(p)'
  <2>1. ProvisionFact(p) /\ DetachedFact(p) BY <1>0, RecordParts
  <2>2. lineage'[p] = lineage[p] \/ lineage'[p] = NoLineage \/ bind[p] # "none" BY <1>2
  <2> QED BY <2>1, <2>2, <1>1, <1>3 DEF ProvisionFact, DetachedFact
<1>5. ASSUME NEW e \in Ends PROVE EndFact(e)'
  <2>1. EndFact(e) BY <1>0, RecordParts
  <2> QED BY <2>1, <1>1, <1>3 DEF EndFact
<1>6. RecordFacts' BY <1>0, <1>1, <1>4, <1>5 DEF RecordFacts, Open
<1>7. FenceFacts' BY <1>0, <1>1 DEF FenceFacts, Recorded, Group
<1> QED BY <1>6, <1>7

LEMMA RecordStep ==
  ASSUME FilesInvariant, ResidentInvariant, [FilesNext]_storeFilesVars
  PROVE  RecordFacts'
<1>1. CASE UNCHANGED recordVars BY <1>1, OthersKeepRecords
<1>2. ASSUME RecordWrite, UNCHANGED projectionVars PROVE RecordFacts'
  <2>1. ASSUME ResidentWrite PROVE RecordFacts'
    BY <2>1, <1>2, PrepareReservedKeepsRecords, ProvisionStepKeepsRecords, PrepareEndKeepsRecords,
       EndStepKeepsRecords, RetirementKeepsRecords DEF ResidentWrite
  <2>2. ASSUME NEW o \in LifecycleOps, QuarantineUnknown(o) \/ RecoverBefore(o) PROVE RecordFacts'
    BY <2>2, HoldKeepsRecords
  <2>3. WriteFence => RecordFacts' BY RetirementKeepsRecords
  <2> QED BY <1>2, <2>1, <2>2, <2>3 DEF RecordWrite
<1> QED BY <1>1, <1>2, RecordWrites DEF RecordOnly

(* What is fenced stays gone; a retirement's group is terminal.            *)
LEMMA FenceStep ==
  ASSUME FilesInvariant, ResidentInvariant, [FilesNext]_storeFilesVars
  PROVE  FenceFacts'
<1>0. FenceFacts BY DEF ResidentInvariant
<1>t. /\ life \in [LifecycleOps -> {"none"} \cup ProvisionStages \cup EndStages]
      /\ fenced \subseteq LifecycleOps
  BY Typing
<1>1. ASSUME retiring = "no", mode \in {"bootstrap", "after", "up"}, UNCHANGED <<fenced, marker>>,
             NEW o \in LifecycleOps, o \notin fenced, \A q \in LifecycleOps \ {o} : life'[q] = life[q]
      PROVE  FenceFacts'
  BY <1>1, <1>t, NothingRetires DEF FenceFacts, Recorded
<1>2. ASSUME NEW o \in LifecycleOps, Recorded(o), retiring = "no", mode \in {"bootstrap", "after", "up"}
      PROVE  o \notin fenced
  BY <1>2, NothingRetires
<1>3. ASSUME NEW b \in Bootstraps, PrepareReserved(b, Retirable # {}) PROVE FenceFacts'
  <2>1. call.job = "bootstrap" /\ retiring = "no" BY <1>3 DEF PrepareReserved, Step, Job
  <2>2. mode \in {"bootstrap", "up"} BY <2>1 DEF FilesInvariant, CallFacts
  <2>3. Reserves[b] \in LifecycleOps /\ Reserves[b] \notin fenced
    BY <1>3 DEF PrepareReserved, LifecycleDue, Registered
  <2>4. \A q \in LifecycleOps \ {Reserves[b]} : life'[q] = life[q] BY <1>3, <1>t, <2>3 DEF PrepareReserved
  <2>5. UNCHANGED <<fenced, marker>> BY <1>3 DEF PrepareReserved
  <2> QED BY <2>1, <2>2, <2>3, <2>4, <2>5, <1>1
<1>4. ASSUME NEW p \in Provisions, RegisterProvision(p, Retirable # {}) PROVE FenceFacts'
  <2>1. call.job = "provision" /\ call.op = p /\ retiring = "no" BY <1>4 DEF RegisterProvision, Step, Job
  <2>2. mode = "up" /\ p \notin fenced
    BY <2>1 DEF FilesInvariant, CallFacts, ResidentInvariant, ResidentCallFacts
  <2>3. \A q \in LifecycleOps \ {p} : life'[q] = life[q] BY <1>4, <1>t DEF RegisterProvision
  <2>4. UNCHANGED <<fenced, marker>> BY <1>4 DEF RegisterProvision
  <2> QED BY <2>1, <2>2, <2>3, <2>4, <1>1
<1>5. ASSUME NEW p \in Provisions,
             FailCreate(p) \/ ObservePromotion(p) \/ CommitProvision(p) \/ PublishSame(p) \/ WriteProof(p)
      PROVE  FenceFacts'
  <2>1. retiring = "no" /\ mode \in {"after", "up"}
    <3>1. CASE WriteProof(p)
      <4>1. call.job = "publish" /\ call.at = "proof" BY <3>1 DEF WriteProof, Step, Job
      <4> QED BY <4>1 DEF FilesInvariant, CallFacts
    <3> QED BY <3>1, <1>5 DEF FailCreate, ObservePromotion, CommitProvision, PublishSame, Ready
  <2>2. Recorded(p)
    BY <1>5 DEF FailCreate, ObservePromotion, CommitProvision, PublishSame, Leased, WriteProof, Step, Job, Recorded,
       FilesInvariant, CallFacts
  <2>3. \A q \in LifecycleOps \ {p} : life'[q] = life[q]
    BY <1>5, <1>t DEF FailCreate, ObservePromotion, CommitProvision, PublishSame, WriteProof
  <2>4. UNCHANGED <<fenced, marker>>
    BY <1>5 DEF FailCreate, ObservePromotion, CommitProvision, PublishSame, WriteProof
  <2> QED BY <2>1, <2>2, <2>3, <2>4, <1>1, <1>2
<1>6. ASSUME NEW e \in Ends, PrepareEnd(e) \/ AcknowledgeEnd(e) \/ CompleteEnd(e) PROVE FenceFacts'
  <2>1. retiring = "no" /\ mode \in {"after", "up"}
    <3>1. CASE CompleteEnd(e)
      <4>1. call.job = "end" /\ call.at = "complete" BY <3>1 DEF CompleteEnd, Step, Job
      <4> QED BY <4>1 DEF FilesInvariant, CallFacts
    <3> QED BY <3>1, <1>6 DEF PrepareEnd, AcknowledgeEnd, Ready
  <2>2. e \notin fenced
    <3>1. CASE PrepareEnd(e) BY <3>1 DEF PrepareEnd
    <3>2. CASE AcknowledgeEnd(e) \/ CompleteEnd(e)
      <4>1. Recorded(e)
        BY <3>2 DEF AcknowledgeEnd, CompleteEnd, Step, Job, FilesInvariant, CallFacts, Recorded
      <4> QED BY <4>1, <2>1, <1>2
    <3> QED BY <3>1, <3>2, <1>6
  <2>3. \A q \in LifecycleOps \ {e} : life'[q] = life[q]
    BY <1>6, <1>t DEF PrepareEnd, AcknowledgeEnd, CompleteEnd, OnThread
  <2>4. UNCHANGED <<fenced, marker>> BY <1>6 DEF PrepareEnd, AcknowledgeEnd, CompleteEnd
  <2> QED BY <2>1, <2>2, <2>3, <2>4, <1>1
<1>7. ASSUME NEW o \in LifecycleOps, QuarantineUnknown(o) \/ RecoverBefore(o) PROVE FenceFacts'
  <2>1. UNCHANGED <<life, target, fenced, marker>> BY <1>7 DEF QuarantineUnknown, RecoverBefore
  <2> QED BY <1>0, <2>1 DEF FenceFacts, Recorded, Group
<1> QED BY <1>3, <1>4, <1>5, <1>6, <1>7, OthersKeepRecords, RetirementKeepsRecords, RecordWrites
  DEF RecordOnly, RecordWrite, ResidentWrite

-----------------------------------------------------------------------------
(* What the threads show.                                                  *)

(* A step leaves what every thread shows, or changes one thread: it        *)
(* publishes, it projects an end over the session that ended, or it is a   *)
(* bootstrap's.                                                            *)
OnlyShows(t, v) == View(t)' = v /\ \A u \in Threads \ {t} : View(u)' = View(u)
Unshown == \A t \in Threads : View(t)' = View(t)
Placed(b) ==
    /\ b \in Bootstraps /\ ~AnyPending /\ UNCHANGED <<recordVars, projectionVars>>
    /\ \/ View(ThreadOf[b]) = NoView /\ OnlyShows(ThreadOf[b], Initial)
       \/ View(ThreadOf[b]) = Initial /\ OnlyShows(ThreadOf[b], NoView)
Published(p, c) == PreparePublication(p, c) /\ OnlyShows(ThreadOf[p], Live(p, c))
Projected(e) ==
    LET v == View(ThreadOf[e]) IN
    /\ PrepareEndProjection(e) /\ v.st = "live" /\ v.of = target[e]
    /\ OnlyShows(ThreadOf[e], Ended(e, v.at))
ViewChange ==
    \/ Unshown
    \/ \E b \in Bootstraps : Placed(b)
    \/ \E p \in Provisions, c \in Cursors : Published(p, c)
    \/ \E e \in Ends : Projected(e)

LEMMA ShownFiles ==
  ASSUME FilesInvariant, FileWrite, UNCHANGED <<residentVars, projectionVars>>, [FilesNext]_storeFilesVars
  PROVE  Unshown \/ \E b \in Bootstraps : Placed(b)
<1>s. snapshot \in [Threads -> Views] BY DEF FilesInvariant, FilesTypeOK
<1>1. UNCHANGED snapshot => Unshown BY DEF Unshown, View, Pending
<1>2. ASSUME NEW b \in Bootstraps, Place(b) PROVE Unshown \/ Placed(b)
  <2>1. PICK a \in Artifacts : Placing(b, a) /\ a \notin Present(ThreadOf[b]) /\ Write(ThreadOf[b], a)
    BY <1>2 DEF Place
  <2>2. CASE a # "snapshot" BY <2>1, <2>2, <1>1 DEF Write
  <2>3. CASE a = "snapshot"
    <3>1. snapshot[ThreadOf[b]] = NoView BY <2>1, <2>3, PresentIs
    <3>2. snapshot' = [snapshot EXCEPT ![ThreadOf[b]] = Initial] BY <2>1, <2>3 DEF Write
    <3>3. ~AnyPending
      <4>1. BootOpen(b) BY <2>1, PlacingNext
      <4> QED BY <4>1 DEF FilesInvariant, DurableFacts, AnyBootOpen
    <3>4. \A t \in Threads : ~Pending(t) /\ ~Pending(t)' BY <3>3 DEF AnyPending, Pending
    <3>5. UNCHANGED recordVars BY <1>2 DEF Place, recordVars
    <3> QED BY <3>1, <3>2, <3>3, <3>4, <3>5, <1>s DEF Placed, OnlyShows, View
  <2> QED BY <2>2, <2>3
<1>3. ASSUME NEW b \in Bootstraps, RemoveArtifact(b) PROVE Unshown \/ Placed(b)
  <2>1. CASE UNCHANGED files BY <2>1, <1>1
  <2>2. CASE ~UNCHANGED files
    <3>1. PICK a \in boot[b].remove \cap Present(ThreadOf[b]) :
            Undoing(b, a) /\ PlanCurrent(b) /\ Remove(ThreadOf[b], a)
      BY <1>3, <2>2 DEF RemoveArtifact
    <3>2. CASE a # "snapshot" BY <3>1, <3>2, <1>1 DEF Remove
    <3>3. CASE a = "snapshot"
      <4>1. snapshot[ThreadOf[b]] = Initial BY <3>1, <3>3, PresentIs DEF PlanCurrent, Exact
      <4>2. snapshot' = [snapshot EXCEPT ![ThreadOf[b]] = NoView] BY <3>1, <3>3 DEF Remove
      <4>3. ~AnyPending
        <5>1. BootOpen(b) BY <3>1, UndoingNext DEF BootOpen
        <5> QED BY <5>1 DEF FilesInvariant, DurableFacts, AnyBootOpen
      <4>4. \A t \in Threads : ~Pending(t) /\ ~Pending(t)' BY <4>3 DEF AnyPending, Pending
      <4>5. UNCHANGED recordVars BY <1>3 DEF RemoveArtifact, recordVars
      <4> QED BY <4>1, <4>2, <4>3, <4>4, <4>5, <1>s DEF Placed, OnlyShows, View
    <3> QED BY <3>2, <3>3
  <2> QED BY <2>1, <2>2
<1>4. ASSUME NEW o \in LifecycleOps, WriteSnapshot(o) PROVE Unshown
  <2>1. Pending(ThreadOf[o]) BY <1>4, PublishingIs
  <2>2. \A u \in Threads \ {ThreadOf[o]} : snapshot'[u] = snapshot[u] BY <1>4, <1>s DEF WriteSnapshot
  <2>3. \A u \in Threads : Pending(u)' <=> Pending(u) BY DEF Pending
  <2> QED BY <2>1, <2>2, <2>3 DEF Unshown, View, Pending
<1>5. ASSUME NEW b \in Bootstraps,
             \/ RecordPrepared(b) \/ Reactivate(b) \/ Claim(b) \/ Advance(b) \/ CommitBootstrap(b)
             \/ PlanRollback(b) \/ AdvanceRollback(b) \/ RetireRollback(b)
      PROVE  UNCHANGED snapshot
  BY <1>5 DEF RecordPrepared, Reactivate, Claim, Advance, CommitBootstrap, PlanRollback, AdvanceRollback, RetireRollback
<1>6. ASSUME NEW o \in LifecycleOps, WriteCatalog(o) PROVE UNCHANGED snapshot BY <1>6 DEF WriteCatalog
<1>7. ReleaseReservation \/ CompactBootstrap => UNCHANGED snapshot
  BY DEF ReleaseReservation, CompactBootstrap
<1> QED BY <1>1, <1>2, <1>3, <1>4, <1>5, <1>6, <1>7 DEF FileWrite

LEMMA Shown ==
  ASSUME FilesInvariant, [FilesNext]_storeFilesVars
  PROVE  ViewChange
<1>w. wal \in [Threads -> Transactions \cup {NoTx}] BY DEF FilesInvariant, FilesTypeOK
<1>1. CASE FileWrite /\ UNCHANGED <<residentVars, projectionVars>> BY <1>1, ShownFiles DEF ViewChange
<1>2. CASE UNCHANGED <<files, boot, projectionVars>>
  BY <1>2 DEF ViewChange, Unshown, View, Pending
<1>3. ASSUME NEW p \in Provisions, NEW c \in Cursors, PreparePublication(p, c) PROVE Published(p, c)
  <2>1. PICK tx : tx.view = Live(p, c) /\ tx.op = p /\ wal' = [wal EXCEPT ![ThreadOf[p]] = tx]
    BY <1>3 DEF PreparePublication
  <2>2. tx # NoTx BY <2>1
  <2>3. wal'[ThreadOf[p]] = tx /\ \A u \in Threads \ {ThreadOf[p]} : wal'[u] = wal[u] BY <2>1, <1>w
  <2>4. UNCHANGED snapshot BY <1>3 DEF PreparePublication
  <2> QED BY <1>3, <2>1, <2>2, <2>3, <2>4 DEF Published, OnlyShows, View, Pending
<1>4. ASSUME NEW e \in Ends, PrepareEndProjection(e) PROVE Unshown \/ Projected(e)
  <2>1. UNCHANGED snapshot BY <1>4 DEF PrepareEndProjection
  <2>2. CASE UNCHANGED wal BY <2>1, <2>2 DEF Unshown, View, Pending
  <2>3. CASE ~UNCHANGED wal
    <3> DEFINE t == ThreadOf[e]  s == snapshot[t]
    <3>1. PICK tx : tx.view = Ended(e, s.at) /\ tx.op = e /\ wal' = [wal EXCEPT ![t] = tx]
      BY <1>4, <2>3 DEF PrepareEndProjection
    <3>2. tx # NoTx BY <3>1
    <3>3. wal'[t] = tx /\ \A u \in Threads \ {t} : wal'[u] = wal[u] BY <3>1, <1>w
    <3>4. ~AnyPending BY <1>4, PreparedAlone
    <3>5. View(t) = s BY <3>4 DEF AnyPending, View
    <3>6. s.st = "live" /\ s.of = target[e] BY <1>4, <2>3 DEF PrepareEndProjection, SourceDiverges
    <3> HIDE DEF t, s
    <3>t. t = ThreadOf[e] BY DEF t
    <3> QED BY <1>4, <2>1, <3>1, <3>2, <3>3, <3>5, <3>6, <3>t DEF Projected, OnlyShows, View, Pending
  <2> QED BY <2>2, <2>3
<1>5. ASSUME NEW o \in LifecycleOps, RemoveWal(o) PROVE Unshown
  <2>1. Pending(ThreadOf[o]) /\ snapshot[ThreadOf[o]] = wal[ThreadOf[o]].view
    <3>1. ~WriteSnapshot(o) BY <1>5 DEF RemoveWal, WriteSnapshot, Publishing, Step, Job
    <3> QED BY <1>5, <3>1, PublishingIs
  <2>2. wal' = [wal EXCEPT ![ThreadOf[o]] = NoTx] /\ UNCHANGED snapshot BY <1>5 DEF RemoveWal
  <2>3. wal'[ThreadOf[o]] = NoTx /\ \A u \in Threads \ {ThreadOf[o]} : wal'[u] = wal[u] BY <2>2, <1>w
  <2> QED BY <2>1, <2>2, <2>3 DEF Unshown, View, Pending
<1>6. ASSUME NEW p \in Provisions, WriteLineage(p) PROVE UNCHANGED <<snapshot, wal>> BY <1>6 DEF WriteLineage
<1>7. RemoveLineage => UNCHANGED <<snapshot, wal>> BY DEF RemoveLineage
<1>8. UNCHANGED <<snapshot, wal>> => Unshown BY DEF Unshown, View, Pending
<1> QED BY <1>1, <1>2, <1>3, <1>4, <1>5, <1>6, <1>7, <1>8, Writes DEF Written, ProjectionWrite, ViewChange

(* While a publication is pending, only recovery and retirement write the  *)
(* registries.                                                             *)
LEMMA PendingAlone ==
  ASSUME FilesInvariant, AnyPending, RecordWrite
  PROVE  \/ \E b \in Bootstraps : PrepareReserved(b, Retirable # {})
         \/ \E o \in LifecycleOps : RecoverBefore(o)
         \/ BeginRetirement \/ WriteFence \/ RemoveBinding \/ RemoveOperation \/ RemoveMarker
<1>1. ~Ready BY DEF Ready, FilesInvariant, ModeFacts
<1>2. call.job # "provision" /\ ~(call.job \in {"publish", "end"} /\ call.at \in {"proof", "complete"})
  BY DEF FilesInvariant, CallFacts
<1>3. ASSUME NEW p \in Provisions
      PROVE  /\ ~RegisterProvision(p, Retirable # {}) /\ ~FailCreate(p) /\ ~ObservePromotion(p)
             /\ ~CommitProvision(p) /\ ~PublishSame(p) /\ ~WriteProof(p)
  BY <1>1, <1>2 DEF RegisterProvision, FailCreate, ObservePromotion, CommitProvision, PublishSame, WriteProof,
     Step, Job
<1>4. ASSUME NEW e \in Ends PROVE ~PrepareEnd(e) /\ ~AcknowledgeEnd(e) /\ ~CompleteEnd(e)
  BY <1>1, <1>2 DEF PrepareEnd, AcknowledgeEnd, CompleteEnd, Step, Job
<1>5. ASSUME NEW o \in LifecycleOps PROVE ~QuarantineUnknown(o) BY <1>1 DEF QuarantineUnknown
<1> QED BY <1>3, <1>4, <1>5 DEF RecordWrite, ResidentWrite

(* The writes of a retirement: what they take was over.                    *)
LEMMA RetirementTakes ==
  ASSUME FilesInvariant, ResidentInvariant,
         BeginRetirement \/ WriteFence \/ RemoveBinding \/ RemoveOperation \/ RemoveMarker
  PROVE  /\ \A p \in Provisions : bind'[p] = bind[p] \/ (bind[p] \in {"none", "completed"} /\ bind'[p] = "none")
         /\ \A o \in LifecycleOps :
               \/ life'[o] = life[o]
               \/ life[o] \in {"none", "failed", "committed", "completed"} /\ life'[o] = "none" /\ o \in fenced
                  /\ (o \in Provisions => bind[o] = "none")
         /\ fenced \subseteq fenced'
<1>t. /\ life \in [LifecycleOps -> {"none"} \cup ProvisionStages \cup EndStages]
      /\ bind \in [Provisions -> BindStates]
  BY Typing
<1>0. FenceFacts /\ RecordFacts BY DEF ResidentInvariant
<1>1. CASE BeginRetirement \/ WriteFence \/ RemoveMarker
  BY <1>1 DEF BeginRetirement, WriteFence, RemoveMarker
<1>2. CASE RemoveBinding
  <2>1. marker \in Ends /\ target[marker] \in Provisions BY <1>2, GroupFenced DEF RemoveBinding
  <2>2. EndFact(marker) /\ life[marker] \in {"completed", "none"} BY <1>0, <2>1, RecordParts DEF FenceFacts
  <2>3. target[marker] # NoOp BY <2>1
  <2>4. bind[target[marker]] \in {"none", "completed"} BY <2>2, <2>3 DEF EndFact
  <2> QED BY <1>2, <1>t, <2>1, <2>4 DEF RemoveBinding
<1>3. CASE RemoveOperation
  <2>1. Group(marker) \subseteq fenced /\ retiring \in {"predecessor", "terminal"}
    BY <1>3, GroupFenced DEF RemoveOperation
  <2>2. PICK o \in Group(marker) : life' = [life EXCEPT ![o] = "none"]
            /\ (o = marker \/ (marker \in Ends /\ o = target[marker]))
    BY <1>3, GroupFenced DEF RemoveOperation, Group
  <2>3. o \in LifecycleOps /\ o \in fenced BY <2>1, <2>2, Typing
  <2>4. \A q \in LifecycleOps : life'[q] = IF q = o THEN "none" ELSE life[q] BY <1>t, <2>2, <2>3
  <2>5. life[o] \in {"none", "failed", "committed", "completed"} BY <1>0, <2>2, <2>3 DEF FenceFacts
  <2>6. o \in Provisions => bind[o] = "none"
    <3>1. CASE marker \in Ends /\ o = target[marker]
      BY <3>1, <2>1 DEF ResidentInvariant, ResidentRetiringFacts
    <3>2. CASE o = marker /\ o \in Provisions
      <4>1. life[o] \in {"failed", "none"} /\ ProvisionFact(o) BY <1>0, <3>2, RecordParts DEF FenceFacts
      <4> QED BY <4>1 DEF ProvisionFact
    <3> QED BY <3>1, <3>2, <2>2
  <2>7. UNCHANGED <<bind, fenced>> BY <1>3 DEF RemoveOperation
  <2> QED BY <2>3, <2>4, <2>5, <2>6, <2>7
<1> QED BY <1>1, <1>2, <1>3

Following == {"activating", "active", "detached"}
Ending(e) == life[e] \in {"acknowledged", "completed"} \/ e \in fenced

(* A session that is shown goes on until its end is complete, and an end   *)
(* that is shown stays on record or behind the fence.                      *)
LEMMA ShownGoesOn ==
  ASSUME FilesInvariant, ResidentInvariant, [FilesNext]_storeFilesVars
  PROVE  /\ \A p \in Provisions : bind[p] \in Following =>
               bind'[p] \in Following \/ \E e \in Ends : CompleteEnd(e) /\ target[e] = p
         /\ \A e \in Ends : Ending(e) => Ending(e)'
<1>t. /\ life \in [LifecycleOps -> {"none"} \cup ProvisionStages \cup EndStages]
      /\ bind \in [Provisions -> BindStates]
  BY Typing
<1>0. RecordFacts BY DEF ResidentInvariant
<1> DEFINE G == /\ \A p \in Provisions : bind[p] \in Following =>
                     bind'[p] \in Following \/ \E e \in Ends : CompleteEnd(e) /\ target[e] = p
                /\ \A e \in Ends : Ending(e) => Ending(e)'
<1>1. CASE UNCHANGED recordVars BY <1>1 DEF recordVars, Ending
<1>2. ASSUME NEW o \in LifecycleOps, QuarantineUnknown(o) \/ RecoverBefore(o) PROVE G
  <2>1. UNCHANGED <<life, bind, fenced>> BY <1>2 DEF QuarantineUnknown, RecoverBefore
  <2> QED BY <2>1 DEF Ending
<1>3. ASSUME BeginRetirement \/ WriteFence \/ RemoveBinding \/ RemoveOperation \/ RemoveMarker PROVE G
  BY <1>3, RetirementTakes DEF Following, Ending
<1>4. ASSUME NEW b \in Bootstraps, PrepareReserved(b, Retirable # {}) PROVE G
  <2>1. UNCHANGED <<bind, fenced>> /\ \A e \in Ends : life'[e] = life[e]
    BY <1>4, <1>t DEF PrepareReserved, LifecycleDue, Registered
  <2> QED BY <2>1 DEF Ending
<1>5. ASSUME NEW p \in Provisions,
             \/ RegisterProvision(p, Retirable # {}) \/ FailCreate(p) \/ ObservePromotion(p)
             \/ CommitProvision(p) \/ PublishSame(p) \/ WriteProof(p)
      PROVE  G
  <2>1. UNCHANGED fenced /\ \A e \in Ends : life'[e] = life[e]
    BY <1>5, <1>t DEF RegisterProvision, FailCreate, ObservePromotion, CommitProvision, PublishSame, WriteProof
  <2>2. \A q \in Provisions : bind'[q] = bind[q] \/ bind'[q] \in Following
    BY <1>5, <1>t
    DEF RegisterProvision, FailCreate, ObservePromotion, CommitProvision, PublishSame, WriteProof, Following
  <2> QED BY <2>1, <2>2 DEF Ending
<1>6. ASSUME NEW e \in Ends, PrepareEnd(e) PROVE G
  <2>1. PICK p \in Provisions : life' = [life EXCEPT ![e] = "ending"] /\ bind' = [bind EXCEPT ![p] = "detached"]
    BY <1>6 DEF PrepareEnd, OnThread
  <2>2. ~Recorded(e) /\ e \notin fenced /\ UNCHANGED fenced BY <1>6 DEF PrepareEnd
  <2>3. \A d \in Ends \ {e} : life'[d] = life[d] BY <1>t, <2>1
  <2>4. \A q \in Provisions : bind'[q] = bind[q] \/ bind'[q] = "detached" BY <1>t, <2>1
  <2> QED BY <2>2, <2>3, <2>4 DEF Ending, Following, Recorded
<1>7. ASSUME NEW e \in Ends, AcknowledgeEnd(e) PROVE G
  BY <1>7, <1>t DEF AcknowledgeEnd, Ending
<1>8. ASSUME NEW e \in Ends, CompleteEnd(e) PROVE G
  <2>1. UNCHANGED fenced /\ \A d \in Ends \ {e} : life'[d] = life[d] BY <1>8, <1>t DEF CompleteEnd
  <2>2. life'[e] = "completed" BY <1>8, <1>t DEF CompleteEnd
  <2>3. \A q \in Provisions : bind'[q] = bind[q] \/ q = target[e] BY <1>8, <1>t DEF CompleteEnd
  <2> QED BY <1>8, <2>1, <2>2, <2>3 DEF Ending
<1> HIDE DEF G
<1>9. G BY <1>1, <1>2, <1>3, <1>4, <1>5, <1>6, <1>7, <1>8, RecordWrites
  DEF RecordOnly, RecordWrite, ResidentWrite, G
<1> QED BY <1>9 DEF G

LEMMA ViewParts ==
  ASSUME NEW t \in Threads
  PROVE  ViewFact(t) <=>
           /\ View(t).st = "none" => View(t) = NoView
           /\ View(t).st = "initial" => View(t) = Initial
           /\ View(t).st = "live" =>
                View(t).of \in Provisions /\ ThreadOf[View(t).of] = t /\ bind[View(t).of] \in Following
           /\ View(t).st = "ended" => View(t).of \in Ends /\ ThreadOf[View(t).of] = t /\ Ending(View(t).of)
  BY DEF ViewFact, Following, Ending


(* What a thread shows stays as it should.                                 *)
LEMMA ViewStep ==
  ASSUME FilesInvariant, ResidentInvariant, [FilesNext]_storeFilesVars, NEW t \in Threads
  PROVE  ViewFact(t)'
<1>t. /\ life \in [LifecycleOps -> {"none"} \cup ProvisionStages \cup EndStages]
      /\ bind \in [Provisions -> BindStates]
  BY Typing
<1>v. ViewFact(t) BY DEF ResidentInvariant
<1>p. (ViewFact(t))' <=>
        /\ View(t)'.st = "none" => View(t)' = NoView
        /\ View(t)'.st = "initial" => View(t)' = Initial
        /\ View(t)'.st = "live" =>
             View(t)'.of \in Provisions /\ ThreadOf[View(t)'.of] = t /\ bind'[View(t)'.of] \in Following
        /\ View(t)'.st = "ended" => View(t)'.of \in Ends /\ ThreadOf[View(t)'.of] = t
             /\ \A e \in Ends : View(t)'.of = e => Ending(e)'
  BY DEF ViewFact, Following, Ending
<1>1. ASSUME View(t)' = View(t) PROVE ViewFact(t)'
  <2> DEFINE v == View(t)
  <2>1. v.st = "none" => v = NoView BY <1>v, ViewParts
  <2>2. v.st = "initial" => v = Initial BY <1>v, ViewParts
  <2>3. ASSUME v.st = "live" PROVE v.of \in Provisions /\ ThreadOf[v.of] = t /\ bind'[v.of] \in Following
    <3>1. v.of \in Provisions /\ ThreadOf[v.of] = t /\ bind[v.of] \in Following BY <1>v, <2>3, ViewParts
    <3>2. ASSUME NEW e \in Ends, CompleteEnd(e), target[e] = v.of PROVE FALSE
      <4>1. call.job = "end" /\ call.op = e /\ call.at = "complete" BY <3>2 DEF CompleteEnd, Step, Job
      <4>2. snapshot[ThreadOf[e]].st = "ended" BY <4>1 DEF ResidentInvariant, ResidentCallFacts
      <4>3. ~AnyPending BY <4>1 DEF FilesInvariant, CallFacts
      <4>4. ThreadOf[e] = t
        BY <3>1, <3>2, IdentityAssumption DEF FilesInvariant, DurableFacts, TargetFacts
      <4> QED BY <2>3, <4>2, <4>3, <4>4 DEF View, AnyPending
    <3> QED BY <3>1, <3>2, ShownGoesOn
  <2>4. v.st = "ended" => v.of \in Ends /\ ThreadOf[v.of] = t /\ Ending(v.of) BY <1>v, ViewParts
  <2>5. \A e \in Ends : Ending(e) => Ending(e)' BY ShownGoesOn
  <2>6. v.st = "ended" => \A e \in Ends : v.of = e => Ending(e)' BY <2>4, <2>5
  <2> HIDE DEF v
  <2>7. View(t)' = v BY <1>1 DEF v
  <2> QED BY <1>p, <2>1, <2>2, <2>3, <2>4, <2>6, <2>7
<1>2. ASSUME NEW b \in Bootstraps, Placed(b) PROVE ViewFact(t)'
  <2>1. CASE t # ThreadOf[b] BY <1>1, <1>2, <2>1 DEF Placed, OnlyShows
  <2>2. CASE t = ThreadOf[b]
    <3>1. View(t)' \in {NoView, Initial} BY <1>2, <2>2 DEF Placed, OnlyShows
    <3> QED BY <1>p, <3>1 DEF NoView, Initial, Shows
  <2> QED BY <2>1, <2>2
<1>3. ASSUME NEW p \in Provisions, NEW c \in Cursors, Published(p, c) PROVE ViewFact(t)'
  <2>1. CASE t # ThreadOf[p] BY <1>1, <1>3, <2>1 DEF Published, OnlyShows
  <2>2. CASE t = ThreadOf[p]
    <3>1. View(t)' = Live(p, c) BY <1>3, <2>2 DEF Published, OnlyShows
    <3>2. View(t)'.st = "live" /\ View(t)'.of = p BY <3>1 DEF Live, Shows
    <3>3. bind'[p] \in Following
      BY <1>3 DEF Published, PreparePublication, Projecting, Leased, Following
    <3> QED BY <1>p, <2>2, <3>2, <3>3
  <2> QED BY <2>1, <2>2
<1>4. ASSUME NEW e \in Ends, Projected(e) PROVE ViewFact(t)'
  <2>1. CASE t # ThreadOf[e] BY <1>1, <1>4, <2>1 DEF Projected, OnlyShows
  <2>2. CASE t = ThreadOf[e]
    <3>1. View(t)' = Ended(e, View(t).at) BY <1>4, <2>2 DEF Projected, OnlyShows
    <3>2. View(t)'.st = "ended" /\ View(t)'.of = e BY <3>1 DEF Ended, Shows
    <3>3. call.job = "end" /\ call.op = e /\ UNCHANGED life
      BY <1>4 DEF Projected, PrepareEndProjection, Step, Job
    <3>4. life'[e] \in {"acknowledged", "completed"}
      BY <3>3 DEF ResidentInvariant, ResidentCallFacts
    <3>5. Ending(e)' BY <3>4 DEF Ending
    <3> QED BY <1>p, <2>2, <3>2, <3>5
  <2> QED BY <2>1, <2>2
<1> QED BY <1>1, <1>2, <1>3, <1>4, Shown DEF ViewChange, Unshown

(* A pending publication keeps its authority.                              *)
LEMMA PublishingStep ==
  ASSUME FilesInvariant, ResidentInvariant, [FilesNext]_storeFilesVars, NEW t \in Threads
  PROVE  PublishingFact(t)'
<1>t. /\ life \in [LifecycleOps -> {"none"} \cup ProvisionStages \cup EndStages]
      /\ bind \in [Provisions -> BindStates] /\ wal \in [Threads -> Transactions \cup {NoTx}]
  BY DEF FilesInvariant, FilesTypeOK
<1>v. PublishingFact(t) /\ PendingFact(t) BY DEF ResidentInvariant, FilesInvariant, DurableFacts
<1>c. RecordFacts BY DEF ResidentInvariant
<1>1. ASSUME UNCHANGED <<life, bind>>, wal'[t] \in {wal[t], NoTx} PROVE PublishingFact(t)'
  BY <1>1, <1>v DEF PublishingFact, Pending
<1>2. ASSUME wal'[t] = wal[t] PROVE PublishingFact(t)'
  <2>1. CASE ~Pending(t) BY <1>2, <2>1 DEF PublishingFact, Pending
  <2>2. CASE UNCHANGED recordVars BY <1>1, <1>2, <2>2 DEF recordVars
  <2>3. CASE Pending(t) /\ RecordWrite
    <3> DEFINE o == wal[t].op
    <3>0. AnyPending BY <2>3 DEF AnyPending
    <3>1. o \in LifecycleOps BY <1>t, <2>3 DEF Pending, Transactions
    <3>2. /\ o \in Provisions => IF wal[t].lease THEN life[o] \in {"promoted", "published"} ELSE bind[o] = "active"
          /\ o \in Ends => life[o] = "acknowledged" /\ wal[t].view.of = o
      BY <1>v, <2>3 DEF PublishingFact
    <3>3. ASSUME life'[o] = life[o], o \in Provisions => bind'[o] = bind[o] PROVE PublishingFact(t)'
      BY <1>2, <3>2, <3>3 DEF PublishingFact, Pending
    <3>4. ASSUME NEW b \in Bootstraps, PrepareReserved(b, Retirable # {}) PROVE PublishingFact(t)'
      <4>1. UNCHANGED bind BY <3>4 DEF PrepareReserved
      <4>2. CASE UNCHANGED life BY <3>3, <4>1, <4>2
      <4>3. CASE ~UNCHANGED life
        <5>1. life' = [life EXCEPT ![Reserves[b]] = "creating"] /\ life[Reserves[b]] = "none"
          BY <3>4, <4>3 DEF PrepareReserved, LifecycleDue, Recorded
        <5>2. Reserves[b] \in Provisions BY <3>4 DEF PrepareReserved, LifecycleDue, Registered
        <5>3. ProvisionFact(Reserves[b]) BY <1>c, <5>2, RecordParts
        <5>4. bind[Reserves[b]] = "none" BY <5>1, <5>3 DEF ProvisionFact
        <5>5. o # Reserves[b] BY <3>2, <5>1, <5>2, <5>4
        <5>6. life'[o] = life[o] BY <1>t, <3>1, <5>1, <5>5
        <5> QED BY <3>3, <4>1, <5>6
      <4> QED BY <4>2, <4>3
    <3>5. ASSUME NEW q \in LifecycleOps, RecoverBefore(q) PROVE PublishingFact(t)'
      BY <3>3, <3>5 DEF RecoverBefore
    <3>6. ASSUME BeginRetirement \/ WriteFence \/ RemoveBinding \/ RemoveOperation \/ RemoveMarker
          PROVE  PublishingFact(t)'
      <4>1. o \in Provisions => ProvisionFact(o) BY <1>c, RecordParts
      <4>2. o \in Provisions => bind[o] \in {"activating", "active"} BY <3>2, <4>1 DEF ProvisionFact
      <4>3. o \in Provisions => bind'[o] = bind[o] BY <3>6, <4>2, RetirementTakes
      <4>4. life'[o] = life[o]
        BY <3>1, <3>2, <3>6, <4>2, RetirementTakes
      <4> QED BY <3>3, <4>3, <4>4
    <3> QED BY <2>3, <3>0, <3>4, <3>5, <3>6, PendingAlone
  <2> QED BY <2>1, <2>2, <2>3, RecordWrites DEF RecordOnly
<1>3. ASSUME NEW p \in Provisions, NEW c \in Cursors, PreparePublication(p, c) PROVE PublishingFact(t)'
  <2>1. UNCHANGED <<life, bind>> /\ Projecting(p) BY <1>3 DEF PreparePublication
  <2>2. CASE t # ThreadOf[p] BY <1>1, <1>3, <2>1, <2>2, PreparedIs
  <2>3. CASE t = ThreadOf[p]
    <3>1. PICK tx : tx.op = p /\ tx.lease = Leased(p) /\ wal' = [wal EXCEPT ![t] = tx]
      BY <1>3, <2>3 DEF PreparePublication
    <3>2. wal'[t] = tx BY <1>t, <3>1
    <3>3. p \notin Ends OBVIOUS
    <3> QED BY <2>1, <3>1, <3>2, <3>3 DEF PublishingFact, Projecting, Leased
  <2> QED BY <2>2, <2>3
<1>4. ASSUME NEW e \in Ends, PrepareEndProjection(e) PROVE PublishingFact(t)'
  <2>1. UNCHANGED <<life, bind>> BY <1>4 DEF PrepareEndProjection
  <2>2. CASE t # ThreadOf[e] \/ UNCHANGED wal
    <3>1. e \in LifecycleOps OBVIOUS
    <3>2. CASE t # ThreadOf[e]
      <4>1. \A u \in Threads \ {ThreadOf[e]} : wal'[u] = wal[u] BY <1>4, <3>1, PreparedIs
      <4> QED BY <1>1, <2>1, <3>2, <4>1
    <3>3. CASE UNCHANGED wal BY <1>1, <2>1, <3>3
    <3> QED BY <2>2, <3>2, <3>3
  <2>3. CASE t = ThreadOf[e] /\ ~UNCHANGED wal
    <3>1. PICK tx : tx.op = e /\ tx.view = Ended(e, snapshot[t].at) /\ wal' = [wal EXCEPT ![t] = tx]
      BY <1>4, <2>3 DEF PrepareEndProjection
    <3>2. wal'[t] = tx /\ tx.view.of = e BY <1>t, <3>1 DEF Ended, Shows
    <3>3. snapshot[t].st = "live" /\ snapshot[t].of = target[e]
      BY <1>4, <2>3 DEF PrepareEndProjection, SourceDiverges
    <3>4. View(t) = snapshot[t] BY <1>4, PreparedAlone DEF View, AnyPending
    <3>5. bind[target[e]] \in Following BY <3>3, <3>4, ViewParts DEF ResidentInvariant
    <3>6. EndFact(e) BY <1>c, RecordParts
    <3>7. call.job = "end" /\ call.op = e BY <1>4 DEF PrepareEndProjection, Step, Job
    <3>8. life[e] \in {"acknowledged", "completed"} BY <3>7 DEF ResidentInvariant, ResidentCallFacts
    <3>9. life[e] = "acknowledged" BY <3>5, <3>6, <3>8 DEF EndFact, Following
    <3>10. e \notin Provisions OBVIOUS
    <3> QED BY <2>1, <3>1, <3>2, <3>9, <3>10 DEF PublishingFact
  <2> QED BY <2>2, <2>3
<1>5. ASSUME NEW o \in LifecycleOps, RemoveWal(o) PROVE PublishingFact(t)'
  <2>1. UNCHANGED <<life, bind>> /\ wal' = [wal EXCEPT ![ThreadOf[o]] = NoTx] BY <1>5 DEF RemoveWal
  <2>2. wal'[t] \in {wal[t], NoTx} BY <1>t, <2>1
  <2> QED BY <1>1, <2>1, <2>2
<1>6. ASSUME NEW p \in Provisions, WriteLineage(p) PROVE UNCHANGED wal BY <1>6 DEF WriteLineage
<1>7. RemoveLineage => UNCHANGED wal BY DEF RemoveLineage
<1> QED BY <1>2, <1>3, <1>4, <1>5, <1>6, <1>7, Writes DEF Written, ProjectionWrite

-----------------------------------------------------------------------------
(* Reservations.                                                           *)

(* Only a preparation puts an operation on record, only a retirement       *)
(* takes one off, and only a fence fences.                                 *)
LEMMA RecordedMoves ==
  ASSUME FilesInvariant, ResidentInvariant, [FilesNext]_storeFilesVars, NEW p \in Provisions
  PROVE  /\ Recorded(p)' /\ ~Recorded(p) =>
              \/ RegisterProvision(p, Retirable # {})
              \/ \E b \in Bootstraps : PrepareReserved(b, Retirable # {}) /\ Reserves[b] = p /\ p \notin fenced
         /\ Recorded(p) /\ ~Recorded(p)' => RemoveOperation /\ p \in Group(marker)
         /\ p \in fenced' /\ p \notin fenced => WriteFence /\ Recorded(p)
<1>t. life \in [LifecycleOps -> {"none"} \cup ProvisionStages \cup EndStages]
  BY Typing
<1>0. RecordFacts /\ FenceFacts BY DEF ResidentInvariant
<1> DEFINE G == /\ Recorded(p)' /\ ~Recorded(p) =>
                     \/ RegisterProvision(p, Retirable # {})
                     \/ \E b \in Bootstraps : PrepareReserved(b, Retirable # {}) /\ Reserves[b] = p /\ p \notin fenced
                /\ Recorded(p) /\ ~Recorded(p)' => RemoveOperation /\ p \in Group(marker)
                /\ p \in fenced' /\ p \notin fenced => WriteFence /\ Recorded(p)
<1>1. CASE UNCHANGED recordVars BY <1>1 DEF recordVars, Recorded
<1>2. ASSUME NEW o \in LifecycleOps, QuarantineUnknown(o) \/ RecoverBefore(o) PROVE G
  BY <1>2 DEF QuarantineUnknown, RecoverBefore, Recorded
<1>3. ASSUME BeginRetirement \/ RemoveBinding \/ RemoveMarker PROVE G
  BY <1>3 DEF BeginRetirement, RemoveBinding, RemoveMarker, Recorded
<1>4. CASE WriteFence
  <2>1. UNCHANGED life /\ (fenced' = fenced \/ fenced' = fenced \cup Group(marker)) BY <1>4 DEF WriteFence
  <2>2. ASSUME p \in Group(marker), p \notin fenced PROVE Recorded(p)
    <3>1. p = marker \/ (marker \in Ends /\ p = target[marker])
      BY <2>2 DEF Group
    <3> QED BY <1>0, <2>2, <3>1 DEF FenceFacts, Recorded
  <2> QED BY <1>4, <2>1, <2>2 DEF Recorded
<1>5. CASE RemoveOperation
  <2>1. UNCHANGED fenced BY <1>5 DEF RemoveOperation
  <2>2. PICK o \in Group(marker) : life' = [life EXCEPT ![o] = "none"]
    BY <1>5, GroupFenced DEF RemoveOperation, Group
  <2>3. p # o => life'[p] = life[p] BY <1>t, <2>2
  <2>4. life'[p] = life[p] \/ life'[p] = "none" BY <1>t, <2>2
  <2> QED BY <1>5, <2>1, <2>2, <2>3, <2>4 DEF Recorded
<1>6. ASSUME NEW b \in Bootstraps, PrepareReserved(b, Retirable # {}) PROVE G
  <2>1. UNCHANGED fenced /\ (UNCHANGED life \/ life' = [life EXCEPT ![Reserves[b]] = "creating"])
    BY <1>6 DEF PrepareReserved
  <2>2. Reserves[b] \notin fenced BY <1>6 DEF PrepareReserved, LifecycleDue
  <2>3. life'[p] = life[p] \/ (Reserves[b] = p /\ life'[p] = "creating") BY <1>t, <2>1
  <2> QED BY <1>6, <2>1, <2>2, <2>3 DEF Recorded
<1>7. ASSUME NEW q \in Provisions, RegisterProvision(q, Retirable # {}) PROVE G
  <2>1. UNCHANGED fenced /\ life' = [life EXCEPT ![q] = "creating"]
    BY <1>7 DEF RegisterProvision
  <2>2. life'[p] = life[p] \/ (q = p /\ life'[p] = "creating") BY <1>t, <2>1
  <2> QED BY <1>7, <2>1, <2>2 DEF Recorded
<1>8. ASSUME NEW q \in Provisions,
             \/ FailCreate(q) \/ ObservePromotion(q) \/ CommitProvision(q) \/ PublishSame(q) \/ WriteProof(q)
      PROVE  G
  <2>1. UNCHANGED fenced
    BY <1>8 DEF FailCreate, ObservePromotion, CommitProvision, PublishSame, WriteProof
  <2>2. Recorded(q)
    <3>1. WriteProof(q) => call.job = "publish" /\ call.at = "proof" /\ call.op = q BY DEF WriteProof, Step, Job
    <3>2. WriteProof(q) => Recorded(q) BY <3>1 DEF ResidentInvariant, ResidentCallFacts, Recorded
    <3> QED BY <1>8, <3>2 DEF FailCreate, ObservePromotion, CommitProvision, PublishSame, Leased, Recorded
  <2>3. \E s \in {"failed", "promoted", "committed", "published"} : life' = [life EXCEPT ![q] = s]
    BY <1>8 DEF FailCreate, ObservePromotion, CommitProvision, PublishSame, WriteProof
  <2>4. life'[p] = life[p] \/ (q = p /\ life'[p] \in {"failed", "promoted", "committed", "published"})
    BY <1>t, <2>3
  <2> QED BY <2>1, <2>2, <2>4 DEF Recorded
<1>9. ASSUME NEW e \in Ends, PrepareEnd(e) \/ AcknowledgeEnd(e) \/ CompleteEnd(e) PROVE G
  <2>1. UNCHANGED fenced BY <1>9 DEF PrepareEnd, AcknowledgeEnd, CompleteEnd
  <2>2. \E s \in {"ending", "acknowledged", "completed"} : life' = [life EXCEPT ![e] = s]
    BY <1>9 DEF PrepareEnd, AcknowledgeEnd, CompleteEnd
  <2>3. p # e OBVIOUS
  <2>4. life'[p] = life[p] BY <1>t, <2>2, <2>3
  <2> QED BY <2>1, <2>4 DEF Recorded
<1> HIDE DEF G
<1>10. G BY <1>1, <1>2, <1>3, <1>4, <1>5, <1>6, <1>7, <1>8, <1>9, RecordWrites
  DEF RecordOnly, RecordWrite, ResidentWrite, G
<1> QED BY <1>10 DEF G

(* The same of what a provision may still change.                          *)
LEMMA OpenMoves ==
  ASSUME FilesInvariant, ResidentInvariant, [FilesNext]_storeFilesVars, NEW p \in Provisions,
         Open(p)', ~Open(p)
  PROVE  \/ RegisterProvision(p, Retirable # {})
         \/ \E b \in Bootstraps :
               PrepareReserved(b, Retirable # {}) /\ Reserves[b] = p /\ \A o \in LifecycleOps : ~Open(o)
<1>t. /\ life \in [LifecycleOps -> {"none"} \cup ProvisionStages \cup EndStages]
      /\ bind \in [Provisions -> BindStates]
  BY Typing
<1>0. RecordFacts /\ FenceFacts BY DEF ResidentInvariant
<1>1. ~UNCHANGED recordVars BY DEF recordVars, Open
<1>2. ASSUME NEW o \in LifecycleOps PROVE ~QuarantineUnknown(o) /\ ~RecoverBefore(o)
  BY DEF QuarantineUnknown, RecoverBefore, Open
<1>3. ASSUME BeginRetirement \/ WriteFence \/ RemoveBinding \/ RemoveOperation \/ RemoveMarker PROVE FALSE
  BY <1>3, RetirementTakes DEF Open, OpenStages
<1>4. ASSUME NEW b \in Bootstraps, PrepareReserved(b, Retirable # {})
      PROVE  Reserves[b] = p /\ \A o \in LifecycleOps : ~Open(o)
  <2>1. UNCHANGED bind BY <1>4 DEF PrepareReserved
  <2>2. life' = [life EXCEPT ![Reserves[b]] = "creating"] /\ ReservationFree(b)
    BY <1>4, <2>1 DEF PrepareReserved, Open
  <2>3. Reserves[b] = p BY <1>t, <2>1, <2>2 DEF Open
  <2>4. \A o \in LifecycleOps : ~Open(o) BY <1>0, <2>2, <2>3, OpenIs DEF ReservationFree
  <2> QED BY <2>3, <2>4
<1>5. ASSUME NEW q \in Provisions, RegisterProvision(q, Retirable # {}) PROVE q = p
  BY <1>5, <1>t DEF RegisterProvision, Open
<1>6. ASSUME NEW q \in Provisions,
             \/ FailCreate(q) \/ ObservePromotion(q) \/ CommitProvision(q) \/ PublishSame(q) \/ WriteProof(q)
      PROVE  FALSE
  <2>1. WriteProof(q) => call.job = "publish" /\ call.at = "proof" /\ call.op = q BY DEF WriteProof, Step, Job
  <2>2. WriteProof(q) => life[q] \in {"promoted", "published"} BY <2>1 DEF ResidentInvariant, ResidentCallFacts
  <2>3. life[q] \in {"creating", "promoted", "published"}
    BY <1>6, <2>2 DEF FailCreate, ObservePromotion, CommitProvision, PublishSame, Leased
  <2>4. Open(q) BY <2>3 DEF Open, OpenStages
  <2>5. p # q BY <2>4
  <2>6. \E s \in {"failed", "promoted", "committed", "published"} : life' = [life EXCEPT ![q] = s]
    BY <1>6 DEF FailCreate, ObservePromotion, CommitProvision, PublishSame, WriteProof
  <2>7. UNCHANGED bind \/ \E s \in BindStates : bind' = [bind EXCEPT ![q] = s]
    BY <1>6 DEF FailCreate, ObservePromotion, CommitProvision, PublishSame, WriteProof, BindStates
  <2>8. life'[p] = life[p] BY <1>t, <2>5, <2>6
  <2>9. bind'[p] = bind[p] BY <1>t, <2>5, <2>7
  <2> QED BY <2>8, <2>9 DEF Open
<1>7. ASSUME NEW e \in Ends, PrepareEnd(e) \/ AcknowledgeEnd(e) \/ CompleteEnd(e) PROVE FALSE
  <2>1. \E s \in {"ending", "acknowledged", "completed"} : life' = [life EXCEPT ![e] = s]
    BY <1>7 DEF PrepareEnd, AcknowledgeEnd, CompleteEnd
  <2>2. p # e OBVIOUS
  <2>3. life'[p] = life[p] BY <1>t, <2>1, <2>2
  <2>4. UNCHANGED bind \/ \E q \in Provisions \cup {NoOp}, s \in {"detached", "completed"} : bind' = [bind EXCEPT ![q] = s]
    BY <1>7, Typing DEF PrepareEnd, AcknowledgeEnd, CompleteEnd, OnThread
  <2>5. bind'[p] = bind[p] \/ bind'[p] \in {"detached", "completed"} BY <1>t, <2>4
  <2> QED BY <2>3, <2>5 DEF Open
<1> QED BY <1>1, <1>2, <1>3, <1>4, <1>5, <1>6, <1>7, RecordWrites
  DEF RecordOnly, RecordWrite, ResidentWrite

(* How the record of a bootstrap moves.                                    *)
LEMMA BootMoves ==
  ASSUME FilesInvariant, ResidentInvariant, [FilesNext]_storeFilesVars, NEW b \in Bootstraps
  PROVE  \/ boot'[b].phase = boot[b].phase /\ (boot[b].released => boot'[b].released)
         \/ RecordPrepared(b) /\ boot[b].phase = "none" /\ boot'[b].phase = "open"
         \/ Reactivate(b) /\ boot[b].phase = "retired" /\ boot'[b].phase = "open"
         \/ CommitBootstrap(b) /\ boot[b].phase = "open" /\ boot'[b].phase = "committed"
         \/ PlanRollback(b) /\ boot[b].phase = "open" /\ boot'[b].phase = "undoing"
         \/ RetireRollback(b) /\ boot[b].phase = "undoing" /\ boot'[b].phase = "retired"
         \/ CompactBootstrap /\ boot'[b].phase = "none" /\ Reserves[b] \in fenced /\ ~Recorded(Reserves[b])
<1>t. boot \in [Bootstraps -> BootRecords] BY DEF FilesInvariant, FilesTypeOK
<1> DEFINE Same == boot'[b].phase = boot[b].phase /\ (boot[b].released => boot'[b].released)
<1>1. CASE UNCHANGED boot BY <1>1
<1>2. ASSUME NEW c \in Bootstraps, c # b,
             \/ RecordPrepared(c) \/ Reactivate(c) \/ Claim(c) \/ Place(c) \/ Advance(c) \/ CommitBootstrap(c)
             \/ PlanRollback(c) \/ RemoveArtifact(c) \/ AdvanceRollback(c) \/ RetireRollback(c)
      PROVE  Same
  <2>1. FilesTypeOK BY DEF FilesInvariant
  <2>2. \A d \in Bootstraps \ {c} : boot'[d] = boot[d] BY <1>2, <2>1, OneRecord
  <2> QED BY <1>2, <2>2
<1>3. CASE RecordPrepared(b)
  <2>1. call.job = "bootstrap" /\ call.op = b /\ call.at = "write" BY <1>3 DEF RecordPrepared, Step, Job
  <2>2. boot'[b] = Opened(ThreadOf[b]) BY <1>3, <1>t DEF RecordPrepared
  <2> QED BY <1>3, <2>1, <2>2 DEF ResidentInvariant, ResidentCallFacts, Opened, NoRecord
<1>4. CASE Reactivate(b)
  <2>1. boot'[b] = Opened(ThreadOf[b]) BY <1>4, <1>t DEF Reactivate
  <2> QED BY <1>4, <2>1 DEF Reactivate, Opened, NoRecord
<1>5. CASE Claim(b) \/ Place(b) \/ Advance(b) \/ RemoveArtifact(b) \/ AdvanceRollback(b)
  BY <1>5, <1>t DEF Claim, Place, Advance, RemoveArtifact, AdvanceRollback, BootRecords
<1>6. CASE CommitBootstrap(b)
  <2>1. call.job = "bootstrap" /\ call.op = b /\ call.at = "place" BY <1>6 DEF CommitBootstrap, Step, Job
  <2>2. boot[b].phase = "open" BY <2>1 DEF FilesInvariant, CallFacts
  <2> QED BY <1>6, <1>t, <2>2 DEF CommitBootstrap, BootRecords
<1>7. CASE PlanRollback(b)
  <2>1. call.job = "bootstrap" /\ call.op = b /\ call.at = "plan" BY <1>7 DEF PlanRollback, Step, Job
  <2>2. boot[b].phase \in {"open", "committed"} BY <2>1 DEF FilesInvariant, CallFacts
  <2>3. UNCHANGED boot \/ boot'[b].phase = "undoing" BY <1>7, PlannedIs DEF FilesInvariant
  <2>4. boot[b].phase = "committed" => UNCHANGED boot BY <1>7 DEF PlanRollback, Committed
  <2> QED BY <1>7, <2>2, <2>3, <2>4
<1>8. CASE RetireRollback(b)
  <2>1. call.job = "bootstrap" /\ call.op = b /\ call.at = "undo" BY <1>8 DEF RetireRollback, Step, Job
  <2>2. boot[b].phase = "undoing" BY <2>1 DEF FilesInvariant, CallFacts
  <2> QED BY <1>8, <1>t, <2>2 DEF RetireRollback, BootRecords
<1>9. CASE ReleaseReservation BY <1>9, <1>t DEF ReleaseReservation, BootRecords
<1>10. CASE CompactBootstrap
  <2>1. boot'[b] = IF b \in Releases THEN NoRecord ELSE boot[b] BY <1>10 DEF CompactBootstrap
  <2>2. CASE b \notin Releases BY <2>1, <2>2
  <2>3. CASE b \in Releases
    <3>1. retiring = "compact" /\ Reserves[b] \in Group(marker) BY <1>10, <2>3 DEF CompactBootstrap, Releases
    <3>2. Group(marker) \subseteq fenced /\ ~Recorded(marker) BY <3>1, GroupFenced
    <3>3. marker \in Ends => life[target[marker]] = "none" BY <3>1 DEF ResidentInvariant, ResidentRetiringFacts
    <3>4. ~Recorded(Reserves[b]) BY <3>1, <3>2, <3>3 DEF Group, Recorded
    <3> QED BY <1>10, <2>1, <2>3, <3>1, <3>2, <3>4 DEF NoRecord
  <2> QED BY <2>2, <2>3
<1>11. ASSUME NEW o \in LifecycleOps, WriteSnapshot(o) \/ WriteCatalog(o) PROVE UNCHANGED boot
  BY <1>11 DEF WriteSnapshot, WriteCatalog
<1> QED BY <1>1, <1>2, <1>3, <1>4, <1>5, <1>6, <1>7, <1>8, <1>9, <1>10, <1>11, Writes DEF Written, FileWrite

LEMMA ReservationParts ==
  ASSUME NEW b \in Bootstraps
  PROVE  ReservationFact(b) <=> (Registered(b) =>
           /\ Recorded(Reserves[b]) => Committed(b)
           /\ Reserves[b] \in fenced =>
                boot[b].phase = "none" \/ (Committed(b) /\ (boot[b].released \/ Recorded(Reserves[b])))
           /\ Open(Reserves[b]) => \A q \in Provisions \ {Reserves[b]} : ~Open(q))
  BY DEF ReservationFact

LEMMA ReservationStep ==
  ASSUME FilesInvariant, ResidentInvariant, [FilesNext]_storeFilesVars, NEW b \in Bootstraps
  PROVE  ReservationFact(b)'
<1> SUFFICES ASSUME Registered(b) PROVE ReservationFact(b)' BY DEF ReservationFact, Registered
<1> DEFINE p == Reserves[b]
<1>p. p \in Provisions BY DEF Registered
<1>c. RecordFacts BY DEF ResidentInvariant
<1>f. /\ Recorded(p) => Committed(b)
      /\ p \in fenced => boot[b].phase = "none" \/ (Committed(b) /\ (boot[b].released \/ Recorded(p)))
      /\ Open(p) => \A q \in Provisions \ {p} : ~Open(q)
  BY ReservationParts DEF ResidentInvariant
<1>m. /\ Recorded(p)' /\ ~Recorded(p) =>
           \/ RegisterProvision(p, Retirable # {})
           \/ \E c \in Bootstraps : PrepareReserved(c, Retirable # {}) /\ Reserves[c] = p /\ p \notin fenced
      /\ Recorded(p) /\ ~Recorded(p)' => RemoveOperation /\ p \in Group(marker)
      /\ p \in fenced' /\ p \notin fenced => WriteFence /\ Recorded(p)
  BY <1>p, RecordedMoves
<1>n. ~RegisterProvision(p, Retirable # {})
  <2> SUFFICES ASSUME RegisterProvision(p, Retirable # {}) PROVE FALSE OBVIOUS
  <2>1. call.job = "provision" /\ call.op = p BY DEF RegisterProvision, Step, Job
  <2>2. ~Reserved(p) BY <2>1 DEF ResidentInvariant, ResidentCallFacts
  <2> QED BY <2>2 DEF Reserved
<1>e. ASSUME NEW c \in Bootstraps, PrepareReserved(c, Retirable # {}), Reserves[c] = p, p \notin fenced
      PROVE  Committed(b)' /\ UNCHANGED boot
  <2>1. b = c BY <1>e DEF Registered
  <2>2. call.job = "bootstrap" /\ call.op = b /\ call.at = "lifecycle" BY <1>e, <2>1 DEF PrepareReserved, Step, Job
  <2>3. Committed(b) BY <1>e, <2>2 DEF FilesInvariant, CallFacts
  <2> QED BY <1>e, <2>3 DEF PrepareReserved, Committed
<1>w. WriteFence \/ RemoveOperation => UNCHANGED boot BY DEF WriteFence, RemoveOperation
<1>1. Recorded(p)' => Committed(b)'
  <2> SUFFICES ASSUME Recorded(p)' PROVE Committed(b)' OBVIOUS
  <2>1. CASE ~Recorded(p) BY <2>1, <1>m, <1>n, <1>e
  <2>2. CASE Recorded(p)
    <3>1. boot[b].phase = "committed" BY <1>f, <2>2 DEF Committed
    <3>2. boot'[b].phase = "committed" BY <2>2, <3>1, BootMoves
    <3> QED BY <3>2 DEF Committed
  <2> QED BY <2>1, <2>2
<1>2. p \in fenced' => boot'[b].phase = "none" \/ (Committed(b)' /\ (boot'[b].released \/ Recorded(p)'))
  <2> SUFFICES ASSUME p \in fenced' PROVE boot'[b].phase = "none" \/ (Committed(b)' /\ (boot'[b].released \/ Recorded(p)'))
    OBVIOUS
  <2>1. CASE p \notin fenced
    <3>1. WriteFence /\ Recorded(p) BY <1>m, <2>1
    <3>2. UNCHANGED life /\ UNCHANGED boot BY <3>1 DEF WriteFence
    <3> QED BY <1>f, <3>1, <3>2 DEF Recorded, Committed
  <2>2. CASE p \in fenced /\ boot[b].phase = "none"
    <3>1. CASE RecordPrepared(b)
      <4>1. call.job = "bootstrap" /\ call.op = b /\ call.at = "write" BY <3>1 DEF RecordPrepared, Step, Job
      <4> QED BY <2>2, <4>1 DEF ResidentInvariant, ResidentCallFacts
    <3>2. CASE ~RecordPrepared(b) BY <2>2, <3>2, BootMoves
    <3> QED BY <3>1, <3>2
  <2>3. CASE p \in fenced /\ Committed(b) /\ (boot[b].released \/ Recorded(p))
    <3>1. \/ boot'[b].phase = "none"
          \/ boot'[b].phase = "committed" /\ (boot[b].released => boot'[b].released)
      BY <2>3, BootMoves DEF Committed
    <3>2. CASE Recorded(p) /\ ~Recorded(p)'
      <4>1. RemoveOperation /\ p \in Group(marker) BY <1>m, <3>2
      <4>2. b \in Releases BY <2>3, <4>1 DEF Releases, Reservations
      <4>3. retiring \in {"predecessor", "terminal"} BY <4>1 DEF RemoveOperation
      <4>4. boot[b].released BY <4>2, <4>3 DEF ResidentInvariant, ResidentRetiringFacts
      <4> QED BY <3>1, <4>4 DEF Committed
    <3>3. CASE ~(Recorded(p) /\ ~Recorded(p)') BY <2>3, <3>1, <3>3 DEF Committed
    <3> QED BY <3>2, <3>3
  <2> QED BY <1>f, <2>1, <2>2, <2>3
<1>3. ASSUME Open(p)', NEW q \in Provisions \ {p} PROVE ~Open(q)'
  <2>1. CASE ~Open(p)
    <3>1. \A o \in LifecycleOps : ~Open(o) BY <1>3, <1>n, <1>p, <2>1, OpenMoves
    <3>2. PICK c \in Bootstraps : PrepareReserved(c, Retirable # {}) /\ Reserves[c] = p
      BY <1>3, <1>n, <1>p, <2>1, OpenMoves
    <3>3. ~RegisterProvision(q, Retirable # {}) BY <3>2 DEF PrepareReserved, RegisterProvision, Step, Job
    <3>4. ASSUME NEW d \in Bootstraps, PrepareReserved(d, Retirable # {}) PROVE d = c
      BY <3>2, <3>4 DEF PrepareReserved, Step, Job
    <3> QED BY <3>1, <3>2, <3>3, <3>4, OpenMoves
  <2>2. CASE Open(p)
    <3>1. ~Open(q) BY <1>f, <2>2
    <3>2. ~RegisterProvision(q, Retirable # {})
      <4> SUFFICES ASSUME RegisterProvision(q, Retirable # {}) PROVE FALSE OBVIOUS
      <4>1. call.job = "provision" BY DEF RegisterProvision, Step, Job
      <4>2. Recorded(p)
        <5>1. ProvisionFact(p) BY <1>c, <1>p, RecordParts
        <5> QED BY <2>2, <5>1 DEF ProvisionFact, Open, OpenStages, Recorded
      <4>3. b \in Reservations BY <1>f, <4>2 DEF Reservations
      <4> QED BY <2>2, <4>1, <4>3 DEF ResidentInvariant, ResidentCallFacts
    <3> QED BY <1>p, <2>2, <3>1, <3>2, OpenMoves
  <2> QED BY <2>1, <2>2
<1>4. (ReservationFact(b))' <=>
        /\ Recorded(p)' => Committed(b)'
        /\ p \in fenced' => boot'[b].phase = "none" \/ (Committed(b)' /\ (boot'[b].released \/ Recorded(p)'))
        /\ Open(p)' => \A q \in Provisions \ {p} : ~Open(q)'
  BY DEF ReservationFact, Registered
<1> HIDE DEF p
<1> QED BY <1>1, <1>2, <1>3, <1>4

-----------------------------------------------------------------------------
(* The mutex, the retirement in progress and the recovery pass.            *)
RetiringWrite ==
    \/ WriteFence \/ ReleaseReservation \/ RemoveLineage \/ RemoveBinding
    \/ RemoveOperation \/ CompactBootstrap \/ RemoveMarker
Quiet == UNCHANGED <<files, boot, resident, retirement, projectionVars, mode, call, retiring, todo>>

CallMove ==
    \/ call' = Idle
    \/ Quiet
    \/ RetiringWrite /\ UNCHANGED call
    \/ BeginRetirement /\ UNCHANGED call
    \/ call'.job = "bootstrap" /\ call'.at # "write"
    \/ call'.job = "publish" /\ call'.at # "proof"
    \/ \E b \in Bootstraps : PrepareBootstrap(b)
    \/ \E p \in Provisions : PrepareProvision(p)
    \/ \E o \in LifecycleOps : RemoveWal(o) \/ WriteSnapshot(o) \/ WriteCatalog(o)
    \/ \E e \in Ends :
        AcknowledgeEnd(e) \/ RecoverAfter(e) \/ PrepareEndProjection(e) \/ CheckEndProjection(e)
    \/ \E t \in Threads : Replay(t)

RetiringMove ==
    \/ retiring' = "no"
    \/ retiring = "no" /\ (BeginRetirement \/ Boot)
    \/ retiring # "no" /\ (RetiringWrite \/ Quiet)

Passes == {"bootstrap", "before", "replay", "after", "up"}
ModeMove ==
    \/ mode' \notin Passes
    \/ UNCHANGED <<mode, todo>> /\ (UNCHANGED call \/ call.job # "bootstrap" \/ call.at # "lifecycle")
    \/ \E b \in Bootstraps : Settle(b) \/ PrepareReserved(b, Retirable # {}) \/ RetireRollback(b)
    \/ RecoverBootstraps \/ RecoverLifecycles \/ RecoverPublications \/ RecoverEnds \/ Serve
    \/ \E o \in LifecycleOps : RecoverBefore(o) \/ RemoveWal(o)
    \/ \E e \in Ends : CompleteEnd(e)

Moves == CallMove /\ RetiringMove /\ ModeMove

LEMMA ControlMoves ==
  ASSUME FilesInvariant, [FilesNext]_storeFilesVars
  PROVE  Moves
<1>a. /\ mode \in {"down", "retirement", "before"} => call = Idle
      /\ mode = "down" => retiring = "no"
      /\ retiring # "no" => mode \in {"retirement", "bootstrap", "up"} /\ (mode \in {"bootstrap", "up"} => call # Idle)
  BY DEF FilesInvariant, ModeFacts, RetiringFacts, Idle
<1>1. ASSUME NEW b \in Bootstraps, PrepareBootstrap(b), UNCHANGED projectionVars PROVE Moves
  BY <1>a, <1>1 DEF PrepareBootstrap, Job, Ready, Idle, Moves, CallMove, RetiringMove, ModeMove, Passes
<1>2. ASSUME NEW b \in Bootstraps, RecordPrepared(b), UNCHANGED projectionVars PROVE Moves
  BY <1>a, <1>2 DEF RecordPrepared, Step, Job, Idle, Moves, CallMove, RetiringMove, ModeMove, Passes
<1>3. ASSUME NEW b \in Bootstraps, RefuseBootstrapsFull(b, Retirable # {}), UNCHANGED projectionVars PROVE Moves
  BY <1>a, <1>3 DEF RefuseBootstrapsFull, Step, Throw, Job, Idle, Moves, CallMove, RetiringMove, ModeMove, Passes
<1>4. ASSUME NEW b \in Bootstraps, Reactivate(b), UNCHANGED projectionVars PROVE Moves
  BY <1>a, <1>4 DEF Reactivate, Job, Ready, Idle, Moves, CallMove, RetiringMove, ModeMove, Passes
<1>5. ASSUME NEW b \in Bootstraps, CheckArtifacts(b), UNCHANGED projectionVars PROVE Moves
  BY <1>a, <1>5 DEF CheckArtifacts, Step, Job, Throw, Unavailable, Idle, Moves, CallMove, RetiringMove, ModeMove, Passes
<1>6. ASSUME NEW b \in Bootstraps, Claim(b), UNCHANGED projectionVars PROVE Moves
  BY <1>a, <1>6 DEF Claim, Placing, Job, Idle, Step, Moves, CallMove, RetiringMove, ModeMove, Passes
<1>7. ASSUME NEW b \in Bootstraps, Place(b), UNCHANGED projectionVars PROVE Moves
  BY <1>a, <1>7 DEF Place, Placing, Job, Idle, Step, Moves, CallMove, RetiringMove, ModeMove, Passes
<1>8. ASSUME NEW b \in Bootstraps, Advance(b), UNCHANGED projectionVars PROVE Moves
  BY <1>a, <1>8 DEF Advance, Throw, Placing, Job, Idle, Step, Moves, CallMove, RetiringMove, ModeMove, Passes
<1>9. ASSUME NEW b \in Bootstraps, CommitBootstrap(b), UNCHANGED projectionVars PROVE Moves
  BY <1>a, <1>9 DEF CommitBootstrap, Step, Job, Throw, Unavailable, Idle, Moves, CallMove, RetiringMove, ModeMove, Passes
<1>10. ASSUME NEW b \in Bootstraps, Settle(b), UNCHANGED projectionVars PROVE Moves
  BY <1>a, <1>10 DEF Settle, Step, Done, Job, Idle, Moves, CallMove, RetiringMove, ModeMove, Passes
<1>11. ASSUME NEW b \in Bootstraps, PrepareReserved(b, Retirable # {}), UNCHANGED projectionVars PROVE Moves
  <2>1. CallMove BY <1>11 DEF PrepareReserved, Unavailable, Throw, Done, Job, Idle, CallMove
  <2>2. RetiringMove BY <1>11 DEF PrepareReserved, Step, RetiringMove
  <2>3. ModeMove BY <1>11 DEF ModeMove
  <2> QED BY <2>1, <2>2, <2>3 DEF Moves
<1>12. ASSUME NEW b \in Bootstraps, PlanRollback(b), UNCHANGED projectionVars PROVE Moves
  BY <1>a, <1>12 DEF PlanRollback, Step, Job, Idle, Throw, Moves, CallMove, RetiringMove, ModeMove, Passes
<1>13. ASSUME NEW b \in Bootstraps, RemoveArtifact(b), UNCHANGED projectionVars PROVE Moves
  BY <1>a, <1>13 DEF RemoveArtifact, Throw, Undoing, Job, Idle, Step, Moves, CallMove, RetiringMove, ModeMove, Passes
<1>14. ASSUME NEW b \in Bootstraps, AdvanceRollback(b), UNCHANGED projectionVars PROVE Moves
  BY <1>a, <1>14 DEF AdvanceRollback, Throw, Undoing, Job, Idle, Step, Moves, CallMove, RetiringMove, ModeMove, Passes
<1>15. ASSUME NEW b \in Bootstraps, RetireRollback(b), UNCHANGED projectionVars PROVE Moves
  BY <1>a, <1>15 DEF RetireRollback, Step, Throw, Done, Job, Idle, Moves, CallMove, RetiringMove, ModeMove, Passes
<1>16. ASSUME NEW b \in Bootstraps, RecoverBootstrap(b), UNCHANGED projectionVars PROVE Moves
  BY <1>a, <1>16 DEF RecoverBootstrap, Job, Idle, Moves, CallMove, RetiringMove, ModeMove, Passes
<1>17. ASSUME NEW o \in Provisions, NEW c \in Cursors, PreparePublication(o, c) PROVE Moves
  BY <1>a, <1>17 DEF PreparePublication, Job, Ready, Idle, Moves, CallMove, RetiringMove, ModeMove, Passes
<1>18. ASSUME NEW o \in Provisions, PublishSame(o) PROVE Moves
  BY <1>a, <1>18 DEF PublishSame, Ready, Job, Idle, Moves, CallMove, RetiringMove, ModeMove, Passes
<1>19. ASSUME NEW o \in Provisions, WriteLineage(o) PROVE Moves
  BY <1>a, <1>19 DEF WriteLineage, Step, Job, Throw, Idle, Moves, CallMove, RetiringMove, ModeMove, Passes
<1>20. ASSUME NEW o \in Provisions, WriteProof(o) PROVE Moves
  BY <1>a, <1>20 DEF WriteProof, Step, Idle, Job, Moves, CallMove, RetiringMove, ModeMove, Passes
<1>21. ASSUME NEW o \in Ends, PrepareEndProjection(o) PROVE Moves
  BY <1>a, <1>21 DEF PrepareEndProjection, Step, Job, Idle, Moves, CallMove, RetiringMove, ModeMove, Passes
<1>22. ASSUME NEW o \in Ends, CheckEndProjection(o) PROVE Moves
  BY <1>a, <1>22 DEF CheckEndProjection, Step, Job, Throw, Idle, Moves, CallMove, RetiringMove, ModeMove, Passes
<1>23. ASSUME NEW o \in Ends, CompleteEnd(o) PROVE Moves
  BY <1>a, <1>23 DEF CompleteEnd, Step, Done, Job, Idle, Moves, CallMove, RetiringMove, ModeMove, Passes
<1>24. ASSUME NEW o \in LifecycleOps, WriteSnapshot(o) PROVE Moves
  <2>1. CallMove BY <1>24 DEF CallMove
  <2>2. UNCHANGED <<mode, retiring, todo>> /\ retiring = "no" /\ call.at = "snapshot"
    BY <1>24 DEF WriteSnapshot, Publishing, Step, Job
  <2> QED BY <2>1, <2>2 DEF Moves, RetiringMove, ModeMove
<1>25. ASSUME NEW o \in LifecycleOps, WriteCatalog(o) PROVE Moves
  BY <1>a, <1>25 DEF WriteCatalog, Publishing, Job, Idle, Step, Moves, CallMove, RetiringMove, ModeMove, Passes
<1>26. ASSUME NEW o \in LifecycleOps, RemoveWal(o) PROVE Moves
  BY <1>a, <1>26 DEF RemoveWal, Job, Idle, Done, Publishing, Step, Moves, CallMove, RetiringMove, ModeMove, Passes
<1>27. ASSUME NEW o \in Provisions, PrepareProvision(o) PROVE Moves
  BY <1>a, <1>27 DEF PrepareProvision, Job, Ready, Idle, Moves, CallMove, RetiringMove, ModeMove, Passes
<1>28. ASSUME NEW o \in Provisions, RegisterProvision(o, Retirable # {}) PROVE Moves
  BY <1>a, <1>28 DEF RegisterProvision, Step, Idle, Job, Moves, CallMove, RetiringMove, ModeMove, Passes
<1>29. ASSUME NEW o \in Provisions, FailCreate(o) PROVE Moves
  BY <1>a, <1>29 DEF FailCreate, Ready, Job, Idle, Moves, CallMove, RetiringMove, ModeMove, Passes
<1>30. ASSUME NEW o \in Provisions, ObservePromotion(o) PROVE Moves
  BY <1>a, <1>30 DEF ObservePromotion, Ready, Job, Idle, Moves, CallMove, RetiringMove, ModeMove, Passes
<1>31. ASSUME NEW o \in Provisions, CommitProvision(o) PROVE Moves
  BY <1>a, <1>31 DEF CommitProvision, Ready, Job, Idle, Moves, CallMove, RetiringMove, ModeMove, Passes
<1>32. ASSUME NEW o \in Ends, PrepareEnd(o) PROVE Moves
  BY <1>a, <1>32 DEF PrepareEnd, Ready, Job, Idle, Moves, CallMove, RetiringMove, ModeMove, Passes
<1>33. ASSUME NEW o \in Ends, AcknowledgeEnd(o) PROVE Moves
  BY <1>a, <1>33 DEF AcknowledgeEnd, Job, Ready, Idle, Moves, CallMove, RetiringMove, ModeMove, Passes
<1>34. ASSUME NEW o \in Ends, RecoverAfter(o) PROVE Moves
  BY <1>a, <1>34 DEF RecoverAfter, Job, Idle, Moves, CallMove, RetiringMove, ModeMove, Passes
<1>35. ASSUME NEW o \in LifecycleOps, QuarantineUnknown(o) PROVE Moves
  BY <1>a, <1>35 DEF QuarantineUnknown, Ready, Job, Idle, Moves, CallMove, RetiringMove, ModeMove, Passes
<1>36. ASSUME NEW o \in LifecycleOps, RecoverBefore(o) PROVE Moves
  BY <1>a, <1>36 DEF RecoverBefore, Job, Idle, Moves, CallMove, RetiringMove, ModeMove, Passes
<1>37. CASE BeginRetirement
  <2>1. retiring = "no" /\ (Degrade \/ UNCHANGED <<mode, call>>) /\ UNCHANGED todo
    BY <1>37, RetirementBegins DEF BeginRetirement
  <2>2. CallMove BY <1>37, <2>1 DEF CallMove, Degrade
  <2>3. RetiringMove BY <1>37, <2>1 DEF RetiringMove
  <2>4. ModeMove BY <2>1 DEF ModeMove, Degrade, Passes
  <2> QED BY <2>2, <2>3, <2>4 DEF Moves
<1>38. CASE WriteFence
  BY <1>a, <1>38 DEF WriteFence, Degrade, Job, Idle, Moves, CallMove, RetiringMove, ModeMove, Passes, RetiringWrite
<1>39. CASE ReleaseReservation
  BY <1>a, <1>39 DEF ReleaseReservation, Job, Idle, Moves, CallMove, RetiringMove, ModeMove, Passes, RetiringWrite
<1>40. CASE RemoveLineage
  BY <1>a, <1>40 DEF RemoveLineage, Job, Idle, Moves, CallMove, RetiringMove, ModeMove, Passes, RetiringWrite
<1>41. CASE RemoveBinding
  BY <1>a, <1>41 DEF RemoveBinding, Job, Idle, Moves, CallMove, RetiringMove, ModeMove, Passes, RetiringWrite
<1>42. CASE RemoveOperation
  BY <1>a, <1>42 DEF RemoveOperation, Job, Idle, Moves, CallMove, RetiringMove, ModeMove, Passes, RetiringWrite
<1>43. CASE CompactBootstrap
  BY <1>a, <1>43 DEF CompactBootstrap, Job, Idle, Moves, CallMove, RetiringMove, ModeMove, Passes, RetiringWrite
<1>44. CASE RemoveMarker
  BY <1>a, <1>44 DEF RemoveMarker, Job, Idle, Moves, CallMove, RetiringMove, ModeMove, Passes, RetiringWrite
<1>45. CASE Boot
  BY <1>a, <1>45 DEF Boot, Enter, Job, Idle, Moves, CallMove, RetiringMove, ModeMove, Passes
<1>46. CASE RecoverBootstraps
  BY <1>a, <1>46 DEF RecoverBootstraps, Pass, Enter, Idle, Job, Moves, CallMove, RetiringMove, ModeMove, Passes
<1>47. CASE RecoverLifecycles
  BY <1>a, <1>47 DEF RecoverLifecycles, Pass, Enter, Degrade, Idle, Job, Moves, CallMove, RetiringMove, ModeMove, Passes
<1>48. CASE RecoverPublications
  BY <1>a, <1>48 DEF RecoverPublications, Pass, Enter, Idle, Job, Moves, CallMove, RetiringMove, ModeMove, Passes
<1>49. CASE RecoverEnds
  BY <1>a, <1>49 DEF RecoverEnds, Pass, Enter, Idle, Job, Moves, CallMove, RetiringMove, ModeMove, Passes
<1>50. CASE Serve
  BY <1>a, <1>50 DEF Serve, Pass, Enter, Degrade, Idle, Job, Moves, CallMove, RetiringMove, ModeMove, Passes
<1>51. ASSUME NEW t \in Threads, Replay(t) PROVE Moves
  BY <1>a, <1>51 DEF Replay, Job, Idle, Moves, CallMove, RetiringMove, ModeMove, Passes
<1>52. CASE Crash
  BY <1>a, <1>52 DEF Crash, Idle, Job, Moves, CallMove, RetiringMove, ModeMove, Passes
<1>53. CASE WorkspaceChange
  BY <1>a, <1>53 DEF WorkspaceChange, Job, Idle, Moves, CallMove, RetiringMove, ModeMove, Passes, Quiet
<1>54. CASE UNCHANGED storeFilesVars
  BY <1>a, <1>54 DEF storeFilesVars, stateVars, Moves, CallMove, RetiringMove, ModeMove, Quiet
<1> QED BY <1>1, <1>2, <1>3, <1>4, <1>5, <1>6, <1>7, <1>8, <1>9, <1>10, <1>11, <1>12, <1>13, <1>14,
     <1>15, <1>16, <1>17, <1>18, <1>19, <1>20, <1>21, <1>22, <1>23, <1>24, <1>25, <1>26,
     <1>27, <1>28, <1>29, <1>30, <1>31, <1>32, <1>33, <1>34, <1>35, <1>36, <1>37, <1>38,
     <1>39, <1>40, <1>41, <1>42, <1>43, <1>44, <1>45, <1>46, <1>47, <1>48, <1>49, <1>50,
     <1>51, <1>52, <1>53, <1>54
  DEF FilesNext, BootstrapStep, PublicationStep, LifecycleStep, Retirement, Recovery


(* A retirement has done what its step comes after.                        *)
LEMMA RetirementStep ==
  ASSUME FilesInvariant, ResidentInvariant, [FilesNext]_storeFilesVars
  PROVE  ResidentRetiringFacts'
<1>t. /\ life \in [LifecycleOps -> {"none"} \cup ProvisionStages \cup EndStages]
      /\ bind \in [Provisions -> BindStates] /\ lineage \in [Provisions -> Lineages]
      /\ boot \in [Bootstraps -> BootRecords]
  BY Typing DEF FilesInvariant, FilesTypeOK
<1>0. ResidentRetiringFacts BY DEF ResidentInvariant
<1>m. RetiringMove BY ControlMoves DEF Moves
<1>1. CASE retiring' \in {"no", "fence"} BY <1>1 DEF ResidentRetiringFacts
<1>2. CASE Quiet
  BY <1>0, <1>2 DEF Quiet, ResidentRetiringFacts, Releases, Reservations, Committed, Group
<1>3. CASE WriteFence
  <2>1. retiring' \in {"no", "release"} /\ UNCHANGED <<boot, lineage, life, bind, target, marker>>
    BY <1>3 DEF WriteFence, Degrade
  <2> QED BY <2>1 DEF ResidentRetiringFacts
<1>4. CASE ReleaseReservation
  <2>1. retiring' = (IF marker \in Ends THEN "lineage" ELSE "terminal")
        /\ UNCHANGED <<lineage, life, bind, target, marker>>
    BY <1>4 DEF ReleaseReservation
  <2>2. ASSUME NEW b \in Bootstraps PROVE boot'[b].phase = boot[b].phase /\ (b \in Releases => boot'[b].released)
    BY <1>4, <1>t DEF ReleaseReservation, BootRecords
  <2>3. \A b \in Releases' : b \in Bootstraps /\ b \in Releases
    BY <2>1, <2>2 DEF Releases, Reservations, Committed, Group
  <2> QED BY <2>1, <2>2, <2>3 DEF ResidentRetiringFacts
<1>a. ASSUME UNCHANGED <<boot, target, marker>>, retiring \notin {"no", "fence", "release"}
      PROVE  \A b \in Releases' : boot'[b].released
  BY <1>0, <1>a DEF ResidentRetiringFacts, Releases, Reservations, Committed, Group
<1>5. CASE RemoveLineage
  <2>1. retiring = "lineage" /\ retiring' = "binding" /\ UNCHANGED <<boot, target, marker>>
        /\ lineage' = [lineage EXCEPT ![target[marker]] = NoLineage]
    BY <1>5 DEF RemoveLineage
  <2>2. target[marker] \in Provisions BY <2>1, GroupFenced
  <2>3. lineage'[target[marker]] = NoLineage BY <1>t, <2>1, <2>2
  <2> QED BY <1>a, <2>1, <2>3 DEF ResidentRetiringFacts
<1>6. CASE RemoveBinding
  <2>1. retiring = "binding" /\ retiring' = "predecessor" /\ UNCHANGED <<boot, target, marker, lineage>>
        /\ bind' = [bind EXCEPT ![target[marker]] = "none"]
    BY <1>6 DEF RemoveBinding
  <2>2. target[marker] \in Provisions /\ marker \in Ends BY <2>1, GroupFenced
  <2>3. bind'[target[marker]] = "none" BY <1>t, <2>1, <2>2
  <2>4. lineage[target[marker]] = NoLineage BY <1>0, <2>1, <2>2 DEF ResidentRetiringFacts
  <2> QED BY <1>a, <2>1, <2>3, <2>4 DEF ResidentRetiringFacts
<1>7. CASE RemoveOperation
  <2>1. /\ retiring \in {"predecessor", "terminal"} /\ retiring' \in {"terminal", "compact"}
        /\ UNCHANGED <<boot, target, marker, lineage, bind>>
    BY <1>7 DEF RemoveOperation
  <2>2. ASSUME marker \in Ends
        PROVE  lineage[target[marker]] = NoLineage /\ bind[target[marker]] = "none" /\ life'[target[marker]] = "none"
    <3>1. target[marker] \in Provisions /\ marker \in LifecycleOps BY <2>1, <2>2, GroupFenced
    <3>2. CASE retiring = "predecessor"
      <4>1. life' = [life EXCEPT ![target[marker]] = "none"] BY <1>7, <3>2 DEF RemoveOperation
      <4>2. life'[target[marker]] = "none" BY <1>t, <3>1, <4>1
      <4> QED BY <1>0, <2>2, <3>2, <4>2 DEF ResidentRetiringFacts
    <3>3. CASE retiring = "terminal"
      <4>1. life' = [life EXCEPT ![marker] = "none"] BY <1>7, <3>3 DEF RemoveOperation
      <4>2. life[target[marker]] = "none" BY <1>0, <2>2, <3>3 DEF ResidentRetiringFacts
      <4>3. life'[target[marker]] = "none" BY <1>t, <3>1, <4>1, <4>2
      <4> QED BY <1>0, <2>2, <3>3, <4>3 DEF ResidentRetiringFacts
    <3> QED BY <2>1, <3>2, <3>3
  <2> QED BY <1>a, <2>1, <2>2 DEF ResidentRetiringFacts
<1>8. CASE CompactBootstrap
  <2>1. retiring = "compact" /\ retiring' = "marker" /\ UNCHANGED <<target, marker, lineage, bind, life>>
    BY <1>8 DEF CompactBootstrap
  <2>2. ASSUME NEW b \in Bootstraps PROVE boot'[b] = IF b \in Releases THEN NoRecord ELSE boot[b]
    BY <1>8 DEF CompactBootstrap
  <2>3. \A b \in Releases' : FALSE
    <3> SUFFICES ASSUME NEW b \in Bootstraps, b \in Releases' PROVE FALSE BY DEF Releases, Reservations
    <3>1. boot'[b].phase = "committed" /\ Registered(b) /\ Reserves[b] \in Group(marker)
      BY <2>1 DEF Releases, Reservations, Committed, Registered, Group
    <3>2. b \notin Releases BY <2>2, <3>1 DEF NoRecord
    <3>3. boot[b].phase = "committed" BY <2>2, <3>1, <3>2
    <3> QED BY <3>1, <3>2, <3>3 DEF Releases, Reservations, Committed
  <2> QED BY <1>0, <2>1, <2>3 DEF ResidentRetiringFacts
<1>9. CASE RemoveMarker BY <1>1, <1>9 DEF RemoveMarker
<1>10. BeginRetirement => retiring' \in {"no", "fence"}
  BY DEF BeginRetirement, Degrade
<1>11. Boot => retiring' \in {"no", "fence"}
  <2>1. mode = "down" => retiring = "no" BY DEF FilesInvariant, ModeFacts
  <2> QED BY <2>1 DEF Boot
<1> QED BY <1>m, <1>1, <1>2, <1>3, <1>4, <1>5, <1>6, <1>7, <1>8, <1>9, <1>10, <1>11 DEF RetiringMove, RetiringWrite

(* A reservation keeps its lifecycle record until it is released.          *)
LEMMA KeptMoves ==
  ASSUME FilesInvariant, ResidentInvariant, [FilesNext]_storeFilesVars, NEW b \in Bootstraps, b \in Reservations'
  PROVE  \/ CommitBootstrap(b) /\ call' = Job("bootstrap", b, "lifecycle") /\ mode' = mode
         \/ b \in Reservations /\ (Kept(b) => Kept(b)')
<1>1. Registered(b) /\ boot'[b].phase = "committed" BY DEF Reservations, Committed, Registered
<1>2. Reserves[b] \in Provisions BY <1>1 DEF Registered
<1>3. CASE CommitBootstrap(b) /\ boot[b].phase = "open"
  <2>1. UNCHANGED boot \/ (call' = Job("bootstrap", b, "lifecycle") /\ mode' = mode)
    BY <1>3 DEF CommitBootstrap
  <2> QED BY <1>1, <1>3, <2>1
<1>4. CASE boot'[b].phase = boot[b].phase /\ (boot[b].released => boot'[b].released)
  <2>1. b \in Reservations BY <1>1, <1>4 DEF Reservations, Committed
  <2>2. CASE Recorded(Reserves[b]) /\ ~Recorded(Reserves[b])'
    <3>1. RemoveOperation /\ Reserves[b] \in Group(marker) BY <1>2, <2>2, RecordedMoves
    <3>2. b \in Releases BY <2>1, <3>1 DEF Releases
    <3>3. retiring \in {"predecessor", "terminal"} BY <3>1 DEF RemoveOperation
    <3>4. boot[b].released BY <3>2, <3>3 DEF ResidentInvariant, ResidentRetiringFacts
    <3> QED BY <1>4, <2>1, <3>4 DEF Kept
  <2>3. CASE ~(Recorded(Reserves[b]) /\ ~Recorded(Reserves[b])')
    <3>1. Kept(b) => boot'[b].released \/ Recorded(Reserves[b])' BY <1>4, <2>3 DEF Kept
    <3>2. boot'[b].released \/ Recorded(Reserves[b])' => Kept(b)' BY DEF Kept, Recorded
    <3> QED BY <2>1, <3>1, <3>2
  <2> QED BY <2>2, <2>3
<1> QED BY <1>1, <1>3, <1>4, BootMoves


(* While a group is retired, its method has established little.            *)
LEMMA RetiringKeepsCall ==
  ASSUME FilesInvariant, ResidentInvariant, [FilesNext]_storeFilesVars,
         RetiringWrite \/ BeginRetirement, UNCHANGED call
  PROVE  ResidentCallFacts'
<1>t. /\ life \in [LifecycleOps -> {"none"} \cup ProvisionStages \cup EndStages]
      /\ bind \in [Provisions -> BindStates]
  BY Typing
<1>0. ResidentCallFacts BY DEF ResidentInvariant
<1>1. call.job \notin {"publish", "end"}
  <2>1. BeginRetirement => call.job \in {"provision", "bootstrap"}
    BY DEF BeginRetirement, Retirable, Step, Job
  <2>2. RetiringWrite => retiring # "no"
    BY DEF RetiringWrite, WriteFence, ReleaseReservation, RemoveLineage, RemoveBinding, RemoveOperation,
       CompactBootstrap, RemoveMarker
  <2>3. retiring # "no" => call.job \notin {"publish", "end"} BY DEF FilesInvariant, CallFacts
  <2> QED BY <2>1, <2>2, <2>3
<1>2. /\ \A o \in LifecycleOps : life'[o] \in {life[o], "none"}
      /\ \A p \in Provisions : bind'[p] \in {bind[p], "none"}
  <2>1. CASE BeginRetirement \/ WriteFence \/ RemoveBinding \/ RemoveOperation \/ RemoveMarker
    BY <2>1, RetirementTakes
  <2>2. CASE ReleaseReservation \/ RemoveLineage \/ CompactBootstrap
    BY <2>2 DEF ReleaseReservation, RemoveLineage, CompactBootstrap
  <2> QED BY <2>1, <2>2 DEF RetiringWrite
<1>3. \A o \in LifecycleOps : ~Open(o) => ~Open(o)'
  BY <1>2 DEF Open, OpenStages
<1>4. \A p \in Provisions : p \notin fenced => p \notin fenced' \/ Recorded(p)
  BY RecordedMoves
<1>5. ASSUME NEW b \in Bootstraps, b \in Reservations' PROVE b \in Reservations /\ (Kept(b) => Kept(b)')
  <2>1. ~CommitBootstrap(b) \/ call' # Job("bootstrap", b, "lifecycle")
    BY DEF CommitBootstrap, Step, Job
  <2> QED BY <1>5, <2>1, KeptMoves
<1>6. \A b \in Reservations' : b \in Bootstraps /\ b \in Reservations /\ (Kept(b) => Kept(b)')
  <2>1. \A b \in Reservations' : b \in Bootstraps BY DEF Reservations
  <2> QED BY <1>5, <2>1
<1>7. CASE call.job = "provision"
  <2>1. PICK p \in Provisions : call.op = p BY <1>7 DEF FilesInvariant, FilesTypeOK, Calls, Idle
  <2>2. /\ ~Recorded(p) /\ p \notin fenced /\ ~Reserved(p)
        /\ \A o \in LifecycleOps : ThreadOf[o] = ThreadOf[p] => ~Open(o)
        /\ \A b \in Reservations : Kept(b) /\ \A q \in Provisions : bind[q] # "active"
        /\ \A b \in Reservations : ~Open(Reserves[b])
    BY <1>0, <1>7, <2>1 DEF ResidentCallFacts
  <2>3. life'[p] = "none" /\ p \notin fenced' BY <1>2, <1>4, <2>2 DEF Recorded
  <2>4. \A o \in LifecycleOps : ThreadOf[o] = ThreadOf[p] => ~Open(o)' BY <1>3, <2>2
  <2>5. \A b \in Reservations' : Kept(b)' /\ \A q \in Provisions : bind'[q] # "active"
    BY <1>2, <1>6, <2>2
  <2>6. \A b \in Reservations' : ~Open(Reserves[b])'
    <3> SUFFICES ASSUME NEW b \in Bootstraps, b \in Reservations' PROVE ~Open(Reserves[b])'
      BY DEF Reservations
    <3>1. ~Open(Reserves[b]) BY <1>6, <2>2
    <3>2. Reserves[b] \in Provisions BY <1>6 DEF Reservations, Registered
    <3> QED BY <1>3, <3>1, <3>2
  <2>7. call'.job = "provision" /\ call'.op = p BY <1>7, <2>1
  <2> QED BY <2>2, <2>3, <2>4, <2>5, <2>6, <2>7 DEF ResidentCallFacts, Recorded, Reserved
<1>8. CASE call.job = "bootstrap" /\ call.at = "write"
  <2>1. PICK b \in Bootstraps : call.op = b BY <1>8 DEF FilesInvariant, FilesTypeOK, Calls, Idle
  <2>2. boot[b].phase = "none" /\ Reserves[b] \notin fenced BY <1>0, <1>8, <2>1 DEF ResidentCallFacts
  <2>3. boot'[b].phase = "none"
    <3>1. ~RecordPrepared(b) BY <1>8 DEF RecordPrepared, Job
    <3> QED BY <2>2, <3>1, BootMoves
  <2>4. Reserves[b] \notin fenced'
    <3>1. CASE Reserves[b] = NoOp
      <4>1. fenced' \subseteq LifecycleOps BY InvariantStep DEF FilesInvariant, FilesTypeOK
      <4> QED BY <3>1, <4>1
    <3>2. CASE Reserves[b] # NoOp
      <4>1. Reserves[b] \in Provisions BY <3>2
      <4>2. ~Recorded(Reserves[b]) BY <2>2, <3>2, ReservationParts DEF ResidentInvariant, Registered, Committed
      <4> QED BY <1>4, <2>2, <4>1, <4>2
    <3> QED BY <3>1, <3>2
  <2> QED BY <1>8, <2>1, <2>3, <2>4 DEF ResidentCallFacts
<1>9. CASE call.job \notin {"provision", "publish", "end"} /\ ~(call.job = "bootstrap" /\ call.at = "write")
  BY <1>9 DEF ResidentCallFacts
<1> QED BY <1>1, <1>7, <1>8, <1>9

LEMMA ResidentCallStep ==
  ASSUME FilesInvariant, ResidentInvariant, [FilesNext]_storeFilesVars
  PROVE  ResidentCallFacts'
<1>t. /\ life \in [LifecycleOps -> {"none"} \cup ProvisionStages \cup EndStages]
      /\ held \in [LifecycleOps -> HeldReasons] /\ bind \in [Provisions -> BindStates]
  BY Typing
<1>0. ResidentCallFacts /\ RecordFacts BY DEF ResidentInvariant
<1>m. CallMove BY ControlMoves DEF Moves
<1>1. CASE call' = Idle BY <1>1 DEF ResidentCallFacts, Idle
<1>2. CASE Quiet
  BY <1>0, <1>2 DEF Quiet, ResidentCallFacts, Recorded, Reserved, Open, Kept, Reservations, Committed
<1>3. CASE (RetiringWrite \/ BeginRetirement) /\ UNCHANGED call BY <1>3, RetiringKeepsCall
<1>4. CASE \/ call'.job = "bootstrap" /\ call'.at # "write"
           \/ call'.job = "publish" /\ call'.at # "proof"
  BY <1>4 DEF ResidentCallFacts
<1>5. ASSUME NEW b \in Bootstraps, PrepareBootstrap(b) PROVE ResidentCallFacts'
  <2>1. UNCHANGED <<boot, fenced>> /\ boot[b].phase = "none" /\ (Registered(b) => Reserves[b] \notin fenced)
        /\ call' = Job("bootstrap", b, "write")
    BY <1>5 DEF PrepareBootstrap
  <2>2. Reserves[b] \notin fenced BY <2>1, Typing DEF Registered
  <2> QED BY <2>1, <2>2 DEF ResidentCallFacts, Job
<1>6. ASSUME NEW p \in Provisions, PrepareProvision(p) PROVE ResidentCallFacts'
  <2>1. UNCHANGED <<boot, life, held, bind, fenced>> /\ call' = Job("provision", p, "register")
    BY <1>6 DEF PrepareProvision
  <2>2. ~Recorded(p) /\ p \notin fenced /\ ~Reserved(p) BY <1>6 DEF PrepareProvision
  <2>3. WorkspaceUnreserved /\ ~ThreadBusy(ThreadOf[p]) BY <1>6 DEF PrepareProvision
  <2>4. \A q \in OnThread(ThreadOf[p], Provisions) : bind[q] # "active" BY <1>6 DEF PrepareProvision
  <2>5. ASSUME NEW o \in LifecycleOps, ThreadOf[o] = ThreadOf[p] PROVE ~Open(o)
    <3>1. ~Nonterminal(o) BY <2>3, <2>5 DEF ThreadBusy, OnThread
    <3>2. life[o] \notin OpenStages BY <3>1 DEF Nonterminal, Recorded, OpenStages
    <3> QED BY <2>4, <2>5, <3>2 DEF Open, OnThread
  <2>6. ASSUME NEW b \in Reservations PROVE Kept(b) /\ ~Open(Reserves[b]) /\ \A q \in Provisions : bind[q] # "active"
    <3>1. ~Unsettled(b) /\ \A q \in Provisions : ~Commanding(q) BY <2>3, <2>6 DEF WorkspaceUnreserved
    <3>2. Reserves[b] \in Provisions BY <2>6 DEF Reservations, Registered
    <3>3. ~Nonterminal(Reserves[b]) BY <3>1 DEF Unsettled, Nonterminal
    <3>4. ~Open(Reserves[b]) BY <1>0, <3>1, <3>2, <3>3, OpenIs
    <3> QED BY <3>1, <3>4 DEF Unsettled, Kept, Commanding
  <2>7. call'.job = "provision" /\ call'.op = p BY <2>1 DEF Job
  <2>8. Reservations' = Reservations BY <2>1 DEF Reservations, Committed
  <2> QED BY <2>1, <2>2, <2>5, <2>6, <2>7, <2>8 DEF ResidentCallFacts, Recorded, Reserved, Open, Kept
<1>e. ASSUME NEW e \in Ends, call'.job = "end", call'.op = e, call'.at \notin {"check", "complete"},
             life'[e] \in {"acknowledged", "completed"}, held'[e] = "no"
      PROVE  ResidentCallFacts'
  BY <1>e DEF ResidentCallFacts
<1>7. ASSUME NEW o \in LifecycleOps, WriteSnapshot(o) \/ WriteCatalog(o) \/ RemoveWal(o) PROVE ResidentCallFacts'
  <2> DEFINE t == ThreadOf[o]
  <2>1. /\ t \in Threads /\ Pending(t) /\ PendingFact(t) /\ wal[t].op = o
        /\ call.op = o /\ call.job \in {"publish", "end"}
        /\ RemoveWal(o) => snapshot[t] = wal[t].view
    <3>1. RemoveWal(o) => ~WriteSnapshot(o) BY DEF RemoveWal, WriteSnapshot, Publishing, Step, Job
    <3> QED BY <1>7, <3>1, PublishingIs
  <2>2. UNCHANGED <<life, held>> BY <1>7 DEF WriteSnapshot, WriteCatalog, RemoveWal
  <2>3. PublishingFact(t) BY <2>1 DEF ResidentInvariant
  <2>4. call.at \in {"snapshot", "catalog", "wal"} BY <1>7 DEF WriteSnapshot, WriteCatalog, RemoveWal, Publishing, Step, Job
  <2>5. CASE WriteSnapshot(o) \/ WriteCatalog(o)
    <3>1. PICK at \in {"catalog", "wal"} : call' = [call EXCEPT !.at = at] BY <2>5 DEF WriteSnapshot, WriteCatalog
    <3>2. call \in Calls BY DEF FilesInvariant, FilesTypeOK
    <3>3. call'.job = call.job /\ call'.op = call.op /\ call'.at = at BY <2>1, <3>1, <3>2 DEF Calls, Idle
    <3>4. CASE call.job = "publish" BY <3>1, <3>3, <3>4 DEF ResidentCallFacts
    <3>5. CASE call.job = "end"
      <4>1. o \in Ends BY <2>1, <3>2, <3>5 DEF Calls, Idle
      <4>2. life[o] \in {"acknowledged", "completed"} /\ held[o] = "no"
        BY <1>0, <2>1, <2>4, <3>5 DEF ResidentCallFacts
      <4> QED BY <1>e, <2>1, <2>2, <3>1, <3>3, <3>5, <4>1, <4>2
    <3> QED BY <2>1, <3>4, <3>5
  <2>6. CASE RemoveWal(o)
    <3>1. \/ call' = Idle
          \/ o \in Ends /\ call' = Job("end", o, "complete")
          \/ o \notin Ends /\ wal[t].lease /\ call' = Job("publish", o, "proof")
      BY <2>6 DEF RemoveWal, Done
    <3>2. UNCHANGED snapshot BY <2>6 DEF RemoveWal
    <3>3. CASE o \in Ends /\ call' = Job("end", o, "complete")
      <4>1. life[o] = "acknowledged" /\ wal[t].view.of = o BY <2>1, <2>3, <3>3 DEF PublishingFact
      <4>2. wal[t].view.st = "ended" BY <2>1, <3>3 DEF PendingFact
      <4>3. snapshot[t] = wal[t].view BY <2>1, <2>6
      <4>4. call.job = "end"
        <5>1. call \in Calls BY DEF FilesInvariant, FilesTypeOK
        <5> QED BY <2>1, <3>3, <5>1 DEF Calls, Idle
      <4>5. held[o] = "no" BY <1>0, <2>1, <2>4, <4>4 DEF ResidentCallFacts
      <4>6. call'.job = "end" /\ call'.op = o /\ call'.at = "complete" BY <3>3 DEF Job
      <4> QED BY <2>2, <3>2, <4>1, <4>2, <4>3, <4>5, <4>6 DEF ResidentCallFacts
    <3>4. CASE o \notin Ends /\ wal[t].lease /\ call' = Job("publish", o, "proof")
      <4>1. life[o] \in {"promoted", "published"} BY <2>1, <2>3, <3>4 DEF PublishingFact
      <4> QED BY <2>2, <3>4, <4>1 DEF ResidentCallFacts, Job
    <3> QED BY <1>1, <3>1, <3>3, <3>4
  <2> QED BY <1>7, <2>5, <2>6
<1>8. ASSUME NEW e \in Ends, AcknowledgeEnd(e) PROVE ResidentCallFacts'
  <2>1. life'[e] = "acknowledged" /\ held'[e] = "no" /\ call' = Job("end", e, "project")
    BY <1>8, <1>t DEF AcknowledgeEnd
  <2> QED BY <1>e, <2>1 DEF Job
<1>9. ASSUME NEW e \in Ends, RecoverAfter(e) PROVE ResidentCallFacts'
  <2>1. mode = "after" /\ e \in todo /\ UNCHANGED <<life, held>> /\ call' = Job("end", e, "project")
    BY <1>9 DEF RecoverAfter
  <2>2. life[e] \in {"acknowledged", "completed"} /\ held[e] = "no" BY <2>1 DEF ResidentInvariant, ResidentModeFacts
  <2> QED BY <1>e, <2>1, <2>2 DEF Job
<1>10. ASSUME NEW e \in Ends, PrepareEndProjection(e) PROVE ResidentCallFacts'
  <2> DEFINE t == ThreadOf[e]
  <2>1. call.job = "end" /\ call.op = e /\ call.at = "project" /\ UNCHANGED <<life, held, snapshot>>
    BY <1>10 DEF PrepareEndProjection, Step, Job
  <2>2. life[e] \in {"acknowledged", "completed"} /\ held[e] = "no" BY <1>0, <2>1 DEF ResidentCallFacts
  <2>3. \/ call' = Idle
        \/ call' = Job("end", e, "check")
        \/ call' = Job("end", e, "complete") /\ snapshot[t].of = e
    BY <1>10 DEF PrepareEndProjection
  <2>4. CASE call' = Job("end", e, "check") BY <2>1, <2>2, <2>4 DEF ResidentCallFacts, Job
  <2>5. CASE call' = Job("end", e, "complete") /\ snapshot[t].of = e
    <3>1. View(t) = snapshot[t]
      BY <1>10, PreparedAlone DEF View, AnyPending
    <3>2. snapshot[t].st \in {"none", "initial", "live", "ended"}
      BY DEF FilesInvariant, FilesTypeOK, Views
    <3>3. ViewFact(t) BY DEF ResidentInvariant
    <3>4. snapshot[t].st = "ended"
      BY <2>5, <3>1, <3>2, <3>3, ViewParts DEF NoView, Initial, Shows
    <3>5. call'.job = "end" /\ call'.op = e /\ call'.at = "complete" BY <2>5 DEF Job
    <3> QED BY <2>1, <2>2, <2>5, <3>4, <3>5 DEF ResidentCallFacts
  <2> QED BY <1>1, <2>3, <2>4, <2>5
<1>11. ASSUME NEW e \in Ends, CheckEndProjection(e) PROVE ResidentCallFacts'
  <2>1. call' = Idle \/ (call' = Job("end", e, "snapshot") /\ EndProjectionAuthorized(e))
    BY <1>11 DEF CheckEndProjection, Throw
  <2>2. UNCHANGED <<life, held>> BY <1>11 DEF CheckEndProjection
  <2>3. EndProjectionAuthorized(e) => life[e] \in {"acknowledged", "completed"} /\ held[e] = "no"
    BY DEF EndProjectionAuthorized
  <2> QED BY <1>1, <1>e, <2>1, <2>2, <2>3 DEF Job
<1>12. ASSUME NEW t \in Threads, Replay(t) PROVE ResidentCallFacts'
  <2>1. mode = "replay" /\ t \in todo /\ UNCHANGED <<life, held>> BY <1>12 DEF Replay
  <2>2. Pending(t) BY <2>1 DEF FilesInvariant, ModeFacts
  <2>3. PublishingFact(t) BY DEF ResidentInvariant
  <2>4. CASE wal[t].op \in Ends
    <3>1. call' = Job("end", wal[t].op, "check") BY <1>12, <2>4 DEF Replay
    <3>2. life[wal[t].op] = "acknowledged" BY <2>2, <2>3, <2>4 DEF PublishingFact
    <3> QED BY <2>1, <3>1, <3>2 DEF ResidentCallFacts, Job
  <2>5. CASE wal[t].op \notin Ends
    <3>1. call' = Job("publish", wal[t].op, "lineage") BY <1>12, <2>5 DEF Replay
    <3> QED BY <3>1 DEF ResidentCallFacts, Job
  <2> QED BY <2>4, <2>5
<1> QED BY <1>m, <1>1, <1>2, <1>3, <1>4, <1>5, <1>6, <1>7, <1>8, <1>9, <1>10, <1>11, <1>12 DEF CallMove


(* The pass over ends writes no record but to complete one.                *)
LEMMA AfterQuiet ==
  ASSUME FilesInvariant, [FilesNext]_storeFilesVars, mode = "after"
  PROVE  UNCHANGED <<life, held>> \/ \E e \in Ends : CompleteEnd(e)
<1>1. ~Ready /\ retiring = "no" /\ call.job \notin {"bootstrap", "provision", "publish"}
  BY DEF Ready, FilesInvariant, CallFacts, RetiringFacts
<1>2. ASSUME NEW b \in Bootstraps PROVE ~PrepareReserved(b, Retirable # {})
  BY <1>1 DEF PrepareReserved, Step, Job
<1>3. ASSUME NEW p \in Provisions
      PROVE  /\ ~RegisterProvision(p, Retirable # {}) /\ ~FailCreate(p) /\ ~ObservePromotion(p)
             /\ ~CommitProvision(p) /\ ~PublishSame(p) /\ ~WriteProof(p)
  BY <1>1 DEF RegisterProvision, FailCreate, ObservePromotion, CommitProvision, PublishSame, WriteProof,
     Step, Job
<1>4. ASSUME NEW e \in Ends PROVE ~PrepareEnd(e) /\ ~AcknowledgeEnd(e)
  BY <1>1 DEF PrepareEnd, AcknowledgeEnd
<1>5. ASSUME NEW o \in LifecycleOps PROVE ~QuarantineUnknown(o) /\ ~RecoverBefore(o)
  BY <1>1 DEF QuarantineUnknown, RecoverBefore
<1>6. ~RemoveBinding /\ ~RemoveOperation /\ ~RemoveMarker /\ ~WriteFence
  BY <1>1 DEF RemoveBinding, RemoveOperation, RemoveMarker, WriteFence
<1>7. BeginRetirement => UNCHANGED <<life, held>> BY DEF BeginRetirement
<1>8. UNCHANGED recordVars => UNCHANGED <<life, held>> BY DEF recordVars
<1> QED BY <1>2, <1>3, <1>4, <1>5, <1>6, <1>7, <1>8, RecordWrites DEF RecordOnly, RecordWrite, ResidentWrite

(* What the recovery passes have left behind.                              *)
LEMMA ResidentModeStep ==
  ASSUME FilesInvariant, ResidentInvariant, [FilesNext]_storeFilesVars
  PROVE  ResidentModeFacts'
<1>t. life \in [LifecycleOps -> {"none"} \cup ProvisionStages \cup EndStages]
  BY Typing
<1>0. ResidentModeFacts BY DEF ResidentInvariant
<1>m. ModeMove BY ControlMoves DEF Moves
<1>k. ASSUME NEW b \in Bootstraps, b \in Reservations'
      PROVE  \/ call.job = "bootstrap" /\ call.op = b /\ call.at = "place" /\ mode' = mode
                /\ call' = Job("bootstrap", b, "lifecycle")
             \/ b \in Reservations /\ (Kept(b) => Kept(b)')
  BY <1>k, KeptMoves DEF CommitBootstrap, Step, Job
<1>r. \A b \in Reservations' : b \in Bootstraps BY DEF Reservations
<1>e. mode = "after" => UNCHANGED <<life, held>> \/ \E e \in Ends : CompleteEnd(e) BY AfterQuiet
<1>s. /\ mode = "bootstrap" => \A b \in Reservations \ todo : Kept(b)
      /\ mode \in {"before", "replay", "after", "up"} => \A b \in Reservations :
           Kept(b) \/ (call.job = "bootstrap" /\ call.op = b /\ call.at = "lifecycle")
  BY <1>0 DEF ResidentModeFacts
<1> DEFINE M1 == mode' = "after" => \A e \in todo' : life'[e] \in {"acknowledged", "completed"} /\ held'[e] = "no"
           M2 == mode' = "bootstrap" => \A b \in Reservations' \ todo' : Kept(b)'
           M3 == mode' \in {"before", "replay", "after", "up"} => \A b \in Reservations' :
                    Kept(b)' \/ (call'.job = "bootstrap" /\ call'.op = b /\ call'.at = "lifecycle")
<1>g. ResidentModeFacts' <=> M1 /\ M2 /\ M3 BY DEF ResidentModeFacts
<1> HIDE DEF M1, M2, M3
<1>u. ASSUME UNCHANGED mode, todo' \subseteq todo, UNCHANGED <<life, held>> PROVE M1
  BY <1>0, <1>u DEF ResidentModeFacts, M1
<1>1. CASE mode' \notin Passes BY <1>g, <1>1 DEF M1, M2, M3, Passes
<1>c. ASSUME NEW e \in Ends, CompleteEnd(e) PROVE ResidentModeFacts'
  <2>1. call.job = "end" /\ call.op = e /\ UNCHANGED <<mode, held>> /\ todo' \subseteq todo
        /\ life' = [life EXCEPT ![e] = "completed"]
    BY <1>c DEF CompleteEnd, Step, Job, Done
  <2>2. \A o \in LifecycleOps : life'[o] \in {life[o], "completed"} BY <1>t, <2>1
  <2>3. M1
    <3> SUFFICES ASSUME mode = "after", NEW x \in todo PROVE life'[x] \in {"acknowledged", "completed"} /\ held'[x] = "no"
      BY <2>1 DEF M1
    <3>1. x \in LifecycleOps BY DEF FilesInvariant, ModeFacts
    <3>2. life[x] \in {"acknowledged", "completed"} /\ held[x] = "no" BY <1>0 DEF ResidentModeFacts
    <3> QED BY <2>1, <2>2, <3>1, <3>2
  <2>4. mode \in {"replay", "after", "up"} BY <2>1 DEF FilesInvariant, CallFacts
  <2>5. M2 BY <2>1, <2>4 DEF M2
  <2>6. M3 BY <1>k, <1>r, <1>s, <2>1, <2>4 DEF M3
  <2> QED BY <1>g, <2>3, <2>5, <2>6
<1>2. CASE UNCHANGED <<mode, todo>> /\ (UNCHANGED call \/ call.job # "bootstrap" \/ call.at # "lifecycle")
  <2>1. CASE \E e \in Ends : CompleteEnd(e) BY <1>c, <2>1
  <2>2. CASE ~\E e \in Ends : CompleteEnd(e)
    <3>1. M1
      <4>1. CASE mode = "after" BY <1>2, <1>e, <1>u, <2>2, <4>1
      <4>2. CASE mode # "after" BY <1>2, <4>2 DEF M1
      <4> QED BY <4>1, <4>2
    <3>2. M2
      <4> SUFFICES ASSUME mode = "bootstrap", NEW b \in Reservations' \ todo PROVE Kept(b)'
        BY <1>2 DEF M2
      <4>1. b \in Bootstraps BY <1>r
      <4>2. call.job = "bootstrap" => call.op \in todo BY DEF FilesInvariant, CallFacts
      <4>3. b \in Reservations /\ (Kept(b) => Kept(b)') BY <1>k, <4>1, <4>2
      <4> QED BY <1>s, <4>3
    <3>3. M3
      <4> SUFFICES ASSUME mode \in {"before", "replay", "after", "up"}, NEW b \in Reservations'
                   PROVE  Kept(b)' \/ (call'.job = "bootstrap" /\ call'.op = b /\ call'.at = "lifecycle")
        BY <1>2 DEF M3
      <4>1. b \in Bootstraps BY <1>r
      <4>2. CASE call' = Job("bootstrap", b, "lifecycle") BY <4>2 DEF Job
      <4>3. CASE call' # Job("bootstrap", b, "lifecycle")
        <5>1. b \in Reservations /\ (Kept(b) => Kept(b)') BY <1>k, <4>1, <4>3
        <5>2. Kept(b) \/ (call.job = "bootstrap" /\ call.op = b /\ call.at = "lifecycle") BY <1>s, <5>1
        <5> QED BY <1>2, <5>1, <5>2
      <4> QED BY <4>2, <4>3
    <3> QED BY <1>g, <3>1, <3>2, <3>3
  <2> QED BY <2>1, <2>2
<1>3. ASSUME NEW b \in Bootstraps, Settle(b) \/ PrepareReserved(b, Retirable # {}) \/ RetireRollback(b),
             mode' \in Passes
      PROVE  ResidentModeFacts'
  <2>1. call.job = "bootstrap" /\ call.op = b /\ call.at \in {"lifecycle", "undo"}
        /\ (call.at = "lifecycle" <=> ~RetireRollback(b))
    BY <1>3 DEF Settle, PrepareReserved, RetireRollback, Step, Job
  <2>2. mode \in {"bootstrap", "up"} BY <2>1 DEF FilesInvariant, CallFacts
  <2>3. UNCHANGED mode
    BY <1>3, <2>2 DEF Settle, PrepareReserved, RetireRollback, Unavailable, Throw, Passes
  <2>4. \A c \in Reservations' : c \in Reservations /\ (Kept(c) => Kept(c)') BY <1>k, <1>r, <2>1
  <2>5. \/ call' = Idle /\ todo' = todo \ {b} /\ (b \in Reservations' => Kept(b)')
        \/ mode = "bootstrap" /\ UNCHANGED todo
    <3>1. CASE Settle(b)
      <4>1. call' = Idle /\ todo' = todo \ {b} /\ ~LifecycleDue(b) BY <3>1 DEF Settle, Done
      <4>2. ASSUME b \in Reservations' PROVE Kept(b)
        <5>1. b \in Reservations BY <2>4, <4>2
        <5>2. Registered(b) /\ boot[b].phase = "committed" BY <5>1 DEF Reservations, Committed
        <5>3. boot[b].released \/ Recorded(Reserves[b]) \/ Reserves[b] \in fenced
          BY <4>1, <5>2 DEF LifecycleDue
        <5> QED BY <5>2, <5>3, ReservationParts DEF Kept, ResidentInvariant
      <4> QED BY <2>4, <4>1, <4>2
    <3>2. CASE PrepareReserved(b, Retirable # {})
      <4>1. \/ call' = Idle /\ todo' = todo \ {b} /\ life' = [life EXCEPT ![Reserves[b]] = "creating"]
            \/ mode = "bootstrap" /\ UNCHANGED todo
        BY <1>3, <2>2, <2>3, <3>2 DEF PrepareReserved, Done, Unavailable, Throw, Passes
      <4>2. Reserves[b] \in Provisions BY <3>2 DEF PrepareReserved, LifecycleDue, Registered
      <4>3. life' = [life EXCEPT ![Reserves[b]] = "creating"] => Kept(b)' BY <1>t, <4>2 DEF Kept, Recorded
      <4> QED BY <4>1, <4>3
    <3>3. CASE RetireRollback(b)
      <4>1. PlanCurrent(b) BY <1>3, <2>2, <3>3 DEF RetireRollback, Throw, Passes
      <4>2. call' = Idle /\ todo' = todo \ {b} /\ boot' = [boot EXCEPT ![b].phase = "retired"]
        BY <3>3, <4>1 DEF RetireRollback, Done
      <4>3. boot'[b].phase = "retired" BY <4>2 DEF FilesInvariant, FilesTypeOK, BootRecords
      <4> QED BY <4>2, <4>3 DEF Reservations, Committed
    <3> QED BY <1>3, <3>1, <3>2, <3>3
  <2>6. M1 BY <2>2, <2>3 DEF M1
  <2>7. M2
    <3> SUFFICES ASSUME mode = "bootstrap", NEW c \in Reservations', c \notin todo' PROVE Kept(c)'
      BY <2>3 DEF M2
    <3>1. CASE c \in todo BY <2>5, <3>1
    <3>2. CASE c \notin todo BY <1>s, <2>4, <3>2
    <3> QED BY <3>1, <3>2
  <2>8. M3
    <3> SUFFICES ASSUME mode = "up", NEW c \in Reservations' PROVE Kept(c)'
      BY <2>2, <2>3 DEF M3
    <3>1. CASE c = b BY <2>5, <3>1
    <3>2. CASE c # b BY <1>s, <2>1, <2>4, <3>2
    <3> QED BY <3>1, <3>2
  <2> QED BY <1>g, <2>6, <2>7, <2>8
<1>4. ASSUME RecoverBootstraps \/ RecoverLifecycles \/ RecoverPublications \/ RecoverEnds \/ Serve, mode' \in Passes
      PROVE  ResidentModeFacts'
  <2>1. UNCHANGED <<boot, life, held, call>> /\ call = Idle /\ todo = {}
        /\ \/ mode = "retirement" /\ mode' = "bootstrap" /\ todo' = {b \in BootRecorded : boot[b].phase # "retired"}
           \/ mode = "bootstrap" /\ mode' = "before"
           \/ mode = "before" /\ mode' = "replay"
           \/ mode = "replay" /\ mode' = "after"
              /\ todo' = {e \in Ends : life[e] \in {"acknowledged", "completed"} /\ held[e] = "no"}
           \/ mode = "after" /\ mode' = "up"
    BY <1>4 DEF RecoverBootstraps, RecoverLifecycles, RecoverPublications, RecoverEnds, Serve, Pass, Enter,
       Degrade, Passes
  <2>2. \A b \in Reservations' : b \in Reservations /\ b \in Bootstraps /\ (Kept(b) => Kept(b)')
    BY <2>1 DEF Reservations, Committed, Kept, Recorded
  <2>3. M1 BY <2>1 DEF M1
  <2>4. M2
    <3> SUFFICES ASSUME mode = "retirement", NEW b \in Reservations' PROVE b \in todo'
      BY <2>1 DEF M2
    <3>1. boot[b].phase = "committed" /\ b \in Bootstraps BY <2>2 DEF Reservations, Committed
    <3> QED BY <2>1, <3>1 DEF BootRecorded
  <2>5. M3 BY <1>s, <2>1, <2>2 DEF M3, Idle
  <2> QED BY <1>g, <2>3, <2>4, <2>5
<1>5. ASSUME NEW o \in LifecycleOps, RecoverBefore(o) \/ RemoveWal(o) PROVE ResidentModeFacts'
  <2>1. UNCHANGED <<mode, life, boot>> /\ todo' \subseteq todo /\ (RecoverBefore(o) => mode = "before" /\ UNCHANGED call)
        /\ (RemoveWal(o) => UNCHANGED held /\ call.job \in {"publish", "end"})
    BY <1>5 DEF RecoverBefore, RemoveWal, Done, Publishing, Step, Job
  <2>2. RemoveWal(o) => mode \in {"replay", "after", "up"} BY <2>1 DEF FilesInvariant, CallFacts
  <2>3. M1
    <3>1. CASE RemoveWal(o) BY <1>u, <2>1, <3>1
    <3>2. CASE RecoverBefore(o) BY <2>1, <3>2 DEF M1
    <3> QED BY <1>5, <3>1, <3>2
  <2>4. M2 BY <1>5, <2>1, <2>2 DEF M2
  <2>5. \A b \in Reservations' : b \in Reservations /\ (Kept(b) => Kept(b)')
    BY <2>1 DEF Reservations, Committed, Kept, Recorded
  <2>6. M3
    <3> SUFFICES ASSUME mode \in {"before", "replay", "after", "up"}, NEW b \in Reservations'
                 PROVE  Kept(b)' \/ (call'.job = "bootstrap" /\ call'.op = b /\ call'.at = "lifecycle")
      BY <2>1 DEF M3
    <3> QED BY <1>5, <1>s, <2>1, <2>5
  <2> QED BY <1>g, <2>3, <2>4, <2>6
<1> QED BY <1>m, <1>1, <1>2, <1>3, <1>4, <1>5, <1>c DEF ModeMove

LEMMA ResidentInit == FilesInit => ResidentInvariant
<1> SUFFICES ASSUME FilesInit PROVE ResidentInvariant OBVIOUS
<1> USE DEF FilesInit, StateInit
<1>1. RecordFacts
  BY DEF RecordFacts, ProvisionFact, DetachedFact, EndFact, Open, OpenStages
<1>2. FenceFacts BY DEF FenceFacts
<1>3. \A t \in Threads : ViewFact(t) /\ PublishingFact(t)
  BY DEF ViewFact, View, PublishingFact, Pending, NoView, Shows
<1>4. \A b \in Bootstraps : ReservationFact(b)
  BY DEF ReservationFact, Registered, Recorded, Open, OpenStages
<1>5. ResidentCallFacts /\ ResidentRetiringFacts BY DEF ResidentCallFacts, ResidentRetiringFacts, Idle
<1>6. ResidentModeFacts BY DEF ResidentModeFacts
<1> QED BY <1>1, <1>2, <1>3, <1>4, <1>5, <1>6 DEF ResidentInvariant

LEMMA ResidentStep ==
  FilesInvariant /\ ResidentInvariant /\ [FilesNext]_storeFilesVars => ResidentInvariant'
<1> SUFFICES ASSUME FilesInvariant, ResidentInvariant, [FilesNext]_storeFilesVars PROVE ResidentInvariant' OBVIOUS
<1>1. RecordFacts' BY RecordStep
<1>2. FenceFacts' BY FenceStep
<1>3. \A t \in Threads : ViewFact(t)' /\ PublishingFact(t)' BY ViewStep, PublishingStep
<1>4. \A b \in Bootstraps : ReservationFact(b)' BY ReservationStep
<1>5. ResidentCallFacts' /\ ResidentModeFacts' /\ ResidentRetiringFacts'
  BY ResidentCallStep, ResidentModeStep, RetirementStep
<1> QED BY <1>1, <1>2, <1>3, <1>4, <1>5 DEF ResidentInvariant

(* The records, bindings, reservations and public views of the Store agree *)
(* at every instant (store.ts, all its multi-file transactions).           *)
THEOREM ResidentInvariantHolds == FilesSpec => []ResidentInvariant
<1>1. FilesInit => FilesInvariant /\ ResidentInvariant BY InvariantInit, ResidentInit
<1>2. FilesInvariant /\ ResidentInvariant /\ [FilesNext]_storeFilesVars => FilesInvariant' /\ ResidentInvariant'
  BY InvariantStep, ResidentStep
<1> QED BY <1>1, <1>2, PTL DEF FilesSpec

(* A registered bootstrap keeps its workspace: while the Store serves, a   *)
(* reservation not yet released has its lifecycle record, and while its    *)
(* provision is open or its session commands no other provision is open or *)
(* commands (store.ts: prepareResidentProvision asks the workspace         *)
(* reservations, an exact retirement releases them, a crash between its    *)
(* writes is finished by initialize()).                                    *)
THEOREM ReservedExclusiveHolds == FilesSpec => []ReservedExclusive
<1>1. FilesInvariant /\ ResidentInvariant => ReservedExclusive
  <2> SUFFICES ASSUME FilesInvariant, ResidentInvariant, NEW b \in Reservations
               PROVE  /\ Ready /\ ~boot[b].released => Recorded(Reserves[b])
                      /\ Nonterminal(Reserves[b]) \/ Commanding(Reserves[b]) =>
                           \A q \in Provisions \ {Reserves[b]} : ~Nonterminal(q) /\ ~Commanding(q)
    BY DEF ReservedExclusive
  <2>1. b \in Bootstraps /\ Registered(b) /\ Reserves[b] \in Provisions BY DEF Reservations, Registered
  <2>2. Ready => Kept(b) BY DEF Ready, Idle, ResidentInvariant, ResidentModeFacts
  <2>3. Open(Reserves[b]) => \A q \in Provisions \ {Reserves[b]} : ~Open(q)
    BY <2>1, ReservationParts DEF ResidentInvariant
  <2>4. \A q \in Provisions : Open(q) <=> Nonterminal(q) \/ Commanding(q)
    BY OpenIs DEF ResidentInvariant
  <2> QED BY <2>1, <2>2, <2>3, <2>4 DEF Kept
<1> QED BY <1>1, FilesInvariantHolds, ResidentInvariantHolds, PTL

-----------------------------------------------------------------------------
(* What the files promise a reader: the refinement of PublishedThreads.    *)
Reached(p) == LET tx == wal[ThreadOf[p]] IN IF tx # NoTx /\ tx.op = p THEN tx.next ELSE lineage[p]
Spent(p) ==
    \/ bind[p] = "completed" \/ p \in fenced
    \/ \E e \in Ends : target[e] = p /\ View(ThreadOf[e]).of = e

ViewBar == [t \in Threads |-> View(t)]
LastBar == [p \in Provisions |-> Reached(p)]
OverBar == {p \in Provisions : Spent(p)}

ReachedSame == \A p \in Provisions : Reached(p)' = Reached(p)
SpentSame == \A p \in Provisions : Spent(p)' <=> Spent(p)

LEMMA Bars ==
  /\ ReachedSame => LastBar' = LastBar
  /\ SpentSame => OverBar' = OverBar
  /\ Unshown => ViewBar' = ViewBar
  /\ \A t \in Threads : \A v : OnlyShows(t, v) => ViewBar' = [ViewBar EXCEPT ![t] = v]
<1>1. ReachedSame => LastBar' = LastBar BY DEF ReachedSame, LastBar
<1>2. SpentSame => OverBar' = OverBar BY DEF SpentSame, OverBar
<1>3. Unshown => ViewBar' = ViewBar BY DEF Unshown, ViewBar
<1>4. ASSUME NEW t \in Threads, NEW v, OnlyShows(t, v) PROVE ViewBar' = [ViewBar EXCEPT ![t] = v]
  BY <1>4 DEF OnlyShows, ViewBar
<1> QED BY <1>1, <1>2, <1>3, <1>4

LEMMA StutterIs ==
  ASSUME Unshown, ReachedSame, SpentSame
  PROVE  UNCHANGED Promised!publishedVars
<1>1. ViewBar' = ViewBar /\ LastBar' = LastBar /\ OverBar' = OverBar BY Bars
<1> QED BY <1>1 DEF Promised!publishedVars, ViewBar, LastBar, OverBar, View, Reached, Spent

LEMMA AppearIs ==
  ASSUME NEW t \in Threads, View(t) = NoView, OnlyShows(t, Initial), ReachedSame, SpentSame
  PROVE  Promised!Appear(t)
<1>1. ViewBar' = [ViewBar EXCEPT ![t] = Initial] /\ LastBar' = LastBar /\ OverBar' = OverBar BY Bars
<1>2. ViewBar[t] = NoView BY DEF ViewBar
<1> QED BY <1>1, <1>2 DEF Promised!Appear, Promised!NoView, Promised!Initial, Promised!Shows, NoView, Initial, Shows,
        ViewBar, LastBar, OverBar, View, Reached, Spent

LEMMA VanishIs ==
  ASSUME NEW t \in Threads, View(t) = Initial, OnlyShows(t, NoView), ReachedSame, SpentSame
  PROVE  Promised!Vanish(t)
<1>1. ViewBar' = [ViewBar EXCEPT ![t] = NoView] /\ LastBar' = LastBar /\ OverBar' = OverBar BY Bars
<1>2. ViewBar[t] = Initial BY DEF ViewBar
<1> QED BY <1>1, <1>2 DEF Promised!Vanish, Promised!NoView, Promised!Initial, Promised!Shows, NoView, Initial, Shows,
        ViewBar, LastBar, OverBar, View, Reached, Spent

LEMMA PublishIs ==
  ASSUME NEW p \in Provisions, NEW c \in Cursors, ~Spent(p), Follows(Reached(p), c),
         View(ThreadOf[p]) # NoView,
         View(ThreadOf[p]).st = "live" => View(ThreadOf[p]).of = p,
         OnlyShows(ThreadOf[p], Live(p, c)),
         Reached(p)' = Extend(Reached(p), c), \A q \in Provisions \ {p} : Reached(q)' = Reached(q), SpentSame
  PROVE  Promised!Publish(p, c)
<1> DEFINE t == ThreadOf[p]  l == Reached(p)
<1>t. t \in Threads OBVIOUS
<1>1. ViewBar' = [ViewBar EXCEPT ![t] = Live(p, c)] /\ OverBar' = OverBar BY Bars
<1>2. LastBar' = [LastBar EXCEPT ![p] = Extend(l, c)] BY DEF LastBar
<1>3. ViewBar[t] = View(t) /\ LastBar[p] = l /\ p \notin OverBar BY DEF ViewBar, LastBar, OverBar
<1>4. Promised!Forward(LastBar[p], c) BY <1>3 DEF Promised!Forward, Follows
<1>5. LastBar' = [LastBar EXCEPT ![p] = [at |-> c,
         retired |-> LastBar[p].retired \cup (IF LastBar[p].at = <<>> \/ LastBar[p].at[1] = c[1] THEN {} ELSE {LastBar[p].at[1]})]]
  BY <1>2, <1>3 DEF Extend
<1>6. /\ ViewBar[ThreadOf[p]] # Promised!NoView
      /\ ViewBar[ThreadOf[p]].st = "live" => ViewBar[ThreadOf[p]].of = p
      /\ ViewBar' = [ViewBar EXCEPT ![ThreadOf[p]] = Promised!Shows("live", p, c)]
  BY <1>1, <1>3 DEF Promised!NoView, NoView, Promised!Shows, Live, Shows
<1> HIDE DEF t, l
<1> QED BY <1>1, <1>3, <1>4, <1>5, <1>6
  DEF Promised!Publish, ViewBar, LastBar, OverBar, View, Reached, Spent

LEMMA EndIs ==
  ASSUME NEW e \in Ends, NEW p \in Provisions, View(ThreadOf[e]).st = "live", View(ThreadOf[e]).of = p, ~Spent(p),
         OnlyShows(ThreadOf[e], Ended(e, View(ThreadOf[e]).at)), ReachedSame,
         Spent(p)', \A q \in Provisions \ {p} : Spent(q)' <=> Spent(q)
  PROVE  Promised!End(e, p)
<1>t. ThreadOf[e] \in Threads OBVIOUS
<1>1. ViewBar' = [ViewBar EXCEPT ![ThreadOf[e]] = Ended(e, View(ThreadOf[e]).at)] /\ LastBar' = LastBar
  BY <1>t, Bars
<1>2. OverBar' = OverBar \cup {p} BY DEF OverBar
<1>3. ViewBar[ThreadOf[e]] = View(ThreadOf[e]) /\ p \notin OverBar BY DEF ViewBar, OverBar
<1>4. ViewBar' = [ViewBar EXCEPT ![ThreadOf[e]] = Promised!Shows("ended", e, ViewBar[ThreadOf[e]].at)]
  BY <1>1, <1>3 DEF Promised!Shows, Ended, Shows
<1>5. ViewBar[ThreadOf[e]].st = "live" /\ ViewBar[ThreadOf[e]].of = p BY <1>3
<1> QED BY <1>1, <1>2, <1>3, <1>4, <1>5
  DEF Promised!End, ViewBar, LastBar, OverBar, View, Reached, Spent

LEMMA GiveUpIs ==
  ASSUME NEW p \in Provisions, Reached(p) = NoLineage, Unshown, ReachedSame,
         Spent(p)', \A q \in Provisions \ {p} : Spent(q)' <=> Spent(q)
  PROVE  Promised!GiveUp(p)
<1>1. ViewBar' = ViewBar /\ LastBar' = LastBar BY Bars
<1>2. OverBar' = OverBar \cup {p} BY DEF OverBar
<1>3. LastBar[p] = NoLineage BY DEF LastBar
<1> QED BY <1>1, <1>2, <1>3
  DEF Promised!GiveUp, Promised!Unpublished, NoLineage, ViewBar, LastBar, OverBar, View, Reached, Spent

LEMMA ForgetIs ==
  ASSUME NEW p \in Provisions, Spent(p), Unshown, SpentSame,
         Reached(p)' = NoLineage, \A q \in Provisions \ {p} : Reached(q)' = Reached(q)
  PROVE  Promised!Forget(p)
<1>1. ViewBar' = ViewBar /\ OverBar' = OverBar BY Bars
<1>2. p \in OverBar BY DEF OverBar
<1>3. LastBar' = [LastBar EXCEPT ![p] = NoLineage] BY DEF LastBar
<1> QED BY <1>1, <1>2, <1>3
  DEF Promised!Forget, Promised!Unpublished, NoLineage, ViewBar, LastBar, OverBar, View, Reached, Spent


(* What a step does to the cursors.                                        *)
LEMMA PublishShows ==
  ASSUME FilesInvariant, NEW p \in Provisions, NEW c \in Cursors, PreparePublication(p, c)
  PROVE  /\ Published(p, c) /\ ~AnyPending
         /\ Reached(p) = lineage[p] /\ Reached(p)' = Extend(lineage[p], c)
         /\ \A q \in Provisions \ {p} : Reached(q)' = Reached(q)
<1>w. wal \in [Threads -> Transactions \cup {NoTx}] BY DEF FilesInvariant, FilesTypeOK
<1>a. ~AnyPending BY PreparedAlone
<1>1. PICK tx : tx.view = Live(p, c) /\ tx.op = p /\ tx.next = Extend(lineage[p], c) /\ wal' = [wal EXCEPT ![ThreadOf[p]] = tx]
  BY DEF PreparePublication
<1>2. tx # NoTx BY <1>1
<1>3. wal'[ThreadOf[p]] = tx /\ \A u \in Threads \ {ThreadOf[p]} : wal'[u] = wal[u] BY <1>1, <1>w
<1>4. UNCHANGED <<snapshot, lineage>> BY DEF PreparePublication
<1>5. Published(p, c) BY <1>1, <1>2, <1>3, <1>4 DEF Published, OnlyShows, View, Pending
<1>6. \A t \in Threads : wal[t] = NoTx BY <1>a DEF AnyPending, Pending
<1>7. \A q \in Provisions : Reached(q) = lineage[q] BY <1>6 DEF Reached
<1>8. Reached(p)' = Extend(lineage[p], c) BY <1>1, <1>2, <1>3 DEF Reached
<1>9. ASSUME NEW q \in Provisions \ {p} PROVE Reached(q)' = lineage[q]
  <2>1. wal'[ThreadOf[q]] = NoTx \/ wal'[ThreadOf[q]].op = p BY <1>1, <1>3, <1>6
  <2> QED BY <1>4, <2>1 DEF Reached
<1> QED BY <1>a, <1>5, <1>7, <1>8, <1>9

LEMMA ReachedMoves ==
  ASSUME FilesInvariant, ResidentInvariant, [FilesNext]_storeFilesVars
  PROVE  \/ ReachedSame
         \/ \E p \in Provisions, c \in Cursors : PreparePublication(p, c)
         \/ \E p \in Provisions :
              /\ RemoveLineage /\ p = target[marker] /\ Reached(p)' = NoLineage
              /\ \A q \in Provisions \ {p} : Reached(q)' = Reached(q)
<1>t. wal \in [Threads -> Transactions \cup {NoTx}] /\ lineage \in [Provisions -> Lineages]
  BY DEF FilesInvariant, FilesTypeOK
<1>1. UNCHANGED projectionVars => ReachedSame BY DEF ReachedSame, Reached
<1>2. ASSUME NEW p \in Provisions, WriteLineage(p) PROVE ReachedSame
  <2>1. call.job = "publish" /\ call.op = p /\ call.at = "lineage" /\ UNCHANGED wal
        /\ (UNCHANGED lineage \/ lineage' = [lineage EXCEPT ![p] = wal[ThreadOf[p]].next])
    BY <1>2 DEF WriteLineage, Step, Job
  <2>2. Pending(ThreadOf[p]) /\ wal[ThreadOf[p]].op = p BY <2>1 DEF FilesInvariant, CallFacts
  <2>3. \A q \in Provisions \ {p} : lineage'[q] = lineage[q] BY <1>t, <2>1
  <2> QED BY <2>1, <2>2, <2>3 DEF ReachedSame, Reached, Pending
<1>3. ASSUME NEW e \in Ends, PrepareEndProjection(e) PROVE ReachedSame
  <2>1. UNCHANGED lineage BY <1>3 DEF PrepareEndProjection
  <2>2. CASE UNCHANGED wal BY <2>1, <2>2 DEF ReachedSame, Reached
  <2>3. CASE ~UNCHANGED wal
    <3>1. PICK tx : tx.op = e /\ wal' = [wal EXCEPT ![ThreadOf[e]] = tx] BY <1>3, <2>3 DEF PrepareEndProjection
    <3>2. \A u \in Threads : wal'[u] = wal[u] \/ wal'[u].op = e BY <1>t, <3>1
    <3>3. ~AnyPending BY <1>3, PreparedAlone
    <3>4. \A t \in Threads : wal[t] = NoTx BY <3>3 DEF AnyPending, Pending
    <3>5. ASSUME NEW q \in Provisions PROVE Reached(q)' = Reached(q)
      <4>1. Reached(q) = lineage[q] BY <3>4 DEF Reached
      <4>2. wal'[ThreadOf[q]] = NoTx \/ wal'[ThreadOf[q]].op # q BY <3>2, <3>4
      <4> QED BY <2>1, <4>1, <4>2 DEF Reached
    <3> QED BY <3>5 DEF ReachedSame
  <2> QED BY <2>2, <2>3
<1>4. ASSUME NEW o \in LifecycleOps, RemoveWal(o) PROVE ReachedSame
  <2> DEFINE t == ThreadOf[o]
  <2>1. /\ Pending(t) /\ wal[t].op = o /\ call.op = o /\ call.job \in {"publish", "end"}
        /\ call.job = "publish" => lineage[o] = wal[t].next
    BY <1>4, PublishingIs
  <2>2. wal' = [wal EXCEPT ![t] = NoTx] /\ UNCHANGED lineage BY <1>4 DEF RemoveWal
  <2>3. wal'[t] = NoTx /\ \A u \in Threads \ {t} : wal'[u] = wal[u] BY <1>t, <2>2
  <2>4. o \in Provisions => call.job = "publish"
    <3>1. call \in Calls BY DEF FilesInvariant, FilesTypeOK
    <3> QED BY <2>1, <3>1 DEF Calls, Idle
  <2>5. ASSUME NEW q \in Provisions PROVE Reached(q)' = Reached(q)
    <3>1. CASE ThreadOf[q] # t BY <2>2, <2>3, <3>1 DEF Reached
    <3>2. CASE ThreadOf[q] = t
      <4>1. Reached(q)' = lineage[q] BY <2>2, <2>3, <3>2 DEF Reached
      <4>2. Reached(q) = lineage[q] BY <2>1, <2>4, <3>2 DEF Reached, Pending
      <4> QED BY <4>1, <4>2
    <3> QED BY <3>1, <3>2
  <2> QED BY <2>5 DEF ReachedSame
<1>5. CASE RemoveLineage
  <2>1. PICK p \in Provisions : p = target[marker] BY <1>5, GroupFenced DEF RemoveLineage
  <2>2. UNCHANGED wal /\ lineage' = [lineage EXCEPT ![p] = NoLineage] BY <1>5, <2>1 DEF RemoveLineage
  <2>3. lineage'[p] = NoLineage /\ \A q \in Provisions \ {p} : lineage'[q] = lineage[q] BY <1>t, <2>2
  <2>4. \A q \in Provisions \ {p} : Reached(q)' = Reached(q) BY <2>2, <2>3 DEF Reached
  <2>5. Reached(p)' \in {Reached(p), NoLineage} BY <2>2, <2>3 DEF Reached
  <2> QED BY <1>5, <2>1, <2>4, <2>5 DEF ReachedSame
<1> QED BY <1>1, <1>2, <1>3, <1>4, <1>5, Writes DEF Written, ProjectionWrite

(* Whatever shows the end of a session, shows it as an end.                *)
LEMMA ShownEnd ==
  ASSUME FilesInvariant, ResidentInvariant, NEW e \in Ends, View(ThreadOf[e]).of = e
  PROVE  View(ThreadOf[e]).st = "ended" /\ Ending(e)
<1> DEFINE v == View(ThreadOf[e])
<1>1. ThreadOf[e] \in Threads OBVIOUS
<1>2. v \in Views
  <2>1. snapshot[ThreadOf[e]] \in Views BY <1>1 DEF FilesInvariant, FilesTypeOK
  <2>2. Pending(ThreadOf[e]) => wal[ThreadOf[e]] \in Transactions BY <1>1 DEF FilesInvariant, FilesTypeOK, Pending
  <2> QED BY <2>1, <2>2 DEF View, Transactions
<1>3. v.st \in {"none", "initial", "live", "ended"} BY <1>2 DEF Views
<1>4. ViewFact(ThreadOf[e]) BY <1>1 DEF ResidentInvariant
<1>5. v.of # NoOp /\ v.of \notin Provisions OBVIOUS
<1>6. v.st = "ended" BY <1>3, <1>4, <1>5, ViewParts DEF NoView, Initial, Shows
<1> QED BY <1>1, <1>4, <1>6, ViewParts

(* A session that commands is not over, nor is any on a thread's behalf.   *)
LEMMA CommandsNotSpent ==
  ASSUME FilesInvariant, ResidentInvariant, NEW p \in Provisions, bind[p] \in {"activating", "active"},
         marker = NoOp
  PROVE  ~Spent(p)
<1>0. RecordFacts /\ FenceFacts BY DEF ResidentInvariant
<1>1. ProvisionFact(p) BY <1>0, RecordParts
<1>2. p \notin fenced BY <1>0, <1>1 DEF FenceFacts, ProvisionFact, Recorded
<1>3. ASSUME NEW e \in Ends, target[e] = p PROVE FALSE
  <2>1. EndFact(e) BY <1>0, RecordParts
  <2> QED BY <1>3, <2>1 DEF EndFact
<1> QED BY <1>2, <1>3 DEF Spent

(* What an end that is no longer open ended is over.                       *)
LEMMA EndedSpent ==
  ASSUME FilesInvariant, ResidentInvariant, NEW e \in Ends, target[e] \in Provisions, ~Open(e)
  PROVE  bind[target[e]] = "completed" \/ target[e] \in fenced
<1>1. EndFact(e) BY RecordParts DEF ResidentInvariant
<1>2. Retiring(e) => target[e] \in fenced BY DEF Retiring, Group
<1>3. target[e] # NoOp OBVIOUS
<1> QED BY <1>1, <1>2, <1>3 DEF EndFact, Open, OpenStages


(* What a step does to the sessions that are over.                         *)
LEMMA SpentParts ==
  ASSUME FilesInvariant, ResidentInvariant, [FilesNext]_storeFilesVars
  PROVE  /\ fenced \subseteq fenced'
         /\ \A p \in Provisions :
              \/ bind[p] = "completed" <=> bind'[p] = "completed"
              \/ \E e \in Ends : CompleteEnd(e) /\ target[e] = p
              \/ p \in fenced
         /\ \A e \in Ends :
              \/ target'[e] = target[e]
              \/ PrepareEnd(e)
              \/ target'[e] = NoOp /\ target[e] \in fenced
<1>t. /\ life \in [LifecycleOps -> {"none"} \cup ProvisionStages \cup EndStages]
      /\ bind \in [Provisions -> BindStates] /\ target \in [Ends -> Provisions \cup {NoOp}]
  BY Typing
<1>0. RecordFacts BY DEF ResidentInvariant
<1> DEFINE G == /\ fenced \subseteq fenced'
                /\ \A p \in Provisions :
                     \/ bind[p] = "completed" <=> bind'[p] = "completed"
                     \/ \E e \in Ends : CompleteEnd(e) /\ target[e] = p
                     \/ p \in fenced
                /\ \A e \in Ends :
                     \/ target'[e] = target[e]
                     \/ PrepareEnd(e)
                     \/ target'[e] = NoOp /\ target[e] \in fenced
<1>1. CASE UNCHANGED <<bind, target>> /\ fenced \subseteq fenced' BY <1>1
<1>2. ASSUME NEW o \in LifecycleOps, QuarantineUnknown(o) \/ RecoverBefore(o) PROVE G
  BY <1>1, <1>2 DEF QuarantineUnknown, RecoverBefore
<1>3. BeginRetirement \/ WriteFence \/ RemoveOperation => UNCHANGED <<bind, target>> /\ fenced \subseteq fenced'
  BY DEF BeginRetirement, WriteFence, RemoveOperation
<1>4. CASE RemoveBinding
  <2>1. retiring = "binding" /\ bind' = [bind EXCEPT ![target[marker]] = "none"] /\ UNCHANGED <<target, fenced>>
    BY <1>4 DEF RemoveBinding
  <2>2. target[marker] \in fenced BY <2>1, GroupFenced DEF Group
  <2>3. \A p \in Provisions : bind'[p] = bind[p] \/ p = target[marker] BY <1>t, <2>1
  <2> QED BY <2>1, <2>2, <2>3
<1>5. CASE RemoveMarker
  <2>1. retiring = "marker" /\ target' = [e \in Ends |-> IF e = marker THEN NoOp ELSE target[e]] /\ UNCHANGED <<bind, fenced>>
    BY <1>5 DEF RemoveMarker
  <2>2. marker \in Ends => target[marker] \in fenced BY <2>1, GroupFenced DEF Group
  <2> QED BY <2>1, <2>2
<1>6. ASSUME NEW b \in Bootstraps, PrepareReserved(b, Retirable # {}) PROVE G
  BY <1>1, <1>6 DEF PrepareReserved
<1>7. ASSUME NEW p \in Provisions,
             \/ RegisterProvision(p, Retirable # {}) \/ FailCreate(p) \/ ObservePromotion(p)
             \/ CommitProvision(p) \/ PublishSame(p) \/ WriteProof(p)
      PROVE  G
  <2>1. UNCHANGED <<target, fenced>>
    BY <1>7 DEF RegisterProvision, FailCreate, ObservePromotion, CommitProvision, PublishSame, WriteProof
  <2>2. CASE UNCHANGED bind BY <2>1, <2>2
  <2>3. CASE ObservePromotion(p) \/ CommitProvision(p)
    <3>1. bind' = [bind EXCEPT ![p] = "activating"] \/ bind' = [bind EXCEPT ![p] = "active"]
      BY <2>3 DEF ObservePromotion, CommitProvision
    <3>2. life[p] \in {"creating", "published"} BY <2>3 DEF ObservePromotion, CommitProvision
    <3>3. bind[p] # "completed"
      <4>1. ProvisionFact(p) BY <1>0, RecordParts
      <4> QED BY <3>2, <4>1 DEF ProvisionFact
    <3>4. \A q \in Provisions : bind'[q] = bind[q] \/ (q = p /\ bind'[q] # "completed") BY <1>t, <3>1
    <3> QED BY <2>1, <3>3, <3>4
  <2> QED BY <1>7, <2>2, <2>3 DEF RegisterProvision, FailCreate, PublishSame, WriteProof
<1>8. ASSUME NEW e \in Ends, PrepareEnd(e) PROVE G
  <2>1. UNCHANGED fenced BY <1>8 DEF PrepareEnd
  <2>2. PICK p \in Provisions : bind[p] = "active" /\ bind' = [bind EXCEPT ![p] = "detached"] /\ target' = [target EXCEPT ![e] = p]
    BY <1>8 DEF PrepareEnd, OnThread
  <2>3. \A q \in Provisions : bind'[q] = bind[q] \/ (bind[q] # "completed" /\ bind'[q] # "completed") BY <1>t, <2>2
  <2>4. \A d \in Ends : target'[d] = target[d] \/ d = e BY <1>t, <2>2
  <2> QED BY <1>8, <2>1, <2>3, <2>4
<1>9. ASSUME NEW e \in Ends, AcknowledgeEnd(e) PROVE G BY <1>1, <1>9 DEF AcknowledgeEnd
<1>10. ASSUME NEW e \in Ends, CompleteEnd(e) PROVE G
  <2>1. UNCHANGED <<target, fenced>> /\ bind' = [bind EXCEPT ![target[e]] = "completed"] BY <1>10 DEF CompleteEnd
  <2>2. \A q \in Provisions : bind'[q] = bind[q] \/ q = target[e] BY <1>t, <2>1
  <2> QED BY <1>10, <2>1, <2>2
<1>11. UNCHANGED recordVars => UNCHANGED <<bind, target>> /\ fenced \subseteq fenced' BY DEF recordVars
<1> HIDE DEF G
<1>12. UNCHANGED <<bind, target>> /\ fenced \subseteq fenced' => G BY <1>1 DEF G
<1>13. CASE RemoveBinding \/ RemoveMarker BY <1>4, <1>5, <1>13 DEF G
<1>14. CASE BeginRetirement \/ WriteFence \/ RemoveOperation BY <1>3, <1>12, <1>14
<1>15. CASE UNCHANGED recordVars BY <1>11, <1>12, <1>15
<1>16. CASE ResidentWrite
  <2>1. CASE \E p \in Provisions :
             \/ RegisterProvision(p, Retirable # {}) \/ FailCreate(p) \/ ObservePromotion(p)
             \/ CommitProvision(p) \/ PublishSame(p) \/ WriteProof(p)
    BY <1>7, <2>1 DEF G
  <2>2. CASE \E e \in Ends : PrepareEnd(e) \/ AcknowledgeEnd(e) \/ CompleteEnd(e) BY <1>8, <1>9, <1>10, <2>2 DEF G
  <2>3. CASE \E b \in Bootstraps : PrepareReserved(b, Retirable # {}) BY <1>6, <2>3 DEF G
  <2> QED BY <1>13, <1>14, <1>16, <2>1, <2>2, <2>3 DEF ResidentWrite
<1>17. CASE RecordWrite
  <2>1. CASE \E o \in LifecycleOps : QuarantineUnknown(o) \/ RecoverBefore(o) BY <1>2, <2>1 DEF G
  <2> QED BY <1>14, <1>16, <1>17, <2>1 DEF RecordWrite
<1>18. RecordOnly \/ UNCHANGED recordVars BY RecordWrites
<1>19. CASE RecordOnly BY <1>17, <1>19 DEF RecordOnly
<1>20. G BY <1>15, <1>18, <1>19 DEF G
<1> QED BY <1>20 DEF G

LEMMA SpentStays ==
  ASSUME FilesInvariant, ResidentInvariant, [FilesNext]_storeFilesVars, NEW p \in Provisions, Spent(p)
  PROVE  Spent(p)'
<1>0. RecordFacts BY DEF ResidentInvariant
<1>f. p \in fenced => Spent(p)' BY SpentParts DEF Spent
<1>1. CASE bind[p] = "completed"
  <2>1. ASSUME NEW e \in Ends, CompleteEnd(e), target[e] = p PROVE bind'[p] = "completed"
    BY <2>1, Typing DEF CompleteEnd
  <2> QED BY <1>1, <1>f, <2>1, SpentParts DEF Spent
<1>2. ASSUME NEW e \in Ends, target[e] = p, View(ThreadOf[e]).of = e PROVE Spent(p)'
  <2>1. ThreadOf[e] \in Threads OBVIOUS
  <2>2. View(ThreadOf[e]).st = "ended" /\ Ending(e) BY <1>2, ShownEnd
  <2>3. CASE View(ThreadOf[e])' = View(ThreadOf[e])
    <3>1. ~PrepareEnd(e) BY <2>2 DEF PrepareEnd, Ending, Recorded
    <3>2. target'[e] = p \/ p \in fenced BY <1>2, <3>1, SpentParts
    <3>3. ASSUME target'[e] = p PROVE Spent(p)'
      <4>1. View(ThreadOf[e])'.of = e BY <1>2, <2>3
      <4> QED BY <3>3, <4>1 DEF Spent
    <3> QED BY <1>f, <3>2, <3>3
  <2>4. CASE ~Unshown /\ View(ThreadOf[e])' # View(ThreadOf[e])
    <3>1. ASSUME NEW b \in Bootstraps, Placed(b) PROVE FALSE
      BY <2>1, <2>2, <2>4, <3>1 DEF Placed, OnlyShows, NoView, Initial, Shows
    <3>2. ASSUME NEW d \in Ends, Projected(d) PROVE FALSE
      BY <2>1, <2>2, <2>4, <3>2 DEF Projected, OnlyShows
    <3>3. PICK q \in Provisions, c \in Cursors : Published(q, c) BY <2>4, <3>1, <3>2, Shown DEF ViewChange
    <3>4. ThreadOf[q] = ThreadOf[e] BY <2>1, <2>4, <3>3 DEF Published, OnlyShows
    <3>5. UNCHANGED <<bind, fenced>> /\ bind[q] \in {"activating", "active"}
      BY <3>3 DEF Published, PreparePublication, Projecting, Leased
    <3>6. Open(q)
      <4>1. ProvisionFact(q) BY <1>0, RecordParts
      <4> QED BY <3>5, <4>1 DEF ProvisionFact, Open, OpenStages
    <3>7. q # e OBVIOUS
    <3>8. Exclusive(q) BY <1>0, RecordParts
    <3>9. ~Open(e) BY <3>4, <3>6, <3>7, <3>8 DEF Exclusive
    <3>10. bind[p] = "completed" \/ p \in fenced BY <1>2, <3>9, EndedSpent
    <3> QED BY <3>5, <3>10 DEF Spent
  <2> QED BY <2>1, <2>3, <2>4 DEF Unshown
<1> QED BY <1>1, <1>2, <1>f DEF Spent

LEMMA SpentGrows ==
  ASSUME FilesInvariant, ResidentInvariant, [FilesNext]_storeFilesVars, NEW p \in Provisions, ~Spent(p), Spent(p)'
  PROVE  \/ \E e \in Ends : Projected(e) /\ target[e] = p
         \/ WriteFence /\ p = marker /\ Reached(p) = NoLineage
<1>0. RecordFacts /\ FenceFacts BY DEF ResidentInvariant
<1>s. bind[p] # "completed" /\ p \notin fenced /\ \A e \in Ends : target[e] = p => View(ThreadOf[e]).of # e
  BY DEF Spent
<1>1. ASSUME bind'[p] = "completed" PROVE FALSE
  <2>1. PICK e \in Ends : CompleteEnd(e) /\ target[e] = p BY <1>1, <1>s, SpentParts
  <2>2. call.job = "end" /\ call.op = e /\ call.at = "complete" BY <2>1 DEF CompleteEnd, Step, Job
  <2>3. snapshot[ThreadOf[e]].of = e BY <2>2 DEF ResidentInvariant, ResidentCallFacts
  <2>4. ~AnyPending BY <2>2 DEF FilesInvariant, CallFacts
  <2>5. ThreadOf[e] \in Threads OBVIOUS
  <2>6. View(ThreadOf[e]) = snapshot[ThreadOf[e]] BY <2>4, <2>5 DEF View, AnyPending
  <2> QED BY <1>s, <2>1, <2>3, <2>6
<1>2. ASSUME p \in fenced' PROVE WriteFence /\ p = marker /\ Reached(p) = NoLineage
  <2>1. WriteFence /\ Recorded(p) BY <1>2, <1>s, RecordedMoves
  <2>2. Provable(marker) /\ p \in Group(marker) BY <1>2, <1>s, <2>1 DEF WriteFence
  <2>3. marker \in LifecycleOps BY <2>1 DEF WriteFence, FilesInvariant, RetiringFacts
  <2>4. ~(marker \in Ends /\ p = target[marker])
    <3> SUFFICES ASSUME marker \in Ends, p = target[marker] PROVE FALSE OBVIOUS
    <3>1. ~Pending(ThreadOf[marker]) /\ snapshot[ThreadOf[marker]].of = marker BY <2>2 DEF Provable, PublicProof
    <3>2. View(ThreadOf[marker]).of = marker BY <3>1 DEF View
    <3> QED BY <1>s, <3>2
  <2>5. p = marker BY <2>2, <2>4 DEF Group
  <2>6. life[p] = "failed" /\ ProvisionFact(p) BY <1>0, <1>s, <2>5, RecordParts DEF FenceFacts
  <2>7. bind[p] = "none" /\ lineage[p] = NoLineage BY <2>6 DEF ProvisionFact
  <2>8. ThreadOf[p] \in Threads OBVIOUS
  <2>9. ~(Pending(ThreadOf[p]) /\ wal[ThreadOf[p]].op = p)
    <3>1. PublishingFact(ThreadOf[p]) BY <2>8 DEF ResidentInvariant
    <3> QED BY <2>6, <2>7, <3>1 DEF PublishingFact
  <2> QED BY <2>1, <2>5, <2>7, <2>9 DEF Reached, Pending
<1>3. ASSUME NEW e \in Ends, target'[e] = p, View(ThreadOf[e])'.of = e
      PROVE  \E d \in Ends : Projected(d) /\ target[d] = p
  <2>1. ThreadOf[e] \in Threads OBVIOUS
  <2>2. ~PrepareEnd(e)
    <3> SUFFICES ASSUME PrepareEnd(e) PROVE FALSE OBVIOUS
    <3>1. View(ThreadOf[e])' = View(ThreadOf[e]) BY DEF PrepareEnd, View, Pending
    <3>2. Ending(e) BY <1>3, <3>1, ShownEnd
    <3> QED BY <3>2 DEF PrepareEnd, Ending, Recorded
  <2>3. target[e] = p BY <1>3, <2>2, SpentParts
  <2>4. View(ThreadOf[e])' # View(ThreadOf[e]) BY <1>3, <1>s, <2>3
  <2>5. ASSUME NEW b \in Bootstraps, Placed(b) PROVE FALSE
    BY <1>3, <2>1, <2>4, <2>5 DEF Placed, OnlyShows, NoView, Initial, Shows
  <2>6. ASSUME NEW q \in Provisions, NEW c \in Cursors, Published(q, c) PROVE FALSE
    <3>1. q # e OBVIOUS
    <3> QED BY <1>3, <2>1, <2>4, <2>6, <3>1 DEF Published, OnlyShows, Live, Shows
  <2>7. PICK d \in Ends : Projected(d) BY <2>1, <2>4, <2>5, <2>6, Shown DEF ViewChange, Unshown
  <2>8. d = e BY <1>3, <2>1, <2>4, <2>7 DEF Projected, OnlyShows, Ended, Shows
  <2> QED BY <2>3, <2>7, <2>8
<1>4. bind'[p] = "completed" \/ p \in fenced' \/ \E e \in Ends : target'[e] = p /\ View(ThreadOf[e])'.of = e
  BY DEF Spent
<1> QED BY <1>1, <1>2, <1>3, <1>4

(* A step that neither projects an end nor fences leaves every session     *)
(* that is over, over, and no other.                                       *)
LEMMA SpentSteady ==
  ASSUME FilesInvariant, ResidentInvariant, [FilesNext]_storeFilesVars, ~WriteFence,
         \A e \in Ends : ~Projected(e)
  PROVE  SpentSame
<1> SUFFICES ASSUME NEW p \in Provisions PROVE Spent(p)' <=> Spent(p) BY DEF SpentSame
<1> QED BY SpentStays, SpentGrows

LEMMA PublishImplements ==
  ASSUME FilesInvariant, ResidentInvariant, [FilesNext]_storeFilesVars,
         NEW p \in Provisions, NEW c \in Cursors, PreparePublication(p, c)
  PROVE  Promised!Publish(p, c)
<1> DEFINE t == ThreadOf[p]
<1>t. t \in Threads OBVIOUS
<1>0. RecordFacts /\ ViewFact(t) BY DEF ResidentInvariant
<1>1. /\ mode = "up" /\ call = Idle /\ retiring = "no" /\ snapshot[t] = catalog[t] /\ Follows(lineage[p], c)
      /\ bind[p] \in {"activating", "active"}
  BY DEF PreparePublication, Ready, Projecting, Leased
<1>2. /\ Published(p, c) /\ ~AnyPending
      /\ Reached(p) = lineage[p] /\ Reached(p)' = Extend(lineage[p], c)
      /\ \A q \in Provisions \ {p} : Reached(q)' = Reached(q)
  BY PublishShows
<1>3. marker = NoOp BY <1>1 DEF FilesInvariant, ModeFacts
<1>4. ~Spent(p) BY <1>1, <1>3, CommandsNotSpent
<1>5. ~WriteFence BY <1>1 DEF WriteFence
<1>6. \A e \in Ends : ~Projected(e) BY <1>1 DEF Projected, PrepareEndProjection, Step, Job, Idle
<1>7. SpentSame BY <1>5, <1>6, SpentSteady
<1>8. View(t) = snapshot[t] BY <1>t, <1>2 DEF View, AnyPending
<1>9. View(t) # NoView
  <2>1. t \in authority BY <1>1 DEF FilesInvariant, DurableFacts, AuthorityFacts
  <2>2. catalog[t] # NoView BY <2>1 DEF FilesInvariant, DurableFacts, CatalogClosed
  <2> QED BY <1>1, <1>8, <2>2
<1>10. Open(p) /\ Exclusive(p)
  <2>1. ProvisionFact(p) /\ Exclusive(p) BY <1>0, RecordParts
  <2> QED BY <1>1, <2>1 DEF ProvisionFact, Open, OpenStages
<1>11. ASSUME View(t).st = "live" PROVE View(t).of = p
  <2>1. PICK q \in Provisions : q = View(t).of /\ ThreadOf[q] = t /\ bind[q] \in Following
    BY <1>0, <1>t, <1>11, ViewParts
  <2>2. ProvisionFact(q) /\ DetachedFact(q) BY <1>0, RecordParts
  <2>3. CASE bind[q] \in {"activating", "active"}
    <3>1. Open(q) BY <2>2, <2>3 DEF ProvisionFact, Open, OpenStages
    <3> QED BY <1>10, <2>1, <3>1 DEF Exclusive
  <2>4. CASE bind[q] = "detached"
    <3>1. PICK e \in Ends : target[e] = q /\ life[e] \in {"ending", "acknowledged"} BY <2>2, <2>4 DEF DetachedFact
    <3>2. Open(e) BY <3>1 DEF Open, OpenStages
    <3>3. q # NoOp OBVIOUS
    <3>4. ThreadOf[e] = t BY <2>1, <3>1, <3>3 DEF FilesInvariant, DurableFacts, TargetFacts
    <3>5. e # p OBVIOUS
    <3> QED BY <1>10, <3>2, <3>4, <3>5 DEF Exclusive
  <2> QED BY <2>1, <2>3, <2>4 DEF Following
<1>12. OnlyShows(t, Live(p, c)) BY <1>2 DEF Published
<1> QED BY <1>1, <1>2, <1>4, <1>7, <1>9, <1>11, <1>12, PublishIs

LEMMA ProjectionImplements ==
  ASSUME FilesInvariant, ResidentInvariant, [FilesNext]_storeFilesVars, NEW e \in Ends, Projected(e)
  PROVE  \E p \in Provisions : Promised!End(e, p)
<1> DEFINE t == ThreadOf[e]
<1>t. t \in Threads OBVIOUS
<1>0. RecordFacts /\ ViewFact(t) BY DEF ResidentInvariant
<1>1. /\ call = Job("end", e, "project") /\ retiring = "no" /\ UNCHANGED target
      /\ View(t).st = "live" /\ View(t).of = target[e] /\ OnlyShows(t, Ended(e, View(t).at))
  BY DEF Projected, PrepareEndProjection, Step
<1>2. PICK p \in Provisions : p = target[e] /\ ThreadOf[p] = t /\ bind[p] \in Following
  BY <1>0, <1>t, <1>1, ViewParts
<1>3. mode \in {"replay", "after", "up"} BY <1>1 DEF FilesInvariant, CallFacts, Job
<1>4. ~Spent(p)
  <2>1. ProvisionFact(p) BY <1>0, RecordParts
  <2>2. Recorded(p) BY <1>2, <2>1 DEF ProvisionFact, Following, Recorded
  <2>3. p \notin fenced BY <1>1, <1>3, <2>2, NothingRetires
  <2>4. ASSUME NEW d \in Ends, target[d] = p PROVE View(ThreadOf[d]).of # d
    <3>1. p # NoOp /\ p # d OBVIOUS
    <3>2. ThreadOf[d] = t BY <1>2, <2>4, <3>1 DEF FilesInvariant, DurableFacts, TargetFacts
    <3> QED BY <1>1, <1>2, <3>1, <3>2
  <2> QED BY <1>2, <2>3, <2>4 DEF Spent, Following
<1>5. Spent(p)'
  <2>1. target'[e] = p BY <1>1, <1>2
  <2>2. View(t)'.of = e BY <1>1 DEF OnlyShows, Ended, Shows
  <2> QED BY <2>1, <2>2 DEF Spent
<1>6. ASSUME NEW q \in Provisions \ {p} PROVE Spent(q)' <=> Spent(q)
  <2>1. ~WriteFence BY <1>1 DEF WriteFence
  <2>2. ASSUME NEW d \in Ends, Projected(d) PROVE target[d] # q
    <3>1. d = e BY <1>1, <2>2 DEF Projected, PrepareEndProjection, Step, Job
    <3> QED BY <1>2, <3>1
  <2> QED BY <2>1, <2>2, SpentStays, SpentGrows
<1>7. ReachedSame
  <2>1. ~RemoveLineage BY <1>1 DEF RemoveLineage
  <2>2. ASSUME NEW q \in Provisions, NEW c \in Cursors PROVE ~PreparePublication(q, c)
    BY <1>1 DEF PreparePublication, Ready, Job, Idle
  <2> QED BY <2>1, <2>2, ReachedMoves
<1>8. View(t).of = p BY <1>1, <1>2
<1>9. Promised!End(e, p) BY <1>1, <1>4, <1>5, <1>6, <1>7, <1>8, EndIs
<1> QED BY <1>9

LEMMA PlacementImplements ==
  ASSUME FilesInvariant, NEW b \in Bootstraps, Placed(b)
  PROVE  Promised!Appear(ThreadOf[b]) \/ Promised!Vanish(ThreadOf[b])
<1> DEFINE t == ThreadOf[b]
<1>t. t \in Threads OBVIOUS
<1>1. UNCHANGED <<bind, fenced, target, lineage, wal>> BY DEF Placed, recordVars
<1>2. ReachedSame BY <1>1 DEF ReachedSame, Reached
<1>3. \/ View(t) = NoView /\ OnlyShows(t, Initial)
      \/ View(t) = Initial /\ OnlyShows(t, NoView)
  BY DEF Placed
<1>4. ASSUME NEW e \in Ends PROVE View(ThreadOf[e])'.of = e <=> View(ThreadOf[e]).of = e
  <2>1. ThreadOf[e] \in Threads /\ e # NoOp OBVIOUS
  <2>2. View(t).of = NoOp /\ View(t)'.of = NoOp BY <1>3 DEF OnlyShows, NoView, Initial, Shows
  <2>3. ThreadOf[e] # t => View(ThreadOf[e])' = View(ThreadOf[e]) BY <1>3, <2>1 DEF OnlyShows
  <2> QED BY <2>1, <2>2, <2>3
<1>5. SpentSame BY <1>1, <1>4 DEF SpentSame, Spent
<1> QED BY <1>t, <1>2, <1>3, <1>5, AppearIs, VanishIs

LEMMA UnshownImplements ==
  ASSUME FilesInvariant, ResidentInvariant, [FilesNext]_storeFilesVars, Unshown,
         \A p \in Provisions, c \in Cursors : ~PreparePublication(p, c),
         \A e \in Ends : ~Projected(e)
  PROVE  \/ UNCHANGED Promised!publishedVars
         \/ \E p \in Provisions : Promised!GiveUp(p) \/ Promised!Forget(p)
<1>1. CASE ReachedSame
  <2>1. CASE SpentSame BY <1>1, <2>1, StutterIs
  <2>2. CASE ~SpentSame
    <3>1. PICK p \in Provisions : ~(Spent(p)' <=> Spent(p)) BY <2>2 DEF SpentSame
    <3>2. ~Spent(p) /\ Spent(p)' BY <3>1, SpentStays
    <3>3. p = marker /\ Reached(p) = NoLineage BY <3>2, SpentGrows
    <3>4. ASSUME NEW q \in Provisions \ {p} PROVE Spent(q)' <=> Spent(q)
      BY <3>3, SpentStays, SpentGrows
    <3>5. Promised!GiveUp(p) BY <1>1, <3>2, <3>3, <3>4, GiveUpIs
    <3> QED BY <3>5
  <2> QED BY <2>1, <2>2
<1>2. CASE ~ReachedSame
  <2>1. PICK p \in Provisions :
          /\ RemoveLineage /\ p = target[marker] /\ Reached(p)' = NoLineage
          /\ \A q \in Provisions \ {p} : Reached(q)' = Reached(q)
    BY <1>2, ReachedMoves
  <2>2. retiring = "lineage" BY <2>1 DEF RemoveLineage
  <2>3. SpentSame
    <3>1. ~WriteFence BY <2>2 DEF WriteFence
    <3> QED BY <3>1, SpentSteady
  <2>4. Spent(p) BY <2>1, <2>2, GroupFenced DEF Group, Spent
  <2>5. Promised!Forget(p) BY <2>1, <2>3, <2>4, ForgetIs
  <2> QED BY <2>5
<1> QED BY <1>1, <1>2

LEMMA ImplementsStep ==
  FilesInvariant /\ ResidentInvariant /\ [FilesNext]_storeFilesVars =>
    [Promised!PublishedNext]_(Promised!publishedVars)
<1> SUFFICES ASSUME FilesInvariant, ResidentInvariant, [FilesNext]_storeFilesVars
             PROVE  Promised!PublishedNext \/ UNCHANGED Promised!publishedVars
  OBVIOUS
<1>1. ASSUME NEW p \in Provisions, NEW c \in Cursors, PreparePublication(p, c) PROVE Promised!PublishedNext
  <2>1. Promised!Publish(p, c) BY <1>1, PublishImplements
  <2> QED BY <2>1 DEF Promised!PublishedNext
<1>2. ASSUME NEW e \in Ends, Projected(e) PROVE Promised!PublishedNext
  <2>1. PICK p \in Provisions : Promised!End(e, p) BY <1>2, ProjectionImplements
  <2> QED BY <2>1 DEF Promised!PublishedNext
<1>3. ASSUME NEW b \in Bootstraps, Placed(b) PROVE Promised!PublishedNext
  <2>1. ThreadOf[b] \in Threads OBVIOUS
  <2>2. Promised!Appear(ThreadOf[b]) \/ Promised!Vanish(ThreadOf[b]) BY <1>3, PlacementImplements
  <2> QED BY <2>1, <2>2 DEF Promised!PublishedNext
<1>4. CASE /\ Unshown /\ \A e \in Ends : ~Projected(e)
           /\ \A p \in Provisions, c \in Cursors : ~PreparePublication(p, c)
  <2>1. \/ UNCHANGED Promised!publishedVars
        \/ \E p \in Provisions : Promised!GiveUp(p) \/ Promised!Forget(p)
    BY <1>4, UnshownImplements
  <2>2. ASSUME NEW p \in Provisions, Promised!GiveUp(p) \/ Promised!Forget(p) PROVE Promised!PublishedNext
    BY <2>2 DEF Promised!PublishedNext
  <2> QED BY <2>1, <2>2
<1> QED BY <1>1, <1>2, <1>3, <1>4, Shown DEF ViewChange, Published

LEMMA ImplementsInit == FilesInit => Promised!PublishedInit
<1> SUFFICES ASSUME FilesInit PROVE Promised!PublishedInit OBVIOUS
<1>1. /\ snapshot = [t \in Threads |-> NoView] /\ wal = [t \in Threads |-> NoTx]
      /\ lineage = [p \in Provisions |-> NoLineage] /\ fenced = {}
      /\ \A p \in Provisions : bind[p] = "none"
      /\ \A e \in Ends : target[e] = NoOp
  BY DEF FilesInit, StateInit
<1>2. ViewBar = [t \in Threads |-> NoView] BY <1>1 DEF ViewBar, View, Pending
<1>3. LastBar = [p \in Provisions |-> NoLineage] BY <1>1 DEF LastBar, Reached
<1>4. OverBar = {} BY <1>1 DEF OverBar, Spent
<1> QED BY <1>2, <1>3, <1>4 DEF Promised!PublishedInit, Promised!NoView, Promised!Unpublished, Promised!Shows,
        NoView, Shows, NoLineage, ViewBar, LastBar, OverBar, View, Reached, Spent

(* A reader of the Store sees each thread's state change in one step and   *)
(* forward along its session's cursor: the files, their write-ahead        *)
(* records and every restart implement PublishedThreads                    *)
(* (store.ts, publishResidentProjectionSnapshot and the terminal           *)
(* projection of an end, with their replay by initialize()).               *)
THEOREM FilesImplementPublished == FilesSpec => PublishedSpec
<1>1. FilesInit => Promised!PublishedInit BY ImplementsInit
<1>2. FilesInvariant /\ ResidentInvariant /\ [FilesNext]_storeFilesVars =>
        [Promised!PublishedNext]_(Promised!publishedVars)
  BY ImplementsStep
<1> QED BY <1>1, <1>2, FilesInvariantHolds, ResidentInvariantHolds, PTL
  DEF FilesSpec, PublishedSpec, Promised!PublishedSpec

-----------------------------------------------------------------------------
(* What lets initialize() finish.                                          *)

(* An outcome is unknown only before the evidence that settles it.         *)
LEMMA UnknownStep ==
  ASSUME FilesInvariant, ResidentInvariant, StartInvariant, [FilesNext]_storeFilesVars, NEW o \in LifecycleOps
  PROVE  UnknownFact(o)'
<1>t. /\ life \in [LifecycleOps -> {"none"} \cup ProvisionStages \cup EndStages]
      /\ held \in [LifecycleOps -> HeldReasons]
  BY Typing
<1>0. UnknownFact(o) /\ HeldFact(o) BY RecordParts DEF StartInvariant, ResidentInvariant
<1>1. ASSUME life'[o] = life[o], held'[o] = held[o] PROVE UnknownFact(o)'
  BY <1>0, <1>1 DEF UnknownFact
<1>2. CASE UNCHANGED recordVars BY <1>1, <1>2 DEF recordVars
<1>3. ASSUME NEW q \in LifecycleOps, QuarantineUnknown(q) \/ RecoverBefore(q) PROVE UnknownFact(o)'
  <2>1. UNCHANGED life BY <1>3 DEF QuarantineUnknown, RecoverBefore
  <2>2. held' = held \/ held' = [held EXCEPT ![q] = "missing"]
        \/ (held' = [held EXCEPT ![q] = "unknown"] /\ life[q] \in {"creating", "ending"})
    BY <1>3 DEF QuarantineUnknown, RecoverBefore
  <2>3. held'[o] = held[o] \/ held'[o] = "missing" \/ life[o] \in {"creating", "ending"} BY <1>t, <2>2
  <2> QED BY <1>0, <2>1, <2>3 DEF UnknownFact
<1>4. ASSUME BeginRetirement \/ WriteFence \/ RemoveBinding \/ RemoveOperation \/ RemoveMarker PROVE UnknownFact(o)'
  <2>1. UNCHANGED held BY <1>4 DEF BeginRetirement, WriteFence, RemoveBinding, RemoveOperation, RemoveMarker
  <2>2. life'[o] = life[o] \/ life[o] \in {"none", "failed", "committed", "completed"} BY <1>4, RetirementTakes
  <2> QED BY <1>0, <2>1, <2>2 DEF UnknownFact, HeldFact
<1>5. ASSUME NEW q \in LifecycleOps, NEW s, life' = [life EXCEPT ![q] = s],
             held' = held \/ held' = [held EXCEPT ![q] = "no"],
             s \in {"creating", "ending"} \/ held'[q] # "unknown"
      PROVE  UnknownFact(o)'
  <2>1. o # q => life'[o] = life[o] /\ held'[o] = held[o] BY <1>t, <1>5
  <2>2. life'[q] = s BY <1>t, <1>5
  <2>3. CASE o = q BY <1>5, <2>2, <2>3 DEF UnknownFact
  <2> QED BY <1>1, <2>1, <2>3
<1>6. ASSUME NEW b \in Bootstraps, PrepareReserved(b, Retirable # {}) PROVE UnknownFact(o)'
  <2>1. UNCHANGED held /\ Reserves[b] \in LifecycleOps BY <1>6 DEF PrepareReserved, LifecycleDue, Registered
  <2>2. UNCHANGED life \/ life' = [life EXCEPT ![Reserves[b]] = "creating"] BY <1>6 DEF PrepareReserved
  <2>3. CASE UNCHANGED life BY <1>1, <2>1, <2>3
  <2>4. CASE life' = [life EXCEPT ![Reserves[b]] = "creating"] BY <1>5, <2>1, <2>4
  <2> QED BY <2>2, <2>3, <2>4
<1>7. ASSUME NEW p \in Provisions,
             \/ RegisterProvision(p, Retirable # {}) \/ FailCreate(p) \/ ObservePromotion(p)
             \/ CommitProvision(p) \/ PublishSame(p) \/ WriteProof(p)
      PROVE  UnknownFact(o)'
  <2>1. UNCHANGED held
    BY <1>7 DEF RegisterProvision, FailCreate, ObservePromotion, CommitProvision, PublishSame, WriteProof
  <2>2. RegisterProvision(p, Retirable # {}) \/ held[p] # "unknown"
    <3>1. ASSUME WriteProof(p) PROVE held[p] # "unknown"
      <4>1. call.job = "publish" /\ call.at = "proof" /\ call.op = p BY <3>1 DEF WriteProof, Step, Job
      <4>2. life[p] \in {"promoted", "published"} BY <4>1 DEF ResidentInvariant, ResidentCallFacts
      <4>3. UnknownFact(p) BY DEF StartInvariant
      <4> QED BY <4>2, <4>3 DEF UnknownFact
    <3> QED BY <1>7, <3>1 DEF FailCreate, ObservePromotion, CommitProvision, PublishSame, Leased
  <2>3. PICK s : life' = [life EXCEPT ![p] = s] /\ (s = "creating" \/ held[p] # "unknown")
    BY <1>7, <2>2 DEF RegisterProvision, FailCreate, ObservePromotion, CommitProvision, PublishSame, WriteProof
  <2> QED BY <1>5, <2>1, <2>3
<1>8. ASSUME NEW e \in Ends, PrepareEnd(e) \/ AcknowledgeEnd(e) \/ CompleteEnd(e) PROVE UnknownFact(o)'
  <2>1. CASE PrepareEnd(e)
    <3>1. UNCHANGED held /\ life' = [life EXCEPT ![e] = "ending"] BY <2>1 DEF PrepareEnd
    <3> QED BY <1>5, <3>1
  <2>2. CASE AcknowledgeEnd(e)
    <3>1. held' = [held EXCEPT ![e] = "no"] /\ life' = [life EXCEPT ![e] = "acknowledged"] BY <2>2 DEF AcknowledgeEnd
    <3>2. held'[e] = "no" BY <1>t, <3>1
    <3> QED BY <1>5, <3>1, <3>2
  <2>3. CASE CompleteEnd(e)
    <3>1. call.job = "end" /\ call.op = e /\ call.at = "complete" BY <2>3 DEF CompleteEnd, Step, Job
    <3>2. held[e] = "no" BY <3>1 DEF ResidentInvariant, ResidentCallFacts
    <3>3. UNCHANGED held /\ life' = [life EXCEPT ![e] = "completed"] BY <2>3 DEF CompleteEnd
    <3> QED BY <1>5, <3>2, <3>3
  <2> QED BY <1>8, <2>1, <2>2, <2>3
<1> QED BY <1>2, <1>3, <1>4, <1>6, <1>7, <1>8, RecordWrites DEF RecordOnly, RecordWrite, ResidentWrite

(* A pending publication stays over what it was read from.                 *)
LEMMA OverStep ==
  ASSUME FilesInvariant, ResidentInvariant, StartInvariant, [FilesNext]_storeFilesVars, NEW t \in Threads
  PROVE  OverFact(t)'
<1>t. /\ wal \in [Threads -> Transactions \cup {NoTx}] /\ lineage \in [Provisions -> Lineages]
      /\ snapshot \in [Threads -> Views] /\ catalog \in [Threads -> Views]
  BY DEF FilesInvariant, FilesTypeOK
<1>0. OverFact(t) /\ PendingFact(t) BY DEF StartInvariant, FilesInvariant, DurableFacts
<1>1. ASSUME wal'[t] \in {wal[t], NoTx}, snapshot'[t] = snapshot[t], catalog'[t] = catalog[t], UNCHANGED lineage
      PROVE  OverFact(t)'
  BY <1>0, <1>1 DEF OverFact, Pending
<1>2. CASE UNCHANGED <<files, projectionVars>> BY <1>1, <1>2
<1>3. CASE FileWrite /\ UNCHANGED projectionVars
  <2>1. CASE ~Pending(t) BY <1>3, <2>1 DEF OverFact, Pending
  <2>2. ASSUME Pending(t), NEW o \in LifecycleOps, WriteSnapshot(o) \/ WriteCatalog(o) PROVE OverFact(t)'
    <3>1. /\ Pending(ThreadOf[o]) /\ \A u \in Threads \ {ThreadOf[o]} : ~Pending(u)
          /\ ThreadOf[o] \in Threads
      BY <2>2, PublishingIs
    <3>2. ThreadOf[o] = t BY <2>2, <3>1
    <3>3. snapshot'[t] \in {snapshot[t], wal[t].view} BY <1>t, <2>2, <3>2 DEF WriteSnapshot, WriteCatalog
    <3>4. wal[t].rows[t] = wal[t].view BY <1>0, <2>2 DEF PendingFact
    <3>5. catalog'[t] \in {catalog[t], wal[t].view} BY <2>2, <3>2, <3>4 DEF WriteSnapshot, WriteCatalog
    <3> QED BY <1>0, <1>3, <3>3, <3>5 DEF OverFact, Pending
  <2>3. ASSUME Pending(t), NEW b \in Bootstraps, Place(b) \/ RemoveArtifact(b) PROVE UNCHANGED files
    <3>1. ~AnyBootOpen BY <2>3 DEF FilesInvariant, DurableFacts, AnyPending
    <3>2. ~Place(b)
      <4> SUFFICES ASSUME Place(b) PROVE FALSE OBVIOUS
      <4>1. \E a \in Artifacts : Placing(b, a) BY DEF Place
      <4> QED BY <3>1, <4>1, PlacingNext DEF AnyBootOpen
    <3>3. call.job = "bootstrap" /\ call.op = b /\ call.at = "undo"
      BY <2>3, <3>2 DEF RemoveArtifact, Undoing, Step, Job
    <3>4. boot[b].phase = "undoing" BY <3>3 DEF FilesInvariant, CallFacts
    <3> QED BY <3>1, <3>4 DEF AnyBootOpen, BootOpen
  <2>4. ASSUME NEW b \in Bootstraps,
               \/ RecordPrepared(b) \/ Reactivate(b) \/ Claim(b) \/ Advance(b) \/ CommitBootstrap(b)
               \/ PlanRollback(b) \/ AdvanceRollback(b) \/ RetireRollback(b)
        PROVE  UNCHANGED files
    BY <2>4 DEF RecordPrepared, Reactivate, Claim, Advance, CommitBootstrap, PlanRollback, AdvanceRollback, RetireRollback
  <2>5. ReleaseReservation \/ CompactBootstrap => UNCHANGED files
    BY DEF ReleaseReservation, CompactBootstrap
  <2> QED BY <1>2, <1>3, <2>1, <2>2, <2>3, <2>4, <2>5 DEF FileWrite
<1>4. ASSUME NEW p \in Provisions, NEW c \in Cursors, PreparePublication(p, c) PROVE OverFact(t)'
  <2>1. UNCHANGED <<files, lineage>> BY <1>4 DEF PreparePublication
  <2>2. CASE t # ThreadOf[p] BY <1>1, <1>4, <2>1, <2>2, PreparedIs
  <2>3. CASE t = ThreadOf[p]
    <3>1. PICK tx : tx.op = p /\ tx.prev = lineage[p] /\ wal' = [wal EXCEPT ![t] = tx]
      BY <1>4, <2>3 DEF PreparePublication
    <3>2. wal'[t] = tx /\ p \notin Ends BY <1>t, <3>1
    <3> QED BY <2>1, <3>1, <3>2 DEF OverFact
  <2> QED BY <2>2, <2>3
<1>5. ASSUME NEW e \in Ends, PrepareEndProjection(e) PROVE OverFact(t)'
  <2>1. UNCHANGED <<files, lineage>> BY <1>5 DEF PrepareEndProjection
  <2>2. CASE UNCHANGED wal BY <1>1, <2>1, <2>2
  <2>3. CASE t # ThreadOf[e]
    <3>1. e \in LifecycleOps OBVIOUS
    <3>2. \A u \in Threads \ {ThreadOf[e]} : wal'[u] = wal[u] BY <1>5, <3>1, PreparedIs
    <3> QED BY <1>1, <2>1, <2>3, <3>2
  <2>4. CASE t = ThreadOf[e] /\ ~UNCHANGED wal
    <3>1. PICK tx : tx.op = e /\ tx.source = snapshot[t] /\ wal' = [wal EXCEPT ![t] = tx]
      BY <1>5, <2>4 DEF PrepareEndProjection
    <3>2. wal'[t] = tx /\ e \notin Provisions BY <1>t, <3>1
    <3>3. snapshot[t] = catalog[t] BY <1>5, <2>4 DEF PrepareEndProjection, SourceDiverges
    <3> QED BY <2>1, <3>1, <3>2, <3>3 DEF OverFact
  <2> QED BY <2>2, <2>3, <2>4
<1>6. ASSUME NEW o \in LifecycleOps, RemoveWal(o) PROVE OverFact(t)'
  <2>1. UNCHANGED <<files, lineage>> /\ wal' = [wal EXCEPT ![ThreadOf[o]] = NoTx] BY <1>6 DEF RemoveWal
  <2>2. wal'[t] \in {wal[t], NoTx} BY <1>t, <2>1
  <2> QED BY <1>1, <2>1, <2>2
<1>7. ASSUME NEW p \in Provisions, WriteLineage(p) PROVE OverFact(t)'
  <2>1. UNCHANGED <<files, wal>> /\ (UNCHANGED lineage \/ lineage' = [lineage EXCEPT ![p] = wal[ThreadOf[p]].next])
        /\ call.job = "publish" /\ call.op = p /\ call.at = "lineage"
    BY <1>7 DEF WriteLineage, Step, Job
  <2>2. wal[ThreadOf[p]].op = p BY <2>1 DEF FilesInvariant, CallFacts
  <2>3. CASE ~Pending(t) BY <2>1, <2>3 DEF OverFact, Pending
  <2>4. CASE Pending(t)
    <3>1. ThreadOf[wal[t].op] = t BY <1>0, <2>4 DEF PendingFact
    <3>2. wal[t].op = p => lineage'[p] \in {lineage[p], wal[t].next} BY <1>t, <2>1, <3>1
    <3>3. wal[t].op \in Provisions /\ wal[t].op # p => lineage'[wal[t].op] = lineage[wal[t].op] BY <1>t, <2>1
    <3> QED BY <1>0, <2>1, <3>2, <3>3 DEF OverFact, Pending
  <2> QED BY <2>3, <2>4
<1>8. CASE RemoveLineage
  <2>1. UNCHANGED <<files, wal>> /\ lineage' = [lineage EXCEPT ![target[marker]] = NoLineage] BY <1>8 DEF RemoveLineage
  <2>2. CASE ~Pending(t) BY <2>1, <2>2 DEF OverFact, Pending
  <2>3. CASE Pending(t)
    <3>1. marker \in Ends /\ target[marker] \in Provisions BY <1>8, GroupFenced DEF RemoveLineage
    <3>2. ThreadOf[target[marker]] = ThreadOf[marker] BY <3>1 DEF FilesInvariant, DurableFacts, TargetFacts
    <3>3. ~Pending(ThreadOf[marker]) BY <1>8, <3>1 DEF FilesInvariant, RetiringFacts, RemoveLineage
    <3>4. ThreadOf[wal[t].op] = t BY <1>0, <2>3 DEF PendingFact
    <3>5. wal[t].op # target[marker] BY <2>3, <3>2, <3>3, <3>4
    <3>6. wal[t].op \in Provisions => lineage'[wal[t].op] = lineage[wal[t].op] BY <1>t, <2>1, <3>5
    <3> QED BY <1>0, <2>1, <3>6 DEF OverFact, Pending
  <2> QED BY <2>2, <2>3
<1> QED BY <1>2, <1>3, <1>4, <1>5, <1>6, <1>7, <1>8, Writes DEF Written, ProjectionWrite

-----------------------------------------------------------------------------
(* What a thread shows of a session and of its end.                        *)

(* A session becomes active, and an operation of an end open or complete,  *)
(* by one step each; the session an end names stays while it is on record. *)
LEMMA SessionMoves ==
  ASSUME FilesInvariant, ResidentInvariant, [FilesNext]_storeFilesVars
  PROVE  /\ \A p \in Provisions : bind'[p] = "active" /\ bind[p] # "active" => CommitProvision(p)
         /\ \A e \in Ends :
              /\ life'[e] = life[e] \/ PrepareEnd(e) \/ AcknowledgeEnd(e) \/ CompleteEnd(e) \/ life'[e] = "none"
              /\ Recorded(e) => target'[e] = target[e]
<1>t. /\ life \in [LifecycleOps -> {"none"} \cup ProvisionStages \cup EndStages]
      /\ bind \in [Provisions -> BindStates] /\ target \in [Ends -> Provisions \cup {NoOp}]
  BY Typing
<1> DEFINE G == /\ \A p \in Provisions : bind'[p] = "active" /\ bind[p] # "active" => CommitProvision(p)
                /\ \A e \in Ends :
                     /\ life'[e] = life[e] \/ PrepareEnd(e) \/ AcknowledgeEnd(e) \/ CompleteEnd(e) \/ life'[e] = "none"
                     /\ Recorded(e) => target'[e] = target[e]
<1>1. CASE UNCHANGED recordVars BY <1>1 DEF recordVars
<1>2. ASSUME NEW o \in LifecycleOps, QuarantineUnknown(o) \/ RecoverBefore(o) PROVE G
  BY <1>2 DEF QuarantineUnknown, RecoverBefore
<1>3. ASSUME BeginRetirement \/ WriteFence \/ RemoveBinding \/ RemoveOperation \/ RemoveMarker PROVE G
  <2>1. /\ \A p \in Provisions : bind'[p] = bind[p] \/ bind'[p] = "none"
        /\ \A o \in LifecycleOps : life'[o] = life[o] \/ life'[o] = "none"
    BY <1>3, RetirementTakes
  <2>2. \A e \in Ends : Recorded(e) => target'[e] = target[e]
    <3>1. CASE RemoveMarker
      <4>1. retiring = "marker" /\ target' = [e \in Ends |-> IF e = marker THEN NoOp ELSE target[e]]
        BY <3>1 DEF RemoveMarker
      <4>2. ~Recorded(marker) BY <4>1, GroupFenced
      <4> QED BY <4>1, <4>2
    <3>2. CASE ~RemoveMarker
      BY <1>3, <3>2 DEF BeginRetirement, WriteFence, RemoveBinding, RemoveOperation
    <3> QED BY <3>1, <3>2
  <2> QED BY <2>1, <2>2
<1>4. ASSUME NEW b \in Bootstraps, PrepareReserved(b, Retirable # {}) PROVE G
  BY <1>4, <1>t DEF PrepareReserved, LifecycleDue, Registered
<1>5. ASSUME NEW p \in Provisions,
             \/ RegisterProvision(p, Retirable # {}) \/ FailCreate(p) \/ ObservePromotion(p)
             \/ CommitProvision(p) \/ PublishSame(p) \/ WriteProof(p)
      PROVE  G
  <2>1. UNCHANGED target /\ \A e \in Ends : life'[e] = life[e]
    BY <1>5, <1>t DEF RegisterProvision, FailCreate, ObservePromotion, CommitProvision, PublishSame, WriteProof
  <2>2. CASE CommitProvision(p) BY <1>t, <2>1, <2>2 DEF CommitProvision
  <2>3. CASE ~CommitProvision(p)
    <3>1. \A q \in Provisions : bind'[q] = bind[q] \/ bind'[q] = "activating"
      BY <1>5, <1>t, <2>3 DEF RegisterProvision, FailCreate, ObservePromotion, PublishSame, WriteProof
    <3> QED BY <2>1, <3>1
  <2> QED BY <2>2, <2>3
<1>6. ASSUME NEW e \in Ends, PrepareEnd(e) PROVE G
  <2>1. PICK p \in Provisions : /\ life' = [life EXCEPT ![e] = "ending"] /\ bind' = [bind EXCEPT ![p] = "detached"]
                                /\ target' = [target EXCEPT ![e] = p]
    BY <1>6 DEF PrepareEnd, OnThread
  <2>2. ~Recorded(e) BY <1>6 DEF PrepareEnd
  <2> QED BY <1>6, <1>t, <2>1, <2>2
<1>7. ASSUME NEW e \in Ends, AcknowledgeEnd(e) PROVE G
  BY <1>7, <1>t DEF AcknowledgeEnd
<1>8. ASSUME NEW e \in Ends, CompleteEnd(e) PROVE G
  BY <1>8, <1>t DEF CompleteEnd
<1> HIDE DEF G
<1>9. G BY <1>1, <1>2, <1>3, <1>4, <1>5, <1>6, <1>7, <1>8, RecordWrites
  DEF RecordOnly, RecordWrite, ResidentWrite, G
<1> QED BY <1>9 DEF G

(* What a publication on a thread, or an end projected there, finds.       *)
LEMMA PublishedOpen ==
  ASSUME FilesInvariant, ResidentInvariant, NEW p \in Provisions, NEW c \in Cursors, Published(p, c)
  PROVE  Open(p) /\ \A o \in LifecycleOps : Open(o) /\ ThreadOf[o] = ThreadOf[p] => o = p
<1>1. Projecting(p) BY DEF Published, PreparePublication
<1>2. Open(p) BY <1>1 DEF Projecting, Leased, Open, OpenStages
<1> QED BY <1>2, RecordParts DEF ResidentInvariant, Exclusive

LEMMA ProjectedOver ==
  ASSUME FilesInvariant, ResidentInvariant, NEW e \in Ends, Projected(e)
  PROVE  /\ life[e] \in {"acknowledged", "completed"} /\ target[e] \in Provisions
         /\ bind[target[e]] # "active" /\ ThreadOf[target[e]] = ThreadOf[e] /\ ~AnyPending
         /\ View(ThreadOf[e]).st = "live" /\ View(ThreadOf[e]).of = target[e]
         /\ OnlyShows(ThreadOf[e], Ended(e, View(ThreadOf[e]).at))
<1>1. call.job = "end" /\ call.op = e BY DEF Projected, PrepareEndProjection, Step, Job
<1>2. life[e] \in {"acknowledged", "completed"} BY <1>1 DEF ResidentInvariant, ResidentCallFacts
<1>3. Recorded(e) BY <1>2 DEF Recorded
<1>4. target[e] \in Provisions /\ ThreadOf[target[e]] = ThreadOf[e]
  BY <1>3, Typing DEF FilesInvariant, DurableFacts, TargetFacts
<1>5. EndFact(e) BY RecordParts DEF ResidentInvariant
<1>6. target[e] # NoOp BY <1>4
<1>7. bind[target[e]] # "active" BY <1>2, <1>5, <1>6 DEF EndFact
<1>8. ~AnyPending BY PreparedAlone DEF Projected
<1> QED BY <1>2, <1>4, <1>7, <1>8 DEF Projected

LEMMA ActiveStep ==
  ASSUME FilesInvariant, ResidentInvariant, StartInvariant, [FilesNext]_storeFilesVars, NEW p \in Provisions
  PROVE  ActiveFact(p)'
<1> DEFINE t == ThreadOf[p]
<1> SUFFICES ASSUME bind'[p] = "active" PROVE View(t)'.st = "live" /\ View(t)'.of = p BY DEF ActiveFact
<1>t. t \in Threads OBVIOUS
<1>1. CASE bind[p] = "active"
  <2>1. View(t).st = "live" /\ View(t).of = p BY <1>1 DEF StartInvariant, ActiveFact
  <2>2. Open(p) BY <1>1 DEF Open
  <2>3. ASSUME View(t)' = View(t) PROVE View(t)'.st = "live" /\ View(t)'.of = p BY <2>1, <2>3
  <2>4. ASSUME NEW b \in Bootstraps, Placed(b) PROVE View(t)' = View(t)
    <3>1. ThreadOf[b] # t BY <2>1, <2>4 DEF Placed, NoView, Initial, Shows
    <3> QED BY <2>4, <3>1 DEF Placed, OnlyShows
  <2>5. ASSUME NEW q \in Provisions, NEW c \in Cursors, Published(q, c) PROVE View(t)'.st = "live" /\ View(t)'.of = p
    <3>1. CASE ThreadOf[q] # t BY <2>3, <2>5, <3>1 DEF Published, OnlyShows
    <3>2. CASE ThreadOf[q] = t
      <4>1. q = p BY <2>2, <2>5, <3>2, PublishedOpen
      <4>2. View(t)' = Live(p, c) BY <2>5, <4>1 DEF Published, OnlyShows
      <4> QED BY <4>2 DEF Live, Shows
    <3> QED BY <3>1, <3>2
  <2>6. ASSUME NEW e \in Ends, Projected(e) PROVE View(t)' = View(t)
    <3>1. ThreadOf[e] # t BY <1>1, <2>1, <2>6, ProjectedOver
    <3> QED BY <2>6, <3>1 DEF Projected, OnlyShows
  <2> QED BY <2>3, <2>4, <2>5, <2>6, Shown DEF ViewChange, Unshown
<1>2. CASE bind[p] # "active"
  <2>1. CommitProvision(p) BY <1>2, SessionMoves
  <2>2. snapshot[t].st = "live" /\ snapshot[t].of = p BY <2>1 DEF CommitProvision, Live, Shows
  <2>3. ~AnyPending BY <2>1 DEF CommitProvision, Ready, FilesInvariant, ModeFacts
  <2>4. ~Pending(t) /\ UNCHANGED <<wal, snapshot>> BY <2>1, <2>3 DEF CommitProvision, AnyPending
  <2> QED BY <2>2, <2>4 DEF View, Pending
<1> QED BY <1>1, <1>2

(* The lineage of a session that ended moves only when it is removed.      *)
LEMMA EndedLineage ==
  ASSUME FilesInvariant, ResidentInvariant, [FilesNext]_storeFilesVars, NEW e \in Ends,
         life[e] \in {"acknowledged", "completed"}
  PROVE  lineage'[target[e]] = lineage[target[e]] \/ lineage'[target[e]] = NoLineage
<1> DEFINE p == target[e]
<1>t. lineage \in [Provisions -> Lineages] BY Typing
<1>1. p \in Provisions
  BY Typing DEF FilesInvariant, DurableFacts, TargetFacts, Recorded
<1>2. EndFact(e) /\ ProvisionFact(p) BY <1>1, RecordParts DEF ResidentInvariant
<1>3. bind[p] \notin {"activating", "active"}
  <2>1. p # NoOp BY <1>1
  <2> QED BY <1>2, <2>1 DEF EndFact
<1>4. ASSUME NEW q \in Provisions, WriteLineage(q) PROVE lineage'[p] = lineage[p]
  <2>1. call.job = "publish" /\ call.op = q /\ call.at = "lineage" BY <1>4 DEF WriteLineage, Step, Job
  <2>2. Pending(ThreadOf[q]) /\ wal[ThreadOf[q]].op = q BY <2>1 DEF FilesInvariant, CallFacts
  <2>3. PublishingFact(ThreadOf[q]) BY DEF ResidentInvariant
  <2>4. ProvisionFact(q) BY RecordParts DEF ResidentInvariant
  <2>5. bind[q] \in {"activating", "active"} BY <2>2, <2>3, <2>4 DEF PublishingFact, ProvisionFact
  <2>6. q # p BY <1>3, <2>5
  <2> QED BY <1>t, <1>1, <1>4, <2>6 DEF WriteLineage
<1>5. CASE RemoveLineage BY <1>t, <1>1, <1>5, GroupFenced DEF RemoveLineage
<1>6. CASE UNCHANGED lineage BY <1>6
<1>7. ASSUME NEW q \in Provisions, NEW c \in Cursors, PreparePublication(q, c) PROVE UNCHANGED lineage
  BY <1>7 DEF PreparePublication
<1>8. ASSUME NEW d \in Ends, PrepareEndProjection(d) PROVE UNCHANGED lineage BY <1>8 DEF PrepareEndProjection
<1>9. ASSUME NEW o \in LifecycleOps, RemoveWal(o) PROVE UNCHANGED lineage BY <1>9 DEF RemoveWal
<1> QED BY <1>4, <1>5, <1>6, <1>7, <1>8, <1>9, Writes DEF Written, ProjectionWrite

(* What a thread shows of an end changes only when that end is projected.  *)
LEMMA EndedView ==
  ASSUME FilesInvariant, ResidentInvariant, StartInvariant, [FilesNext]_storeFilesVars, NEW e \in Ends,
         life[e] \in {"ending", "acknowledged", "completed"}
  PROVE  \/ View(ThreadOf[e])' = View(ThreadOf[e])
         \/ Projected(e) /\ View(ThreadOf[e])' = Ended(e, View(ThreadOf[e]).at)
<1> DEFINE t == ThreadOf[e]
<1>0. EndedFact(e) /\ QuietFact(e) BY DEF StartInvariant
<1>1. target[e] \in Provisions BY Typing DEF FilesInvariant, DurableFacts, TargetFacts, Recorded
<1>2. View(t).of = e \/ (View(t).st = "live" /\ View(t).of = target[e])
  BY <1>0 DEF EndedFact
<1>3. View(t).of = e => View(t).st = "ended" BY ShownEnd
<1>4. ASSUME NEW b \in Bootstraps, Placed(b) PROVE View(t)' = View(t)
  <2>1. View(t) # NoView /\ View(t) # Initial BY <1>1, <1>2 DEF NoView, Initial, Shows
  <2> QED BY <1>4, <2>1 DEF Placed, OnlyShows
<1>5. ASSUME NEW q \in Provisions, NEW c \in Cursors, Published(q, c) PROVE View(t)' = View(t)
  <2>1. ThreadOf[q] # t
    <3>1. Open(q) /\ \A o \in LifecycleOps : Open(o) /\ ThreadOf[o] = ThreadOf[q] => o = q BY <1>5, PublishedOpen
    <3>2. life[e] = "completed" \/ Open(e) BY DEF Open, OpenStages
    <3>3. q # e OBVIOUS
    <3> QED BY <1>0, <3>1, <3>2, <3>3 DEF QuietFact
  <2> QED BY <1>5, <2>1 DEF Published, OnlyShows
<1>6. ASSUME NEW d \in Ends, Projected(d)
      PROVE  View(t)' = View(t) \/ (Projected(e) /\ View(t)' = Ended(e, View(t).at))
  <2>1. CASE ThreadOf[d] # t BY <1>6, <2>1 DEF Projected, OnlyShows
  <2>2. CASE ThreadOf[d] = t
    <3>1. View(t).st = "live" /\ View(t).of = target[d] /\ target[d] \in Provisions BY <1>6, <2>2, ProjectedOver
    <3>2. target[d] = target[e] BY <1>2, <1>3, <3>1
    <3>3. \A f, g \in Ends : target[f] = target[g] /\ target[f] # NoOp => f = g BY RecordParts DEF ResidentInvariant
    <3>4. d = e BY <3>1, <3>2, <3>3
    <3> QED BY <1>6, <3>4 DEF Projected, OnlyShows
  <2> QED BY <2>1, <2>2
<1> QED BY <1>4, <1>5, <1>6, Shown DEF ViewChange, Unshown

(* A thread goes on to show an end it showed, or the session it ends.      *)
LEMMA EndedStep ==
  ASSUME FilesInvariant, ResidentInvariant, StartInvariant, [FilesNext]_storeFilesVars, NEW e \in Ends
  PROVE  EndedFact(e)'
<1> DEFINE t == ThreadOf[e]
<1>t. /\ life \in [LifecycleOps -> {"none"} \cup ProvisionStages \cup EndStages]
      /\ target \in [Ends -> Provisions \cup {NoOp}]
  BY Typing
<1>0. EndedFact(e) BY DEF StartInvariant
<1>p. EndedFact(e)' <=>
        /\ life'[e] \in {"ending", "acknowledged"} => View(t)'.of = e \/ (View(t)'.st = "live" /\ View(t)'.of = target'[e])
        /\ life'[e] = "completed" => View(t)'.of = e
        /\ life'[e] \in {"acknowledged", "completed"} /\ View(t)'.of = e => lineage'[target'[e]].at \in {<<>>, View(t)'.at}
  BY DEF EndedFact
<1>u. ASSUME UNCHANGED <<files, projectionVars>> PROVE View(t)' = View(t) /\ UNCHANGED lineage
  BY <1>u DEF View, Pending
<1>1. CASE life'[e] \notin {"ending", "acknowledged", "completed"} BY <1>1, <1>p
<1>2. CASE life'[e] = life[e] /\ life[e] \in {"ending", "acknowledged", "completed"}
  <2>1. target'[e] = target[e] BY <1>2, SessionMoves DEF Recorded
  <2>2. CASE View(t)' = View(t)
    <3>1. life[e] \in {"acknowledged", "completed"} =>
            lineage'[target[e]] = lineage[target[e]] \/ lineage'[target[e]] = NoLineage
      BY EndedLineage
    <3>2. NoLineage.at = <<>> BY DEF NoLineage
    <3>3. life[e] \in {"acknowledged", "completed"} /\ View(t).of = e => lineage'[target[e]].at \in {<<>>, View(t).at}
      BY <1>0, <3>1, <3>2 DEF EndedFact
    <3> QED BY <1>0, <1>2, <1>p, <2>1, <2>2, <3>3 DEF EndedFact
  <2>3. CASE Projected(e) /\ View(t)' = Ended(e, View(t).at)
    <3>1. View(t)'.of = e /\ View(t)'.at = View(t).at BY <2>3 DEF Ended, Shows
    <3>2. ~AnyPending /\ View(t).st = "live" /\ View(t).of = target[e] BY <2>3, ProjectedOver
    <3>3. ~Pending(t) /\ View(t) = snapshot[t] BY <3>2 DEF AnyPending, View
    <3>4. lineage[target[e]].at = View(t).at
      BY <3>2, <3>3 DEF FilesInvariant, DurableFacts, AgreementFact
    <3>5. UNCHANGED lineage BY <2>3 DEF Projected, PrepareEndProjection
    <3> QED BY <1>p, <2>1, <3>1, <3>4, <3>5
  <2> QED BY <1>2, <2>2, <2>3, EndedView
<1>3. CASE PrepareEnd(e)
  <2>1. PICK p \in Provisions : /\ ThreadOf[p] = t /\ bind[p] = "active" /\ life' = [life EXCEPT ![e] = "ending"]
                                /\ target' = [target EXCEPT ![e] = p]
    BY <1>3 DEF PrepareEnd, OnThread
  <2>2. View(t).st = "live" /\ View(t).of = p BY <2>1 DEF StartInvariant, ActiveFact
  <2>3. View(t)' = View(t) BY <1>3, <1>u DEF PrepareEnd
  <2>4. life'[e] = "ending" /\ target'[e] = p BY <1>t, <2>1
  <2> QED BY <1>p, <2>2, <2>3, <2>4
<1>4. CASE AcknowledgeEnd(e)
  <2>1. life[e] = "ending" /\ Ready BY <1>4 DEF AcknowledgeEnd
  <2>2. life'[e] = "acknowledged" BY <1>4, <1>t DEF AcknowledgeEnd
  <2>3. View(t)' = View(t) /\ UNCHANGED target BY <1>4, <1>u DEF AcknowledgeEnd
  <2>4. View(t).of # e
    <3> SUFFICES ASSUME View(t).of = e PROVE FALSE OBVIOUS
    <3>1. Ending(e) BY ShownEnd
    <3>2. e \in fenced /\ Recorded(e) BY <2>1, <3>1 DEF Ending, Recorded
    <3>3. \A o \in fenced : ~Recorded(o) BY <2>1, NothingRetires DEF Ready
    <3> QED BY <3>2, <3>3
  <2> QED BY <1>0, <1>p, <2>1, <2>2, <2>3, <2>4 DEF EndedFact
<1>5. CASE CompleteEnd(e)
  <2>1. call.job = "end" /\ call.op = e /\ call.at = "complete" BY <1>5 DEF CompleteEnd, Step, Job
  <2>2. life[e] \in {"acknowledged", "completed"} /\ snapshot[t].of = e BY <2>1 DEF ResidentInvariant, ResidentCallFacts
  <2>3. ~AnyPending BY <2>1 DEF FilesInvariant, CallFacts
  <2>4. View(t).of = e BY <2>2, <2>3 DEF View, AnyPending
  <2>5. View(t)' = View(t) /\ UNCHANGED <<target, lineage>> BY <1>5, <1>u DEF CompleteEnd
  <2>6. life'[e] = "completed" BY <1>5, <1>t DEF CompleteEnd
  <2> QED BY <1>0, <1>p, <2>2, <2>4, <2>5, <2>6 DEF EndedFact
<1> QED BY <1>1, <1>2, <1>3, <1>4, <1>5, SessionMoves

(* An end opens a session's operation by its preparation only.             *)
LEMMA QuietStep ==
  ASSUME FilesInvariant, ResidentInvariant, StartInvariant, [FilesNext]_storeFilesVars, NEW e \in Ends
  PROVE  QuietFact(e)'
<1>t. life \in [LifecycleOps -> {"none"} \cup ProvisionStages \cup EndStages] BY Typing
<1> SUFFICES ASSUME life'[e] = "completed", NEW o \in LifecycleOps, ThreadOf[o] = ThreadOf[e], Open(o)' PROVE FALSE
  BY DEF QuietFact, Open
<1>1. ASSUME Open(o) PROVE CompleteEnd(e) /\ o = e
  <2>1. life[e] # "completed" BY <1>1 DEF StartInvariant, QuietFact
  <2>2. PrepareEnd(e) \/ AcknowledgeEnd(e) \/ CompleteEnd(e) BY <2>1, SessionMoves
  <2>3. CompleteEnd(e) BY <1>t, <2>2 DEF PrepareEnd, AcknowledgeEnd
  <2>4. call.job = "end" /\ call.op = e BY <2>3 DEF CompleteEnd, Step, Job
  <2>5. life[e] = "acknowledged" BY <2>1, <2>4 DEF ResidentInvariant, ResidentCallFacts
  <2>6. Open(e) BY <2>5 DEF Open, OpenStages
  <2>7. Exclusive(e) BY RecordParts DEF ResidentInvariant
  <2> QED BY <1>1, <2>3, <2>6, <2>7 DEF Exclusive
<1>2. ~Open(o)
  <2> SUFFICES ASSUME Open(o) PROVE FALSE OBVIOUS
  <2>1. o = e BY <1>1
  <2>2. e \notin Provisions OBVIOUS
  <2> QED BY <2>1, <2>2 DEF Open, OpenStages
<1>3. ASSUME NEW p \in Provisions, ThreadOf[p] = ThreadOf[e], mode \in {"bootstrap", "up"}, retiring = "no",
             Retirable = {}, life[e] = "completed"
      PROVE  /\ ~Step("provision", p, "register")
             /\ \A b \in Bootstraps : ThreadOf[b] = ThreadOf[e] =>
                  ~(Step("bootstrap", b, "lifecycle") /\ LifecycleDue(b) /\ ws /\ ReservationFree(b) /\ ~ThreadBusy(ThreadOf[b]))
  <2>1. \A d \in Ends : ~Retiring(d) BY <1>3, NothingRetires
  <2>2. EndFact(e) /\ HeldFact(e) BY RecordParts DEF ResidentInvariant
  <2>3. TerminalHead(e) BY <1>3, <2>1, <2>2 DEF TerminalHead, EndFact, HeldFact
  <2> QED BY <1>3, <2>3 DEF Retirable
<1>4. CASE o \in Provisions
  <2>1. ASSUME life' = life \/ \E q \in Provisions : life' = [life EXCEPT ![q] = "creating"] PROVE life[e] = "completed"
    <3>1. e \notin Provisions OBVIOUS
    <3> QED BY <1>t, <2>1, <3>1
  <2>3. CASE RegisterProvision(o, Retirable # {})
    <3>1. Step("provision", o, "register") /\ Retirable = {} BY <2>3 DEF RegisterProvision
    <3>2. call.job = "provision" /\ retiring = "no" BY <3>1 DEF Step, Job
    <3>3. mode = "up" BY <3>2 DEF FilesInvariant, CallFacts
    <3>4. life[e] = "completed" BY <1>4, <2>1, <2>3 DEF RegisterProvision
    <3> QED BY <1>3, <1>4, <3>1, <3>2, <3>3, <3>4
  <2>4. ASSUME NEW b \in Bootstraps, PrepareReserved(b, Retirable # {}), Reserves[b] = o PROVE FALSE
    <3>1. Step("bootstrap", b, "lifecycle") /\ LifecycleDue(b) BY <2>4 DEF PrepareReserved
    <3>2. call.job = "bootstrap" /\ retiring = "no" BY <3>1 DEF Step, Job
    <3>3. mode \in {"bootstrap", "up"} BY <3>2 DEF FilesInvariant, CallFacts
    <3>4. ThreadOf[b] = ThreadOf[e] BY <1>4, <2>4
    <3>5. ~UNCHANGED <<life, bind>> BY <1>2 DEF Open
    <3>6. Retirable = {} /\ ws /\ ReservationFree(b) /\ ~ThreadBusy(ThreadOf[b]) BY <2>4, <3>5 DEF PrepareReserved
    <3>7. life[e] = "completed"
      <4>1. UNCHANGED life \/ life' = [life EXCEPT ![Reserves[b]] = "creating"] BY <2>4 DEF PrepareReserved
      <4> QED BY <1>4, <2>1, <2>4, <4>1
    <3> QED BY <1>3, <1>4, <3>1, <3>2, <3>3, <3>4, <3>6, <3>7
  <2> QED BY <1>2, <1>4, <2>3, <2>4, OpenMoves
<1>5. CASE o \in Ends
  <2>1. o \notin Provisions BY <1>5
  <2>2. life'[o] \in OpenStages /\ life[o] \notin OpenStages BY <1>2, <2>1 DEF Open
  <2>3. PrepareEnd(o) \/ AcknowledgeEnd(o) \/ CompleteEnd(o) BY <1>5, <2>2, SessionMoves DEF OpenStages
  <2>4. PrepareEnd(o)
    <3>1. ~AcknowledgeEnd(o) BY <2>2 DEF AcknowledgeEnd, OpenStages
    <3>2. CompleteEnd(o) => life'[o] = "completed" BY <1>t, <1>5 DEF CompleteEnd
    <3> QED BY <2>2, <2>3, <3>1, <3>2 DEF OpenStages
  <2>5. PICK p \in Provisions : ThreadOf[p] = ThreadOf[e] /\ bind[p] = "active"
                                /\ life' = [life EXCEPT ![o] = "ending"]
    BY <2>4 DEF PrepareEnd, OnThread
  <2>6. o # e BY <1>t, <2>5
  <2>7. life[e] = "completed" BY <1>t, <2>5, <2>6
  <2>8. Open(p) BY <2>5 DEF Open
  <2> QED BY <2>5, <2>7, <2>8 DEF StartInvariant, QuietFact
<1> QED BY <1>4, <1>5

(* A method, or a pass of initialize(), goes on only where no retirement   *)
(* is under way.                                                           *)
LEMMA MarkedSteps ==
  ASSUME FilesInvariant, [FilesNext]_storeFilesVars, marker # NoOp
  PROVE  /\ UNCHANGED <<files, wal>>
         /\ UNCHANGED lineage \/ RemoveLineage
         /\ \A e \in Ends : ~PrepareEnd(e)
         /\ ~BeginRetirement
<1>1. retiring = "no" => mode \notin {"retirement", "bootstrap", "before", "replay", "after", "up"}
  BY DEF FilesInvariant, ModeFacts
<1>2. \A job, o, at : job # "none" => ~Step(job, o, at)
  BY <1>1 DEF FilesInvariant, CallFacts, FilesTypeOK, Calls, Idle, Job, Step
<1>3. ~Ready BY <1>1 DEF Ready
<1>4. ~BeginRetirement BY <1>1, RetirementBegins
<1>5. \A e \in Ends : ~PrepareEnd(e) BY <1>3 DEF PrepareEnd
<1>6. ASSUME NEW b \in Bootstraps
      PROVE  /\ ~RecordPrepared(b) /\ ~Reactivate(b) /\ ~Claim(b) /\ ~Place(b) /\ ~Advance(b) /\ ~CommitBootstrap(b)
             /\ ~PlanRollback(b) /\ ~RemoveArtifact(b) /\ ~AdvanceRollback(b) /\ ~RetireRollback(b)
  BY <1>2, <1>3 DEF RecordPrepared, Reactivate, Claim, Place, Advance, CommitBootstrap, PlanRollback, RemoveArtifact,
     AdvanceRollback, RetireRollback, Placing, Undoing
<1>7. ASSUME NEW o \in LifecycleOps PROVE ~WriteSnapshot(o) /\ ~WriteCatalog(o) /\ ~RemoveWal(o)
  BY <1>2 DEF WriteSnapshot, WriteCatalog, RemoveWal, Publishing
<1>8. ASSUME NEW p \in Provisions PROVE ~WriteLineage(p) /\ \A c \in Cursors : ~PreparePublication(p, c)
  BY <1>2, <1>3 DEF WriteLineage, PreparePublication
<1>9. ASSUME NEW e \in Ends PROVE ~PrepareEndProjection(e) BY <1>2 DEF PrepareEndProjection
<1>10. ReleaseReservation \/ CompactBootstrap => UNCHANGED files BY DEF ReleaseReservation, CompactBootstrap
<1>11. RemoveLineage => UNCHANGED <<files, wal>> BY DEF RemoveLineage
<1>12. FileWrite => UNCHANGED files BY <1>6, <1>7, <1>10 DEF FileWrite
<1>13. ProjectionWrite => RemoveLineage BY <1>7, <1>8, <1>9 DEF ProjectionWrite
<1> QED BY <1>4, <1>5, <1>11, <1>12, <1>13, Writes DEF Written

(* The marker keeps its public proof.                                      *)
LEMMA ProofStep ==
  ASSUME FilesInvariant, ResidentInvariant, StartInvariant, [FilesNext]_storeFilesVars
  PROVE  ProofFact'
<1>t. lineage \in [Provisions -> Lineages] /\ target \in [Ends -> Provisions \cup {NoOp}] BY Typing
<1> SUFFICES ASSUME marker' \in Ends PROVE PublicProof(marker)' BY DEF ProofFact
<1>0. NoOp \notin Ends OBVIOUS
<1>1. CASE BeginRetirement /\ UNCHANGED marker
  <2>1. marker \in Ends BY <1>1
  <2>2. marker # NoOp BY <1>0, <2>1
  <2> QED BY <1>1, <2>2, MarkedSteps
<1>2. CASE BeginRetirement /\ ~UNCHANGED marker
  <2>1. PICK h \in Retirable : Provable(h) /\ marker' = h BY <1>2 DEF BeginRetirement
  <2>2. h \in Ends /\ PublicProof(h) BY <2>1 DEF Provable
  <2>3. UNCHANGED <<files, target, projectionVars>> BY <1>2 DEF BeginRetirement
  <2> QED BY <2>1, <2>2, <2>3 DEF PublicProof, Pending
<1>3. CASE marker' = marker
  <2>1. marker \in Ends /\ marker # NoOp BY <1>0, <1>3
  <2>2. PublicProof(marker) BY <2>1 DEF StartInvariant, ProofFact
  <2>3. UNCHANGED <<files, wal>> BY <2>1, MarkedSteps
  <2>4. UNCHANGED lineage \/ RemoveLineage BY <2>1, MarkedSteps
  <2>5. target[marker] \in Provisions BY <2>1, Typing
  <2>6. lineage'[target[marker]] = lineage[target[marker]] \/ lineage'[target[marker]] = NoLineage
    BY <1>t, <2>4, <2>5 DEF RemoveLineage
  <2>7. target'[marker] = target[marker]
    <3>1. CASE UNCHANGED target BY <3>1
    <3>2. CASE RemoveMarker
      <4>1. marker' = NoOp BY <3>2 DEF RemoveMarker
      <4> QED BY <1>3, <2>1, <4>1
    <3>3. CASE ~RemoveMarker /\ ~UNCHANGED target
      <4>1. \E e \in Ends : PrepareEnd(e)
        BY <3>3, RecordWrites
        DEF RecordOnly, RecordWrite, ResidentWrite, recordVars, PrepareReserved, RegisterProvision, FailCreate,
            ObservePromotion, CommitProvision, PublishSame, WriteProof, AcknowledgeEnd, CompleteEnd, BeginRetirement,
            RemoveBinding, RemoveOperation, QuarantineUnknown, RecoverBefore, WriteFence
      <4> QED BY <2>1, <4>1, MarkedSteps
    <3> QED BY <3>1, <3>2, <3>3
  <2>8. NoLineage.at = <<>> BY DEF NoLineage
  <2> QED BY <1>3, <2>2, <2>3, <2>6, <2>7, <2>8 DEF PublicProof, Pending
<1>4. CASE marker' # marker /\ ~BeginRetirement
  <2>1. marker' = NoOp
    BY <1>4, RecordWrites
    DEF RecordOnly, RecordWrite, ResidentWrite, recordVars, PrepareReserved, RegisterProvision, FailCreate,
        ObservePromotion, CommitProvision, PublishSame, WriteProof, PrepareEnd, AcknowledgeEnd, CompleteEnd,
        RemoveBinding, RemoveOperation, RemoveMarker, QuarantineUnknown, RecoverBefore, WriteFence
  <2> QED BY <1>0, <2>1
<1> QED BY <1>1, <1>2, <1>3, <1>4

-----------------------------------------------------------------------------
(* Bootstraps under way.                                                   *)

OpenAre == \A o \in LifecycleOps : Open(o) <=> Nonterminal(o) \/ (o \in Provisions /\ Commanding(o))
LEMMA OpenAreAll == RecordFacts /\ FilesInvariant => OpenAre
  BY OpenIs DEF OpenAre

(* A workspace is free for a bootstrap when nothing but its own            *)
(* reservation is open.                                                    *)
LEMMA FreeIs ==
  ASSUME RecordFacts, FilesInvariant, NEW b \in Bootstraps, Registered(b)
  PROVE  ReservationFree(b) <=>
           /\ \A o \in LifecycleOps \ {Reserves[b]} : ~Open(o)
           /\ \A c \in Reservations \ {b} : Kept(c)
<1>1. \A o \in LifecycleOps : Open(o) <=> Nonterminal(o) \/ (o \in Provisions /\ Commanding(o)) BY OpenIs
<1> QED BY <1>1 DEF ReservationFree, Kept

(* Before a bootstrap has its workspace to itself nothing else is served.  *)
Claims(b) ==
    \/ BootOpen(b)
    \/ Committed(b) /\ LifecycleDue(b)
    \/ call = Job("bootstrap", b, "write")

(* ... and initialize() or its own method holds the Store.                 *)
LEMMA ClaimedAlone ==
  ASSUME FilesInvariant, ResidentInvariant, NEW b \in Bootstraps, Registered(b), Claims(b)
  PROVE  ~Ready /\ (mode = "up" => call.job = "bootstrap")
<1>1. CASE BootOpen(b)
  <2>1. AnyBootOpen BY <1>1 DEF AnyBootOpen
  <2> QED BY <2>1 DEF Ready, Idle, FilesInvariant, ModeFacts
<1>2. CASE Committed(b) /\ LifecycleDue(b)
  <2>1. b \in Reservations /\ ~Kept(b) BY <1>2 DEF Reservations, Kept, LifecycleDue
  <2>2. mode = "up" => call.job = "bootstrap" BY <2>1 DEF ResidentInvariant, ResidentModeFacts
  <2> QED BY <2>2 DEF Ready, Idle
<1>3. CASE call = Job("bootstrap", b, "write")
  BY <1>3 DEF Job, Ready, Idle
<1> QED BY <1>1, <1>2, <1>3 DEF Claims

(* No reservation is dropped while another is under way.                   *)
LEMMA ClaimedKept ==
  ASSUME FilesInvariant, ResidentInvariant, StartInvariant, [FilesNext]_storeFilesVars,
         NEW b \in Bootstraps, Claims(b), NEW c \in Bootstraps, c # b, c \in Reservations'
  PROVE  c \in Reservations /\ (Kept(c) => Kept(c)')
<1>1. ASSUME CommitBootstrap(c) PROVE FALSE
  <2>1. call.job = "bootstrap" /\ call.op = c /\ call.at = "place" BY <1>1 DEF CommitBootstrap, Step, Job
  <2>2. boot[c].phase = "open" BY <2>1 DEF FilesInvariant, CallFacts
  <2>3. AloneFact(c) /\ BootOpen(c) BY <2>2 DEF StartInvariant, BootOpen
  <2>4. ~BootOpen(b) BY <2>3 DEF AloneFact
  <2>5. ~(Committed(b) /\ LifecycleDue(b)) BY <2>3 DEF AloneFact, Reservations, Kept, LifecycleDue
  <2>6. call # Job("bootstrap", b, "write") BY <2>1 DEF Job
  <2> QED BY <2>4, <2>5, <2>6 DEF Claims
<1> QED BY <1>1, KeptMoves

(* What is free stays free while the bootstrap holds its claim.            *)
LEMMA FreeStep ==
  ASSUME FilesInvariant, ResidentInvariant, StartInvariant, [FilesNext]_storeFilesVars,
         NEW b \in Bootstraps, Registered(b), Claims(b), ReservationFree(b)
  PROVE  ReservationFree(b)'
<1>t. life \in [LifecycleOps -> {"none"} \cup ProvisionStages \cup EndStages] BY Typing
<1>0. RecordFacts /\ RecordFacts' /\ FilesInvariant' BY RecordStep, InvariantStep DEF ResidentInvariant
<1>1. /\ \A o \in LifecycleOps \ {Reserves[b]} : ~Open(o)
      /\ \A c \in Reservations \ {b} : Kept(c)
  BY <1>0, FreeIs
<1>2. ASSUME NEW p \in Provisions, p # Reserves[b], Open(p)' PROVE FALSE
  <2>1. ~Open(p) BY <1>1, <1>2
  <2>2. CASE RegisterProvision(p, Retirable # {})
    <3>1. call.job = "provision" BY <2>2 DEF RegisterProvision, Step, Job
    <3>2. mode = "up" BY <3>1 DEF FilesInvariant, CallFacts
    <3> QED BY <3>1, <3>2, ClaimedAlone
  <2>3. ASSUME NEW c \in Bootstraps, PrepareReserved(c, Retirable # {}), Reserves[c] = p PROVE FALSE
    <3>1. Step("bootstrap", c, "lifecycle") /\ LifecycleDue(c) BY <2>3 DEF PrepareReserved
    <3>2. call.job = "bootstrap" /\ call.op = c /\ call.at = "lifecycle" BY <3>1 DEF Step, Job
    <3>3. Committed(c) BY <3>1, <3>2 DEF FilesInvariant, CallFacts, LifecycleDue
    <3>4. c \in Reservations \ {b} /\ ~Kept(c) BY <1>2, <2>3, <3>1, <3>3 DEF Reservations, LifecycleDue, Kept
    <3> QED BY <1>1, <3>4
  <2> QED BY <1>2, <2>1, <2>2, <2>3, OpenMoves
<1>3. ASSUME NEW e \in Ends, Open(e)' PROVE FALSE
  <2>1. e \notin Provisions /\ e # Reserves[b] BY DEF Registered
  <2>2. life'[e] \in OpenStages /\ life[e] \notin OpenStages BY <1>1, <1>3, <2>1 DEF Open
  <2>3. PrepareEnd(e) \/ AcknowledgeEnd(e) \/ CompleteEnd(e) BY <2>2, SessionMoves DEF OpenStages
  <2>4. CompleteEnd(e) => life'[e] = "completed" BY <1>t DEF CompleteEnd
  <2>5. Ready BY <2>2, <2>3, <2>4 DEF PrepareEnd, AcknowledgeEnd, OpenStages
  <2> QED BY <2>5, ClaimedAlone
<1>4. ASSUME NEW c \in Bootstraps, c # b, c \in Reservations' PROVE Kept(c)'
  BY <1>1, <1>4, ClaimedKept
<1>5. (ReservationFree(b))' <=>
        /\ \A o \in LifecycleOps \ {Reserves[b]} : ~Open(o)'
        /\ \A c \in (Reservations') \ {b} : Kept(c)'
  <2>0. OpenAre' BY <1>0, OpenAreAll, PTL
  <2>1. \A o \in LifecycleOps : Open(o)' <=> Nonterminal(o)' \/ (o \in Provisions /\ Commanding(o)')
    BY <2>0 DEF OpenAre
  <2> QED BY <2>1 DEF ReservationFree, Kept
<1>6. \A o \in LifecycleOps \ {Reserves[b]} : ~Open(o)' BY <1>2, <1>3
<1>7. \A c \in (Reservations') \ {b} : Kept(c)'
  <2>1. Reservations' \subseteq Bootstraps BY DEF Reservations
  <2> QED BY <1>4, <2>1
<1> QED BY <1>5, <1>6, <1>7

(* A bootstrap begins alone, over what its thread has, where it may.       *)
LEMMA Opening ==
  ASSUME FilesInvariant, ResidentInvariant, StartInvariant, [FilesNext]_storeFilesVars, NEW b \in Bootstraps,
         BootOpen(b)', ~BootOpen(b)
  PROVE  /\ RecordPrepared(b) \/ Reactivate(b)
         /\ mode = "up" /\ ~AnyBootOpen /\ \A c \in Reservations : Kept(c)
         /\ Exact(ThreadOf[b]) /\ (Registered(b) => ReservationFree(b))
         /\ boot'[b] = Opened(ThreadOf[b]) /\ \A c \in Bootstraps \ {b} : boot'[c] = boot[c]
         /\ UNCHANGED <<files, resident, fenced>>
<1>t. boot \in [Bootstraps -> BootRecords] BY DEF FilesInvariant, FilesTypeOK
<1>1. (RecordPrepared(b) /\ boot[b].phase = "none") \/ Reactivate(b) BY BootMoves DEF BootOpen
<1>2. /\ boot'[b] = Opened(ThreadOf[b]) /\ \A c \in Bootstraps \ {b} : boot'[c] = boot[c]
      /\ UNCHANGED <<files, resident, fenced>>
  BY <1>1, <1>t DEF RecordPrepared, Reactivate, retirement
<1>3. CASE RecordPrepared(b) /\ boot[b].phase = "none"
  <2>1. call.job = "bootstrap" /\ call.op = b /\ call.at = "write" BY <1>3 DEF RecordPrepared, Step, Job
  <2>2. mode = "up" /\ \A c \in Bootstraps : BootOpen(c) => c = b BY <2>1 DEF FilesInvariant, CallFacts
  <2>3. ~AnyBootOpen BY <2>2 DEF AnyBootOpen
  <2>4. \A c \in Reservations : Kept(c) BY <2>1, <2>2 DEF ResidentInvariant, ResidentModeFacts
  <2>5. Exact(ThreadOf[b]) /\ (Registered(b) => ReservationFree(b)) BY <2>1 DEF StartInvariant, WriteFact
  <2> QED BY <1>1, <1>2, <2>2, <2>3, <2>4, <2>5
<1>4. CASE Reactivate(b)
  <2>1. Ready /\ Exact(ThreadOf[b]) /\ (Registered(b) => ReservationFree(b)) BY <1>4 DEF Reactivate
  <2>2. mode = "up" /\ call.job # "bootstrap" BY <2>1 DEF Ready, Idle
  <2>3. ~AnyBootOpen BY <2>2 DEF FilesInvariant, ModeFacts
  <2>4. \A c \in Reservations : Kept(c) BY <2>2 DEF ResidentInvariant, ResidentModeFacts
  <2> QED BY <1>1, <1>2, <2>1, <2>2, <2>3, <2>4
<1> QED BY <1>1, <1>3, <1>4

(* It stays alone: the next begins when it is settled.                     *)
LEMMA AloneStep ==
  ASSUME FilesInvariant, ResidentInvariant, StartInvariant, [FilesNext]_storeFilesVars, NEW b \in Bootstraps
  PROVE  AloneFact(b)'
<1> SUFFICES ASSUME BootOpen(b)'
             PROVE  /\ \A c \in Bootstraps : BootOpen(c)' => c = b
                    /\ \A c \in Bootstraps : c \in Reservations' => Kept(c)'
  BY DEF AloneFact, Reservations
<1>0. b \notin Reservations' BY DEF Reservations, Committed, BootOpen
<1>1. CASE ~BootOpen(b)
  <2>1. /\ ~AnyBootOpen /\ \A c \in Reservations : Kept(c)
        /\ \A c \in Bootstraps \ {b} : boot'[c] = boot[c]
        /\ UNCHANGED life
    BY <1>1, Opening
  <2>2. \A c \in Bootstraps \ {b} : ~BootOpen(c)' BY <2>1 DEF AnyBootOpen, BootOpen
  <2>3. ASSUME NEW c \in Bootstraps \ {b}, c \in Reservations' PROVE Kept(c)'
    <3>1. boot'[c] = boot[c] BY <2>1
    <3>2. c \in Reservations BY <2>3, <3>1 DEF Reservations, Committed, Registered
    <3>3. Kept(c) BY <2>1, <3>2
    <3> QED BY <2>1, <3>1, <3>3 DEF Kept, Recorded
  <2> QED BY <1>0, <2>2, <2>3
<1>2. CASE BootOpen(b)
  <2>0. AloneFact(b) /\ Claims(b) BY <1>2 DEF StartInvariant, Claims
  <2>1. ASSUME NEW c \in Bootstraps, BootOpen(c)' PROVE c = b
    <3>1. ~BootOpen(c) => ~AnyBootOpen BY <2>1, Opening
    <3> QED BY <1>2, <2>0, <3>1 DEF AloneFact, AnyBootOpen
  <2>2. ASSUME NEW c \in Bootstraps, c \in Reservations' PROVE Kept(c)'
    <3>1. c # b BY <1>0, <2>2
    <3>2. c \in Reservations /\ (Kept(c) => Kept(c)') BY <2>0, <2>2, <3>1, ClaimedKept
    <3> QED BY <1>2, <2>0, <3>2 DEF AloneFact
  <2> QED BY <2>1, <2>2
<1> QED BY <1>1, <1>2

(* While it is under way no other step writes its record or the catalog.   *)
LEMMA UnderWay ==
  ASSUME FilesInvariant, ResidentInvariant, StartInvariant, [FilesNext]_storeFilesVars, NEW b \in Bootstraps,
         BootOpen(b), BootOpen(b)'
  PROVE  \/ UNCHANGED files /\ boot'[b] = boot[b]
         \/ Claim(b) \/ Place(b) \/ Advance(b) \/ PlanRollback(b) \/ RemoveArtifact(b) \/ AdvanceRollback(b)
<1>t. boot \in [Bootstraps -> BootRecords] /\ FilesTypeOK BY DEF FilesInvariant, FilesTypeOK
<1>0. AloneFact(b) BY DEF StartInvariant
<1>1. ASSUME NEW c \in Bootstraps, c # b,
             \/ RecordPrepared(c) \/ Reactivate(c) \/ Claim(c) \/ Place(c) \/ Advance(c) \/ CommitBootstrap(c)
             \/ PlanRollback(c) \/ RemoveArtifact(c) \/ AdvanceRollback(c) \/ RetireRollback(c)
      PROVE  UNCHANGED files /\ boot'[b] = boot[b]
  <2>1. boot'[b] = boot[b] BY <1>t, <1>1, OneRecord
  <2>2. ~BootOpen(c) BY <1>0, <1>1 DEF AloneFact
  <2>3. ~Place(c) BY <2>2, PlacingNext DEF Place
  <2>4. ~RemoveArtifact(c)
    <3> SUFFICES ASSUME RemoveArtifact(c) PROVE FALSE OBVIOUS
    <3>1. call.job = "bootstrap" /\ call.op = c /\ call.at = "undo" BY DEF RemoveArtifact, Undoing, Step, Job
    <3> QED BY <2>2, <3>1 DEF FilesInvariant, CallFacts, BootOpen
  <2> QED BY <1>1, <2>1, <2>3, <2>4
      DEF RecordPrepared, Reactivate, Claim, Advance, CommitBootstrap, PlanRollback, AdvanceRollback, RetireRollback
<1>2. ~RecordPrepared(b) /\ ~Reactivate(b)
  <2>1. RecordPrepared(b) => boot[b].phase = "none"
    BY DEF RecordPrepared, Step, Job, ResidentInvariant, ResidentCallFacts
  <2> QED BY <2>1 DEF Reactivate, BootOpen
<1>3. CommitBootstrap(b) \/ RetireRollback(b) => UNCHANGED <<files, boot>>
  <2>1. CommitBootstrap(b) => UNCHANGED boot \/ boot'[b].phase = "committed" BY <1>t DEF CommitBootstrap, BootRecords
  <2>2. RetireRollback(b) => UNCHANGED boot \/ boot'[b].phase = "retired" BY <1>t DEF RetireRollback, BootRecords
  <2> QED BY <2>1, <2>2 DEF CommitBootstrap, RetireRollback, BootOpen
<1>4. ReleaseReservation \/ CompactBootstrap => UNCHANGED files /\ boot'[b] = boot[b]
  <2>1. b \notin Releases BY DEF Releases, Reservations, Committed, BootOpen
  <2> QED BY <2>1 DEF ReleaseReservation, CompactBootstrap
<1>5. ASSUME NEW o \in LifecycleOps, WriteSnapshot(o) \/ WriteCatalog(o) PROVE FALSE
  <2>1. ThreadOf[o] \in Threads /\ Pending(ThreadOf[o]) BY <1>5, PublishingIs
  <2> QED BY <2>1 DEF FilesInvariant, DurableFacts, AnyBootOpen, AnyPending
<1> QED BY <1>1, <1>2, <1>3, <1>4, <1>5, Writes DEF Written, FileWrite

(* What it placed stays placed, and exactly so.                            *)
LEMMA OpenStep ==
  ASSUME FilesInvariant, ResidentInvariant, StartInvariant, [FilesNext]_storeFilesVars, NEW b \in Bootstraps
  PROVE  OpenFact(b)'
<1> DEFINE t == ThreadOf[b]
<1>t. /\ boot \in [Bootstraps -> BootRecords]
      /\ snapshot \in [Threads -> Views] /\ catalog \in [Threads -> Views] /\ t \in Threads
  BY DEF FilesInvariant, FilesTypeOK
<1> SUFFICES ASSUME boot'[b].phase = "open"
             PROVE  /\ Exact(t)' /\ boot'[b].placed \subseteq Present(t)' /\ boot'[b].undone = {}
                    /\ Registered(b) => ReservationFree(b)'
  BY DEF OpenFact, Registered
<1>0. BootOpen(b)' BY DEF BootOpen
<1>1. CASE ~BootOpen(b)
  <2>1. /\ Exact(t) /\ (Registered(b) => ReservationFree(b))
        /\ boot'[b] = Opened(t) /\ \A c \in Bootstraps \ {b} : boot'[c] = boot[c]
        /\ UNCHANGED <<files, resident, fenced>>
    BY <1>0, <1>1, Opening
  <2>2. boot'[b].placed = {} /\ boot'[b].undone = {} BY <2>1 DEF Opened, NoRecord
  <2>3. ReservationFree(b) => ReservationFree(b)'
    BY <2>1 DEF ReservationFree, Commanding, Nonterminal, Recorded, Reservations, Committed, Registered
  <2> QED BY <2>1, <2>2, <2>3 DEF Exact
<1>2. CASE BootOpen(b)
  <2>1. boot[b].phase = "open" BY <1>2, BootMoves DEF BootOpen
  <2>2. OpenFact(b) /\ Claims(b) BY <1>2 DEF StartInvariant, Claims
  <2>3. Registered(b) => ReservationFree(b)' BY <2>1, <2>2, FreeStep DEF OpenFact
  <2>4. CASE UNCHANGED files /\ boot'[b] = boot[b]
    BY <2>1, <2>2, <2>3, <2>4 DEF OpenFact, Exact, Present
  <2>5. CASE Claim(b)
    <3>1. UNCHANGED files /\ boot'[b].placed = boot[b].placed /\ boot'[b].undone = boot[b].undone
      BY <1>t, <2>5 DEF Claim, BootRecords
    <3> QED BY <2>1, <2>2, <2>3, <3>1 DEF OpenFact, Exact, Present
  <2>6. CASE Place(b)
    <3>1. PICK a \in Artifacts : Write(t, a) BY <2>6 DEF Place
    <3>2. UNCHANGED boot BY <2>6 DEF Place
    <3>3. snapshot'[t] \in {snapshot[t], Initial} /\ catalog'[t] \in {catalog[t], Initial} BY <1>t, <3>1 DEF Write
    <3>4. Exact(t)' BY <2>1, <2>2, <3>3 DEF OpenFact, Exact
    <3>5. NoView # Initial BY DEF NoView, Initial, Shows
    <3>6. Present(t) \subseteq Present(t)' BY <1>t, <3>1, <3>3, <3>5 DEF Present, Artifacts, Write
    <3> QED BY <2>1, <2>2, <2>3, <3>2, <3>4, <3>6 DEF OpenFact
  <2>7. CASE Advance(b)
    <3>1. PICK a \in Present(t) : UNCHANGED boot \/ boot' = [boot EXCEPT ![b].placed = @ \cup {a}] BY <2>7 DEF Advance
    <3>2. boot'[b].placed \subseteq boot[b].placed \cup {a} /\ boot'[b].undone = boot[b].undone
      BY <1>t, <3>1 DEF BootRecords
    <3>3. UNCHANGED files BY <2>7 DEF Advance
    <3> QED BY <2>1, <2>2, <2>3, <3>1, <3>2, <3>3 DEF OpenFact, Exact, Present
  <2>8. CASE PlanRollback(b)
    <3>1. UNCHANGED boot BY <2>8, PlannedIs DEF FilesInvariant
    <3>2. UNCHANGED files BY <2>8 DEF PlanRollback
    <3> QED BY <2>1, <2>2, <2>3, <3>1, <3>2 DEF OpenFact, Exact, Present
  <2>9. ~RemoveArtifact(b) /\ ~AdvanceRollback(b)
    <3>1. ~(call.job = "bootstrap" /\ call.op = b /\ call.at = "undo") BY <2>1 DEF FilesInvariant, CallFacts
    <3> QED BY <3>1 DEF RemoveArtifact, AdvanceRollback, Undoing, Step, Job
  <2> QED BY <1>0, <1>2, <2>4, <2>5, <2>6, <2>7, <2>8, <2>9, UnderWay
<1> QED BY <1>1, <1>2

(* A lifecycle record that is due is still free to be prepared.            *)
LEMMA DueStep ==
  ASSUME FilesInvariant, ResidentInvariant, StartInvariant, [FilesNext]_storeFilesVars, NEW b \in Bootstraps
  PROVE  DueFact(b)'
<1> DEFINE p == Reserves[b]
<1> SUFFICES ASSUME boot'[b].phase = "committed", Registered(b), ~boot'[b].released, ~Recorded(p)', p \notin fenced'
             PROVE  ReservationFree(b)'
  BY DEF DueFact, Committed, LifecycleDue, Registered
<1>p. p \in Provisions BY DEF Registered
<1>1. CASE CommitBootstrap(b) /\ boot[b].phase = "open"
  <2>1. OpenFact(b) /\ Claims(b) BY <1>1 DEF StartInvariant, Claims, BootOpen
  <2> QED BY <1>1, <2>1, FreeStep DEF OpenFact
<1>2. CASE boot'[b].phase = boot[b].phase /\ (boot[b].released => boot'[b].released)
  <2>1. p \notin fenced BY SpentParts
  <2>2. ~Recorded(p)
    <3> SUFFICES ASSUME Recorded(p) PROVE FALSE OBVIOUS
    <3>1. RemoveOperation /\ p \in Group(marker) BY <1>p, RecordedMoves
    <3>2. retiring \notin {"no", "fence"} BY <3>1 DEF RemoveOperation
    <3>3. Group(marker) \subseteq fenced BY <3>2, GroupFenced
    <3> QED BY <2>1, <3>1, <3>3
  <2>3. Committed(b) /\ LifecycleDue(b) BY <1>2, <2>1, <2>2 DEF Committed, LifecycleDue
  <2>4. DueFact(b) /\ Claims(b) BY <2>3 DEF StartInvariant, Claims
  <2> QED BY <2>3, <2>4, FreeStep DEF DueFact
<1> QED BY <1>1, <1>2, BootMoves

(* The request that is about to be recorded found its workspace free.      *)
LEMMA WriteStep ==
  ASSUME FilesInvariant, ResidentInvariant, StartInvariant, [FilesNext]_storeFilesVars
  PROVE  WriteFact'
<1>a. ASSUME NEW b \in Bootstraps, call'.op = b, Exact(ThreadOf[b])', Registered(b) => ReservationFree(b)'
      PROVE  WriteFact'
  BY <1>a DEF WriteFact, Exact, Registered, ReservationFree, Commanding, Nonterminal, Recorded, Reservations, Committed
<1> SUFFICES ASSUME call'.job = "bootstrap", call'.at = "write" PROVE WriteFact'
  BY DEF WriteFact
<1>0. WriteFact /\ call \in Calls BY DEF StartInvariant, FilesInvariant, FilesTypeOK
<1>1. CASE Quiet
  <2>1. UNCHANGED <<snapshot, catalog, boot, life, held, bind, call>> BY <1>1 DEF Quiet
  <2>2. PICK b \in Bootstraps : call.op = b BY <1>0, <2>1 DEF Calls, Idle
  <2>3. Exact(ThreadOf[b]) /\ (Registered(b) => ReservationFree(b)) BY <1>0, <2>1, <2>2 DEF WriteFact
  <2>4. Exact(ThreadOf[b])' BY <2>1, <2>3 DEF Exact
  <2>5. Registered(b) => ReservationFree(b)' BY <2>1, <2>3 DEF ReservationFree, Commanding, Nonterminal, Recorded, Reservations, Committed
  <2> QED BY <1>a, <2>1, <2>2, <2>4, <2>5
<1>2. CASE (RetiringWrite \/ BeginRetirement) /\ UNCHANGED call
  <2>1. UNCHANGED <<snapshot, catalog>>
    BY <1>2 DEF RetiringWrite, BeginRetirement, WriteFence, ReleaseReservation, RemoveLineage, RemoveBinding,
       RemoveOperation, CompactBootstrap, RemoveMarker
  <2>2. PICK b \in Bootstraps : call = Job("bootstrap", b, "write")
    BY <1>0, <1>2 DEF Calls, Idle, Job
  <2>3. call.op = b /\ call.job = "bootstrap" /\ call.at = "write" BY <2>2 DEF Job
  <2>4. Exact(ThreadOf[b]) /\ (Registered(b) => ReservationFree(b)) BY <1>0, <2>3 DEF WriteFact
  <2>5. Claims(b) BY <2>2 DEF Claims
  <2>6. Registered(b) => ReservationFree(b)' BY <2>4, <2>5, FreeStep
  <2>7. Exact(ThreadOf[b])' BY <2>1, <2>4 DEF Exact
  <2> QED BY <1>a, <1>2, <2>3, <2>6, <2>7
<1>3. ASSUME NEW b \in Bootstraps, PrepareBootstrap(b)
      PROVE  WriteFact'
  <2>1. call'.op = b /\ UNCHANGED <<snapshot, catalog, boot, life, held, bind>> BY <1>3 DEF PrepareBootstrap, Job
  <2>2. Exact(ThreadOf[b]) /\ (Registered(b) => ReservationFree(b)) BY <1>3 DEF PrepareBootstrap
  <2>3. Exact(ThreadOf[b])' BY <2>1, <2>2 DEF Exact
  <2>4. Registered(b) => ReservationFree(b)' BY <2>1, <2>2 DEF ReservationFree, Commanding, Nonterminal, Recorded, Reservations, Committed
  <2> QED BY <1>a, <2>1, <2>3, <2>4
<1>4. call' # Idle BY DEF Idle
<1>5. ASSUME NEW o \in LifecycleOps PROVE ~RemoveWal(o) /\ ~WriteSnapshot(o) /\ ~WriteCatalog(o)
  <2>1. ~RemoveWal(o)
    <3> SUFFICES ASSUME RemoveWal(o) PROVE FALSE OBVIOUS
    <3>1. call' \in {Idle, Job("end", o, "complete"), Job("publish", o, "proof")} BY DEF RemoveWal, Done
    <3> QED BY <1>4, <3>1 DEF Job
  <2>2. ~WriteSnapshot(o)
    <3> SUFFICES ASSUME WriteSnapshot(o) PROVE FALSE OBVIOUS
    <3>1. call' = [call EXCEPT !.at = "catalog"] BY DEF WriteSnapshot
    <3> QED BY <1>0, <3>1 DEF Calls, Idle
  <2>3. ~WriteCatalog(o)
    <3> SUFFICES ASSUME WriteCatalog(o) PROVE FALSE OBVIOUS
    <3>1. call' = [call EXCEPT !.at = "wal"] BY DEF WriteCatalog
    <3> QED BY <1>0, <3>1 DEF Calls, Idle
  <2> QED BY <2>1, <2>2, <2>3
<1>6. ASSUME NEW p \in Provisions PROVE ~PrepareProvision(p) BY DEF PrepareProvision, Job
<1>7. ASSUME NEW e \in Ends PROVE ~AcknowledgeEnd(e) /\ ~RecoverAfter(e) /\ ~PrepareEndProjection(e) /\ ~CheckEndProjection(e)
  BY DEF AcknowledgeEnd, RecoverAfter, PrepareEndProjection, CheckEndProjection, Throw, Job, Idle
<1>8. ASSUME NEW t \in Threads PROVE ~Replay(t) BY DEF Replay, Job
<1> QED BY <1>1, <1>2, <1>3, <1>4, <1>5, <1>6, <1>7, <1>8, ControlMoves DEF Moves, CallMove

-----------------------------------------------------------------------------
(* A rollback finds its plan current to the end.                           *)

(* Only recovery rolls back, ...                                           *)
LEMMA UndoingNotUp ==
  ASSUME FilesInvariant, ResidentInvariant, NEW b \in Bootstraps, boot[b].phase = "undoing"
  PROVE  /\ mode \notin {"up", "before", "replay", "after"}
         /\ call.job \notin {"provision", "publish", "end"}
<1>1. AnyBootOpen BY DEF AnyBootOpen, BootOpen
<1>2. mode \notin {"before", "replay", "after"} BY <1>1 DEF FilesInvariant, ModeFacts
<1>3. mode # "up"
  <2> SUFFICES ASSUME mode = "up" PROVE FALSE OBVIOUS
  <2>1. call.job = "bootstrap" BY <1>1 DEF FilesInvariant, ModeFacts
  <2>2. call.op = b /\ call.at \notin {"plan", "undo", "check", "place"} BY <2>1 DEF FilesInvariant, CallFacts, BootOpen
  <2>3. call.at \notin {"lifecycle", "write"}
    BY <2>1, <2>2 DEF FilesInvariant, CallFacts, ResidentInvariant, ResidentCallFacts, Committed
  <2>4. call \in Calls BY DEF FilesInvariant, FilesTypeOK
  <2> QED BY <2>1, <2>2, <2>3, <2>4 DEF Calls, BootSteps, Idle
<1> QED BY <1>2, <1>3 DEF FilesInvariant, CallFacts

(* ... and nothing new beside it.                                          *)
LEMMA NothingBeside ==
  ASSUME FilesInvariant, ResidentInvariant, StartInvariant, [FilesNext]_storeFilesVars,
         NEW b \in Bootstraps, boot[b].phase = "undoing"
  PROVE  /\ \A c \in BootRecorded' : c # b => c \in BootRecorded
         /\ \A o \in LifecycleOps : life'[o] # "none" => Recorded(o)
         /\ \A p \in Provisions : bind'[p] # "none" => bind[p] # "none"
<1>0. ~Ready /\ mode # "up" /\ call.job \notin {"provision", "publish", "end"} BY UndoingNotUp DEF Ready
<1>1. ASSUME NEW c \in Bootstraps, c \in BootRecorded' PROVE c \in BootRecorded
  <2>1. boot'[c].phase # "none" BY <1>1 DEF BootRecorded
  <2>2. ~RecordPrepared(c)
    <3> SUFFICES ASSUME RecordPrepared(c) PROVE FALSE OBVIOUS
    <3>1. call.job = "bootstrap" /\ call.at = "write" BY DEF RecordPrepared, Step, Job
    <3> QED BY <1>0, <3>1 DEF FilesInvariant, CallFacts
  <2>3. boot[c].phase # "none" BY <2>1, <2>2, BootMoves
  <2> QED BY <2>3 DEF BootRecorded
<1>2. \A c \in BootRecorded' : c \in Bootstraps BY DEF BootRecorded
<1> DEFINE G == /\ \A o \in LifecycleOps : life'[o] # "none" => Recorded(o)
                /\ \A p \in Provisions : bind'[p] # "none" => bind[p] # "none"
<1>3. CASE UNCHANGED recordVars BY <1>1, <1>2, <1>3 DEF recordVars, Recorded
<1>4. ASSUME NEW c \in Bootstraps, PrepareReserved(c, Retirable # {}) PROVE UNCHANGED <<life, bind>>
  <2>1. Step("bootstrap", c, "lifecycle") /\ LifecycleDue(c) BY <1>4 DEF PrepareReserved
  <2>2. call.job = "bootstrap" /\ call.op = c /\ call.at = "lifecycle" BY <2>1 DEF Step, Job
  <2>3. Committed(c) BY <2>1, <2>2 DEF FilesInvariant, CallFacts, LifecycleDue
  <2>4. c \in Reservations /\ ~Kept(c) BY <2>1, <2>3 DEF Reservations, LifecycleDue, Kept
  <2>5. AloneFact(b) /\ BootOpen(b) BY DEF StartInvariant, BootOpen
  <2> QED BY <2>4, <2>5 DEF AloneFact
<1>5. ASSUME NEW p \in Provisions PROVE
        /\ ~RegisterProvision(p, Retirable # {}) /\ ~FailCreate(p) /\ ~ObservePromotion(p)
        /\ ~CommitProvision(p) /\ ~PublishSame(p) /\ ~WriteProof(p)
  BY <1>0 DEF RegisterProvision, FailCreate, ObservePromotion, CommitProvision, PublishSame, WriteProof, Step, Job
<1>6. ASSUME NEW e \in Ends PROVE ~PrepareEnd(e) /\ ~AcknowledgeEnd(e) /\ ~CompleteEnd(e)
  BY <1>0 DEF PrepareEnd, AcknowledgeEnd, CompleteEnd, Step, Job
<1>7. ASSUME NEW o \in LifecycleOps, QuarantineUnknown(o) \/ RecoverBefore(o) PROVE UNCHANGED <<life, bind>>
  BY <1>7 DEF QuarantineUnknown, RecoverBefore
<1>8. CASE BeginRetirement \/ WriteFence \/ RemoveBinding \/ RemoveOperation \/ RemoveMarker
  <2>1. G BY <1>8, RetirementTakes DEF Recorded
  <2> QED BY <1>1, <1>2, <2>1
<1>9. CASE UNCHANGED <<life, bind>> BY <1>1, <1>2, <1>9 DEF Recorded
<1> QED BY <1>1, <1>2, <1>3, <1>4, <1>5, <1>6, <1>7, <1>8, <1>9, RecordWrites DEF RecordOnly, RecordWrite, ResidentWrite, recordVars

(* A plan stays current while things go and what it retains stays.         *)
LEMMA PlanGoesOn ==
  ASSUME NEW b \in Bootstraps, PlanCurrent(b),
         boot'[b].remove = boot[b].remove, boot'[b].retain = boot[b].retain,
         \A c \in BootRecorded' : c # b => c \in BootRecorded,
         \A o \in LifecycleOps : life'[o] # "none" => Recorded(o),
         \A p \in Provisions : bind'[p] # "none" => bind[p] # "none",
         \A u \in Threads : /\ snapshot'[u] \in {snapshot[u], NoView} /\ catalog'[u] \in {catalog[u], NoView}
                            /\ u \in authority' => u \in authority,
         boot[b].retain \subseteq Present(ThreadOf[b])',
         Present(ThreadOf[b])' \subseteq boot[b].retain \cup (boot[b].remove \ boot'[b].undone)
  PROVE  PlanCurrent(b)'
<1> DEFINE t == ThreadOf[b]
<1>0. t \in Threads /\ b \in Bootstraps OBVIOUS
<1>1. Exact(t)' BY <1>0 DEF PlanCurrent, Exact
<1>2. NoResidentState(t)'
  <2>1. NoResidentState(t) BY DEF PlanCurrent
  <2> QED BY <2>1 DEF NoResidentState, OnThread, Recorded
<1>3. OtherBootstrapOf(b, t)' => OtherBootstrapOf(b, t) BY DEF OtherBootstrapOf
<1>4. ProjectReferenced(b)' => ProjectReferenced(b)
  <2>1. (\E c \in BootRecorded' : c # b) => \E c \in BootRecorded : c # b OBVIOUS
  <2>2. \A u \in Threads : (catalog'[u] # NoView => catalog[u] # NoView) /\ (u \in authority' => u \in authority) OBVIOUS
  <2>3. \A p \in Provisions : ThreadOf[p] \in Threads OBVIOUS
  <2> QED BY <2>1, <2>2, <2>3 DEF ProjectReferenced, Recorded
<1> QED BY <1>1, <1>2, <1>3, <1>4 DEF PlanCurrent

(* A removal and its record each leave the rest of the plan current.       *)
LEMMA UndoStep ==
  ASSUME FilesInvariant, ResidentInvariant, StartInvariant, [FilesNext]_storeFilesVars, NEW b \in Bootstraps
  PROVE  UndoFact(b)'
<1> DEFINE t == ThreadOf[b]
<1>t. /\ boot \in [Bootstraps -> BootRecords] /\ FilesTypeOK
      /\ snapshot \in [Threads -> Views] /\ catalog \in [Threads -> Views] /\ t \in Threads
  BY DEF FilesInvariant, FilesTypeOK
<1> SUFFICES ASSUME boot'[b].phase = "undoing" PROVE PlanCurrent(b)'
  BY DEF UndoFact
<1>1. CASE PlanRollback(b) /\ boot[b].phase = "open"
  <2>1. /\ boot'[b].remove = Removable(b) /\ boot'[b].retain = Present(t) \ Removable(b)
    BY <1>t, <1>1, PlannedIs
  <2>2. boot'[b].undone = {}
    <3>1. boot[b].undone = {} BY <1>1 DEF StartInvariant, OpenFact
    <3>2. UNCHANGED boot \/ \E R, S : boot' = [boot EXCEPT ![b] = [@ EXCEPT !.phase = "undoing", !.remove = R, !.retain = S]]
      BY <1>1 DEF PlanRollback
    <3>3. CASE UNCHANGED boot BY <3>1, <3>3
    <3>4. ASSUME NEW R, NEW S, boot' = [boot EXCEPT ![b] = [@ EXCEPT !.phase = "undoing", !.remove = R, !.retain = S]]
          PROVE  boot'[b].undone = boot[b].undone
      <4>1. boot'[b] = [boot[b] EXCEPT !.phase = "undoing", !.remove = R, !.retain = S] BY <1>t, <3>4
      <4> QED BY <1>t, <4>1 DEF BootRecords
    <3> QED BY <3>1, <3>2, <3>3, <3>4
  <2>3. Exact(t) /\ NoResidentState(t) /\ UNCHANGED <<files, life, bind>>
    <3>1. boot' # boot BY <1>1
    <3> QED BY <1>1, <3>1 DEF PlanRollback
  <2>4. \A c \in Bootstraps : boot'[c].phase # "none" <=> boot[c].phase # "none"
    <3>1. \A c \in Bootstraps \ {b} : boot'[c] = boot[c] BY <1>t, <1>1, OneRecord
    <3> QED BY <1>1, <3>1
  <2>5. BootRecorded' = BootRecorded BY <2>4 DEF BootRecorded
  <2>6. Removable(b) \subseteq Present(t) BY DEF Removable, Owned
  <2>7. Removable(b) \ {"project"} # {} => ~OtherBootstrapOf(b, t) BY DEF Removable
  <2>8. "project" \in Removable(b) => ~ProjectReferenced(b) BY DEF Removable
  <2>9. OtherBootstrapOf(b, t)' = OtherBootstrapOf(b, t) BY <2>5 DEF OtherBootstrapOf
  <2>10. ProjectReferenced(b)' = ProjectReferenced(b) BY <2>3, <2>5 DEF ProjectReferenced, Recorded
  <2>11. Exact(t)' /\ NoResidentState(t)' BY <2>3 DEF Exact, NoResidentState, OnThread, Recorded
  <2>12. Present(t)' = Present(t) BY <2>3 DEF Present
  <2> HIDE DEF t
  <2> QED BY <2>1, <2>2, <2>6, <2>7, <2>8, <2>9, <2>10, <2>11, <2>12 DEF PlanCurrent, t
<1>2. CASE boot[b].phase = "undoing"
  <2>1. PlanCurrent(b) /\ BootOpen(b) /\ BootOpen(b)' BY <1>2 DEF StartInvariant, UndoFact, BootOpen
  <2>2. /\ \A c \in BootRecorded' : c # b => c \in BootRecorded
        /\ \A o \in LifecycleOps : life'[o] # "none" => Recorded(o)
        /\ \A p \in Provisions : bind'[p] # "none" => bind[p] # "none"
    BY <1>2, NothingBeside
  <2>3. ASSUME UNCHANGED files, boot'[b].remove = boot[b].remove, boot'[b].retain = boot[b].retain,
               Present(t) \subseteq boot[b].retain \cup (boot[b].remove \ boot'[b].undone)
        PROVE  PlanCurrent(b)'
    <3>1. Present(t)' = Present(t) BY <2>3 DEF Present
    <3>2. boot[b].retain \subseteq Present(t) BY <2>1 DEF PlanCurrent
    <3> QED BY <2>1, <2>2, <2>3, <3>1, <3>2, PlanGoesOn
  <2>4. CASE UNCHANGED files /\ boot'[b] = boot[b] BY <2>1, <2>3, <2>4 DEF PlanCurrent
  <2>5. ~Claim(b) /\ ~Place(b) /\ ~Advance(b)
    <3>1. ~(call.job = "bootstrap" /\ call.op = b /\ call.at = "place") BY <1>2 DEF FilesInvariant, CallFacts
    <3> QED BY <3>1 DEF Claim, Place, Advance, Placing, Step, Job
  <2>6. ~PlanRollback(b)
    <3>1. ~(call.job = "bootstrap" /\ call.op = b /\ call.at = "plan") BY <1>2 DEF FilesInvariant, CallFacts
    <3> QED BY <3>1 DEF PlanRollback, Step, Job
  <2>7. CASE RemoveArtifact(b)
    <3>1. PICK a \in boot[b].remove \cap Present(t) : Undoing(b, a) /\ (Remove(t, a) \/ UNCHANGED files)
      BY <2>7 DEF RemoveArtifact
    <3>2. UNCHANGED boot BY <2>7 DEF RemoveArtifact
    <3>3. CASE UNCHANGED files BY <2>4, <3>2, <3>3
    <3>4. CASE Remove(t, a)
      <4>1. a \notin boot[b].retain
        <5>1. Rank[a] \in Nat BY <3>1 DEF Present, Artifacts, Rank
        <5>2. PlanFact(b) BY DEF FilesInvariant, DurableFacts
        <5> QED BY <1>2, <3>1, <5>1, <5>2 DEF PlanFact
      <4>2. \A u \in Threads : /\ snapshot'[u] \in {snapshot[u], NoView} /\ catalog'[u] \in {catalog[u], NoView}
                               /\ u \in authority' => u \in authority
        BY <1>t, <3>4 DEF Remove
      <4>3. Present(t)' = Present(t) \ {a} BY <1>t, <3>1, <3>4 DEF Present, Artifacts, Remove
      <4>4. boot[b].retain \subseteq Present(t)' BY <2>1, <4>1, <4>3 DEF PlanCurrent
      <4>5. Present(t)' \subseteq boot[b].retain \cup (boot[b].remove \ boot'[b].undone) BY <2>1, <3>2, <4>3 DEF PlanCurrent
      <4> QED BY <2>1, <2>2, <3>2, <4>2, <4>4, <4>5, PlanGoesOn
    <3> QED BY <3>1, <3>3, <3>4
  <2>8. CASE AdvanceRollback(b)
    <3>1. PICK a \in Artifacts \ (boot[b].remove \cap Present(t)) :
            UNCHANGED boot \/ boot' = [boot EXCEPT ![b].undone = @ \cup {a}]
      BY <2>8 DEF AdvanceRollback
    <3>2. UNCHANGED files BY <2>8 DEF AdvanceRollback
    <3>3. /\ boot'[b].remove = boot[b].remove /\ boot'[b].retain = boot[b].retain
          /\ boot'[b].undone \subseteq boot[b].undone \cup {a}
      BY <1>t, <3>1 DEF BootRecords
    <3>4. Present(t) \subseteq boot[b].retain \cup (boot[b].remove \ boot'[b].undone)
      BY <2>1, <3>1, <3>3 DEF PlanCurrent
    <3> QED BY <2>3, <3>2, <3>3, <3>4
  <2> QED BY <2>1, <2>4, <2>5, <2>6, <2>7, <2>8, UnderWay
<1> QED BY <1>1, <1>2, BootMoves

-----------------------------------------------------------------------------
LEMMA StartInit == FilesInit => StartInvariant
<1> SUFFICES ASSUME FilesInit PROVE StartInvariant OBVIOUS
<1>1. /\ \A b \in Bootstraps : boot[b] = NoRecord
      /\ \A o \in LifecycleOps : life[o] = "none" /\ held[o] = "no"
      /\ \A p \in Provisions : bind[p] = "none"
      /\ \A t \in Threads : ~Pending(t)
      /\ marker = NoOp /\ call = Idle
  BY DEF FilesInit, StateInit, Pending
<1>2. NoRecord.phase = "none" /\ Idle.job = "none" /\ NoOp \notin Ends BY DEF NoRecord, Idle
<1>3. \A b \in Bootstraps : AloneFact(b) /\ OpenFact(b) /\ DueFact(b) /\ UndoFact(b)
  BY <1>1, <1>2 DEF AloneFact, OpenFact, DueFact, UndoFact, BootOpen, Committed
<1>4. WriteFact /\ ProofFact BY <1>1, <1>2 DEF WriteFact, ProofFact
<1>5. \A o \in LifecycleOps : UnknownFact(o) BY <1>1 DEF UnknownFact
<1>6. \A t \in Threads : OverFact(t) BY <1>1 DEF OverFact
<1>7. \A p \in Provisions : ActiveFact(p) BY <1>1 DEF ActiveFact
<1>8. \A e \in Ends : EndedFact(e) /\ QuietFact(e) BY <1>1 DEF EndedFact, QuietFact
<1> QED BY <1>3, <1>4, <1>5, <1>6, <1>7, <1>8 DEF StartInvariant

LEMMA StartStep ==
  FilesInvariant /\ ResidentInvariant /\ StartInvariant /\ [FilesNext]_storeFilesVars => StartInvariant'
<1> SUFFICES ASSUME FilesInvariant, ResidentInvariant, StartInvariant, [FilesNext]_storeFilesVars
             PROVE  StartInvariant'
  OBVIOUS
<1>1. \A b \in Bootstraps : AloneFact(b)' /\ OpenFact(b)' /\ DueFact(b)' /\ UndoFact(b)'
  BY AloneStep, OpenStep, DueStep, UndoStep
<1>2. WriteFact' /\ ProofFact' BY WriteStep, ProofStep
<1>3. \A o \in LifecycleOps : UnknownFact(o)' BY UnknownStep
<1>4. \A t \in Threads : OverFact(t)' BY OverStep
<1>5. \A p \in Provisions : ActiveFact(p)' BY ActiveStep
<1>6. \A e \in Ends : EndedFact(e)' /\ QuietFact(e)' BY EndedStep, QuietStep
<1> QED BY <1>1, <1>2, <1>3, <1>4, <1>5, <1>6 DEF StartInvariant

-----------------------------------------------------------------------------
(* Which steps give up, ...                                                *)
GivesUp ==
    \/ Boot \/ RecoverLifecycles \/ Serve \/ BeginRetirement \/ WriteFence
    \/ \E b \in Bootstraps :
        \/ RefuseBootstrapsFull(b, Retirable # {}) \/ CheckArtifacts(b) \/ Advance(b) \/ CommitBootstrap(b)
        \/ PrepareReserved(b, Retirable # {}) \/ PlanRollback(b) \/ RemoveArtifact(b) \/ AdvanceRollback(b)
        \/ RetireRollback(b)
    \/ \E p \in Provisions : WriteLineage(p)
    \/ \E e \in Ends : PrepareEndProjection(e) \/ CheckEndProjection(e)

LEMMA GivingUp ==
  ASSUME [FilesNext]_storeFilesVars, mode' # mode, mode' \in {"failed", "degraded"}
  PROVE  GivesUp
<1>1. ASSUME NEW b \in Bootstraps,
             \/ PrepareBootstrap(b) \/ RecordPrepared(b) \/ Reactivate(b) \/ Claim(b) \/ Place(b) \/ Settle(b)
             \/ RecoverBootstrap(b)
      PROVE  UNCHANGED mode
  BY <1>1 DEF PrepareBootstrap, RecordPrepared, Reactivate, Claim, Place, Settle, RecoverBootstrap
<1>2. ASSUME NEW p \in Provisions,
             \/ \E c \in Cursors : PreparePublication(p, c)
             \/ PublishSame(p) \/ WriteProof(p) \/ PrepareProvision(p) \/ RegisterProvision(p, Retirable # {})
             \/ FailCreate(p) \/ ObservePromotion(p) \/ CommitProvision(p)
      PROVE  UNCHANGED mode
  BY <1>2 DEF PreparePublication, PublishSame, WriteProof, PrepareProvision, RegisterProvision, FailCreate,
     ObservePromotion, CommitProvision
<1>3. ASSUME NEW e \in Ends, CompleteEnd(e) \/ PrepareEnd(e) \/ AcknowledgeEnd(e) \/ RecoverAfter(e)
      PROVE  UNCHANGED mode
  BY <1>3 DEF CompleteEnd, PrepareEnd, AcknowledgeEnd, RecoverAfter
<1>4. ASSUME NEW o \in LifecycleOps,
             WriteSnapshot(o) \/ WriteCatalog(o) \/ RemoveWal(o) \/ QuarantineUnknown(o) \/ RecoverBefore(o)
      PROVE  UNCHANGED mode
  BY <1>4 DEF WriteSnapshot, WriteCatalog, RemoveWal, QuarantineUnknown, RecoverBefore
<1>5. ASSUME NEW t \in Threads, Replay(t) PROVE UNCHANGED mode BY <1>5 DEF Replay
<1>6. ASSUME \/ ReleaseReservation \/ RemoveLineage \/ RemoveBinding \/ RemoveOperation \/ CompactBootstrap
             \/ RemoveMarker \/ WorkspaceChange \/ UNCHANGED storeFilesVars
      PROVE  UNCHANGED mode
  BY <1>6 DEF ReleaseReservation, RemoveLineage, RemoveBinding, RemoveOperation, CompactBootstrap, RemoveMarker,
     WorkspaceChange, storeFilesVars, stateVars
<1>7. ~RecoverBootstraps /\ ~RecoverPublications /\ ~RecoverEnds /\ ~Crash
  BY DEF RecoverBootstraps, RecoverPublications, RecoverEnds, Enter, Crash
<1> QED BY <1>1, <1>2, <1>3, <1>4, <1>5, <1>6, <1>7
    DEF FilesNext, BootstrapStep, PublicationStep, LifecycleStep, Retirement, Recovery, GivesUp

(* ... and why each finds what it asks for.                                *)
Workable == ws /\ call.at # "plan" /\ \A o \in LifecycleOps : held[o] # "missing"

(* A record whose dispatch is settled is not held.                         *)
LEMMA SettledHeld ==
  ASSUME FilesInvariant, StartInvariant, Workable, NEW o \in LifecycleOps, life[o] \notin {"creating", "ending"}
  PROVE  held[o] = "no"
<1>1. held[o] \in {"no", "unknown", "missing"} BY Typing DEF HeldReasons
<1>2. UnknownFact(o) BY DEF StartInvariant
<1> QED BY <1>1, <1>2 DEF UnknownFact, Workable

(* A completed end has its public proof, whatever else is in progress.     *)
LEMMA CompletedProof ==
  ASSUME FilesInvariant, ResidentInvariant, StartInvariant, NEW e \in Ends, life[e] = "completed"
  PROVE  PublicProof(e)
<1> DEFINE t == ThreadOf[e]
<1>0. t \in Threads OBVIOUS
<1>1. ~Pending(t)
  <2> SUFFICES ASSUME Pending(t) PROVE FALSE OBVIOUS
  <2>1. PublishingFact(t) /\ PendingFact(t) BY <1>0 DEF ResidentInvariant, FilesInvariant, DurableFacts
  <2>2. wal[t].op \in LifecycleOps /\ ThreadOf[wal[t].op] = t
    <3>1. wal[t].op \in LifecycleOps BY <1>0, PendingTyped DEF FilesInvariant
    <3> QED BY <2>1, <3>1 DEF PendingFact
  <2>3. Open(wal[t].op) BY <2>1, <2>2 DEF PublishingFact, Open, OpenStages
  <2> QED BY <2>2, <2>3 DEF StartInvariant, QuietFact
<1>2. View(t) = snapshot[t] BY <1>1 DEF View
<1>3. EndedFact(e) BY DEF StartInvariant
<1>4. snapshot[t].of = e BY <1>2, <1>3 DEF EndedFact
<1>5. snapshot[t].st = "ended" BY <1>2, <1>4, ShownEnd
<1>6. lineage[target[e]].at \in {<<>>, snapshot[t].at} BY <1>2, <1>3, <1>4 DEF EndedFact
<1>7. AgreementFact(t) BY <1>0 DEF FilesInvariant, DurableFacts
<1>8. snapshot[t] # Initial BY <1>5 DEF Initial, Shows
<1>9. catalog[t] = snapshot[t] BY <1>1, <1>7, <1>8 DEF AgreementFact, Unlisted
<1> QED BY <1>1, <1>4, <1>5, <1>6, <1>9 DEF PublicProof

(* A bootstrap or its rollback throws only to a caller, ...                *)
LEMMA BootstrapWorks ==
  ASSUME FilesInvariant, ResidentInvariant, StartInvariant, Workable, NEW b \in Bootstraps,
         \/ RefuseBootstrapsFull(b, Retirable # {}) \/ CheckArtifacts(b) \/ Advance(b) \/ CommitBootstrap(b)
         \/ PrepareReserved(b, Retirable # {}) \/ PlanRollback(b) \/ RemoveArtifact(b) \/ AdvanceRollback(b)
         \/ RetireRollback(b)
  PROVE  mode' = mode \/ mode' = "faulted"
<1>1. CASE RefuseBootstrapsFull(b, Retirable # {})
  <2>1. call.job = "bootstrap" /\ call.op = b /\ call.at = "write" BY <1>1 DEF RefuseBootstrapsFull, Step, Job
  <2>2. mode = "up" BY <2>1 DEF FilesInvariant, CallFacts
  <2> QED BY <1>1, <2>2 DEF RefuseBootstrapsFull, Throw
<1>2. CASE CheckArtifacts(b) \/ Advance(b) \/ CommitBootstrap(b)
  <2>1. call.job = "bootstrap" /\ call.op = b /\ call.at \in {"check", "place"}
    BY <1>2 DEF CheckArtifacts, Advance, CommitBootstrap, Placing, Step, Job
  <2>2. boot[b].phase = "open" BY <2>1 DEF FilesInvariant, CallFacts
  <2>3. Convergent(b) /\ Exact(ThreadOf[b]) BY <2>2 DEF StartInvariant, OpenFact, Convergent
  <2> QED BY <1>2, <2>3 DEF CheckArtifacts, Advance, CommitBootstrap, Workable
<1>3. CASE PrepareReserved(b, Retirable # {})
  <2>1. Step("bootstrap", b, "lifecycle") /\ LifecycleDue(b) BY <1>3 DEF PrepareReserved
  <2>2. call.job = "bootstrap" /\ call.op = b /\ call.at = "lifecycle" BY <2>1 DEF Step, Job
  <2>3. Committed(b) BY <2>1, <2>2 DEF FilesInvariant, CallFacts, LifecycleDue
  <2>4. ReservationFree(b) BY <2>1, <2>3 DEF StartInvariant, DueFact
  <2>5. ~ThreadBusy(ThreadOf[b])
    <3>1. ~Nonterminal(Reserves[b]) BY <2>1 DEF LifecycleDue, Nonterminal
    <3> QED BY <2>4, <3>1 DEF ThreadBusy, OnThread, ReservationFree
  <2> QED BY <1>3, <2>4, <2>5 DEF PrepareReserved, Workable
<1>4. CASE PlanRollback(b)
  <2>1. call.at = "plan" BY <1>4 DEF PlanRollback, Step, Job
  <2> QED BY <2>1 DEF Workable
<1>5. CASE RemoveArtifact(b) \/ AdvanceRollback(b) \/ RetireRollback(b)
  <2>1. call.job = "bootstrap" /\ call.op = b /\ call.at = "undo"
    BY <1>5 DEF RemoveArtifact, AdvanceRollback, RetireRollback, Undoing, Step, Job
  <2>2. boot[b].phase = "undoing" BY <2>1 DEF FilesInvariant, CallFacts
  <2>3. PlanCurrent(b) BY <2>2 DEF StartInvariant, UndoFact
  <2> QED BY <1>5, <2>3 DEF RemoveArtifact, AdvanceRollback, RetireRollback
<1> QED BY <1>1, <1>2, <1>3, <1>4, <1>5

(* ... a publication is still authorized by its session, ...               *)
LEMMA PublicationWorks ==
  ASSUME FilesInvariant, ResidentInvariant, StartInvariant, Workable, NEW p \in Provisions, WriteLineage(p)
  PROVE  UNCHANGED mode
<1> DEFINE t == ThreadOf[p]
<1>1. call.job = "publish" /\ call.op = p /\ call.at = "lineage" BY DEF WriteLineage, Step, Job
<1>2. Pending(t) /\ wal[t].op = p BY <1>1 DEF FilesInvariant, CallFacts
<1>3. PublishingFact(t) /\ OverFact(t) BY DEF ResidentInvariant, StartInvariant
<1>4. ProvisionFact(p) BY RecordParts DEF ResidentInvariant
<1>5. lineage[p] \in {wal[t].prev, wal[t].next} BY <1>2, <1>3 DEF OverFact
<1>6. CASE wal[t].lease
  <2>1. life[p] \in {"promoted", "published"} BY <1>2, <1>3, <1>6 DEF PublishingFact
  <2>2. held[p] = "no" BY <2>1, SettledHeld
  <2>3. Commanding(p) BY <1>4, <2>1 DEF ProvisionFact, Commanding
  <2> QED BY <1>5, <1>6, <2>1, <2>2, <2>3 DEF WriteLineage, PublicationAuthorized, Workable
<1>7. CASE ~wal[t].lease
  <2>1. bind[p] = "active" BY <1>2, <1>3, <1>7 DEF PublishingFact
  <2> QED BY <1>5, <1>7, <2>1 DEF WriteLineage, PublicationAuthorized, Workable
<1> QED BY <1>6, <1>7

(* ... a projection by its end, ...                                        *)
LEMMA ProjectionWorks ==
  ASSUME FilesInvariant, ResidentInvariant, StartInvariant, Workable, NEW e \in Ends,
         PrepareEndProjection(e) \/ CheckEndProjection(e)
  PROVE  UNCHANGED mode
<1> DEFINE t == ThreadOf[e]
<1>0. t \in Threads OBVIOUS
<1>1. CASE PrepareEndProjection(e)
  <2>1. call.job = "end" /\ call.op = e /\ call.at = "project" BY <1>1 DEF PrepareEndProjection, Step, Job
  <2>2. ~Pending(t) BY <1>0, <2>1 DEF FilesInvariant, CallFacts, AnyPending
  <2>3. life[e] \in {"acknowledged", "completed"} BY <2>1 DEF ResidentInvariant, ResidentCallFacts
  <2>4. EndedFact(e) BY DEF StartInvariant
  <2>5. snapshot[t].of = e \/ (snapshot[t].st = "live" /\ snapshot[t].of = target[e])
    BY <2>2, <2>3, <2>4 DEF EndedFact, View
  <2>6. target[e] \in Provisions BY <2>3, Typing DEF FilesInvariant, DurableFacts, TargetFacts, Recorded
  <2>7. snapshot[t] # Initial BY <2>5, <2>6 DEF Initial, Shows
  <2>8. snapshot[t] = catalog[t]
    <3>1. AgreementFact(t) BY <1>0 DEF FilesInvariant, DurableFacts
    <3> QED BY <2>2, <2>7, <3>1 DEF AgreementFact, Unlisted
  <2>9. ~SourceDiverges(e) BY <2>5, <2>8 DEF SourceDiverges
  <2> QED BY <1>1, <2>9 DEF PrepareEndProjection
<1>2. CASE CheckEndProjection(e)
  <2>1. call.job = "end" /\ call.op = e /\ call.at = "check" BY <1>2 DEF CheckEndProjection, Step, Job
  <2>2. Pending(t) /\ wal[t].op = e BY <2>1 DEF FilesInvariant, CallFacts
  <2>3. PublishingFact(t) /\ OverFact(t) /\ PendingFact(t)
    BY <1>0 DEF ResidentInvariant, StartInvariant, FilesInvariant, DurableFacts
  <2>4. life[e] = "acknowledged" BY <2>2, <2>3 DEF PublishingFact
  <2>5. held[e] = "no" BY <2>4, SettledHeld
  <2>6. bind[target[e]] = "detached"
    <3>1. EndFact(e) BY RecordParts DEF ResidentInvariant
    <3> QED BY <2>4, <3>1 DEF EndFact
  <2>7. {snapshot[t], catalog[t]} \subseteq {wal[t].source, wal[t].view} BY <2>2, <2>3 DEF OverFact
  <2>8. \A u \in Threads \ {t} : catalog[u] = wal[t].rows[u] BY <2>2, <2>3 DEF PendingFact
  <2>9. EndProjectionAuthorized(e) BY <2>4, <2>5, <2>6, <2>7, <2>8 DEF EndProjectionAuthorized, Workable
  <2> QED BY <1>2, <2>9 DEF CheckEndProjection
<1> QED BY <1>1, <1>2

(* ... and the passes of initialize() find one open operation of a thread, *)
(* a proof for each retirement and, last, valid files.                     *)
LEMMA RecoveryWorks ==
  ASSUME FilesInvariant, ResidentInvariant, StartInvariant, Workable,
         Boot \/ RecoverLifecycles \/ Serve \/ BeginRetirement \/ WriteFence
  PROVE  mode' \notin {"failed", "degraded"} \/ mode' = mode
<1>1. CASE Boot
  <2>1. OneOpenBootstrap BY DEF StartInvariant, AloneFact, OneOpenBootstrap
  <2> QED BY <1>1, <2>1 DEF Boot, Enter
<1>2. CASE RecoverLifecycles
  <2>1. OneOpenOperation
    <3>1. \A o \in LifecycleOps : Nonterminal(o) => Open(o) BY OpenIs DEF ResidentInvariant
    <3>2. \A o \in LifecycleOps : Exclusive(o) BY RecordParts DEF ResidentInvariant
    <3> QED BY <3>1, <3>2 DEF OneOpenOperation, Exclusive
  <2> QED BY <1>2, <2>1 DEF RecoverLifecycles, Enter
<1>3. CASE Serve
  <2>1. mode = "after" /\ retiring = "no" BY <1>3 DEF Serve, Pass
  <2>2. \A t \in authority : project /\ catalog[t] # NoView
    BY DEF FilesInvariant, FilesTypeOK, DurableFacts, CatalogClosed
  <2>3. \A p \in Provisions : bind[p] = "active" => ws /\ ThreadOf[p] \in authority
    BY DEF FilesInvariant, DurableFacts, AuthorityFacts, Workable
  <2>4. \A e \in Ends : life[e] = "acknowledged" => held[e] = "no" BY SettledHeld
  <2>5. ASSUME NEW e \in Ends, life[e] = "completed" PROVE bind[target[e]] = "completed"
    <3>1. EndFact(e) BY RecordParts DEF ResidentInvariant
    <3>2. ~Retiring(e) BY <2>1, NothingRetires
    <3> QED BY <2>5, <3>1, <3>2 DEF EndFact
  <2>6. ValidFiles BY <2>2, <2>3, <2>4, <2>5 DEF ValidFiles
  <2> QED BY <1>3, <2>6 DEF Serve, Enter
<1>4. CASE BeginRetirement
  <2>1. PICK h \in Retirable : Provable(h) => UNCHANGED mode BY <1>4 DEF BeginRetirement
  <2>2. Provable(h) BY <2>1, CompletedProof DEF Retirable, TerminalHead, Provable
  <2> QED BY <2>1, <2>2
<1>5. CASE WriteFence
  <2>1. Provable(marker) BY DEF StartInvariant, ProofFact, Provable
  <2> QED BY <1>5, <2>1 DEF WriteFence
<1> QED BY <1>1, <1>2, <1>3, <1>4, <1>5

(* What a recovery pass reads of what a crash or a method left behind is   *)
(* always something it can finish: initialize() throws, or gives up its    *)
(* residents, only while the workspace is missing, or where the same pass  *)
(* found it missing and plans a rollback, or with a record that was held   *)
(* because it was.                                                         *)
THEOREM StartsUnlessMissingHolds == FilesSpec => StartsUnlessMissing
<1>1. FilesInvariant /\ ResidentInvariant /\ StartInvariant /\ [FilesNext]_storeFilesVars =>
        [mode' \in {"failed", "degraded"} /\ mode' # mode =>
            \/ ~ws \/ call.at = "plan"
            \/ \E o \in LifecycleOps : held[o] = "missing"]_storeFilesVars
  <2> SUFFICES ASSUME FilesInvariant, ResidentInvariant, StartInvariant, [FilesNext]_storeFilesVars,
                      mode' \in {"failed", "degraded"}, mode' # mode, Workable
               PROVE  FALSE
    BY DEF Workable
  <2>1. GivesUp BY GivingUp
  <2> QED BY <2>1, BootstrapWorks, PublicationWorks, ProjectionWorks, RecoveryWorks DEF GivesUp
<1> QED BY <1>1, StartInit, StartStep, InvariantInit, InvariantStep, ResidentInit, ResidentStep, PTL
    DEF FilesSpec, StartsUnlessMissing
=============================================================================
