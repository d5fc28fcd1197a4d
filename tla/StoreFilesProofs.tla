------------------------- MODULE StoreFilesProofs --------------------------
(***************************************************************************)
(* Theorems of StoreFiles: at every instant the catalog is closed, and     *)
(* the files agree whenever the Store serves.  Both rest on the inductive  *)
(* invariant of StoreFilesInvariant.                                       *)
(***************************************************************************)
EXTENDS StoreFilesInvariant, TLAPS

USE IdentityAssumption, ReservationAssumption, CursorAssumption, NoTxAssumption
USE DEF LifecycleOps, files, resident, retirement, projectionVars

-----------------------------------------------------------------------------
(* Types.                                                                  *)

(* The constant values are of their types, and an update of a record is.   *)
LEMMA Typed ==
  /\ NoView \in Views /\ Initial \in Views /\ NoRecord \in BootRecords /\ NoLineage \in Lineages
  /\ \A e \in Ends, v \in Views : Ended(e, v.at) \in Views
  /\ \A p \in Provisions, c \in Cursors : Live(p, c) \in Views
  /\ \A l \in Lineages, c \in Cursors : Extend(l, c) \in Lineages
<1>1. NoView \in Views /\ Initial \in Views BY DEF NoView, Initial, Shows, Views
<1>2. NoRecord \in BootRecords BY DEF NoRecord, BootRecords, BootPhases
<1>3. NoLineage \in Lineages BY DEF NoLineage, Lineages
<1>4. \A e \in Ends, v \in Views : Ended(e, v.at) \in Views BY DEF Ended, Shows, Views
<1>5. \A p \in Provisions, c \in Cursors : Live(p, c) \in Views BY DEF Live, Shows, Views
<1>6. ASSUME NEW l \in Lineages, NEW c \in Cursors PROVE Extend(l, c) \in Lineages
  <2>1. l.at # <<>> => l.at[1] \in Nat BY DEF Lineages
  <2>2. c \in Cursors \cup {<<>>} /\ l.retired \in SUBSET Nat BY DEF Lineages
  <2>3. l.retired \cup (IF l.at = <<>> \/ l.at[1] = c[1] THEN {} ELSE {l.at[1]}) \in SUBSET Nat
    BY <2>1, <2>2
  <2> QED BY <2>2, <2>3 DEF Extend, Lineages
<1> QED BY <1>1, <1>2, <1>3, <1>4, <1>5, <1>6

LEMMA RecordTyped ==
  ASSUME NEW r \in BootRecords, NEW S \in SUBSET Artifacts
  PROVE /\ [r EXCEPT !.claimed = S] \in BootRecords /\ [r EXCEPT !.placed = S] \in BootRecords
        /\ [r EXCEPT !.undone = S] \in BootRecords /\ [r EXCEPT !.released = TRUE] \in BootRecords
        /\ \A ph \in BootPhases : [r EXCEPT !.phase = ph] \in BootRecords
        /\ \A ph \in BootPhases, R \in SUBSET Artifacts :
             [r EXCEPT !.phase = ph, !.remove = S, !.retain = R] \in BootRecords
        /\ [NoRecord EXCEPT !.phase = "open", !.adopted = S] \in BootRecords
  BY DEF BootRecords, BootPhases, NoRecord

(* The step of a bootstrap changes its own record only.                    *)
LEMMA OneRecord ==
  ASSUME FilesTypeOK, NEW b \in Bootstraps,
         \/ RecordPrepared(b) \/ Reactivate(b) \/ Claim(b) \/ Place(b) \/ Advance(b) \/ CommitBootstrap(b)
         \/ PlanRollback(b) \/ RemoveArtifact(b) \/ AdvanceRollback(b) \/ RetireRollback(b)
  PROVE \A c \in Bootstraps \ {b} : boot'[c] = boot[c]
BY DEF RecordPrepared, Reactivate, Claim, Place, Advance, CommitBootstrap, PlanRollback, RemoveArtifact,
   AdvanceRollback, RetireRollback, FilesTypeOK

(* What PlanRollback records.                                              *)
LEMMA PlannedIs ==
  ASSUME FilesTypeOK, NEW b \in Bootstraps, PlanRollback(b)
  PROVE \/ UNCHANGED boot /\ call' = Idle
        \/ /\ boot'[b].phase = "undoing" /\ boot'[b].remove = Removable(b)
           /\ boot'[b].retain = Present(ThreadOf[b]) \ Removable(b)
           /\ call' = Job("bootstrap", b, "undo") /\ UNCHANGED mode
<1> DEFINE r == [boot[b] EXCEPT !.phase = "undoing", !.remove = Removable(b),
                                !.retain = Present(ThreadOf[b]) \ Removable(b)]
<1>1. boot \in [Bootstraps -> BootRecords] BY DEF FilesTypeOK
<1>2. r.phase = "undoing" /\ r.remove = Removable(b) /\ r.retain = Present(ThreadOf[b]) \ Removable(b)
  BY <1>1 DEF BootRecords
<1>3. \/ boot' = boot /\ call' = Idle
      \/ boot' = [boot EXCEPT ![b] = r] /\ call' = Job("bootstrap", b, "undo") /\ UNCHANGED mode
  BY DEF PlanRollback, Throw
<1> HIDE DEF r
<1>4. \/ boot' = boot /\ call' = Idle
      \/ boot'[b] = r /\ call' = Job("bootstrap", b, "undo") /\ UNCHANGED mode
  BY <1>1, <1>3
<1> QED BY <1>2, <1>4

(* What a pending publication holds.                                       *)
LEMMA PendingTyped ==
  ASSUME FilesTypeOK, NEW t \in Threads, Pending(t)
  PROVE /\ wal[t] \in Transactions /\ wal[t].op \in LifecycleOps
        /\ wal[t].view \in Views /\ wal[t].next \in Lineages /\ wal[t].rows \in [Threads -> Views]
  BY DEF FilesTypeOK, Pending, Transactions

(* Every step keeps the state well typed.                                   *)
LEMMA TypeStep ==
  ASSUME FilesInvariant, [FilesNext]_storeFilesVars
  PROVE FilesTypeOK'
<1> FilesTypeOK BY DEF FilesInvariant
<1> USE DEF FilesTypeOK, Calls, Idle, Job, BootSteps, PublishSteps, EndSteps, RetiringSteps, Modes
<1> USE DEF ProvisionStages, EndStages, HeldReasons, BindStates
<1>1. ASSUME NEW b \in Bootstraps, PrepareBootstrap(b), UNCHANGED projectionVars PROVE FilesTypeOK'
  BY <1>1 DEF PrepareBootstrap, Ready
<1>2. ASSUME NEW b \in Bootstraps, RecordPrepared(b), UNCHANGED projectionVars PROVE FilesTypeOK'
  <2>1. boot' \in [Bootstraps -> BootRecords]
    <3>1. Opened(ThreadOf[b]) \in BootRecords
      <4>1. Present(ThreadOf[b]) \in SUBSET Artifacts BY DEF Present
      <4> QED BY ONLY <4>1, RecordTyped, Typed DEF Opened
    <3> QED BY <1>2, <3>1 DEF RecordPrepared
  <2> QED BY <1>2, <2>1 DEF RecordPrepared, Step
<1>3. ASSUME NEW b \in Bootstraps, RefuseBootstrapsFull(b, Retirable # {}), UNCHANGED projectionVars PROVE FilesTypeOK'
  BY <1>3 DEF RefuseBootstrapsFull, Step, Throw
<1>4. ASSUME NEW b \in Bootstraps, Reactivate(b), UNCHANGED projectionVars PROVE FilesTypeOK'
  <2>1. boot' \in [Bootstraps -> BootRecords]
    <3>1. Opened(ThreadOf[b]) \in BootRecords
      <4>1. Present(ThreadOf[b]) \in SUBSET Artifacts BY DEF Present
      <4> QED BY ONLY <4>1, RecordTyped, Typed DEF Opened
    <3> QED BY <1>4, <3>1 DEF Reactivate
  <2> QED BY <1>4, <2>1 DEF Reactivate, Ready
<1>5. ASSUME NEW b \in Bootstraps, CheckArtifacts(b), UNCHANGED projectionVars PROVE FilesTypeOK'
  BY <1>5 DEF CheckArtifacts, Step, Unavailable, Throw
<1>6. ASSUME NEW b \in Bootstraps, Claim(b), UNCHANGED projectionVars PROVE FilesTypeOK'
  <2> PICK a \in Artifacts : boot' = [boot EXCEPT ![b] = [boot[b] EXCEPT !.claimed = @ \cup {a}]]
    BY <1>6 DEF Claim
  <2>1. boot[b] \in BootRecords /\ boot[b].claimed \cup {a} \in SUBSET Artifacts BY DEF BootRecords
  <2>2. boot'[b] \in BootRecords BY <2>1, RecordTyped
  <2>3. boot' \in [Bootstraps -> BootRecords] BY <2>2
  <2> QED BY <1>6, <2>3 DEF Claim
<1>7. ASSUME NEW b \in Bootstraps, Place(b), UNCHANGED projectionVars PROVE FilesTypeOK'
  <2> PICK a \in Artifacts : Write(ThreadOf[b], a) BY <1>7 DEF Place
  <2>1. /\ project' \in BOOLEAN /\ authority' \subseteq Threads
        /\ snapshot' \in [Threads -> Views] /\ catalog' \in [Threads -> Views]
    BY Typed DEF Write
  <2> QED BY <1>7, <2>1 DEF Place
<1>8. ASSUME NEW b \in Bootstraps, Advance(b), UNCHANGED projectionVars PROVE FilesTypeOK'
  <2> PICK a \in Artifacts :
        \/ boot' = [boot EXCEPT ![b] = [boot[b] EXCEPT !.placed = @ \cup {a}]] /\ UNCHANGED <<mode, call>>
        \/ Throw /\ UNCHANGED boot
    BY <1>8 DEF Advance
  <2>1. boot[b] \in BootRecords /\ boot[b].placed \cup {a} \in SUBSET Artifacts BY DEF BootRecords
  <2> DEFINE r == [boot[b] EXCEPT !.placed = boot[b].placed \cup {a}]
  <2>2. r \in BootRecords BY ONLY <2>1, RecordTyped
  <2>5. boot' = boot \/ boot' = [boot EXCEPT ![b] = r] OBVIOUS
  <2> HIDE DEF r
  <2>3. boot' \in [Bootstraps -> BootRecords] BY <2>2, <2>5
  <2>4. mode' \in Modes /\ call' \in Calls BY DEF Throw
  <2> QED BY <1>8, <2>3, <2>4 DEF Advance
<1>9. ASSUME NEW b \in Bootstraps, CommitBootstrap(b), UNCHANGED projectionVars PROVE FilesTypeOK'
  <2> DEFINE r == [boot[b] EXCEPT !.phase = "committed"]
  <2>1. r \in BootRecords BY RecordTyped DEF BootPhases
  <2>2. boot' = boot \/ boot' = [boot EXCEPT ![b] = r] BY <1>9 DEF CommitBootstrap
  <2> HIDE DEF r
  <2>3. boot' \in [Bootstraps -> BootRecords] BY <2>1, <2>2
  <2> QED BY <1>9, <2>3 DEF CommitBootstrap, Step, Unavailable, Throw
<1>10. ASSUME NEW b \in Bootstraps, Settle(b), UNCHANGED projectionVars PROVE FilesTypeOK'
  BY <1>10 DEF Settle, Step, Done
<1>11. ASSUME NEW b \in Bootstraps, PrepareReserved(b, Retirable # {}), UNCHANGED projectionVars PROVE FilesTypeOK'
  BY <1>11 DEF PrepareReserved, Step, Unavailable, Throw, Done
<1>12. ASSUME NEW b \in Bootstraps, PlanRollback(b), UNCHANGED projectionVars PROVE FilesTypeOK'
  <2> DEFINE r == [boot[b] EXCEPT !.phase = "undoing", !.remove = Removable(b),
                                 !.retain = Present(ThreadOf[b]) \ Removable(b)]
  <2>1. Present(ThreadOf[b]) \ Removable(b) \in SUBSET Artifacts /\ Removable(b) \in SUBSET Artifacts
    BY DEF Present, Removable, Owned
  <2>2. r \in BootRecords BY <2>1, RecordTyped DEF BootPhases
  <2>3. boot' = boot \/ boot' = [boot EXCEPT ![b] = r] BY <1>12 DEF PlanRollback
  <2> HIDE DEF r
  <2>4. boot' \in [Bootstraps -> BootRecords] BY <2>2, <2>3
  <2>5. mode' \in Modes /\ call' \in Calls BY <1>12 DEF PlanRollback, Throw
  <2> QED BY <1>12, <2>4, <2>5 DEF PlanRollback
<1>13. ASSUME NEW b \in Bootstraps, RemoveArtifact(b), UNCHANGED projectionVars PROVE FilesTypeOK'
  <2>1. PICK a \in Artifacts : \/ Remove(ThreadOf[b], a) /\ UNCHANGED <<mode, call>>
                               \/ Throw /\ UNCHANGED files
    <3>1. Present(ThreadOf[b]) \subseteq Artifacts BY DEF Present
    <3> QED BY <1>13, <3>1 DEF RemoveArtifact
  <2>2. CASE Remove(ThreadOf[b], a) /\ UNCHANGED <<mode, call>>
    <3>1. /\ project' \in BOOLEAN /\ authority' \subseteq Threads
          /\ snapshot' \in [Threads -> Views] /\ catalog' \in [Threads -> Views]
      BY <2>2, Typed DEF Remove
    <3> QED BY <1>13, <2>2, <3>1 DEF RemoveArtifact
  <2>3. CASE Throw /\ UNCHANGED files
    BY <1>13, <2>3 DEF RemoveArtifact, Throw
  <2> QED BY <2>1, <2>2, <2>3
<1>14. ASSUME NEW b \in Bootstraps, AdvanceRollback(b), UNCHANGED projectionVars PROVE FilesTypeOK'
  <2> PICK a \in Artifacts :
        \/ boot' = [boot EXCEPT ![b] = [boot[b] EXCEPT !.undone = @ \cup {a}]] /\ UNCHANGED <<mode, call>>
        \/ Throw /\ UNCHANGED boot
    BY <1>14 DEF AdvanceRollback
  <2>1. boot[b] \in BootRecords /\ boot[b].undone \cup {a} \in SUBSET Artifacts BY DEF BootRecords
  <2> DEFINE r == [boot[b] EXCEPT !.undone = boot[b].undone \cup {a}]
  <2>2. r \in BootRecords BY ONLY <2>1, RecordTyped
  <2>5. boot' = boot \/ boot' = [boot EXCEPT ![b] = r] OBVIOUS
  <2> HIDE DEF r
  <2>3. boot' \in [Bootstraps -> BootRecords] BY <2>2, <2>5
  <2>4. mode' \in Modes /\ call' \in Calls BY DEF Throw
  <2> QED BY <1>14, <2>3, <2>4 DEF AdvanceRollback
<1>15. ASSUME NEW b \in Bootstraps, RetireRollback(b), UNCHANGED projectionVars PROVE FilesTypeOK'
  <2> DEFINE r == [boot[b] EXCEPT !.phase = "retired"]
  <2>1. r \in BootRecords BY RecordTyped DEF BootPhases
  <2>2. boot' = boot \/ boot' = [boot EXCEPT ![b] = r] BY <1>15 DEF RetireRollback
  <2> HIDE DEF r
  <2>3. boot' \in [Bootstraps -> BootRecords] BY <2>1, <2>2
  <2> QED BY <1>15, <2>3 DEF RetireRollback, Step, Done, Throw
<1>16. ASSUME NEW b \in Bootstraps, RecoverBootstrap(b), UNCHANGED projectionVars PROVE FilesTypeOK'
  BY <1>16 DEF RecoverBootstrap
<1>17. ASSUME NEW o \in Provisions, NEW c \in Cursors, PreparePublication(o, c) PROVE FilesTypeOK'
  <2> DEFINE tx == [op |-> o, lease |-> Leased(o), view |-> Live(o, c), source |-> snapshot[ThreadOf[o]],
                     prev |-> lineage[o], next |-> Extend(lineage[o], c),
                     rows |-> [catalog EXCEPT ![ThreadOf[o]] = Live(o, c)]]
  <2>1. tx \in Transactions BY Typed DEF Transactions, Leased
  <2>2. wal' = [wal EXCEPT ![ThreadOf[o]] = tx] BY <1>17 DEF PreparePublication
  <2> HIDE DEF tx
  <2>3. wal' \in [Threads -> Transactions \cup {NoTx}] BY <2>1, <2>2
  <2> QED BY <1>17, <2>3 DEF PreparePublication, Ready
<1>18. ASSUME NEW o \in Provisions, PublishSame(o) PROVE FilesTypeOK'
  BY <1>18 DEF PublishSame, Ready
<1>19. ASSUME NEW o \in Provisions, WriteLineage(o) PROVE FilesTypeOK'
  <2>1. Pending(ThreadOf[o]) BY <1>19 DEF WriteLineage, Step, FilesInvariant, CallFacts
  <2>2. wal[ThreadOf[o]].next \in Lineages BY <2>1, PendingTyped
  <2>3. lineage' \in [Provisions -> Lineages] BY <1>19, <2>2 DEF WriteLineage
  <2>4. mode' \in Modes /\ call' \in Calls BY <1>19 DEF WriteLineage, Step, Throw
  <2> QED BY <1>19, <2>3, <2>4 DEF WriteLineage
<1>20. ASSUME NEW o \in Provisions, WriteProof(o) PROVE FilesTypeOK'
  BY <1>20 DEF WriteProof, Step
<1>21. ASSUME NEW o \in Ends, PrepareEndProjection(o) PROVE FilesTypeOK'
  <2> DEFINE t == ThreadOf[o]
             s == snapshot[t]
             tx == [op |-> o, lease |-> FALSE, view |-> Ended(o, s.at), source |-> s,
                    prev |-> NoLineage, next |-> NoLineage,
                    rows |-> [catalog EXCEPT ![t] = Ended(o, s.at)]]
  <2>1. tx \in Transactions BY Typed DEF Transactions
  <2>2. wal' = wal \/ wal' = [wal EXCEPT ![t] = tx] BY <1>21 DEF PrepareEndProjection
  <2> HIDE DEF tx
  <2>3. wal' \in [Threads -> Transactions \cup {NoTx}] BY <2>1, <2>2
  <2> QED BY <1>21, <2>3 DEF PrepareEndProjection, Step
<1>22. ASSUME NEW o \in Ends, CheckEndProjection(o) PROVE FilesTypeOK'
  BY <1>22 DEF CheckEndProjection, Step, Throw
<1>23. ASSUME NEW o \in Ends, CompleteEnd(o) PROVE FilesTypeOK'
  BY <1>23 DEF CompleteEnd, Step, Done
<1>24. ASSUME NEW o \in LifecycleOps, WriteSnapshot(o) PROVE FilesTypeOK'
  <2>1. call.op = o /\ call.job \in {"publish", "end"} /\ call.at = "snapshot"
    BY <1>24 DEF WriteSnapshot, Publishing, Step
  <2>2. wal[ThreadOf[o]].view \in Views BY <2>1, PendingTyped DEF FilesInvariant, CallFacts
  <2>3. call' \in Calls BY <1>24, <2>1, SMTT(20) DEF WriteSnapshot
  <2> QED BY <1>24, <2>2, <2>3 DEF WriteSnapshot
<1>25. ASSUME NEW o \in LifecycleOps, WriteCatalog(o) PROVE FilesTypeOK'
  <2>1. call.op = o /\ call.job \in {"publish", "end"} /\ call.at = "catalog"
    BY <1>25 DEF WriteCatalog, Publishing, Step
  <2>2. wal[ThreadOf[o]].rows \in [Threads -> Views] BY <2>1, PendingTyped DEF FilesInvariant, CallFacts
  <2>3. call' \in Calls BY <1>25, <2>1 DEF WriteCatalog
  <2> QED BY <1>25, <2>2, <2>3 DEF WriteCatalog
<1>26. ASSUME NEW o \in LifecycleOps, RemoveWal(o) PROVE FilesTypeOK'
  BY <1>26 DEF RemoveWal, Publishing, Step, Done
<1>27. ASSUME NEW o \in Provisions, PrepareProvision(o) PROVE FilesTypeOK'
  BY <1>27 DEF PrepareProvision, Ready
<1>28. ASSUME NEW o \in Provisions, RegisterProvision(o, Retirable # {}) PROVE FilesTypeOK'
  BY <1>28 DEF RegisterProvision, Step
<1>29. ASSUME NEW o \in Provisions, FailCreate(o) PROVE FilesTypeOK'
  BY <1>29 DEF FailCreate, Ready
<1>30. ASSUME NEW o \in Provisions, ObservePromotion(o) PROVE FilesTypeOK'
  BY <1>30 DEF ObservePromotion, Ready
<1>31. ASSUME NEW o \in Provisions, CommitProvision(o) PROVE FilesTypeOK'
  BY <1>31 DEF CommitProvision, Ready
<1>32. ASSUME NEW o \in Ends, PrepareEnd(o) PROVE FilesTypeOK'
  BY <1>32 DEF PrepareEnd, Ready, OnThread
<1>33. ASSUME NEW o \in Ends, AcknowledgeEnd(o) PROVE FilesTypeOK'
  BY <1>33 DEF AcknowledgeEnd, Ready
<1>34. ASSUME NEW o \in Ends, RecoverAfter(o) PROVE FilesTypeOK'
  BY <1>34 DEF RecoverAfter
<1>35. ASSUME NEW o \in LifecycleOps, QuarantineUnknown(o) PROVE FilesTypeOK'
  BY <1>35 DEF QuarantineUnknown, Ready
<1>36. ASSUME NEW o \in LifecycleOps, RecoverBefore(o) PROVE FilesTypeOK'
  BY <1>36 DEF RecoverBefore
<1>37. CASE BeginRetirement
  <2>1. PICK h \in LifecycleOps :
          IF Provable(h) THEN marker' = h /\ retiring' = "fence" /\ UNCHANGED <<mode, call>>
          ELSE Degrade /\ UNCHANGED marker
    BY <1>37 DEF BeginRetirement, Retirable
  <2>2. marker' \in LifecycleOps \cup {NoOp} /\ retiring' \in RetiringSteps /\ mode' \in Modes /\ call' \in Calls
    BY <2>1 DEF Degrade
  <2> QED BY <1>37, <2>2 DEF BeginRetirement
<1>38. CASE WriteFence
  <2>1. Group(marker) \subseteq LifecycleOps
    BY <1>38 DEF WriteFence, FilesInvariant, RetiringFacts, DurableFacts, TargetFacts, Group
  <2>2. fenced' \subseteq LifecycleOps /\ retiring' \in RetiringSteps /\ mode' \in Modes /\ call' \in Calls
    BY <1>38, <2>1 DEF WriteFence, Degrade
  <2> QED BY <1>38, <2>2 DEF WriteFence
<1>39. CASE ReleaseReservation
  <2>1. \A b \in Bootstraps : [boot[b] EXCEPT !.released = TRUE] \in BootRecords BY RecordTyped
  <2>2. boot' \in [Bootstraps -> BootRecords] BY <1>39, <2>1 DEF ReleaseReservation
  <2> QED BY <1>39, <2>2 DEF ReleaseReservation
<1>40. CASE RemoveLineage
  <2>1. lineage' \in [Provisions -> Lineages] BY <1>40, Typed DEF RemoveLineage
  <2> QED BY <1>40, <2>1 DEF RemoveLineage
<1>41. CASE RemoveBinding
  <2>1. bind' \in [Provisions -> BindStates] BY <1>41 DEF RemoveBinding
  <2> QED BY <1>41, <2>1 DEF RemoveBinding
<1>42. CASE RemoveOperation
  BY <1>42 DEF RemoveOperation
<1>43. CASE CompactBootstrap
  <2>1. boot' \in [Bootstraps -> BootRecords] BY <1>43, Typed DEF CompactBootstrap
  <2> QED BY <1>43, <2>1 DEF CompactBootstrap
<1>44. CASE RemoveMarker
  BY <1>44 DEF RemoveMarker
<1>45. CASE Boot
  BY <1>45 DEF Boot, Enter
<1>46. CASE RecoverBootstraps
  <2>1. todo' \subseteq Bootstraps /\ mode' \in Modes BY <1>46 DEF RecoverBootstraps, Enter, BootRecorded
  <2> QED BY <1>46, <2>1 DEF RecoverBootstraps, Enter
<1>47. CASE RecoverLifecycles
  BY <1>47 DEF RecoverLifecycles, Pass, Enter, Degrade
<1>48. CASE RecoverPublications
  BY <1>48 DEF RecoverPublications, Pass, Enter
<1>49. CASE RecoverEnds
  BY <1>49 DEF RecoverEnds, Pass, Enter
<1>50. CASE Serve
  BY <1>50 DEF Serve, Pass, Enter, Degrade
<1>51. ASSUME NEW t \in Threads, Replay(t) PROVE FilesTypeOK'
  <2>1. Pending(t) BY <1>51 DEF Replay, FilesInvariant, ModeFacts
  <2>2. wal[t].op \in LifecycleOps BY <2>1, PendingTyped
  <2> QED BY <1>51, <2>2 DEF Replay
<1>52. CASE Crash
  BY <1>52 DEF Crash
<1>53. CASE WorkspaceChange
  BY <1>53 DEF WorkspaceChange
<1>54. CASE UNCHANGED storeFilesVars
  BY <1>54 DEF storeFilesVars, stateVars
<1> QED BY <1>1, <1>2, <1>3, <1>4, <1>5, <1>6, <1>7, <1>8, <1>9, <1>10, <1>11, <1>12, <1>13,
     <1>14, <1>15, <1>16, <1>17, <1>18, <1>19, <1>20, <1>21, <1>22, <1>23, <1>24, <1>25, <1>26,
     <1>27, <1>28, <1>29, <1>30, <1>31, <1>32, <1>33, <1>34, <1>35, <1>36, <1>37, <1>38, <1>39,
     <1>40, <1>41, <1>42, <1>43, <1>44, <1>45, <1>46, <1>47, <1>48, <1>49, <1>50, <1>51, <1>52,
     <1>53, <1>54
  DEF FilesNext, BootstrapStep, PublicationStep, LifecycleStep, Retirement, Recovery

-----------------------------------------------------------------------------
(* What a step writes: the catalog files and the bootstrap records, ...    *)
FileWrite ==
    \/ \E b \in Bootstraps :
        \/ RecordPrepared(b) \/ Reactivate(b) \/ Claim(b) \/ Place(b) \/ Advance(b) \/ CommitBootstrap(b)
        \/ PlanRollback(b) \/ RemoveArtifact(b) \/ AdvanceRollback(b) \/ RetireRollback(b)
    \/ \E o \in LifecycleOps : WriteSnapshot(o) \/ WriteCatalog(o)
    \/ ReleaseReservation \/ CompactBootstrap

(* ... the lifecycle records and bindings, ...                             *)
ResidentWrite ==
    \/ \E b \in Bootstraps : PrepareReserved(b, Retirable # {})
    \/ \E p \in Provisions :
        \/ RegisterProvision(p, Retirable # {}) \/ FailCreate(p) \/ ObservePromotion(p)
        \/ CommitProvision(p) \/ PublishSame(p) \/ WriteProof(p)
    \/ \E e \in Ends : PrepareEnd(e) \/ AcknowledgeEnd(e) \/ CompleteEnd(e)
    \/ BeginRetirement \/ RemoveBinding \/ RemoveOperation \/ RemoveMarker

(* ... or the pending publications and the lineages.                       *)
ProjectionWrite ==
    \/ \E p \in Provisions : WriteLineage(p) \/ \E c \in Cursors : PreparePublication(p, c)
    \/ \E e \in Ends : PrepareEndProjection(e)
    \/ \E o \in LifecycleOps : RemoveWal(o)
    \/ RemoveLineage

residentVars == <<life, bind, target, marker>>

Written ==
    \/ FileWrite /\ UNCHANGED <<residentVars, projectionVars>>
    \/ ResidentWrite /\ UNCHANGED <<files, boot, projectionVars>>
    \/ ProjectionWrite /\ UNCHANGED <<files, boot, residentVars>>
    \/ UNCHANGED <<files, boot, residentVars, projectionVars>>

(* Every step writes at most one of the three.                              *)
LEMMA Writes ==
  ASSUME [FilesNext]_storeFilesVars
  PROVE Written
<1>1. ASSUME NEW b \in Bootstraps, PrepareBootstrap(b), UNCHANGED projectionVars PROVE Written
  BY <1>1 DEF PrepareBootstrap, Ready, Written, residentVars
<1>2. ASSUME NEW b \in Bootstraps, RecordPrepared(b), UNCHANGED projectionVars PROVE Written
  BY <1>2 DEF RecordPrepared, Step, Opened, NoRecord, Written, FileWrite, residentVars
<1>3. ASSUME NEW b \in Bootstraps, RefuseBootstrapsFull(b, Retirable # {}), UNCHANGED projectionVars PROVE Written
  BY <1>3 DEF RefuseBootstrapsFull, Step, Throw, Written, residentVars
<1>4. ASSUME NEW b \in Bootstraps, Reactivate(b), UNCHANGED projectionVars PROVE Written
  BY <1>4 DEF Reactivate, Ready, Opened, NoRecord, Written, FileWrite, residentVars
<1>5. ASSUME NEW b \in Bootstraps, CheckArtifacts(b), UNCHANGED projectionVars PROVE Written
  BY <1>5 DEF CheckArtifacts, Step, Unavailable, Throw, Written, residentVars
<1>6. ASSUME NEW b \in Bootstraps, Claim(b), UNCHANGED projectionVars PROVE Written
  BY <1>6 DEF Claim, Placing, Step, Written, FileWrite, residentVars
<1>7. ASSUME NEW b \in Bootstraps, Place(b), UNCHANGED projectionVars PROVE Written
  BY <1>7 DEF Place, Placing, Step, Write, Written, FileWrite, residentVars
<1>8. ASSUME NEW b \in Bootstraps, Advance(b), UNCHANGED projectionVars PROVE Written
  BY <1>8 DEF Advance, Placing, Step, Throw, Written, FileWrite, residentVars
<1>9. ASSUME NEW b \in Bootstraps, CommitBootstrap(b), UNCHANGED projectionVars PROVE Written
  BY <1>9 DEF CommitBootstrap, Step, Unavailable, Throw, Written, FileWrite, residentVars
<1>10. ASSUME NEW b \in Bootstraps, Settle(b), UNCHANGED projectionVars PROVE Written
  BY <1>10 DEF Settle, Step, Done, Written, residentVars
<1>11. ASSUME NEW b \in Bootstraps, PrepareReserved(b, Retirable # {}), UNCHANGED projectionVars PROVE Written
  BY <1>11 DEF PrepareReserved, Step, Unavailable, Throw, Done, Written, ResidentWrite
<1>12. ASSUME NEW b \in Bootstraps, PlanRollback(b), UNCHANGED projectionVars PROVE Written
  BY <1>12 DEF PlanRollback, Step, Throw, Written, FileWrite, residentVars
<1>13. ASSUME NEW b \in Bootstraps, RemoveArtifact(b), UNCHANGED projectionVars PROVE Written
  BY <1>13 DEF RemoveArtifact, Undoing, Step, Remove, Throw, Written, FileWrite, residentVars
<1>14. ASSUME NEW b \in Bootstraps, AdvanceRollback(b), UNCHANGED projectionVars PROVE Written
  BY <1>14 DEF AdvanceRollback, Undoing, Step, Throw, Written, FileWrite, residentVars
<1>15. ASSUME NEW b \in Bootstraps, RetireRollback(b), UNCHANGED projectionVars PROVE Written
  BY <1>15 DEF RetireRollback, Step, Done, Throw, Written, FileWrite, residentVars
<1>16. ASSUME NEW b \in Bootstraps, RecoverBootstrap(b), UNCHANGED projectionVars PROVE Written
  BY <1>16 DEF RecoverBootstrap, Written, residentVars
<1>17. ASSUME NEW o \in Provisions, NEW c \in Cursors, PreparePublication(o, c) PROVE Written
  BY <1>17 DEF PreparePublication, Ready, Written, ProjectionWrite, residentVars
<1>18. ASSUME NEW o \in Provisions, PublishSame(o) PROVE Written
  BY <1>18 DEF PublishSame, Ready, Written, ResidentWrite
<1>19. ASSUME NEW o \in Provisions, WriteLineage(o) PROVE Written
  BY <1>19 DEF WriteLineage, Step, Throw, Written, ProjectionWrite, residentVars
<1>20. ASSUME NEW o \in Provisions, WriteProof(o) PROVE Written
  BY <1>20 DEF WriteProof, Step, Written, ResidentWrite
<1>21. ASSUME NEW o \in Ends, PrepareEndProjection(o) PROVE Written
  BY <1>21 DEF PrepareEndProjection, Step, Written, ProjectionWrite, residentVars
<1>22. ASSUME NEW o \in Ends, CheckEndProjection(o) PROVE Written
  BY <1>22 DEF CheckEndProjection, Step, Throw, Written, residentVars
<1>23. ASSUME NEW o \in Ends, CompleteEnd(o) PROVE Written
  BY <1>23 DEF CompleteEnd, Step, Done, Written, ResidentWrite
<1>24. ASSUME NEW o \in LifecycleOps, WriteSnapshot(o) PROVE Written
  BY <1>24 DEF WriteSnapshot, Publishing, Step, Written, FileWrite, residentVars
<1>25. ASSUME NEW o \in LifecycleOps, WriteCatalog(o) PROVE Written
  BY <1>25 DEF WriteCatalog, Publishing, Step, Written, FileWrite, residentVars
<1>26. ASSUME NEW o \in LifecycleOps, RemoveWal(o) PROVE Written
  BY <1>26 DEF RemoveWal, Publishing, Step, Done, Written, ProjectionWrite, residentVars
<1>27. ASSUME NEW o \in Provisions, PrepareProvision(o) PROVE Written
  BY <1>27 DEF PrepareProvision, Ready, Written, residentVars
<1>28. ASSUME NEW o \in Provisions, RegisterProvision(o, Retirable # {}) PROVE Written
  BY <1>28 DEF RegisterProvision, Step, Written, ResidentWrite
<1>29. ASSUME NEW o \in Provisions, FailCreate(o) PROVE Written
  BY <1>29 DEF FailCreate, Ready, Written, ResidentWrite
<1>30. ASSUME NEW o \in Provisions, ObservePromotion(o) PROVE Written
  BY <1>30 DEF ObservePromotion, Ready, Written, ResidentWrite
<1>31. ASSUME NEW o \in Provisions, CommitProvision(o) PROVE Written
  BY <1>31 DEF CommitProvision, Ready, Written, ResidentWrite
<1>32. ASSUME NEW o \in Ends, PrepareEnd(o) PROVE Written
  BY <1>32 DEF PrepareEnd, Ready, OnThread, Written, ResidentWrite
<1>33. ASSUME NEW o \in Ends, AcknowledgeEnd(o) PROVE Written
  BY <1>33 DEF AcknowledgeEnd, Ready, Written, ResidentWrite
<1>34. ASSUME NEW o \in Ends, RecoverAfter(o) PROVE Written
  BY <1>34 DEF RecoverAfter, Written, residentVars
<1>35. ASSUME NEW o \in LifecycleOps, QuarantineUnknown(o) PROVE Written
  BY <1>35 DEF QuarantineUnknown, Ready, Written, residentVars
<1>36. ASSUME NEW o \in LifecycleOps, RecoverBefore(o) PROVE Written
  BY <1>36 DEF RecoverBefore, Written, residentVars
<1>37. CASE BeginRetirement
  BY <1>37 DEF BeginRetirement, Degrade, Written, ResidentWrite
<1>38. CASE WriteFence
  BY <1>38 DEF WriteFence, Degrade, Written, residentVars
<1>39. CASE ReleaseReservation
  BY <1>39 DEF ReleaseReservation, Written, FileWrite, residentVars
<1>40. CASE RemoveLineage
  BY <1>40 DEF RemoveLineage, Written, ProjectionWrite, residentVars
<1>41. CASE RemoveBinding
  BY <1>41 DEF RemoveBinding, Written, ResidentWrite
<1>42. CASE RemoveOperation
  BY <1>42 DEF RemoveOperation, Written, ResidentWrite
<1>43. CASE CompactBootstrap
  BY <1>43 DEF CompactBootstrap, Written, FileWrite, residentVars
<1>44. CASE RemoveMarker
  BY <1>44 DEF RemoveMarker, Written, ResidentWrite
<1>45. CASE Boot
  BY <1>45 DEF Boot, Enter, Written, residentVars
<1>46. CASE RecoverBootstraps
  BY <1>46 DEF RecoverBootstraps, Pass, Enter, Written, residentVars
<1>47. CASE RecoverLifecycles
  BY <1>47 DEF RecoverLifecycles, Pass, Enter, Degrade, Written, residentVars
<1>48. CASE RecoverPublications
  BY <1>48 DEF RecoverPublications, Pass, Enter, Written, residentVars
<1>49. CASE RecoverEnds
  BY <1>49 DEF RecoverEnds, Pass, Enter, Written, residentVars
<1>50. CASE Serve
  BY <1>50 DEF Serve, Pass, Enter, Degrade, Written, residentVars
<1>51. ASSUME NEW t \in Threads, Replay(t) PROVE Written
  BY <1>51 DEF Replay, Written, residentVars
<1>52. CASE Crash
  BY <1>52 DEF Crash, Written, residentVars
<1>53. CASE WorkspaceChange
  BY <1>53 DEF WorkspaceChange, Written, residentVars
<1>54. CASE UNCHANGED storeFilesVars
  BY <1>54 DEF storeFilesVars, stateVars, Written, residentVars
<1> QED BY <1>1, <1>2, <1>3, <1>4, <1>5, <1>6, <1>7, <1>8, <1>9, <1>10, <1>11, <1>12, <1>13,
     <1>14, <1>15, <1>16, <1>17, <1>18, <1>19, <1>20, <1>21, <1>22, <1>23, <1>24, <1>25, <1>26,
     <1>27, <1>28, <1>29, <1>30, <1>31, <1>32, <1>33, <1>34, <1>35, <1>36, <1>37, <1>38, <1>39,
     <1>40, <1>41, <1>42, <1>43, <1>44, <1>45, <1>46, <1>47, <1>48, <1>49, <1>50, <1>51, <1>52,
     <1>53, <1>54
  DEF FilesNext, BootstrapStep, PublicationStep, LifecycleStep, Retirement, Recovery

-----------------------------------------------------------------------------
(* The catalog is closed.                                                  *)

(* First and Last are what their names say.                                *)
LEMMA FirstLast ==
  ASSUME NEW S \in SUBSET Artifacts, S # {}
  PROVE /\ First(S) \in S /\ \A c \in S : Rank[First(S)] <= Rank[c]
        /\ Last(S) \in S /\ \A c \in S : Rank[Last(S)] >= Rank[c]
<1>1. \A a \in Artifacts : Rank[a] \in 1..4 BY DEF Artifacts, Rank
<1>2. \E a \in S : \A c \in S : Rank[a] <= Rank[c]
  <2>1. CASE "project" \in S BY <2>1 DEF Artifacts, Rank
  <2>2. CASE "project" \notin S /\ "snapshot" \in S BY <2>2 DEF Artifacts, Rank
  <2>3. CASE S \cap {"project", "snapshot"} = {} /\ "thread" \in S BY <2>3 DEF Artifacts, Rank
  <2>4. CASE S \subseteq {"authority"}
    <3>1. S = {"authority"} BY <2>4
    <3> QED BY <3>1, <1>1 DEF Artifacts
  <2> QED BY <2>1, <2>2, <2>3, <2>4 DEF Artifacts
<1>3. \E a \in S : \A c \in S : Rank[a] >= Rank[c]
  <2>1. CASE "authority" \in S BY <2>1 DEF Artifacts, Rank
  <2>2. CASE "authority" \notin S /\ "thread" \in S BY <2>2 DEF Artifacts, Rank
  <2>3. CASE S \cap {"authority", "thread"} = {} /\ "snapshot" \in S BY <2>3 DEF Artifacts, Rank
  <2>4. CASE S \subseteq {"project"}
    <3>1. S = {"project"} BY <2>4
    <3> QED BY <3>1, <1>1 DEF Artifacts
  <2> QED BY <2>1, <2>2, <2>3, <2>4 DEF Artifacts
<1> QED BY <1>2, <1>3 DEF First, Last

(* The method that places artifacts has placed all before the next.        *)
LEMMA PlacingNext ==
  ASSUME FilesInvariant, NEW b \in Bootstraps, NEW a \in Artifacts, Placing(b, a)
  PROVE /\ BootOpen(b) /\ a \notin boot[b].placed
        /\ \A c \in Artifacts : Rank[c] < Rank[a] => c \in Present(ThreadOf[b])
<1>1. boot[b].placed \in SUBSET Artifacts BY DEF FilesInvariant, FilesTypeOK, BootRecords
<1>2. call.job = "bootstrap" /\ call.op = b /\ call.at = "place" BY DEF Placing, Step, Job
<1>3. boot[b].phase = "open" /\ boot[b].placed \subseteq Present(ThreadOf[b])
  BY <1>2 DEF FilesInvariant, CallFacts
<1>4. Artifacts \ boot[b].placed # {} /\ a = First(Artifacts \ boot[b].placed) BY <1>1 DEF Placing
<1>5. a \notin boot[b].placed /\ \A c \in Artifacts \ boot[b].placed : Rank[a] <= Rank[c]
  BY <1>4, FirstLast
<1>6. \A c \in Artifacts : Rank[c] \in Nat BY DEF Artifacts, Rank
<1> QED BY <1>3, <1>5, <1>6 DEF BootOpen

(* The rollback that removes artifacts has removed all after the next, for *)
(* what it retains comes before.                                           *)
LEMMA UndoingNext ==
  ASSUME FilesInvariant, NEW b \in Bootstraps, NEW a \in boot[b].remove, Undoing(b, a), PlanCurrent(b)
  PROVE /\ a \in Artifacts /\ boot[b].phase = "undoing"
        /\ \A c \in Artifacts : Rank[c] > Rank[a] => c \notin Present(ThreadOf[b])
<1>1. boot[b].undone \in SUBSET Artifacts /\ boot[b].remove \in SUBSET Artifacts
      /\ boot[b].retain \in SUBSET Artifacts
  BY DEF FilesInvariant, FilesTypeOK, BootRecords
<1>2. call.job = "bootstrap" /\ call.op = b /\ call.at = "undo" BY DEF Undoing, Step, Job
<1>3. boot[b].phase = "undoing" BY <1>2 DEF FilesInvariant, CallFacts
<1>4. \A c \in boot[b].retain : Rank[c] < Rank[a]
  BY <1>3 DEF FilesInvariant, DurableFacts, PlanFact
<1>5. Artifacts \ boot[b].undone # {} /\ a = Last(Artifacts \ boot[b].undone) BY <1>1 DEF Undoing
<1>6. \A c \in Artifacts \ boot[b].undone : Rank[a] >= Rank[c] BY <1>5, FirstLast
<1>7. \A c \in Artifacts : Rank[c] \in Nat BY DEF Artifacts, Rank
<1>8. \A c \in Present(ThreadOf[b]) : c \in boot[b].retain \/ c \notin boot[b].undone
  BY DEF PlanCurrent
<1> QED BY <1>1, <1>3, <1>4, <1>6, <1>7, <1>8

(* What Present stands for.                                                *)
LEMMA PresentIs ==
  ASSUME NEW t \in Threads
  PROVE /\ Present(t) \subseteq Artifacts
        /\ "project" \in Present(t) <=> project
        /\ "snapshot" \in Present(t) <=> snapshot[t] # NoView
        /\ "thread" \in Present(t) <=> catalog[t] # NoView
        /\ "authority" \in Present(t) <=> t \in authority
  BY DEF Present, Artifacts

(* A snapshot without a row in the catalog is of a recorded bootstrap.     *)
LEMMA UnlistedRecorded ==
  ASSUME FilesInvariant, NEW t \in Threads, snapshot[t] # NoView, catalog[t] = NoView
  PROVE \E b \in BootRecorded : ThreadOf[b] = t
<1>1. CatalogClosed /\ PendingFact(t) /\ AgreementFact(t) BY DEF FilesInvariant, DurableFacts
<1>2. ~Pending(t) BY <1>1 DEF PendingFact, CatalogClosed
<1> QED BY <1>1, <1>2 DEF AgreementFact, Unlisted, BootOpen, BootRecorded

(* The catalog stays closed: artifacts come and go in their order.         *)
LEMMA CatalogStep ==
  ASSUME FilesInvariant, [FilesNext]_storeFilesVars
  PROVE CatalogClosed'
<1>0. FilesTypeOK /\ CatalogClosed BY DEF FilesInvariant, DurableFacts
<1>0a. boot \in [Bootstraps -> BootRecords] /\ snapshot \in [Threads -> Views] /\ catalog \in [Threads -> Views]
  BY <1>0 DEF FilesTypeOK
<1>a. ASSUME UNCHANGED files, \A c \in Bootstraps : boot'[c].phase \in {"none", "open", "undoing", "retired", boot[c].phase}
      PROVE CatalogClosed'
  BY <1>0, <1>a DEF CatalogClosed, Committed
<1>b. ASSUME NEW b \in Bootstraps, NEW r, boot' = [boot EXCEPT ![b] = r]
      PROVE boot'[b] = r /\ \A c \in Bootstraps \ {b} : boot'[c] = boot[c]
  BY <1>0a, <1>b
<1>1. ASSUME NEW b \in Bootstraps,
             \/ RecordPrepared(b) \/ Reactivate(b) \/ Claim(b) \/ Advance(b)
             \/ AdvanceRollback(b) \/ PlanRollback(b) \/ RetireRollback(b)
      PROVE CatalogClosed'
  <2>1. UNCHANGED files
    BY <1>1 DEF RecordPrepared, Reactivate, Claim, Advance, AdvanceRollback, PlanRollback, RetireRollback
  <2>2. CASE RecordPrepared(b) \/ Reactivate(b)
    <3>1. boot'[b] = Opened(ThreadOf[b]) /\ \A c \in Bootstraps \ {b} : boot'[c] = boot[c]
      BY <2>2, <1>b DEF RecordPrepared, Reactivate
    <3> QED BY <2>1, <3>1, <1>a DEF Opened, NoRecord
  <2>3. CASE Claim(b) \/ Advance(b) \/ AdvanceRollback(b)
    <3>1. boot'[b].phase = boot[b].phase /\ \A c \in Bootstraps \ {b} : boot'[c] = boot[c]
      BY <2>3, <1>0a DEF Claim, Advance, AdvanceRollback, BootRecords
    <3> QED BY <2>1, <3>1, <1>a
  <2>4. CASE PlanRollback(b) \/ RetireRollback(b)
    <3>1. /\ boot'[b].phase \in {boot[b].phase, "undoing", "retired"}
          /\ \A c \in Bootstraps \ {b} : boot'[c] = boot[c]
      <4>1. \A c \in Bootstraps \ {b} : boot'[c] = boot[c] BY <1>0, <2>4, OneRecord
      <4>2. PlanRollback(b) => boot'[b].phase \in {boot[b].phase, "undoing"} BY <1>0, PlannedIs
      <4>3. RetireRollback(b) => boot'[b].phase \in {boot[b].phase, "retired"}
        BY <1>0a DEF RetireRollback, BootRecords
      <4> QED BY <2>4, <4>1, <4>2, <4>3
    <3> QED BY <2>1, <3>1, <1>a
  <2> QED BY <1>1, <2>2, <2>3, <2>4
<1>3. CASE ReleaseReservation
  <2>1. UNCHANGED files /\ \A b \in Bootstraps : boot'[b].phase = boot[b].phase
    BY <1>0a, <1>3 DEF BootRecords, ReleaseReservation
  <2> QED BY <2>1, <1>a
<1>4. CASE CompactBootstrap
  <2>1. UNCHANGED files /\ \A b \in Bootstraps : boot'[b].phase \in {"none", boot[b].phase}
    BY <1>0a, <1>4 DEF CompactBootstrap, NoRecord
  <2> QED BY <2>1, <1>a
<1>5. ASSUME NEW b \in Bootstraps, CommitBootstrap(b) PROVE CatalogClosed'
  <2>1. UNCHANGED files /\ \A c \in Bootstraps \ {b} : boot'[c] = boot[c]
    BY <1>0a, <1>5 DEF CommitBootstrap
  <2>2. ThreadOf[b] \in authority
    <3>1. "authority" \in boot[b].placed BY <1>5 DEF CommitBootstrap, Artifacts
    <3>2. boot[b].placed \subseteq Present(ThreadOf[b])
      BY <1>5 DEF CommitBootstrap, Step, Job, FilesInvariant, CallFacts
    <3> QED BY <3>1, <3>2, PresentIs
  <2> QED BY <1>0, <2>1, <2>2 DEF CatalogClosed, Committed
<1>6. ASSUME NEW b \in Bootstraps, Place(b) PROVE CatalogClosed'
  <2> DEFINE t == ThreadOf[b]
  <2>1. PICK a \in Artifacts : Placing(b, a) /\ Write(t, a) BY <1>6 DEF Place
  <2>2. \A c \in Artifacts : Rank[c] < Rank[a] => c \in Present(t) BY <2>1, PlacingNext
  <2>3. UNCHANGED boot /\ t \in Threads BY <1>6 DEF Place
  <2>4. NoView # Initial BY DEF NoView, Initial, Shows
  <2>5. CASE a = "project"
    BY <1>0, <2>1, <2>3, <2>5 DEF Write, CatalogClosed, Committed
  <2>6. CASE a = "snapshot"
    <3>1. project BY <2>2, <2>3, <2>6, PresentIs DEF Rank, Artifacts
    <3> QED BY <1>0, <2>1, <2>3, <2>4, <2>6, <3>1 DEF Write, CatalogClosed, Committed, FilesTypeOK
  <2>7. CASE a = "thread"
    <3>1. snapshot[t] # NoView BY <2>2, <2>3, <2>7, PresentIs DEF Rank, Artifacts
    <3> QED BY <1>0, <2>1, <2>3, <2>4, <2>7, <3>1 DEF Write, CatalogClosed, Committed, FilesTypeOK
  <2>8. CASE a = "authority"
    <3>1. catalog[t] # NoView BY <2>2, <2>3, <2>8, PresentIs DEF Rank, Artifacts
    <3> QED BY <1>0, <2>1, <2>3, <2>8, <3>1 DEF Write, CatalogClosed, Committed
  <2> QED BY <2>5, <2>6, <2>7, <2>8 DEF Artifacts
<1>7. ASSUME NEW b \in Bootstraps, RemoveArtifact(b) PROVE CatalogClosed'
  <2> DEFINE t == ThreadOf[b]
  <2>0. UNCHANGED boot /\ t \in Threads BY <1>7 DEF RemoveArtifact
  <2>1. PICK a \in boot[b].remove \cap Present(t) :
          Undoing(b, a) /\ ((PlanCurrent(b) /\ Remove(t, a)) \/ UNCHANGED files)
    BY <1>7 DEF RemoveArtifact
  <2>2. CASE UNCHANGED files BY <2>0, <2>2, <1>a
  <2>3. CASE PlanCurrent(b) /\ Remove(t, a)
    <3>1. a \in Artifacts /\ boot[b].phase = "undoing"
          /\ \A c \in Artifacts : Rank[c] > Rank[a] => c \notin Present(t)
      BY <2>1, <2>3, UndoingNext
    <3>2. CASE a = "authority"
      <4>1. ~OtherBootstrapOf(b, t) BY <2>1, <2>3, <3>2 DEF PlanCurrent
      <4>2. \A c \in Bootstraps : Committed(c) => ThreadOf[c] # t
        BY <3>1, <4>1 DEF OtherBootstrapOf, BootRecorded, Committed
      <4> QED BY <1>0, <2>0, <2>3, <3>2, <4>2 DEF Remove, CatalogClosed, Committed
    <3>3. CASE a = "thread"
      <4>1. t \notin authority BY <2>0, <3>1, <3>3, PresentIs DEF Rank, Artifacts
      <4> QED BY <1>0, <2>0, <2>3, <3>3, <4>1 DEF Remove, CatalogClosed, Committed, FilesTypeOK
    <3>4. CASE a = "snapshot"
      <4>1. catalog[t] = NoView BY <2>0, <3>1, <3>4, PresentIs DEF Rank, Artifacts
      <4> QED BY <1>0, <2>0, <2>3, <3>4, <4>1 DEF Remove, CatalogClosed, Committed, FilesTypeOK
    <3>5. CASE a = "project"
      <4>1. snapshot[t] = NoView BY <2>0, <3>1, <3>5, PresentIs DEF Rank, Artifacts
      <4>2. ~ProjectReferenced(b) BY <2>1, <2>3, <3>5 DEF PlanCurrent
      <4>3. \A u \in Threads : snapshot[u] = NoView
        BY <4>1, <4>2, UnlistedRecorded DEF ProjectReferenced
      <4> QED BY <1>0, <2>0, <2>3, <3>5, <4>3 DEF Remove, CatalogClosed, Committed
    <3> QED BY <3>1, <3>2, <3>3, <3>4, <3>5 DEF Artifacts
  <2> QED BY <2>1, <2>2, <2>3
<1>8. ASSUME NEW o \in LifecycleOps, WriteSnapshot(o) \/ WriteCatalog(o) PROVE CatalogClosed'
  <2> DEFINE t == ThreadOf[o]
  <2>1. call.op = o /\ call.job \in {"publish", "end"} /\ call.at \in {"snapshot", "catalog"}
    BY <1>8 DEF WriteSnapshot, WriteCatalog, Publishing, Step, Job
  <2>2. Pending(t) /\ t \in Threads BY <2>1 DEF FilesInvariant, CallFacts
  <2>3. PendingFact(t) BY <2>2 DEF FilesInvariant, DurableFacts
  <2>4. wal[t].view # NoView BY <2>2, <2>3 DEF PendingFact, NoView, Shows
  <2>5. snapshot[t] # NoView /\ catalog[t] # NoView /\ project
    BY <1>0, <2>2, <2>3 DEF PendingFact, CatalogClosed
  <2>6. \A u \in Threads \ {t} : wal[t].rows[u] = catalog[u]
    BY <2>2, <2>3 DEF PendingFact
  <2>7. wal[t].rows[t] = wal[t].view BY <2>2, <2>3 DEF PendingFact
  <2>8. CASE WriteSnapshot(o)
    BY <1>0, <2>2, <2>4, <2>5, <2>8 DEF WriteSnapshot, CatalogClosed, Committed, FilesTypeOK
  <2>9. CASE WriteCatalog(o)
    <3>1. catalog' = wal[t].rows /\ UNCHANGED <<project, snapshot, authority, boot>>
      BY <2>9 DEF WriteCatalog
    <3>2. \A u \in Threads : catalog'[u] # NoView <=> catalog[u] # NoView
      BY <2>4, <2>5, <2>6, <2>7, <3>1
    <3>3. authority \subseteq Threads BY <1>0 DEF FilesTypeOK
    <3> QED BY <1>0, <3>1, <3>2, <3>3 DEF CatalogClosed, Committed
  <2> QED BY <1>8, <2>8, <2>9
<1>9. CASE UNCHANGED <<files, boot>> BY <1>9, <1>a
<1> QED BY <1>1, <1>3, <1>4, <1>5, <1>6, <1>7, <1>8, <1>9, Writes DEF Written, FileWrite

-----------------------------------------------------------------------------
(* Rollback plans, authorities and the targets of ends.                    *)

(* A plan is fixed with what it removes after what it retains.             *)
LEMMA PlanStep ==
  ASSUME FilesInvariant, [FilesNext]_storeFilesVars, NEW b \in Bootstraps
  PROVE PlanFact(b)'
<1>0. FilesTypeOK /\ boot \in [Bootstraps -> BootRecords] /\ PlanFact(b)
  BY DEF FilesInvariant, FilesTypeOK, DurableFacts
<1>a. ASSUME \/ boot'[b].phase # "undoing"
             \/ /\ boot'[b].phase = boot[b].phase
                /\ boot'[b].remove = boot[b].remove /\ boot'[b].retain = boot[b].retain
      PROVE PlanFact(b)'
  BY <1>0, <1>a DEF PlanFact
<1>1. CASE UNCHANGED boot BY <1>1, <1>a
<1>2. ASSUME NEW c \in Bootstraps, PlanRollback(c) PROVE PlanFact(b)'
  <2>1. CASE b # c
    <3>1. boot'[b] = boot[b] BY <1>0, <1>2, <2>1 DEF PlanRollback
    <3> QED BY <3>1, <1>a
  <2>2. CASE b = c /\ UNCHANGED boot BY <2>2, <1>a
  <2>3. CASE b = c /\ ~UNCHANGED boot
    <3> DEFINE t == ThreadOf[b]
    <3>1. /\ boot'[b].remove = Removable(b)
          /\ boot'[b].retain = Present(t) \ Removable(b)
      BY <1>0, <1>2, <2>3, PlannedIs
    <3>2. \A a \in Artifacts : Rank[a] \in Nat BY DEF Artifacts, Rank
    <3>3. \A a, d \in Artifacts : Rank[a] = Rank[d] => a = d BY DEF Artifacts, Rank
    <3>4. Present(t) \subseteq Artifacts BY DEF Present
    <3>5. Removable(b) \subseteq Present(t) BY DEF Removable, Owned
    <3>6. ASSUME NEW a \in Removable(b), NEW d \in Present(t) \ Removable(b), Rank[d] > Rank[a] PROVE FALSE
      <4>1. \A e \in Present(t) : Rank[e] > Rank[d] => Rank[e] > Rank[a]
        BY <3>2, <3>4, <3>5, <3>6
      <4> QED BY <3>6, <4>1 DEF Removable
    <3> QED BY <3>1, <3>2, <3>3, <3>4, <3>5, <3>6 DEF PlanFact
  <2> QED BY <2>1, <2>2, <2>3
<1>3. ASSUME NEW c \in Bootstraps,
             RecordPrepared(c) \/ Reactivate(c) \/ Claim(c) \/ Advance(c) \/ CommitBootstrap(c)
             \/ AdvanceRollback(c) \/ RetireRollback(c)
      PROVE PlanFact(b)'
  <2>1. CASE b # c
    <3>1. boot'[b] = boot[b]
      BY <1>0, <1>3, <2>1 DEF RecordPrepared, Reactivate, Claim, Advance, CommitBootstrap, AdvanceRollback, RetireRollback
    <3> QED BY <3>1, <1>a
  <2>2. CASE b = c /\ (RecordPrepared(c) \/ Reactivate(c))
    <3>1. boot'[b] = Opened(ThreadOf[b]) BY <1>0, <2>2 DEF RecordPrepared, Reactivate
    <3> QED BY <3>1, <1>a DEF Opened, NoRecord
  <2>3. CASE b = c /\ (Claim(c) \/ Advance(c) \/ AdvanceRollback(c))
    <3>1. /\ boot'[b].phase = boot[b].phase
          /\ boot'[b].remove = boot[b].remove /\ boot'[b].retain = boot[b].retain
      BY <1>0, <2>3 DEF Claim, Advance, AdvanceRollback, BootRecords
    <3> QED BY <3>1, <1>a
  <2>4. CASE b = c /\ (CommitBootstrap(c) \/ RetireRollback(c))
    <3>1. boot' = boot \/ boot'[b].phase \in {"committed", "retired"}
      BY <1>0, <2>4 DEF CommitBootstrap, RetireRollback, BootRecords
    <3> QED BY <3>1, <1>a
  <2> QED BY <1>3, <2>1, <2>2, <2>3, <2>4
<1>4. CASE ReleaseReservation
  <2>1. /\ boot'[b].phase = boot[b].phase
        /\ boot'[b].remove = boot[b].remove /\ boot'[b].retain = boot[b].retain
    BY <1>0, <1>4 DEF ReleaseReservation, BootRecords
  <2> QED BY <2>1, <1>a
<1>5. CASE CompactBootstrap
  <2>1. boot'[b] = boot[b] \/ boot'[b].phase = "none" BY <1>0, <1>5 DEF CompactBootstrap, NoRecord
  <2> QED BY <2>1, <1>a
<1>6. ASSUME NEW c \in Bootstraps, Place(c) \/ RemoveArtifact(c) PROVE UNCHANGED boot
  BY <1>6 DEF Place, RemoveArtifact
<1>7. ASSUME NEW o \in LifecycleOps, WriteSnapshot(o) \/ WriteCatalog(o) PROVE UNCHANGED boot
  BY <1>7 DEF WriteSnapshot, WriteCatalog
<1> QED BY <1>1, <1>2, <1>3, <1>4, <1>5, <1>6, <1>7, Writes DEF Written, FileWrite

(* An authority goes only with a bootstrap that nothing resident is on.    *)
LEMMA AuthorityRemoved ==
  ASSUME FilesInvariant, [FilesNext]_storeFilesVars, NEW t \in authority, t \notin authority'
  PROVE NoResidentState(t) /\ AnyBootOpen /\ UNCHANGED <<residentVars, projectionVars>>
<1>1. ASSUME NEW b \in Bootstraps, RemoveArtifact(b) PROVE NoResidentState(t) /\ AnyBootOpen
  <2>1. PICK a \in boot[b].remove \cap Present(ThreadOf[b]) : Undoing(b, a) /\ PlanCurrent(b) /\ Remove(ThreadOf[b], a)
    BY <1>1 DEF RemoveArtifact
  <2>2. t = ThreadOf[b] BY <2>1 DEF Remove
  <2>3. boot[b].phase = "undoing" BY <2>1, UndoingNext
  <2> QED BY <2>1, <2>2, <2>3 DEF PlanCurrent, AnyBootOpen, BootOpen
<1>2. ASSUME FileWrite, \A b \in Bootstraps : ~RemoveArtifact(b) PROVE authority \subseteq authority'
  <2>1. ASSUME NEW b \in Bootstraps, Place(b) PROVE authority \subseteq authority'
    BY <2>1 DEF Place, Write
  <2>2. ASSUME NEW b \in Bootstraps,
               \/ RecordPrepared(b) \/ Reactivate(b) \/ Claim(b) \/ Advance(b) \/ CommitBootstrap(b)
               \/ PlanRollback(b) \/ AdvanceRollback(b) \/ RetireRollback(b)
        PROVE UNCHANGED authority
    BY <2>2 DEF RecordPrepared, Reactivate, Claim, Advance, CommitBootstrap, PlanRollback, AdvanceRollback, RetireRollback
  <2>3. ASSUME NEW o \in LifecycleOps, WriteSnapshot(o) \/ WriteCatalog(o) PROVE UNCHANGED authority
    BY <2>3 DEF WriteSnapshot, WriteCatalog
  <2>4. ReleaseReservation \/ CompactBootstrap => UNCHANGED authority BY DEF ReleaseReservation, CompactBootstrap
  <2> QED BY <1>2, <2>1, <2>2, <2>3, <2>4 DEF FileWrite
<1> QED BY <1>1, <1>2, Writes DEF Written

LEMMA AuthorityStep ==
  ASSUME FilesInvariant, [FilesNext]_storeFilesVars
  PROVE AuthorityFacts'
<1>0. AuthorityFacts /\ FilesTypeOK BY DEF FilesInvariant, DurableFacts
<1>1. ASSUME UNCHANGED residentVars PROVE AuthorityFacts'
  <2>1. \A t \in authority : t \in authority' \/ NoResidentState(t) BY AuthorityRemoved
  <2> QED BY <1>0, <1>1, <2>1 DEF AuthorityFacts, NoResidentState, Recorded, OnThread, residentVars
<1>2. ASSUME UNCHANGED files,
             \A o \in LifecycleOps : Recorded(o)' => Recorded(o) \/ ThreadOf[o] \in authority,
             \A p \in Provisions : bind'[p] # "none" => ThreadOf[p] \in authority
      PROVE AuthorityFacts'
  BY <1>0, <1>2 DEF AuthorityFacts
<1>3. ASSUME NEW b \in Bootstraps, PrepareReserved(b, Retirable # {}) PROVE AuthorityFacts'
  <2>1. ThreadOf[b] \in authority /\ Registered(b)
    <3>1. call.job = "bootstrap" /\ call.op = b /\ call.at = "lifecycle" /\ LifecycleDue(b)
      BY <1>3 DEF PrepareReserved, Step, Job
    <3>2. Committed(b) BY <3>1 DEF FilesInvariant, CallFacts, LifecycleDue
    <3> QED BY <3>1, <3>2 DEF LifecycleDue, FilesInvariant, DurableFacts, CatalogClosed
  <2>2. \A o \in LifecycleOps : life'[o] = life[o] \/ o = Reserves[b] BY <1>0, <1>3 DEF PrepareReserved, FilesTypeOK
  <2>3. ThreadOf[Reserves[b]] \in authority BY <2>1 DEF Registered
  <2>4. UNCHANGED files /\ UNCHANGED bind BY <1>3 DEF PrepareReserved
  <2> QED BY <1>0, <1>2, <2>2, <2>3, <2>4 DEF Recorded, AuthorityFacts
<1>4. ASSUME NEW p \in Provisions, RegisterProvision(p, Retirable # {}) PROVE AuthorityFacts'
  <2>1. ThreadOf[p] \in authority BY <1>4 DEF RegisterProvision, Step, Job, FilesInvariant, CallFacts
  <2>2. \A o \in LifecycleOps : life'[o] = life[o] \/ o = p BY <1>0, <1>4 DEF RegisterProvision, FilesTypeOK
  <2>3. UNCHANGED files /\ UNCHANGED bind BY <1>4 DEF RegisterProvision
  <2> QED BY <1>0, <1>2, <2>1, <2>2, <2>3 DEF Recorded, AuthorityFacts
<1>5. ASSUME NEW e \in Ends, PrepareEnd(e) PROVE AuthorityFacts'
  <2>1. PICK p \in Provisions : /\ ThreadOf[p] = ThreadOf[e] /\ bind[p] = "active"
                                /\ life' = [life EXCEPT ![e] = "ending"] /\ bind' = [bind EXCEPT ![p] = "detached"]
    BY <1>5 DEF PrepareEnd, OnThread
  <2>2. ThreadOf[e] \in authority BY <1>0, <2>1 DEF AuthorityFacts
  <2>3. \A q \in Provisions : bind'[q] # "none" => bind[q] # "none" BY <1>0, <2>1 DEF FilesTypeOK
  <2>4. \A o \in LifecycleOps : life'[o] = life[o] \/ o = e BY <1>0, <2>1 DEF FilesTypeOK
  <2>5. UNCHANGED files BY <1>5 DEF PrepareEnd
  <2> QED BY <1>0, <1>2, <2>2, <2>3, <2>4, <2>5 DEF Recorded, AuthorityFacts
<1>6. ASSUME \A o \in LifecycleOps : Recorded(o)' => Recorded(o),
             \A p \in Provisions : bind'[p] # "none" => bind[p] # "none" \/ Recorded(p),
             UNCHANGED files
      PROVE AuthorityFacts'
  BY <1>0, <1>2, <1>6 DEF AuthorityFacts
<1>7. ASSUME NEW p \in Provisions,
             FailCreate(p) \/ ObservePromotion(p) \/ CommitProvision(p) \/ PublishSame(p) \/ WriteProof(p)
      PROVE AuthorityFacts'
  <2>1. Recorded(p)
    BY <1>7 DEF FailCreate, ObservePromotion, CommitProvision, PublishSame, Leased, WriteProof, Step, Job, Recorded,
       FilesInvariant, CallFacts
  <2>2. \A o \in LifecycleOps : life'[o] = life[o] \/ o = p
    BY <1>0, <1>7 DEF FilesTypeOK, FailCreate, ObservePromotion, CommitProvision, PublishSame, WriteProof
  <2>3. \A q \in Provisions : bind'[q] = bind[q] \/ q = p
    BY <1>0, <1>7 DEF FilesTypeOK, FailCreate, ObservePromotion, CommitProvision, PublishSame, WriteProof
  <2>4. UNCHANGED files BY <1>7 DEF FailCreate, ObservePromotion, CommitProvision, PublishSame, WriteProof
  <2> QED BY <1>6, <2>1, <2>2, <2>3, <2>4 DEF Recorded
<1>8. ASSUME NEW e \in Ends, AcknowledgeEnd(e) PROVE AuthorityFacts'
  <2>1. \A o \in LifecycleOps : Recorded(o)' => Recorded(o)
    BY <1>0, <1>8 DEF AcknowledgeEnd, Recorded, FilesTypeOK
  <2> QED BY <1>6, <1>8, <2>1 DEF AcknowledgeEnd
<1>9. ASSUME NEW e \in Ends, CompleteEnd(e) PROVE AuthorityFacts'
  <2>1. Recorded(e) /\ target[e] # NoOp /\ ThreadOf[target[e]] = ThreadOf[e]
    BY <1>9 DEF CompleteEnd, Step, Job, FilesInvariant, CallFacts, DurableFacts, TargetFacts
  <2>2. ThreadOf[e] \in authority BY <1>0, <2>1 DEF AuthorityFacts
  <2>3. \A o \in LifecycleOps : life'[o] = life[o] \/ o = e BY <1>0, <1>9 DEF FilesTypeOK, CompleteEnd
  <2>4. \A q \in Provisions : bind'[q] = bind[q] \/ q = target[e] BY <1>0, <1>9 DEF FilesTypeOK, CompleteEnd
  <2>5. UNCHANGED files BY <1>9 DEF CompleteEnd
  <2> QED BY <1>0, <1>2, <2>1, <2>2, <2>3, <2>4, <2>5 DEF Recorded, AuthorityFacts
<1>10. CASE BeginRetirement \/ RemoveMarker BY <1>1, <1>6, <1>10 DEF BeginRetirement, RemoveMarker, Recorded
<1>11. CASE RemoveBinding \/ RemoveOperation
  <2>1. \A o \in LifecycleOps : Recorded(o)' => Recorded(o)
    BY <1>0, <1>11 DEF RemoveBinding, RemoveOperation, FilesTypeOK, Recorded
  <2>2. \A p \in Provisions : bind'[p] # "none" => bind[p] # "none"
    BY <1>0, <1>11 DEF RemoveBinding, RemoveOperation, FilesTypeOK
  <2>3. UNCHANGED files BY <1>11 DEF RemoveBinding, RemoveOperation
  <2> QED BY <1>6, <2>1, <2>2, <2>3
<1> QED BY <1>1, <1>3, <1>4, <1>5, <1>7, <1>8, <1>9, <1>10, <1>11, Writes DEF Written, ResidentWrite

(* An end's record names its session until its retirement is over.         *)
LEMMA TargetStep ==
  ASSUME FilesInvariant, [FilesNext]_storeFilesVars
  PROVE TargetFacts'
<1>0. TargetFacts /\ FilesTypeOK BY DEF FilesInvariant, DurableFacts
<1>1. ASSUME UNCHANGED target, \A e \in Ends : Recorded(e)' => Recorded(e), marker' \in {marker, NoOp}
      PROVE TargetFacts'
  BY <1>0, <1>1 DEF TargetFacts
<1>2. CASE UNCHANGED residentVars BY <1>1, <1>2 DEF residentVars, Recorded
<1>3. ASSUME NEW e \in Ends, PrepareEnd(e) PROVE TargetFacts'
  <2>1. PICK p \in Provisions : /\ ThreadOf[p] = ThreadOf[e]
                                /\ life' = [life EXCEPT ![e] = "ending"] /\ target' = [target EXCEPT ![e] = p]
    BY <1>3 DEF PrepareEnd, OnThread
  <2>2. UNCHANGED marker BY <1>3 DEF PrepareEnd
  <2>3. target'[e] = p /\ p # NoOp BY <1>0, <2>1 DEF FilesTypeOK
  <2>4. \A d \in Ends \ {e} : target'[d] = target[d] /\ life'[d] = life[d] BY <1>0, <2>1 DEF FilesTypeOK
  <2> QED BY <1>0, <2>1, <2>2, <2>3, <2>4 DEF TargetFacts, Recorded
<1>4. CASE BeginRetirement
  <2>1. PICK h \in Retirable : marker' \in {marker, h} BY <1>4 DEF BeginRetirement
  <2>2. h \in Ends => Recorded(h) BY <2>1 DEF Retirable, TerminalHead, Recorded
  <2>3. UNCHANGED <<life, target>> BY <1>4 DEF BeginRetirement
  <2> QED BY <1>0, <2>1, <2>2, <2>3 DEF TargetFacts, Recorded
<1>5. CASE RemoveMarker
  <2>1. marker' = NoOp /\ UNCHANGED life BY <1>5 DEF RemoveMarker
  <2>2. \A e \in Ends : target'[e] = IF e = marker THEN NoOp ELSE target[e] BY <1>5 DEF RemoveMarker
  <2>3. ~Recorded(marker) BY <1>5 DEF RemoveMarker, FilesInvariant, RetiringFacts
  <2> QED BY <1>0, <2>1, <2>2, <2>3 DEF TargetFacts, Recorded
<1>6. CASE RemoveBinding \/ RemoveOperation
  <2>1. UNCHANGED <<target, marker>> /\ \A o \in LifecycleOps : Recorded(o)' => Recorded(o)
    BY <1>0, <1>6 DEF RemoveBinding, RemoveOperation, FilesTypeOK, Recorded
  <2> QED BY <1>1, <2>1
<1>7. ASSUME NEW e \in Ends, AcknowledgeEnd(e) \/ CompleteEnd(e) PROVE TargetFacts'
  <2>1. Recorded(e) BY <1>7 DEF AcknowledgeEnd, CompleteEnd, Step, Job, FilesInvariant, CallFacts, Recorded
  <2>2. UNCHANGED <<target, marker>> /\ \A d \in Ends \ {e} : life'[d] = life[d]
    BY <1>0, <1>7 DEF AcknowledgeEnd, CompleteEnd, FilesTypeOK
  <2> QED BY <1>1, <2>1, <2>2 DEF Recorded
<1>8. ASSUME NEW p \in Provisions,
             \/ RegisterProvision(p, Retirable # {}) \/ FailCreate(p) \/ ObservePromotion(p)
             \/ CommitProvision(p) \/ PublishSame(p) \/ WriteProof(p)
      PROVE TargetFacts'
  <2>1. UNCHANGED <<target, marker>> /\ \A e \in Ends : life'[e] = life[e]
    BY <1>0, <1>8 DEF RegisterProvision, FailCreate, ObservePromotion, CommitProvision, PublishSame, WriteProof, FilesTypeOK
  <2> QED BY <1>1, <2>1 DEF Recorded
<1>9. ASSUME NEW b \in Bootstraps, PrepareReserved(b, Retirable # {}) PROVE TargetFacts'
  <2>1. UNCHANGED <<target, marker>> /\ \A e \in Ends : life'[e] = life[e]
    BY <1>0, <1>9 DEF PrepareReserved, FilesTypeOK, LifecycleDue, Registered
  <2> QED BY <1>1, <2>1 DEF Recorded
<1> QED BY <1>2, <1>3, <1>4, <1>5, <1>6, <1>7, <1>8, <1>9, Writes DEF Written, ResidentWrite

-----------------------------------------------------------------------------
(* Pending publications.                                                   *)

(* A publication is prepared by a serving or recovering Store that has     *)
(* neither an open bootstrap nor another publication.                      *)
LEMMA PreparedAlone ==
  ASSUME FilesInvariant, NEW o \in LifecycleOps,
         \/ o \in Provisions /\ \E c \in Cursors : PreparePublication(o, c)
         \/ o \in Ends /\ PrepareEndProjection(o)
  PROVE ~AnyPending /\ ~AnyBootOpen /\ ThreadOf[o] \in authority /\ (o \in Ends => Recorded(o))
<1>1. CASE o \in Provisions /\ \E c \in Cursors : PreparePublication(o, c)
  <2>1. mode = "up" /\ call = Idle /\ bind[o] # "none" BY <1>1 DEF PreparePublication, Ready, Projecting, Leased
  <2> QED BY <1>1, <2>1 DEF FilesInvariant, ModeFacts, Idle, DurableFacts, AuthorityFacts
<1>2. CASE o \in Ends /\ PrepareEndProjection(o)
  <2>1. call.job = "end" /\ call.op = o /\ call.at = "project" BY <1>2 DEF PrepareEndProjection, Step, Job
  <2>2. mode \in {"after", "up"} /\ ~AnyPending /\ Recorded(o) BY <2>1 DEF FilesInvariant, CallFacts
  <2>3. ~AnyBootOpen BY <2>1, <2>2 DEF FilesInvariant, ModeFacts
  <2> QED BY <1>2, <2>2, <2>3 DEF FilesInvariant, DurableFacts, AuthorityFacts
<1> QED BY <1>1, <1>2

(* What PreparePublication and PrepareEndProjection put in the file.       *)
LEMMA PreparedIs ==
  ASSUME FilesInvariant, NEW o \in LifecycleOps,
         \/ o \in Provisions /\ \E c \in Cursors : PreparePublication(o, c)
         \/ o \in Ends /\ PrepareEndProjection(o)
  PROVE /\ UNCHANGED <<files, boot, residentVars, lineage>>
        /\ \A t \in Threads \ {ThreadOf[o]} : wal'[t] = wal[t]
        /\ \/ wal' = wal /\ o \in Ends /\ call' # Job("end", o, "check")
           \/ LET tx == wal'[ThreadOf[o]] IN
              /\ tx # NoTx /\ tx.op = o
              /\ tx.view.st = IF o \in Provisions THEN "live" ELSE "ended"
              /\ o \in Provisions => tx.view = Live(o, tx.next.at)
              /\ tx.rows = [catalog EXCEPT ![ThreadOf[o]] = tx.view]
<1> DEFINE t == ThreadOf[o]
<1>0. wal \in [Threads -> Transactions \cup {NoTx}] /\ t \in Threads BY DEF FilesInvariant, FilesTypeOK
<1>1. CASE o \in Provisions /\ \E c \in Cursors : PreparePublication(o, c)
  <2>1. PICK c \in Cursors : PreparePublication(o, c) BY <1>1
  <2> DEFINE tx == [op |-> o, lease |-> Leased(o), view |-> Live(o, c), source |-> snapshot[t],
                    prev |-> lineage[o], next |-> Extend(lineage[o], c),
                    rows |-> [catalog EXCEPT ![t] = Live(o, c)]]
  <2>2. wal' = [wal EXCEPT ![t] = tx] BY <2>1 DEF PreparePublication
  <2>3. tx.op = o /\ tx.view = Live(o, c) /\ tx.view.st = "live" /\ tx.next.at = c
        /\ tx.rows = [catalog EXCEPT ![t] = Live(o, c)]
    BY DEF Live, Shows, Extend
  <2>4. tx # NoTx BY <2>3
  <2> HIDE DEF tx
  <2>5. wal'[t] = tx /\ \A u \in Threads \ {t} : wal'[u] = wal[u] BY <1>0, <2>2
  <2>6. UNCHANGED <<files, boot, residentVars, lineage>> BY <2>1 DEF PreparePublication, residentVars
  <2> QED BY <1>1, <2>3, <2>4, <2>5, <2>6
<1>2. CASE o \in Ends /\ PrepareEndProjection(o)
  <2>1. UNCHANGED <<files, boot, residentVars, lineage>> BY <1>2 DEF PrepareEndProjection, residentVars
  <2>2. CASE call' # Job("end", o, "check")
    <3>1. UNCHANGED wal BY <1>2, <2>2 DEF PrepareEndProjection
    <3> QED BY <1>2, <2>1, <2>2, <3>1
  <2>3. CASE call' = Job("end", o, "check")
    <3> DEFINE s == snapshot[t]
               tx == [op |-> o, lease |-> FALSE, view |-> Ended(o, s.at), source |-> s,
                      prev |-> NoLineage, next |-> NoLineage,
                      rows |-> [catalog EXCEPT ![t] = Ended(o, s.at)]]
    <3>1. wal' = [wal EXCEPT ![t] = tx] BY <1>2, <2>3 DEF PrepareEndProjection, Job, Idle
    <3>2. tx.op = o /\ tx.view = Ended(o, s.at) /\ tx.view.st = "ended" /\ tx.rows = [catalog EXCEPT ![t] = Ended(o, s.at)]
      BY DEF Ended, Shows
    <3>3. tx # NoTx BY <3>2
    <3> HIDE DEF tx
    <3>4. wal'[t] = tx /\ \A u \in Threads \ {t} : wal'[u] = wal[u] BY <1>0, <3>1
    <3> QED BY <1>2, <2>1, <3>2, <3>3, <3>4
  <2> QED BY <2>2, <2>3
<1> QED BY <1>1, <1>2

(* What the step that writes a snapshot or the catalog, or that removes    *)
(* the write-ahead file, finds.                                            *)
LEMMA PublishingIs ==
  ASSUME FilesInvariant, NEW o \in LifecycleOps,
         WriteSnapshot(o) \/ WriteCatalog(o) \/ RemoveWal(o)
  PROVE LET t == ThreadOf[o] IN
        /\ t \in Threads /\ Pending(t) /\ PendingFact(t) /\ wal[t].op = o
        /\ \A u \in Threads \ {t} : ~Pending(u) /\ wal[t].rows[u] = catalog[u]
        /\ call.op = o /\ call.job \in {"publish", "end"}
        /\ call.job = "publish" => lineage[o] = wal[t].next
        /\ ~WriteSnapshot(o) => snapshot[t] = wal[t].view
        /\ RemoveWal(o) => catalog[t] = wal[t].view
<1>1. /\ call.op = o /\ call.job \in {"publish", "end"} /\ call.at \in {"snapshot", "catalog", "wal"}
      /\ ~WriteSnapshot(o) => call.at \in {"catalog", "wal"}
      /\ RemoveWal(o) => call.at = "wal"
  BY DEF WriteSnapshot, WriteCatalog, RemoveWal, Publishing, Step, Job
<1>2. Pending(ThreadOf[o]) /\ wal[ThreadOf[o]].op = o BY <1>1 DEF FilesInvariant, CallFacts
<1>3. PendingFact(ThreadOf[o]) BY DEF FilesInvariant, DurableFacts
<1> QED BY <1>1, <1>2, <1>3 DEF FilesInvariant, CallFacts, PendingFact

(* An open bootstrap and a pending publication exclude each other.         *)
LEMMA OpenPendingStep ==
  ASSUME FilesInvariant, [FilesNext]_storeFilesVars
  PROVE AnyBootOpen' => ~AnyPending'
<1>0. (AnyBootOpen => ~AnyPending) /\ FilesTypeOK BY DEF FilesInvariant, DurableFacts
<1>a. ASSUME \A b \in Bootstraps : BootOpen(b)' => BootOpen(b), \A t \in Threads : Pending(t)' => Pending(t)
      PROVE AnyBootOpen' => ~AnyPending'
  BY <1>0, <1>a DEF AnyBootOpen, AnyPending
<1>1. CASE UNCHANGED <<boot, wal>> BY <1>1, <1>a DEF BootOpen, Pending
<1>2. CASE FileWrite /\ UNCHANGED wal
  <2>1. ASSUME NEW b \in Bootstraps, RecordPrepared(b) PROVE ~AnyPending
    <3>1. call.job = "bootstrap" /\ call.op = b /\ call.at = "write" BY <2>1 DEF RecordPrepared, Step, Job
    <3> QED BY <3>1 DEF FilesInvariant, CallFacts
  <2>2. ASSUME NEW b \in Bootstraps, Reactivate(b) PROVE ~AnyPending
    BY <2>2 DEF Reactivate, Ready, FilesInvariant, ModeFacts
  <2>3. ASSUME NEW b \in Bootstraps,
               \/ Claim(b) \/ Place(b) \/ Advance(b) \/ CommitBootstrap(b) \/ PlanRollback(b)
               \/ RemoveArtifact(b) \/ AdvanceRollback(b) \/ RetireRollback(b)
        PROVE \A c \in Bootstraps : BootOpen(c)' => BootOpen(c)
    <3>1. \A c \in Bootstraps \ {b} : boot'[c] = boot[c]
      BY <1>0, <2>3 DEF Claim, Place, Advance, CommitBootstrap, PlanRollback, RemoveArtifact, AdvanceRollback,
         RetireRollback, FilesTypeOK
    <3>2. CASE PlanRollback(b)
      <4>1. boot[b].phase \in {"open", "committed"}
        BY <3>2 DEF PlanRollback, Step, Job, FilesInvariant, CallFacts
      <4>2. BootOpen(b) \/ UNCHANGED boot BY <3>2, <4>1 DEF PlanRollback, Committed, BootOpen
      <4> QED BY <3>1, <4>2 DEF BootOpen
    <3>3. CASE ~PlanRollback(b)
      <4>1. boot[b] \in BootRecords BY <1>0 DEF FilesTypeOK
      <4>2. boot'[b].phase \in {boot[b].phase, "committed", "retired"}
        BY <1>0, <2>3, <3>3, <4>1 DEF Claim, Place, Advance, CommitBootstrap, RemoveArtifact, AdvanceRollback,
           RetireRollback, FilesTypeOK, BootRecords
      <4> QED BY <3>1, <4>2 DEF BootOpen
    <3> QED BY <3>2, <3>3
  <2>4. CASE ReleaseReservation \/ CompactBootstrap
    <3>1. \A c \in Bootstraps : boot'[c].phase \in {"none", boot[c].phase}
      BY <1>0, <2>4 DEF ReleaseReservation, CompactBootstrap, NoRecord, FilesTypeOK, BootRecords
    <3> QED BY <1>2, <3>1, <1>a DEF BootOpen, Pending
  <2>5. ASSUME NEW o \in LifecycleOps, WriteSnapshot(o) \/ WriteCatalog(o) PROVE UNCHANGED boot
    BY <2>5 DEF WriteSnapshot, WriteCatalog
  <2>6. ~AnyPending => ~AnyPending' BY <1>2 DEF AnyPending, Pending
  <2>7. \A t \in Threads : Pending(t)' <=> Pending(t) BY <1>2 DEF Pending
  <2> QED BY <1>2, <1>1, <1>a, <2>1, <2>2, <2>3, <2>4, <2>5, <2>6, <2>7 DEF FileWrite
<1>3. CASE ProjectionWrite /\ UNCHANGED boot
  <2>1. ASSUME NEW o \in LifecycleOps,
               \/ o \in Provisions /\ \E c \in Cursors : PreparePublication(o, c)
               \/ o \in Ends /\ PrepareEndProjection(o)
        PROVE ~AnyBootOpen'
    BY <2>1, <1>3, PreparedAlone DEF AnyBootOpen, BootOpen
  <2>2. ASSUME NEW o \in LifecycleOps, RemoveWal(o) PROVE \A t \in Threads : Pending(t)' => Pending(t)
    BY <2>2, <1>0 DEF RemoveWal, Pending, FilesTypeOK
  <2>3. ASSUME NEW p \in Provisions, WriteLineage(p) PROVE UNCHANGED wal BY <2>3 DEF WriteLineage
  <2>4. RemoveLineage => UNCHANGED wal BY DEF RemoveLineage
  <2>5. \A b \in Bootstraps : BootOpen(b)' <=> BootOpen(b) BY <1>3 DEF BootOpen
  <2> QED BY <1>3, <1>1, <1>a, <2>1, <2>2, <2>3, <2>4, <2>5 DEF ProjectionWrite
<1> QED BY <1>1, <1>2, <1>3, Writes DEF Written

(* A pending publication stays what it was prepared to be.                 *)
LEMMA PendingStep ==
  ASSUME FilesInvariant, [FilesNext]_storeFilesVars, NEW t \in Threads
  PROVE PendingFact(t)'
<1>0. /\ FilesTypeOK /\ PendingFact(t) /\ (AnyBootOpen => ~AnyPending)
      /\ wal \in [Threads -> Transactions \cup {NoTx}]
  BY DEF FilesInvariant, DurableFacts, FilesTypeOK
<1>1. ASSUME UNCHANGED wal, Pending(t), \A u \in Threads \ {t} : catalog'[u] = catalog[u],
             wal[t].op \in Ends => life'[wal[t].op] # "none"
      PROVE PendingFact(t)'
  <2>1. t \in authority BY <1>0, <1>1 DEF PendingFact
  <2>2. t \in authority' BY <1>0, <1>1, <2>1, AuthorityRemoved DEF AnyPending
  <2> QED BY <1>0, <1>1, <2>2 DEF PendingFact, Pending, Recorded
<1>2. CASE ~Pending(t)' BY <1>2 DEF PendingFact
<1>2a. Pending(t) /\ wal[t].op \in Ends => life[wal[t].op] # "none" BY <1>0 DEF PendingFact, Recorded
<1>3. CASE UNCHANGED <<files, wal, residentVars>> BY <1>1, <1>2, <1>2a, <1>3 DEF Pending, residentVars
<1>3a. CASE ResidentWrite /\ UNCHANGED <<files, wal>> /\ Pending(t)
  <2>1. ASSUME NEW e \in Ends, wal[t].op = e PROVE life'[e] # "none"
    <3>1. ThreadOf[e] = t /\ life[e] # "none" BY <1>0, <1>3a, <2>1 DEF PendingFact, Recorded
    <3>2. CASE RemoveOperation
      <4>1. retiring = "terminal" => marker # e
        BY <1>3a, <3>1 DEF FilesInvariant, RetiringFacts
      <4>2. retiring = "predecessor" => target[marker] # e
        <5>1. retiring = "predecessor" => marker \in Ends BY DEF FilesInvariant, RetiringFacts
        <5> QED BY <1>0, <5>1 DEF FilesTypeOK
      <4> QED BY <1>0, <3>1, <3>2, <4>1, <4>2 DEF RemoveOperation, FilesTypeOK
    <3>3. CASE ~RemoveOperation
      <4>1. life \in [LifecycleOps -> {"none"} \cup ProvisionStages \cup EndStages] BY <1>0 DEF FilesTypeOK
      <4> QED BY <1>3a, <3>1, <3>3, <4>1 DEF ResidentWrite, PrepareReserved, RegisterProvision, FailCreate, ObservePromotion,
         CommitProvision, PublishSame, WriteProof, PrepareEnd, AcknowledgeEnd, CompleteEnd, BeginRetirement,
         RemoveBinding, RemoveMarker
    <3> QED BY <3>2, <3>3
  <2> QED BY <1>1, <1>3a, <2>1
<1>4. CASE FileWrite /\ UNCHANGED <<wal, residentVars>> /\ Pending(t)
  <2>1. ASSUME NEW b \in Bootstraps, Place(b) PROVE AnyBootOpen
    BY <2>1, PlacingNext DEF Place, AnyBootOpen
  <2>2. ASSUME NEW b \in Bootstraps, RemoveArtifact(b), ~UNCHANGED files PROVE AnyBootOpen
    <3>1. PICK a \in boot[b].remove : Undoing(b, a) /\ PlanCurrent(b) BY <2>2 DEF RemoveArtifact
    <3>2. boot[b].phase = "undoing" BY <3>1, UndoingNext
    <3> QED BY <3>2 DEF AnyBootOpen, BootOpen
  <2>3. ~AnyBootOpen BY <1>0, <1>4 DEF AnyPending
  <2>4. ASSUME NEW o \in LifecycleOps, WriteSnapshot(o) \/ WriteCatalog(o)
        PROVE \A u \in Threads \ {t} : catalog'[u] = catalog[u]
    <3>1. t = ThreadOf[o] BY <1>4, <2>4, PublishingIs
    <3> QED BY <2>4, <3>1, PublishingIs DEF WriteSnapshot, WriteCatalog
  <2>5. ASSUME NEW b \in Bootstraps,
               \/ RecordPrepared(b) \/ Reactivate(b) \/ Claim(b) \/ Advance(b) \/ CommitBootstrap(b)
               \/ PlanRollback(b) \/ AdvanceRollback(b) \/ RetireRollback(b)
        PROVE UNCHANGED files
    BY <2>5 DEF RecordPrepared, Reactivate, Claim, Advance, CommitBootstrap, PlanRollback, AdvanceRollback, RetireRollback
  <2>6. ReleaseReservation \/ CompactBootstrap => UNCHANGED files BY DEF ReleaseReservation, CompactBootstrap
  <2> QED BY <1>1, <1>2a, <1>3, <1>4, <2>1, <2>2, <2>3, <2>4, <2>5, <2>6 DEF FileWrite, residentVars
<1>5. CASE ProjectionWrite /\ UNCHANGED <<files, residentVars>>
  <2>1. ASSUME NEW o \in LifecycleOps,
               \/ o \in Provisions /\ \E c \in Cursors : PreparePublication(o, c)
               \/ o \in Ends /\ PrepareEndProjection(o)
        PROVE PendingFact(t)'
    <3>1. ~AnyPending /\ ThreadOf[o] \in authority /\ (o \in Ends => life'[o] # "none")
      BY <1>5, <2>1, PreparedAlone DEF Recorded, residentVars
    <3>2. CASE UNCHANGED wal BY <3>2, <1>5, <1>3
    <3>3. CASE ~UNCHANGED wal
      <4> DEFINE tx == wal'[ThreadOf[o]]
      <4>0. /\ \A u \in Threads \ {ThreadOf[o]} : wal'[u] = wal[u]
            /\ tx.op = o /\ tx.view.st = IF o \in Provisions THEN "live" ELSE "ended"
            /\ o \in Provisions => tx.view = Live(o, tx.next.at)
            /\ tx.rows = [catalog EXCEPT ![ThreadOf[o]] = tx.view]
        BY <2>1, <3>3, PreparedIs
      <4> HIDE DEF tx
      <4>1. \A u \in Threads \ {ThreadOf[o]} : ~Pending(u)' BY <3>1, <4>0 DEF Pending, AnyPending
      <4>2. catalog' = catalog /\ catalog \in [Threads -> Views] /\ authority' = authority
        BY <1>0, <1>5 DEF FilesTypeOK
      <4>3. /\ tx.rows[ThreadOf[o]] = tx.view
            /\ \A u \in Threads \ {ThreadOf[o]} : tx.rows[u] = catalog'[u]
        BY <4>0, <4>2, IdentityAssumption
      <4>4. CASE t = ThreadOf[o] BY <3>1, <4>0, <4>1, <4>2, <4>3, <4>4 DEF PendingFact, Recorded, tx
      <4>5. CASE t # ThreadOf[o] BY <4>1, <4>5, <1>2
      <4> QED BY <4>4, <4>5
    <3> QED BY <3>2, <3>3
  <2>2. ASSUME NEW o \in LifecycleOps, RemoveWal(o) PROVE PendingFact(t)'
    <3>1. ThreadOf[o] \in Threads /\ wal' = [wal EXCEPT ![ThreadOf[o]] = NoTx] BY <2>2, PublishingIs DEF RemoveWal
    <3>2. \A u \in Threads : ~Pending(u)'
      BY <1>0, <2>2, <3>1, PublishingIs DEF Pending
    <3> QED BY <3>2, <1>2
  <2>3. ASSUME NEW p \in Provisions, WriteLineage(p) PROVE UNCHANGED wal BY <2>3 DEF WriteLineage
  <2>4. RemoveLineage => UNCHANGED wal BY DEF RemoveLineage
  <2> QED BY <1>3, <1>5, <2>1, <2>2, <2>3, <2>4 DEF ProjectionWrite
<1> QED BY <1>2, <1>3, <1>3a, <1>4, <1>5, Writes DEF Written, Pending

-----------------------------------------------------------------------------
(* The public files agree.                                                 *)

(* A bootstrap that an unlisted snapshot rests on is open, or was rolled   *)
(* back and kept it.                                                       *)
Keeps(b) == BootOpen(b) \/ (boot[b].phase = "retired" /\ "snapshot" \in boot[b].retain)

LEMMA KeepsStep ==
  ASSUME FilesInvariant, FileWrite, NEW b \in Bootstraps, Keeps(b),
         snapshot[ThreadOf[b]] # NoView, catalog[ThreadOf[b]] = NoView
  PROVE Keeps(b)'
<1>0. boot \in [Bootstraps -> BootRecords] /\ FilesTypeOK BY DEF FilesInvariant, FilesTypeOK
<1>1. ASSUME NEW c \in Bootstraps,
             \/ RecordPrepared(c) \/ Reactivate(c) \/ Claim(c) \/ Place(c) \/ Advance(c) \/ CommitBootstrap(c)
             \/ PlanRollback(c) \/ RemoveArtifact(c) \/ AdvanceRollback(c) \/ RetireRollback(c)
      PROVE Keeps(b)'
  <2>1. CASE b # c
    <3>1. boot'[b] = boot[b] BY <1>0, <1>1, <2>1, OneRecord
    <3> QED BY <3>1 DEF Keeps, BootOpen
  <2>2. CASE b = c /\ (RecordPrepared(c) \/ Reactivate(c))
    <3>1. boot'[b] = Opened(ThreadOf[b]) BY <1>0, <2>2 DEF RecordPrepared, Reactivate
    <3>2. boot'[b].phase = "open" BY <3>1 DEF Opened, NoRecord
    <3> QED BY <3>2 DEF Keeps, BootOpen
  <2>3. CASE b = c /\ (Claim(c) \/ Place(c) \/ Advance(c) \/ RemoveArtifact(c) \/ AdvanceRollback(c))
    <3>1. boot'[b].phase = boot[b].phase /\ boot'[b].retain = boot[b].retain
      BY <1>0, <2>3 DEF Claim, Place, Advance, RemoveArtifact, AdvanceRollback, BootRecords
    <3> QED BY <3>1 DEF Keeps, BootOpen
  <2>4. CASE b = c /\ CommitBootstrap(c)
    <3>1. boot[b].placed = Artifacts /\ (UNCHANGED boot \/ Convergent(b)) BY <2>4 DEF CommitBootstrap
    <3>2. Convergent(b) => catalog[ThreadOf[b]] # NoView BY <3>1, PresentIs DEF Convergent, Artifacts
    <3> QED BY <3>1, <3>2 DEF Keeps, BootOpen
  <2>5. CASE b = c /\ PlanRollback(c)
    <3>1. UNCHANGED boot \/ boot'[b].phase = "undoing" BY <1>0, <2>5, PlannedIs
    <3> QED BY <3>1 DEF Keeps, BootOpen
  <2>6. CASE b = c /\ RetireRollback(c)
    <3>1. CASE UNCHANGED boot BY <3>1 DEF Keeps, BootOpen
    <3>2. CASE ~UNCHANGED boot
      <4>1. PlanCurrent(b) /\ boot[b].undone = Artifacts /\ boot'[b] = [boot[b] EXCEPT !.phase = "retired"]
        BY <1>0, <2>6, <3>2 DEF RetireRollback
      <4>2. "snapshot" \in Present(ThreadOf[b]) BY PresentIs
      <4>3. "snapshot" \in boot[b].retain BY <4>1, <4>2 DEF PlanCurrent, Artifacts
      <4>4. boot'[b].phase = "retired" /\ boot'[b].retain = boot[b].retain
        BY <1>0, <4>1 DEF BootRecords
      <4> QED BY <4>3, <4>4 DEF Keeps
    <3> QED BY <3>1, <3>2
  <2> QED BY <1>1, <2>1, <2>2, <2>3, <2>4, <2>5, <2>6
<1>2. CASE ReleaseReservation
  <2>1. boot'[b].phase = boot[b].phase /\ boot'[b].retain = boot[b].retain
    BY <1>0, <1>2 DEF ReleaseReservation, BootRecords
  <2> QED BY <2>1 DEF Keeps, BootOpen
<1>3. CASE CompactBootstrap
  <2>1. b \notin Releases BY DEF Releases, Reservations, Committed, Keeps, BootOpen
  <2>2. boot'[b] = boot[b] BY <1>3, <2>1 DEF CompactBootstrap
  <2> QED BY <2>2 DEF Keeps, BootOpen
<1>4. ASSUME NEW o \in LifecycleOps, WriteSnapshot(o) \/ WriteCatalog(o) PROVE UNCHANGED boot
  BY <1>4 DEF WriteSnapshot, WriteCatalog
<1>5. UNCHANGED boot => Keeps(b)' BY DEF Keeps, BootOpen
<1> QED BY <1>1, <1>2, <1>3, <1>4, <1>5 DEF FileWrite

(* The two public files of a thread agree between its publications.        *)
LEMMA AgreementStep ==
  ASSUME FilesInvariant, [FilesNext]_storeFilesVars, NEW t \in Threads
  PROVE AgreementFact(t)'
<1>0. FilesTypeOK /\ CatalogClosed /\ AgreementFact(t) /\ (AnyBootOpen => ~AnyPending)
  BY DEF FilesInvariant, DurableFacts
<1>0a. /\ snapshot \in [Threads -> Views] /\ catalog \in [Threads -> Views]
       /\ wal \in [Threads -> Transactions \cup {NoTx}] /\ lineage \in [Provisions -> Lineages]
  BY <1>0 DEF FilesTypeOK
<1>1. ASSUME ~Pending(t), snapshot'[t] = snapshot[t], catalog'[t] = catalog[t],
             \A p \in Provisions : snapshot[t].st = "live" /\ snapshot[t].of = p /\ ThreadOf[p] = t
                 => lineage'[p] = lineage[p],
             UNCHANGED boot \/ FileWrite
      PROVE AgreementFact(t)'
  <2>1. Unlisted(t) => Unlisted(t)'
    <3> SUFFICES ASSUME Unlisted(t) PROVE Unlisted(t)' OBVIOUS
    <3>1. PICK b \in Bootstraps : ThreadOf[b] = t /\ Keeps(b) BY DEF Unlisted, Keeps
    <3>2. snapshot[t] # NoView /\ catalog[t] = NoView BY DEF Unlisted, Initial, NoView, Shows
    <3>3. Keeps(b)'
      <4>1. CASE UNCHANGED boot BY <3>1, <4>1 DEF Keeps, BootOpen
      <4>2. CASE FileWrite BY <3>1, <3>2, <4>2, KeepsStep
      <4> QED BY <1>1, <4>1, <4>2
    <3>4. snapshot'[t] = Initial /\ catalog'[t] = NoView BY <1>1 DEF Unlisted
    <3> QED BY <3>1, <3>3, <3>4 DEF Unlisted, Keeps
  <2> QED BY <1>0, <1>1, <2>1 DEF AgreementFact
<1>2. ASSUME ~Pending(t), UNCHANGED <<files, lineage>>, UNCHANGED boot \/ FileWrite PROVE AgreementFact(t)'
  BY <1>1, <1>2
<1>3. CASE Pending(t)' BY <1>3 DEF AgreementFact
<1>4. CASE UNCHANGED <<files, boot, lineage, wal>> BY <1>2, <1>3, <1>4 DEF Pending
<1>5. CASE FileWrite /\ UNCHANGED projectionVars /\ ~Pending(t)
  <2>1. ASSUME NEW b \in Bootstraps, Place(b) PROVE AgreementFact(t)'
    <3>1. PICK a \in Artifacts : Placing(b, a) /\ a \notin Present(ThreadOf[b]) /\ Write(ThreadOf[b], a)
      BY <2>1 DEF Place
    <3>2. UNCHANGED boot BY <2>1 DEF Place
    <3>3. BootOpen(b) /\ \A c \in Artifacts : Rank[c] < Rank[a] => c \in Present(ThreadOf[b])
      BY <3>1, PlacingNext
    <3>4. NoView # Initial /\ Initial.st = "initial" BY DEF NoView, Initial, Shows
    <3>5. CASE t # ThreadOf[b] \/ a \in {"project", "authority"}
      <4>1. snapshot'[t] = snapshot[t] /\ catalog'[t] = catalog[t] BY <1>0a, <3>1, <3>5 DEF Write
      <4> QED BY <1>1, <1>5, <3>2, <4>1
    <3>6. CASE t = ThreadOf[b] /\ a = "snapshot"
      <4>1. snapshot'[t] = Initial /\ UNCHANGED catalog BY <1>0a, <3>1, <3>6 DEF Write
      <4>2. catalog[t] = NoView BY <1>0, <3>1, <3>6, PresentIs DEF CatalogClosed
      <4>3. Unlisted(t)' BY <3>2, <3>3, <3>6, <4>1, <4>2 DEF Unlisted, BootOpen
      <4> QED BY <3>4, <4>1, <4>3 DEF AgreementFact
    <3>7. CASE t = ThreadOf[b] /\ a = "thread"
      <4>1. catalog'[t] = Initial /\ UNCHANGED snapshot BY <1>0a, <3>1, <3>7 DEF Write
      <4>2. catalog[t] = NoView /\ snapshot[t] # NoView
        BY <3>1, <3>3, <3>7, PresentIs DEF Rank, Artifacts
      <4>3. snapshot[t] = Initial BY <1>0, <1>5, <4>2 DEF AgreementFact, Unlisted
      <4> QED BY <3>4, <4>1, <4>3 DEF AgreementFact
    <3> QED BY <3>5, <3>6, <3>7 DEF Artifacts
  <2>2. ASSUME NEW b \in Bootstraps, RemoveArtifact(b) PROVE AgreementFact(t)'
    <3>1. PICK a \in boot[b].remove \cap Present(ThreadOf[b]) :
            Undoing(b, a) /\ ((PlanCurrent(b) /\ Remove(ThreadOf[b], a)) \/ UNCHANGED files)
      BY <2>2 DEF RemoveArtifact
    <3>2. UNCHANGED boot BY <2>2 DEF RemoveArtifact
    <3>3. CASE UNCHANGED files BY <1>2, <1>5, <3>2, <3>3
    <3>4. CASE PlanCurrent(b) /\ Remove(ThreadOf[b], a)
      <4>1. a \in Artifacts /\ boot[b].phase = "undoing"
            /\ \A c \in Artifacts : Rank[c] > Rank[a] => c \notin Present(ThreadOf[b])
        BY <3>1, <3>4, UndoingNext
      <4>2. CASE t # ThreadOf[b] \/ a \in {"project", "authority"}
        <5>1. snapshot'[t] = snapshot[t] /\ catalog'[t] = catalog[t] BY <1>0a, <3>4, <4>2 DEF Remove
        <5> QED BY <1>1, <1>5, <3>2, <5>1
      <4>3. CASE t = ThreadOf[b] /\ a = "snapshot"
        <5>1. snapshot'[t] = NoView /\ UNCHANGED catalog BY <1>0a, <3>4, <4>3 DEF Remove
        <5>2. catalog[t] = NoView BY <4>1, <4>3, PresentIs DEF Rank, Artifacts
        <5> QED BY <5>1, <5>2 DEF AgreementFact, NoView, Shows
      <4>4. CASE t = ThreadOf[b] /\ a = "thread"
        <5>1. catalog'[t] = NoView /\ UNCHANGED snapshot BY <1>0a, <3>4, <4>4 DEF Remove
        <5>2. snapshot[t] # NoView BY <1>0, <3>1, <4>4, PresentIs DEF CatalogClosed
        <5>3. snapshot[t] = Initial BY <3>4, <4>4, <5>2 DEF PlanCurrent, Exact
        <5>4. Unlisted(t)' BY <3>2, <4>1, <4>4, <5>1, <5>3 DEF Unlisted, BootOpen
        <5> QED BY <5>1, <5>3, <5>4 DEF AgreementFact, Initial, Shows
      <4> QED BY <4>1, <4>2, <4>3, <4>4 DEF Artifacts
    <3> QED BY <3>1, <3>3, <3>4
  <2>3. ASSUME NEW o \in LifecycleOps, WriteSnapshot(o) \/ WriteCatalog(o) PROVE AgreementFact(t)'
    <3>1. /\ ThreadOf[o] \in Threads /\ Pending(ThreadOf[o])
          /\ \A u \in Threads \ {ThreadOf[o]} : wal[ThreadOf[o]].rows[u] = catalog[u]
      BY <2>3, PublishingIs
    <3>2. t # ThreadOf[o] BY <1>5, <3>1
    <3>3. snapshot'[t] = snapshot[t] /\ catalog'[t] = catalog[t]
      BY <1>0a, <2>3, <3>1, <3>2 DEF WriteSnapshot, WriteCatalog
    <3> QED BY <1>1, <1>5, <3>3
  <2>4. ASSUME NEW b \in Bootstraps,
               \/ RecordPrepared(b) \/ Reactivate(b) \/ Claim(b) \/ Advance(b) \/ CommitBootstrap(b)
               \/ PlanRollback(b) \/ AdvanceRollback(b) \/ RetireRollback(b)
        PROVE UNCHANGED files
    BY <2>4 DEF RecordPrepared, Reactivate, Claim, Advance, CommitBootstrap, PlanRollback, AdvanceRollback, RetireRollback
  <2>5. ReleaseReservation \/ CompactBootstrap => UNCHANGED files BY DEF ReleaseReservation, CompactBootstrap
  <2> QED BY <1>2, <1>5, <2>1, <2>2, <2>3, <2>4, <2>5 DEF FileWrite
<1>6. CASE ProjectionWrite /\ UNCHANGED <<files, boot>>
  <2>1. ASSUME NEW o \in LifecycleOps,
               \/ o \in Provisions /\ \E c \in Cursors : PreparePublication(o, c)
               \/ o \in Ends /\ PrepareEndProjection(o)
        PROVE AgreementFact(t)'
    <3>1. ~Pending(t) /\ UNCHANGED lineage BY <2>1, PreparedAlone, PreparedIs DEF AnyPending
    <3> QED BY <1>2, <1>6, <3>1
  <2>2. ASSUME NEW o \in LifecycleOps, RemoveWal(o) PROVE AgreementFact(t)'
    <3>1. UNCHANGED lineage BY <2>2 DEF RemoveWal
    <3>2. CASE ~Pending(t) BY <1>2, <1>6, <3>1, <3>2
    <3>3. CASE Pending(t)
      <4>1. t = ThreadOf[o] /\ snapshot[t] = wal[t].view /\ catalog[t] = wal[t].view /\ wal[t].op = o
            /\ PendingFact(t) /\ (o \in Provisions => lineage[o] = wal[t].next)
        <5>1. RemoveWal(o) => ~WriteSnapshot(o)
          BY DEF RemoveWal, WriteSnapshot, Publishing, Step, Job
        <5>2. o \in Provisions => call.job = "publish"
          BY <2>2, PublishingIs DEF FilesInvariant, FilesTypeOK, Calls, Idle
        <5> QED BY <2>2, <3>3, <5>1, <5>2, PublishingIs
      <4>2. CASE o \in Provisions
        <5>1. snapshot[t] = Live(o, lineage[o].at) BY <3>3, <4>1, <4>2 DEF PendingFact
        <5> QED BY <1>6, <3>1, <4>1, <4>2, <5>1 DEF AgreementFact, Live, Shows
      <4>3. CASE o \notin Provisions
        <5>1. snapshot[t].st = "ended" BY <3>3, <4>1, <4>3 DEF PendingFact
        <5> QED BY <1>6, <3>1, <4>1, <5>1 DEF AgreementFact
      <4> QED BY <4>2, <4>3
    <3> QED BY <3>2, <3>3
  <2>3. ASSUME NEW p \in Provisions, WriteLineage(p) PROVE AgreementFact(t)'
    <3>1. UNCHANGED wal BY <2>3 DEF WriteLineage
    <3>2. CASE Pending(t) BY <3>1, <3>2, <1>3 DEF Pending
    <3>3. CASE ~Pending(t)
      <4>1. call.job = "publish" /\ call.op = p /\ call.at = "lineage" BY <2>3 DEF WriteLineage, Step, Job
      <4>2. t # ThreadOf[p] BY <3>3, <4>1 DEF FilesInvariant, CallFacts
      <4>3. \A q \in Provisions : ThreadOf[q] = t => lineage'[q] = lineage[q] BY <1>0a, <2>3, <4>2 DEF WriteLineage
      <4> QED BY <1>1, <1>6, <3>3, <4>3
    <3> QED BY <3>2, <3>3
  <2>4. CASE RemoveLineage
    <3>1. UNCHANGED wal BY <2>4 DEF RemoveLineage
    <3>2. CASE Pending(t) BY <3>1, <3>2, <1>3 DEF Pending
    <3>3. CASE ~Pending(t)
      <4>1. marker \in Ends /\ snapshot[ThreadOf[marker]].st = "ended" /\ target[marker] # NoOp
        BY <2>4 DEF RemoveLineage, FilesInvariant, RetiringFacts, DurableFacts, TargetFacts
      <4>2. ThreadOf[target[marker]] = ThreadOf[marker]
        BY <4>1 DEF FilesInvariant, DurableFacts, TargetFacts
      <4>3. \A q \in Provisions : snapshot[t].st = "live" /\ ThreadOf[q] = t => lineage'[q] = lineage[q]
        BY <1>0a, <2>4, <4>1, <4>2 DEF RemoveLineage
      <4> QED BY <1>1, <1>6, <3>3, <4>3
    <3> QED BY <3>2, <3>3
  <2> QED BY <1>6, <2>1, <2>2, <2>3, <2>4 DEF ProjectionWrite
<1>7. CASE ResidentWrite /\ UNCHANGED <<files, boot, projectionVars>> BY <1>4, <1>7
<1> QED BY <1>3, <1>4, <1>5, <1>6, <1>7, Writes DEF Written, Pending

-----------------------------------------------------------------------------
(* The passes of initialize().                                             *)

(* What the passes of initialize() establish stays true.                    *)
LEMMA ModeStep ==
  ASSUME FilesInvariant, [FilesNext]_storeFilesVars
  PROVE ModeFacts'
<1> FilesTypeOK /\ ModeFacts /\ CallFacts /\ RetiringFacts BY DEF FilesInvariant
<1> USE DEF Idle, Job
<1>1. ASSUME NEW b \in Bootstraps, PrepareBootstrap(b), UNCHANGED projectionVars PROVE ModeFacts'
  BY <1>1 DEF PrepareBootstrap, Ready, ModeFacts, CallFacts, RetiringFacts, AnyBootOpen,
     BootOpen, AnyPending, Pending, Recorded, Registered
<1>2. ASSUME NEW b \in Bootstraps, RecordPrepared(b), UNCHANGED projectionVars PROVE ModeFacts'
  BY <1>2 DEF RecordPrepared, Step, Opened, NoRecord, ModeFacts, CallFacts, RetiringFacts,
     AnyBootOpen, BootOpen, AnyPending, Pending, Recorded, Registered
<1>3. ASSUME NEW b \in Bootstraps, RefuseBootstrapsFull(b, Retirable # {}), UNCHANGED projectionVars PROVE ModeFacts'
  BY <1>3 DEF RefuseBootstrapsFull, Step, Throw, ModeFacts, CallFacts, RetiringFacts,
     AnyBootOpen, BootOpen, AnyPending, Pending, Recorded, Registered
<1>4. ASSUME NEW b \in Bootstraps, Reactivate(b), UNCHANGED projectionVars PROVE ModeFacts'
  BY <1>4 DEF Reactivate, Ready, Opened, NoRecord, ModeFacts, CallFacts, RetiringFacts,
     AnyBootOpen, BootOpen, AnyPending, Pending, Recorded, Registered
<1>5. ASSUME NEW b \in Bootstraps, CheckArtifacts(b), UNCHANGED projectionVars PROVE ModeFacts'
  BY <1>5 DEF CheckArtifacts, Step, Unavailable, Throw, ModeFacts, CallFacts, RetiringFacts,
     AnyBootOpen, BootOpen, AnyPending, Pending, Recorded, Registered
<1>6. ASSUME NEW b \in Bootstraps, Claim(b), UNCHANGED projectionVars PROVE ModeFacts'
  BY <1>6 DEF Claim, Placing, Step, ModeFacts, CallFacts, RetiringFacts, AnyBootOpen, BootOpen,
     AnyPending, Pending, Recorded, Registered
<1>7. ASSUME NEW b \in Bootstraps, Place(b), UNCHANGED projectionVars PROVE ModeFacts'
  BY <1>7 DEF Place, Placing, Step, Write, ModeFacts, CallFacts, RetiringFacts, AnyBootOpen,
     BootOpen, AnyPending, Pending, Recorded, Registered
<1>8. ASSUME NEW b \in Bootstraps, Advance(b), UNCHANGED projectionVars PROVE ModeFacts'
  <2>1. \A c \in Bootstraps : boot'[c].phase = boot[c].phase
    BY <1>8, OneRecord DEF Advance, FilesTypeOK, BootRecords
  <2>2. UNCHANGED <<retiring, todo, marker, fenced, wal, life>>
        /\ \/ UNCHANGED <<mode, call>>
           \/ mode' \in {"faulted", "failed"}
    BY <1>8 DEF Advance, Throw
  <2> QED BY <2>1, <2>2 DEF ModeFacts, CallFacts, RetiringFacts, AnyBootOpen, BootOpen, AnyPending, Pending, Recorded, Registered
<1>9. ASSUME NEW b \in Bootstraps, CommitBootstrap(b), UNCHANGED projectionVars PROVE ModeFacts'
  <2>1. /\ call.job = "bootstrap" /\ call.op = b /\ call.at = "place"
        /\ UNCHANGED <<retiring, todo, marker, fenced, wal, life>>
        /\ \/ mode' \in {"faulted", "failed"}
           \/ mode' = mode /\ call' = Job("bootstrap", b, call'.at)
    BY <1>9 DEF CommitBootstrap, Step, Throw, Unavailable
  <2>2. boot \in [Bootstraps -> BootRecords] BY DEF FilesTypeOK
  <2>3. \A c \in Bootstraps \ {b} : boot'[c] = boot[c] BY <1>9, OneRecord
  <2>4. boot'[b].phase \in {boot[b].phase, "committed"} BY <1>9, <2>2 DEF CommitBootstrap, BootRecords
  <2> QED BY <2>1, <2>3, <2>4 DEF ModeFacts, CallFacts, RetiringFacts, AnyBootOpen, BootOpen, AnyPending, Pending, Recorded, Registered
<1>10. ASSUME NEW b \in Bootstraps, Settle(b), UNCHANGED projectionVars PROVE ModeFacts'
  <2>1. /\ call.job = "bootstrap" /\ call.op = b /\ call.at = "lifecycle" /\ call' = Idle /\ todo' = todo \ {b}
        /\ UNCHANGED <<retiring, mode, boot, marker, fenced, wal, life>>
    BY <1>10 DEF Settle, Step, Done
  <2>2. ~BootOpen(b) BY <2>1 DEF CallFacts, BootOpen, Committed
  <2> QED BY <2>1, <2>2 DEF ModeFacts, CallFacts, RetiringFacts, AnyBootOpen, BootOpen, AnyPending, Pending, Recorded, Registered
<1>11. ASSUME NEW b \in Bootstraps, PrepareReserved(b, Retirable # {}), UNCHANGED projectionVars PROVE ModeFacts'
  <2>1. /\ call.job = "bootstrap" /\ call.op = b /\ call.at = "lifecycle"
        /\ UNCHANGED <<retiring, boot, marker, fenced, wal>>
        /\ \/ mode' \in {"faulted", "failed"}
           \/ mode' = mode /\ call' = Job("bootstrap", b, "plan") /\ UNCHANGED todo /\ mode # "up"
           \/ mode' = mode /\ call' = Idle /\ todo' = todo \ {b}
    BY <1>11 DEF PrepareReserved, Step, Done, Throw, Unavailable
  <2>2. ~BootOpen(b) /\ mode \in {"bootstrap", "up"} BY <2>1 DEF CallFacts, BootOpen, Committed
  <2> QED BY <2>1, <2>2 DEF ModeFacts, CallFacts, RetiringFacts, AnyBootOpen, BootOpen, AnyPending, Pending, Recorded, Registered
<1>12. ASSUME NEW b \in Bootstraps, PlanRollback(b), UNCHANGED projectionVars PROVE ModeFacts'
  <2>1. /\ call.job = "bootstrap" /\ call.op = b /\ call.at = "plan"
        /\ UNCHANGED <<retiring, todo, marker, fenced, wal, life>>
        /\ \/ mode' \in {"faulted", "failed", "degraded"}
           \/ mode' = mode /\ call' = Job("bootstrap", b, "undo")
    BY <1>12 DEF PlanRollback, Step, Throw
  <2>2. \A c \in Bootstraps \ {b} : boot'[c] = boot[c] BY <1>12, OneRecord
  <2>3. UNCHANGED boot \/ boot'[b].phase = "undoing" BY <1>12, PlannedIs
  <2>4. mode = "bootstrap" /\ b \in todo BY <2>1 DEF CallFacts
  <2> QED BY <2>1, <2>2, <2>3, <2>4 DEF ModeFacts, CallFacts, RetiringFacts, AnyBootOpen, BootOpen, AnyPending, Pending, Recorded, Registered
<1>13. ASSUME NEW b \in Bootstraps, RemoveArtifact(b), UNCHANGED projectionVars PROVE ModeFacts'
  BY <1>13 DEF RemoveArtifact, Undoing, Step, Remove, Throw, ModeFacts, CallFacts,
     RetiringFacts, AnyBootOpen, BootOpen, AnyPending, Pending, Recorded, Registered
<1>14. ASSUME NEW b \in Bootstraps, AdvanceRollback(b), UNCHANGED projectionVars PROVE ModeFacts'
  <2>1. \A c \in Bootstraps : boot'[c].phase = boot[c].phase
    BY <1>14, OneRecord DEF AdvanceRollback, FilesTypeOK, BootRecords
  <2>2. UNCHANGED <<retiring, todo, marker, fenced, wal, life>>
        /\ \/ UNCHANGED <<mode, call>>
           \/ mode' \in {"faulted", "failed"}
    BY <1>14 DEF AdvanceRollback, Throw
  <2> QED BY <2>1, <2>2 DEF ModeFacts, CallFacts, RetiringFacts, AnyBootOpen, BootOpen, AnyPending, Pending, Recorded, Registered
<1>15. ASSUME NEW b \in Bootstraps, RetireRollback(b), UNCHANGED projectionVars PROVE ModeFacts'
  <2>1. /\ call.job = "bootstrap" /\ call.op = b /\ call.at = "undo"
        /\ UNCHANGED <<retiring, marker, fenced, wal, life>>
        /\ \/ mode' \in {"faulted", "failed"}
           \/ mode' = mode /\ call' = Idle /\ todo' = todo \ {b} /\ boot'[b].phase = "retired"
    BY <1>15 DEF RetireRollback, Step, Throw, Done, FilesTypeOK, BootRecords
  <2>2. \A c \in Bootstraps \ {b} : boot'[c] = boot[c] BY <1>15, OneRecord
  <2>3. mode = "bootstrap" BY <2>1 DEF CallFacts
  <2> QED BY <2>1, <2>2, <2>3 DEF ModeFacts, CallFacts, RetiringFacts, AnyBootOpen, BootOpen, AnyPending, Pending, Recorded, Registered
<1>16. ASSUME NEW b \in Bootstraps, RecoverBootstrap(b), UNCHANGED projectionVars PROVE ModeFacts'
  BY <1>16 DEF RecoverBootstrap, ModeFacts, CallFacts, RetiringFacts, AnyBootOpen, BootOpen,
     AnyPending, Pending, Recorded, Registered
<1>17. ASSUME NEW o \in Provisions, NEW c \in Cursors, PreparePublication(o, c) PROVE ModeFacts'
  BY <1>17 DEF PreparePublication, Ready, ModeFacts, CallFacts, RetiringFacts, AnyBootOpen,
     BootOpen, AnyPending, Pending, Recorded, Registered
<1>18. ASSUME NEW o \in Provisions, PublishSame(o) PROVE ModeFacts'
  BY <1>18 DEF PublishSame, Ready, ModeFacts, CallFacts, RetiringFacts, AnyBootOpen, BootOpen,
     AnyPending, Pending, Recorded, Registered
<1>19. ASSUME NEW o \in Provisions, WriteLineage(o) PROVE ModeFacts'
  BY <1>19 DEF WriteLineage, Step, Throw, ModeFacts, CallFacts, RetiringFacts, AnyBootOpen,
     BootOpen, AnyPending, Pending, Recorded, Registered
<1>20. ASSUME NEW o \in Provisions, WriteProof(o) PROVE ModeFacts'
  BY <1>20 DEF WriteProof, Step, ModeFacts, CallFacts, RetiringFacts, AnyBootOpen, BootOpen,
     AnyPending, Pending, Recorded, Registered
<1>21. ASSUME NEW o \in Ends, PrepareEndProjection(o) PROVE ModeFacts'
  BY <1>21 DEF PrepareEndProjection, Step, ModeFacts, CallFacts, RetiringFacts, AnyBootOpen,
     BootOpen, AnyPending, Pending, Recorded, Registered
<1>22. ASSUME NEW o \in Ends, CheckEndProjection(o) PROVE ModeFacts'
  BY <1>22 DEF CheckEndProjection, Step, Throw, ModeFacts, CallFacts, RetiringFacts,
     AnyBootOpen, BootOpen, AnyPending, Pending, Recorded, Registered
<1>23. ASSUME NEW o \in Ends, CompleteEnd(o) PROVE ModeFacts'
  BY <1>23 DEF CompleteEnd, Step, Done, ModeFacts, CallFacts, RetiringFacts, AnyBootOpen,
     BootOpen, AnyPending, Pending, Recorded, Registered
<1>24. ASSUME NEW o \in LifecycleOps, WriteSnapshot(o) PROVE ModeFacts'
  BY <1>24 DEF WriteSnapshot, Publishing, Step, ModeFacts, CallFacts, RetiringFacts,
     AnyBootOpen, BootOpen, AnyPending, Pending, Recorded, Registered
<1>25. ASSUME NEW o \in LifecycleOps, WriteCatalog(o) PROVE ModeFacts'
  BY <1>25 DEF WriteCatalog, Publishing, Step, ModeFacts, CallFacts, RetiringFacts, AnyBootOpen,
     BootOpen, AnyPending, Pending, Recorded, Registered
<1>26. ASSUME NEW o \in LifecycleOps, RemoveWal(o) PROVE ModeFacts'
  <2>1. /\ ThreadOf[o] \in Threads /\ wal' = [wal EXCEPT ![ThreadOf[o]] = NoTx]
        /\ \A t \in Threads \ {ThreadOf[o]} : ~Pending(t)
    BY <1>26, PublishingIs DEF RemoveWal
  <2>2. \A t \in Threads : ~Pending(t)' BY <2>1 DEF FilesTypeOK, Pending
  <2>3. /\ call.job \in {"publish", "end"} /\ retiring = "no" /\ mode \in {"replay", "after", "up"}
    BY <1>26, PublishingIs DEF CallFacts
  <2>4. /\ UNCHANGED <<retiring, mode, boot, marker, fenced, life>>
        /\ call'.job # "bootstrap"
        /\ mode = "replay" => todo' = todo \ {ThreadOf[o]}
        /\ mode # "replay" => UNCHANGED todo
    BY <1>26 DEF RemoveWal, Done
  <2>5. mode = "replay" => todo' = {} BY <2>1, <2>4 DEF ModeFacts
  <2> QED BY <2>2, <2>3, <2>4, <2>5 DEF ModeFacts, CallFacts, RetiringFacts, AnyBootOpen, BootOpen, AnyPending, Pending, Recorded, Registered
<1>27. ASSUME NEW o \in Provisions, PrepareProvision(o) PROVE ModeFacts'
  BY <1>27 DEF PrepareProvision, Ready, ModeFacts, CallFacts, RetiringFacts, AnyBootOpen,
     BootOpen, AnyPending, Pending, Recorded, Registered
<1>28. ASSUME NEW o \in Provisions, RegisterProvision(o, Retirable # {}) PROVE ModeFacts'
  BY <1>28 DEF RegisterProvision, Step, ModeFacts, CallFacts, RetiringFacts, AnyBootOpen,
     BootOpen, AnyPending, Pending, Recorded, Registered
<1>29. ASSUME NEW o \in Provisions, FailCreate(o) PROVE ModeFacts'
  BY <1>29 DEF FailCreate, Ready, ModeFacts, CallFacts, RetiringFacts, AnyBootOpen, BootOpen,
     AnyPending, Pending, Recorded, Registered
<1>30. ASSUME NEW o \in Provisions, ObservePromotion(o) PROVE ModeFacts'
  BY <1>30 DEF ObservePromotion, Ready, ModeFacts, CallFacts, RetiringFacts, AnyBootOpen,
     BootOpen, AnyPending, Pending, Recorded, Registered
<1>31. ASSUME NEW o \in Provisions, CommitProvision(o) PROVE ModeFacts'
  BY <1>31 DEF CommitProvision, Ready, ModeFacts, CallFacts, RetiringFacts, AnyBootOpen,
     BootOpen, AnyPending, Pending, Recorded, Registered
<1>32. ASSUME NEW o \in Ends, PrepareEnd(o) PROVE ModeFacts'
  BY <1>32 DEF PrepareEnd, Ready, OnThread, ModeFacts, CallFacts, RetiringFacts, AnyBootOpen,
     BootOpen, AnyPending, Pending, Recorded, Registered
<1>33. ASSUME NEW o \in Ends, AcknowledgeEnd(o) PROVE ModeFacts'
  BY <1>33 DEF AcknowledgeEnd, Ready, ModeFacts, CallFacts, RetiringFacts, AnyBootOpen,
     BootOpen, AnyPending, Pending, Recorded, Registered
<1>34. ASSUME NEW o \in Ends, RecoverAfter(o) PROVE ModeFacts'
  BY <1>34 DEF RecoverAfter, ModeFacts, CallFacts, RetiringFacts, AnyBootOpen, BootOpen,
     AnyPending, Pending, Recorded, Registered
<1>35. ASSUME NEW o \in LifecycleOps, QuarantineUnknown(o) PROVE ModeFacts'
  BY <1>35 DEF QuarantineUnknown, Ready, ModeFacts, CallFacts, RetiringFacts, AnyBootOpen,
     BootOpen, AnyPending, Pending, Recorded, Registered
<1>36. ASSUME NEW o \in LifecycleOps, RecoverBefore(o) PROVE ModeFacts'
  BY <1>36 DEF RecoverBefore, ModeFacts, CallFacts, RetiringFacts, AnyBootOpen, BootOpen,
     AnyPending, Pending, Recorded, Registered
<1>37. CASE BeginRetirement
  <2>1. call.job \in {"provision", "bootstrap"} BY <1>37 DEF BeginRetirement, Retirable, Step
  <2>2. UNCHANGED <<files, boot, todo, fenced, wal, life>> BY <1>37 DEF BeginRetirement
  <2>3. \/ retiring' = "fence" /\ UNCHANGED <<mode, call>>
        \/ mode' \in {"faulted", "failed", "degraded"}
    BY <1>37 DEF BeginRetirement, Degrade
  <2> QED BY <2>1, <2>2, <2>3 DEF ModeFacts, CallFacts, RetiringFacts, AnyBootOpen, BootOpen, AnyPending, Pending, Recorded, Registered
<1>38. CASE WriteFence
  BY <1>38 DEF WriteFence, Degrade, ModeFacts, CallFacts, RetiringFacts, AnyBootOpen, BootOpen,
     AnyPending, Pending, Recorded, Registered
<1>39. CASE ReleaseReservation
  BY <1>39 DEF ReleaseReservation, ModeFacts, CallFacts, RetiringFacts, AnyBootOpen, BootOpen,
     AnyPending, Pending, Recorded, Registered
<1>40. CASE RemoveLineage
  BY <1>40 DEF RemoveLineage, ModeFacts, CallFacts, RetiringFacts, AnyBootOpen, BootOpen,
     AnyPending, Pending, Recorded, Registered
<1>41. CASE RemoveBinding
  BY <1>41 DEF RemoveBinding, ModeFacts, CallFacts, RetiringFacts, AnyBootOpen, BootOpen,
     AnyPending, Pending, Recorded, Registered
<1>42. CASE RemoveOperation
  BY <1>42 DEF RemoveOperation, ModeFacts, CallFacts, RetiringFacts, AnyBootOpen, BootOpen,
     AnyPending, Pending, Recorded, Registered
<1>43. CASE CompactBootstrap
  <2>1. UNCHANGED <<mode, call, todo, marker, fenced, wal, life>> /\ retiring' = "marker" /\ retiring = "compact"
    BY <1>43 DEF CompactBootstrap
  <2>2. \A c \in Bootstraps : boot'[c] = IF c \in Releases THEN NoRecord ELSE boot[c] BY <1>43 DEF CompactBootstrap
  <2>3. \A c \in Releases : Registered(c) /\ Reserves[c] \in fenced
    BY <2>1 DEF Releases, Reservations, RetiringFacts
  <2>4. \A c \in Bootstraps : 
      \/ boot'[c].phase = boot[c].phase
      \/ boot'[c].phase = "none" /\ Registered(c) /\ Reserves[c] \in fenced
    <3> SUFFICES ASSUME NEW c \in Bootstraps
                 PROVE \/ boot'[c].phase = boot[c].phase
                       \/ boot'[c].phase = "none" /\ Registered(c) /\ Reserves[c] \in fenced
      OBVIOUS
    <3>1. CASE c \in Releases
      <4>1. boot'[c] = NoRecord BY <2>2, <3>1
      <4> QED BY <2>3, <3>1, <4>1 DEF NoRecord
    <3>2. CASE c \notin Releases BY <2>2, <3>2
    <3> QED BY <3>1, <3>2
  <2> QED BY <2>1, <2>4 DEF ModeFacts, CallFacts, RetiringFacts, AnyBootOpen, BootOpen, AnyPending, Pending, Recorded, Registered
<1>44. CASE RemoveMarker
  BY <1>44 DEF RemoveMarker, ModeFacts, CallFacts, RetiringFacts, AnyBootOpen, BootOpen,
     AnyPending, Pending, Recorded, Registered
<1>45. CASE Boot
  BY <1>45 DEF Boot, Enter, ModeFacts, CallFacts, RetiringFacts, AnyBootOpen, BootOpen,
     AnyPending, Pending, Recorded, Registered
<1>46. CASE RecoverBootstraps
  <2>1. mode' = "bootstrap" /\ todo' = {b \in BootRecorded : boot[b].phase # "retired"}
        /\ UNCHANGED <<call, retiring, boot, marker, fenced, wal, life>> /\ mode = "retirement" /\ retiring = "no"
    BY <1>46 DEF RecoverBootstraps, Pass, Enter
  <2> QED BY <2>1 DEF ModeFacts, CallFacts, RetiringFacts, AnyBootOpen, BootOpen, AnyPending, Pending, Recorded, Registered, BootRecorded
<1>47. CASE RecoverLifecycles
  BY <1>47 DEF RecoverLifecycles, Pass, Enter, Degrade, ModeFacts, CallFacts, RetiringFacts,
     AnyBootOpen, BootOpen, AnyPending, Pending, Recorded, Registered
<1>48. CASE RecoverPublications
  BY <1>48 DEF RecoverPublications, Pass, Enter, ModeFacts, CallFacts, RetiringFacts,
     AnyBootOpen, BootOpen, AnyPending, Pending, Recorded, Registered
<1>49. CASE RecoverEnds
  BY <1>49 DEF RecoverEnds, Pass, Enter, ModeFacts, CallFacts, RetiringFacts, AnyBootOpen,
     BootOpen, AnyPending, Pending, Recorded, Registered
<1>50. CASE Serve
  BY <1>50 DEF Serve, Pass, Enter, Degrade, ModeFacts, CallFacts, RetiringFacts, AnyBootOpen,
     BootOpen, AnyPending, Pending, Recorded, Registered
<1>51. ASSUME NEW t \in Threads, Replay(t) PROVE ModeFacts'
  BY <1>51 DEF Replay, ModeFacts, CallFacts, RetiringFacts, AnyBootOpen, BootOpen, AnyPending,
     Pending, Recorded, Registered
<1>52. CASE Crash
  BY <1>52 DEF Crash, ModeFacts, CallFacts, RetiringFacts, AnyBootOpen, BootOpen, AnyPending,
     Pending, Recorded, Registered
<1>53. CASE WorkspaceChange
  BY <1>53 DEF WorkspaceChange, ModeFacts, CallFacts, RetiringFacts, AnyBootOpen, BootOpen,
     AnyPending, Pending, Recorded, Registered
<1>54. CASE UNCHANGED storeFilesVars
  BY <1>54 DEF storeFilesVars, stateVars, ModeFacts, CallFacts, RetiringFacts, AnyBootOpen,
     BootOpen, AnyPending, Pending, Recorded, Registered
<1> QED BY <1>1, <1>2, <1>3, <1>4, <1>5, <1>6, <1>7, <1>8, <1>9, <1>10, <1>11, <1>12, <1>13,
     <1>14, <1>15, <1>16, <1>17, <1>18, <1>19, <1>20, <1>21, <1>22, <1>23, <1>24, <1>25, <1>26,
     <1>27, <1>28, <1>29, <1>30, <1>31, <1>32, <1>33, <1>34, <1>35, <1>36, <1>37, <1>38, <1>39,
     <1>40, <1>41, <1>42, <1>43, <1>44, <1>45, <1>46, <1>47, <1>48, <1>49, <1>50, <1>51, <1>52,
     <1>53, <1>54
  DEF FilesNext, BootstrapStep, PublicationStep, LifecycleStep, Retirement, Recovery

-----------------------------------------------------------------------------
(* The method in progress.                                                 *)

(* A retirement compacts only bootstraps whose reservation is fenced.      *)
LEMMA CompactedIs ==
  ASSUME FilesInvariant, CompactBootstrap, NEW c \in Bootstraps
  PROVE \/ boot'[c].phase = boot[c].phase
        \/ boot'[c].phase = "none" /\ Registered(c) /\ Reserves[c] \in fenced
<1>1. boot'[c] = IF c \in Releases THEN NoRecord ELSE boot[c] BY DEF CompactBootstrap
<1>2. CASE c \in Releases
  <2>1. boot'[c] = NoRecord BY <1>1, <1>2
  <2>2. Registered(c) /\ Reserves[c] \in fenced
    BY <1>2 DEF CompactBootstrap, Releases, Reservations, FilesInvariant, RetiringFacts
  <2> QED BY <2>1, <2>2 DEF NoRecord
<1>3. CASE c \notin Releases BY <1>1, <1>3
<1> QED BY <1>2, <1>3

(* What the method in progress has established stays true.                  *)
LEMMA CallStep ==
  ASSUME FilesInvariant, [FilesNext]_storeFilesVars
  PROVE CallFacts'
<1> FilesTypeOK /\ ModeFacts /\ CallFacts /\ RetiringFacts BY DEF FilesInvariant
<1> USE DEF Idle, Job
<1>i. ASSUME call' = Idle PROVE CallFacts' BY <1>i DEF CallFacts
<1>s. ASSUME UNCHANGED <<mode, call, retiring, todo, files, boot, life, lineage, wal, fenced>> PROVE CallFacts'
  <2>1. CASE call.job # "bootstrap" BY <1>s, <2>1 DEF CallFacts, AnyPending, Pending, Recorded
  <2>2. CASE call.job = "bootstrap"
    <3>1. PICK b \in Bootstraps : call.op = b BY <2>2 DEF FilesTypeOK, Calls
    <3>2. Present(ThreadOf[b])' = Present(ThreadOf[b]) BY <1>s DEF Present
    <3>3. call'.op = b /\ call'.job = "bootstrap" BY <1>s, <2>2, <3>1
    <3> QED BY <1>s, <2>2, <3>1, <3>2, <3>3 DEF CallFacts, AnyPending, Pending, BootOpen, Committed
  <2> QED BY <2>1, <2>2
<1>t. boot \in [Bootstraps -> BootRecords] BY DEF FilesTypeOK
(* A retirement runs where its method has established little. *)
<1>r. ASSUME UNCHANGED <<mode, call, todo, files, wal>>, fenced \subseteq fenced',
             retiring # "no" \/ call.job \in {"none", "bootstrap", "provision"},
             \A c \in Bootstraps : \/ boot'[c].phase = boot[c].phase
                                   \/ boot'[c].phase = "none" /\ Registered(c) /\ Reserves[c] \in fenced,
             call.job = "bootstrap" => call.at \in {"write", "lifecycle"}
      PROVE CallFacts'
  <2>1. call.job \notin {"publish", "end"} BY <1>r DEF CallFacts
  <2>2. call.job = "bootstrap" => call.op \in Bootstraps BY DEF FilesTypeOK, Calls
  <2> QED BY <1>r, <2>1, <2>2 DEF CallFacts, AnyPending, Pending, BootOpen, Committed
<1>q. retiring # "no" => call.job \in {"none", "bootstrap", "provision"} /\ (call.job = "bootstrap" => call.at \in {"write", "lifecycle"})
  BY DEF RetiringFacts, ModeFacts
<1>1. ASSUME NEW b \in Bootstraps, PrepareBootstrap(b), UNCHANGED projectionVars PROVE CallFacts'
  BY <1>1 DEF PrepareBootstrap, Ready, ModeFacts, CallFacts, RetiringFacts, AnyBootOpen,
     BootOpen, AnyPending, Pending, Recorded, Registered
<1>2. ASSUME NEW b \in Bootstraps, RecordPrepared(b), UNCHANGED projectionVars PROVE CallFacts'
  <2>1. call.job = "bootstrap" /\ call.op = b /\ call.at = "write" /\ call' = Job("bootstrap", b, "check")
        /\ boot'[b] = Opened(ThreadOf[b]) /\ UNCHANGED <<mode, wal, todo>>
    BY <1>2, <1>t DEF RecordPrepared, Step
  <2>2. \A c \in Bootstraps \ {b} : boot'[c] = boot[c] BY <1>2, OneRecord
  <2>3. boot'[b].phase = "open" BY <2>1 DEF Opened, NoRecord
  <2> QED BY <2>1, <2>2, <2>3 DEF CallFacts, AnyBootOpen, BootOpen, AnyPending, Pending, Recorded
<1>3. ASSUME NEW b \in Bootstraps, RefuseBootstrapsFull(b, Retirable # {}), UNCHANGED projectionVars PROVE CallFacts'
  BY <1>3 DEF RefuseBootstrapsFull, Step, Throw, ModeFacts, CallFacts, RetiringFacts,
     AnyBootOpen, BootOpen, AnyPending, Pending, Recorded, Registered
<1>4. ASSUME NEW b \in Bootstraps, Reactivate(b), UNCHANGED projectionVars PROVE CallFacts'
  <2>1. mode = "up" /\ call = Idle /\ call' = Job("bootstrap", b, "check")
        /\ boot'[b] = Opened(ThreadOf[b]) /\ UNCHANGED <<mode, wal, todo>>
    BY <1>4, <1>t DEF Reactivate, Ready
  <2>2. \A c \in Bootstraps \ {b} : boot'[c] = boot[c] BY <1>4, OneRecord
  <2>3. boot'[b].phase = "open" BY <2>1 DEF Opened, NoRecord
  <2>4. ~AnyPending /\ ~AnyBootOpen BY <2>1 DEF ModeFacts
  <2> QED BY <2>1, <2>2, <2>3, <2>4 DEF CallFacts, AnyBootOpen, BootOpen, AnyPending, Pending, Recorded
<1>5. ASSUME NEW b \in Bootstraps, CheckArtifacts(b), UNCHANGED projectionVars PROVE CallFacts'
  <2>1. call.job = "bootstrap" /\ call.op = b /\ call.at = "check" /\ UNCHANGED <<files, boot, wal, todo>>
    BY <1>5 DEF CheckArtifacts, Step
  <2>2. \/ call' = Idle
        \/ call' = Job("bootstrap", b, "plan") /\ mode' = mode /\ mode # "up"
        \/ call' = Job("bootstrap", b, "place") /\ mode' = mode /\ boot[b].placed \subseteq Present(ThreadOf[b])
    BY <1>5 DEF CheckArtifacts, Unavailable, Throw, Convergent
  <2>3. Present(ThreadOf[b])' = Present(ThreadOf[b]) BY <2>1 DEF Present
  <2> QED BY <1>i, <2>1, <2>2, <2>3 DEF CallFacts, AnyBootOpen, BootOpen, AnyPending, Pending, Recorded
<1>6. ASSUME NEW b \in Bootstraps, Claim(b), UNCHANGED projectionVars PROVE CallFacts'
  <2>1. call.job = "bootstrap" /\ call.op = b /\ call.at = "place" /\ UNCHANGED <<files, call, mode, wal, todo>>
    BY <1>6 DEF Claim, Placing, Step
  <2>2. \A c \in Bootstraps \ {b} : boot'[c] = boot[c] BY <1>6, OneRecord
  <2>3. boot'[b].phase = boot[b].phase /\ boot'[b].placed = boot[b].placed BY <1>6, <1>t DEF Claim, BootRecords
  <2>4. Present(ThreadOf[b])' = Present(ThreadOf[b]) BY <2>1 DEF Present
  <2> QED BY <2>1, <2>2, <2>3, <2>4 DEF CallFacts, AnyBootOpen, BootOpen, AnyPending, Pending, Recorded
<1>7. ASSUME NEW b \in Bootstraps, Place(b), UNCHANGED projectionVars PROVE CallFacts'
  <2>1. call.job = "bootstrap" /\ call.op = b /\ call.at = "place" /\ UNCHANGED <<boot, call, mode, wal, todo>>
    BY <1>7 DEF Place, Placing, Step
  <2>2. PICK a \in Artifacts : Write(ThreadOf[b], a) BY <1>7 DEF Place
  <2>3. Present(ThreadOf[b]) \subseteq Present(ThreadOf[b])'
    <3>1. snapshot[ThreadOf[b]] # NoView => snapshot'[ThreadOf[b]] # NoView
      BY <2>2 DEF Write, FilesTypeOK, NoView, Initial, Shows
    <3>2. catalog[ThreadOf[b]] # NoView => catalog'[ThreadOf[b]] # NoView
      BY <2>2 DEF Write, FilesTypeOK, NoView, Initial, Shows
    <3>3. (project => project') /\ authority \subseteq authority' BY <2>2 DEF Write
    <3> QED BY <3>1, <3>2, <3>3 DEF Present, Artifacts
  <2> QED BY <2>1, <2>3 DEF CallFacts, AnyBootOpen, BootOpen, AnyPending, Pending, Recorded
<1>8. ASSUME NEW b \in Bootstraps, Advance(b), UNCHANGED projectionVars PROVE CallFacts'
  <2>1. call.job = "bootstrap" /\ call.op = b /\ call.at = "place" /\ UNCHANGED <<files, wal, todo>>
        /\ (call' = Idle \/ UNCHANGED <<call, mode>>)
    BY <1>8 DEF Advance, Placing, Step, Throw
  <2>2. \A c \in Bootstraps \ {b} : boot'[c] = boot[c] BY <1>8, OneRecord
  <2>3. PICK a \in Artifacts : a \in Present(ThreadOf[b]) /\ (boot' = boot \/ boot' = [boot EXCEPT ![b].placed = @ \cup {a}])
    BY <1>8 DEF Advance
  <2>4. boot'[b].phase = boot[b].phase /\ boot'[b].placed \in {boot[b].placed, boot[b].placed \cup {a}}
    BY <2>3, <1>t DEF BootRecords
  <2>5. Present(ThreadOf[b])' = Present(ThreadOf[b]) BY <2>1 DEF Present
  <2> QED BY <1>i, <2>1, <2>2, <2>3, <2>4, <2>5 DEF CallFacts, AnyBootOpen, BootOpen, AnyPending, Pending, Recorded
<1>9. ASSUME NEW b \in Bootstraps, CommitBootstrap(b), UNCHANGED projectionVars PROVE CallFacts'
  <2>1. call.job = "bootstrap" /\ call.op = b /\ call.at = "place" /\ UNCHANGED <<files, wal, todo>>
    BY <1>9 DEF CommitBootstrap, Step
  <2>2. \/ call' = Idle
        \/ call' = Job("bootstrap", b, "plan") /\ UNCHANGED <<boot, mode>> /\ mode # "up"
        \/ call' = Job("bootstrap", b, "lifecycle") /\ UNCHANGED mode /\ boot'[b].phase = "committed"
    BY <1>9, <1>t DEF CommitBootstrap, Unavailable, Throw, BootRecords
  <2>3. \A c \in Bootstraps \ {b} : boot'[c] = boot[c] BY <1>9, OneRecord
  <2> QED BY <1>i, <2>1, <2>2, <2>3 DEF CallFacts, AnyBootOpen, BootOpen, AnyPending, Pending, Recorded, Committed
<1>10. ASSUME NEW b \in Bootstraps, Settle(b), UNCHANGED projectionVars PROVE CallFacts'
  BY <1>10 DEF Settle, Step, Done, ModeFacts, CallFacts, RetiringFacts, AnyBootOpen, BootOpen,
     AnyPending, Pending, Recorded, Registered
<1>11. ASSUME NEW b \in Bootstraps, PrepareReserved(b, Retirable # {}), UNCHANGED projectionVars PROVE CallFacts'
  <2>1. call.job = "bootstrap" /\ call.op = b /\ call.at = "lifecycle" /\ UNCHANGED <<boot, wal>>
        /\ Reserves[b] \notin fenced
        /\ (call' = Idle \/ (call' = Job("bootstrap", b, "plan") /\ UNCHANGED <<mode, todo>> /\ mode # "up"))
    BY <1>11 DEF PrepareReserved, Step, Done, Throw, Unavailable, LifecycleDue
  <2>2. boot[b].phase = "committed" BY <2>1 DEF CallFacts, Committed
  <2> QED BY <1>i, <2>1, <2>2 DEF CallFacts, AnyBootOpen, BootOpen, AnyPending, Pending, Recorded
<1>12. ASSUME NEW b \in Bootstraps, PlanRollback(b), UNCHANGED projectionVars PROVE CallFacts'
  <2>1. call.job = "bootstrap" /\ call.op = b /\ call.at = "plan" /\ UNCHANGED <<wal, todo>>
    BY <1>12 DEF PlanRollback, Step
  <2>2. \/ call' = Idle
        \/ call' = Job("bootstrap", b, "undo") /\ UNCHANGED mode /\ boot'[b].phase = "undoing"
    BY <1>12, PlannedIs
  <2>3. \A c \in Bootstraps \ {b} : boot'[c] = boot[c] BY <1>12, OneRecord
  <2> QED BY <1>i, <2>1, <2>2, <2>3 DEF CallFacts, AnyBootOpen, BootOpen, AnyPending, Pending, Recorded
<1>13. ASSUME NEW b \in Bootstraps, RemoveArtifact(b), UNCHANGED projectionVars PROVE CallFacts'
  BY <1>13 DEF RemoveArtifact, Undoing, Step, Remove, Throw, ModeFacts, CallFacts,
     RetiringFacts, AnyBootOpen, BootOpen, AnyPending, Pending, Recorded, Registered
<1>14. ASSUME NEW b \in Bootstraps, AdvanceRollback(b), UNCHANGED projectionVars PROVE CallFacts'
  <2>1. call.job = "bootstrap" /\ call.op = b /\ call.at = "undo" /\ UNCHANGED <<wal, todo>>
        /\ (call' = Idle \/ UNCHANGED <<call, mode>>)
    BY <1>14 DEF AdvanceRollback, Undoing, Step, Throw
  <2>2. boot'[b].phase = boot[b].phase BY <1>14, <1>t DEF AdvanceRollback, BootRecords
  <2>3. \A c \in Bootstraps \ {b} : boot'[c] = boot[c] BY <1>14, OneRecord
  <2> QED BY <1>i, <2>1, <2>2, <2>3 DEF CallFacts, AnyBootOpen, BootOpen, AnyPending, Pending, Recorded
<1>15. ASSUME NEW b \in Bootstraps, RetireRollback(b), UNCHANGED projectionVars PROVE CallFacts'
  BY <1>15 DEF RetireRollback, Step, Done, Throw, ModeFacts, CallFacts, RetiringFacts,
     AnyBootOpen, BootOpen, AnyPending, Pending, Recorded, Registered
<1>16. ASSUME NEW b \in Bootstraps, RecoverBootstrap(b), UNCHANGED projectionVars PROVE CallFacts'
  <2>1. mode = "bootstrap" /\ b \in todo /\ UNCHANGED <<mode, boot, fenced, wal, todo>>
        /\ call' = Job("bootstrap", b, CASE boot[b].phase = "undoing" -> "undo"
                                         [] boot[b].phase \in {"committed", "none"} -> "lifecycle"
                                         [] OTHER -> "check")
    BY <1>16 DEF RecoverBootstrap
  <2>2. /\ boot[b].phase \in {"none", "open", "committed", "undoing"}
        /\ boot[b].phase = "none" => Registered(b) /\ Reserves[b] \in fenced
    BY <2>1, <1>t DEF ModeFacts, BootRecords, BootPhases
  <2>3. CASE boot[b].phase = "undoing"
    <3>1. call' = Job("bootstrap", b, "undo") BY <2>1, <2>3
    <3> QED BY <2>1, <2>3, <3>1 DEF CallFacts, AnyBootOpen, BootOpen, AnyPending, Pending, Recorded
  <2>4. CASE boot[b].phase \in {"committed", "none"}
    <3>1. call' = Job("bootstrap", b, "lifecycle") BY <2>1, <2>4
    <3> QED BY <2>1, <2>2, <2>4, <3>1 DEF CallFacts, AnyBootOpen, BootOpen, AnyPending, Pending, Recorded, Committed
  <2>5. CASE boot[b].phase = "open"
    <3>1. call' = Job("bootstrap", b, "check") BY <2>1, <2>5
    <3> QED BY <2>1, <2>5, <3>1 DEF CallFacts, AnyBootOpen, BootOpen, AnyPending, Pending, Recorded
  <2> QED BY <2>2, <2>3, <2>4, <2>5
<1>17. ASSUME NEW o \in Provisions, NEW c \in Cursors, PreparePublication(o, c) PROVE CallFacts'
  <2>1. mode = "up" /\ retiring = "no" /\ call' = Job("publish", o, "lineage") /\ UNCHANGED <<mode, retiring>>
    BY <1>17 DEF PreparePublication, Ready
  <2>2. wal'[ThreadOf[o]] # NoTx /\ wal'[ThreadOf[o]].op = o BY <1>17, PreparedIs
  <2> QED BY <2>1, <2>2 DEF CallFacts, AnyBootOpen, BootOpen, AnyPending, Pending, Recorded
<1>18. ASSUME NEW o \in Provisions, PublishSame(o) PROVE CallFacts'
  BY <1>18 DEF PublishSame, Ready, ModeFacts, CallFacts, RetiringFacts, AnyBootOpen, BootOpen,
     AnyPending, Pending, Recorded, Registered
<1>19. ASSUME NEW o \in Provisions, WriteLineage(o) PROVE CallFacts'
  <2>1. call.job = "publish" /\ call.op = o /\ call.at = "lineage" /\ UNCHANGED <<life, wal, retiring>>
    BY <1>19 DEF WriteLineage, Step
  <2>2. \/ call' = Idle
        \/ /\ call' = Job("publish", o, "snapshot") /\ UNCHANGED mode
           /\ lineage' = [lineage EXCEPT ![o] = wal[ThreadOf[o]].next] /\ PublicationAuthorized(o)
    BY <1>19 DEF WriteLineage, Throw
  <2>3. call' # Idle => lineage'[o] = wal[ThreadOf[o]].next /\ (wal[ThreadOf[o]].lease => life[o] # "none")
    BY <2>2 DEF PublicationAuthorized, FilesTypeOK
  <2> QED BY <1>i, <2>1, <2>2, <2>3 DEF CallFacts, AnyBootOpen, BootOpen, AnyPending, Pending, Recorded
<1>20. ASSUME NEW o \in Provisions, WriteProof(o) PROVE CallFacts'
  BY <1>20 DEF WriteProof, Step, ModeFacts, CallFacts, RetiringFacts, AnyBootOpen, BootOpen,
     AnyPending, Pending, Recorded, Registered
<1>21. ASSUME NEW o \in Ends, PrepareEndProjection(o) PROVE CallFacts'
  <2>1. call.job = "end" /\ call.op = o /\ call.at = "project" /\ UNCHANGED <<life, retiring>>
    BY <1>21 DEF PrepareEndProjection, Step
  <2>2. \/ call' = Idle
        \/ UNCHANGED mode /\ UNCHANGED wal /\ call' = Job("end", o, "complete")
        \/ UNCHANGED mode /\ call' = Job("end", o, "check")
    BY <1>21 DEF PrepareEndProjection
  <2>3. call' = Job("end", o, "check") => wal'[ThreadOf[o]] # NoTx /\ wal'[ThreadOf[o]].op = o BY <1>21, PreparedIs
  <2> QED BY <1>i, <2>1, <2>2, <2>3 DEF CallFacts, AnyBootOpen, BootOpen, AnyPending, Pending, Recorded
<1>22. ASSUME NEW o \in Ends, CheckEndProjection(o) PROVE CallFacts'
  BY <1>22 DEF CheckEndProjection, Step, Throw, ModeFacts, CallFacts, RetiringFacts,
     AnyBootOpen, BootOpen, AnyPending, Pending, Recorded, Registered
<1>23. ASSUME NEW o \in Ends, CompleteEnd(o) PROVE CallFacts'
  BY <1>23 DEF CompleteEnd, Step, Done, ModeFacts, CallFacts, RetiringFacts, AnyBootOpen,
     BootOpen, AnyPending, Pending, Recorded, Registered
<1>24. ASSUME NEW o \in LifecycleOps, WriteSnapshot(o) PROVE CallFacts'
  <2>1. /\ call.at = "snapshot" /\ call' = [call EXCEPT !.at = "catalog"] /\ UNCHANGED <<mode, retiring, life, lineage, wal>>
        /\ snapshot' = [snapshot EXCEPT ![ThreadOf[o]] = wal[ThreadOf[o]].view]
    BY <1>24 DEF WriteSnapshot, Publishing, Step
  <2>2. call.op = o /\ call.job \in {"publish", "end"} /\ ThreadOf[o] \in Threads BY <1>24, PublishingIs
  <2>3. snapshot'[ThreadOf[o]] = wal[ThreadOf[o]].view BY <2>1, <2>2 DEF FilesTypeOK
  <2>4. call'.job = call.job /\ call'.op = call.op /\ call'.at = "catalog" BY <2>1, <2>2 DEF FilesTypeOK, Calls
  <2> QED BY <2>1, <2>2, <2>3, <2>4 DEF CallFacts, AnyBootOpen, BootOpen, AnyPending, Pending, Recorded
<1>25. ASSUME NEW o \in LifecycleOps, WriteCatalog(o) PROVE CallFacts'
  <2>1. /\ call.at = "catalog" /\ call' = [call EXCEPT !.at = "wal"] /\ UNCHANGED <<mode, retiring, life, lineage, wal, snapshot>>
        /\ catalog' = wal[ThreadOf[o]].rows
    BY <1>25 DEF WriteCatalog, Publishing, Step
  <2>2. call.op = o /\ call.job \in {"publish", "end"} /\ ThreadOf[o] \in Threads
        /\ wal[ThreadOf[o]].rows[ThreadOf[o]] = wal[ThreadOf[o]].view
    BY <1>25, PublishingIs DEF PendingFact
  <2>3. call'.job = call.job /\ call'.op = call.op /\ call'.at = "wal" BY <2>1, <2>2 DEF FilesTypeOK, Calls
  <2> QED BY <2>1, <2>2, <2>3 DEF CallFacts, AnyBootOpen, BootOpen, AnyPending, Pending, Recorded
<1>26. ASSUME NEW o \in LifecycleOps, RemoveWal(o) PROVE CallFacts'
  <2>1. /\ ThreadOf[o] \in Threads /\ wal' = [wal EXCEPT ![ThreadOf[o]] = NoTx]
        /\ \A t \in Threads \ {ThreadOf[o]} : ~Pending(t)
        /\ call.op = o /\ call.job \in {"publish", "end"}
    BY <1>26, PublishingIs DEF RemoveWal
  <2>2. \A t \in Threads : ~Pending(t)' BY <2>1 DEF FilesTypeOK, Pending
  <2>3. /\ UNCHANGED <<mode, retiring, life, boot>>
        /\ \/ call' = Idle
           \/ mode # "replay" /\ o \in Ends /\ call' = Job("end", o, "complete")
           \/ mode # "replay" /\ o \notin Ends /\ wal[ThreadOf[o]].lease /\ call' = Job("publish", o, "proof")
    BY <1>26 DEF RemoveWal, Done
  <2>4. (o \in Ends => call.job = "end") /\ (o \notin Ends => call.job = "publish")
    BY <2>1 DEF FilesTypeOK, Calls
  <2>5. call.at = "wal" BY <1>26 DEF RemoveWal, Publishing, Step
  <2> QED BY <1>i, <2>1, <2>2, <2>3, <2>4, <2>5 DEF CallFacts, AnyBootOpen, BootOpen, AnyPending, Pending, Recorded
<1>27. ASSUME NEW o \in Provisions, PrepareProvision(o) PROVE CallFacts'
  BY <1>27 DEF PrepareProvision, Ready, ModeFacts, CallFacts, RetiringFacts, AnyBootOpen,
     BootOpen, AnyPending, Pending, Recorded, Registered
<1>28. ASSUME NEW o \in Provisions, RegisterProvision(o, Retirable # {}) PROVE CallFacts'
  BY <1>28 DEF RegisterProvision, Step, ModeFacts, CallFacts, RetiringFacts, AnyBootOpen,
     BootOpen, AnyPending, Pending, Recorded, Registered
<1>29. ASSUME NEW o \in Provisions, FailCreate(o) PROVE CallFacts'
  BY <1>29 DEF FailCreate, Ready, ModeFacts, CallFacts, RetiringFacts, AnyBootOpen, BootOpen,
     AnyPending, Pending, Recorded, Registered
<1>30. ASSUME NEW o \in Provisions, ObservePromotion(o) PROVE CallFacts'
  BY <1>30 DEF ObservePromotion, Ready, ModeFacts, CallFacts, RetiringFacts, AnyBootOpen,
     BootOpen, AnyPending, Pending, Recorded, Registered
<1>31. ASSUME NEW o \in Provisions, CommitProvision(o) PROVE CallFacts'
  BY <1>31 DEF CommitProvision, Ready, ModeFacts, CallFacts, RetiringFacts, AnyBootOpen,
     BootOpen, AnyPending, Pending, Recorded, Registered
<1>32. ASSUME NEW o \in Ends, PrepareEnd(o) PROVE CallFacts'
  BY <1>32 DEF PrepareEnd, Ready, OnThread, ModeFacts, CallFacts, RetiringFacts, AnyBootOpen,
     BootOpen, AnyPending, Pending, Recorded, Registered
<1>33. ASSUME NEW o \in Ends, AcknowledgeEnd(o) PROVE CallFacts'
  BY <1>33 DEF AcknowledgeEnd, Ready, ModeFacts, CallFacts, RetiringFacts, AnyBootOpen,
     BootOpen, AnyPending, Pending, Recorded, Registered
<1>34. ASSUME NEW o \in Ends, RecoverAfter(o) PROVE CallFacts'
  BY <1>34 DEF RecoverAfter, ModeFacts, CallFacts, RetiringFacts, AnyBootOpen, BootOpen,
     AnyPending, Pending, Recorded, Registered
<1>35. ASSUME NEW o \in LifecycleOps, QuarantineUnknown(o) PROVE CallFacts'
  BY <1>35 DEF QuarantineUnknown, Ready, ModeFacts, CallFacts, RetiringFacts, AnyBootOpen,
     BootOpen, AnyPending, Pending, Recorded, Registered
<1>36. ASSUME NEW o \in LifecycleOps, RecoverBefore(o) PROVE CallFacts'
  BY <1>36 DEF RecoverBefore, ModeFacts, CallFacts, RetiringFacts, AnyBootOpen, BootOpen,
     AnyPending, Pending, Recorded, Registered
<1>37. CASE BeginRetirement
  <2>1. \/ call' = Idle
        \/ UNCHANGED <<mode, call, todo, files, wal, boot, fenced>>
    BY <1>37 DEF BeginRetirement, Degrade
  <2>2. call.job \in {"bootstrap", "provision"} /\ (call.job = "bootstrap" => call.at \in {"write", "lifecycle"})
    BY <1>37 DEF BeginRetirement, Retirable, Step
  <2> QED BY <1>i, <1>r, <2>1, <2>2
<1>38. CASE WriteFence
  <2>1. \/ call' = Idle
        \/ UNCHANGED <<mode, call, todo, files, wal, boot>> /\ fenced \subseteq fenced'
    BY <1>38 DEF WriteFence, Degrade
  <2>2. retiring # "no" BY <1>38 DEF WriteFence
  <2> QED BY <1>i, <1>q, <1>r, <2>1, <2>2
<1>39. CASE ReleaseReservation
  <2>1. UNCHANGED <<mode, call, todo, files, wal, fenced>> /\ retiring # "no" BY <1>39 DEF ReleaseReservation
  <2>2. \A c \in Bootstraps : boot'[c].phase = boot[c].phase BY <1>39, <1>t DEF ReleaseReservation, BootRecords
  <2> QED BY <1>q, <1>r, <2>1, <2>2
<1>40. CASE RemoveLineage
  <2>1. UNCHANGED <<mode, call, todo, files, wal, boot, fenced>> /\ retiring # "no" BY <1>40 DEF RemoveLineage
  <2> QED BY <1>q, <1>r, <2>1
<1>41. CASE RemoveBinding
  <2>1. UNCHANGED <<mode, call, todo, files, wal, boot, fenced>> /\ retiring # "no" BY <1>41 DEF RemoveBinding
  <2> QED BY <1>q, <1>r, <2>1
<1>42. CASE RemoveOperation
  <2>1. UNCHANGED <<mode, call, todo, files, wal, boot, fenced>> /\ retiring # "no" BY <1>42 DEF RemoveOperation
  <2> QED BY <1>q, <1>r, <2>1
<1>43. CASE CompactBootstrap
  <2>1. UNCHANGED <<mode, call, todo, files, wal, fenced>> /\ retiring = "compact" BY <1>43 DEF CompactBootstrap
  <2>2. \A c \in Bootstraps : \/ boot'[c].phase = boot[c].phase
                              \/ boot'[c].phase = "none" /\ Registered(c) /\ Reserves[c] \in fenced
    BY <1>43, CompactedIs
  <2> QED BY <1>q, <1>r, <2>1, <2>2
<1>44. CASE RemoveMarker
  <2>1. UNCHANGED <<mode, call, todo, files, wal, boot, fenced>> /\ retiring # "no" BY <1>44 DEF RemoveMarker
  <2> QED BY <1>q, <1>r, <2>1
<1>45. CASE Boot
  BY <1>45 DEF Boot, Enter, ModeFacts, CallFacts, RetiringFacts, AnyBootOpen, BootOpen,
     AnyPending, Pending, Recorded, Registered
<1>46. CASE RecoverBootstraps
  BY <1>46 DEF RecoverBootstraps, Pass, Enter, ModeFacts, CallFacts, RetiringFacts, AnyBootOpen,
     BootOpen, AnyPending, Pending, Recorded, Registered
<1>47. CASE RecoverLifecycles
  BY <1>47 DEF RecoverLifecycles, Pass, Enter, Degrade, ModeFacts, CallFacts, RetiringFacts,
     AnyBootOpen, BootOpen, AnyPending, Pending, Recorded, Registered
<1>48. CASE RecoverPublications
  BY <1>48 DEF RecoverPublications, Pass, Enter, ModeFacts, CallFacts, RetiringFacts,
     AnyBootOpen, BootOpen, AnyPending, Pending, Recorded, Registered
<1>49. CASE RecoverEnds
  BY <1>49 DEF RecoverEnds, Pass, Enter, ModeFacts, CallFacts, RetiringFacts, AnyBootOpen,
     BootOpen, AnyPending, Pending, Recorded, Registered
<1>50. CASE Serve
  BY <1>50 DEF Serve, Pass, Enter, Degrade, ModeFacts, CallFacts, RetiringFacts, AnyBootOpen,
     BootOpen, AnyPending, Pending, Recorded, Registered
<1>51. ASSUME NEW t \in Threads, Replay(t) PROVE CallFacts'
  <2> DEFINE o == wal[t].op
  <2>1. mode = "replay" /\ Pending(t) BY <1>51 DEF Replay, ModeFacts
  <2>2. /\ ThreadOf[o] = t /\ o \in LifecycleOps /\ retiring = "no"
        /\ o \in Ends => Recorded(o)
    <3>1. retiring = "no" BY <2>1 DEF RetiringFacts
    <3> QED BY <2>1, <3>1, PendingTyped DEF FilesInvariant, DurableFacts, PendingFact
  <2>3. UNCHANGED <<mode, retiring, wal, life>>
        /\ ((call' = Job("end", o, "check") /\ o \in Ends) \/ call' = Job("publish", o, "lineage"))
    BY <1>51 DEF Replay
  <2> QED BY <2>1, <2>2, <2>3 DEF CallFacts, AnyBootOpen, BootOpen, AnyPending, Pending, Recorded
<1>52. CASE Crash
  BY <1>52 DEF Crash, ModeFacts, CallFacts, RetiringFacts, AnyBootOpen, BootOpen, AnyPending,
     Pending, Recorded, Registered
<1>53. CASE WorkspaceChange
  BY <1>53, <1>s DEF WorkspaceChange
<1>54. CASE UNCHANGED storeFilesVars
  BY <1>54, <1>s DEF storeFilesVars, stateVars
<1> QED BY <1>1, <1>2, <1>3, <1>4, <1>5, <1>6, <1>7, <1>8, <1>9, <1>10, <1>11, <1>12, <1>13,
     <1>14, <1>15, <1>16, <1>17, <1>18, <1>19, <1>20, <1>21, <1>22, <1>23, <1>24, <1>25, <1>26,
     <1>27, <1>28, <1>29, <1>30, <1>31, <1>32, <1>33, <1>34, <1>35, <1>36, <1>37, <1>38, <1>39,
     <1>40, <1>41, <1>42, <1>43, <1>44, <1>45, <1>46, <1>47, <1>48, <1>49, <1>50, <1>51, <1>52,
     <1>53, <1>54
  DEF FilesNext, BootstrapStep, PublicationStep, LifecycleStep, Retirement, Recovery

-----------------------------------------------------------------------------
(* A retirement in progress.                                               *)

(* What a retirement in progress rests on stays true.                       *)
LEMMA RetiringStep ==
  ASSUME FilesInvariant, [FilesNext]_storeFilesVars
  PROVE RetiringFacts'
<1> FilesTypeOK /\ ModeFacts /\ CallFacts /\ RetiringFacts BY DEF FilesInvariant
<1> USE DEF Idle, Job
<1>n. ASSUME retiring' = "no" PROVE RetiringFacts' BY <1>n DEF RetiringFacts
<1>s. ASSUME retiring # "no", retiring = "fence" <=> retiring' = "fence",
             UNCHANGED <<mode, call, marker, target, fenced, snapshot, wal>>,
             retiring' \in {"lineage", "binding", "predecessor"} => marker \in Ends,
             retiring' \in {"compact", "marker"} => life'[marker] = "none"
      PROVE RetiringFacts'
  <2>1. Group(marker)' = Group(marker) BY <1>s DEF Group
  <2>2. marker' = marker /\ (marker \in Ends => snapshot'[ThreadOf[marker']] = snapshot[ThreadOf[marker]]) BY <1>s
  <2>3. marker \in Ends => Pending(ThreadOf[marker])' = Pending(ThreadOf[marker]) BY <1>s DEF Pending
  <2> QED BY <1>s, <2>1, <2>2, <2>3 DEF RetiringFacts, Recorded, Pending
<1>1. ASSUME NEW b \in Bootstraps, PrepareBootstrap(b), UNCHANGED projectionVars PROVE RetiringFacts'
  BY <1>1 DEF PrepareBootstrap, Ready, ModeFacts, CallFacts, RetiringFacts, Pending, Recorded
<1>2. ASSUME NEW b \in Bootstraps, RecordPrepared(b), UNCHANGED projectionVars PROVE RetiringFacts'
  BY <1>2 DEF RecordPrepared, Step, Opened, NoRecord, ModeFacts, CallFacts, RetiringFacts,
     Pending, Recorded
<1>3. ASSUME NEW b \in Bootstraps, RefuseBootstrapsFull(b, Retirable # {}), UNCHANGED projectionVars PROVE RetiringFacts'
  BY <1>3 DEF RefuseBootstrapsFull, Step, Throw, ModeFacts, CallFacts, RetiringFacts, Pending,
     Recorded
<1>4. ASSUME NEW b \in Bootstraps, Reactivate(b), UNCHANGED projectionVars PROVE RetiringFacts'
  BY <1>4 DEF Reactivate, Ready, Opened, NoRecord, ModeFacts, CallFacts, RetiringFacts, Pending,
     Recorded
<1>5. ASSUME NEW b \in Bootstraps, CheckArtifacts(b), UNCHANGED projectionVars PROVE RetiringFacts'
  BY <1>5 DEF CheckArtifacts, Step, Unavailable, Throw, ModeFacts, CallFacts, RetiringFacts,
     Pending, Recorded
<1>6. ASSUME NEW b \in Bootstraps, Claim(b), UNCHANGED projectionVars PROVE RetiringFacts'
  BY <1>6 DEF Claim, Placing, Step, ModeFacts, CallFacts, RetiringFacts, Pending, Recorded
<1>7. ASSUME NEW b \in Bootstraps, Place(b), UNCHANGED projectionVars PROVE RetiringFacts'
  BY <1>7 DEF Place, Placing, Step, Write, ModeFacts, CallFacts, RetiringFacts, Pending,
     Recorded
<1>8. ASSUME NEW b \in Bootstraps, Advance(b), UNCHANGED projectionVars PROVE RetiringFacts'
  BY <1>8 DEF Advance, Placing, Step, Throw, ModeFacts, CallFacts, RetiringFacts, Pending,
     Recorded
<1>9. ASSUME NEW b \in Bootstraps, CommitBootstrap(b), UNCHANGED projectionVars PROVE RetiringFacts'
  BY <1>9 DEF CommitBootstrap, Step, Unavailable, Throw, ModeFacts, CallFacts, RetiringFacts,
     Pending, Recorded
<1>10. ASSUME NEW b \in Bootstraps, Settle(b), UNCHANGED projectionVars PROVE RetiringFacts'
  BY <1>10 DEF Settle, Step, Done, ModeFacts, CallFacts, RetiringFacts, Pending, Recorded
<1>11. ASSUME NEW b \in Bootstraps, PrepareReserved(b, Retirable # {}), UNCHANGED projectionVars PROVE RetiringFacts'
  BY <1>11 DEF PrepareReserved, Step, Unavailable, Throw, Done, ModeFacts, CallFacts,
     RetiringFacts, Pending, Recorded
<1>12. ASSUME NEW b \in Bootstraps, PlanRollback(b), UNCHANGED projectionVars PROVE RetiringFacts'
  BY <1>12 DEF PlanRollback, Step, Throw, ModeFacts, CallFacts, RetiringFacts, Pending, Recorded
<1>13. ASSUME NEW b \in Bootstraps, RemoveArtifact(b), UNCHANGED projectionVars PROVE RetiringFacts'
  BY <1>13 DEF RemoveArtifact, Undoing, Step, Remove, Throw, ModeFacts, CallFacts,
     RetiringFacts, Pending, Recorded
<1>14. ASSUME NEW b \in Bootstraps, AdvanceRollback(b), UNCHANGED projectionVars PROVE RetiringFacts'
  BY <1>14 DEF AdvanceRollback, Undoing, Step, Throw, ModeFacts, CallFacts, RetiringFacts,
     Pending, Recorded
<1>15. ASSUME NEW b \in Bootstraps, RetireRollback(b), UNCHANGED projectionVars PROVE RetiringFacts'
  BY <1>15 DEF RetireRollback, Step, Done, Throw, ModeFacts, CallFacts, RetiringFacts, Pending,
     Recorded
<1>16. ASSUME NEW b \in Bootstraps, RecoverBootstrap(b), UNCHANGED projectionVars PROVE RetiringFacts'
  BY <1>16 DEF RecoverBootstrap, ModeFacts, CallFacts, RetiringFacts, Pending, Recorded
<1>17. ASSUME NEW o \in Provisions, NEW c \in Cursors, PreparePublication(o, c) PROVE RetiringFacts'
  BY <1>17 DEF PreparePublication, Ready, ModeFacts, CallFacts, RetiringFacts, Pending, Recorded
<1>18. ASSUME NEW o \in Provisions, PublishSame(o) PROVE RetiringFacts'
  BY <1>18 DEF PublishSame, Ready, ModeFacts, CallFacts, RetiringFacts, Pending, Recorded
<1>19. ASSUME NEW o \in Provisions, WriteLineage(o) PROVE RetiringFacts'
  BY <1>19 DEF WriteLineage, Step, Throw, ModeFacts, CallFacts, RetiringFacts, Pending, Recorded
<1>20. ASSUME NEW o \in Provisions, WriteProof(o) PROVE RetiringFacts'
  BY <1>20 DEF WriteProof, Step, ModeFacts, CallFacts, RetiringFacts, Pending, Recorded
<1>21. ASSUME NEW o \in Ends, PrepareEndProjection(o) PROVE RetiringFacts'
  BY <1>21 DEF PrepareEndProjection, Step, ModeFacts, CallFacts, RetiringFacts, Pending,
     Recorded
<1>22. ASSUME NEW o \in Ends, CheckEndProjection(o) PROVE RetiringFacts'
  BY <1>22 DEF CheckEndProjection, Step, Throw, ModeFacts, CallFacts, RetiringFacts, Pending,
     Recorded
<1>23. ASSUME NEW o \in Ends, CompleteEnd(o) PROVE RetiringFacts'
  BY <1>23 DEF CompleteEnd, Step, Done, ModeFacts, CallFacts, RetiringFacts, Pending, Recorded
<1>24. ASSUME NEW o \in LifecycleOps, WriteSnapshot(o) PROVE RetiringFacts'
  BY <1>24 DEF WriteSnapshot, Publishing, Step, ModeFacts, CallFacts, RetiringFacts, Pending,
     Recorded
<1>25. ASSUME NEW o \in LifecycleOps, WriteCatalog(o) PROVE RetiringFacts'
  BY <1>25 DEF WriteCatalog, Publishing, Step, ModeFacts, CallFacts, RetiringFacts, Pending,
     Recorded
<1>26. ASSUME NEW o \in LifecycleOps, RemoveWal(o) PROVE RetiringFacts'
  BY <1>26 DEF RemoveWal, Publishing, Step, Done, ModeFacts, CallFacts, RetiringFacts, Pending,
     Recorded
<1>27. ASSUME NEW o \in Provisions, PrepareProvision(o) PROVE RetiringFacts'
  BY <1>27 DEF PrepareProvision, Ready, ModeFacts, CallFacts, RetiringFacts, Pending, Recorded
<1>28. ASSUME NEW o \in Provisions, RegisterProvision(o, Retirable # {}) PROVE RetiringFacts'
  BY <1>28 DEF RegisterProvision, Step, ModeFacts, CallFacts, RetiringFacts, Pending, Recorded
<1>29. ASSUME NEW o \in Provisions, FailCreate(o) PROVE RetiringFacts'
  BY <1>29 DEF FailCreate, Ready, ModeFacts, CallFacts, RetiringFacts, Pending, Recorded
<1>30. ASSUME NEW o \in Provisions, ObservePromotion(o) PROVE RetiringFacts'
  BY <1>30 DEF ObservePromotion, Ready, ModeFacts, CallFacts, RetiringFacts, Pending, Recorded
<1>31. ASSUME NEW o \in Provisions, CommitProvision(o) PROVE RetiringFacts'
  BY <1>31 DEF CommitProvision, Ready, ModeFacts, CallFacts, RetiringFacts, Pending, Recorded
<1>32. ASSUME NEW o \in Ends, PrepareEnd(o) PROVE RetiringFacts'
  BY <1>32 DEF PrepareEnd, Ready, OnThread, ModeFacts, CallFacts, RetiringFacts, Pending,
     Recorded
<1>33. ASSUME NEW o \in Ends, AcknowledgeEnd(o) PROVE RetiringFacts'
  BY <1>33 DEF AcknowledgeEnd, Ready, ModeFacts, CallFacts, RetiringFacts, Pending, Recorded
<1>34. ASSUME NEW o \in Ends, RecoverAfter(o) PROVE RetiringFacts'
  BY <1>34 DEF RecoverAfter, ModeFacts, CallFacts, RetiringFacts, Pending, Recorded
<1>35. ASSUME NEW o \in LifecycleOps, QuarantineUnknown(o) PROVE RetiringFacts'
  BY <1>35 DEF QuarantineUnknown, Ready, ModeFacts, CallFacts, RetiringFacts, Pending, Recorded
<1>36. ASSUME NEW o \in LifecycleOps, RecoverBefore(o) PROVE RetiringFacts'
  BY <1>36 DEF RecoverBefore, ModeFacts, CallFacts, RetiringFacts, Pending, Recorded
<1>37. CASE BeginRetirement
  <2>1. PICK h \in Retirable : (marker' = h /\ retiring' = "fence" /\ UNCHANGED <<mode, call>>) \/ retiring' = "no"
    BY <1>37 DEF BeginRetirement, Degrade
  <2>2. h \in LifecycleOps BY DEF Retirable
  <2>3. /\ call.job \in {"bootstrap", "provision"}
        /\ call.job = "bootstrap" => call.at \in {"write", "lifecycle"}
    BY DEF Retirable, Step
  <2>4. (call.job = "bootstrap" => mode \in {"bootstrap", "up"}) /\ (call.job = "provision" => mode = "up")
    BY DEF CallFacts
  <2> QED BY <1>n, <2>1, <2>2, <2>3, <2>4 DEF RetiringFacts
<1>38. CASE WriteFence
  <2>1. CASE retiring' = "no" BY <2>1, <1>n
  <2>2. CASE retiring' # "no"
    <3>1. /\ Provable(marker) /\ fenced' = fenced \cup Group(marker) /\ retiring' = "release" /\ retiring = "fence"
          /\ UNCHANGED <<mode, call, marker, target, snapshot, wal>>
      BY <1>38, <2>2 DEF WriteFence, Degrade
    <3>2. Group(marker)' = Group(marker) BY <3>1 DEF Group
    <3>3. marker \in Ends => snapshot[ThreadOf[marker]].st = "ended" /\ wal[ThreadOf[marker]] = NoTx
      BY <3>1 DEF Provable, PublicProof, Pending
    <3> QED BY <3>1, <3>2, <3>3 DEF RetiringFacts, Pending
  <2> QED BY <2>1, <2>2
<1>39. CASE ReleaseReservation
  <2>1. /\ retiring = "release" /\ retiring' = IF marker \in Ends THEN "lineage" ELSE "terminal"
        /\ UNCHANGED <<mode, call, marker, target, fenced, snapshot, wal>>
    BY <1>39 DEF ReleaseReservation
  <2> QED BY <1>s, <2>1
<1>40. CASE RemoveLineage
  <2>1. /\ retiring = "lineage" /\ retiring' = "binding"
        /\ UNCHANGED <<mode, call, marker, target, fenced, snapshot, wal, life>>
    BY <1>40 DEF RemoveLineage
  <2> QED BY <1>s, <2>1 DEF RetiringFacts, Recorded
<1>41. CASE RemoveBinding
  <2>1. /\ retiring = "binding" /\ retiring' = "predecessor"
        /\ UNCHANGED <<mode, call, marker, target, fenced, snapshot, wal, life>>
    BY <1>41 DEF RemoveBinding
  <2> QED BY <1>s, <2>1 DEF RetiringFacts, Recorded
<1>42. CASE RemoveOperation
  <2>1. UNCHANGED <<mode, call, marker, target, fenced, snapshot, wal>> BY <1>42 DEF RemoveOperation
  <2>2. CASE retiring = "predecessor"
    <3>1. retiring' = "terminal" BY <1>42, <2>2 DEF RemoveOperation
    <3> QED BY <1>s, <2>1, <2>2, <3>1
  <2>3. CASE retiring = "terminal"
    <3>1. retiring' = "compact" /\ life' = [life EXCEPT ![marker] = "none"] BY <1>42, <2>3 DEF RemoveOperation
    <3>2. life'[marker] = "none" BY <2>3, <3>1 DEF FilesTypeOK, RetiringFacts
    <3> QED BY <1>s, <2>1, <2>3, <3>1, <3>2
  <2> QED BY <1>42, <2>2, <2>3 DEF RemoveOperation
<1>43. CASE CompactBootstrap
  <2>1. /\ retiring = "compact" /\ retiring' = "marker"
        /\ UNCHANGED <<mode, call, marker, target, fenced, snapshot, wal, life>>
    BY <1>43 DEF CompactBootstrap
  <2> QED BY <1>s, <2>1 DEF RetiringFacts, Recorded
<1>44. CASE RemoveMarker
  BY <1>44 DEF RemoveMarker, ModeFacts, CallFacts, RetiringFacts, Pending, Recorded
<1>45. CASE Boot
  <2>1. retiring = "no" /\ marker \in LifecycleOps \cup {NoOp} BY <1>45 DEF Boot, ModeFacts, FilesTypeOK
  <2>2. \/ retiring' = "no"
        \/ retiring' = "fence" /\ mode' = "retirement" /\ marker # NoOp /\ UNCHANGED marker
    BY <1>45, <2>1 DEF Boot, Enter
  <2> QED BY <1>n, <2>1, <2>2 DEF RetiringFacts
<1>46. CASE RecoverBootstraps
  BY <1>46 DEF RecoverBootstraps, Pass, Enter, ModeFacts, CallFacts, RetiringFacts, Pending,
     Recorded
<1>47. CASE RecoverLifecycles
  BY <1>47 DEF RecoverLifecycles, Pass, Enter, Degrade, ModeFacts, CallFacts, RetiringFacts,
     Pending, Recorded
<1>48. CASE RecoverPublications
  BY <1>48 DEF RecoverPublications, Pass, Enter, ModeFacts, CallFacts, RetiringFacts, Pending,
     Recorded
<1>49. CASE RecoverEnds
  BY <1>49 DEF RecoverEnds, Pass, Enter, ModeFacts, CallFacts, RetiringFacts, Pending, Recorded
<1>50. CASE Serve
  BY <1>50 DEF Serve, Pass, Enter, Degrade, ModeFacts, CallFacts, RetiringFacts, Pending,
     Recorded
<1>51. ASSUME NEW t \in Threads, Replay(t) PROVE RetiringFacts'
  BY <1>51 DEF Replay, ModeFacts, CallFacts, RetiringFacts, Pending, Recorded
<1>52. CASE Crash
  BY <1>52 DEF Crash, ModeFacts, CallFacts, RetiringFacts, Pending, Recorded
<1>53. CASE WorkspaceChange
  <2>1. UNCHANGED <<mode, call, retiring, marker, target, fenced, snapshot, wal, life>> BY <1>53 DEF WorkspaceChange
  <2> QED BY <1>n, <1>s, <2>1 DEF RetiringFacts, Recorded
<1>54. CASE UNCHANGED storeFilesVars
  <2>1. UNCHANGED <<mode, call, retiring, marker, target, fenced, snapshot, wal, life>> BY <1>54 DEF storeFilesVars, stateVars
  <2> QED BY <1>n, <1>s, <2>1 DEF RetiringFacts, Recorded
<1> QED BY <1>1, <1>2, <1>3, <1>4, <1>5, <1>6, <1>7, <1>8, <1>9, <1>10, <1>11, <1>12, <1>13,
     <1>14, <1>15, <1>16, <1>17, <1>18, <1>19, <1>20, <1>21, <1>22, <1>23, <1>24, <1>25, <1>26,
     <1>27, <1>28, <1>29, <1>30, <1>31, <1>32, <1>33, <1>34, <1>35, <1>36, <1>37, <1>38, <1>39,
     <1>40, <1>41, <1>42, <1>43, <1>44, <1>45, <1>46, <1>47, <1>48, <1>49, <1>50, <1>51, <1>52,
     <1>53, <1>54
  DEF FilesNext, BootstrapStep, PublicationStep, LifecycleStep, Retirement, Recovery

-----------------------------------------------------------------------------
(* The theorems.                                                           *)

LEMMA InvariantInit == FilesInit => FilesInvariant
<1> SUFFICES ASSUME FilesInit PROVE FilesInvariant OBVIOUS
<1> USE DEF FilesInit, StateInit
<1>1. FilesTypeOK
  BY Typed DEF FilesTypeOK, Calls, Modes, RetiringSteps, HeldReasons, BindStates
<1>2. /\ \A b \in Bootstraps : boot[b].phase = "none"
      /\ \A o \in LifecycleOps : ~Recorded(o)
      /\ \A t \in Threads : ~Pending(t) /\ snapshot[t] = NoView /\ catalog[t] = NoView
  BY DEF NoRecord, Recorded, Pending
<1>3. NoView.st = "none" BY DEF NoView, Shows
<1>4. CatalogClosed BY <1>2 DEF CatalogClosed, Committed
<1>5. DurableFacts
  BY <1>2, <1>3, <1>4 DEF DurableFacts, PlanFact, AuthorityFacts, TargetFacts, PendingFact, AgreementFact, AnyBootOpen, BootOpen
<1>6. ModeFacts /\ CallFacts /\ RetiringFacts BY DEF ModeFacts, CallFacts, RetiringFacts, Idle
<1> QED BY <1>1, <1>5, <1>6 DEF FilesInvariant

LEMMA InvariantStep == FilesInvariant /\ [FilesNext]_storeFilesVars => FilesInvariant'
<1> SUFFICES ASSUME FilesInvariant, [FilesNext]_storeFilesVars PROVE FilesInvariant' OBVIOUS
<1>1. FilesTypeOK' BY TypeStep
<1>2. CatalogClosed' /\ AuthorityFacts' /\ TargetFacts' BY CatalogStep, AuthorityStep, TargetStep
<1>3. (\A b \in Bootstraps : PlanFact(b)') /\ (\A t \in Threads : PendingFact(t)' /\ AgreementFact(t)')
  BY PlanStep, PendingStep, AgreementStep
<1>4. AnyBootOpen' => ~AnyPending' BY OpenPendingStep
<1>5. DurableFacts' BY <1>2, <1>3, <1>4 DEF DurableFacts
<1>6. ModeFacts' /\ CallFacts' /\ RetiringFacts' BY ModeStep, CallStep, RetiringStep
<1> QED BY <1>1, <1>5, <1>6 DEF FilesInvariant

(* Whatever the crashes and the workspace do, the files, the passes of     *)
(* initialize() and the methods keep what FilesInvariant says of them.     *)
THEOREM FilesInvariantHolds == FilesSpec => []FilesInvariant
  BY InvariantInit, InvariantStep, PTL DEF FilesSpec

(* At every instant the public catalog refers to nothing that is missing:  *)
(* neither a materialization or a rollback that was cut short nor a        *)
(* publication that writes the whole catalog leaves a dangling row.        *)
THEOREM CatalogClosedHolds == FilesSpec => []CatalogClosed
<1>1. FilesInvariant => CatalogClosed BY DEF FilesInvariant, DurableFacts
<1> QED BY <1>1, FilesInvariantHolds, PTL

(* initialize() finishes or undoes every transaction before it serves: a   *)
(* reader never sees two public files of a thread that disagree, except    *)
(* for the snapshot a rollback leaves to another record, nor a live        *)
(* session off its lineage.                                                *)
THEOREM FilesAgreeHolds == FilesSpec => []FilesAgree
<1>1. ASSUME FilesInvariant, Ready PROVE ~AnyPending /\ ~AnyBootOpen /\ marker = NoOp
  BY <1>1 DEF FilesInvariant, ModeFacts, Ready, Idle
<1>2. ASSUME FilesInvariant, Ready, NEW t \in Threads
      PROVE /\ snapshot[t] = catalog[t] \/ LeftBehind(t)
            /\ snapshot[t].st = "live" => lineage[snapshot[t].of].at = snapshot[t].at
  <2>1. ~Pending(t) /\ ~AnyBootOpen BY <1>1, <1>2 DEF AnyPending
  <2>2. AgreementFact(t) BY <1>2 DEF FilesInvariant, DurableFacts
  <2>3. Unlisted(t) => LeftBehind(t) BY <2>1 DEF Unlisted, LeftBehind, AnyBootOpen
  <2> QED BY <2>1, <2>2, <2>3 DEF AgreementFact
<1>3. FilesInvariant => FilesAgree BY <1>1, <1>2 DEF FilesAgree
<1> QED BY <1>3, FilesInvariantHolds, PTL
=============================================================================
