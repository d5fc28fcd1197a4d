----------------------------- MODULE StoreFiles -----------------------------
(***************************************************************************)
(* The multi-file transactions of HostStore together: bootstrap and its    *)
(* rollback, publication and end projection, and the retirement of a       *)
(* terminal lifecycle group, which releases a workspace reservation and    *)
(* compacts the bootstrap that held it.  initialize() finishes what a      *)
(* crash interrupted in one order: retirement, bootstraps, lifecycle       *)
(* records, publications, lifecycle records again, validation.             *)
(*                                                                         *)
(* The process may stop between any two writes, and the one workspace      *)
(* directory may disappear and come back at any time.                      *)
(***************************************************************************)
EXTENDS WorkspaceBootstrap, ResidentProjections

storeFilesVars == <<stateVars, projectionVars>>

-----------------------------------------------------------------------------
(* Retirement.  A failed provision, or a completed end with the provision  *)
(* whose session it ended, leaves the registries; a fence on its           *)
(* identities stays.                                                       *)

TerminalHead(h) ==
    \/ h \in Provisions /\ life[h] = "failed"
    \/ h \in Ends /\ life[h] = "completed" /\ held[h] = "no" /\ bind[target[h]] = "completed"
Group(h) == IF h \in Ends THEN {target[h], h} ELSE {h}

(* Mutant: terminal groups are retired only when the bootstraps are full.  *)
RetirableFull == {h \in LifecycleOps : TerminalHead(h) /\ \E b \in Bootstraps :
    /\ Step("bootstrap", b, "write") /\ BootstrapsFull /\ Registered(b)
    /\ \E c \in Reservations : ~boot[c].released /\ Reserves[c] \in Group(h)}

(* What the method in progress retires before its next write: history of   *)
(* its own thread before a provision is registered, the group of a         *)
(* reservation when the bootstrap registry is full.                        *)
Retirable == {h \in LifecycleOps : TerminalHead(h) /\
    \/ \E p \in Provisions : Step("provision", p, "register") /\ ThreadOf[p] = ThreadOf[h]
    \/ \E b \in Bootstraps :
        /\ Step("bootstrap", b, "lifecycle") /\ ThreadOf[b] = ThreadOf[h]
        /\ LifecycleDue(b) /\ ws /\ ReservationFree(b) /\ ~ThreadBusy(ThreadOf[b])
    \/ \E b \in Bootstraps :
        /\ Step("bootstrap", b, "write") /\ BootstrapsFull /\ Registered(b)
        /\ \E c \in Reservations : ~boot[c].released /\ Reserves[c] \in Group(h)}

PublicProof(e) ==
    LET t == ThreadOf[e]  s == snapshot[t] IN
    /\ ~Pending(t) /\ catalog[t] = s /\ s.st = "ended" /\ s.of = e
    /\ lineage[target[e]].at \in {<<>>, s.at}
Provable(h) == h \in Ends => PublicProof(h)

AnyPending == \E t \in Threads : Pending(t)
AnyBootOpen == \E b \in Bootstraps : BootOpen(b)

(* A foreign error costs the resident subsystem, or all of initialize()    *)
(* when a bootstrap or a publication waits behind it.                      *)
Degrade ==
    /\ mode' = IF mode = "up" THEN "faulted"
               ELSE IF AnyPending \/ (mode = "bootstrap" /\ AnyBootOpen) THEN "failed"
               ELSE "degraded"
    /\ call' = Idle /\ retiring' = "no"

BeginRetirement == \E h \in Retirable :
    /\ IF Provable(h) THEN marker' = h /\ retiring' = "fence" /\ UNCHANGED <<mode, call>>
       ELSE Degrade /\ UNCHANGED marker
    /\ UNCHANGED <<files, boot, resident, fenced, projectionVars, ws, todo>>

WriteFence ==
    /\ retiring = "fence"
    /\ IF Provable(marker)
       THEN fenced' = fenced \cup Group(marker) /\ retiring' = "release" /\ UNCHANGED <<mode, call>>
       ELSE Degrade /\ UNCHANGED fenced
    /\ UNCHANGED <<files, boot, resident, marker, projectionVars, ws, todo>>

Releases == {b \in Reservations : Reserves[b] \in Group(marker)}

ReleaseReservation ==
    /\ retiring = "release"
    /\ boot' = [b \in Bootstraps |->
           IF b \in Releases THEN [boot[b] EXCEPT !.released = TRUE] ELSE boot[b]]
    /\ retiring' = IF marker \in Ends THEN "lineage" ELSE "terminal"
    /\ UNCHANGED <<files, resident, retirement, projectionVars, ws, mode, call, todo>>

RemoveLineage ==
    /\ retiring = "lineage"
    /\ lineage' = [lineage EXCEPT ![target[marker]] = NoLineage]
    /\ retiring' = "binding"
    /\ UNCHANGED <<files, boot, resident, retirement, wal, ws, mode, call, todo>>

RemoveBinding ==
    /\ retiring = "binding"
    /\ bind' = [bind EXCEPT ![target[marker]] = "none"]
    /\ retiring' = "predecessor"
    /\ UNCHANGED <<files, boot, life, held, target, retirement, projectionVars, ws, mode, call, todo>>

RemoveOperation ==
    \/ /\ retiring = "predecessor"
       /\ life' = [life EXCEPT ![target[marker]] = "none"]
       /\ retiring' = "terminal"
       /\ UNCHANGED <<files, boot, held, bind, target, retirement, projectionVars, ws, mode, call, todo>>
    \/ /\ retiring = "terminal"
       /\ life' = [life EXCEPT ![marker] = "none"]
       /\ retiring' = "compact"
       /\ UNCHANGED <<files, boot, held, bind, target, retirement, projectionVars, ws, mode, call, todo>>

CompactBootstrap ==
    /\ retiring = "compact"
    /\ boot' = [b \in Bootstraps |-> IF b \in Releases THEN NoRecord ELSE boot[b]]
    /\ retiring' = "marker"
    /\ UNCHANGED <<files, resident, retirement, projectionVars, ws, mode, call, todo>>

RemoveMarker ==
    /\ retiring = "marker"
    /\ marker' = NoOp
    /\ target' = [e \in Ends |-> IF e = marker THEN NoOp ELSE target[e]]
    /\ retiring' = "no"
    /\ UNCHANGED <<files, boot, life, held, bind, fenced, projectionVars, ws, mode, call, todo>>

Retirement ==
    \/ BeginRetirement \/ WriteFence \/ ReleaseReservation \/ RemoveLineage
    \/ RemoveBinding \/ RemoveOperation \/ CompactBootstrap \/ RemoveMarker

-----------------------------------------------------------------------------
(* Restart.                                                                *)

Crash ==
    /\ mode # "down" /\ mode' = "down"
    /\ call' = Idle /\ retiring' = "no" /\ todo' = {}
    /\ UNCHANGED <<files, boot, resident, retirement, projectionVars, ws>>

WorkspaceChange ==
    /\ ws' = ~ws
    /\ UNCHANGED <<files, boot, resident, retirement, projectionVars, mode, call, retiring, todo>>

OneOpenBootstrap == \A b, c \in Bootstraps :
    BootOpen(b) /\ BootOpen(c) /\ ThreadOf[b] = ThreadOf[c] => b = c
OneOpenOperation == \A o, p \in LifecycleOps :
    Nonterminal(o) /\ Nonterminal(p) /\ ThreadOf[o] = ThreadOf[p] => o = p

Enter(stage, visit) ==
    /\ mode' = stage /\ todo' = visit
    /\ UNCHANGED <<files, boot, resident, retirement, projectionVars, ws, call>>
Pass(stage) == mode = stage /\ call = Idle /\ retiring = "no" /\ todo = {}

Boot ==
    /\ mode = "down"
    /\ IF OneOpenBootstrap
       THEN retiring' = (IF marker = NoOp THEN "no" ELSE "fence") /\ Enter("retirement", {})
       ELSE UNCHANGED retiring /\ Enter("failed", {})

RecoverBootstraps ==
    /\ Pass("retirement") /\ UNCHANGED retiring
    /\ Enter("bootstrap", {b \in BootRecorded : boot[b].phase # "retired"})

RecoverLifecycles ==
    /\ Pass("bootstrap")
    /\ IF OneOpenOperation THEN UNCHANGED retiring /\ Enter("before", {o \in LifecycleOps : Recorded(o)})
       ELSE Degrade /\ UNCHANGED <<files, boot, resident, retirement, projectionVars, ws, todo>>

(* Mutant: only live publications are replayed, not those of an end.       *)
RecoverLivePublications ==
    /\ Pass("before") /\ UNCHANGED retiring
    /\ Enter("replay", {t \in Threads : Pending(t) /\ wal[t].op \in Provisions})

RecoverPublications ==
    /\ Pass("before") /\ UNCHANGED retiring
    /\ Enter("replay", {t \in Threads : Pending(t)})

RecoverEnds ==
    /\ Pass("replay") /\ UNCHANGED retiring
    /\ Enter("after", {e \in Ends : life[e] \in {"acknowledged", "completed"} /\ held[e] = "no"})

(* validateResidentState.                                                  *)
ValidFiles ==
    /\ \A t \in authority : project /\ catalog[t] # NoView
    /\ \A p \in Provisions : bind[p] = "active" => ws /\ ThreadOf[p] \in authority
    /\ \A e \in Ends :
        /\ life[e] = "acknowledged" => held[e] = "no"
        /\ life[e] = "completed" => bind[target[e]] = "completed"

Serve ==
    /\ Pass("after")
    /\ IF ValidFiles THEN UNCHANGED retiring /\ Enter("up", {})
       ELSE Degrade /\ UNCHANGED <<files, boot, resident, retirement, projectionVars, ws, todo>>

-----------------------------------------------------------------------------
BootstrapStep(b) ==
    /\ \/ PrepareBootstrap(b) \/ RecordPrepared(b) \/ RefuseBootstrapsFull(b, Retirable # {})
       \/ Reactivate(b) \/ CheckArtifacts(b) \/ Claim(b) \/ Place(b) \/ Advance(b)
       \/ CommitBootstrap(b) \/ Settle(b) \/ PrepareReserved(b, Retirable # {})
       \/ PlanRollback(b) \/ RemoveArtifact(b) \/ AdvanceRollback(b) \/ RetireRollback(b)
       \/ RecoverBootstrap(b)
    /\ UNCHANGED projectionVars

PublicationStep(o) ==
    \/ o \in Provisions /\ (\E c \in Cursors : PreparePublication(o, c))
    \/ o \in Provisions /\ (PublishSame(o) \/ WriteLineage(o) \/ WriteProof(o))
    \/ o \in Ends /\ (PrepareEndProjection(o) \/ CheckEndProjection(o) \/ CompleteEnd(o))
    \/ WriteSnapshot(o) \/ WriteCatalog(o) \/ RemoveWal(o)

LifecycleStep(o) ==
    \/ o \in Provisions /\ (\/ PrepareProvision(o) \/ RegisterProvision(o, Retirable # {})
                            \/ FailCreate(o) \/ ObservePromotion(o) \/ CommitProvision(o))
    \/ o \in Ends /\ (PrepareEnd(o) \/ AcknowledgeEnd(o) \/ RecoverAfter(o))
    \/ QuarantineUnknown(o) \/ RecoverBefore(o)

Recovery ==
    \/ Boot \/ RecoverBootstraps \/ RecoverLifecycles \/ RecoverPublications
    \/ RecoverEnds \/ Serve \/ (\E t \in Threads : Replay(t))

FilesInit ==
    /\ StateInit
    /\ lineage = [p \in Provisions |-> NoLineage]
    /\ wal = [t \in Threads |-> NoTx]

FilesNext ==
    \/ \E b \in Bootstraps : BootstrapStep(b)
    \/ \E o \in LifecycleOps : PublicationStep(o) \/ LifecycleStep(o)
    \/ Retirement \/ Recovery \/ Crash \/ WorkspaceChange

FilesSpec == FilesInit /\ [][FilesNext]_storeFilesVars

-----------------------------------------------------------------------------
(* Properties.                                                             *)

(* At every instant, in the middle of any transaction, the public catalog  *)
(* is closed: an authority has its thread, a thread its snapshot, and any  *)
(* of them its project; a committed bootstrap has all that it answered for.*)
CatalogClosed ==
    /\ \A t \in authority : catalog[t] # NoView
    /\ \A t \in Threads :
        /\ catalog[t] # NoView => snapshot[t] # NoView
        /\ snapshot[t] # NoView => project
    /\ \A b \in Bootstraps : Committed(b) => ThreadOf[b] \in authority

(* The snapshot a rolled-back bootstrap placed, with no row in the         *)
(* catalog: another record of the thread kept it from being removed.       *)
LeftBehind(t) ==
    /\ snapshot[t] = Initial /\ catalog[t] = NoView
    /\ \E b \in Bootstraps : ThreadOf[b] = t /\ boot[b].phase = "retired" /\ "snapshot" \in boot[b].retain

(* A Store that serves shows one state: the two public files of a thread   *)
(* agree but for what a rollback left behind, a live session's lineage is  *)
(* at the cursor they show, and no transaction is half done.               *)
FilesAgree == Ready =>
    /\ ~AnyPending /\ ~AnyBootOpen /\ marker = NoOp
    /\ \A t \in Threads :
        /\ snapshot[t] = catalog[t] \/ LeftBehind(t)
        /\ snapshot[t].st = "live" => lineage[snapshot[t].of].at = snapshot[t].at

(* A registered bootstrap keeps its workspace: a served reservation has    *)
(* its lifecycle record until an exact retirement releases it, and while   *)
(* that provision is open or its session commands, nothing else runs there.*)
ReservedExclusive ==
    \A b \in Reservations : LET p == Reserves[b] IN
    /\ Ready /\ ~boot[b].released => Recorded(p)
    /\ Nonterminal(p) \/ Commanding(p) =>
           \A q \in Provisions \ {p} : ~Nonterminal(q) /\ ~Commanding(q)

(* initialize() gives up, whole or without its residents, only for want of *)
(* the workspace: no crash leaves files that it cannot finish or reject.   *)
StartsUnlessMissing == [][
    mode' \in {"failed", "degraded"} /\ mode' # mode =>
        \/ ~ws \/ call.at = "plan"
        \/ \E o \in LifecycleOps : held[o] = "missing"]_storeFilesVars

(* What a reader of the Store is promised: each thread's state changes in  *)
(* one step, forward along its session's cursor.                           *)
Promised == INSTANCE PublishedThreads WITH
    view <- [t \in Threads |-> IF Pending(t) THEN wal[t].view ELSE snapshot[t]],
    last <- [p \in Provisions |->
        LET tx == wal[ThreadOf[p]] IN IF tx # NoTx /\ tx.op = p THEN tx.next ELSE lineage[p]],
    over <- {p \in Provisions :
        \/ bind[p] = "completed" \/ p \in fenced
        \/ \E e \in Ends : target[e] = p /\ (IF Pending(ThreadOf[e]) THEN wal[ThreadOf[e]].view
                                             ELSE snapshot[ThreadOf[e]]).of = e}
(* ... the abstract specification, as a property of this one.              *)
PublishedSpec == Promised!PublishedSpec
=============================================================================
