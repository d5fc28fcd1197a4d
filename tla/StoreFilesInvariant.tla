------------------------ MODULE StoreFilesInvariant -------------------------
(***************************************************************************)
(* The inductive invariant of the Store's files: what they say of one      *)
(* another while a transaction or a recovery pass is somewhere between two *)
(* of its writes.                                                          *)
(***************************************************************************)
EXTENDS StoreFiles

Views == [st : {"none", "initial", "live", "ended"}, of : LifecycleOps \cup {NoOp},
          at : Cursors \cup {<<>>}]
Lineages == [at : Cursors \cup {<<>>}, retired : SUBSET Nat]
Transactions == [op : LifecycleOps, lease : BOOLEAN, view : Views, source : Views,
                 prev : Lineages, next : Lineages, rows : [Threads -> Views]]
BootRecords == [phase : BootPhases, claimed : SUBSET Artifacts, placed : SUBSET Artifacts,
                adopted : SUBSET Artifacts, remove : SUBSET Artifacts,
                retain : SUBSET Artifacts, undone : SUBSET Artifacts, released : BOOLEAN]

BootSteps == {"write", "check", "place", "lifecycle", "plan", "undo"}
PublishSteps == {"lineage", "snapshot", "catalog", "wal", "proof"}
EndSteps == {"project", "check", "snapshot", "catalog", "wal", "complete"}
Calls == {Idle}
    \cup [job : {"bootstrap"}, op : Bootstraps, at : BootSteps]
    \cup [job : {"provision"}, op : Provisions, at : {"register"}]
    \cup [job : {"publish"}, op : Provisions, at : PublishSteps]
    \cup [job : {"end"}, op : Ends, at : EndSteps]
RetiringSteps == {"no", "fence", "release", "lineage", "binding", "predecessor",
                  "terminal", "compact", "marker"}

FilesTypeOK ==
    /\ project \in BOOLEAN /\ authority \subseteq Threads
    /\ snapshot \in [Threads -> Views] /\ catalog \in [Threads -> Views]
    /\ boot \in [Bootstraps -> BootRecords]
    /\ life \in [LifecycleOps -> {"none"} \cup ProvisionStages \cup EndStages]
    /\ held \in [LifecycleOps -> HeldReasons]
    /\ bind \in [Provisions -> BindStates]
    /\ target \in [Ends -> Provisions \cup {NoOp}]
    /\ fenced \subseteq LifecycleOps /\ marker \in LifecycleOps \cup {NoOp}
    /\ lineage \in [Provisions -> Lineages]
    /\ wal \in [Threads -> Transactions \cup {NoTx}]
    /\ ws \in BOOLEAN /\ mode \in Modes /\ call \in Calls /\ retiring \in RetiringSteps
    /\ todo \subseteq Bootstraps \cup LifecycleOps \cup Threads

-----------------------------------------------------------------------------
(* Durable facts: a crash leaves them as they are.                         *)

(* A rollback removes only what comes after all it retains.                *)
PlanFact(b) == boot[b].phase = "undoing" =>
    \A a \in boot[b].remove, c \in boot[b].retain : Rank[c] < Rank[a]

(* Resident state is only of threads with an authority.                    *)
AuthorityFacts ==
    /\ \A o \in LifecycleOps : Recorded(o) => ThreadOf[o] \in authority
    /\ \A p \in Provisions : bind[p] # "none" => ThreadOf[p] \in authority

(* An end names a session of its own thread.                               *)
TargetFacts ==
    /\ \A e \in Ends :
        /\ target[e] # NoOp => ThreadOf[target[e]] = ThreadOf[e]
        /\ Recorded(e) => target[e] # NoOp
    /\ marker \in Ends => target[marker] # NoOp

(* A pending publication is of its own thread, the only one, and replaces  *)
(* one row of the catalog as it still is.                                  *)
PendingFact(t) == Pending(t) => LET tx == wal[t] IN
    /\ ThreadOf[tx.op] = t /\ t \in authority
    /\ tx.view.st = IF tx.op \in Provisions THEN "live" ELSE "ended"
    /\ tx.op \in Provisions => tx.view = Live(tx.op, tx.next.at)
    /\ tx.op \in Ends => Recorded(tx.op)
    /\ tx.rows[t] = tx.view
    /\ \A u \in Threads \ {t} : ~Pending(u) /\ tx.rows[u] = catalog[u]

(* Between publications the two public files of a thread agree, but for    *)
(* the snapshot of a bootstrap that is under way or was rolled back; what  *)
(* a session published last is what its lineage says.                      *)
Unlisted(t) ==
    /\ snapshot[t] = Initial /\ catalog[t] = NoView
    /\ \E b \in Bootstraps : ThreadOf[b] = t /\
        \/ BootOpen(b)
        \/ boot[b].phase = "retired" /\ "snapshot" \in boot[b].retain
AgreementFact(t) == ~Pending(t) =>
    /\ snapshot[t] = catalog[t] \/ Unlisted(t)
    /\ snapshot[t].st = "live" =>
        LET p == snapshot[t].of IN
        p \in Provisions /\ ThreadOf[p] = t /\ lineage[p].at = snapshot[t].at

DurableFacts ==
    /\ CatalogClosed
    /\ \A b \in Bootstraps : PlanFact(b)
    /\ AuthorityFacts /\ TargetFacts
    /\ \A t \in Threads : PendingFact(t) /\ AgreementFact(t)
    /\ AnyBootOpen => ~AnyPending

-----------------------------------------------------------------------------
(* What the passes of initialize() and the methods have established.       *)

ModeFacts ==
    /\ mode \in {"down", "retirement", "up"} => todo = {}
    /\ mode \in {"down", "retirement", "before"} => call = Idle
    /\ mode = "down" => retiring = "no"
    /\ mode \in {"retirement", "bootstrap", "before", "replay", "after", "up"} /\ retiring = "no" => marker = NoOp
    /\ mode = "bootstrap" =>
        /\ todo \subseteq Bootstraps
        /\ \A b \in Bootstraps : BootOpen(b) => b \in todo
        /\ \A b \in todo :
            /\ boot[b].phase # "retired"
            /\ boot[b].phase = "none" => Registered(b) /\ Reserves[b] \in fenced
    /\ mode \in {"before", "replay", "after"} => ~AnyBootOpen
    /\ mode = "replay" => todo = {t \in Threads : Pending(t)}
    /\ mode = "after" => todo \subseteq {e \in Ends : Recorded(e)}
    /\ mode \in {"after", "up"} /\ call = Idle => ~AnyPending
    /\ mode = "up" /\ call.job # "bootstrap" => ~AnyBootOpen

CallFacts ==
    /\ call.job = "bootstrap" => LET b == call.op IN
        /\ mode \in {"bootstrap", "up"}
        /\ mode = "bootstrap" => b \in todo /\ call.at # "write"
        /\ mode = "up" => ~AnyPending /\ (\A c \in Bootstraps : BootOpen(c) => c = b)
                          /\ call.at \notin {"plan", "undo"}
        /\ call.at \in {"check", "place"} => boot[b].phase = "open"
        /\ call.at = "place" => boot[b].placed \subseteq Present(ThreadOf[b])
        /\ call.at = "undo" => boot[b].phase = "undoing"
        /\ call.at = "plan" => boot[b].phase \in {"open", "committed"}
        /\ call.at = "lifecycle" =>
            Committed(b) \/ (boot[b].phase = "none" /\ Registered(b) /\ Reserves[b] \in fenced)
    /\ call.job = "provision" =>
        mode = "up" /\ ~AnyPending /\ ThreadOf[call.op] \in authority
    /\ call.job \in {"publish", "end"} => LET t == ThreadOf[call.op] IN
        /\ retiring = "no" /\ mode \in {"replay", "after", "up"}
        /\ mode = "after" => call.job = "end"
        /\ call.job = "end" => Recorded(call.op)
        /\ call.at \in {"project", "complete", "proof"} => mode # "replay" /\ ~AnyPending
        /\ call.at \in {"lineage", "check", "snapshot", "catalog", "wal"} =>
            Pending(t) /\ wal[t].op = call.op
        /\ call.job = "publish" /\ call.at \in {"snapshot", "catalog", "wal"} =>
            lineage[call.op] = wal[t].next /\ (wal[t].lease => Recorded(call.op))
        /\ call.at \in {"catalog", "wal"} => snapshot[t] = wal[t].view
        /\ call.at = "wal" => catalog[t] = wal[t].view
    /\ call.job = "publish" /\ call.at = "proof" => Recorded(call.op)

RetiringFacts == retiring # "no" =>
    /\ marker \in LifecycleOps
    /\ \/ mode = "retirement"
       \/ mode \in {"bootstrap", "up"} /\ call.job = "bootstrap" /\ call.at \in {"write", "lifecycle"}
       \/ mode = "up" /\ call.job = "provision"
    /\ retiring # "fence" => Group(marker) \subseteq fenced
    /\ retiring # "fence" /\ marker \in Ends => snapshot[ThreadOf[marker]].st = "ended" /\ ~Pending(ThreadOf[marker])
    /\ retiring \in {"lineage", "binding", "predecessor"} => marker \in Ends
    /\ retiring \in {"compact", "marker"} => ~Recorded(marker)

FilesInvariant == FilesTypeOK /\ DurableFacts /\ ModeFacts /\ CallFacts /\ RetiringFacts
-----------------------------------------------------------------------------
(* Lifecycle records, bindings and what the threads show.                  *)

(* An operation that may still change its thread: a nonterminal record, or *)
(* a session that commands.                                                *)
OpenStages == {"creating", "promoted", "published", "ending", "acknowledged"}
Open(o) == life[o] \in OpenStages \/ (o \in Provisions /\ bind[o] = "active")

(* A retirement past its fence.                                            *)
Retiring(e) == marker = e /\ Group(e) \subseteq fenced

ProvisionFact(p) ==
    \/ life[p] \in {"none", "creating", "failed"} /\ bind[p] = "none" /\ lineage[p] = NoLineage
    \/ life[p] \in {"promoted", "published"} /\ bind[p] = "activating"
    \/ life[p] = "committed" /\ bind[p] \in {"active", "detached", "completed"}
    \/ life[p] = "committed" /\ bind[p] = "none" /\ lineage[p] = NoLineage
       /\ \E e \in Ends : target[e] = p /\ Retiring(e)

EndFact(e) ==
    \/ life[e] = "none" /\ target[e] = NoOp
    \/ life[e] \in {"ending", "acknowledged"} /\ bind[target[e]] = "detached"
    \/ life[e] = "completed" /\ bind[target[e]] = "completed"
    \/ life[e] \in {"completed", "none"} /\ bind[target[e]] = "none" /\ Retiring(e)

DetachedFact(p) == bind[p] = "detached" =>
    \E e \in Ends : target[e] = p /\ life[e] \in {"ending", "acknowledged"}

RecordFacts ==
    /\ \A p \in Provisions : ProvisionFact(p) /\ DetachedFact(p)
    /\ \A e \in Ends : EndFact(e)
    /\ \A d, e \in Ends : target[d] = target[e] /\ target[d] # NoOp => d = e
    /\ \A o \in LifecycleOps : life[o] \in {"none", "committed", "failed", "completed"} => held[o] = "no"
    /\ \A o, q \in LifecycleOps : Open(o) /\ Open(q) /\ ThreadOf[o] = ThreadOf[q] => o = q

FenceFacts ==
    /\ \A o \in fenced : Recorded(o) => marker # NoOp /\ o \in Group(marker)
    /\ marker \in Provisions => life[marker] = "failed" \/ (life[marker] = "none" /\ marker \in fenced)
    /\ marker \in Ends =>
        /\ life[marker] \in {"completed", "none"} /\ life[target[marker]] \in {"committed", "none"}
        /\ life[target[marker]] = "none" => target[marker] \in fenced

(* What a thread shows once its pending publication is materialized.       *)
View(t) == IF Pending(t) THEN wal[t].view ELSE snapshot[t]

ViewFact(t) == LET v == View(t) IN
    /\ v.st = "none" => v = NoView
    /\ v.st = "initial" => v = Initial
    /\ v.st = "live" => v.of \in Provisions /\ ThreadOf[v.of] = t /\ bind[v.of] \in {"activating", "active", "detached"}
    /\ v.st = "ended" => v.of \in Ends /\ ThreadOf[v.of] = t /\ (life[v.of] \in {"acknowledged", "completed"} \/ v.of \in fenced)

PublishingFact(t) == Pending(t) => LET tx == wal[t] IN
    /\ tx.op \in Provisions => IF tx.lease THEN life[tx.op] \in {"promoted", "published"} ELSE bind[tx.op] = "active"
    /\ tx.op \in Ends => life[tx.op] = "acknowledged" /\ tx.view.of = tx.op

(* A reservation is its bootstrap's alone, and no other provision is open  *)
(* beside a reserved one.                                                  *)
ReservationFact(b) == Registered(b) => LET p == Reserves[b] IN
    /\ Recorded(p) => Committed(b)
    /\ p \in fenced => boot[b].phase = "none" \/ (Committed(b) /\ (boot[b].released \/ Recorded(p)))
    /\ Open(p) => \A q \in Provisions \ {p} : ~Open(q)

Kept(b) == boot[b].released \/ Recorded(Reserves[b])

ResidentCallFacts ==
    /\ call.job = "provision" => LET p == call.op IN
        /\ ~Recorded(p) /\ p \notin fenced /\ ~Reserved(p)
        /\ \A o \in LifecycleOps : ThreadOf[o] = ThreadOf[p] => ~Open(o)
        /\ \A b \in Reservations : Kept(b) /\ \A q \in Provisions : bind[q] # "active"
        /\ \A b \in Reservations : ~Open(Reserves[b])
    /\ call.job = "end" => LET e == call.op IN
        /\ life[e] \in {"acknowledged", "completed"}
        /\ call.at # "check" => held[e] = "no"
        /\ call.at = "complete" => snapshot[ThreadOf[e]].st = "ended" /\ snapshot[ThreadOf[e]].of = e
    /\ call.job = "publish" /\ call.at = "proof" => life[call.op] \in {"promoted", "published"}
    /\ call.job = "bootstrap" /\ call.at = "write" =>
        boot[call.op].phase = "none" /\ Reserves[call.op] \notin fenced

ResidentModeFacts ==
    /\ mode = "after" => \A e \in todo : life[e] \in {"acknowledged", "completed"} /\ held[e] = "no"
    /\ mode = "bootstrap" => \A b \in Reservations \ todo : Kept(b)
    /\ mode \in {"before", "replay", "after", "up"} => \A b \in Reservations :
        Kept(b) \/ (call.job = "bootstrap" /\ call.op = b /\ call.at = "lifecycle")

ResidentRetiringFacts == retiring # "no" =>
    /\ retiring \notin {"fence", "release"} => \A b \in Releases : boot[b].released
    /\ marker \in Ends => LET p == target[marker] IN
        /\ retiring \in {"binding", "predecessor", "terminal", "compact", "marker"} => lineage[p] = NoLineage
        /\ retiring \in {"predecessor", "terminal", "compact", "marker"} => bind[p] = "none"
        /\ retiring \in {"terminal", "compact", "marker"} => life[p] = "none"

ResidentInvariant ==
    /\ RecordFacts /\ FenceFacts
    /\ \A t \in Threads : ViewFact(t) /\ PublishingFact(t)
    /\ \A b \in Bootstraps : ReservationFact(b)
    /\ ResidentCallFacts /\ ResidentModeFacts /\ ResidentRetiringFacts
-----------------------------------------------------------------------------
(* What lets initialize() finish: each check that a recovery pass makes of *)
(* what it finds was settled when the record it finds was written.         *)

(* A bootstrap under way is the only one, describes what its thread has,   *)
(* and no reservation but its own waits for a lifecycle record.            *)
AloneFact(b) == BootOpen(b) =>
    /\ \A c \in Bootstraps : BootOpen(c) => c = b
    /\ \A c \in Reservations : Kept(c)
OpenFact(b) == boot[b].phase = "open" =>
    /\ Exact(ThreadOf[b]) /\ boot[b].placed \subseteq Present(ThreadOf[b])
    /\ boot[b].undone = {}
    /\ Registered(b) => ReservationFree(b)
DueFact(b) == Committed(b) /\ LifecycleDue(b) => ReservationFree(b)
UndoFact(b) == boot[b].phase = "undoing" => PlanCurrent(b)
WriteFact == call.job = "bootstrap" /\ call.at = "write" =>
    /\ Exact(ThreadOf[call.op])
    /\ Registered(call.op) => ReservationFree(call.op)

(* An outcome is unknown only before the evidence that settles it.         *)
UnknownFact(o) == held[o] = "unknown" => life[o] \in {"creating", "ending"}

(* A pending publication is over the cursor or the files it was read from. *)
OverFact(t) == Pending(t) => LET tx == wal[t] IN
    /\ tx.op \in Provisions => lineage[tx.op] \in {tx.prev, tx.next}
    /\ tx.op \in Ends => {snapshot[t], catalog[t]} \subseteq {tx.source, tx.view}

(* A thread shows its active session, until the end of that session is     *)
(* shown, and goes on to show a completed end until it is retired: while   *)
(* it does, nothing is open there.                                         *)
ActiveFact(p) == bind[p] = "active" => LET v == View(ThreadOf[p]) IN v.st = "live" /\ v.of = p
EndedFact(e) == LET v == View(ThreadOf[e]) IN
    /\ life[e] \in {"ending", "acknowledged"} => v.of = e \/ (v.st = "live" /\ v.of = target[e])
    /\ life[e] = "completed" => v.of = e
    /\ life[e] \in {"acknowledged", "completed"} /\ v.of = e => lineage[target[e]].at \in {<<>>, v.at}
QuietFact(e) == life[e] = "completed" =>
    \A o \in LifecycleOps : ThreadOf[o] = ThreadOf[e] => ~Open(o)
ProofFact == marker \in Ends => PublicProof(marker)

StartInvariant ==
    /\ \A b \in Bootstraps : AloneFact(b) /\ OpenFact(b) /\ DueFact(b) /\ UndoFact(b)
    /\ WriteFact
    /\ \A o \in LifecycleOps : UnknownFact(o)
    /\ \A t \in Threads : OverFact(t)
    /\ \A p \in Provisions : ActiveFact(p)
    /\ \A e \in Ends : EndedFact(e) /\ QuietFact(e)
    /\ ProofFact
=============================================================================
