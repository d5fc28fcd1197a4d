------------------------- MODULE WorkspaceBootstrap -------------------------
(***************************************************************************)
(* The workspace bootstrap of HostStore: one operation creates or adopts   *)
(* a project, a snapshot, a thread and a workspace authority, each in a    *)
(* file of its own, behind a durable record that claims an artifact before *)
(* it writes it.  A registered bootstrap also reserves a provision: it     *)
(* writes that provision's lifecycle record before it returns.  An         *)
(* operation whose workspace is gone at a restart is rolled back.          *)
(*                                                                         *)
(* Left out: the limits of the catalogs, divergent requests under a used   *)
(* operation id, records of builds without provenance, and a request that  *)
(* meets an open record in a serving Store, which FilesAgree excludes.     *)
(***************************************************************************)
EXTENDS StoreState

-----------------------------------------------------------------------------
(* What a bootstrap requires of the rest of the Store.                     *)

(* Every artifact that exists equals the one the request describes.        *)
Exact(t) == {snapshot[t], catalog[t]} \subseteq {NoView, Initial}
Convergent(b) == Exact(ThreadOf[b]) /\ boot[b].placed \subseteq Present(ThreadOf[b])

(* The reference thread of a registered request is current.                *)
Referenced(b) ==
    LET r == ReferenceOf[b] IN
    project /\ r \in authority /\ catalog[r] # NoView /\ snapshot[r] = catalog[r]

(* Mutant: only the bindings are looked at, not the open operations.       *)
UnboundWorkspace(b) ==
    /\ \A p \in Provisions \ {Reserves[b]} : ~Commanding(p)
    /\ \A c \in Reservations \ {b} : Recorded(Reserves[c]) \/ boot[c].released

(* No other session, open operation or unsettled reservation uses the      *)
(* workspace.                                                              *)
ReservationFree(b) ==
    /\ \A p \in Provisions \ {Reserves[b]} : ~Commanding(p)
    /\ \A o \in LifecycleOps \ {Reserves[b]} : ~Nonterminal(o)
    /\ \A c \in Reservations \ {b} : Recorded(Reserves[c]) \/ boot[c].released

NoCompetitor(b) == \A c \in OnThread(ThreadOf[b], Bootstraps) \ {b} : ~BootOpen(c)
NoResidentState(t) ==
    /\ \A o \in OnThread(t, LifecycleOps) : ~Recorded(o)
    /\ \A p \in OnThread(t, Provisions) : bind[p] = "none"

Opened(t) == [NoRecord EXCEPT !.phase = "open", !.adopted = Present(t)]

-----------------------------------------------------------------------------
PrepareBootstrap(b) ==
    /\ Ready /\ ws /\ boot[b].phase = "none"
    /\ Registered(b) => Referenced(b) /\ Reserves[b] \notin fenced /\ ReservationFree(b)
    /\ ~ThreadBusy(ThreadOf[b]) /\ NoCompetitor(b)
    /\ \A p \in OnThread(ThreadOf[b], Provisions) : ~Commanding(p)
    /\ Exact(ThreadOf[b])
    /\ call' = Job("bootstrap", b, "write")
    /\ UNCHANGED <<files, boot, resident, retirement, ws, mode, retiring, todo>>

(* The registry is bounded.  Only a registered request may first retire a  *)
(* terminal group, and the refusal is inside the boundary that throws.     *)
BootstrapsFull == Cardinality(BootRecorded) >= BootstrapLimit

RecordPrepared(b) ==
    /\ Step("bootstrap", b, "write") /\ ~BootstrapsFull
    /\ boot' = [boot EXCEPT ![b] = Opened(ThreadOf[b])]
    /\ call' = Job("bootstrap", b, "check")
    /\ UNCHANGED <<files, resident, retirement, ws, mode, retiring, todo>>

RefuseBootstrapsFull(b, retirable) ==
    /\ Step("bootstrap", b, "write") /\ BootstrapsFull /\ ~retirable
    /\ Throw
    /\ UNCHANGED <<files, boot, resident, retirement, ws, retiring, todo>>

(* The exact envelope of a rolled-back operation may be tried again.       *)
Reactivate(b) ==
    /\ Ready /\ ws /\ boot[b].phase = "retired"
    /\ Registered(b) => Referenced(b) /\ ReservationFree(b)
    /\ NoResidentState(ThreadOf[b]) /\ NoCompetitor(b) /\ Exact(ThreadOf[b])
    /\ boot' = [boot EXCEPT ![b] = Opened(ThreadOf[b])]
    /\ call' = Job("bootstrap", b, "check")
    /\ UNCHANGED <<files, resident, retirement, ws, mode, retiring, todo>>

(* A missing workspace fails a caller; recovery rolls the operation back.  *)
Unavailable(b) ==
    IF mode = "up" THEN Throw
    ELSE call' = Job("bootstrap", b, "plan") /\ UNCHANGED mode

(* materializeWorkspaceThreadBootstrapOperation.                           *)
CheckArtifacts(b) ==
    /\ Step("bootstrap", b, "check")
    /\ IF ~ws THEN Unavailable(b)
       ELSE IF Convergent(b) THEN call' = Job("bootstrap", b, "place") /\ UNCHANGED mode
       ELSE Throw
    /\ UNCHANGED <<files, boot, resident, retirement, ws, retiring, todo>>

Placing(b, a) ==
    /\ Step("bootstrap", b, "place")
    /\ boot[b].placed # Artifacts
    /\ a = First(Artifacts \ boot[b].placed)

Claim(b) == \E a \in Artifacts :
    /\ Placing(b, a) /\ a \notin boot[b].claimed
    /\ boot' = [boot EXCEPT ![b].claimed = @ \cup {a}]
    /\ UNCHANGED <<files, resident, retirement, ws, mode, call, retiring, todo>>

Write(t, a) ==
    /\ project' = (project \/ a = "project")
    /\ snapshot' = IF a = "snapshot" THEN [snapshot EXCEPT ![t] = Initial] ELSE snapshot
    /\ catalog' = IF a = "thread" THEN [catalog EXCEPT ![t] = Initial] ELSE catalog
    /\ authority' = IF a = "authority" THEN authority \cup {t} ELSE authority

Place(b) == \E a \in Artifacts :
    /\ Placing(b, a) /\ a \in boot[b].claimed /\ a \notin Present(ThreadOf[b])
    /\ Write(ThreadOf[b], a)
    /\ UNCHANGED <<boot, resident, retirement, ws, mode, call, retiring, todo>>

Advance(b) == \E a \in Artifacts :
    /\ Placing(b, a) /\ a \in boot[b].claimed /\ a \in Present(ThreadOf[b])
    /\ IF Exact(ThreadOf[b])
       THEN boot' = [boot EXCEPT ![b].placed = @ \cup {a}] /\ UNCHANGED <<mode, call>>
       ELSE Throw /\ UNCHANGED boot
    /\ UNCHANGED <<files, resident, retirement, ws, retiring, todo>>

CommitBootstrap(b) ==
    /\ Step("bootstrap", b, "place") /\ boot[b].placed = Artifacts
    /\ IF ~ws THEN Unavailable(b) /\ UNCHANGED boot
       ELSE IF Convergent(b)
       THEN /\ boot' = [boot EXCEPT ![b].phase = "committed"]
            /\ call' = Job("bootstrap", b, "lifecycle") /\ UNCHANGED mode
       ELSE Throw /\ UNCHANGED boot
    /\ UNCHANGED <<files, resident, retirement, ws, retiring, todo>>

(* ensureRegisteredWorkspaceLifecyclePrepared: membership in the fence is  *)
(* no proof of retirement, so a fenced reservation stays as it is.         *)
LifecycleDue(b) ==
    /\ Registered(b) /\ ~boot[b].released
    /\ ~Recorded(Reserves[b]) /\ Reserves[b] \notin fenced

Settle(b) ==
    /\ Step("bootstrap", b, "lifecycle") /\ ~LifecycleDue(b)
    /\ Done(b)
    /\ UNCHANGED <<files, boot, resident, retirement, ws, mode, retiring>>

PrepareReserved(b, retirable) ==
    /\ Step("bootstrap", b, "lifecycle") /\ LifecycleDue(b)
    /\ IF ~ws THEN Unavailable(b) /\ UNCHANGED <<life, todo>>
       ELSE IF ReservationFree(b) /\ ~ThreadBusy(ThreadOf[b])
       THEN /\ ~retirable
            /\ life' = [life EXCEPT ![Reserves[b]] = "creating"]
            /\ Done(b) /\ UNCHANGED mode
       ELSE Throw /\ UNCHANGED <<life, todo>>
    /\ UNCHANGED <<files, boot, held, bind, target, retirement, ws, retiring>>

-----------------------------------------------------------------------------
(* Rollback.  An artifact is removed only if it was absent when the        *)
(* operation was prepared, claimed by it, and nothing else refers to it.   *)

OtherBootstrapOf(b, t) == \E c \in BootRecorded \ {b} : ThreadOf[c] = t
ProjectReferenced(b) ==
    \/ \E c \in BootRecorded : c # b
    \/ \E t \in Threads \ {ThreadOf[b]} : catalog[t] # NoView \/ t \in authority
    \/ \E o \in LifecycleOps : Recorded(o)
    \/ \E p \in Provisions : bind[p] # "none" /\ catalog[ThreadOf[p]] # NoView

Owned(b) == (Present(ThreadOf[b]) \cap boot[b].claimed) \ boot[b].adopted

(* Later artifacts refer to earlier ones: one that stays keeps those.      *)
Removable(b) ==
    LET t == ThreadOf[b]
        private == IF OtherBootstrapOf(b, t) THEN {} ELSE {"snapshot", "thread", "authority"}
        free == {a \in Owned(b) : a = "project" => ~ProjectReferenced(b)}
                  \cap (private \cup {"project"})
    IN {a \in free : \A c \in Present(t) : Rank[c] > Rank[a] => c \in free}

ArtifactsFormPrefix(t) == \A a, c \in Artifacts :
    c \in Present(t) /\ Rank[a] < Rank[c] => a \in Present(t)

(* A committed record admits no rollback: its validation throws a foreign  *)
(* error, which costs the resident subsystem unless a bootstrap was open.  *)
PlanRollback(b) ==
    LET t == ThreadOf[b] IN
    /\ Step("bootstrap", b, "plan")
    /\ IF ~(Exact(t) /\ boot[b].adopted \subseteq Present(t)
            /\ ArtifactsFormPrefix(t) /\ NoResidentState(t))
       THEN Throw /\ UNCHANGED boot
       ELSE IF Committed(b)
       THEN /\ mode' = IF \E c \in Bootstraps : BootOpen(c) THEN "failed" ELSE "degraded"
            /\ call' = Idle /\ UNCHANGED boot
       ELSE /\ boot' = [boot EXCEPT ![b] = [@ EXCEPT !.phase = "undoing", !.remove = Removable(b),
                                                     !.retain = Present(t) \ Removable(b)]]
            /\ call' = Job("bootstrap", b, "undo") /\ UNCHANGED mode
    /\ UNCHANGED <<files, resident, retirement, ws, retiring, todo>>

PlanCurrent(b) ==
    LET t == ThreadOf[b]  r == boot[b] IN
    /\ Exact(t) /\ NoResidentState(t)
    /\ r.retain \subseteq Present(t)
    /\ Present(t) \subseteq r.retain \cup (r.remove \ r.undone)
    /\ r.remove \ {"project"} # {} => ~OtherBootstrapOf(b, t)
    /\ "project" \in r.remove => ~ProjectReferenced(b)

(* Mutant: artifacts are removed in the order they were written.           *)
UndoFirst(b, a) ==
    /\ Step("bootstrap", b, "undo") /\ boot[b].undone # Artifacts
    /\ a = First(Artifacts \ boot[b].undone)

Undoing(b, a) ==
    /\ Step("bootstrap", b, "undo") /\ boot[b].undone # Artifacts
    /\ a = Last(Artifacts \ boot[b].undone)

Remove(t, a) ==
    /\ project' = (project /\ a # "project")
    /\ snapshot' = IF a = "snapshot" THEN [snapshot EXCEPT ![t] = NoView] ELSE snapshot
    /\ catalog' = IF a = "thread" THEN [catalog EXCEPT ![t] = NoView] ELSE catalog
    /\ authority' = IF a = "authority" THEN authority \ {t} ELSE authority

RemoveArtifact(b) == \E a \in boot[b].remove \cap Present(ThreadOf[b]) :
    /\ Undoing(b, a)
    /\ IF PlanCurrent(b) THEN Remove(ThreadOf[b], a) /\ UNCHANGED <<mode, call>>
       ELSE Throw /\ UNCHANGED files
    /\ UNCHANGED <<boot, resident, retirement, ws, retiring, todo>>

AdvanceRollback(b) == \E a \in Artifacts \ (boot[b].remove \cap Present(ThreadOf[b])) :
    /\ Undoing(b, a)
    /\ IF a \in boot[b].remove => PlanCurrent(b)
       THEN boot' = [boot EXCEPT ![b].undone = @ \cup {a}] /\ UNCHANGED <<mode, call>>
       ELSE Throw /\ UNCHANGED boot
    /\ UNCHANGED <<files, resident, retirement, ws, retiring, todo>>

RetireRollback(b) ==
    /\ Step("bootstrap", b, "undo") /\ boot[b].undone = Artifacts
    /\ IF PlanCurrent(b)
       THEN boot' = [boot EXCEPT ![b].phase = "retired"] /\ Done(b) /\ UNCHANGED mode
       ELSE Throw /\ UNCHANGED <<boot, todo>>
    /\ UNCHANGED <<files, resident, retirement, ws, retiring>>

-----------------------------------------------------------------------------
(* recoverWorkspaceThreadBootstrapOperations: each record in turn, from    *)
(* one reading of the directory.  A retirement may have compacted a        *)
(* committed one since, which is then taken up as it was read.             *)
RecoverBootstrap(b) ==
    /\ mode = "bootstrap" /\ b \in todo /\ call = Idle
    /\ call' = Job("bootstrap", b,
           CASE boot[b].phase = "undoing" -> "undo"
             [] boot[b].phase \in {"committed", "none"} -> "lifecycle"
             [] OTHER -> "check")
    /\ UNCHANGED <<files, boot, resident, retirement, ws, mode, retiring, todo>>
=============================================================================
