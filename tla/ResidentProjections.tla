------------------------ MODULE ResidentProjections ------------------------
(***************************************************************************)
(* The publication transactions of HostStore.  The public state of a       *)
(* thread is two files, its snapshot and its row of the one thread         *)
(* catalog, and a third private file keeps each session's cursor lineage.  *)
(* A live projection and the terminal projection of an end change them     *)
(* together behind a write-ahead file per thread, which carries the whole  *)
(* catalog as it was when the transaction was prepared; initialize()       *)
(* replays what a crash left behind before anything is served.             *)
(*                                                                         *)
(* The lifecycle operations are here at the grain of their terminal and    *)
(* nonterminal stages: LifecycleStore takes apart what one action of this  *)
(* module does to a record and its binding.                                *)
(*                                                                         *)
(* Left out: two digests at one cursor (a Stop or model proof decides      *)
(* them), the prompt locks a publication retires, capacity limits.         *)
(***************************************************************************)
EXTENDS StoreState

CONSTANTS
    Cursors,         \* daemon cursors <<generation, sequence>> a session may report
    NoTx

ASSUME CursorAssumption == Cursors \subseteq Nat \X Nat
ASSUME NoTxAssumption == NoTx = [op |-> NoOp]

VARIABLES
    lineage,    \* durable: cursor lineage of each session
    wal         \* durable: the pending publication of each thread

projectionVars == <<lineage, wal>>

Live(p, c) == Shows("live", p, c)
Ended(e, c) == Shows("ended", e, c)
NoLineage == [at |-> <<>>, retired |-> {}]
Pending(t) == wal[t] # NoTx

-----------------------------------------------------------------------------
(* Lifecycle operations.                                                   *)

Reserved(p) == \E b \in Bootstraps : Reserves[b] = p
Unsettled(b) ==
    IF Recorded(Reserves[b]) THEN Nonterminal(Reserves[b]) ELSE ~boot[b].released

WorkspaceUnreserved ==
    /\ \A b \in Reservations : ~Unsettled(b)
    /\ Reservations # {} => \A p \in Provisions : ~Commanding(p)

PrepareProvision(p) ==
    LET t == ThreadOf[p] IN
    /\ Ready /\ ws /\ t \in authority
    /\ ~Recorded(p) /\ p \notin fenced /\ ~Reserved(p)
    /\ WorkspaceUnreserved
    /\ ~ThreadBusy(t) /\ \A q \in OnThread(t, Provisions) : bind[q] # "active"
    /\ call' = Job("provision", p, "register")
    /\ UNCHANGED <<files, boot, resident, retirement, projectionVars, ws, mode, retiring, todo>>

RegisterProvision(p, retirable) ==
    /\ Step("provision", p, "register") /\ ~retirable
    /\ life' = [life EXCEPT ![p] = "creating"]
    /\ call' = Idle
    /\ UNCHANGED <<files, boot, held, bind, target, retirement, projectionVars, ws, mode,
                   retiring, todo>>

FailCreate(p) ==
    /\ Ready /\ life[p] = "creating" /\ held[p] = "no"
    /\ life' = [life EXCEPT ![p] = "failed"]
    /\ UNCHANGED <<files, boot, held, bind, target, retirement, projectionVars, ws, mode,
                   call, retiring, todo>>

ObservePromotion(p) ==
    /\ Ready /\ ws /\ life[p] = "creating" /\ held[p] = "no"
    /\ \A q \in OnThread(ThreadOf[p], Provisions) : ~Commanding(q)
    /\ life' = [life EXCEPT ![p] = "promoted"]
    /\ bind' = [bind EXCEPT ![p] = "activating"]
    /\ UNCHANGED <<files, boot, held, target, retirement, projectionVars, ws, mode,
                   call, retiring, todo>>

CommitProvision(p) ==
    /\ Ready /\ ws /\ life[p] = "published" /\ held[p] = "no"
    /\ snapshot[ThreadOf[p]] = Live(p, lineage[p].at)
    /\ life' = [life EXCEPT ![p] = "committed"]
    /\ bind' = [bind EXCEPT ![p] = "active"]
    /\ UNCHANGED <<files, boot, held, target, retirement, projectionVars, ws, mode,
                   call, retiring, todo>>

(* The reviewed cursor is compared with the snapshot under the same lock.  *)
PrepareEnd(e) ==
    LET t == ThreadOf[e] IN
    /\ Ready /\ ws /\ ~Recorded(e) /\ e \notin fenced /\ ~ThreadBusy(t)
    /\ \E p \in OnThread(t, Provisions) :
        /\ bind[p] = "active"
        /\ life' = [life EXCEPT ![e] = "ending"]
        /\ bind' = [bind EXCEPT ![p] = "detached"]
        /\ target' = [target EXCEPT ![e] = p]
    /\ UNCHANGED <<files, boot, held, retirement, projectionVars, ws, mode,
                   call, retiring, todo>>

(* A kill, or read-only evidence after an unknown one, is acknowledged.    *)
AcknowledgeEnd(e) ==
    /\ Ready /\ life[e] = "ending"
    /\ held[e] = "no" \/ (held[e] = "unknown" /\ ws)
    /\ life' = [life EXCEPT ![e] = "acknowledged"]
    /\ held' = [held EXCEPT ![e] = "no"]
    /\ call' = Job("end", e, "project")
    /\ UNCHANGED <<files, boot, bind, target, retirement, projectionVars, ws, mode,
                   retiring, todo>>

QuarantineUnknown(o) ==
    /\ Ready /\ life[o] \in {"creating", "ending"} /\ held[o] = "no"
    /\ held' = [held EXCEPT ![o] = "unknown"]
    /\ UNCHANGED <<files, boot, life, bind, target, retirement, projectionVars, ws, mode,
                   call, retiring, todo>>

-----------------------------------------------------------------------------
(* publishResidentProjectionSnapshot: an active session, or the candidate  *)
(* of an exact provision, moves its thread's public state.                 *)

Leased(p) == bind[p] = "activating" /\ life[p] \in {"promoted", "published"} /\ held[p] = "no"
Projecting(p) == Leased(p) \/ bind[p] = "active"

(* Mutant: a generation the session has left may publish again.            *)
FollowsAnyGeneration(l, c) ==
    IF l.at # <<>> /\ c[1] = l.at[1] THEN c[2] > l.at[2] ELSE TRUE

Follows(l, c) ==
    IF l.at # <<>> /\ c[1] = l.at[1] THEN c[2] > l.at[2] ELSE c[1] \notin l.retired

Extend(l, c) ==
    [at |-> c,
     retired |-> l.retired \cup (IF l.at = <<>> \/ l.at[1] = c[1] THEN {} ELSE {l.at[1]})]

PreparePublication(p, c) ==
    LET t == ThreadOf[p] IN
    /\ Ready /\ ws /\ Projecting(p)
    /\ snapshot[t] = catalog[t] /\ Follows(lineage[p], c)
    /\ wal' = [wal EXCEPT ![t] =
           [op |-> p, lease |-> Leased(p), view |-> Live(p, c), source |-> snapshot[t],
            prev |-> lineage[p], next |-> Extend(lineage[p], c),
            rows |-> [catalog EXCEPT ![t] = Live(p, c)]]]
    /\ call' = Job("publish", p, "lineage")
    /\ UNCHANGED <<files, boot, resident, retirement, lineage, ws, mode, retiring, todo>>

(* The same projection again, after a crash took the proof of the first.   *)
PublishSame(p) ==
    /\ Ready /\ ws /\ Leased(p) /\ lineage[p].at # <<>>
    /\ snapshot[ThreadOf[p]] = Live(p, lineage[p].at)
    /\ life' = [life EXCEPT ![p] = "published"]
    /\ UNCHANGED <<files, boot, held, bind, target, retirement, projectionVars, ws, mode,
                   call, retiring, todo>>

(* materializeResidentProjectionTransaction, by the caller or by replay.   *)
PublicationAuthorized(p) ==
    LET tx == wal[ThreadOf[p]] IN
    /\ ws
    /\ IF tx.lease THEN life[p] \in {"promoted", "published"} /\ held[p] = "no" /\ Commanding(p)
       ELSE bind[p] = "active"
    /\ lineage[p] \in {tx.prev, tx.next}

WriteLineage(p) ==
    /\ Step("publish", p, "lineage")
    /\ IF PublicationAuthorized(p)
       THEN /\ lineage' = [lineage EXCEPT ![p] = wal[ThreadOf[p]].next]
            /\ call' = Job("publish", p, "snapshot") /\ UNCHANGED mode
       ELSE Throw /\ UNCHANGED lineage
    /\ UNCHANGED <<files, boot, resident, retirement, wal, ws, retiring, todo>>

(* prepareResidentEndProjection.                                           *)
SourceDiverges(e) ==
    LET t == ThreadOf[e] IN
    \/ snapshot[t] # catalog[t]
    \/ snapshot[t].of # e /\ (snapshot[t].st # "live" \/ snapshot[t].of # target[e])

PrepareEndProjection(e) ==
    LET t == ThreadOf[e]  s == snapshot[t] IN
    /\ Step("end", e, "project")
    /\ IF SourceDiverges(e)
       THEN /\ mode' = IF mode = "up" THEN mode ELSE "degraded"
            /\ call' = Idle /\ UNCHANGED wal
       ELSE /\ UNCHANGED mode
            /\ IF s.of = e THEN call' = Job("end", e, "complete") /\ UNCHANGED wal
               ELSE /\ wal' = [wal EXCEPT ![t] =
                          [op |-> e, lease |-> FALSE, view |-> Ended(e, s.at), source |-> s,
                           prev |-> NoLineage, next |-> NoLineage,
                           rows |-> [catalog EXCEPT ![t] = Ended(e, s.at)]]]
                    /\ call' = Job("end", e, "check")
    /\ UNCHANGED <<files, boot, resident, retirement, lineage, ws, retiring, todo>>

(* materializeResidentEndProjectionTransaction.                            *)
EndProjectionAuthorized(e) ==
    LET t == ThreadOf[e]  tx == wal[t] IN
    /\ life[e] \in {"acknowledged", "completed"} /\ held[e] = "no" /\ ws
    /\ bind[target[e]] \in {"detached", "completed"}
    /\ {snapshot[t], catalog[t]} \subseteq {tx.source, tx.view}
    /\ \A u \in Threads \ {t} : catalog[u] = tx.rows[u]

CheckEndProjection(e) ==
    /\ Step("end", e, "check")
    /\ IF EndProjectionAuthorized(e) THEN call' = Job("end", e, "snapshot") /\ UNCHANGED mode
       ELSE Throw
    /\ UNCHANGED <<files, boot, resident, retirement, projectionVars, ws, retiring, todo>>

(* The two public files, then the removal of the write-ahead file.         *)
Publishing(o, at) == \E job \in {"publish", "end"} : Step(job, o, at)

WriteSnapshot(o) ==
    LET t == ThreadOf[o] IN
    /\ Publishing(o, "snapshot")
    /\ snapshot' = [snapshot EXCEPT ![t] = wal[t].view]
    /\ call' = [call EXCEPT !.at = "catalog"]
    /\ UNCHANGED <<project, catalog, authority, boot, resident, retirement, projectionVars,
                   ws, mode, retiring, todo>>

WriteCatalog(o) ==
    /\ Publishing(o, "catalog")
    /\ catalog' = wal[ThreadOf[o]].rows
    /\ call' = [call EXCEPT !.at = "wal"]
    /\ UNCHANGED <<project, snapshot, authority, boot, resident, retirement, projectionVars,
                   ws, mode, retiring, todo>>

RemoveWal(o) ==
    LET t == ThreadOf[o] IN
    /\ Publishing(o, "wal")
    /\ wal' = [wal EXCEPT ![t] = NoTx]
    /\ IF mode = "replay" THEN Done(t)
       ELSE /\ UNCHANGED todo
            /\ call' = IF o \in Ends THEN Job("end", o, "complete")
                       ELSE IF wal[t].lease THEN Job("publish", o, "proof") ELSE Idle
    /\ UNCHANGED <<files, boot, resident, retirement, lineage, ws, mode, retiring>>

WriteProof(p) ==
    /\ Step("publish", p, "proof")
    /\ life' = [life EXCEPT ![p] = "published"]
    /\ call' = Idle
    /\ UNCHANGED <<files, boot, held, bind, target, retirement, projectionVars, ws, mode,
                   retiring, todo>>

CompleteEnd(e) ==
    /\ Step("end", e, "complete")
    /\ life' = [life EXCEPT ![e] = "completed"]
    /\ bind' = [bind EXCEPT ![target[e]] = "completed"]
    /\ Done(e)
    /\ UNCHANGED <<files, boot, held, target, retirement, projectionVars, ws, mode, retiring>>

-----------------------------------------------------------------------------
(* The passes of initialize() over lifecycle records and pending files.    *)

Lost(o) == Nonterminal(o) /\ held[o] = "no" /\ ~ws

(* An interrupted dispatch is held as unknown whatever the workspace.      *)
RecoverBefore(o) ==
    /\ mode = "before" /\ o \in todo
    /\ \/ /\ life[o] \in {"creating", "ending"} /\ held[o] = "no"
          /\ held' = [held EXCEPT ![o] = "unknown"]
       \/ held' = IF Lost(o) THEN [held EXCEPT ![o] = "missing"] ELSE held
    /\ todo' = todo \ {o}
    /\ UNCHANGED <<files, boot, life, bind, target, retirement, projectionVars, ws, mode,
                   call, retiring>>

Replay(t) ==
    LET o == wal[t].op IN
    /\ mode = "replay" /\ t \in todo /\ call = Idle
    /\ call' = IF o \in Ends THEN Job("end", o, "check") ELSE Job("publish", o, "lineage")
    /\ UNCHANGED <<files, boot, resident, retirement, projectionVars, ws, mode, retiring, todo>>

RecoverAfter(e) ==
    /\ mode = "after" /\ e \in todo /\ call = Idle
    /\ call' = Job("end", e, "project")
    /\ UNCHANGED <<files, boot, resident, retirement, projectionVars, ws, mode, retiring, todo>>
=============================================================================
