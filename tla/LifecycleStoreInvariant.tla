----------------------- MODULE LifecycleStoreInvariant -----------------------
(***************************************************************************)
(* The inductive invariant of the lifecycle Store.  Most of it speaks of   *)
(* `Stage`, the phase a record is in or was quarantined in: a quarantine,  *)
(* by a lost outcome or by recovery, changes no stage.                     *)
(***************************************************************************)
EXTENDS LifecycleStore

Stage(o) == IF phase[o] = "quarantined" THEN from[o] ELSE phase[o]

EarlyStages == {"prepared", "owned_create_dispatching"}
CandidateStages == {"owned_observed", "promotion_dispatching"}
BoundStages == {"promoted_observed", "projection_committed", "committed"}

(* Which phases and which sessions a record can have.                      *)
ProvisionShape(o) ==
    /\ phase[o] \in ProvisionPhases \cup {"none", "completed", "quarantined", "retired"}
    /\ phase[o] = "quarantined" => from[o] \in ProvisionPhases \ {"committed"}
    /\ Stage(o) \in EarlyStages \cup {"none", "completed"} => sess[o] = NoSession
    /\ Stage(o) \in CandidateStages \cup BoundStages => sess[o] \in Sessions

EndShape(o) ==
    /\ phase[o] \in EndPhases \cup {"none", "completed", "quarantined", "retired"}
    /\ phase[o] = "quarantined" => from[o] \in EndPhases
    /\ Recorded(o) => sess[o] \in Sessions

RecordShape ==
    /\ \A o \in ProvisionOps : ProvisionShape(o)
    /\ \A o \in EndOps : EndShape(o)

(* Two records name one session only as a provision and the end of it.     *)
SessionShared == \A o, p \in Ops :
    Recorded(o) /\ Recorded(p) /\ o # p /\ sess[o] = sess[p] /\ sess[o] \in Sessions =>
        /\ ThreadOf[o] = ThreadOf[p]
        /\ o \in ProvisionOps => phase[o] = "committed" /\ p \in EndOps
        /\ o \in EndOps => p \in ProvisionOps

(* What each state of a binding says of the record it names.               *)
BindingFact(s) ==
    LET o == bind[s].op IN
    /\ bind[s].st \in {"activating", "active"} =>
          o \in ProvisionOps /\ Recorded(o) /\ sess[o] = s
    /\ bind[s].st = "activating" => Stage(o) \in PostPromotion
    /\ bind[s].st = "active" => Stage(o) \in {"projection_committed", "committed"}
    /\ bind[s].st \in {"detached", "completed"} =>
          o \in EndOps /\ Recorded(o) /\ sess[o] = s
    /\ bind[s].st = "detached" => Stage(o) \in EndPhases
    /\ bind[s].st = "completed" => Stage(o) \in {"kill_acknowledged", "completed"}
    /\ bind[s].st = "retired" => \A p \in Ops : Recorded(p) => sess[p] # s

BindingFacts == \A s \in Sessions : BindingFact(s)

(* What each stage of a record says of its session's binding.              *)
ProvisionFact(o) ==
    /\ Stage(o) \in CandidateStages => bind[sess[o]].st = "none"
    /\ Stage(o) = "promoted_observed" =>
          \/ bind[sess[o]].st = "none"
          \/ bind[sess[o]] = [st |-> "activating", op |-> o]
    /\ Stage(o) = "projection_committed" =>
          \/ bind[sess[o]].st = "none"
          \/ bind[sess[o]] = [st |-> "activating", op |-> o]
          \/ bind[sess[o]] = [st |-> "active", op |-> o]

EndFact(o) ==
    /\ Stage(o) = "ending" => bind[sess[o]].st = "active" \/ Revoked(o)
    /\ Stage(o) = "kill_dispatching" => Revoked(o)
    /\ Stage(o) = "kill_acknowledged" =>
          Revoked(o) \/ bind[sess[o]] = [st |-> "completed", op |-> o]
    /\ phase[o] = "completed" =>
          bind[sess[o]] = [st |-> "completed", op |-> o] /\ EndProjected(o)

RecordFacts ==
    /\ \A o \in ProvisionOps : ProvisionFact(o)
    /\ \A o \in EndOps : EndFact(o)

(* SingleAuthority, pointwise: one nonterminal record per thread, one      *)
(* session with authority per thread, and that one the record's own.       *)
Commanded(s, t) == bind[s].st \in {"activating", "active"} /\ ThreadOf[bind[s].op] = t

OneOperation == \A o, p \in Ops :
    Nonterminal(o) /\ Nonterminal(p) /\ ThreadOf[o] = ThreadOf[p] => o = p
OneSession == \A s, r \in Sessions : \A t \in Threads :
    Commanded(s, t) /\ Commanded(r, t) => s = r
OwnSession == \A o \in Ops, s \in Sessions :
    Nonterminal(o) /\ Commanded(s, ThreadOf[o]) => sess[o] = s

(* Nothing happens on a thread while a completed end of it is on record.   *)
EndedIsQuiet == \A e \in EndOps : phase[e] = "completed" =>
    /\ \A o \in Ops : ThreadOf[o] = ThreadOf[e] => ~Nonterminal(o)
    /\ \A s \in Sessions : ~Commanded(s, ThreadOf[e])

(* What the method that holds the mutex has established so far.            *)
CallFact(o) ==
    /\ call.at = "register" =>
          /\ phase[o] = "none"
          /\ \A p \in Ops : ThreadOf[p] = ThreadOf[o] => ~Nonterminal(p)
          /\ o \in ProvisionOps => \A s \in Sessions : ~Commanded(s, ThreadOf[o])
    /\ call.at = "activating" => phase[o] = "promoted_observed"
    /\ call.at = "projection_committed" => phase[o] \in PostPromotion
    /\ call.at = "committed" =>
          phase[o] = "projection_committed" /\ bind[sess[o]] = [st |-> "active", op |-> o]
    /\ call.at = "detached" => phase[o] = "ending"
    /\ call.at \in {"ended", "binding_completed", "completed"} =>
          phase[o] = "kill_acknowledged"
    /\ call.at \in {"binding_completed", "completed"} => EndProjected(o)
    /\ call.at = "completed" => bind[sess[o]] = [st |-> "completed", op |-> o]

CallFacts ==
    /\ call # Idle => mode = "up" /\ call.op \in Ops
    /\ call.op \in Ops => CallFact(call.op)

(* The authority of every thread and session, at every instant between two *)
(* writes, is one that the records account for: this is what each Store    *)
(* method and each recovery pass needs of the state it starts in.          *)
DurableInvariant ==
    /\ RecordShape /\ SessionShared
    /\ BindingFacts /\ RecordFacts
    /\ OneOperation /\ OneSession /\ OwnSession
    /\ EndedIsQuiet

StoreInvariant == TypeOK /\ DurableInvariant /\ CallFacts

-----------------------------------------------------------------------------
(* What a restart relies on: recovery finds what it can serve.              *)

(* The snapshot of a thread is of the session that may be commanded there,  *)
(* or is about to be, or that an end is about; no other session's replaces  *)
(* it while a record speaks of one.                                         *)
PublishedFact(t) ==
    /\ \A s \in Sessions : bind[s].st = "active" /\ ThreadOf[bind[s].op] = t =>
          proj[t] = Shows("resident", s)
    /\ \A o \in ProvisionOps : ThreadOf[o] = t /\ Stage(o) = "projection_committed" =>
          ProjectionProven(o)
    /\ \A o \in EndOps : ThreadOf[o] = t /\ Stage(o) \in EndPhases => ~ForeignProjection(o)

(* A committed provision is served, or an end of its session is on record.  *)
CommittedFact(o) == phase[o] = "committed" =>
    \/ bind[sess[o]] = [st |-> "active", op |-> o]
    \/ \E e \in EndOps : Recorded(e) /\ sess[e] = sess[o]

(* Only a missing workspace quarantines an operation between its mutations. *)
ReasonFact(o) == phase[o] = "quarantined" /\ reason[o] # "authority_changed" =>
    from[o] \in DispatchPhases \cup {"owned_observed"}

(* The publication a method is about to record is that of its session.      *)
PublishingFact == call.at = "projection_committed" => ProjectionProven(call.op)

(* Only the method that settles an acknowledged end finds it so.            *)
SettlingFact == mode = "up" => \A e \in EndOps : phase[e] = "kill_acknowledged" =>
    call.op = e /\ call.at \in {"ended", "binding_completed", "completed"}

(* What the two recovery passes have done for a record they have visited.   *)
Rebound(o) ==
    /\ o \in EndOps /\ Stage(o) = "ending" => Revoked(o)
    /\ o \in ProvisionOps /\ phase[o] \in PostPromotion => bind[sess[o]].st # "none"
Replayed(o) == ~CommitInterrupted(o) /\ phase[o] # "kill_acknowledged"

PassFacts ==
    /\ mode = "before" => \A o \in Ops \ todo : Rebound(o)
    /\ mode = "after" => /\ \A o \in Ops : Rebound(o)
                         /\ \A o \in Ops \ todo : Replayed(o)

RecoveryInvariant ==
    /\ StoreInvariant
    /\ \A t \in Threads : PublishedFact(t)
    /\ \A o \in Ops : CommittedFact(o) /\ ReasonFact(o)
    /\ PublishingFact /\ SettlingFact /\ PassFacts
=============================================================================
