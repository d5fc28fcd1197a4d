----------------------------- MODULE OAuthProofs -----------------------------
(***************************************************************************)
(* OAuthInvariant is inductive and the properties of OAuthAttempts follow  *)
(* from it: for any attempts, connections and queue lengths, however the   *)
(* steps of sessions, helpers, requests and of the desktop interleave, and *)
(* whichever process stops between two of them.                            *)
(*                                                                         *)
(* The argument has four parts.  Records: each write the code makes is one *)
(* the journal takes, and moves the record on in an order (Became) that    *)
(* the desktop's own table of phases contains, so what the desktop noted   *)
(* or was answered stays a past of the record (Follows).  Sessions: what   *)
(* is alive of a session says which phase its record is in; one attempt    *)
(* at most is under way.  Requests: a request that is waited for is the    *)
(* one its operation sent on the present connection, a read never precedes *)
(* the start of its attempt, and what nobody waits for is only dropped, in *)
(* order (Thins, proved of the recursive Remaining by induction on the     *)
(* length of the queue).  Absence: with these, a read that found no record *)
(* leaves no start on its way but on connections older than the one that   *)
(* was told, which are entitled to nothing (NeverBegins).                  *)
(***************************************************************************)
EXTENDS OAuthInvariant, TLAPS, FiniteSetTheorems, SequenceTheorems, WellFoundedInduction

-----------------------------------------------------------------------------
(* Records.                                                                 *)

(* A record, over any sets of values for its fields.                        *)
Shape(P, N, W, I) == [phase : P, rev : N, why : W, intent : I, acked : BOOLEAN]
SomeIntent == Intents \cup {"none"}

(* A record of the journal is one of these.                                 *)
LEMMA RecordIsShape == RecordShape = Shape(Phases, Nat, Whys, SomeIntent)
  BY DEF RecordShape, Shape, SomeIntent

(* The values the operators on records put into the fields are of their     *)
(* sets.                                                                    *)
LEMMA Values ==
    /\ \A n \in Nat : n + 1 \in Nat
    /\ "none" \in SomeIntent /\ Intents \subseteq SomeIntent
    /\ {"cancelling", "recovery_required", "completed", "cancelled", "failed"} \subseteq Phases
    /\ \A w : PhaseOf(w) \in Phases
    /\ RecoveryReasons \subseteq Whys
    /\ \A p \in DOMAIN RecoveryReason : RecoveryReason[p] \in RecoveryReasons
  BY DEF SomeIntent, Phases, Terminal, PhaseOf, Whys, RecoveryReasons, RecoveryReason

(* What each operator on records returns, field by field.                   *)
LEMMA AdvancedFields ==
    ASSUME NEW r \in RecordShape, NEW p \in Phases
    PROVE  LET s == Advanced(r, p) IN
           /\ s \in RecordShape /\ s.phase = p /\ s.rev = r.rev + 1
           /\ s.why = r.why /\ s.intent = r.intent /\ s.acked = r.acked
  BY RecordIsShape, Values DEF Advanced, Shape

LEMMA CancellingFields ==
    ASSUME NEW r \in RecordShape, NEW i \in Intents
    PROVE  LET s == Cancelling(r, i) IN
           /\ s \in RecordShape /\ s.phase = "cancelling" /\ s.rev = r.rev + 1
           /\ s.why = r.why /\ s.intent = i /\ s.acked = r.acked
  BY RecordIsShape, Values DEF Cancelling, Advanced, Shape

LEMMA SettledFields ==
    ASSUME NEW r \in RecordShape, NEW w \in Whys
    PROVE  LET s == Settled(r, w) IN
           /\ s \in RecordShape /\ s.phase = PhaseOf(w) /\ s.rev = r.rev + 1
           /\ s.why = w /\ s.intent = "none" /\ s.acked = r.acked
  BY RecordIsShape, Values DEF Settled, Advanced, Shape

LEMMA UnconfirmedFields ==
    ASSUME NEW r \in RecordShape, r.phase \in DOMAIN RecoveryReason
    PROVE  LET s == Unconfirmed(r) IN
           /\ s \in RecordShape /\ s.phase = "recovery_required" /\ s.rev = r.rev + 1
           /\ s.why = RecoveryReason[r.phase] /\ s.intent = "none" /\ s.acked = r.acked
           /\ s.why \in RecoveryReasons
<1>1. RecoveryReason[r.phase] \in RecoveryReasons
  BY Values
<1> QED BY <1>1, RecordIsShape, Values DEF Unconfirmed, Advanced, Shape

LEMMA AcknowledgedFields ==
    ASSUME NEW r \in RecordShape
    PROVE  LET s == Acknowledged(r) IN
           /\ s \in RecordShape /\ s.phase = r.phase /\ s.rev = r.rev + 1
           /\ s.why = r.why /\ s.intent = r.intent /\ s.acked = TRUE
  BY RecordIsShape, Values DEF Acknowledged, Shape

(* The absent record and the first one.                                     *)
LEMMA NoRecordFields ==
    /\ NoRecord \in RecordShape /\ NoRecord.phase = "none" /\ NoRecord.why = "none"
    /\ NoRecord.intent = "none" /\ NoRecord.acked = FALSE
    /\ Prepared \in RecordShape /\ Prepared.phase = "prepared" /\ Prepared.why = "none"
    /\ Prepared.intent = "none" /\ Prepared.acked = FALSE /\ Prepared.rev = 0
    /\ Prepared # NoRecord
  BY DEF NoRecord, Prepared, RecordShape, Phases, Whys, Intents

(* What a record may become, one durable change at a time: the journal      *)
(* takes it, and it is sound.                                               *)
Moved(old, new) == Accepts(old, new) /\ Sound(new)

(* Each write a transition of an attempt makes is one the journal takes,    *)
(* from each phase it is made in: before the login...                       *)
LEMMA PreparedMoves ==
    ASSUME NEW r, Sound(r), r.phase = "prepared"
    PROVE  /\ Moved(r, Advanced(r, "login_dispatching"))
           /\ Moved(r, Settled(r, "interrupted_before_login_dispatch"))
           /\ Moved(r, Settled(r, "user_cancelled"))
<1>1. r \in RecordShape /\ r.why = "none" /\ r.intent = "none" /\ r.acked = FALSE /\ r.rev = 0
  BY NoRecordFields DEF Sound, WhyOf, ReachableRevision, Revisions, Terminal, RecordShape
<1>2. Moved(r, Advanced(r, "login_dispatching"))
  <2>1. "login_dispatching" \in Phases BY DEF Phases
  <2> QED BY <1>1, <2>1, AdvancedFields, NoRecordFields
    DEF Moved, Accepts, LegalTransition, ReachableRevision, Revisions, Sound, WhyOf, Terminal
<1>3. Moved(r, Settled(r, "interrupted_before_login_dispatch"))
  BY <1>1, SettledFields
     DEF Moved, Accepts, LegalTransition, ReachableRevision, Revisions, Sound, WhyOf, Whys,
         FailedWhy, Terminal, PhaseOf, Barrier
<1>4. Moved(r, Settled(r, "user_cancelled"))
  BY <1>1, SettledFields
     DEF Moved, Accepts, LegalTransition, ReachableRevision, Revisions, Sound, WhyOf, Whys,
         FailedWhy, Terminal, PhaseOf, Barrier
<1> QED BY <1>2, <1>3, <1>4

(* ...during it...                                                          *)
LEMMA LoginMoves ==
    ASSUME NEW r, Sound(r), r.phase = "login_dispatching"
    PROVE  /\ Moved(r, Advanced(r, "credentials_ready"))
           /\ \A i \in Intents : Moved(r, Cancelling(r, i))
           /\ Moved(r, Settled(r, "provider_login_failed"))
           /\ Moved(r, Unconfirmed(r))
<1>1. r \in RecordShape /\ r.why = "none" /\ r.intent = "none" /\ r.acked = FALSE /\ r.rev = 1
  BY NoRecordFields DEF Sound, WhyOf, ReachableRevision, Revisions, Terminal, RecordShape
<1>2. Moved(r, Advanced(r, "credentials_ready"))
  <2>1. "credentials_ready" \in Phases BY DEF Phases
  <2> QED BY <1>1, <2>1, AdvancedFields, NoRecordFields
    DEF Moved, Accepts, LegalTransition, ReachableRevision, Revisions, Sound, WhyOf, Terminal
<1>3. \A i \in Intents : Moved(r, Cancelling(r, i))
  BY <1>1, CancellingFields
     DEF Moved, Accepts, LegalTransition, ReachableRevision, Revisions, Sound, WhyOf, Phases,
         Terminal, Intents
<1>4. Moved(r, Settled(r, "provider_login_failed"))
  BY <1>1, SettledFields
     DEF Moved, Accepts, LegalTransition, ReachableRevision, Revisions, Sound, WhyOf, Whys,
         FailedWhy, Terminal, PhaseOf, Barrier
<1>5. Moved(r, Unconfirmed(r))
  BY <1>1, UnconfirmedFields
     DEF Moved, Accepts, LegalTransition, ReachableRevision, Revisions, Sound, WhyOf,
         RecoveryReason, RecoveryReasons, Terminal
<1> QED BY <1>2, <1>3, <1>4, <1>5

(* ...between login and storage...                                          *)
LEMMA ReadyMoves ==
    ASSUME NEW r, Sound(r), r.phase = "credentials_ready"
    PROVE  /\ Moved(r, Advanced(r, "persistence_dispatching"))
           /\ Moved(r, Settled(r, "credentials_discarded"))
<1>1. r \in RecordShape /\ r.why = "none" /\ r.intent = "none" /\ r.acked = FALSE /\ r.rev = 2
  BY NoRecordFields DEF Sound, WhyOf, ReachableRevision, Revisions, Terminal, RecordShape
<1>2. Moved(r, Advanced(r, "persistence_dispatching"))
  <2>1. "persistence_dispatching" \in Phases BY DEF Phases
  <2> QED BY <1>1, <2>1, AdvancedFields, NoRecordFields
    DEF Moved, Accepts, LegalTransition, ReachableRevision, Revisions, Sound, WhyOf, Phases, Terminal
<1>4. Moved(r, Settled(r, "credentials_discarded"))
  BY <1>1, SettledFields
     DEF Moved, Accepts, LegalTransition, ReachableRevision, Revisions, Sound, WhyOf, Whys,
         FailedWhy, Terminal, PhaseOf, Barrier
<1> QED BY <1>2, <1>4

(* ...during the storage...                                                 *)
LEMMA StoringMoves ==
    ASSUME NEW r, Sound(r), r.phase = "persistence_dispatching"
    PROVE  /\ Moved(r, Settled(r, "persistence_confirmed"))
           /\ Moved(r, Settled(r, "persistence_failed"))
           /\ Moved(r, Unconfirmed(r))
<1>1. r \in RecordShape /\ r.why = "none" /\ r.intent = "none" /\ r.acked = FALSE /\ r.rev = 3
  BY NoRecordFields DEF Sound, WhyOf, ReachableRevision, Revisions, Terminal, RecordShape
<1>2. Moved(r, Settled(r, "persistence_confirmed"))
  BY <1>1, SettledFields
     DEF Moved, Accepts, LegalTransition, ReachableRevision, Revisions, Sound, WhyOf, Whys,
         FailedWhy, Terminal, PhaseOf, Barrier
<1>4. Moved(r, Settled(r, "persistence_failed"))
  BY <1>1, SettledFields
     DEF Moved, Accepts, LegalTransition, ReachableRevision, Revisions, Sound, WhyOf, Whys,
         FailedWhy, Terminal, PhaseOf, Barrier
<1>5. Moved(r, Unconfirmed(r))
  BY <1>1, UnconfirmedFields
     DEF Moved, Accepts, LegalTransition, ReachableRevision, Revisions, Sound, WhyOf,
         RecoveryReason, RecoveryReasons, Terminal
<1> QED BY <1>2, <1>4, <1>5

(* ...while it is cancelled...                                              *)
LEMMA CancellingMoves ==
    ASSUME NEW r, Sound(r), r.phase = "cancelling"
    PROVE  /\ CancelResolution[r.intent] \in {"user_cancelled", "expired", "host_shutdown"}
           /\ Moved(r, Settled(r, CancelResolution[r.intent]))
           /\ Moved(r, Unconfirmed(r))
<1>1. r \in RecordShape /\ r.why = "none" /\ r.intent \in Intents /\ r.acked = FALSE /\ r.rev = 2
  BY NoRecordFields DEF Sound, WhyOf, ReachableRevision, Revisions, Terminal, RecordShape
<1>2. CancelResolution[r.intent] \in {"user_cancelled", "expired", "host_shutdown"}
  BY <1>1 DEF CancelResolution, Intents
<1>4. Moved(r, Settled(r, CancelResolution[r.intent]))
  BY <1>1, <1>2, SettledFields
     DEF Moved, Accepts, LegalTransition, ReachableRevision, Revisions, Sound, WhyOf, Whys,
         FailedWhy, Terminal, PhaseOf, Barrier
<1>5. Moved(r, Unconfirmed(r))
  BY <1>1, UnconfirmedFields
     DEF Moved, Accepts, LegalTransition, ReachableRevision, Revisions, Sound, WhyOf,
         RecoveryReason, RecoveryReasons, Terminal
<1> QED BY <1>2, <1>4, <1>5

(* ...and an acknowledgement, once, of a settled one.                       *)
LEMMA TerminalMoves ==
    ASSUME NEW r, Sound(r), r.phase \in Terminal, ~r.acked
    PROVE  Moved(r, Acknowledged(r))
<1>1. r \in RecordShape /\ r.intent = "none" /\ r.rev \in Nat
  BY NoRecordFields DEF Sound, Terminal, RecordShape
<1>2. ReachableRevision(Acknowledged(r))
  <2>1. r.rev \in Revisions(r)
    BY NoRecordFields DEF Sound, ReachableRevision, Terminal
  <2>2. Acknowledged(r).rev - 1 = r.rev
    <3>1. Acknowledged(r).rev = r.rev + 1 BY <1>1, AcknowledgedFields
    <3> QED BY <1>1, <3>1
  <2>3. Revisions(Acknowledged(r)) = Revisions(r)
    BY <1>1, AcknowledgedFields DEF Revisions
  <2> QED BY <1>1, <2>1, <2>2, <2>3, AcknowledgedFields DEF ReachableRevision
<1> QED
  BY <1>1, <1>2, AcknowledgedFields DEF Moved, Accepts, LegalTransition, Sound, Terminal

(* The first write of an attempt.                                           *)
LEMMA PrepareMoves == Sound(NoRecord) /\ Moved(NoRecord, Prepared)
  BY NoRecordFields DEF Moved, Accepts, LegalTransition, ReachableRevision, Revisions, Sound, WhyOf, Terminal

(* HOST_PHASE_TRANSITIONS, row by row.                                      *)
LEMMA PhaseFollows ==
    ASSUME NEW p \in Phases, NEW q \in Phases, p # "none"
    PROVE  HostPhaseFollows(p, q) <=>
        \/ p = q
        \/ p = "prepared" /\ q # "none"
        \/ p = "login_dispatching" /\ q \notin {"none", "prepared"}
        \/ p = "credentials_ready" /\ q \notin {"none", "prepared", "login_dispatching"}
        \/ p = "persistence_dispatching" /\ q \in {"recovery_required", "completed", "failed"}
        \/ p = "cancelling" /\ q \in {"recovery_required", "cancelled", "failed"}
        \/ p = "recovery_required" /\ q \in {"cancelled", "failed"}
  BY DEF HostPhaseFollows, HostPhaseTransitions, Phases, Terminal

(* A phase later than a later one is later: the table the desktop holds the *)
(* host's phases against is transitive where recovery is kept.              *)
LEMMA LaterOn ==
    ASSUME NEW p \in Phases, NEW q \in Phases, NEW r \in Phases, q # "none",
           Later(p, q), Later(q, r)
    PROVE  Later(p, r)
<1>1. CASE p = "none" BY <1>1 DEF HostPhaseFollows, Later
<1>2. CASE p # "none" BY <1>2, PhaseFollows DEF Later
<1> QED BY <1>1, <1>2

(* What the journal takes, the table of the desktop allows: no write of the *)
(* host's goes back on what a record said.                                  *)
LEMMA MovedBecame ==
    ASSUME NEW old, NEW new, Sound(old), Moved(old, new)
    PROVE  /\ new # NoRecord /\ Became(old, new)
           /\ Barrier(new) => Barrier(old) \/ old = NoRecord
           /\ old = NoRecord => new = Prepared
<1>1. old \in RecordShape /\ new \in RecordShape /\ LegalTransition(old, new) /\ Sound(new)
  BY DEF Moved, Accepts, Sound
<1>2. CASE old.phase = "none"
  <2>1. old = NoRecord BY <1>2, NoRecordFields DEF Sound
  <2>2. new.phase = "prepared" BY <1>1, <1>2 DEF LegalTransition, Terminal, Barrier
  <2>3. /\ new.why = "none" /\ new.intent = "none" /\ new.acked = FALSE /\ new.rev = 0
    BY <1>1, <2>2, NoRecordFields DEF Sound, WhyOf, ReachableRevision, Revisions, Terminal, RecordShape
  <2>4. new = Prepared
    BY <1>1, <2>2, <2>3, NoRecordFields DEF RecordShape
  <2> QED BY <2>1, <2>4, NoRecordFields DEF Became, Terminal
<1>3. CASE old.phase \in Terminal
  <2>1. new = Acknowledged(old)
    BY <1>1, <1>3 DEF LegalTransition, Terminal, Barrier
  <2>2. /\ new.phase = old.phase /\ new.why = old.why /\ new.acked
    BY <1>1, <2>1, AcknowledgedFields
  <2>3. Later(old.phase, new.phase)
    BY <1>1, <1>3, <2>2, PhaseFollows DEF Phases, Terminal, Later
  <2> QED BY <1>3, <2>2, <2>3, NoRecordFields DEF Became, Terminal, Barrier
<1>4. CASE Barrier(old)
  <2>1. old.phase \in Phases \ (Terminal \cup {"none"}) /\ ~old.acked /\ new.phase \in Phases
    BY <1>1, <1>4 DEF Barrier, RecordShape, Sound
  <2>2. new.phase # "none" /\ Later(old.phase, new.phase)
    <3>1. CASE new.phase \in Terminal
      <4>1. new.why \in WhyOf(new.phase) BY <1>1 DEF Sound
      <4>2. old.phase = "cancelling" => CancelResolution[old.intent] # "persistence_confirmed"
        BY <1>1, CancellingMoves DEF Sound
      <4> QED BY <1>1, <1>4, <2>1, <3>1, <4>1, <4>2, PhaseFollows
              DEF LegalTransition, Terminal, Barrier, WhyOf, FailedWhy, Phases, Later
    <3>2. CASE new.phase \notin Terminal
      <4>1. <<old.phase, new.phase>> \in
         {<<"prepared", "login_dispatching">>,
          <<"login_dispatching", "credentials_ready">>,
          <<"login_dispatching", "cancelling">>,
          <<"login_dispatching", "recovery_required">>,
          <<"credentials_ready", "persistence_dispatching">>,
          <<"persistence_dispatching", "recovery_required">>,
          <<"cancelling", "recovery_required">>}
        BY <1>1, <1>4, <3>2 DEF LegalTransition, Barrier
      <4> QED BY <2>1, <4>1, PhaseFollows DEF Phases, Terminal, Later
    <3> QED BY <3>1, <3>2
  <2> QED BY <1>4, <2>1, <2>2, NoRecordFields DEF Became, Barrier, Terminal
<1> QED BY <1>2, <1>3, <1>4 DEF Barrier

(* The same over any number of writes.                                      *)
LEMMA BecameOn ==
    ASSUME NEW a \in RecordShape, NEW b \in RecordShape, NEW c \in RecordShape,
           Sound(b), Became(a, b), Became(b, c)
    PROVE  Became(a, c)
<1>1. b # NoRecord => b.phase # "none" BY DEF Sound
<1>2. a.phase \in Phases /\ b.phase \in Phases /\ c.phase \in Phases BY DEF RecordShape
<1>3. a # NoRecord => c # NoRecord /\ Later(a.phase, c.phase)
  BY <1>1, <1>2, LaterOn DEF Became
<1> QED BY <1>3 DEF Became

(* What follows from a record follows from what it became.                  *)
LEMMA FollowsBecame ==
    ASSUME NEW e, SoundEntry(e), NEW r, NEW s, Sound(r), Sound(s), Follows(e, r), Became(r, s)
    PROVE  Follows(e, s)
<1>1. r # NoRecord => r.phase # "none" BY DEF Sound
<1>2. e.hostPhase \in Phases /\ r.phase \in Phases /\ s.phase \in Phases
  BY DEF Sound, SoundEntry, RecordShape, Entry
<1>3. e.hostPhase # "none" => s # NoRecord /\ Later(e.hostPhase, s.phase)
  BY <1>1, <1>2, LaterOn DEF Became, Follows
<1> QED BY <1>3 DEF Became, Follows

-----------------------------------------------------------------------------
(* Queues of requests.                                                      *)

(* The least of some naturals, and with it induction over a set of them.    *)
LEMMA Least ==
    ASSUME NEW T, T \subseteq Nat, T # {}
    PROVE  \E m \in T : \A k \in T : m <= k
<1> DEFINE R == OpToRel(<, Nat)
<1>1. IsWellFoundedOn(R, Nat)
  BY NatLessThanWellFounded
<1>2. \A k, m \in Nat : <<k, m>> \in R <=> k < m
  BY DEF OpToRel
<1> HIDE DEF R
<1>3. \E x \in T : \A y \in T : ~ (<<y, x>> \in R)
  BY <1>1, WFMin
<1>4. \A k, m \in T : k \in Nat /\ m \in Nat /\ (<<k, m>> \in R <=> k < m)
  BY <1>2
<1>5. \A k, m \in Nat : ~(k < m) => m <= k
  OBVIOUS
<1> QED BY <1>3, <1>4, <1>5

(* Induction over the naturals, from the least one it fails for.            *)
LEMMA Induction ==
    ASSUME NEW T, 0 \in T, \A n \in Nat : n \in T => n + 1 \in T
    PROVE  Nat \subseteq T
<1> SUFFICES ASSUME Nat \ T # {} PROVE FALSE
  OBVIOUS
<1>1. PICK m \in Nat \ T : \A k \in Nat \ T : m <= k
  <2> DEFINE U == Nat \ T
  <2>1. U \subseteq Nat /\ U # {} OBVIOUS
  <2> HIDE DEF U
  <2>2. \E m \in U : \A k \in U : m <= k BY <2>1, Least
  <2> QED BY <2>2 DEF U
<1>2. m # 0 /\ m - 1 \in Nat /\ m - 1 < m /\ (m - 1) + 1 = m
  BY <1>1
<1>3. m - 1 \in T
  BY <1>1, <1>2
<1> QED BY <1>1, <1>2, <1>3

(* A queue that holds, in their order, some of the first n of q, all of them *)
(* among `these`; and the first, if it is.                                  *)
Embeds(e, t, q, these) == \A i \in 1..Len(t) :
    /\ t[i] = q[e[i]] /\ t[i] \in these
    /\ \A j \in 1..Len(t) : i < j => e[i] < e[j]
Selects(t, q, n, these) ==
    /\ \E e \in [1..Len(t) -> 1..n] : Embeds(e, t, q, these)
    /\ n > 0 /\ q[1] \in these => t # <<>> /\ t[1] = q[1]

Goes(f, q, these, n) == f[n] = IF n = 0 THEN <<>>
    ELSE IF q[n] \in these THEN Append(f[n - 1], q[n]) ELSE f[n - 1]

(* Another request that is selected, or is not.                             *)
LEMMA SelectsMore ==
    ASSUME NEW S, NEW q \in Seq(S), NEW these, NEW n \in Nat, n + 1 <= Len(q),
           NEW t \in Seq(S), Selects(t, q, n, these), q[n + 1] \in these
    PROVE  Selects(Append(t, q[n + 1]), q, n + 1, these)
<1> DEFINE x == q[n + 1]
           s == Append(t, x)
           m == Len(t)
<1>1. PICK e \in [1..m -> 1..n] : Embeds(e, t, q, these)
  BY DEF Selects
<1>2. m \in Nat /\ n + 1 \in 1..Len(q) OBVIOUS
<1>3. x \in S BY <1>2
<1>4. s \in Seq(S) /\ Len(s) = m + 1 /\ \A i \in 1..m + 1 : s[i] = IF i = m + 1 THEN x ELSE t[i]
  BY <1>3
<1> DEFINE g == [i \in 1..m + 1 |-> IF i = m + 1 THEN n + 1 ELSE e[i]]
<1>5. \A i \in 1..m + 1 : i = m + 1 \/ i \in 1..m
  BY <1>2
<1>6. \A i \in 1..m : e[i] \in 1..n /\ e[i] < n + 1
  BY <1>1, <1>2
<1>7. g \in [1..m + 1 -> 1..n + 1]
  BY <1>2, <1>5, <1>6
<1>8. Embeds(g, s, q, these)
  <2>1. SUFFICES ASSUME NEW i \in 1..m + 1
                 PROVE  /\ s[i] = q[g[i]] /\ s[i] \in these
                        /\ \A j \in 1..m + 1 : i < j => g[i] < g[j]
    BY <1>4 DEF Embeds
  <2>2. s[i] = q[g[i]] /\ s[i] \in these
    BY <1>1, <1>4, <1>5 DEF Embeds
  <2>3. ASSUME NEW j \in 1..m + 1, i < j PROVE g[i] < g[j]
    <3>1. i \in 1..m BY <1>2, <2>3
    <3>2. CASE j = m + 1 BY <1>2, <1>6, <3>1, <3>2
    <3>3. CASE j # m + 1 BY <1>1, <1>2, <1>5, <2>3, <3>1, <3>3 DEF Embeds
    <3> QED BY <3>2, <3>3
  <2> QED BY <2>2, <2>3
<1>9. q[1] \in these => s # <<>> /\ s[1] = q[1]
  <2>1. s # <<>> BY <1>2, <1>4
  <2>2. CASE n = 0
    <3>1. m = 0
      <4>1. m > 0 => e[m] \in 1..n BY <1>1, <1>2
      <4> QED BY <1>2, <2>2, <4>1
    <3> QED BY <1>4, <2>1, <2>2, <3>1
  <2>3. CASE n > 0
    <3>1. q[1] \in these => m > 0 /\ t[1] = q[1] BY <1>2, <2>3 DEF Selects
    <3> QED BY <1>2, <1>4, <2>1, <3>1
  <2> QED BY <2>2, <2>3
<1> HIDE DEF g, s, x
<1>10. \E f \in [1..Len(s) -> 1..n + 1] : Embeds(f, s, q, these)
  BY <1>4, <1>7, <1>8
<1> QED BY <1>9, <1>10 DEF Selects, s, x

LEMMA SelectsSame ==
    ASSUME NEW S, NEW q \in Seq(S), NEW these, NEW n \in Nat, n + 1 <= Len(q),
           NEW t \in Seq(S), Selects(t, q, n, these), q[n + 1] \notin these
    PROVE  Selects(t, q, n + 1, these)
<1>1. PICK e \in [1..Len(t) -> 1..n] : Embeds(e, t, q, these)
  BY DEF Selects
<1>2. e \in [1..Len(t) -> 1..n + 1]
  BY <1>1
<1>3. q[1] \in these => n > 0
  OBVIOUS
<1> QED BY <1>1, <1>2, <1>3 DEF Selects

(* Of nothing, nothing is selected.                                         *)
LEMMA SelectsNone ==
    ASSUME NEW q, NEW these
    PROVE  Selects(<<>>, q, 0, these)
<1> DEFINE e == [i \in 1..0 |-> 0]
<1>1. Len(<<>>) = 0 /\ \A i \in 1..0 : FALSE
  OBVIOUS
<1>2. e \in [1..Len(<<>>) -> 1..0]
  BY <1>1
<1>3. Embeds(e, <<>>, q, these)
  BY <1>1 DEF Embeds
<1> HIDE DEF e
<1>4. \E f \in [1..Len(<<>>) -> 1..0] : Embeds(f, <<>>, q, these)
  BY <1>2, <1>3
<1>5. ~ (0 > 0) OBVIOUS
<1> QED BY <1>4, <1>5 DEF Selects

(* The recursion that selects, a request at a time.                         *)
LEMMA GoesSelects ==
    ASSUME NEW S, NEW q \in Seq(S), NEW these, NEW f, \A n \in 0..Len(q) : Goes(f, q, these, n)
    PROVE  f[Len(q)] \in Seq(S) /\ Selects(f[Len(q)], q, Len(q), these)
<1> DEFINE T == {n \in Nat : n <= Len(q) => f[n] \in Seq(S) /\ Selects(f[n], q, n, these)}
<1>1. 0 \in T
  <2>1. f[0] = <<>>
    <3>1. 0 \in 0..Len(q) OBVIOUS
    <3> QED BY <3>1 DEF Goes
  <2>2. Selects(<<>>, q, 0, these) BY SelectsNone
  <2>3. <<>> \in Seq(S) OBVIOUS
  <2> QED BY <2>1, <2>2, <2>3
<1>2. ASSUME NEW n \in Nat, n \in T PROVE n + 1 \in T
  <2>1. SUFFICES ASSUME n + 1 <= Len(q)
                 PROVE  f[n + 1] \in Seq(S) /\ Selects(f[n + 1], q, n + 1, these)
    OBVIOUS
  <2>2. f[n] \in Seq(S) /\ Selects(f[n], q, n, these) BY <1>2, <2>1
  <2>3. f[n + 1] = IF q[n + 1] \in these THEN Append(f[n], q[n + 1]) ELSE f[n]
    <3>1. n + 1 \in 0..Len(q) /\ n + 1 # 0 /\ (n + 1) - 1 = n BY <2>1
    <3> QED BY <3>1 DEF Goes
  <2>4. q[n + 1] \in S
    <3>1. n + 1 \in 1..Len(q) BY <2>1
    <3> QED BY <3>1
  <2>5. CASE q[n + 1] \in these BY <2>1, <2>2, <2>3, <2>4, <2>5, SelectsMore
  <2>6. CASE q[n + 1] \notin these BY <2>1, <2>2, <2>3, <2>6, SelectsSame
  <2> QED BY <2>5, <2>6
<1> HIDE DEF T
<1>3. Nat \subseteq T BY <1>1, <1>2, Induction
<1>4. Len(q) \in T /\ Len(q) <= Len(q) BY <1>3
<1> QED BY <1>4 DEF T

Recurs(f, q, these, m) == f = [n \in 0..m |->
    IF n = 0 THEN <<>>
    ELSE IF q[n] \in these THEN Append(f[n - 1], q[n]) ELSE f[n - 1]]

(* The function it is exists for every length.                              *)
LEMMA RecursMore ==
    ASSUME NEW q, NEW these, NEW m \in Nat, NEW f, Recurs(f, q, these, m)
    PROVE  \E g : Recurs(g, q, these, m + 1)
<1> DEFINE B(h, n) == IF n = 0 THEN <<>>
                      ELSE IF q[n] \in these THEN Append(h[n - 1], q[n]) ELSE h[n - 1]
           g == [n \in 0..m + 1 |-> B(f, n)]
<1>1. \A n \in 0..m : n \in 0..m + 1
  OBVIOUS
<1>2. \A n \in 0..m : f[n] = B(f, n)
  BY DEF Recurs
<1>3. \A n \in 0..m + 1 : g[n] = B(f, n)
  OBVIOUS
<1>4. \A n \in 0..m : g[n] = f[n]
  BY <1>1, <1>2, <1>3
<1>5. \A n \in 0..m + 1 : n # 0 => n - 1 \in 0..m
  OBVIOUS
<1>6. \A n \in 0..m + 1 : B(f, n) = B(g, n)
  BY <1>4, <1>5
<1>7. g = [n \in 0..m + 1 |-> B(g, n)]
  <2> HIDE DEF B
  <2> QED BY <1>6
<1>8. Recurs(g, q, these, m + 1)
  BY <1>7 DEF Recurs
<1> QED BY <1>8

LEMMA GoesExists ==
    ASSUME NEW q, NEW these
    PROVE  \A m \in Nat : \E f : Recurs(f, q, these, m)
<1> DEFINE T == {m \in Nat : \E f : Recurs(f, q, these, m)}
<1>1. 0 \in T
  <2> DEFINE f == [n \in 0..0 |-> <<>>]
  <2>1. Recurs(f, q, these, 0)
    <3>1. \A n \in 0..0 : n = 0 OBVIOUS
    <3> QED BY <3>1 DEF Recurs
  <2> QED BY <2>1
<1>2. ASSUME NEW m \in Nat, m \in T PROVE m + 1 \in T
  BY <1>2, RecursMore
<1> HIDE DEF T
<1>3. Nat \subseteq T BY <1>1, <1>2, Induction
<1> QED BY <1>3 DEF T

(* What remains of a queue is what is selected of it, in its order.         *)
LEMMA RemainingSelects ==
    ASSUME NEW S, NEW q \in Seq(S), NEW these
    PROVE  Remaining(q, these) \in Seq(S) /\ Selects(Remaining(q, these), q, Len(q), these)
<1> DEFINE f == CHOOSE f : Recurs(f, q, these, Len(q))
<1>1. Remaining(q, these) = f[Len(q)]
  BY DEF Remaining, Recurs
<1>2. Recurs(f, q, these, Len(q))
  <2>1. Len(q) \in Nat OBVIOUS
  <2>2. \E g : Recurs(g, q, these, Len(q)) BY <2>1, GoesExists
  <2> QED BY <2>2
<1> HIDE DEF f
<1>3. \A n \in 0..Len(q) : Goes(f, q, these, n)
  BY <1>2 DEF Goes, Recurs
<1> QED BY <1>1, <1>3, GoesSelects

(* A queue that is left of another: fewer requests, or no longer waited for.*)
Thin(e, t, q) == \A i \in 1..Len(t) :
    /\ t[i].kind = q[e[i]].kind /\ t[i].a = q[e[i]].a /\ (t[i].live => q[e[i]].live)
    /\ \A j \in 1..Len(t) : i < j => e[i] < e[j]
Thins(t, q) == \E e \in [1..Len(t) -> 1..Len(q)] : Thin(e, t, q)

(* A queue is left of itself, nothing of any, and all but the first.        *)
LEMMA ThinsSame ==
    ASSUME NEW q \in Seq(Requests)
    PROVE  Thins(q, q)
<1> DEFINE e == [i \in 1..Len(q) |-> i]
<1>1. e \in [1..Len(q) -> 1..Len(q)] /\ Thin(e, q, q)
  BY DEF Thin
<1> QED BY <1>1 DEF Thins

LEMMA ThinsNone ==
    ASSUME NEW q \in Seq(Requests)
    PROVE  Thins(<<>>, q)
<1> DEFINE e == [i \in 1..0 |-> 0]
<1>1. Len(<<>>) = 0 /\ \A i \in 1..0 : FALSE
  OBVIOUS
<1>2. e \in [1..Len(<<>>) -> 1..Len(q)] /\ Thin(e, <<>>, q)
  BY <1>1 DEF Thin
<1> HIDE DEF e
<1> QED BY <1>2 DEF Thins

LEMMA ThinsTail ==
    ASSUME NEW q \in Seq(Requests), q # <<>>
    PROVE  /\ Tail(q) \in Seq(Requests) /\ Thins(Tail(q), q)
           /\ Len(Tail(q)) = Len(q) - 1 /\ \A i \in 1..Len(Tail(q)) : Tail(q)[i] = q[i + 1]
<1> DEFINE t == Tail(q)
           e == [i \in 1..Len(t) |-> i + 1]
<1>1. t \in Seq(Requests) /\ Len(t) = Len(q) - 1 /\ Len(q) \in Nat
      /\ \A i \in 1..Len(t) : t[i] = q[i + 1] /\ i + 1 \in 1..Len(q)
  OBVIOUS
<1> HIDE DEF t
<1>2. e \in [1..Len(t) -> 1..Len(q)] /\ Thin(e, t, q)
  BY <1>1 DEF Thin
<1> HIDE DEF e
<1>3. Thins(t, q)
  BY <1>2 DEF Thins
<1> QED BY <1>1, <1>3 DEF t

(* Left of what is left.                                                    *)
LEMMA ThinsOn ==
    ASSUME NEW s \in Seq(Requests), NEW t \in Seq(Requests), NEW q \in Seq(Requests),
           Thins(s, t), Thins(t, q)
    PROVE  Thins(s, q)
<1>1. PICK e \in [1..Len(s) -> 1..Len(t)] : Thin(e, s, t)
  BY DEF Thins
<1>2. PICK f \in [1..Len(t) -> 1..Len(q)] : Thin(f, t, q)
  BY DEF Thins
<1> DEFINE g == [i \in 1..Len(s) |-> f[e[i]]]
<1>3. g \in [1..Len(s) -> 1..Len(q)] /\ Thin(g, s, q)
  BY <1>1, <1>2 DEF Thin
<1> HIDE DEF g
<1> QED BY <1>3 DEF Thins

(* What remains is left, and the first is first.                            *)
LEMMA RemainingThins ==
    ASSUME NEW q \in Seq(Requests), NEW these
    PROVE  LET t == Remaining(q, these) IN
           /\ t \in Seq(Requests) /\ Thins(t, q)
           /\ \A i \in 1..Len(t) : t[i] \in these
           /\ q # <<>> /\ q[1] \in these => t # <<>> /\ t[1] = q[1]
<1> DEFINE t == Remaining(q, these)
<1>1. t \in Seq(Requests) /\ Selects(t, q, Len(q), these)
  BY RemainingSelects
<1> HIDE DEF t
<1>2. PICK e \in [1..Len(t) -> 1..Len(q)] : Embeds(e, t, q, these)
  BY <1>1 DEF Selects
<1>3. Thin(e, t, q) /\ \A i \in 1..Len(t) : t[i] \in these
  BY <1>2 DEF Thin, Embeds
<1>4. q # <<>> => Len(q) > 0
  OBVIOUS
<1> QED BY <1>1, <1>2, <1>3, <1>4 DEF t, Thins, Selects

(* What is entered stays before what is left of the rest.                   *)
LEMMA ThinsHead ==
    ASSUME NEW q \in Seq(Requests), q # <<>>, NEW t \in Seq(Requests), Thins(t, Tail(q))
    PROVE  LET s == SubSeq(q, 1, 1) \o t IN
           /\ s \in Seq(Requests) /\ Thins(s, q) /\ s # <<>> /\ s[1] = q[1]
           /\ Len(s) = Len(t) + 1 /\ \A i \in 1..Len(t) : s[i + 1] = t[i]
<1> DEFINE s == SubSeq(q, 1, 1) \o t
           r == Tail(q)
<1>1. /\ s \in Seq(Requests) /\ Len(s) = Len(t) + 1 /\ s[1] = q[1] /\ s # <<>>
      /\ \A i \in 1..Len(s) : i # 1 => i - 1 \in 1..Len(t) /\ s[i] = t[i - 1]
      /\ \A i \in 1..Len(t) : s[i + 1] = t[i]
  OBVIOUS
<1>2. Len(r) = Len(q) - 1 /\ \A i \in 1..Len(r) : r[i] = q[i + 1] /\ i + 1 \in 1..Len(q)
  BY ThinsTail
<1>3. PICK e \in [1..Len(t) -> 1..Len(r)] : Thin(e, t, r)
  BY DEF Thins
<1>4. Len(q) \in Nat /\ 1 \in 1..Len(q) /\ Len(t) \in Nat /\ Len(r) \in Nat
  OBVIOUS
<1> HIDE DEF s, r
<1> DEFINE f == [i \in 1..Len(s) |-> IF i = 1 THEN 1 ELSE e[i - 1] + 1]
<1>5. \A i \in 1..Len(s) : i # 1 => e[i - 1] \in 1..Len(r) /\ e[i - 1] + 1 \in 1..Len(q)
  BY <1>1, <1>2, <1>3
<1>6. f \in [1..Len(s) -> 1..Len(q)]
  BY <1>4, <1>5
<1>7. Thin(f, s, q)
  <2>1. SUFFICES ASSUME NEW i \in 1..Len(s)
                 PROVE  /\ s[i].kind = q[f[i]].kind /\ s[i].a = q[f[i]].a
                        /\ s[i].live => q[f[i]].live
                        /\ \A j \in 1..Len(s) : i < j => f[i] < f[j]
    BY DEF Thin
  <2>2. s[i].kind = q[f[i]].kind /\ s[i].a = q[f[i]].a /\ (s[i].live => q[f[i]].live)
    <3>1. CASE i = 1 BY <1>1, <1>4, <3>1
    <3>2. CASE i # 1
      <4>1. i - 1 \in 1..Len(t) /\ s[i] = t[i - 1] /\ f[i] = e[i - 1] + 1
            /\ e[i - 1] \in 1..Len(r) /\ r[e[i - 1]] = q[e[i - 1] + 1]
        BY <1>1, <1>2, <1>5, <3>2
      <4> HIDE DEF f
      <4> QED BY <1>3, <4>1 DEF Thin
    <3> QED BY <3>1, <3>2
  <2>3. ASSUME NEW j \in 1..Len(s), i < j PROVE f[i] < f[j]
    <3>1. j # 1 /\ f[j] = e[j - 1] + 1 /\ e[j - 1] \in 1..Len(r)
      BY <1>1, <1>5, <2>3
    <3>2. CASE i = 1 BY <1>4, <3>1, <3>2
    <3>3. CASE i # 1
      <4>1. i - 1 \in 1..Len(t) /\ j - 1 \in 1..Len(t) /\ i - 1 < j - 1
        BY <1>1, <2>3, <3>1, <3>3
      <4>2. e[i - 1] < e[j - 1] BY <1>3, <4>1 DEF Thin
      <4>3. f[i] = e[i - 1] + 1 /\ e[i - 1] \in 1..Len(r) BY <1>5, <3>3
      <4> QED BY <3>1, <4>2, <4>3
    <3> QED BY <3>2, <3>3
  <2> QED BY <2>2, <2>3
<1> HIDE DEF f
<1>8. Thins(s, q)
  BY <1>6, <1>7 DEF Thins
<1> QED BY <1>1, <1>8 DEF s

(* What is not waited for any more is dropped if it is a read.              *)
LEMMA UnheardThins ==
    ASSUME NEW q \in Seq(Requests), NEW who
    PROVE  LET t == Unheard(q, who) IN
           /\ t \in Seq(Requests) /\ Thins(t, q)
           /\ \A i \in 1..Len(t) : /\ t[i].live => t[i].a \notin who
                                   /\ t[i].kind = "status" => t[i].live
           /\ q # <<>> /\ q[1].kind # "status" =>
                 t # <<>> /\ t[1].kind = q[1].kind /\ t[1].a = q[1].a
<1> DEFINE u == [i \in DOMAIN q |-> [q[i] EXCEPT !.live = @ /\ q[i].a \notin who]]
           these == {m \in Requests : m.live \/ m.kind # "status"}
           t == Remaining(u, these)
<1>1. Len(q) \in Nat /\ DOMAIN q = 1..Len(q) /\ \A i \in 1..Len(q) : q[i] \in Requests
  OBVIOUS
<1>2. \A i \in 1..Len(q) : /\ u[i] \in Requests /\ u[i].kind = q[i].kind /\ u[i].a = q[i].a
                           /\ u[i].live <=> q[i].live /\ u[i].a \notin who
  BY <1>1 DEF Requests
<1>3. u \in [1..Len(q) -> Requests]
  BY <1>1, <1>2
<1> HIDE DEF u
<1>10. u \in Seq(Requests) /\ Len(u) = Len(q)
  <2>1. \A n \in Nat : \A f \in [1..n -> Requests] : f \in Seq(Requests) /\ Len(f) = n
    OBVIOUS
  <2> QED BY <1>1, <1>3, <2>1
<1>4. Thins(u, q)
  <2> DEFINE e == [i \in 1..Len(u) |-> i]
  <2>1. e \in [1..Len(u) -> 1..Len(q)] /\ Thin(e, u, q)
    BY <1>2, <1>10 DEF Thin
  <2> HIDE DEF e
  <2> QED BY <2>1 DEF Thins
<1>5. /\ t \in Seq(Requests) /\ Thins(t, u)
      /\ \A i \in 1..Len(t) : t[i] \in these
      /\ u # <<>> /\ u[1] \in these => t # <<>> /\ t[1] = u[1]
  BY <1>10, RemainingThins
<1> HIDE DEF t
<1>6. Thins(t, q)
  BY <1>10, <1>4, <1>5, ThinsOn
<1>7. \A i \in 1..Len(t) : /\ t[i].live => t[i].a \notin who
                           /\ t[i].kind = "status" => t[i].live
  <2>1. PICK e \in [1..Len(t) -> 1..Len(u)] : Thin(e, t, u)
    BY <1>5 DEF Thins
  <2> QED BY <1>2, <1>10, <1>5, <2>1 DEF Thin
<1>8. q # <<>> /\ q[1].kind # "status" => t # <<>> /\ t[1].kind = q[1].kind /\ t[1].a = q[1].a
  <2>1. SUFFICES ASSUME q # <<>>, q[1].kind # "status"
                 PROVE  t # <<>> /\ t[1].kind = q[1].kind /\ t[1].a = q[1].a
    OBVIOUS
  <2>2. 1 \in 1..Len(q) /\ u # <<>> BY <1>1, <1>10, <2>1
  <2>3. u[1] \in these BY <1>2, <2>1, <2>2
  <2> QED BY <1>2, <1>5, <2>2, <2>3
<1>9. Unheard(q, who) = t
  BY DEF Unheard, t, u
<1> QED BY <1>5, <1>6, <1>7, <1>8, <1>9

(* A queue keeps its order when it thins.                                   *)
LEMMA ThinsOrderly ==
    ASSUME NEW t \in Seq(Requests), NEW q \in Seq(Requests), Thins(t, q), Orderly(q)
    PROVE  /\ Orderly(t)
           /\ \A i \in 1..Len(t) : \E j \in 1..Len(q) :
                 /\ t[i].kind = q[j].kind /\ t[i].a = q[j].a /\ (t[i].live => q[j].live)
                 /\ j = 1 => i = 1
<1>1. PICK e \in [1..Len(t) -> 1..Len(q)] : Thin(e, t, q)
  BY DEF Thins
<1>2. \A i \in 1..Len(t) : e[i] \in 1..Len(q) /\ e[i] \in Nat /\ i \in Nat
  BY <1>1
<1>3. \A i, j \in 1..Len(t) : i # j => e[i] # e[j]
  <2>1. \A i, j \in 1..Len(t) : i < j => e[i] < e[j]
    BY <1>1 DEF Thin
  <2>2. \A i, j \in 1..Len(t) : i # j => i < j \/ j < i
    OBVIOUS
  <2> QED BY <1>2, <2>1, <2>2
<1>4. \A i, j \in 1..Len(t) : t[i].live /\ t[j].live /\ t[i].a = t[j].a => i = j
  <2>1. SUFFICES ASSUME NEW i \in 1..Len(t), NEW j \in 1..Len(t),
                        t[i].live, t[j].live, t[i].a = t[j].a, i # j
                 PROVE  FALSE
    OBVIOUS
  <2>2. q[e[i]].live /\ q[e[j]].live /\ q[e[i]].a = q[e[j]].a
    BY <1>1, <2>1 DEF Thin
  <2> QED BY <1>2, <1>3, <2>1, <2>2 DEF Orderly
<1>5. \A i, j \in 1..Len(t) :
         j < i /\ t[i].kind = "start" /\ t[j].kind = "status" => t[j].a # t[i].a
  <2>1. SUFFICES ASSUME NEW i \in 1..Len(t), NEW j \in 1..Len(t),
                        j < i, t[i].kind = "start", t[j].kind = "status"
                 PROVE  t[j].a # t[i].a
    OBVIOUS
  <2>2. q[e[i]].kind = "start" /\ q[e[j]].kind = "status" /\ e[j] < e[i]
        /\ q[e[i]].a = t[i].a /\ q[e[j]].a = t[j].a
    BY <1>1, <2>1 DEF Thin
  <2> QED BY <1>2, <2>2 DEF Orderly
<1>6. ASSUME NEW i \in 1..Len(t)
      PROVE  \E j \in 1..Len(q) :
                /\ t[i].kind = q[j].kind /\ t[i].a = q[j].a /\ (t[i].live => q[j].live)
                /\ j = 1 => i = 1
  <2>1. t[i].kind = q[e[i]].kind /\ t[i].a = q[e[i]].a /\ (t[i].live => q[e[i]].live)
    BY <1>1 DEF Thin
  <2>2. e[i] = 1 => i = 1
    <3>1. SUFFICES ASSUME i # 1 PROVE e[i] # 1 OBVIOUS
    <3>2. 1 \in 1..Len(t) /\ 1 < i BY <3>1
    <3>3. e[1] < e[i] /\ e[1] \in 1..Len(q) BY <1>1, <3>2 DEF Thin
    <3> QED BY <1>2, <3>3
  <2> QED BY <1>2, <2>1, <2>2
<1> QED BY <1>4, <1>5, <1>6 DEF Orderly

(* A request for an attempt that no other waits for, and no read precedes,  *)
(* keeps the order.                                                         *)
LEMMA AppendOrderly ==
    ASSUME NEW q \in Seq(Requests), NEW m \in Requests, Orderly(q),
           \A i \in 1..Len(q) : q[i].a = m.a => ~q[i].live /\ q[i].kind # "status"
    PROVE  Orderly(Append(q, m))
<1> DEFINE s == Append(q, m)
<1>1. s \in Seq(Requests) /\ Len(s) = Len(q) + 1 /\ Len(q) \in Nat
      /\ \A i \in 1..Len(s) : (i \in 1..Len(q) /\ s[i] = q[i]) \/ (i = Len(s) /\ s[i] = m)
  OBVIOUS
<1> HIDE DEF s
<1>2. \A i, j \in 1..Len(s) : s[i].live /\ s[j].live /\ s[i].a = s[j].a => i = j
  BY <1>1 DEF Orderly
<1>3. \A i, j \in 1..Len(s) :
         j < i /\ s[i].kind = "start" /\ s[j].kind = "status" => s[j].a # s[i].a
  <2>1. SUFFICES ASSUME NEW i \in 1..Len(s), NEW j \in 1..Len(s),
                        j < i, s[i].kind = "start", s[j].kind = "status"
                 PROVE  s[j].a # s[i].a
    OBVIOUS
  <2>2. j \in 1..Len(q) /\ s[j] = q[j] BY <1>1, <2>1
  <2> QED BY <1>1, <2>1, <2>2 DEF Orderly
<1> QED BY <1>2, <1>3 DEF Orderly, s

-----------------------------------------------------------------------------
(* What a step keeps of the invariant where it does nothing new.            *)

(* The record stays as it is, or moves on.                                  *)
Grows(a) == rec'[a] = rec[a] \/ (rec[a] # NoRecord /\ Moved(rec[a], rec'[a]))

(* A record has become itself.                                              *)
LEMMA BecomesItself ==
    ASSUME NEW r, Sound(r)
    PROVE  Became(r, r)
<1>1. r \in RecordShape /\ r.phase \in Phases BY DEF Sound, RecordShape
<1>2. r # NoRecord => r.phase # "none" BY DEF Sound
<1>3. r.phase # "none" => Later(r.phase, r.phase) BY <1>1, PhaseFollows DEF Later
<1> QED BY <1>2, <1>3 DEF Became

(* What holds of a record that stays or moves on.                           *)
LEMMA GrowsOn ==
    ASSUME NEW a \in Attempts, HostShape, Grows(a)
    PROVE  /\ Sound(rec[a]) /\ rec[a] \in RecordShape
           /\ Sound(rec'[a]) /\ rec'[a] \in RecordShape /\ Became(rec[a], rec'[a])
           /\ rec'[a] = NoRecord <=> rec[a] = NoRecord
           /\ Barrier(rec'[a]) => Barrier(rec[a])
<1>1. Sound(rec[a]) BY DEF HostShape
<1>2. CASE rec'[a] = rec[a] BY <1>1, <1>2, BecomesItself DEF Sound
<1>3. CASE rec[a] # NoRecord /\ Moved(rec[a], rec'[a])
  <2>1. Sound(rec'[a]) BY <1>3 DEF Moved
  <2> QED BY <1>1, <1>3, <2>1, MovedBecame DEF Sound
<1> QED BY <1>2, <1>3 DEF Grows

(* A write of the journal it is ready for, confirmed or not.                *)
LEMMA JournalWrite ==
    ASSUME HostShape, NeverRefused, NEW a \in Attempts, NEW r, rec[a] # NoRecord, Moved(rec[a], r),
           Write(a, r) \/ WriteFails(a, r)
    PROVE  /\ rec' \in [Attempts -> RecordShape] /\ \A b \in Attempts : Sound(rec'[b])
           /\ \A b \in Attempts : b # a => rec'[b] = rec[b]
           /\ rec'[a] = r \/ rec'[a] = rec[a]
           /\ Write(a, r) => rec'[a] = r
           /\ sick' \in BOOLEAN /\ refused' = refused
           /\ \A b \in Attempts : Grows(b)
<1>1. r \in RecordShape /\ Sound(r) /\ Accepts(rec[a], r)
  BY DEF Moved, Sound
<1>2. rec' = rec \/ rec' = [rec EXCEPT ![a] = r]
  BY <1>1 DEF Write, WriteFails
<1>3. Write(a, r) => rec' = [rec EXCEPT ![a] = r]
  BY DEF Write
<1>4. sick' \in BOOLEAN /\ refused' = refused
  BY <1>1 DEF Write, WriteFails, HostShape
<1>5. rec \in [Attempts -> RecordShape] /\ \A b \in Attempts : Sound(rec[b])
  BY DEF HostShape
<1>6. rec' \in [Attempts -> RecordShape]
  BY <1>1, <1>2, <1>5
<1>7. /\ \A b \in Attempts : b # a => rec'[b] = rec[b]
      /\ rec'[a] = r \/ rec'[a] = rec[a]
      /\ Write(a, r) => rec'[a] = r
  BY <1>2, <1>3, <1>5
<1>8. \A b \in Attempts : Sound(rec'[b])
  BY <1>1, <1>5, <1>7
<1>9. \A b \in Attempts : Grows(b)
  BY <1>7 DEF Grows
<1> QED BY <1>4, <1>6, <1>7, <1>8, <1>9

(* Facts of a session that nothing of its own has changed.                  *)
LEMMA SessionFrame ==
    ASSUME NEW a \in Attempts, SessionFacts(a), rec'[a] = rec[a], run'[a] = run[a],
           helper'[a] = helper[a], logins'[a] = logins[a], a \in kept' <=> a \in kept,
           pages'[a] = pages[a] \/ pages'[a] # <<>>
    PROVE  SessionFacts(a)'
  BY DEF SessionFacts, SignedIn

(* Facts of a start in the lane whose own record and request stand.         *)
LEMMA LaneFrame ==
    ASSUME NEW c \in Connections, LaneFacts(c), at'[c] = at[c], Of(c) \in Attempts,
           at[c] # "idle" => /\ inbox'[c] # <<>>
                             /\ inbox'[c][1].kind = inbox[c][1].kind
                             /\ inbox'[c][1].a = inbox[c][1].a,
           at[c] = "prepared" => rec'[Of(c)] # NoRecord,
           at[c] = "marked" => /\ rec'[Of(c)] = rec[Of(c)] /\ run'[Of(c)] = run[Of(c)]
                               /\ logins'[Of(c)] = logins[Of(c)]
    PROVE  LaneFacts(c)'
<1>1. at[c] # "idle" => Of(c)' = Of(c)
  BY DEF Of
<1> QED BY <1>1 DEF LaneFacts

(* No step but the preparation adds an attempt under way.                   *)
LEMMA BarrierFrame ==
    ASSUME HostShape, OneBarrier, \A a \in Attempts : Grows(a)
    PROVE  OneBarrier'
<1>1. \A a \in Attempts : Barrier(rec'[a]) => Barrier(rec[a])
  BY GrowsOn
<1> QED BY <1>1 DEF OneBarrier

(* An answer that was lost, is still there, or is a record as it stands.    *)
Fresh(a) ==
    /\ answer'[a].rec = rec'[a] /\ op'[a].pc \in Awaits
    /\ answer'[a].page => rec'[a].phase \in
                             {"login_dispatching", "credentials_ready", "persistence_dispatching"}
    /\ rec'[a] = NoRecord => NeverBegins(a)'
Heard(a) ==
    \/ answer'[a] = NoAnswer
    \/ answer'[a] = answer[a] /\ op'[a].pc = op[a].pc
    \/ Fresh(a)

(* An attempt that never begins goes on not beginning: only a start that a  *)
(* connection newer than the last absence told carries could.               *)
LEMMA NeverBeginsFrame ==
    ASSUME NEW a \in Attempts, HostShape, NeverBegins(a), Grows(a), led'[a] = led[a],
           op'[a].pc = "idle" \/ op'[a].pc = op[a].pc, WireShape, absentSeen' \in Nat,
           \A c \in Connections : StartOn(c, a)' => StartOn(c, a) /\ absentSeen <= absentSeen'
    PROVE  NeverBegins(a)'
<1>1. rec'[a] = NoRecord BY GrowsOn DEF NeverBegins
<1>2. \A c \in Connections : StartOn(c, a)' => c < absentSeen'
  <2>1. absentSeen \in Nat /\ \A c \in Connections : c \in Nat
    BY OAuthAssumption DEF WireShape, Connections
  <2> QED BY <2>1 DEF NeverBegins
<1> QED BY <1>1, <1>2 DEF NeverBegins

(* Facts of an attempt of the desktop that lets go of no more than a        *)
(* request, an answer or an operation, while its record moves on.           *)
LEMMA DesktopFrame ==
    ASSUME NEW a \in Attempts, HostShape, WireShape, DesktopShape, WireShape', DesktopShape',
           SessionFacts(a)', DesktopFacts(a), Grows(a), Heard(a), led'[a] = led[a],
           \/ op'[a].pc = "idle"
           \/ op'[a].pc = op[a].pc /\ op'[a].conn = op[a].conn,
           pages'[a] = pages[a], a \in told' => a \in told, a \in eligible' => a \in eligible,
           next <= next',
           \/ link' = link /\ (a \in born => a \in born')
           \/ /\ op'[a].pc \notin Awaits /\ (op'[a].pc = "idle" \/ op[a].conn # link')
              /\ a \in eligible' => a \in born',
           \A c \in Connections : StartOn(c, a)' => StartOn(c, a) /\ absentSeen <= absentSeen'
    PROVE  DesktopFacts(a)'
<1>1. /\ Sound(rec[a]) /\ rec[a] \in RecordShape /\ Sound(rec'[a]) /\ rec'[a] \in RecordShape
      /\ Became(rec[a], rec'[a]) /\ (rec'[a] = NoRecord <=> rec[a] = NoRecord)
  BY GrowsOn
<1>2. op'[a].pc \in {"prepared", "marked"} => op[a].pc \in {"prepared", "marked"}
  OBVIOUS
<1>3. led'[a].phase \in {"none", "prepared"} \/ op'[a].pc \in {"prepared", "marked"} =>
          rec'[a] = NoRecord
  BY <1>1, <1>2 DEF DesktopFacts
<1>4. Follows(led'[a], rec'[a])
  BY <1>1, FollowsBecame DEF DesktopFacts, DesktopShape
<1>5. OperationFacts(a)'
  <2>1. OperationFacts(a) BY DEF DesktopFacts
  <2>2. op'[a].pc # "idle" => led'[a] # NoEntry /\ op'[a].conn \in 1..next' - 1
    <3>1. next \in Nat /\ next' \in Nat BY DEF DesktopShape
    <3> QED BY <2>1, <3>1 DEF OperationFacts
  <2>3. op'[a].pc \in Awaits => link' # 0 /\ op'[a].conn = link'
    BY <2>1 DEF OperationFacts, Awaits
  <2> QED BY <2>1, <2>2, <2>3 DEF OperationFacts
<1>6. NeverBegins(a) => NeverBegins(a)'
  BY NeverBeginsFrame DEF WireShape
<1>7. AbsenceFacts(a)'
  <2>1. CASE answer'[a].ok /\ answer'[a].rec = NoRecord
    <3>1. CASE answer'[a] = NoAnswer BY <2>1, <3>1 DEF NoAnswer
    <3>2. CASE answer'[a] = answer[a] BY <1>6, <2>1, <3>2 DEF DesktopFacts, AbsenceFacts
    <3>3. CASE Fresh(a) BY <2>1, <3>3 DEF Fresh, AbsenceFacts
    <3> QED BY <3>1, <3>2, <3>3 DEF Heard
  <2>2. CASE ~(answer'[a].ok /\ answer'[a].rec = NoRecord)
    BY <1>6, <2>2 DEF DesktopFacts, AbsenceFacts
  <2> QED BY <2>1, <2>2
<1>8. AnswerFacts(a)'
  <2>1. CASE answer'[a] = NoAnswer BY <2>1 DEF NoAnswer, AnswerFacts
  <2>2. CASE answer'[a] = answer[a] /\ op'[a].pc = op[a].pc
    <3>1. SUFFICES ASSUME answer[a].ok PROVE AnswerFacts(a)'
      BY <2>2 DEF AnswerFacts
    <3>2. AnswerFacts(a) BY DEF DesktopFacts
    <3>3. Sound(answer[a].rec) /\ answer[a].rec \in RecordShape
      BY <3>1, <3>2 DEF AnswerFacts, Sound
    <3>4. Became(answer[a].rec, rec'[a])
      BY <1>1, <3>1, <3>2, <3>3, BecameOn DEF AnswerFacts
    <3> QED BY <2>2, <3>1, <3>2, <3>4 DEF AnswerFacts
  <2>3. CASE Fresh(a)
    <3>1. SignedIn(rec'[a]) => pages'[a] # <<>> BY DEF SessionFacts
    <3>2. Became(rec'[a], rec'[a]) BY <1>1, BecomesItself
    <3> QED BY <1>1, <1>4, <2>3, <3>1, <3>2 DEF Fresh, AnswerFacts
  <2> QED BY <2>1, <2>2, <2>3 DEF Heard
<1>9. PageFacts(a)'
  <2>1. PageFacts(a) BY DEF DesktopFacts
  <2>2. led'[a].phase \in {"none", "prepared", "start_dispatching", "host_admitted"}
          \/ op'[a].pc = "browser" => pages'[a] = <<>>
    BY <2>1 DEF PageFacts
  <2>3. a \in eligible' \/ op'[a].pc \in {"start", "startStatus"}
          \/ (op'[a].pc = "browser" /\ op'[a].conn = link') => a \in born'
    BY <2>1 DEF PageFacts, Awaits
  <2> QED BY <2>2, <2>3 DEF PageFacts
<1> QED BY <1>3, <1>4, <1>5, <1>7, <1>8, <1>9 DEF DesktopFacts

(* The host leaves the desktop alone, and what reaches the host through it. *)
DesktopRests == UNCHANGED <<led, op, eligible, desktop, seen>>

(* The attempt a connection serves.                                         *)
LEMMA OfAttempt ==
    ASSUME WireShape, NEW c \in Connections, inbox[c] # <<>>
    PROVE  /\ Of(c) \in Attempts /\ inbox[c][1] \in Requests /\ 1 \in 1..Len(inbox[c])
           /\ inbox[c] \in Seq(Requests)
<1>1. inbox[c] \in Seq(Requests) BY DEF WireShape
<1>2. 1 \in 1..Len(inbox[c]) /\ inbox[c][1] \in Requests BY <1>1
<1>3. \A q \in Requests : q.a \in Attempts BY DEF Requests
<1> QED BY <1>1, <1>2, <1>3 DEF Of

(* A step of a session touches nothing but its own attempt.                 *)
LEMMA SessionStepKeeps ==
    ASSUME OAuthInvariant, NEW a \in Attempts, DesktopRests, UNCHANGED <<logins, wire>>,
           process' = "down" => process = "down",
           \A b \in Attempts : b # a => /\ rec'[b] = rec[b] /\ run'[b] = run[b]
                                        /\ helper'[b] = helper[b] /\ (b \in kept' <=> b \in kept),
           Grows(a), HostShape', SessionFacts(a)', refused' = refused,
           run[a] # "idle" \/ (rec'[a] = rec[a] /\ run'[a] = run[a])
    PROVE  OAuthInvariant'
<1> USE DEF DesktopRests, wire, desktop, seen, past
<1>1. HostShape /\ WireShape /\ DesktopShape /\ HostInvariant /\ RequestInvariant /\ DesktopInvariant
      /\ NeverRefused
  BY DEF OAuthInvariant, OAuthShape
<1>2. WireShape' /\ DesktopShape' /\ NeverRefused'
  BY <1>1 DEF WireShape, DesktopShape, NeverRefused
<1>3. \A b \in Attempts : Grows(b)
  BY DEF Grows
<1>4. \A b \in Attempts : SessionFacts(b)'
  <2> TAKE b \in Attempts
  <2>1. CASE b = a BY <2>1
  <2>2. CASE b # a BY <1>1, <2>2, SessionFrame DEF HostInvariant
  <2> QED BY <2>1, <2>2
<1>5. OneBarrier'
  BY <1>1, <1>3, BarrierFrame DEF HostInvariant
<1>6. \A c \in Connections : LaneFacts(c)'
  <2> TAKE c \in Connections
  <2>1. LaneFacts(c) BY <1>1 DEF HostInvariant
  <2>2. CASE at[c] = "idle" BY <2>2 DEF LaneFacts
  <2>3. CASE at[c] # "idle"
    <3>1. Of(c) \in Attempts BY <1>1, <2>1, <2>3, OfAttempt DEF LaneFacts
    <3>2. at[c] = "marked" => run[Of(c)] = "idle" BY <2>1 DEF LaneFacts
    <3>3. at[c] = "marked" => rec'[Of(c)] = rec[Of(c)] /\ run'[Of(c)] = run[Of(c)]
      BY <3>1, <3>2
    <3>5. rec[Of(c)] # NoRecord => rec'[Of(c)] # NoRecord
      BY <1>1, <1>3, <3>1, GrowsOn
    <3>4. /\ at'[c] = at[c]
          /\ at[c] # "idle" => /\ inbox'[c] # <<>>
                               /\ inbox'[c][1].kind = inbox[c][1].kind
                               /\ inbox'[c][1].a = inbox[c][1].a
          /\ at[c] = "marked" => /\ rec'[Of(c)] = rec[Of(c)] /\ run'[Of(c)] = run[Of(c)]
                                 /\ logins'[Of(c)] = logins[Of(c)]
          /\ at[c] = "prepared" => rec'[Of(c)] # NoRecord
      BY <1>1, <2>1, <3>3, <3>5 DEF LaneFacts
    <3> QED BY <2>1, <3>1, <3>4, LaneFrame
  <2> QED BY <2>2, <2>3
<1>7. OneLane'
  BY <1>1 DEF HostInvariant, OneLane
<1>8. StoppedFacts'
  <2>1. StoppedFacts BY <1>1 DEF HostInvariant
  <2>2. process = "down" => run[a] = "idle" BY <2>1 DEF StoppedFacts
  <2> QED BY <2>1, <2>2 DEF StoppedFacts
<1>9. RequestInvariant'
  BY <1>1 DEF RequestInvariant, RequestFacts, Waited, Dispatched
<1>10. DesktopInvariant'
  <2>1. SUFFICES ASSUME NEW b \in Attempts PROVE DesktopFacts(b)'
    BY DEF DesktopInvariant
  <2>2. DesktopFacts(b) BY <1>1 DEF DesktopInvariant
  <2>3. Heard(b) /\ (\A c \in Connections : StartOn(c, b)' => StartOn(c, b))
    BY DEF Heard, StartOn
  <2>4. next <= next' /\ absentSeen <= absentSeen' BY <1>1 DEF DesktopShape, WireShape
  <2> QED BY <1>1, <1>2, <1>3, <1>4, <2>2, <2>3, <2>4, DesktopFrame
<1>11. HostInvariant'
  BY <1>4, <1>5, <1>6, <1>7, <1>8 DEF HostInvariant
<1> QED BY <1>2, <1>9, <1>10, <1>11 DEF OAuthInvariant, OAuthShape

-----------------------------------------------------------------------------
(* The steps of a session and of its helper.                                *)

(* A record, and what its session may do with it.                           *)
LEMMA RecordOf ==
    ASSUME OAuthInvariant, NEW a \in Attempts
    PROVE  /\ Sound(rec[a]) /\ rec[a] \in RecordShape /\ SessionFacts(a)
           /\ rec[a].phase \in Phases /\ rec[a].why \in WhyOf(rec[a].phase)
           /\ rec[a].phase # "none" => rec[a] # NoRecord
           /\ HostShape /\ NeverRefused
<1>1. Sound(rec[a]) /\ SessionFacts(a) /\ HostShape /\ NeverRefused
  BY DEF OAuthInvariant, OAuthShape, HostShape, HostInvariant
<1> QED BY <1>1, NoRecordFields DEF Sound, RecordShape

(* A step of an attempt's session, as far as record and run go.             *)
Touches(a) ==
    /\ rec' \in [Attempts -> RecordShape] /\ \A b \in Attempts : Sound(rec'[b])
    /\ sick' \in BOOLEAN /\ refused' = refused
    /\ run' \in [Attempts -> {"idle", "held", "login", "committing", "storing"}]
    /\ \A b \in Attempts : b # a => rec'[b] = rec[b] /\ run'[b] = run[b]
    /\ Grows(a)

(* A write that takes its run along.                                        *)
LEMMA SessionWrites ==
    ASSUME OAuthInvariant, NEW a \in Attempts, NEW r, rec[a] # NoRecord, Moved(rec[a], r),
           NEW to \in {"idle", "committing", "held"},
           Step(a, r, to)
    PROVE  /\ Touches(a)
           /\ \/ rec'[a] = r /\ run'[a] \in {to, "held"}
              \/ rec'[a] = rec[a] /\ run'[a] = "held"
<1>1. HostShape /\ NeverRefused BY RecordOf
<1>2. (Write(a, r) \/ WriteFails(a, r)) /\ (run' = [run EXCEPT ![a] = to] \/ run' = [run EXCEPT ![a] = "held"])
      /\ (WriteFails(a, r) \/ (Write(a, r) /\ run' = [run EXCEPT ![a] = to]))
      /\ (Write(a, r) \/ run' = [run EXCEPT ![a] = "held"])
  BY DEF Step, Moves
<1>3. /\ rec' \in [Attempts -> RecordShape] /\ \A b \in Attempts : Sound(rec'[b])
      /\ \A b \in Attempts : b # a => rec'[b] = rec[b]
      /\ rec'[a] = r \/ rec'[a] = rec[a]
      /\ Write(a, r) => rec'[a] = r
      /\ sick' \in BOOLEAN /\ refused' = refused
      /\ \A b \in Attempts : Grows(b)
  BY <1>1, <1>2, JournalWrite
<1>4. run' \in [Attempts -> {"idle", "held", "login", "committing", "storing"}]
      /\ \A b \in Attempts : b # a => run'[b] = run[b]
  BY <1>1, <1>2 DEF HostShape
<1>5. run'[a] \in {to, "held"} /\ (~Write(a, r) => run'[a] = "held")
  BY <1>1, <1>2 DEF HostShape
<1> QED BY <1>3, <1>4, <1>5 DEF Touches

(* A run that ends or keeps its provider without a write.                   *)
LEMMA SessionEnds ==
    ASSUME OAuthInvariant, NEW a \in Attempts, NEW to \in {"idle", "held"},
           Moves(a, to), UNCHANGED journal
    PROVE  Touches(a) /\ rec'[a] = rec[a] /\ run'[a] = to
  BY DEF Moves, journal, Grows, OAuthInvariant, OAuthShape, HostShape, Touches

(* The end of a helper.                                                     *)
LEMMA HelperEndsWell ==
    ASSUME HostShape, NEW a \in Attempts, HelperGone(a)
    PROVE  /\ helper' \in [Attempts -> {"none", "login", "storage"}] /\ helper'[a] = "none"
           /\ \A b \in Attempts : b # a => helper'[b] = helper[b]
  BY DEF HelperGone, HostShape

(* What a settled record says.                                              *)
LEMMA SettledSays ==
    ASSUME NEW r, Sound(r), NEW w \in Whys
    PROVE  Settled(r, w).phase = PhaseOf(w) /\ Settled(r, w).why = w
  BY SettledFields DEF Sound

(* What a step of a session has to show.                                    *)
LEMMA TouchesKeeps ==
    ASSUME OAuthInvariant, NEW a \in Attempts, DesktopRests, UNCHANGED <<process, logins, wire>>,
           Touches(a), secure' \in BOOLEAN, kept' = kept,
           helper' \in [Attempts -> {"none", "login", "storage"}],
           \A b \in Attempts : b # a => helper'[b] = helper[b],
           run[a] # "idle" \/ (rec'[a] = rec[a] /\ run'[a] = run[a]), SessionFacts(a)'
    PROVE  OAuthInvariant'
<1>1. HostShape BY RecordOf
<1>2. HostShape' BY <1>1 DEF HostShape, Touches
<1> QED BY <1>2, SessionStepKeeps DEF Touches

(* A login that returns: its page was opened, so the record may be past it. *)
LEMMA LoginReturnsKeeps ==
    ASSUME OAuthInvariant, NEW a \in Attempts, pages[a] # <<>>, LoginReturns(a), DesktopRests
    PROVE  OAuthInvariant'
<1>1. /\ Sound(rec[a]) /\ rec[a] \in RecordShape /\ SessionFacts(a)
      /\ rec[a].phase \in Phases /\ rec[a].why \in WhyOf(rec[a].phase)
      /\ rec[a].phase # "none" => rec[a] # NoRecord
      /\ HostShape /\ NeverRefused
  BY RecordOf
<1>2. run[a] = "login" /\ HelperGone(a) /\ UNCHANGED <<host, logins, kept, wire>>
  BY DEF LoginReturns
<1>3. rec[a].phase \in {"login_dispatching", "cancelling"} /\ rec[a].why = "none" /\ a \notin kept
  BY <1>1, <1>2 DEF SessionFacts, WhyOf, Stored, Terminal
<1>4. /\ helper' \in [Attempts -> {"none", "login", "storage"}] /\ helper'[a] = "none"
      /\ \A b \in Attempts : b # a => helper'[b] = helper[b]
  BY <1>1, <1>2, HelperEndsWell
<1>5. Touches(a) /\ SessionFacts(a)'
  <2>1. CASE Keeps(a)
    <3>1. Touches(a) /\ rec'[a] = rec[a] /\ run'[a] = "held"
      BY <2>1, SessionEnds DEF Keeps
    <3>2. SessionFacts(a)'
      BY <1>1, <1>2, <1>3, <1>4, <3>1 DEF SessionFacts, Stored, SignedIn, DesktopRests, seen, past
    <3> QED BY <3>1, <3>2
  <2>2. CASE rec[a].phase = "cancelling" /\ SettleCancellation(a)
    <3> DEFINE w == CancelResolution[rec[a].intent]
    <3>1. w \in {"user_cancelled", "expired", "host_shutdown"} /\ Moved(rec[a], Settled(rec[a], w))
      BY <1>1, <2>2, CancellingMoves
    <3>2. w \in Whys /\ PhaseOf(w) \in {"cancelled", "failed"}
      BY <3>1 DEF Whys, FailedWhy, PhaseOf
    <3>3. Step(a, Settled(rec[a], w), "idle")
      BY <2>2 DEF SettleCancellation
    <3> HIDE DEF w
    <3>4. /\ Touches(a)
          /\ \/ rec'[a] = Settled(rec[a], w) /\ run'[a] \in {"idle", "held"}
             \/ rec'[a] = rec[a] /\ run'[a] = "held"
      BY <1>1, <1>3, <3>1, <3>3, SessionWrites
    <3>5. Settled(rec[a], w).phase = PhaseOf(w) /\ Settled(rec[a], w).why = w
      BY <1>1, <3>2, SettledSays
    <3>6. SessionFacts(a)'
      BY <1>1, <1>2, <1>3, <1>4, <3>1, <3>2, <3>4, <3>5
      DEF SessionFacts, Stored, SignedIn, DesktopRests, seen, past
    <3> QED BY <3>4, <3>6
  <2>3. CASE rec[a].phase = "login_dispatching"
             /\ Step(a, Advanced(rec[a], "credentials_ready"), "committing")
    <3> DEFINE r == Advanced(rec[a], "credentials_ready")
    <3>1. Moved(rec[a], r) BY <1>1, <2>3, LoginMoves
    <3>2. r.phase = "credentials_ready" /\ r.why = "none"
      BY <1>1, <1>3, AdvancedFields DEF Phases
    <3> HIDE DEF r
    <3>4. /\ Touches(a)
          /\ \/ rec'[a] = r /\ run'[a] \in {"committing", "held"}
             \/ rec'[a] = rec[a] /\ run'[a] = "held"
      BY <1>1, <1>3, <2>3, <3>1, SessionWrites DEF r
    <3>6. SessionFacts(a)'
      BY <1>1, <1>2, <1>3, <1>4, <3>2, <3>4
      DEF SessionFacts, Stored, SignedIn, DesktopRests, seen, past
    <3> QED BY <3>4, <3>6
  <2> QED BY <1>3, <2>1, <2>2, <2>3 DEF LoginReturns, Terminal
<1> QED BY <1>1, <1>2, <1>4, <1>5, TouchesKeeps DEF host, HostShape

(* The failure of a run, its helper seen to end or not.                     *)
LEMMA RunErrorTouches ==
    ASSUME OAuthInvariant, NEW a \in Attempts, run[a] \in {"login", "storing"},
           NEW observed \in BOOLEAN, RunError(a, observed)
    PROVE  /\ Touches(a)
           /\ \/ rec'[a] = rec[a] /\ run'[a] = "held"
              \/ /\ observed /\ run'[a] \in {"idle", "held"} /\ run[a] = "login"
                 /\ rec'[a].phase \in {"cancelled", "failed"}
                 /\ rec'[a].why \in {"user_cancelled", "expired", "host_shutdown", "provider_login_failed"}
              \/ /\ observed /\ run'[a] \in {"idle", "held"} /\ run[a] = "storing"
                 /\ rec'[a].phase = "failed" /\ rec'[a].why = "persistence_failed"
              \/ /\ ~observed /\ run'[a] = "held" /\ rec'[a].phase = "recovery_required"
                 /\ run[a] = "login" => rec'[a].why \in {"login_helper", "cancelling_helper"}
                 /\ run[a] = "storing" => rec'[a].why = "storage_helper"
<1>1. /\ Sound(rec[a]) /\ rec[a] \in RecordShape /\ SessionFacts(a)
      /\ rec[a].phase \in Phases /\ rec[a].why \in WhyOf(rec[a].phase)
      /\ rec[a].phase # "none" => rec[a] # NoRecord
      /\ HostShape /\ NeverRefused
  BY RecordOf
<1>2. /\ run[a] = "login" => rec[a].phase \in {"login_dispatching", "cancelling"}
      /\ run[a] = "storing" => rec[a].phase = "persistence_dispatching"
  BY <1>1 DEF SessionFacts
<1>3. CASE Keeps(a) BY <1>3, SessionEnds DEF Keeps
<1>4. CASE rec[a].phase \in {"login_dispatching", "cancelling", "persistence_dispatching"}
           /\ ~observed /\ Step(a, Unconfirmed(rec[a]), "held")
  <2>1. Moved(rec[a], Unconfirmed(rec[a]))
    BY <1>1, <1>4, LoginMoves, CancellingMoves, StoringMoves
  <2>2. Unconfirmed(rec[a]).phase = "recovery_required"
        /\ Unconfirmed(rec[a]).why = RecoveryReason[rec[a].phase]
    BY <1>1, <1>4, UnconfirmedFields DEF RecoveryReason
  <2>3. /\ Touches(a)
        /\ rec'[a] = Unconfirmed(rec[a]) \/ rec'[a] = rec[a]
        /\ run'[a] = "held"
    <3> DEFINE r == Unconfirmed(rec[a])
    <3>1. Moved(rec[a], r) /\ Step(a, r, "held") /\ rec[a] # NoRecord
      BY <1>1, <1>4, <2>1
    <3> HIDE DEF r
    <3>2. /\ Touches(a)
          /\ \/ rec'[a] = r /\ run'[a] \in {"held", "held"}
             \/ rec'[a] = rec[a] /\ run'[a] = "held"
      BY <3>1, SessionWrites
    <3> QED BY <3>2 DEF r
  <2> QED BY <1>2, <1>4, <2>2, <2>3 DEF RecoveryReason
<1>5. CASE rec[a].phase = "cancelling" /\ observed /\ SettleCancellation(a)
  <2> DEFINE w == CancelResolution[rec[a].intent]
  <2>1. w \in {"user_cancelled", "expired", "host_shutdown"} /\ Moved(rec[a], Settled(rec[a], w))
    BY <1>1, <1>5, CancellingMoves
  <2>2. w \in Whys /\ PhaseOf(w) \in {"cancelled", "failed"}
    BY <2>1 DEF Whys, FailedWhy, PhaseOf
  <2>3. Step(a, Settled(rec[a], w), "idle")
    BY <1>5 DEF SettleCancellation
  <2> HIDE DEF w
  <2>4. /\ Touches(a)
        /\ \/ rec'[a] = Settled(rec[a], w) /\ run'[a] \in {"idle", "held"}
           \/ rec'[a] = rec[a] /\ run'[a] = "held"
    BY <1>1, <1>5, <2>1, <2>3, SessionWrites
  <2>5. Settled(rec[a], w).phase = PhaseOf(w) /\ Settled(rec[a], w).why = w
    BY <1>1, <2>2, SettledSays
  <2> QED BY <1>2, <1>5, <2>1, <2>2, <2>4, <2>5
<1>6. CASE /\ rec[a].phase \in {"login_dispatching", "persistence_dispatching"} /\ observed
           /\ Step(a, Settled(rec[a], FailureResolution[rec[a].phase]), "idle")
  <2> DEFINE w == FailureResolution[rec[a].phase]
  <2>1. /\ rec[a].phase = "login_dispatching" => w = "provider_login_failed"
        /\ rec[a].phase = "persistence_dispatching" => w = "persistence_failed"
    BY DEF FailureResolution
  <2>2. w \in Whys /\ PhaseOf(w) = "failed"
    BY <1>6, <2>1 DEF Whys, FailedWhy, PhaseOf
  <2>3. Step(a, Settled(rec[a], w), "idle")
    BY <1>6
  <2> HIDE DEF w
  <2>4. Moved(rec[a], Settled(rec[a], w))
    BY <1>1, <1>6, <2>1, LoginMoves, StoringMoves
  <2>5. /\ Touches(a)
        /\ \/ rec'[a] = Settled(rec[a], w) /\ run'[a] \in {"idle", "held"}
           \/ rec'[a] = rec[a] /\ run'[a] = "held"
    BY <1>1, <1>6, <2>3, <2>4, SessionWrites
  <2>6. Settled(rec[a], w).phase = PhaseOf(w) /\ Settled(rec[a], w).why = w
    BY <1>1, <2>2, SettledSays
  <2> QED BY <1>2, <1>6, <2>1, <2>2, <2>5, <2>6
<1> QED BY <1>2, <1>3, <1>4, <1>5, <1>6 DEF RunError, Terminal, RecoveryReason, FailureResolution, Barrier

(* A helper that fails.                                                     *)
LEMMA HelperFailsKeeps ==
    ASSUME OAuthInvariant, NEW a \in Attempts, HelperFails(a), DesktopRests
    PROVE  OAuthInvariant'
<1>1. SessionFacts(a) /\ HostShape /\ rec[a].why \in WhyOf(rec[a].phase) BY RecordOf
<1>2. run[a] \in {"login", "storing"} /\ UNCHANGED <<host, logins, kept, wire>>
  BY DEF HelperFails
<1>3. PICK observed \in BOOLEAN :
         RunError(a, observed) /\ (IF observed THEN HelperGone(a) ELSE UNCHANGED helper)
  BY DEF HelperFails
<1>4. /\ helper' \in [Attempts -> {"none", "login", "storage"}]
      /\ \A b \in Attempts : b # a => helper'[b] = helper[b]
      /\ IF observed THEN helper'[a] = "none" ELSE helper'[a] = helper[a]
  <2>1. CASE observed BY <1>1, <1>3, <2>1, HelperEndsWell
  <2>2. CASE ~observed BY <1>1, <1>3, <2>2 DEF HostShape
  <2> QED BY <2>1, <2>2
<1>5. /\ Touches(a)
      /\ \/ rec'[a] = rec[a] /\ run'[a] = "held"
         \/ /\ observed /\ run'[a] \in {"idle", "held"} /\ run[a] = "login"
            /\ rec'[a].phase \in {"cancelled", "failed"}
            /\ rec'[a].why \in {"user_cancelled", "expired", "host_shutdown", "provider_login_failed"}
         \/ /\ observed /\ run'[a] \in {"idle", "held"} /\ run[a] = "storing"
            /\ rec'[a].phase = "failed" /\ rec'[a].why = "persistence_failed"
         \/ /\ ~observed /\ run'[a] = "held" /\ rec'[a].phase = "recovery_required"
            /\ run[a] = "login" => rec'[a].why \in {"login_helper", "cancelling_helper"}
            /\ run[a] = "storing" => rec'[a].why = "storage_helper"
  BY <1>2, <1>3, RunErrorTouches
<1>6. logins' = logins /\ kept' = kept /\ pages' = pages
  BY <1>2 DEF DesktopRests, seen, past
<1>7. SessionFacts(a)'
  <2>1. CASE run[a] = "login"
    <3>1. rec[a].phase \in {"login_dispatching", "cancelling"} /\ helper[a] = "login" /\ a \notin kept
          /\ rec[a].why = "none"
      BY <1>1, <2>1 DEF SessionFacts, WhyOf, Stored, Terminal
    <3> QED BY <1>1, <1>4, <1>5, <1>6, <2>1, <3>1 DEF SessionFacts, SignedIn, Stored
  <2>2. CASE run[a] = "storing"
    <3>1. rec[a].phase = "persistence_dispatching" /\ helper[a] = "storage" /\ pages[a] # <<>>
      BY <1>1, <2>2 DEF SessionFacts, SignedIn
    <3> QED BY <1>1, <1>4, <1>5, <1>6, <2>2, <3>1 DEF SessionFacts, SignedIn, Stored
  <2> QED BY <1>2, <2>1, <2>2
<1> QED BY <1>1, <1>2, <1>4, <1>5, <1>7, TouchesKeeps DEF host, HostShape

(* A drift of the credential directory, with the storage helper left alive: *)
(* the record it leaves is the one EffectsOnce makes its exception for.     *)
LEMMA CustodyDriftsKeeps ==
    ASSUME OAuthInvariant, NEW a \in Attempts, CustodyDrifts(a), DesktopRests
    PROVE  OAuthInvariant'
<1>1. SessionFacts(a) /\ HostShape BY RecordOf
<1>2. /\ run[a] = "storing" /\ secure' = FALSE /\ RunError(a, TRUE)
      /\ UNCHANGED <<process, helper, logins, kept, wire>>
  BY DEF CustodyDrifts
<1>5. /\ Touches(a)
      /\ \/ rec'[a] = rec[a] /\ run'[a] = "held"
         \/ /\ run'[a] \in {"idle", "held"} /\ rec'[a].phase = "failed"
            /\ rec'[a].why = "persistence_failed"
  BY <1>2, RunErrorTouches
<1>6. rec[a].phase = "persistence_dispatching" /\ helper[a] = "storage" /\ pages[a] # <<>>
  BY <1>1, <1>2 DEF SessionFacts, SignedIn
<1>7. SessionFacts(a)'
  BY <1>1, <1>2, <1>5, <1>6 DEF SessionFacts, SignedIn, Stored, DesktopRests, seen, past
<1> QED BY <1>1, <1>2, <1>5, <1>7, TouchesKeeps DEF HostShape

(* The dispatch of the credentials, behind its mark.                        *)
LEMMA CredentialsDispatchedKeeps ==
    ASSUME OAuthInvariant, NEW a \in Attempts, CredentialsDispatched(a), DesktopRests
    PROVE  OAuthInvariant'
<1>1. /\ Sound(rec[a]) /\ rec[a] \in RecordShape /\ SessionFacts(a)
      /\ rec[a].phase \in Phases /\ rec[a].why \in WhyOf(rec[a].phase)
      /\ rec[a].phase # "none" => rec[a] # NoRecord
      /\ HostShape /\ NeverRefused
  BY RecordOf
<1> DEFINE r == Advanced(rec[a], "persistence_dispatching")
<1>2. run[a] = "committing" /\ UNCHANGED <<host, logins, kept, wire>>
  BY DEF CredentialsDispatched
<1>3. rec[a].phase \in {"credentials_ready", "failed"} /\ helper[a] = "none"
  BY <1>1, <1>2 DEF SessionFacts
<1>4. pages' = pages /\ logins' = logins /\ kept' = kept
  BY <1>2 DEF DesktopRests, seen, past
<1>5. /\ Touches(a) /\ SessionFacts(a)'
      /\ helper' \in [Attempts -> {"none", "login", "storage"}]
      /\ \A b \in Attempts : b # a => helper'[b] = helper[b]
  <2>1. CASE (Keeps(a) \/ (rec[a].phase \in Terminal /\ Frees(a))) /\ UNCHANGED helper
    <3>1. PICK to \in {"idle", "held"} :
            /\ Touches(a) /\ rec'[a] = rec[a] /\ run'[a] = to
      BY <2>1, SessionEnds DEF Keeps, Frees
    <3>2. SessionFacts(a)'
      BY <1>1, <1>3, <1>4, <2>1, <3>1 DEF SessionFacts, Stored, SignedIn
    <3> QED BY <1>1, <2>1, <3>1, <3>2 DEF HostShape
  <2>2. CASE /\ rec[a].phase = "credentials_ready"
             /\ \/ /\ Write(a, r) /\ Moves(a, "storing")
                   /\ helper' = [helper EXCEPT ![a] = "storage"]
                \/ WriteFails(a, r) /\ Moves(a, "held") /\ UNCHANGED helper
    <3>1. Moved(rec[a], r) /\ rec[a] # NoRecord /\ rec[a].why = "none" /\ pages[a] # <<>>
      BY <1>1, <2>2, ReadyMoves DEF SessionFacts, SignedIn, WhyOf, Terminal
    <3>2. r.phase = "persistence_dispatching" /\ r.why = "none"
      BY <1>1, <3>1, AdvancedFields DEF Phases
    <3> HIDE DEF r
    <3>3. /\ rec' \in [Attempts -> RecordShape] /\ \A b \in Attempts : Sound(rec'[b])
          /\ \A b \in Attempts : b # a => rec'[b] = rec[b]
          /\ rec'[a] = r \/ rec'[a] = rec[a]
          /\ Write(a, r) => rec'[a] = r
          /\ sick' \in BOOLEAN /\ refused' = refused
          /\ \A b \in Attempts : Grows(b)
      BY <1>1, <2>2, <3>1, JournalWrite
    <3>4. /\ run' \in [Attempts -> {"idle", "held", "login", "committing", "storing"}]
          /\ \A b \in Attempts : b # a => run'[b] = run[b]
          /\ helper' \in [Attempts -> {"none", "login", "storage"}]
          /\ \A b \in Attempts : b # a => helper'[b] = helper[b]
          /\ \/ rec'[a] = r /\ run'[a] = "storing" /\ helper'[a] = "storage"
             \/ run'[a] = "held" /\ helper'[a] = "none"
      BY <1>1, <1>3, <2>2, <3>3 DEF HostShape, Moves
    <3>5. Touches(a) BY <3>3, <3>4 DEF Touches
    <3>6. a \notin kept BY <1>1, <2>2, <3>1 DEF SessionFacts, Stored
    <3>7. SessionFacts(a)'
      BY <1>1, <1>4, <2>2, <3>1, <3>2, <3>3, <3>4, <3>6 DEF SessionFacts, Stored, SignedIn
    <3> QED BY <3>4, <3>5, <3>7
  <2> QED BY <1>3, <2>1, <2>2 DEF CredentialsDispatched, Terminal
<1> QED BY <1>1, <1>2, <1>5, TouchesKeeps DEF host, HostShape

(* The storage confirmed: the credentials are kept.                         *)
LEMMA StorageConfirmsKeeps ==
    ASSUME OAuthInvariant, NEW a \in Attempts, StorageConfirms(a), DesktopRests
    PROVE  OAuthInvariant'
<1>1. /\ Sound(rec[a]) /\ rec[a] \in RecordShape /\ SessionFacts(a)
      /\ rec[a].phase # "none" => rec[a] # NoRecord
      /\ HostShape /\ NeverRefused
  BY RecordOf
<1>2. run[a] = "storing" /\ a \in kept /\ HelperGone(a) /\ UNCHANGED <<host, logins, kept, wire>>
  BY DEF StorageConfirms
<1>3. rec[a].phase = "persistence_dispatching" /\ pages[a] # <<>>
  BY <1>1, <1>2 DEF SessionFacts, SignedIn
<1>4. /\ helper' \in [Attempts -> {"none", "login", "storage"}] /\ helper'[a] = "none"
      /\ \A b \in Attempts : b # a => helper'[b] = helper[b]
  BY <1>1, <1>2, HelperEndsWell
<1>5. pages' = pages /\ logins' = logins /\ kept' = kept
  BY <1>2 DEF DesktopRests, seen, past
<1> DEFINE r == Settled(rec[a], "persistence_confirmed")
<1>6. Moved(rec[a], r) /\ r.phase = "completed" /\ r.why = "persistence_confirmed"
  BY <1>1, <1>3, StoringMoves, SettledSays DEF Whys, PhaseOf
<1>7. Step(a, r, "idle") \/ Keeps(a)
  BY DEF StorageConfirms
<1> HIDE DEF r
<1>8. /\ Touches(a)
      /\ \/ rec'[a] = r /\ run'[a] \in {"idle", "held"}
         \/ rec'[a] = rec[a] /\ run'[a] = "held"
  <2>1. CASE Step(a, r, "idle") BY <1>1, <1>3, <1>6, <2>1, SessionWrites
  <2>2. CASE Keeps(a) BY <2>2, SessionEnds DEF Keeps
  <2> QED BY <1>7, <2>1, <2>2
<1>9. SessionFacts(a)'
  BY <1>1, <1>2, <1>3, <1>4, <1>5, <1>6, <1>8 DEF SessionFacts, Stored, SignedIn
<1> QED BY <1>1, <1>2, <1>4, <1>8, <1>9, TouchesKeeps DEF host, HostShape

(* What a helper does by itself.                                            *)
LEMMA HelperStoresKeeps ==
    ASSUME OAuthInvariant, NEW a \in Attempts, HelperStores(a), DesktopRests
    PROVE  OAuthInvariant'
<1>1. SessionFacts(a) /\ HostShape BY RecordOf
<1>2. /\ helper[a] = "storage" /\ kept' = kept \cup {a}
      /\ UNCHANGED <<journal, host, run, helper, logins, wire>>
  BY DEF HelperStores
<1>3. HostShape' BY <1>1, <1>2 DEF HostShape, journal, host
<1>4. SessionFacts(a)'
  BY <1>1, <1>2 DEF SessionFacts, SignedIn, journal, DesktopRests, seen, past
<1> QED BY <1>2, <1>3, <1>4, SessionStepKeeps DEF journal, host, Grows

LEMMA HelperEndsKeeps ==
    ASSUME OAuthInvariant, NEW a \in Attempts, HelperEnds(a), DesktopRests
    PROVE  OAuthInvariant'
<1>1. SessionFacts(a) /\ HostShape BY RecordOf
<1>2. /\ run[a] \notin {"login", "storing"} /\ HelperGone(a)
      /\ UNCHANGED <<journal, host, run, logins, kept, wire>>
  BY DEF HelperEnds
<1>3. /\ helper' \in [Attempts -> {"none", "login", "storage"}] /\ helper'[a] = "none"
      /\ \A b \in Attempts : b # a => helper'[b] = helper[b]
  BY <1>1, <1>2, HelperEndsWell
<1>4. HostShape' BY <1>1, <1>2, <1>3 DEF HostShape, journal, host
<1>5. SessionFacts(a)'
  BY <1>1, <1>2, <1>3 DEF SessionFacts, SignedIn, journal, DesktopRests, seen, past
<1> QED BY <1>2, <1>3, <1>4, <1>5, SessionStepKeeps DEF journal, host, Grows

(* A cancellation, an expiry or a shutdown writes what is to be done; the   *)
(* run sees to it.                                                          *)
LEMMA CancelSessionWrites ==
    ASSUME OAuthInvariant, NEW a \in Attempts, NEW intent \in Intents, CancelSession(a, intent),
           UNCHANGED <<session, pages>>
    PROVE  /\ rec' \in [Attempts -> RecordShape] /\ \A b \in Attempts : Sound(rec'[b])
           /\ \A b \in Attempts : b # a => rec'[b] = rec[b]
           /\ sick' \in BOOLEAN /\ refused' = refused
           /\ \A b \in Attempts : Grows(b)
           /\ run[a] # "idle" => SessionFacts(a)'
<1>1. /\ Sound(rec[a]) /\ rec[a] \in RecordShape /\ SessionFacts(a)
      /\ rec[a].phase \in Phases /\ rec[a].why \in WhyOf(rec[a].phase)
      /\ rec[a].phase # "none" => rec[a] # NoRecord
      /\ HostShape /\ NeverRefused
  BY RecordOf
<1>2. run' = run /\ helper' = helper /\ logins' = logins /\ kept' = kept /\ pages' = pages
  BY DEF session
<1>3. CASE UNCHANGED journal
  BY <1>1, <1>2, <1>3, SessionFrame DEF journal, HostShape, Grows
<1>4. CASE /\ rec[a].phase = "login_dispatching"
           /\ \/ Write(a, Cancelling(rec[a], intent))
              \/ WriteFails(a, Cancelling(rec[a], intent))
  <2> DEFINE r == Cancelling(rec[a], intent)
  <2>1. Moved(rec[a], r) /\ rec[a] # NoRecord /\ rec[a].why = "none"
    BY <1>1, <1>4, LoginMoves DEF WhyOf, Terminal
  <2>2. r.phase = "cancelling" /\ r.why = "none"
    BY <1>1, <2>1, CancellingFields
  <2>3. Write(a, r) \/ WriteFails(a, r) BY <1>4
  <2> HIDE DEF r
  <2>4. /\ rec' \in [Attempts -> RecordShape] /\ \A b \in Attempts : Sound(rec'[b])
        /\ \A b \in Attempts : b # a => rec'[b] = rec[b]
        /\ rec'[a] = r \/ rec'[a] = rec[a]
        /\ sick' \in BOOLEAN /\ refused' = refused
        /\ \A b \in Attempts : Grows(b)
    BY <1>1, <2>1, <2>3, JournalWrite
  <2>5. SessionFacts(a)'
    BY <1>1, <1>2, <1>4, <2>1, <2>2, <2>4 DEF SessionFacts, Stored, SignedIn
  <2> QED BY <2>4, <2>5
<1>5. CASE /\ rec[a].phase = "credentials_ready"
           /\ \/ Write(a, Settled(rec[a], "credentials_discarded"))
              \/ WriteFails(a, Settled(rec[a], "credentials_discarded"))
  <2> DEFINE r == Settled(rec[a], "credentials_discarded")
  <2>1. Moved(rec[a], r) /\ rec[a] # NoRecord /\ rec[a].why = "none"
    BY <1>1, <1>5, ReadyMoves DEF WhyOf, Terminal
  <2>2. r.phase = "failed" /\ r.why = "credentials_discarded"
    BY <1>1, SettledSays DEF Whys, FailedWhy, PhaseOf
  <2>3. Write(a, r) \/ WriteFails(a, r) BY <1>5
  <2> HIDE DEF r
  <2>4. /\ rec' \in [Attempts -> RecordShape] /\ \A b \in Attempts : Sound(rec'[b])
        /\ \A b \in Attempts : b # a => rec'[b] = rec[b]
        /\ rec'[a] = r \/ rec'[a] = rec[a]
        /\ sick' \in BOOLEAN /\ refused' = refused
        /\ \A b \in Attempts : Grows(b)
    BY <1>1, <2>1, <2>3, JournalWrite
  <2>5. SessionFacts(a)'
    BY <1>1, <1>2, <1>5, <2>1, <2>2, <2>4 DEF SessionFacts, Stored, SignedIn
  <2> QED BY <2>4, <2>5
<1> QED BY <1>3, <1>4, <1>5 DEF CancelSession

(* A write of the intent to cancel or of its outcome before the storage.    *)
LEMMA CancelledSessionKeeps ==
    ASSUME OAuthInvariant, NEW a \in Attempts, NEW intent \in Intents, CancelSession(a, intent),
           run[a] # "idle", UNCHANGED <<secure, session, wire>>, DesktopRests,
           process' \in {"up", "closing", "down"}, process' = "down" => process = "down"
    PROVE  OAuthInvariant'
<1>1. HostShape BY RecordOf
<1>2. UNCHANGED pages BY DEF DesktopRests, seen, past
<1>3. /\ rec' \in [Attempts -> RecordShape] /\ \A b \in Attempts : Sound(rec'[b])
      /\ \A b \in Attempts : b # a => rec'[b] = rec[b]
      /\ sick' \in BOOLEAN /\ refused' = refused
      /\ \A b \in Attempts : Grows(b)
      /\ SessionFacts(a)'
  BY <1>2, CancelSessionWrites
<1>4. HostShape' BY <1>1, <1>3 DEF HostShape, session
<1> QED BY <1>3, <1>4, SessionStepKeeps DEF session

(* An attempt that expires.                                                 *)
LEMMA SessionExpiresKeeps ==
    ASSUME OAuthInvariant, NEW a \in Attempts, SessionExpires(a), DesktopRests
    PROVE  OAuthInvariant'
<1>1. CancelSession(a, "expired") /\ "expired" \in Intents /\ run[a] # "idle"
      /\ UNCHANGED <<host, session, wire>> /\ HostShape
  BY RecordOf DEF SessionExpires, Live, Intents
<1> QED BY <1>1, CancelledSessionKeeps DEF host, HostShape

(* The close of the host cancels one session, or none.                      *)
LEMMA BeginCloseKeeps ==
    ASSUME OAuthInvariant, BeginClose, DesktopRests
    PROVE  OAuthInvariant'
<1>1. process' = "closing" /\ UNCHANGED <<secure, session, wire>>
  BY DEF BeginClose
<1>2. CASE \E a \in Attempts : Live(a) /\ CancelSession(a, "shutdown")
  <2>1. PICK a \in Attempts : Live(a) /\ CancelSession(a, "shutdown") BY <1>2
  <2>2. "shutdown" \in Intents /\ run[a] # "idle" BY <2>1 DEF Intents, Live
  <2> QED BY <1>1, <2>1, <2>2, CancelledSessionKeeps
<1>3. CASE UNCHANGED journal
  <2>1. HostShape /\ WireShape /\ DesktopShape /\ HostInvariant /\ RequestInvariant /\ DesktopInvariant
        /\ NeverRefused
    BY DEF OAuthInvariant, OAuthShape
  <2>2. HostShape' /\ WireShape' /\ DesktopShape' /\ NeverRefused'
    BY <1>1, <1>3, <2>1 DEF HostShape, WireShape, DesktopShape, NeverRefused, journal, session, wire,
       DesktopRests, desktop, seen, past
  <2>3. HostInvariant'
    BY <1>1, <1>3, <2>1 DEF HostInvariant, SessionFacts, SignedIn, OneBarrier, Barrier, LaneFacts, Of,
       OneLane, StoppedFacts, journal, session, wire, DesktopRests, desktop, seen, past
  <2>4. RequestInvariant'
    BY <1>1, <1>3, <2>1 DEF RequestInvariant, RequestFacts, Waited, Dispatched, wire, DesktopRests, desktop
  <2>5. DesktopInvariant'
    BY <1>1, <1>3, <2>1 DEF DesktopInvariant, DesktopFacts, Follows, OperationFacts, AnswerFacts, AbsenceFacts,
       PageFacts, NeverBegins, StartOn, journal, wire, DesktopRests, desktop, seen, past
  <2> QED BY <2>2, <2>3, <2>4, <2>5 DEF OAuthInvariant, OAuthShape
<1> QED BY <1>2, <1>3 DEF BeginClose

-----------------------------------------------------------------------------
(* Requests at the host.                                                    *)

(* What a reply tells: nothing, or the record as it stands.                 *)
Tells(c, body) ==
    \/ body = NoAnswer
    \/ \E page \in BOOLEAN :
          /\ body = Answer(rec'[Of(c)], page)
          /\ page => rec'[Of(c)].phase \in
                        {"login_dispatching", "credentials_ready", "persistence_dispatching"}
          /\ inbox[c][1].live /\ rec'[Of(c)] = NoRecord =>
                \A a \in Attempts : a = Of(c) => NeverBegins(a)'

(* What a reply does to the queue and the answer.                           *)
LEMMA ReplyShape ==
    ASSUME WireShape, NEW c \in Connections, inbox[c] # <<>>, NEW body, Reply(c, body), Tells(c, body),
           rec' \in [Attempts -> RecordShape]
    PROVE  /\ inbox' \in [Connections -> Seq(Requests)]
           /\ at' \in [Connections -> {"idle", "prepared", "marked", "waiting"}]
           /\ answer' \in [Attempts -> Body]
           /\ inbox'[c] = Tail(inbox[c]) /\ at'[c] = "idle"
           /\ \A d \in Connections : d # c => inbox'[d] = inbox[d] /\ at'[d] = at[d]
           /\ \A a \in Attempts : answer'[a] = IF inbox[c][1].live /\ a = Of(c) THEN body ELSE answer[a]
<1>1. Of(c) \in Attempts /\ inbox[c] \in Seq(Requests) BY OfAttempt
<1>2. Tail(inbox[c]) \in Seq(Requests) BY <1>1, ThinsTail
<1>3. body \in Body
  <2>1. NoRecord \in RecordShape BY NoRecordFields
  <2>2. rec'[Of(c)] \in RecordShape BY <1>1
  <2>3. NoAnswer \in Body BY <2>1 DEF NoAnswer, Body
  <2>4. \A page \in BOOLEAN : Answer(rec'[Of(c)], page) \in Body BY <2>2 DEF Answer, Body
  <2> QED BY <2>3, <2>4 DEF Tells
<1>4. /\ inbox' = [inbox EXCEPT ![c] = Tail(inbox[c])]
      /\ at' = [at EXCEPT ![c] = "idle"]
      /\ answer' = IF inbox[c][1].live THEN [answer EXCEPT ![Of(c)] = body] ELSE answer
  BY DEF Reply
<1>5. inbox \in [Connections -> Seq(Requests)] /\ answer \in [Attempts -> Body]
      /\ at \in [Connections -> {"idle", "prepared", "marked", "waiting"}]
  BY DEF WireShape
<1>6. answer' \in [Attempts -> Body]
      /\ \A a \in Attempts : answer'[a] = IF inbox[c][1].live /\ a = Of(c) THEN body ELSE answer[a]
  BY <1>1, <1>3, <1>4, <1>5
<1>7. inbox' \in [Connections -> Seq(Requests)] /\ inbox'[c] = Tail(inbox[c])
      /\ \A d \in Connections : d # c => inbox'[d] = inbox[d]
  BY <1>2, <1>4, <1>5
<1>8. at' \in [Connections -> {"idle", "prepared", "marked", "waiting"}] /\ at'[c] = "idle"
      /\ \A d \in Connections : d # c => at'[d] = at[d]
  BY <1>4, <1>5
<1> QED BY <1>6, <1>7, <1>8

(* What it does to the requests that are left: the one it answers was the   *)
(* only one waited for.                                                     *)
LEMMA ReplyRequests ==
    ASSUME WireShape, RequestInvariant, UNCHANGED <<open, led, op, link, next>>,
           NEW c \in Connections, inbox[c] # <<>>, inbox'[c] = Tail(inbox[c]), at'[c] = "idle",
           \A d \in Connections : d # c => inbox'[d] = inbox[d] /\ at'[d] = at[d],
           \A a \in Attempts : ~(inbox[c][1].live /\ a = Of(c)) => answer'[a] = answer[a]
    PROVE  /\ RequestInvariant'
           /\ \A d \in Connections, a \in Attempts : StartOn(d, a)' => StartOn(d, a)
<1>1. Of(c) \in Attempts /\ inbox[c][1] \in Requests /\ inbox[c] \in Seq(Requests)
      /\ 1 \in 1..Len(inbox[c])
  BY OfAttempt
<1>2. /\ Tail(inbox[c]) \in Seq(Requests) /\ Thins(Tail(inbox[c]), inbox[c])
      /\ Len(Tail(inbox[c])) = Len(inbox[c]) - 1
      /\ \A i \in 1..Len(Tail(inbox[c])) : Tail(inbox[c])[i] = inbox[c][i + 1]
  BY <1>1, ThinsTail
<1>3. \A d \in Connections : RequestFacts(d) /\ inbox[d] \in Seq(Requests)
  BY DEF RequestInvariant, WireShape
<1>4. \A i \in 1..Len(inbox'[c]) : i + 1 \in 1..Len(inbox[c]) /\ i + 1 # 1
                                  /\ inbox'[c][i] = inbox[c][i + 1]
  BY <1>1, <1>2
<1>5. \A d \in Connections : \A i \in 1..Len(inbox[d]) : inbox[d][i].a \in Attempts
  <2>1. \A d \in Connections : \A i \in 1..Len(inbox[d]) : inbox[d][i] \in Requests
    BY <1>3
  <2>2. \A q \in Requests : q.a \in Attempts BY DEF Requests
  <2> QED BY <2>1, <2>2
<1>6. ASSUME NEW d \in Connections PROVE RequestFacts(d)'
  <2>1. CASE d # c
    <3>1. inbox'[d] = inbox[d] /\ at'[d] = at[d] BY <2>1
    <3>2. \A i \in 1..Len(inbox[d]) : inbox[d][i].live => answer'[inbox[d][i].a] = answer[inbox[d][i].a]
      <4>1. \A i \in 1..Len(inbox[d]) : inbox[d][i].live => d = link
        BY <1>3 DEF RequestFacts, Waited
      <4>2. inbox[c][1].live => c = link
        BY <1>1, <1>3 DEF RequestFacts, Waited
      <4> QED BY <1>5, <2>1, <4>1, <4>2
    <3> QED BY <1>3, <3>1, <3>2 DEF RequestFacts, Waited, Dispatched
  <2>2. CASE d = c
    <3>1. Orderly(inbox'[c])
      <4>1. Orderly(inbox[c]) BY <1>3 DEF RequestFacts
      <4>2. Orderly(Tail(inbox[c])) BY <1>1, <1>2, <4>1, ThinsOrderly
      <4> QED BY <4>2
    <3>2. ASSUME NEW i \in 1..Len(inbox'[c]) PROVE Waited(c, inbox[c][i])' /\ Dispatched(c, i)'
      <4>1. Waited(c, inbox[c][i + 1]) /\ Dispatched(c, i + 1) /\ i + 1 # 1 /\ i + 1 \in 1..Len(inbox[c])
        BY <1>3, <1>4 DEF RequestFacts
      <4>2. PICK q : q = inbox[c][i + 1] OBVIOUS
      <4>3. inbox'[c][i] = q BY <1>4, <4>2
      <4>4. q.live => answer'[q.a] = answer[q.a]
        <5>1. q.live /\ inbox[c][1].live => q.a # inbox[c][1].a
          BY <1>1, <1>3, <4>1, <4>2 DEF RequestFacts, Orderly
        <5> QED BY <1>5, <4>1, <4>2, <5>1 DEF Of
      <4>5. Waited(c, q)' BY <4>1, <4>2, <4>4 DEF Waited
      <4>6. Dispatched(c, i)' BY <4>1, <4>2, <4>3 DEF Dispatched
      <4> QED BY <4>3, <4>5, <4>6
    <3> QED BY <2>2, <3>1, <3>2 DEF RequestFacts
  <2> QED BY <2>1, <2>2
<1>7. \A d \in Connections, a \in Attempts : StartOn(d, a)' => StartOn(d, a)
  <2> TAKE d \in Connections, a \in Attempts
  <2>1. CASE d # c BY <2>1 DEF StartOn
  <2>2. CASE d = c BY <1>4, <2>2 DEF StartOn
  <2> QED BY <2>1, <2>2
<1> QED BY <1>6, <1>7 DEF RequestInvariant

(* What a request has to show.                                              *)
LEMMA RequestKeeps ==
    ASSUME OAuthInvariant, NEW c \in Connections, inbox[c] # <<>>, DesktopRests,
           UNCHANGED open, process' # "down", HostShape', refused' = refused,
           \A a \in Attempts : SessionFacts(a)', OneBarrier',
           \A a \in Attempts : rec[a] # NoRecord => rec'[a] # NoRecord,
           \A d \in Connections : d # c /\ at[d] = "marked" =>
              /\ rec'[Of(d)] = rec[Of(d)] /\ run'[Of(d)] = run[Of(d)] /\ logins'[Of(d)] = logins[Of(d)],
           absentSeen' \in Nat, absentSeen <= absentSeen',
           \/ \E body : Reply(c, body) /\ Tells(c, body)
           \/ \E stage \in {"prepared", "marked", "waiting"} :
                 Reaches(c, stage) /\ LaneFacts(c)' /\ OneLane',
           \A a \in Attempts : Grows(a) \/ DesktopFacts(a)'
    PROVE  OAuthInvariant'
<1> USE DEF DesktopRests, desktop, seen, past
<1>1. HostShape /\ WireShape /\ DesktopShape /\ HostInvariant /\ RequestInvariant /\ DesktopInvariant
      /\ NeverRefused
  BY DEF OAuthInvariant, OAuthShape
<1>2. /\ inbox' \in [Connections -> Seq(Requests)]
      /\ at' \in [Connections -> {"idle", "prepared", "marked", "waiting"}]
      /\ answer' \in [Attempts -> Body]
      /\ RequestInvariant' /\ OneLane' /\ LaneFacts(c)'
      /\ \A d \in Connections : d # c => inbox'[d] = inbox[d] /\ at'[d] = at[d]
      /\ \A d \in Connections, a \in Attempts : StartOn(d, a)' => StartOn(d, a)
      /\ \A a \in Attempts : Heard(a)
  <2>1. CASE \E body : Reply(c, body) /\ Tells(c, body)
    <3>1. PICK body : Reply(c, body) /\ Tells(c, body) BY <2>1
    <3>2. /\ inbox' \in [Connections -> Seq(Requests)]
          /\ at' \in [Connections -> {"idle", "prepared", "marked", "waiting"}]
          /\ answer' \in [Attempts -> Body]
          /\ inbox'[c] = Tail(inbox[c]) /\ at'[c] = "idle"
          /\ \A d \in Connections : d # c => inbox'[d] = inbox[d] /\ at'[d] = at[d]
          /\ \A a \in Attempts : answer'[a] = IF inbox[c][1].live /\ a = Of(c) THEN body ELSE answer[a]
      BY <1>1, <3>1, ReplyShape DEF HostShape
    <3>3. RequestInvariant' /\ \A d \in Connections, a \in Attempts : StartOn(d, a)' => StartOn(d, a)
      BY <1>1, <3>2, ReplyRequests
    <3>4. OneLane' BY <1>1, <3>2 DEF HostInvariant, OneLane
    <3>5. LaneFacts(c)' BY <3>2 DEF LaneFacts
    <3>6. ASSUME NEW a \in Attempts PROVE Heard(a)
      <4>1. CASE ~(inbox[c][1].live /\ a = Of(c))
        BY <3>2, <4>1 DEF Heard
      <4>2. CASE inbox[c][1].live /\ a = Of(c)
        <5>1. answer'[a] = body BY <3>2, <4>2
        <5>2. op[a].pc \in Awaits
          <6>1. RequestFacts(c) /\ 1 \in 1..Len(inbox[c]) BY <1>1, OfAttempt DEF RequestInvariant
          <6> QED BY <4>2, <6>1 DEF RequestFacts, Waited, Of
        <5> QED BY <3>1, <4>2, <5>1, <5>2 DEF Tells, Heard, Fresh, Answer
      <4> QED BY <4>1, <4>2
    <3> QED BY <3>2, <3>3, <3>4, <3>5, <3>6
  <2>2. CASE \E stage \in {"prepared", "marked", "waiting"} :
                 Reaches(c, stage) /\ LaneFacts(c)' /\ OneLane'
    <3>1. PICK stage \in {"prepared", "marked", "waiting"} :
                 Reaches(c, stage) /\ LaneFacts(c)' /\ OneLane'
      BY <2>2
    <3>2. at' = [at EXCEPT ![c] = stage] /\ UNCHANGED <<inbox, answer>> BY <3>1 DEF Reaches
    <3>3. /\ at' \in [Connections -> {"idle", "prepared", "marked", "waiting"}] /\ at'[c] = stage
          /\ \A d \in Connections : d # c => at'[d] = at[d]
      BY <1>1, <3>2 DEF WireShape
    <3>4. RequestInvariant'
      <4>1. \A d \in Connections : at[d] # "idle" => at'[d] # "idle" BY <3>3
      <4> QED BY <1>1, <3>2, <4>1 DEF RequestInvariant, RequestFacts, Waited, Dispatched
    <3>5. \A a \in Attempts : Heard(a) BY <3>2 DEF Heard
    <3> QED BY <1>1, <3>1, <3>2, <3>3, <3>4, <3>5 DEF WireShape, StartOn
  <2> QED BY <2>1, <2>2
<1>3. WireShape' /\ DesktopShape' /\ NeverRefused'
  BY <1>1, <1>2 DEF WireShape, DesktopShape, NeverRefused
<1>4. \A d \in Connections : LaneFacts(d)'
  <2> TAKE d \in Connections
  <2>1. LaneFacts(d) BY <1>1 DEF HostInvariant
  <2>2. CASE d = c BY <1>2, <2>2
  <2>3. CASE d # c /\ at[d] = "idle"
    BY <1>2, <2>3 DEF LaneFacts
  <2>4. CASE d # c /\ at[d] # "idle"
    <3>1. Of(d) \in Attempts BY <1>1, <2>1, <2>4, OfAttempt DEF LaneFacts
    <3>2. at[d] = "prepared" => rec'[Of(d)] # NoRecord BY <2>1, <3>1 DEF LaneFacts
    <3>3. inbox'[d] = inbox[d] /\ at'[d] = at[d] /\ inbox[d] # <<>> BY <1>2, <2>1, <2>4 DEF LaneFacts
    <3> QED BY <2>1, <2>4, <3>1, <3>2, <3>3, LaneFrame
  <2> QED BY <2>2, <2>3, <2>4
<1>5. HostInvariant'
  BY <1>2, <1>4 DEF HostInvariant, StoppedFacts
<1>6. DesktopInvariant'
  <2>1. SUFFICES ASSUME NEW b \in Attempts, Grows(b) PROVE DesktopFacts(b)'
    BY DEF DesktopInvariant
  <2>2. DesktopFacts(b) BY <1>1 DEF DesktopInvariant
  <2>3. Heard(b) /\ (\A d \in Connections : StartOn(d, b)' => StartOn(d, b))
    BY <1>2
  <2>4. next <= next' BY <1>1 DEF DesktopShape
  <2> QED BY <1>1, <1>3, <2>1, <2>2, <2>3, <2>4, DesktopFrame
<1> QED BY <1>2, <1>3, <1>5, <1>6 DEF OAuthInvariant, OAuthShape

(* What is known when a connection serves a request.                        *)
LEMMA ServingOf ==
    ASSUME OAuthInvariant, NEW c \in Connections, NEW kind, NEW stage, Serving(c, kind, stage)
    PROVE  /\ process # "down" /\ inbox[c] # <<>> /\ at[c] = stage /\ inbox[c][1].kind = kind
           /\ Of(c) \in Attempts /\ Waited(c, inbox[c][1]) /\ Dispatched(c, 1)
           /\ Orderly(inbox[c]) /\ 1 \in 1..Len(inbox[c]) /\ inbox[c] \in Seq(Requests)
           /\ LaneFacts(c) /\ OneLane /\ absentSeen \in Nat
<1>1. WireShape /\ RequestFacts(c) /\ LaneFacts(c) /\ OneLane
  BY DEF OAuthInvariant, OAuthShape, HostInvariant, RequestInvariant
<1>2. process # "down" /\ inbox[c] # <<>> /\ at[c] = stage /\ inbox[c][1].kind = kind
  BY DEF Serving
<1>3. Of(c) \in Attempts /\ 1 \in 1..Len(inbox[c]) /\ inbox[c] \in Seq(Requests)
  BY <1>1, <1>2, OfAttempt
<1> QED BY <1>1, <1>2, <1>3 DEF RequestFacts, WireShape

(* A request that leaves records and sessions as they are.                  *)
LEMMA ReplyKeeps ==
    ASSUME OAuthInvariant, NEW c \in Connections, inbox[c] # <<>>, DesktopRests, process # "down",
           UNCHANGED <<journal, host, session, open>>,
           absentSeen' \in Nat, absentSeen <= absentSeen',
           NEW body, Reply(c, body), Tells(c, body)
    PROVE  OAuthInvariant'
<1> USE DEF journal, host, session
<1>1. HostShape /\ HostInvariant /\ NeverRefused BY DEF OAuthInvariant, OAuthShape
<1>2. HostShape' BY <1>1 DEF HostShape
<1>3. \A a \in Attempts : SessionFacts(a)'
  BY <1>1, SessionFrame DEF HostInvariant, DesktopRests, seen, past
<1>4. OneBarrier' BY <1>1 DEF HostInvariant, OneBarrier
<1>5. \A a \in Attempts : Grows(a) BY DEF Grows
<1> QED BY <1>2, <1>3, <1>4, <1>5, RequestKeeps

(* A request that writes a record of the journal and leaves the sessions.   *)
LEMMA WriteKeeps ==
    ASSUME OAuthInvariant, NEW c \in Connections, inbox[c] # <<>>, DesktopRests, process # "down",
           UNCHANGED <<host, session, open, absentSeen>>,
           rec' \in [Attempts -> RecordShape], \A a \in Attempts : Sound(rec'[a]),
           sick' \in BOOLEAN, refused' = refused,
           \A a \in Attempts : a # Of(c) => rec'[a] = rec[a],
           Grows(Of(c)), \A a \in Attempts : a = Of(c) => SessionFacts(a)',
           rec[Of(c)].phase = "login_dispatching" => run[Of(c)] # "idle",
           \/ \E body : Reply(c, body) /\ Tells(c, body)
           \/ \E stage \in {"prepared", "marked", "waiting"} :
                 Reaches(c, stage) /\ LaneFacts(c)' /\ OneLane'
    PROVE  OAuthInvariant'
<1> USE DEF host, session
<1>1. HostShape /\ WireShape /\ HostInvariant BY DEF OAuthInvariant, OAuthShape
<1>2. HostShape' BY <1>1 DEF HostShape
<1>3. \A a \in Attempts : SessionFacts(a)'
  <2> TAKE a \in Attempts
  <2>1. CASE a = Of(c) BY <2>1
  <2>2. CASE a # Of(c) BY <1>1, <2>2, SessionFrame DEF HostInvariant, DesktopRests, seen, past
  <2> QED BY <2>1, <2>2
<1>4. \A a \in Attempts : Grows(a) BY DEF Grows
<1>5. OneBarrier' BY <1>1, <1>4, BarrierFrame DEF HostInvariant
<1>6. \A a \in Attempts : rec[a] # NoRecord => rec'[a] # NoRecord BY <1>1, <1>4, GrowsOn
<1>7. ASSUME NEW d \in Connections, d # c, at[d] = "marked"
      PROVE  rec'[Of(d)] = rec[Of(d)] /\ run'[Of(d)] = run[Of(d)] /\ logins'[Of(d)] = logins[Of(d)]
  <2>1. LaneFacts(d) BY <1>1 DEF HostInvariant
  <2>2. inbox[d] # <<>> /\ rec[Of(d)].phase = "login_dispatching" /\ run[Of(d)] = "idle"
    BY <1>7, <2>1 DEF LaneFacts
  <2>3. Of(d) \in Attempts BY <1>1, <2>2, OfAttempt
  <2>4. Of(d) # Of(c) BY <2>2
  <2> QED BY <2>3, <2>4
<1>8. absentSeen' \in Nat /\ absentSeen <= absentSeen' BY <1>1 DEF WireShape
<1> QED BY <1>2, <1>3, <1>4, <1>5, <1>6, <1>7, <1>8, RequestKeeps

(* A start passes the mark: nothing of the attempt was begun before it.     *)
LEMMA StartMarkKeeps ==
    ASSUME OAuthInvariant, NEW c \in Connections, StartMark(c), DesktopRests
    PROVE  OAuthInvariant'
<1>1. /\ process # "down" /\ inbox[c] # <<>> /\ at[c] = "prepared" /\ inbox[c][1].kind = "start"
      /\ Of(c) \in Attempts /\ OneLane /\ absentSeen \in Nat
      /\ UNCHANGED <<host, session, open, absentSeen>>
  BY ServingOf DEF StartMark
<1>0. PICK a \in Attempts : a = Of(c) BY <1>1
<1> DEFINE r == Advanced(Prepared, "login_dispatching")
<1>2. /\ Sound(rec[a]) /\ SessionFacts(a) /\ HostShape /\ NeverRefused
  BY <1>0, RecordOf
<1>3. CASE Reply(c, NoAnswer) /\ UNCHANGED journal
  BY <1>1, <1>3, ReplyKeeps DEF Tells
<1>4. CASE rec[a] = Prepared /\ ((Write(a, r) /\ Reaches(c, "marked")) \/ (WriteFails(a, r) /\ Reply(c, NoAnswer)))
  <2>1. Moved(rec[a], r) /\ rec[a] # NoRecord /\ rec[a].phase = "prepared"
    BY <1>2, <1>4, PreparedMoves, NoRecordFields
  <2>2. r.phase = "login_dispatching" /\ r.why = "none"
    BY NoRecordFields, AdvancedFields DEF Phases
  <2> HIDE DEF r
  <2>3. /\ rec' \in [Attempts -> RecordShape] /\ \A b \in Attempts : Sound(rec'[b])
        /\ \A b \in Attempts : b # a => rec'[b] = rec[b]
        /\ rec'[a] = r \/ rec'[a] = rec[a]
        /\ Write(a, r) => rec'[a] = r
        /\ sick' \in BOOLEAN /\ refused' = refused
        /\ \A b \in Attempts : Grows(b)
    BY <1>1, <1>2, <1>4, <2>1, JournalWrite
  <2>4. run[a] = "idle" /\ helper[a] = "none" /\ logins[a] = 0 /\ a \notin kept
    BY <1>2, <1>4, <2>1, NoRecordFields DEF SessionFacts, Stored
  <2>5. run' = run /\ helper' = helper /\ logins' = logins /\ kept' = kept /\ pages' = pages
    BY <1>1 DEF session, DesktopRests, seen, past
  <2>6. SessionFacts(a)'
    BY <1>2, <1>4, <2>1, <2>2, <2>3, <2>4, <2>5, NoRecordFields DEF SessionFacts, SignedIn, Stored
  <2>7. \/ \E body : Reply(c, body) /\ Tells(c, body)
        \/ \E stage \in {"prepared", "marked", "waiting"} :
                 Reaches(c, stage) /\ LaneFacts(c)' /\ OneLane'
    <3>1. CASE Reply(c, NoAnswer) BY <3>1 DEF Tells
    <3>2. CASE Write(a, r) /\ Reaches(c, "marked")
      <4>1. at' = [at EXCEPT ![c] = "marked"] /\ inbox' = inbox BY <3>2 DEF Reaches
      <4>2. at'[c] = "marked" /\ \A d \in Connections : d # c => at'[d] = at[d]
        BY <4>1 DEF OAuthInvariant, OAuthShape, WireShape
      <4>3. LaneFacts(c)' BY <1>0, <1>1, <2>2, <2>3, <2>4, <2>5, <3>2, <4>1, <4>2 DEF LaneFacts, Of
      <4>4. OneLane' BY <1>1, <4>2 DEF OneLane
      <4> QED BY <3>2, <4>3, <4>4
    <3> QED BY <1>4, <3>1, <3>2
  <2> QED BY <1>0, <1>1, <2>1, <2>3, <2>6, <2>7, WriteKeeps
<1> QED BY <1>0, <1>3, <1>4 DEF StartMark

(* A start runs the login: no helper of the attempt is, or was, at work.    *)
LEMMA StartRunKeeps ==
    ASSUME OAuthInvariant, NEW c \in Connections, StartRun(c), DesktopRests
    PROVE  OAuthInvariant'
<1>1. /\ process # "down" /\ inbox[c] # <<>> /\ at[c] = "marked" /\ Of(c) \in Attempts
      /\ LaneFacts(c) /\ OneLane /\ absentSeen \in Nat
      /\ UNCHANGED <<journal, host, kept, open, absentSeen>>
  BY ServingOf DEF StartRun
<1>0. PICK a \in Attempts : a = Of(c) BY <1>1
<1>2. HostShape /\ WireShape /\ HostInvariant /\ SessionFacts(a)
  BY DEF OAuthInvariant, OAuthShape, HostInvariant
<1>3. rec[a].phase = "login_dispatching" /\ run[a] = "idle" /\ logins[a] = 0
  BY <1>0, <1>1 DEF LaneFacts
<1>4. CASE Reply(c, NoAnswer) /\ UNCHANGED <<run, helper, logins>>
  BY <1>1, <1>4, ReplyKeeps DEF Tells, session
<1>5. CASE /\ Moves(a, "login") /\ helper' = [helper EXCEPT ![a] = "login"]
           /\ logins' = [logins EXCEPT ![a] = @ + 1]
           /\ Reply(c, Answer(rec[a], FALSE))
  <2>1. /\ run' \in [Attempts -> {"idle", "held", "login", "committing", "storing"}]
        /\ helper' \in [Attempts -> {"none", "login", "storage"}] /\ logins' \in [Attempts -> Nat]
        /\ run'[a] = "login" /\ helper'[a] = "login" /\ logins'[a] = 1
        /\ \A b \in Attempts : b # a => /\ run'[b] = run[b] /\ helper'[b] = helper[b]
                                        /\ logins'[b] = logins[b]
    BY <1>1, <1>2, <1>3, <1>5 DEF HostShape, Moves
  <2>2. HostShape' BY <1>1, <1>2, <2>1 DEF HostShape, journal, host
  <2>3. rec' = rec /\ kept' = kept /\ pages' = pages /\ refused' = refused
    BY <1>1 DEF journal, DesktopRests, seen, past
  <2>4. SessionFacts(a)'
    <3>1. a \notin kept /\ rec[a].why = "none"
      BY <1>1, <1>2, <1>3, RecordOf DEF SessionFacts, Stored, WhyOf, Terminal
    <3> QED BY <1>2, <1>3, <2>1, <2>3, <3>1 DEF SessionFacts, SignedIn, Stored
  <2>5. \A b \in Attempts : SessionFacts(b)'
    <3> TAKE b \in Attempts
    <3>1. CASE b = a BY <2>4, <3>1
    <3>2. CASE b # a BY <1>2, <2>1, <2>3, <3>2, SessionFrame DEF HostInvariant
    <3> QED BY <3>1, <3>2
  <2>6. OneBarrier' /\ \A b \in Attempts : Grows(b)
    BY <1>2, <2>3 DEF HostInvariant, OneBarrier, Grows
  <2>7. ASSUME NEW d \in Connections, d # c, at[d] = "marked" PROVE FALSE
    BY <1>1, <2>7 DEF OneLane
  <2>8. Tells(c, Answer(rec[a], FALSE))
    <3>1. rec'[a] # NoRecord BY <1>3, <2>3, NoRecordFields
    <3> QED BY <1>0, <2>3, <3>1 DEF Tells
  <2>9. process' # "down" BY <1>1 DEF host
  <2>10. \E body : Reply(c, body) /\ Tells(c, body) BY <1>5, <2>8
  <2>11. \A b \in Attempts : rec[b] # NoRecord => rec'[b] # NoRecord BY <2>3
  <2>12. /\ absentSeen' \in Nat /\ absentSeen <= absentSeen' /\ UNCHANGED open
         /\ \A d \in Connections : d # c /\ at[d] = "marked" =>
              /\ rec'[Of(d)] = rec[Of(d)] /\ run'[Of(d)] = run[Of(d)] /\ logins'[Of(d)] = logins[Of(d)]
    BY <1>1, <2>7
  <2> QED BY <1>1, <2>2, <2>3, <2>5, <2>6, <2>9, <2>10, <2>11, <2>12, RequestKeeps
<1> QED BY <1>0, <1>1, <1>4, <1>5 DEF StartRun

(* A read that finds no record entitles its connection to no older start:   *)
(* an absence is told only after the starts that came before it on the      *)
(* connection, and from then on to no start of an older one.                *)
LEMMA StatusKeeps ==
    ASSUME OAuthInvariant, NEW c \in Connections, Status(c), DesktopRests
    PROVE  OAuthInvariant'
<1>1. /\ process # "down" /\ inbox[c] # <<>> /\ at[c] = "idle" /\ inbox[c][1].kind = "status"
      /\ Of(c) \in Attempts /\ Waited(c, inbox[c][1]) /\ Orderly(inbox[c])
      /\ 1 \in 1..Len(inbox[c]) /\ inbox[c] \in Seq(Requests) /\ absentSeen \in Nat
  BY ServingOf DEF Status
<1>2. UNCHANGED <<journal, host, session, open>> /\ LaneFree
      /\ absentSeen' = IF Serves /\ rec[Of(c)] = NoRecord /\ c \in open /\ c > absentSeen
                       THEN c ELSE absentSeen
  BY DEF Status
<1>3. c \in Nat BY OAuthAssumption DEF Connections
<1>4. absentSeen' \in Nat /\ absentSeen <= absentSeen' BY <1>1, <1>2, <1>3
<1>5. CASE Reply(c, NoAnswer)
  BY <1>1, <1>2, <1>4, <1>5, ReplyKeeps DEF Tells
<1>6. CASE Serves /\ Reply(c, Answer(rec[Of(c)], PageShown(Of(c))))
  <2>1. rec' = rec BY <1>2 DEF journal
  <2>2. PageShown(Of(c)) \in BOOLEAN
        /\ (PageShown(Of(c)) => rec[Of(c)].phase \in
                     {"login_dispatching", "credentials_ready", "persistence_dispatching"})
    BY DEF PageShown
  <2>3. PICK a \in Attempts : a = Of(c) BY <1>1
  <2>4. ASSUME rec[a] = NoRecord PROVE NeverBegins(a)'
    <3>1. /\ HostShape /\ WireShape /\ DesktopShape /\ \A d \in Connections : RequestFacts(d) /\ LaneFacts(d)
          /\ OperationFacts(a)
      BY DEF OAuthInvariant, OAuthShape, RequestInvariant, HostInvariant, DesktopInvariant, DesktopFacts
    <3>2. c = link /\ c \in open /\ op[a].pc \in Awaits BY <1>1, <2>3 DEF Waited, Of
    <3>3. absentSeen' >= c BY <1>1, <1>2, <1>3, <1>6, <2>3, <2>4, <3>2
    <3>4. c = next - 1 /\ next \in Nat BY <1>3, <3>1, <3>2 DEF DesktopShape, Connections
    <3>5. inbox' = [inbox EXCEPT ![c] = Tail(inbox[c])] BY <1>6 DEF Reply
    <3>6. \A d \in Connections : d # c => inbox'[d] = inbox[d] BY <3>1, <3>5 DEF WireShape
    <3>7. inbox'[c] = Tail(inbox[c]) BY <3>1, <3>5 DEF WireShape
    <3>8. ASSUME NEW d \in Connections, StartOn(d, a)' PROVE d < absentSeen'
      <4>0. d \in Nat BY OAuthAssumption DEF Connections
      <4>1. CASE d = c
        <5>1. PICK i \in 1..Len(Tail(inbox[c])) :
                 Tail(inbox[c])[i].kind = "start" /\ Tail(inbox[c])[i].a = a
          BY <3>7, <3>8, <4>1 DEF StartOn
        <5>2. Tail(inbox[c])[i] = inbox[c][i + 1] /\ i + 1 \in 1..Len(inbox[c]) /\ 1 < i + 1
          BY <1>1, ThinsTail
        <5> QED BY <1>1, <2>3, <5>1, <5>2 DEF Orderly, Of
      <4>2. CASE d # c
        <5>1. PICK i \in 1..Len(inbox[d]) : inbox[d][i].kind = "start" /\ inbox[d][i].a = a
          BY <3>6, <3>8, <4>2 DEF StartOn
        <5>2. d < next BY <3>1, <5>1 DEF RequestFacts, Dispatched
        <5> QED BY <1>1, <1>3, <1>4, <3>3, <3>4, <4>0, <4>2, <5>2
      <4> QED BY <4>1, <4>2
    <3>9. led[a] # NoEntry /\ op[a].pc \notin {"prepared", "marked"}
      BY <3>1, <3>2 DEF OperationFacts, Awaits
    <3> QED BY <2>1, <2>4, <3>8, <3>9 DEF NeverBegins, DesktopRests
  <2>5. Tells(c, Answer(rec[Of(c)], PageShown(Of(c))))
    <3>1. \A b \in Attempts : b = Of(c) /\ rec[b] = NoRecord => NeverBegins(b)' BY <2>3, <2>4
    <3> QED BY <1>1, <2>1, <2>2, <3>1 DEF Tells
  <2> QED BY <1>1, <1>2, <1>4, <1>6, <2>5, ReplyKeeps
<1> QED BY <1>5, <1>6 DEF Status

(* A cancellation, with a session or without.                               *)
LEMMA CancelKeeps ==
    ASSUME OAuthInvariant, NEW c \in Connections, Cancel(c), DesktopRests
    PROVE  OAuthInvariant'
<1>1. /\ process # "down" /\ inbox[c] # <<>> /\ at[c] = "idle" /\ inbox[c][1].kind = "cancel"
      /\ Of(c) \in Attempts /\ OneLane /\ absentSeen \in Nat
      /\ UNCHANGED <<host, session, open, absentSeen>>
  BY ServingOf DEF Cancel
<1>0. PICK a \in Attempts : a = Of(c) BY <1>1
<1>2. /\ Sound(rec[a]) /\ SessionFacts(a) /\ HostShape /\ NeverRefused /\ WireShape
  BY RecordOf DEF OAuthInvariant, OAuthShape
<1>3. run' = run /\ helper' = helper /\ logins' = logins /\ kept' = kept /\ pages' = pages
  BY <1>1 DEF session, DesktopRests, seen, past
<1>4. CASE Reply(c, NoAnswer) /\ UNCHANGED journal
  BY <1>1, <1>4, ReplyKeeps DEF Tells
<1>5. CASE rec[a].phase \in Terminal /\ Reply(c, Answer(rec[a], FALSE)) /\ UNCHANGED journal
  <2>1. rec' = rec /\ rec[a] # NoRecord BY <1>5, NoRecordFields DEF journal, Terminal
  <2>2. Tells(c, Answer(rec[a], FALSE)) BY <1>0, <2>1 DEF Tells
  <2>3. PICK body : Reply(c, body) /\ Tells(c, body) BY <1>5, <2>2
  <2>4. UNCHANGED <<journal, host, session, open>> /\ absentSeen' \in Nat /\ absentSeen <= absentSeen'
    BY <1>1, <1>5
  <2> QED BY <1>1, <2>3, <2>4, ReplyKeeps
<1>6. CASE rec[a] # NoRecord /\ run[a] # "idle" /\ CancelSession(a, "user") /\ Reaches(c, "waiting")
  <2>1. "user" \in Intents BY DEF Intents
  <2>2. /\ rec' \in [Attempts -> RecordShape] /\ \A b \in Attempts : Sound(rec'[b])
        /\ \A b \in Attempts : b # a => rec'[b] = rec[b]
        /\ sick' \in BOOLEAN /\ refused' = refused
        /\ \A b \in Attempts : Grows(b)
        /\ SessionFacts(a)'
    BY <1>1, <1>3, <1>6, <2>1, CancelSessionWrites
  <2>3. at' = [at EXCEPT ![c] = "waiting"] /\ inbox' = inbox BY <1>6 DEF Reaches
  <2>4. at'[c] = "waiting" /\ \A d \in Connections : d # c => at'[d] = at[d]
    BY <1>2, <2>3 DEF WireShape
  <2>5. LaneFacts(c)' BY <1>1, <2>3, <2>4 DEF LaneFacts
  <2>6. OneLane' BY <1>1, <2>4 DEF OneLane
  <2> QED BY <1>0, <1>1, <1>6, <2>2, <2>5, <2>6, WriteKeeps
<1>7. CASE /\ rec[a].phase = "prepared" /\ run[a] = "idle"
           /\ LET settled == Settled(rec[a], "user_cancelled") IN
              \/ Write(a, settled) /\ Reply(c, Answer(settled, FALSE))
              \/ WriteFails(a, settled) /\ Reply(c, NoAnswer)
  <2> DEFINE r == Settled(rec[a], "user_cancelled")
  <2>1. Moved(rec[a], r) /\ rec[a] # NoRecord
    BY <1>2, <1>7, PreparedMoves, NoRecordFields
  <2>2. r.phase = "cancelled" /\ r.why = "user_cancelled"
    BY <1>2, SettledSays DEF Whys, PhaseOf
  <2>3. (Write(a, r) /\ Reply(c, Answer(r, FALSE))) \/ (WriteFails(a, r) /\ Reply(c, NoAnswer))
    BY <1>7
  <2> HIDE DEF r
  <2>4. /\ rec' \in [Attempts -> RecordShape] /\ \A b \in Attempts : Sound(rec'[b])
        /\ \A b \in Attempts : b # a => rec'[b] = rec[b]
        /\ rec'[a] = r \/ rec'[a] = rec[a]
        /\ Write(a, r) => rec'[a] = r
        /\ sick' \in BOOLEAN /\ refused' = refused
        /\ \A b \in Attempts : Grows(b)
    BY <1>2, <2>1, <2>3, JournalWrite
  <2>5. helper[a] = "none" /\ a \notin kept
    <3>1. rec[a].why = "none" BY <1>7, RecordOf DEF WhyOf, Terminal
    <3> QED BY <1>2, <1>7, <3>1 DEF SessionFacts, Stored
  <2>6. SessionFacts(a)'
    BY <1>2, <1>3, <1>7, <2>2, <2>4, <2>5 DEF SessionFacts, SignedIn, Stored
  <2>7. \E body : Reply(c, body) /\ Tells(c, body)
    <3>1. CASE WriteFails(a, r) /\ Reply(c, NoAnswer) BY <3>1 DEF Tells
    <3>2. CASE Write(a, r) /\ Reply(c, Answer(r, FALSE))
      <4>1. rec'[Of(c)] = r /\ r # NoRecord BY <1>0, <2>2, <2>4, <3>2, NoRecordFields
      <4> QED BY <3>2, <4>1 DEF Tells
    <3> QED BY <2>3, <3>1, <3>2
  <2>8. rec[a].phase # "login_dispatching" BY <1>7
  <2> QED BY <1>0, <1>1, <2>4, <2>6, <2>7, <2>8, WriteKeeps
<1> QED BY <1>0, <1>4, <1>5, <1>6, <1>7 DEF Cancel

(* A cancellation that has waited for its run.                              *)
LEMMA CancelReturnsKeeps ==
    ASSUME OAuthInvariant, NEW c \in Connections, CancelReturns(c), DesktopRests
    PROVE  OAuthInvariant'
<1>1. /\ process # "down" /\ inbox[c] # <<>> /\ Of(c) \in Attempts /\ absentSeen \in Nat
      /\ UNCHANGED <<journal, host, session, open, absentSeen>>
  BY ServingOf DEF CancelReturns
<1>2. PICK body : Reply(c, body)
          /\ (body = NoAnswer \/ (rec[Of(c)].phase \in Terminal /\ body = Answer(rec[Of(c)], FALSE)))
  BY DEF CancelReturns
<1>3. rec' = rec /\ (rec[Of(c)].phase \in Terminal => rec[Of(c)] # NoRecord)
  BY <1>1, NoRecordFields DEF journal, Terminal
<1>4. Tells(c, body) BY <1>2, <1>3 DEF Tells
<1> QED BY <1>1, <1>2, <1>4, ReplyKeeps

(* An acknowledgement, made or repeated.                                    *)
LEMMA AcknowledgeKeeps ==
    ASSUME OAuthInvariant, NEW c \in Connections, Acknowledge(c), DesktopRests
    PROVE  OAuthInvariant'
<1>1. /\ process # "down" /\ inbox[c] # <<>> /\ Of(c) \in Attempts /\ absentSeen \in Nat
      /\ UNCHANGED <<host, session, open, absentSeen>>
  BY ServingOf DEF Acknowledge
<1>0. PICK a \in Attempts : a = Of(c) BY <1>1
<1>2. /\ Sound(rec[a]) /\ rec[a] \in RecordShape /\ SessionFacts(a) /\ HostShape /\ NeverRefused
  BY RecordOf
<1>3. run' = run /\ helper' = helper /\ logins' = logins /\ kept' = kept /\ pages' = pages
  BY <1>1 DEF session, DesktopRests, seen, past
<1>4. CASE Reply(c, NoAnswer) /\ UNCHANGED journal
  BY <1>1, <1>4, ReplyKeeps DEF Tells
<1>5. CASE rec[a].acked /\ Reply(c, Answer(rec[a], FALSE)) /\ UNCHANGED journal
  <2>1. rec' = rec /\ rec[a] # NoRecord BY <1>5, NoRecordFields DEF journal
  <2>2. Tells(c, Answer(rec[a], FALSE)) BY <1>0, <2>1 DEF Tells
  <2>3. PICK body : Reply(c, body) /\ Tells(c, body) BY <1>5, <2>2
  <2>4. UNCHANGED <<journal, host, session, open>> /\ absentSeen' \in Nat /\ absentSeen <= absentSeen'
    BY <1>1, <1>5
  <2> QED BY <1>1, <2>3, <2>4, ReplyKeeps
<1>6. CASE /\ rec[a].phase \in Terminal /\ ~rec[a].acked
           /\ LET r == Acknowledged(rec[a]) IN
              \/ Write(a, r) /\ Reply(c, Answer(r, FALSE))
              \/ WriteFails(a, r) /\ Reply(c, NoAnswer)
  <2> DEFINE r == Acknowledged(rec[a])
  <2>1. Moved(rec[a], r) /\ rec[a] # NoRecord
    BY <1>2, <1>6, TerminalMoves, NoRecordFields DEF Terminal
  <2>2. r.phase = rec[a].phase /\ r.why = rec[a].why
    BY <1>2, AcknowledgedFields
  <2>3. (Write(a, r) /\ Reply(c, Answer(r, FALSE))) \/ (WriteFails(a, r) /\ Reply(c, NoAnswer))
    BY <1>6
  <2> HIDE DEF r
  <2>4. /\ rec' \in [Attempts -> RecordShape] /\ \A b \in Attempts : Sound(rec'[b])
        /\ \A b \in Attempts : b # a => rec'[b] = rec[b]
        /\ rec'[a] = r \/ rec'[a] = rec[a]
        /\ Write(a, r) => rec'[a] = r
        /\ sick' \in BOOLEAN /\ refused' = refused
        /\ \A b \in Attempts : Grows(b)
    BY <1>2, <2>1, <2>3, JournalWrite
  <2>6. SessionFacts(a)'
    BY <1>2, <1>3, <2>2, <2>4 DEF SessionFacts, SignedIn, Stored
  <2>7. \E body : Reply(c, body) /\ Tells(c, body)
    <3>1. CASE WriteFails(a, r) /\ Reply(c, NoAnswer) BY <3>1 DEF Tells
    <3>2. CASE Write(a, r) /\ Reply(c, Answer(r, FALSE))
      <4>1. rec'[Of(c)] = r /\ r # NoRecord
        BY <1>0, <1>6, <2>2, <2>4, <3>2, NoRecordFields DEF Terminal
      <4> QED BY <3>2, <4>1 DEF Tells
    <3> QED BY <2>3, <3>1, <3>2
  <2>8. rec[a].phase # "login_dispatching" BY <1>6 DEF Terminal
  <2> QED BY <1>0, <1>1, <2>4, <2>6, <2>7, <2>8, WriteKeeps
<1> QED BY <1>0, <1>4, <1>5, <1>6 DEF Acknowledge

(* Only a start of an entitled connection brings a record about.            *)
LEMMA StartPrepareKeeps ==
    ASSUME OAuthInvariant, NEW c \in Connections, StartPrepare(c), DesktopRests
    PROVE  OAuthInvariant'
<1>1. /\ process # "down" /\ inbox[c] # <<>> /\ at[c] = "idle" /\ inbox[c][1].kind = "start"
      /\ Of(c) \in Attempts /\ Dispatched(c, 1) /\ OneLane /\ absentSeen \in Nat
      /\ LaneFree /\ UNCHANGED <<host, session, open, absentSeen>>
      /\ 1 \in 1..Len(inbox[c])
  BY ServingOf DEF StartPrepare
<1>0. PICK a \in Attempts : a = Of(c) BY <1>1
<1>2. /\ Sound(rec[a]) /\ SessionFacts(a) /\ HostShape /\ NeverRefused /\ WireShape /\ HostInvariant
      /\ DesktopShape
  BY RecordOf DEF OAuthInvariant, OAuthShape
<1>3. run' = run /\ helper' = helper /\ logins' = logins /\ kept' = kept /\ pages' = pages
  BY <1>1 DEF session, DesktopRests, seen, past
<1>4. CASE Reply(c, NoAnswer) /\ UNCHANGED journal
  BY <1>1, <1>4, ReplyKeeps DEF Tells
<1>5. CASE /\ MayPrepare(c, a)
           /\ \/ Write(a, Prepared) /\ Reaches(c, "prepared")
              \/ WriteFails(a, Prepared) /\ Reply(c, NoAnswer)
  <2>1. /\ rec[a] = NoRecord /\ Accepts(rec[a], Prepared) /\ Sound(Prepared)
        /\ \A b \in Attempts : ~Barrier(rec[b])
        /\ c \in open /\ c >= absentSeen
    BY <1>5, PrepareMoves DEF MayPrepare, Entitled, Moved
  <2>2. Prepared \in RecordShape BY NoRecordFields
  <2>3. rec' = rec \/ rec' = [rec EXCEPT ![a] = Prepared]
    BY <1>5, <2>1 DEF Write, WriteFails
  <2>4. sick' \in BOOLEAN /\ refused' = refused
    BY <1>2, <1>5, <2>1 DEF Write, WriteFails, HostShape
  <2>5. /\ rec' \in [Attempts -> RecordShape] /\ \A b \in Attempts : Sound(rec'[b])
        /\ \A b \in Attempts : b # a => rec'[b] = rec[b]
        /\ rec'[a] = NoRecord \/ rec'[a] = Prepared
        /\ Write(a, Prepared) => rec'[a] = Prepared
    <3>1. rec' \in [Attempts -> RecordShape] BY <1>2, <2>2, <2>3 DEF HostShape
    <3>2. /\ \A b \in Attempts : b # a => rec'[b] = rec[b]
          /\ rec'[a] = NoRecord \/ rec'[a] = Prepared
          /\ Write(a, Prepared) => rec'[a] = Prepared
      BY <1>2, <2>1, <2>3 DEF HostShape, Write
    <3> QED BY <1>2, <2>1, <3>1, <3>2 DEF HostShape
  <2>6. HostShape' BY <1>1, <1>2, <2>4, <2>5 DEF HostShape, session, host
  <2>7. SessionFacts(a)'
    <3>1. run[a] = "idle" /\ helper[a] = "none" /\ logins[a] = 0 /\ a \notin kept
      BY <1>2, <2>1, NoRecordFields DEF SessionFacts, Stored
    <3>2. rec'[a].phase \in {"none", "prepared"} /\ rec'[a].why = "none"
      BY <2>5, NoRecordFields
    <3> QED BY <1>3, <3>1, <3>2 DEF SessionFacts, SignedIn, Stored
  <2>8. \A b \in Attempts : SessionFacts(b)'
    <3> TAKE b \in Attempts
    <3>1. CASE b = a BY <2>7, <3>1
    <3>2. CASE b # a BY <1>2, <1>3, <2>5, <3>2, SessionFrame DEF HostInvariant
    <3> QED BY <3>1, <3>2
  <2>9. OneBarrier' BY <2>1, <2>5, NoRecordFields DEF OneBarrier
  <2>10. \A b \in Attempts : rec[b] # NoRecord => rec'[b] # NoRecord
    BY <2>1, <2>5
  <2>11. \A d \in Connections : at[d] \notin {"prepared", "marked"}
    BY <1>1 DEF LaneFree
  <2>12. \/ \E body : Reply(c, body) /\ Tells(c, body)
         \/ \E stage \in {"prepared", "marked", "waiting"} :
                 Reaches(c, stage) /\ LaneFacts(c)' /\ OneLane'
    <3>1. CASE Reply(c, NoAnswer) BY <3>1 DEF Tells
    <3>2. CASE Write(a, Prepared) /\ Reaches(c, "prepared")
      <4>1. at' = [at EXCEPT ![c] = "prepared"] /\ inbox' = inbox BY <3>2 DEF Reaches
      <4>2. at'[c] = "prepared" /\ \A d \in Connections : d # c => at'[d] = at[d]
        BY <1>2, <4>1 DEF WireShape
      <4>3. rec'[a] # NoRecord BY <2>5, <3>2, NoRecordFields
      <4>4. LaneFacts(c)' BY <1>0, <1>1, <4>1, <4>2, <4>3 DEF LaneFacts, Of
      <4>5. OneLane' BY <2>11, <4>2 DEF OneLane
      <4> QED BY <3>2, <4>4, <4>5
    <3> QED BY <1>5, <3>1, <3>2
  <2>13. ASSUME NEW b \in Attempts PROVE Grows(b) \/ DesktopFacts(b)'
    <3>1. CASE b # a \/ rec'[a] = rec[a] BY <2>5, <3>1 DEF Grows
    <3>2. CASE b = a /\ rec'[a] = Prepared
      <4>1. DesktopFacts(a) BY DEF OAuthInvariant, DesktopInvariant
      <4>2. /\ led' = led /\ op' = op /\ pages' = pages
            /\ eligible' = eligible /\ born' = born /\ told' = told /\ link' = link /\ next' = next
        BY DEF DesktopRests, desktop, seen, past
      <4>3. led[a].phase \notin {"none", "prepared"} /\ op[a].pc \notin {"prepared", "marked"}
        BY <1>0, <1>1 DEF Dispatched, Of
      <4>4. ~NeverBegins(a)
        <5>1. StartOn(c, a) BY <1>0, <1>1 DEF StartOn, Of
        <5>2. c \in Nat BY OAuthAssumption DEF Connections
        <5> QED BY <1>1, <2>1, <5>1, <5>2 DEF NeverBegins
      <4>5. led[a].hostPhase = "none" /\ ~led[a].acked /\ Follows(led[a], rec'[a])
        <5>1. led[a].hostPhase = "none" BY <2>1, <4>1 DEF DesktopFacts, Follows
        <5>2. SoundEntry(led[a]) BY <1>2 DEF DesktopShape
        <5> QED BY <5>1, <5>2 DEF Follows, SoundEntry
      <4>6. ~answer[a].ok
        <5>1. SUFFICES ASSUME answer[a].ok PROVE FALSE OBVIOUS
        <5>2. answer[a].rec = NoRecord
          BY <2>1, <4>1, <5>1 DEF DesktopFacts, AnswerFacts, Became
        <5> QED BY <4>1, <4>4, <5>1, <5>2 DEF DesktopFacts, AbsenceFacts
      <4>7. OperationFacts(a)' /\ PageFacts(a)'
        BY <4>1, <4>2 DEF DesktopFacts, OperationFacts, PageFacts
      <4>10. ~answer'[a].ok
        <5>1. answer'[a] = NoAnswer \/ answer'[a] = answer[a]
          BY <1>0, <1>2, <1>5 DEF Reply, Reaches, WireShape
        <5> QED BY <4>6, <5>1 DEF NoAnswer
      <4>8. AnswerFacts(a)' BY <4>10 DEF AnswerFacts
      <4>9. AbsenceFacts(a)' BY <4>1, <4>2, <4>4, <4>10 DEF DesktopFacts, AbsenceFacts
      <4> QED BY <3>2, <4>2, <4>3, <4>5, <4>7, <4>8, <4>9 DEF DesktopFacts
    <3> QED BY <2>1, <2>5, <3>1, <3>2
  <2>14. absentSeen' \in Nat /\ absentSeen <= absentSeen' /\ process' # "down" /\ UNCHANGED open
    BY <1>1 DEF host
  <2> QED BY <1>1, <2>4, <2>6, <2>8, <2>9, <2>10, <2>11, <2>12, <2>13, <2>14, RequestKeeps
<1> QED BY <1>0, <1>4, <1>5 DEF StartPrepare

-----------------------------------------------------------------------------
(* The end of a connection's input, of the process, and its restart.        *)

(* What is left of a queue whose input has ended: no start that was not     *)
(* entered.                                                                 *)
LEMMA InputEndsQueue ==
    ASSUME WireShape, NEW c \in Connections, LaneFacts(c), InputEnds(c)
    PROVE  /\ inbox' \in [Connections -> Seq(Requests)]
           /\ \A d \in Connections : d # c => inbox'[d] = inbox[d]
           /\ Thins(inbox'[c], inbox[c])
           /\ \A i \in 1..Len(inbox'[c]) : inbox'[c][i].kind = "start" => i = 1 /\ at[c] # "idle"
           /\ at[c] # "idle" => inbox'[c] # <<>> /\ inbox'[c][1] = inbox[c][1]
<1> DEFINE these == {q \in Requests : q.kind \in {"cancel", "ack"}}
           queued == IF at[c] = "idle" THEN inbox[c] ELSE Tail(inbox[c])
<1>1. inbox \in [Connections -> Seq(Requests)] /\ inbox[c] \in Seq(Requests) BY DEF WireShape
<1>2. at[c] # "idle" => inbox[c] # <<>> BY DEF LaneFacts
<1>3. queued \in Seq(Requests) BY <1>1, <1>2, ThinsTail
<1>4. /\ Remaining(queued, these) \in Seq(Requests) /\ Thins(Remaining(queued, these), queued)
      /\ \A i \in 1..Len(Remaining(queued, these)) : Remaining(queued, these)[i] \in these
  <2> HIDE DEF queued, these
  <2> QED BY <1>3, RemainingThins
<1>5. PICK rest : /\ rest \in {<<>>, Remaining(queued, these)}
                  /\ inbox' = [inbox EXCEPT ![c] =
                        (IF at[c] = "idle" THEN <<>> ELSE SubSeq(inbox[c], 1, 1)) \o rest]
  BY DEF InputEnds
<1> HIDE DEF queued, these
<1>6. /\ rest \in Seq(Requests) /\ Thins(rest, queued)
      /\ \A i \in 1..Len(rest) : rest[i] \in these
  <2>1. <<>> \in Seq(Requests) /\ Len(<<>>) = 0 /\ \A i \in 1..0 : FALSE OBVIOUS
  <2> QED BY <1>3, <1>4, <1>5, <2>1, ThinsNone
<1>7. \A q \in these : q.kind # "start" BY DEF these
<1>8. CASE at[c] = "idle"
  <2>1. <<>> \o rest = rest BY <1>6
  <2>2. inbox' = [inbox EXCEPT ![c] = rest] BY <1>5, <1>8, <2>1
  <2>3. inbox'[c] = rest /\ inbox' \in [Connections -> Seq(Requests)]
        /\ \A d \in Connections : d # c => inbox'[d] = inbox[d]
    BY <1>1, <1>6, <2>2
  <2> QED BY <1>6, <1>7, <1>8, <2>3 DEF queued
<1>9. CASE at[c] # "idle"
  <2> DEFINE s == SubSeq(inbox[c], 1, 1) \o rest
  <2>1. Thins(rest, Tail(inbox[c])) BY <1>6, <1>9 DEF queued
  <2>2. /\ s \in Seq(Requests) /\ Thins(s, inbox[c]) /\ s # <<>> /\ s[1] = inbox[c][1]
        /\ Len(s) = Len(rest) + 1 /\ \A i \in 1..Len(rest) : s[i + 1] = rest[i]
    BY <1>1, <1>2, <1>6, <1>9, <2>1, ThinsHead
  <2>3. inbox' = [inbox EXCEPT ![c] = s] BY <1>5, <1>9
  <2> HIDE DEF s
  <2>4. inbox'[c] = s /\ inbox' \in [Connections -> Seq(Requests)]
        /\ \A d \in Connections : d # c => inbox'[d] = inbox[d]
    BY <1>1, <2>2, <2>3
  <2>5. ASSUME NEW i \in 1..Len(s), i # 1 PROVE s[i].kind # "start"
    <3>1. i - 1 \in 1..Len(rest) /\ (i - 1) + 1 = i BY <1>6, <2>2, <2>5
    <3>2. s[i] = rest[i - 1] BY <2>2, <3>1
    <3> QED BY <1>6, <1>7, <3>1, <3>2
  <2> QED BY <1>9, <2>2, <2>4, <2>5
<1> QED BY <1>8, <1>9

(* The input of a connection the desktop has left ends.                     *)
LEMMA InputEndsKeeps ==
    ASSUME OAuthInvariant, NEW c \in Connections, c # link, InputEnds(c), DesktopRests
    PROVE  OAuthInvariant'
<1> USE DEF DesktopRests, desktop, seen, past
<1>1. HostShape /\ WireShape /\ DesktopShape /\ HostInvariant /\ RequestInvariant /\ DesktopInvariant
      /\ NeverRefused
  BY DEF OAuthInvariant, OAuthShape
<1>2. c \in open /\ open' = open \ {c} /\ UNCHANGED <<journal, host, session, at, absentSeen, answer>>
  BY DEF InputEnds
<1>3. /\ inbox' \in [Connections -> Seq(Requests)]
      /\ \A d \in Connections : d # c => inbox'[d] = inbox[d]
      /\ Thins(inbox'[c], inbox[c])
      /\ \A i \in 1..Len(inbox'[c]) : inbox'[c][i].kind = "start" => i = 1 /\ at[c] # "idle"
      /\ at[c] # "idle" => inbox'[c] # <<>> /\ inbox'[c][1] = inbox[c][1]
  BY <1>1, InputEndsQueue DEF HostInvariant
<1>4. HostShape' /\ WireShape' /\ DesktopShape' /\ NeverRefused'
  BY <1>1, <1>2, <1>3 DEF HostShape, WireShape, DesktopShape, NeverRefused, journal, host, session
<1>5. /\ Orderly(inbox'[c])
      /\ \A i \in 1..Len(inbox'[c]) : \E j \in 1..Len(inbox[c]) :
            /\ inbox'[c][i].kind = inbox[c][j].kind /\ inbox'[c][i].a = inbox[c][j].a
            /\ inbox'[c][i].live => inbox[c][j].live
            /\ j = 1 => i = 1
  <2>1. inbox'[c] \in Seq(Requests) /\ inbox[c] \in Seq(Requests) /\ Orderly(inbox[c])
    BY <1>1, <1>3 DEF WireShape, RequestInvariant, RequestFacts
  <2>2. PICK t, q : t = inbox'[c] /\ q = inbox[c] OBVIOUS
  <2>3. t \in Seq(Requests) /\ q \in Seq(Requests) /\ Orderly(q) /\ Thins(t, q)
    BY <1>3, <2>1, <2>2
  <2>4. /\ Orderly(t)
        /\ \A i \in 1..Len(t) : \E j \in 1..Len(q) :
              /\ t[i].kind = q[j].kind /\ t[i].a = q[j].a /\ (t[i].live => q[j].live)
              /\ j = 1 => i = 1
    BY <2>3, ThinsOrderly
  <2> QED BY <2>2, <2>4
<1>6. \A i \in 1..Len(inbox[c]) : ~inbox[c][i].live /\ inbox[c][i].kind # "status"
  BY <1>1 DEF RequestInvariant, RequestFacts, Waited
<1>7. ASSUME NEW d \in Connections PROVE RequestFacts(d)'
  <2>1. RequestFacts(d) BY <1>1 DEF RequestInvariant
  <2>2. CASE d # c
    <3>1. d \in open' <=> d \in open BY <1>2, <2>2
    <3>2. inbox'[d] = inbox[d] BY <1>3, <2>2
    <3> QED BY <1>2, <2>1, <3>1, <3>2 DEF RequestFacts, Waited, Dispatched
  <2>3. CASE d = c
    <3>1. ASSUME NEW i \in 1..Len(inbox'[c]) PROVE Waited(c, inbox[c][i])' /\ Dispatched(c, i)'
      <4>1. PICK j \in 1..Len(inbox[c]) :
            /\ inbox'[c][i].kind = inbox[c][j].kind /\ inbox'[c][i].a = inbox[c][j].a
            /\ inbox'[c][i].live => inbox[c][j].live
        BY <1>5
      <4>2. ~inbox'[c][i].live /\ inbox'[c][i].kind # "status" BY <1>6, <4>1
      <4>3. Dispatched(c, j) BY <2>1, <2>3 DEF RequestFacts
      <4>4. Waited(c, inbox[c][i])' BY <4>2 DEF Waited
      <4>5. Dispatched(c, i)' BY <1>2, <1>3, <4>1, <4>3 DEF Dispatched
      <4> QED BY <4>4, <4>5
    <3> QED BY <1>5, <2>3, <3>1 DEF RequestFacts
  <2> QED BY <2>2, <2>3
<1>8. \A d \in Connections, a \in Attempts : StartOn(d, a)' => StartOn(d, a)
  <2> TAKE d \in Connections, a \in Attempts
  <2>1. CASE d # c BY <1>3, <2>1 DEF StartOn
  <2>2. CASE d = c BY <1>5, <2>2 DEF StartOn
  <2> QED BY <2>1, <2>2
<1>9. \A a \in Attempts : SessionFacts(a)'
  BY <1>1, <1>2, SessionFrame DEF HostInvariant, journal, session
<1>10. \A d \in Connections : LaneFacts(d)'
  <2> TAKE d \in Connections
  <2>1. LaneFacts(d) BY <1>1 DEF HostInvariant
  <2>2. CASE at[d] = "idle" BY <1>2, <2>2 DEF LaneFacts
  <2>3. CASE at[d] # "idle"
    <3>1. Of(d) \in Attempts BY <1>1, <2>1, <2>3, OfAttempt DEF LaneFacts
    <3>2. inbox'[d] # <<>> /\ inbox'[d][1] = inbox[d][1] BY <1>3, <2>1, <2>3 DEF LaneFacts
    <3>3. rec' = rec /\ run' = run /\ logins' = logins /\ at' = at BY <1>2 DEF journal, session
    <3>4. at[d] = "prepared" => rec'[Of(d)] # NoRecord BY <2>1, <3>3 DEF LaneFacts
    <3> QED BY <2>1, <3>1, <3>2, <3>3, <3>4, LaneFrame
  <2> QED BY <2>2, <2>3
<1>11. HostInvariant'
  <2>1. process # "down" BY <1>1, <1>2 DEF HostInvariant, StoppedFacts
  <2> QED BY <1>1, <1>2, <1>9, <1>10, <2>1
       DEF HostInvariant, OneBarrier, OneLane, StoppedFacts, journal, host
<1>12. DesktopInvariant'
  <2>1. SUFFICES ASSUME NEW b \in Attempts PROVE DesktopFacts(b)'
    BY DEF DesktopInvariant
  <2>2. DesktopFacts(b) BY <1>1 DEF DesktopInvariant
  <2>3. Heard(b) /\ Grows(b) BY <1>2 DEF Heard, Grows, journal
  <2>4. next <= next' /\ absentSeen <= absentSeen' BY <1>1, <1>2 DEF DesktopShape, WireShape
  <2> QED BY <1>1, <1>4, <1>8, <1>9, <2>2, <2>3, <2>4, DesktopFrame
<1> QED BY <1>4, <1>7, <1>11, <1>12 DEF OAuthInvariant, OAuthShape, RequestInvariant

(* The process ends: its helpers may go on, its records stay.               *)
LEMMA StopKeeps ==
    ASSUME OAuthInvariant, Stop, DesktopRests
    PROVE  OAuthInvariant'
<1> USE DEF DesktopRests, desktop, seen, past
<1>1. HostShape /\ WireShape /\ DesktopShape /\ HostInvariant /\ DesktopInvariant /\ NeverRefused
  BY DEF OAuthInvariant, OAuthShape
<1>2. /\ process' = "down" /\ run' = [a \in Attempts |-> "idle"] /\ open' = {}
      /\ inbox' = [c \in Connections |-> <<>>] /\ at' = [c \in Connections |-> "idle"]
      /\ absentSeen' = 0 /\ secure' = TRUE
      /\ UNCHANGED <<journal, helper, logins, kept, answer>>
  BY DEF Stop
<1>3. Len(<<>>) = 0 /\ \A i \in 1..0 : FALSE OBVIOUS
<1>4. HostShape' /\ WireShape' /\ DesktopShape' /\ NeverRefused'
  <2>1. inbox' \in [Connections -> Seq(Requests)] BY <1>2
  <2>2. WireShape' BY <1>1, <1>2, <2>1 DEF WireShape
  <2> QED BY <1>1, <1>2, <2>2 DEF HostShape, DesktopShape, NeverRefused, journal
<1>5. \A a \in Attempts : SessionFacts(a)'
  BY <1>1, <1>2 DEF HostInvariant, SessionFacts, SignedIn, journal
<1>6. HostInvariant'
  BY <1>1, <1>2, <1>5 DEF HostInvariant, OneBarrier, OneLane, LaneFacts, StoppedFacts, journal
<1>7. RequestInvariant'
  BY <1>2, <1>3 DEF RequestInvariant, RequestFacts, Orderly
<1>8. DesktopInvariant'
  <2>1. SUFFICES ASSUME NEW b \in Attempts PROVE DesktopFacts(b)'
    BY DEF DesktopInvariant
  <2>2. DesktopFacts(b) BY <1>1 DEF DesktopInvariant
  <2>3. Heard(b) /\ Grows(b) BY <1>2 DEF Heard, Grows, journal
  <2>4. next <= next' BY <1>1 DEF DesktopShape
  <2>5. \A c \in Connections : ~StartOn(c, b)' BY <1>2, <1>3 DEF StartOn
  <2> QED BY <1>1, <1>4, <1>5, <2>2, <2>3, <2>4, <2>5, DesktopFrame
<1> QED BY <1>4, <1>6, <1>7, <1>8 DEF OAuthInvariant, OAuthShape

(* What a restart makes of a record.                                        *)
LEMMA ClassifiedMoves ==
    ASSUME NEW r, Sound(r)
    PROVE  LET s == Classified(r) IN
           \/ s = r /\ ~ (r.phase \in {"prepared", "credentials_ready"} \cup DOMAIN RecoveryReason)
           \/ /\ r # NoRecord /\ Moved(r, s)
              /\ \/ r.phase = "prepared" /\ s.phase = "failed" /\ s.why = "interrupted_before_login_dispatch"
                 \/ r.phase = "credentials_ready" /\ s.phase = "failed" /\ s.why = "credentials_discarded"
                 \/ r.phase \in DOMAIN RecoveryReason /\ s.phase = "recovery_required"
                    /\ s.why = RecoveryReason[r.phase]
<1>1. r \in RecordShape BY DEF Sound
<1>2. CASE r.phase = "prepared"
  <2>1. Classified(r) = Settled(r, "interrupted_before_login_dispatch") BY <1>2 DEF Classified, RecoveryReason
  <2>2. Moved(r, Settled(r, "interrupted_before_login_dispatch")) BY <1>2, PreparedMoves
  <2>3. Settled(r, "interrupted_before_login_dispatch").phase = "failed"
        /\ Settled(r, "interrupted_before_login_dispatch").why = "interrupted_before_login_dispatch"
    BY SettledSays DEF Whys, FailedWhy, PhaseOf
  <2> QED BY <1>2, <2>1, <2>2, <2>3, NoRecordFields
<1>3. CASE r.phase = "credentials_ready"
  <2>1. Classified(r) = Settled(r, "credentials_discarded") BY <1>3 DEF Classified, RecoveryReason
  <2>2. Moved(r, Settled(r, "credentials_discarded")) BY <1>3, ReadyMoves
  <2>3. Settled(r, "credentials_discarded").phase = "failed"
        /\ Settled(r, "credentials_discarded").why = "credentials_discarded"
    BY SettledSays DEF Whys, FailedWhy, PhaseOf
  <2> QED BY <1>3, <2>1, <2>2, <2>3, NoRecordFields
<1>4. CASE r.phase \in DOMAIN RecoveryReason
  <2>0. DOMAIN RecoveryReason = {"login_dispatching", "persistence_dispatching", "cancelling"}
    BY DEF RecoveryReason
  <2>1. Classified(r) = Unconfirmed(r) BY <1>4, <2>0 DEF Classified
  <2>2. Moved(r, Unconfirmed(r)) BY <1>4, <2>0, LoginMoves, StoringMoves, CancellingMoves
  <2>3. Unconfirmed(r).phase = "recovery_required" /\ Unconfirmed(r).why = RecoveryReason[r.phase]
    BY <1>1, <1>4, UnconfirmedFields
  <2> QED BY <1>4, <2>0, <2>1, <2>2, <2>3, NoRecordFields
<1>5. CASE r.phase \notin {"prepared", "credentials_ready"} \cup DOMAIN RecoveryReason
  BY <1>5 DEF Classified
<1> QED BY <1>2, <1>3, <1>4, <1>5

(* The restart classifies every record; a write it would turn down there is *)
(* none.                                                                    *)
LEMMA RestartKeeps ==
    ASSUME OAuthInvariant, Restart, DesktopRests
    PROVE  OAuthInvariant'
<1> USE DEF DesktopRests, desktop, seen, past
<1>1. HostShape /\ WireShape /\ DesktopShape /\ HostInvariant /\ RequestInvariant /\ DesktopInvariant
      /\ NeverRefused
  BY DEF OAuthInvariant, OAuthShape
<1>2. /\ process = "down" /\ process' = "up" /\ sick' = FALSE
      /\ rec' = [a \in Attempts |-> Classified(rec[a])]
      /\ UNCHANGED <<secure, session, wire>>
  BY DEF Restart
<1>3. /\ \A a \in Attempts : run[a] = "idle"
      /\ \A c \in Connections : inbox[c] = <<>> /\ at[c] = "idle"
  BY <1>1, <1>2 DEF HostInvariant, StoppedFacts
<1>4. \A a \in Attempts : Grows(a)
  <2> TAKE a \in Attempts
  <2>1. rec'[a] = Classified(rec[a]) /\ Sound(rec[a]) BY <1>1, <1>2 DEF HostShape
  <2> QED BY <2>1, ClassifiedMoves DEF Grows
<1>5. \A a \in Attempts : Sound(rec'[a]) /\ rec'[a] \in RecordShape BY <1>1, <1>4, GrowsOn
<1>6. refused' = refused
  <2>1. Cardinality({a \in Attempts : Barrier(rec[a])}) <= 1
    <3> DEFINE B == {a \in Attempts : Barrier(rec[a])}
    <3>1. ASSUME B = {} PROVE Cardinality(B) = 0
      <4> HIDE DEF B
      <4> QED BY <3>1, FS_EmptySet
    <3>2. ASSUME B # {} PROVE Cardinality(B) = 1
      <4>1. PICK a : a \in B BY <3>2
      <4>2. B = {a} BY <1>1, <4>1 DEF HostInvariant, OneBarrier
      <4> HIDE DEF B
      <4> QED BY <4>2, FS_Singleton
    <3> HIDE DEF B
    <3>3. Cardinality(B) <= 1 BY <3>1, <3>2
    <3> QED BY <3>3 DEF B
  <2>2. ASSUME NEW a \in Attempts
        PROVE  rec[a] = NoRecord \/ ReachableRevision(Classified(rec[a]))
    <3>1. rec'[a] = Classified(rec[a]) BY <1>2
    <3>2. rec'[a] = NoRecord <=> rec[a] = NoRecord BY <1>1, <1>4, GrowsOn
    <3> QED BY <1>5, <3>1, <3>2 DEF Sound
  <2> QED BY <2>1, <2>2 DEF Restart
<1>7. HostShape' /\ WireShape' /\ DesktopShape' /\ NeverRefused'
  <2>1. rec' \in [Attempts -> RecordShape] BY <1>2, <1>5
  <2> QED BY <1>1, <1>2, <1>5, <1>6, <2>1 DEF HostShape, WireShape, DesktopShape, NeverRefused, session, wire
<1>8. \A a \in Attempts : SessionFacts(a)'
  <2> TAKE a \in Attempts
  <2>1. rec'[a] = Classified(rec[a]) /\ Sound(rec[a]) /\ SessionFacts(a) /\ run[a] = "idle"
        /\ rec[a].why \in WhyOf(rec[a].phase)
    BY <1>1, <1>2, <1>3, RecordOf
  <2>2. run' = run /\ helper' = helper /\ logins' = logins /\ kept' = kept /\ pages' = pages
    BY <1>2 DEF session
  <2>3. CASE rec'[a] = rec[a]
    BY <2>1, <2>2, <2>3, SessionFrame
  <2>4. CASE rec[a].phase = "prepared" /\ rec'[a].phase = "failed"
             /\ rec'[a].why = "interrupted_before_login_dispatch"
    <3>1. rec[a].why = "none" BY <2>1, <2>4 DEF WhyOf, Terminal
    <3> QED BY <2>1, <2>2, <2>4, <3>1 DEF SessionFacts, SignedIn, Stored
  <2>5. CASE rec[a].phase = "credentials_ready" /\ rec'[a].phase = "failed"
             /\ rec'[a].why = "credentials_discarded"
    <3>1. rec[a].why = "none" BY <2>1, <2>5 DEF WhyOf, Terminal
    <3> QED BY <2>1, <2>2, <2>5, <3>1 DEF SessionFacts, SignedIn, Stored
  <2>6. CASE rec[a].phase \in DOMAIN RecoveryReason /\ rec'[a].phase = "recovery_required"
             /\ rec'[a].why = RecoveryReason[rec[a].phase]
    <3>1. rec[a].why = "none" /\ rec[a].phase \in {"login_dispatching", "persistence_dispatching", "cancelling"}
      BY <2>1, <2>6 DEF WhyOf, Terminal, RecoveryReason
    <3>2. /\ rec[a].phase = "login_dispatching" => rec'[a].why = "login_helper"
          /\ rec[a].phase = "persistence_dispatching" => rec'[a].why = "storage_helper"
          /\ rec[a].phase = "cancelling" => rec'[a].why = "cancelling_helper"
      BY <2>6 DEF RecoveryReason
    <3> QED BY <2>1, <2>2, <2>6, <3>1, <3>2 DEF SessionFacts, SignedIn, Stored
  <2> QED BY <2>1, <2>3, <2>4, <2>5, <2>6, ClassifiedMoves
<1>9. HostInvariant'
  <2>1. OneBarrier' BY <1>1, <1>4, BarrierFrame DEF HostInvariant
  <2>2. \A c \in Connections : LaneFacts(c)' BY <1>2, <1>3 DEF LaneFacts, wire
  <2>3. OneLane' BY <1>2, <1>3 DEF OneLane, wire
  <2>4. StoppedFacts' BY <1>2 DEF StoppedFacts
  <2> QED BY <1>8, <2>1, <2>2, <2>3, <2>4 DEF HostInvariant
<1>10. RequestInvariant'
  BY <1>1, <1>2 DEF RequestInvariant, RequestFacts, Waited, Dispatched, wire
<1>11. DesktopInvariant'
  <2>1. SUFFICES ASSUME NEW b \in Attempts PROVE DesktopFacts(b)'
    BY DEF DesktopInvariant
  <2>2. DesktopFacts(b) BY <1>1 DEF DesktopInvariant
  <2>3. Heard(b) /\ (\A c \in Connections : StartOn(c, b)' => StartOn(c, b))
    BY <1>2 DEF Heard, StartOn, wire
  <2>4. next <= next' /\ absentSeen <= absentSeen' BY <1>1, <1>2 DEF DesktopShape, WireShape, wire
  <2> QED BY <1>1, <1>4, <1>7, <1>8, <2>2, <2>3, <2>4, DesktopFrame
<1> QED BY <1>7, <1>9, <1>10, <1>11 DEF OAuthInvariant, OAuthShape

-----------------------------------------------------------------------------
(* What the desktop does to the queues: what nobody waits for is hushed.    *)

Hushed(who) ==
    /\ inbox' \in [Connections -> Seq(Requests)]
    /\ \A c \in Connections :
          /\ Thins(inbox'[c], inbox[c])
          /\ \A i \in 1..Len(inbox'[c]) :
                /\ inbox'[c][i].live => inbox'[c][i].a \notin who
                /\ inbox'[c][i].kind = "status" => inbox'[c][i].live
          /\ inbox[c] # <<>> /\ inbox[c][1].kind # "status" =>
                /\ inbox'[c] # <<>>
                /\ inbox'[c][1].kind = inbox[c][1].kind /\ inbox'[c][1].a = inbox[c][1].a

(* Its start is in the ledger as dispatched.                                *)
Begun(a) == led[a].phase \notin {"none", "prepared"} /\ op[a].pc \notin {"prepared", "marked"}

(* The connection the desktop is on is its last one.                        *)
LEMMA LinkIsConnection ==
    ASSUME DesktopShape, link # 0
    PROVE  link \in Connections /\ link = next - 1 /\ link \in Nat /\ next \in Nat
  BY OAuthAssumption DEF DesktopShape, Connections

(* Requests that are waited for are on it.                                  *)
LEMMA OnlyLinkLive ==
    ASSUME OAuthInvariant
    PROVE  \A c \in Connections : /\ inbox[c] \in Seq(Requests) /\ Orderly(inbox[c]) /\ RequestFacts(c)
                                  /\ \A i \in 1..Len(inbox[c]) :
                                        /\ inbox[c][i].live => c = link /\ c \in open
                                        /\ inbox[c][i].kind = "status" => inbox[c][i].live
                                        /\ inbox[c][i].a \in Attempts
<1>1. \A c \in Connections : inbox[c] \in Seq(Requests) /\ RequestFacts(c)
  BY DEF OAuthInvariant, OAuthShape, WireShape, RequestInvariant
<1>2. \A c \in Connections : \A i \in 1..Len(inbox[c]) : inbox[c][i] \in Requests
  BY <1>1
<1>3. \A q \in Requests : q.a \in Attempts BY DEF Requests
<1> QED BY <1>1, <1>2, <1>3 DEF RequestFacts, Waited

(* What the desktop waits for no more, or never did, is hushed.             *)
LEMMA UnheardHushes ==
    ASSUME OAuthInvariant, link # 0, NEW who, inbox' = [inbox EXCEPT ![link] = Unheard(@, who)]
    PROVE  Hushed(who)
<1>1. WireShape /\ link \in Connections BY LinkIsConnection DEF OAuthInvariant, OAuthShape
<1>2. \A c \in Connections : /\ inbox[c] \in Seq(Requests)
                             /\ \A i \in 1..Len(inbox[c]) :
                                   /\ inbox[c][i].live => c = link
                                   /\ inbox[c][i].kind = "status" => inbox[c][i].live
  BY OnlyLinkLive
<1>3. PICK t : t = Unheard(inbox[link], who) OBVIOUS
<1>4. /\ t \in Seq(Requests) /\ Thins(t, inbox[link])
      /\ \A i \in 1..Len(t) : /\ t[i].live => t[i].a \notin who
                              /\ t[i].kind = "status" => t[i].live
      /\ inbox[link] # <<>> /\ inbox[link][1].kind # "status" =>
            t # <<>> /\ t[1].kind = inbox[link][1].kind /\ t[1].a = inbox[link][1].a
  BY <1>1, <1>2, <1>3, UnheardThins
<1>5. /\ inbox' \in [Connections -> Seq(Requests)] /\ inbox'[link] = t
      /\ \A c \in Connections : c # link => inbox'[c] = inbox[c]
  BY <1>1, <1>3, <1>4 DEF WireShape
<1>6. \A c \in Connections : Thins(inbox[c], inbox[c]) BY <1>2, ThinsSame
<1>7. ASSUME NEW c \in Connections
      PROVE  /\ Thins(inbox'[c], inbox[c])
             /\ \A i \in 1..Len(inbox'[c]) :
                   /\ inbox'[c][i].live => inbox'[c][i].a \notin who
                   /\ inbox'[c][i].kind = "status" => inbox'[c][i].live
             /\ inbox[c] # <<>> /\ inbox[c][1].kind # "status" =>
                   /\ inbox'[c] # <<>>
                   /\ inbox'[c][1].kind = inbox[c][1].kind /\ inbox'[c][1].a = inbox[c][1].a
  <2>1. CASE c = link BY <1>4, <1>5, <2>1
  <2>2. CASE c # link BY <1>2, <1>5, <1>6, <2>2
  <2> QED BY <2>1, <2>2
<1> QED BY <1>5, <1>7 DEF Hushed

LEMMA RestHushes ==
    ASSUME OAuthInvariant, inbox' = inbox, NEW who,
           \A c \in Connections : \A i \in 1..Len(inbox[c]) : inbox[c][i].live => inbox[c][i].a \notin who
    PROVE  Hushed(who)
<1>1. \A c \in Connections : /\ inbox[c] \in Seq(Requests) /\ Thins(inbox[c], inbox[c])
                             /\ \A i \in 1..Len(inbox[c]) :
                                   inbox[c][i].kind = "status" => inbox[c][i].live
  BY OnlyLinkLive, ThinsSame
<1>2. inbox \in [Connections -> Seq(Requests)] BY DEF OAuthInvariant, OAuthShape, WireShape
<1> QED BY <1>1, <1>2 DEF Hushed

(* What is left of a hushed queue: fewer requests, in order, the one at     *)
(* work among them.                                                         *)
LEMMA HushedQueue ==
    ASSUME OAuthInvariant, NEW who, Hushed(who), NEW c \in Connections
    PROVE  /\ inbox'[c] \in Seq(Requests) /\ Orderly(inbox'[c])
           /\ \A i \in 1..Len(inbox'[c]) : \E j \in 1..Len(inbox[c]) :
                 /\ inbox'[c][i].kind = inbox[c][j].kind /\ inbox'[c][i].a = inbox[c][j].a
                 /\ inbox'[c][i].live => inbox[c][j].live
                 /\ j = 1 => i = 1
           /\ inbox[c] = <<>> => inbox'[c] = <<>>
           /\ \A a \in Attempts : StartOn(c, a)' => StartOn(c, a)
           /\ LaneFacts(c) /\ at[c] # "idle" =>
                /\ inbox'[c] # <<>>
                /\ inbox'[c][1].kind = inbox[c][1].kind /\ inbox'[c][1].a = inbox[c][1].a
<1>1. PICK t, q : t = inbox'[c] /\ q = inbox[c] OBVIOUS
<1>2. t \in Seq(Requests) /\ q \in Seq(Requests) /\ Orderly(q) /\ Thins(t, q)
  BY <1>1, OnlyLinkLive DEF Hushed
<1>3. /\ Orderly(t)
      /\ \A i \in 1..Len(t) : \E j \in 1..Len(q) :
            /\ t[i].kind = q[j].kind /\ t[i].a = q[j].a /\ (t[i].live => q[j].live)
            /\ j = 1 => i = 1
  BY <1>2, ThinsOrderly
<1>4. q = <<>> => t = <<>>
  <2>1. SUFFICES ASSUME q = <<>>, t # <<>> PROVE FALSE OBVIOUS
  <2>2. 1 \in 1..Len(t) /\ Len(q) = 0 BY <1>2, <2>1
  <2> QED BY <1>3, <2>2
<1>5. \A a \in Attempts : StartOn(c, a)' => StartOn(c, a)
  BY <1>1, <1>3 DEF StartOn
<1>6. LaneFacts(c) /\ at[c] # "idle" => q # <<>> /\ q[1].kind # "status"
  BY <1>1 DEF LaneFacts
<1>7. q # <<>> /\ q[1].kind # "status" => t # <<>> /\ t[1].kind = q[1].kind /\ t[1].a = q[1].a
  BY <1>1 DEF Hushed
<1> QED BY <1>1, <1>2, <1>3, <1>4, <1>5, <1>6, <1>7

(* What a hushed queue holds still is what it says.                         *)
LEMMA HushedRequests ==
    ASSUME OAuthInvariant, NEW who, Hushed(who), UNCHANGED <<open, at>>, next <= next', next' \in Nat,
           \A b \in Attempts : Begun(b) => Begun(b)',
           \A b \in Attempts : b \notin who => op'[b].pc = op[b].pc /\ answer'[b] = answer[b],
           link' = link \/ Attempts \subseteq who,
           NEW c \in Connections
    PROVE  \A i \in 1..Len(inbox'[c]) : Waited(c, inbox[c][i])' /\ Dispatched(c, i)'
<1> TAKE i \in 1..Len(inbox'[c])
<1>1. PICK q : q = inbox'[c][i] OBVIOUS
<1>2. PICK j \in 1..Len(inbox[c]) :
        /\ q.kind = inbox[c][j].kind /\ q.a = inbox[c][j].a
        /\ q.live => inbox[c][j].live
        /\ j = 1 => i = 1
  BY <1>1, HushedQueue
<1>3. /\ Waited(c, inbox[c][j]) /\ Dispatched(c, j) /\ q.a \in Attempts
      /\ q.live => q.a \notin who
      /\ q.kind = "status" => q.live
  BY <1>1, <1>2, OnlyLinkLive DEF RequestFacts, Hushed
<1>4. Waited(c, q)'
  <2>1. q.live => link' = link BY <1>3
  <2> QED BY <1>2, <1>3, <2>1 DEF Waited
<1>5. Dispatched(c, i)'
  <2>1. c \in Nat /\ next \in Nat
    BY OAuthAssumption DEF Connections, OAuthInvariant, OAuthShape, DesktopShape
  <2>2. q.kind = "start" => c < next' BY <1>2, <1>3, <2>1 DEF Dispatched
  <2> QED BY <1>1, <1>2, <1>3, <2>2 DEF Dispatched, Begun
<1> QED BY <1>1, <1>4, <1>5

(* What a step of the desktop does to calls: those of `a` are its business. *)
Wired(a) ==
    /\ inbox' \in [Connections -> Seq(Requests)] /\ answer' \in [Attempts -> Body]
    /\ RequestInvariant'
    /\ \A c \in Connections : LaneFacts(c) /\ at[c] # "idle" =>
          /\ inbox'[c] # <<>>
          /\ inbox'[c][1].kind = inbox[c][1].kind /\ inbox'[c][1].a = inbox[c][1].a
    /\ process = "down" => \A c \in Connections : inbox'[c] = <<>>
    /\ \A b \in Attempts : b # a =>
          /\ answer'[b] = answer[b]
          /\ \A c \in Connections : StartOn(c, b)' => StartOn(c, b)

(* The ways a step of the desktop deals with its calls: it hushes them, it  *)
(* has none or takes its answer, it gives up.                               *)
LEMMA HushedWires ==
    ASSUME OAuthInvariant, NEW a \in Attempts, Hushed({a}), UNCHANGED <<open, at, link, next>>,
           answer' \in [Attempts -> Body], Begun(a) => Begun(a)',
           \A b \in Attempts : b # a => /\ led'[b] = led[b] /\ op'[b] = op[b]
                                        /\ answer'[b] = answer[b]
    PROVE  Wired(a) /\ \A c \in Connections : StartOn(c, a)' => StartOn(c, a)
<1>1. \A c \in Connections :
        /\ inbox'[c] \in Seq(Requests) /\ Orderly(inbox'[c])
        /\ inbox[c] = <<>> => inbox'[c] = <<>>
        /\ \A b \in Attempts : StartOn(c, b)' => StartOn(c, b)
        /\ LaneFacts(c) /\ at[c] # "idle" =>
             /\ inbox'[c] # <<>>
             /\ inbox'[c][1].kind = inbox[c][1].kind /\ inbox'[c][1].a = inbox[c][1].a
  BY HushedQueue
<1>2. next <= next' /\ next' \in Nat BY DEF OAuthInvariant, OAuthShape, DesktopShape
<1>3. \A b \in Attempts : Begun(b) => Begun(b)' BY DEF Begun
<1>4. \A c \in Connections :
        \A i \in 1..Len(inbox'[c]) : Waited(c, inbox[c][i])' /\ Dispatched(c, i)'
  BY <1>2, <1>3, HushedRequests
<1>5. RequestInvariant' BY <1>1, <1>4 DEF RequestInvariant, RequestFacts
<1>6. process = "down" => \A c \in Connections : inbox[c] = <<>>
  BY DEF OAuthInvariant, HostInvariant, StoppedFacts
<1> QED BY <1>1, <1>5, <1>6 DEF Wired, Hushed

(* No request for an attempt whose operation waits for none, or was heard.  *)
LEMMA NoneLive ==
    ASSUME OAuthInvariant, NEW a \in Attempts, op[a].pc \notin Awaits \/ answer[a].ok
    PROVE  \A c \in Connections : \A i \in 1..Len(inbox[c]) : inbox[c][i].live => inbox[c][i].a \notin {a}
  BY OnlyLinkLive DEF RequestFacts, Waited

LEMMA QuietWires ==
    ASSUME OAuthInvariant, NEW a \in Attempts, op[a].pc \notin Awaits \/ answer[a].ok, inbox' = inbox,
           UNCHANGED <<open, at, link, next>>, answer' = answer \/ Took(a), Begun(a) => Begun(a)',
           \A b \in Attempts : b # a => led'[b] = led[b] /\ op'[b] = op[b]
    PROVE  Wired(a) /\ \A c \in Connections : StartOn(c, a)' => StartOn(c, a)
<1>1. Hushed({a}) BY NoneLive, RestHushes
<1>2. answer \in [Attempts -> Body] BY DEF OAuthInvariant, OAuthShape, WireShape
<1>3. NoAnswer \in Body BY NoRecordFields DEF NoAnswer, Body
<1>4. answer' \in [Attempts -> Body] /\ \A b \in Attempts : b # a => answer'[b] = answer[b]
  BY <1>2, <1>3 DEF Took
<1> QED BY <1>1, <1>4, HushedWires

LEMMA GivenUpWires ==
    ASSUME OAuthInvariant, NEW a \in Attempts, link # 0, GivenUp(a),
           UNCHANGED <<open, at, link, next>>, Begun(a) => Begun(a)',
           \A b \in Attempts : b # a => led'[b] = led[b] /\ op'[b] = op[b]
    PROVE  Wired(a) /\ \A c \in Connections : StartOn(c, a)' => StartOn(c, a)
<1>1. Hushed({a}) BY UnheardHushes DEF GivenUp
<1>2. answer \in [Attempts -> Body] BY DEF OAuthInvariant, OAuthShape, WireShape
<1>3. NoAnswer \in Body BY NoRecordFields DEF NoAnswer, Body
<1>4. answer' \in [Attempts -> Body] /\ \A b \in Attempts : b # a => answer'[b] = answer[b]
  BY <1>2, <1>3 DEF GivenUp
<1> QED BY <1>1, <1>4, HushedWires

(* A request sent is the last on the link, and the only one for its attempt *)
(* that is waited for; a start is one of an attempt that was begun.         *)
LEMMA SentWires ==
    ASSUME OAuthInvariant, NEW a \in Attempts, link # 0, NEW rev \in Nat,
           NEW kind \in {"start", "status", "cancel", "ack"}, Sent(a, kind, rev),
           UNCHANGED <<open, at, link, next>>, Begun(a) => Begun(a)', kind = "start" => Begun(a)',
           op'[a].pc \in Awaits, kind = KindOf[op'[a].pc],
           \A b \in Attempts : b # a => led'[b] = led[b] /\ op'[b] = op[b]
    PROVE  /\ Wired(a) /\ answer'[a] = NoAnswer
           /\ kind # "start" => \A c \in Connections : StartOn(c, a)' => StartOn(c, a)
<1>1. answer \in [Attempts -> Body] /\ WireShape /\ DesktopShape
  BY DEF OAuthInvariant, OAuthShape, WireShape
<1>2. NoAnswer \in Body BY NoRecordFields DEF NoAnswer, Body
<1>3. answer' \in [Attempts -> Body] /\ answer'[a] = NoAnswer
      /\ \A b \in Attempts : b # a => answer'[b] = answer[b]
  BY <1>1, <1>2 DEF Sent
<1>4. CASE link \notin open /\ inbox' = inbox
  <2>1. Hushed({a}) BY <1>4, OnlyLinkLive, RestHushes
  <2> QED BY <1>3, <2>1, HushedWires
<1>5. CASE link \in open
  <2> DEFINE m == [kind |-> kind, a |-> a, rev |-> rev, live |-> TRUE]
  <2>1. link \in Connections /\ link < next BY <1>1, LinkIsConnection
  <2>2. m \in Requests BY DEF Requests
  <2>3. PICK t : t = Unheard(inbox[link], {a}) OBVIOUS
  <2>4. inbox' = [inbox EXCEPT ![link] = Append(t, m)] BY <1>5, <2>3 DEF Sent
  <2>5. \A c \in Connections : inbox[c] \in Seq(Requests) /\ Orderly(inbox[c]) /\ RequestFacts(c)
                               /\ \A i \in 1..Len(inbox[c]) : inbox[c][i].live => c = link
    BY OnlyLinkLive
  <2>6. /\ t \in Seq(Requests) /\ Thins(t, inbox[link])
        /\ \A i \in 1..Len(t) : /\ t[i].live => t[i].a \notin {a}
                                /\ t[i].kind = "status" => t[i].live
        /\ inbox[link] # <<>> /\ inbox[link][1].kind # "status" =>
              t # <<>> /\ t[1].kind = inbox[link][1].kind /\ t[1].a = inbox[link][1].a
    BY <2>1, <2>3, <2>5, UnheardThins
  <2>7. /\ Orderly(t)
        /\ \A i \in 1..Len(t) : \E j \in 1..Len(inbox[link]) :
              /\ t[i].kind = inbox[link][j].kind /\ t[i].a = inbox[link][j].a
              /\ t[i].live => inbox[link][j].live
              /\ j = 1 => i = 1
    <3>1. PICK q : q = inbox[link] OBVIOUS
    <3>2. q \in Seq(Requests) /\ Orderly(q) /\ Thins(t, q) BY <2>1, <2>5, <2>6, <3>1
    <3>3. /\ Orderly(t)
          /\ \A i \in 1..Len(t) : \E j \in 1..Len(q) :
                /\ t[i].kind = q[j].kind /\ t[i].a = q[j].a /\ (t[i].live => q[j].live)
                /\ j = 1 => i = 1
      BY <2>6, <3>2, ThinsOrderly
    <3> QED BY <3>1, <3>3
  <2>8. m.a = a /\ m.kind = kind /\ m.live = TRUE OBVIOUS
  <2> HIDE DEF m
  <2>9. Orderly(Append(t, m)) BY <2>2, <2>6, <2>7, <2>8, AppendOrderly
  <2>10. /\ inbox' \in [Connections -> Seq(Requests)] /\ inbox'[link] = Append(t, m)
         /\ \A c \in Connections : c # link => inbox'[c] = inbox[c]
    <3>1. Append(t, m) \in Seq(Requests) BY <2>2, <2>6
    <3> QED BY <1>1, <2>1, <2>4, <3>1 DEF WireShape
  <2>11. PICK s : s = Append(t, m) OBVIOUS
  <2>12. /\ Len(s) = Len(t) + 1 /\ Len(t) \in Nat
         /\ \A i \in 1..Len(s) : (i \in 1..Len(t) /\ s[i] = t[i]) \/ (i = Len(s) /\ s[i] = m)
         /\ \A i \in 1..Len(t) : i \in 1..Len(s) /\ s[i] = t[i]
         /\ s # <<>>
    BY <2>2, <2>6, <2>11
  <2>13. \A b \in Attempts : Begun(b) => Begun(b)' BY DEF Begun
  <2>14. ASSUME NEW i \in 1..Len(s) PROVE Waited(link, s[i])' /\ Dispatched(link, i)'
    <3>1. PICK q : q = s[i] OBVIOUS
    <3>2. inbox'[link][i] = q BY <2>10, <2>11, <3>1
    <3>3. CASE i \in 1..Len(t) /\ q = t[i]
      <4>1. PICK j \in 1..Len(inbox[link]) :
              /\ q.kind = inbox[link][j].kind /\ q.a = inbox[link][j].a
              /\ q.live => inbox[link][j].live
              /\ j = 1 => i = 1
        BY <2>7, <3>3
      <4>2. Waited(link, inbox[link][j]) /\ Dispatched(link, j) /\ q.a \in Attempts
        BY <2>1, <2>5, <4>1, OnlyLinkLive DEF RequestFacts
      <4>3. (q.live => q.a # a) /\ (q.kind = "status" => q.live) BY <2>6, <3>3
      <4>4. Waited(link, q)' BY <1>3, <1>5, <4>1, <4>2, <4>3 DEF Waited
      <4>5. Dispatched(link, i)' BY <2>1, <2>13, <3>2, <4>1, <4>2 DEF Dispatched, Begun
      <4> QED BY <3>1, <4>4, <4>5
    <3>4. CASE q = m
      <4>1. Waited(link, q)'
        BY <1>3, <1>5, <2>8, <3>4 DEF Waited, NoAnswer
      <4>2. Dispatched(link, i)' BY <1>5, <2>1, <2>8, <3>2, <3>4 DEF Dispatched, Begun
      <4> QED BY <3>1, <4>1, <4>2
    <3> QED BY <2>12, <3>1, <3>3, <3>4
  <2>15. RequestInvariant'
    <3>1. SUFFICES ASSUME NEW c \in Connections PROVE RequestFacts(c)' BY DEF RequestInvariant
    <3>2. CASE c = link
      <4>1. Orderly(inbox'[link]) BY <2>9, <2>10
      <4>2. \A i \in 1..Len(inbox'[link]) : Waited(link, inbox[link][i])' /\ Dispatched(link, i)'
        BY <2>10, <2>11, <2>14
      <4> QED BY <3>2, <4>1, <4>2 DEF RequestFacts
    <3>3. CASE c # link
      <4>1. RequestFacts(c) /\ inbox'[c] = inbox[c] /\ \A i \in 1..Len(inbox[c]) : ~inbox[c][i].live
                                                          /\ inbox[c][i].a \in Attempts
        BY <2>5, <2>10, <3>3, OnlyLinkLive
      <4>2. \A i \in 1..Len(inbox'[c]) : Waited(c, inbox[c][i])'
        BY <4>1 DEF RequestFacts, Waited
      <4>3. \A i \in 1..Len(inbox'[c]) : Dispatched(c, i)'
        BY <2>13, <4>1 DEF RequestFacts, Dispatched, Begun
      <4> QED BY <4>1, <4>2, <4>3 DEF RequestFacts
    <3> QED BY <3>2, <3>3
  <2>16. ASSUME NEW c \in Connections, LaneFacts(c), at[c] # "idle"
         PROVE  /\ inbox'[c] # <<>>
                /\ inbox'[c][1].kind = inbox[c][1].kind /\ inbox'[c][1].a = inbox[c][1].a
    <3>1. inbox[c] # <<>> /\ inbox[c][1].kind # "status" BY <2>16 DEF LaneFacts
    <3>2. CASE c # link BY <2>10, <3>1, <3>2
    <3>3. CASE c = link
      <4>1. t # <<>> /\ t[1].kind = inbox[link][1].kind /\ t[1].a = inbox[link][1].a
        BY <2>6, <3>1, <3>3
      <4>2. 1 \in 1..Len(t) BY <2>6, <4>1
      <4> QED BY <2>10, <2>11, <2>12, <3>3, <4>1, <4>2
    <3> QED BY <3>2, <3>3
  <2>17. process # "down" BY <1>5 DEF OAuthInvariant, HostInvariant, StoppedFacts
  <2>18. ASSUME NEW b \in Attempts, NEW c \in Connections, b # a \/ kind # "start", StartOn(c, b)'
         PROVE  StartOn(c, b)
    <3>1. CASE c # link BY <2>10, <2>18, <3>1 DEF StartOn
    <3>2. CASE c = link
      <4>1. PICK i \in 1..Len(s) : s[i].kind = "start" /\ s[i].a = b
        BY <2>10, <2>11, <2>18, <3>2 DEF StartOn
      <4>2. i \in 1..Len(t) /\ s[i] = t[i] BY <2>8, <2>12, <2>18, <4>1
      <4> QED BY <2>7, <3>2, <4>1, <4>2 DEF StartOn
    <3> QED BY <3>1, <3>2
  <2> QED BY <1>3, <2>10, <2>15, <2>16, <2>17, <2>18 DEF Wired
<1> QED BY <1>4, <1>5 DEF Sent

-----------------------------------------------------------------------------
(* A step of the desktop on one attempt.                                    *)

(* What the other attempts see of it: nothing.                              *)
Alone(a) ==
    /\ UNCHANGED theHost /\ refused' = refused /\ UNCHANGED <<link, next>>
    /\ led' \in [Attempts -> Entry] /\ op' \in [Attempts -> Operation]
    /\ pages' \in [Attempts -> {<<>>, <<TRUE>>}]
    /\ eligible' \subseteq Attempts /\ owed' \subseteq Attempts
    /\ told' \subseteq Attempts /\ born' \subseteq Attempts
    /\ \A b \in Attempts : b # a =>
          /\ led'[b] = led[b] /\ op'[b] = op[b] /\ pages'[b] = pages[b]
          /\ (b \in told' => b \in told) /\ (b \in eligible' => b \in eligible)
          /\ (b \in born => b \in born')
    /\ SoundEntry(led'[a]) /\ (pages'[a] = pages[a] \/ pages'[a] # <<>>)

(* All such a step has to show is what holds of its own attempt.            *)
LEMMA DesktopStepKeeps ==
    ASSUME OAuthInvariant, NEW a \in Attempts, Alone(a), Wired(a), DesktopFacts(a)'
    PROVE  OAuthInvariant'
<1>1. HostShape /\ WireShape /\ DesktopShape /\ HostInvariant /\ RequestInvariant /\ DesktopInvariant
      /\ NeverRefused
  BY DEF OAuthInvariant, OAuthShape
<1>2. /\ UNCHANGED <<rec, process, secure, sick, run, helper, logins, kept, open, at, absentSeen>>
      /\ refused' = refused /\ UNCHANGED <<link, next>>
  BY DEF Alone, theHost, host, session
<1>3. HostShape' BY <1>1, <1>2 DEF HostShape
<1>4. WireShape' BY <1>1, <1>2 DEF WireShape, Wired
<1>5. DesktopShape'
  <2>1. \A b \in Attempts : SoundEntry(led'[b]) BY <1>1 DEF Alone, DesktopShape
  <2> QED BY <1>1, <1>2, <2>1 DEF DesktopShape, Alone
<1>6. NeverRefused' BY <1>1, <1>2 DEF NeverRefused
<1>7. \A b \in Attempts : SessionFacts(b)'
  BY <1>1, <1>2, SessionFrame DEF HostInvariant, Alone
<1>8. \A c \in Connections : LaneFacts(c)'
  <2> TAKE c \in Connections
  <2>1. LaneFacts(c) BY <1>1 DEF HostInvariant
  <2>2. CASE at[c] = "idle" BY <1>2, <2>2 DEF LaneFacts
  <2>3. CASE at[c] # "idle"
    <3>1. Of(c) \in Attempts BY <1>1, <2>1, <2>3, OfAttempt DEF LaneFacts
    <3>2. /\ inbox'[c] # <<>>
          /\ inbox'[c][1].kind = inbox[c][1].kind /\ inbox'[c][1].a = inbox[c][1].a
      BY <2>1, <2>3 DEF Wired
    <3>3. rec[Of(c)] # NoRecord \/ at[c] # "prepared" BY <2>1 DEF LaneFacts
    <3> QED BY <1>2, <2>1, <3>1, <3>2, <3>3, LaneFrame
  <2> QED BY <2>2, <2>3
<1>9. HostInvariant'
  <2>1. OneBarrier' /\ OneLane' BY <1>1, <1>2 DEF HostInvariant, OneBarrier, OneLane
  <2>2. StoppedFacts' BY <1>1, <1>2 DEF HostInvariant, StoppedFacts, Wired
  <2> QED BY <1>7, <1>8, <2>1, <2>2 DEF HostInvariant
<1>10. RequestInvariant' BY DEF Wired
<1>11. ASSUME NEW b \in Attempts, b # a PROVE DesktopFacts(b)'
  <2>1. DesktopFacts(b) /\ SessionFacts(b)' BY <1>1, <1>7 DEF DesktopInvariant
  <2>2. Grows(b) BY <1>2 DEF Grows
  <2>3. /\ led'[b] = led[b] /\ op'[b] = op[b] /\ pages'[b] = pages[b]
        /\ (b \in told' => b \in told) /\ (b \in eligible' => b \in eligible)
        /\ (b \in born => b \in born')
    BY <1>11 DEF Alone
  <2>4. answer'[b] = answer[b] /\ \A c \in Connections : StartOn(c, b)' => StartOn(c, b)
    BY <1>11 DEF Wired
  <2>5. Heard(b) BY <2>3, <2>4 DEF Heard
  <2>6. next <= next' /\ absentSeen <= absentSeen' BY <1>1, <1>2 DEF DesktopShape, WireShape
  <2> QED BY <1>1, <1>2, <1>4, <1>5, <2>1, <2>2, <2>3, <2>4, <2>5, <2>6, DesktopFrame
<1>12. DesktopInvariant' BY <1>11 DEF DesktopInvariant
<1> QED BY <1>3, <1>4, <1>5, <1>6, <1>9, <1>10, <1>12 DEF OAuthInvariant, OAuthShape

(* A step after which the attempt has no answer to go by.                   *)
LEMMA AttemptKeeps ==
    ASSUME OAuthInvariant, NEW a \in Attempts, Alone(a), Wired(a), ~answer'[a].ok,
           led'[a].phase \in {"none", "prepared"} \/ op'[a].pc \in {"prepared", "marked"} =>
                rec[a] = NoRecord,
           Follows(led'[a], rec[a]), OperationFacts(a)', PageFacts(a)',
           a \in told' \/ (led'[a].phase = "failed" /\ led'[a].hostPhase = "none") => NeverBegins(a)'
    PROVE  OAuthInvariant'
<1>1. rec' = rec BY DEF Alone, theHost
<1>2. AnswerFacts(a)' BY DEF AnswerFacts
<1>3. AbsenceFacts(a)' BY DEF AbsenceFacts
<1>4. DesktopFacts(a)' BY <1>1, <1>2, <1>3 DEF DesktopFacts
<1> QED BY <1>4, DesktopStepKeeps

(* An attempt that never begins goes on not beginning, whatever the desktop *)
(* does but prepare it or send its start.                                   *)
LEMMA StillNeverBegins ==
    ASSUME NEW a \in Attempts, NeverBegins(a), UNCHANGED theHost, led'[a] # NoEntry,
           op'[a].pc \notin {"prepared", "marked"},
           \A c \in Connections : StartOn(c, a)' => StartOn(c, a)
    PROVE  NeverBegins(a)'
  BY DEF NeverBegins, theHost

(* What an attempt of the desktop is like before a step.                    *)
LEMMA DesktopOf ==
    ASSUME OAuthInvariant, NEW a \in Attempts
    PROVE  /\ DesktopShape /\ WireShape /\ SoundEntry(led[a]) /\ led[a] \in Entry
           /\ op \in [Attempts -> Operation] /\ op[a] \in Operation
           /\ led[a].phase \in {"none", "prepared"} \/ op[a].pc \in {"prepared", "marked"} =>
                 rec[a] = NoRecord
           /\ Follows(led[a], rec[a])
           /\ OperationFacts(a) /\ AnswerFacts(a) /\ AbsenceFacts(a) /\ PageFacts(a)
           /\ Sound(rec[a]) /\ rec[a] \in RecordShape
           /\ op[a].pc \notin Awaits => ~answer[a].ok
<1>1. DesktopShape /\ WireShape /\ DesktopFacts(a) /\ Sound(rec[a])
  BY RecordOf DEF OAuthInvariant, OAuthShape, DesktopInvariant
<1>2. SoundEntry(led[a]) /\ led[a] \in Entry /\ op \in [Attempts -> Operation] /\ op[a] \in Operation
  BY <1>1 DEF DesktopShape, SoundEntry
<1>3. AnswerFacts(a) BY <1>1 DEF DesktopFacts
<1>4. op[a].pc \notin Awaits => ~answer[a].ok BY <1>3 DEF AnswerFacts
<1> QED BY <1>1, <1>2, <1>4 DEF DesktopFacts, Sound

(* An operation as it begins, goes on and ends.                             *)
LEMMA Operations ==
    ASSUME DesktopShape, NEW a \in Attempts
    PROVE  /\ \A pc \in Places : To(a, pc) =>
                 /\ op' \in [Attempts -> Operation] /\ \A b \in Attempts : b # a => op'[b] = op[b]
                 /\ op'[a].pc = pc /\ op'[a].conn = op[a].conn /\ op'[a].stale = op[a].stale
           /\ Ends(a) =>
                 /\ op' \in [Attempts -> Operation] /\ \A b \in Attempts : b # a => op'[b] = op[b]
                 /\ op'[a].pc = "idle"
           /\ \A pc \in Places : link # 0 /\ Begin(a, pc) =>
                 /\ op' \in [Attempts -> Operation] /\ \A b \in Attempts : b # a => op'[b] = op[b]
                 /\ op'[a].pc = pc /\ op'[a].conn = link /\ op'[a].conn \in 1..next - 1
<1>1. op \in [Attempts -> Operation] /\ op[a] \in Operation BY DEF DesktopShape
<1>2. ASSUME NEW pc \in Places, To(a, pc)
      PROVE  /\ op' \in [Attempts -> Operation] /\ \A b \in Attempts : b # a => op'[b] = op[b]
             /\ op'[a].pc = pc /\ op'[a].conn = op[a].conn /\ op'[a].stale = op[a].stale
  <2>1. op' = [op EXCEPT ![a] = [op[a] EXCEPT !.pc = pc]] BY <1>1, <1>2 DEF To
  <2>2. [op[a] EXCEPT !.pc = pc] \in Operation /\ [op[a] EXCEPT !.pc = pc].pc = pc
        /\ [op[a] EXCEPT !.pc = pc].conn = op[a].conn /\ [op[a] EXCEPT !.pc = pc].stale = op[a].stale
    BY <1>1, <1>2 DEF Operation
  <2> QED BY <1>1, <2>1, <2>2
<1>3. ASSUME Ends(a)
      PROVE  /\ op' \in [Attempts -> Operation] /\ \A b \in Attempts : b # a => op'[b] = op[b]
             /\ op'[a].pc = "idle"
  <2>1. Idle \in Operation /\ Idle.pc = "idle" BY DEF Idle, Operation, Places
  <2> QED BY <1>1, <1>3, <2>1 DEF Ends
<1>4. ASSUME NEW pc \in Places, link # 0, Begin(a, pc)
      PROVE  /\ op' \in [Attempts -> Operation] /\ \A b \in Attempts : b # a => op'[b] = op[b]
             /\ op'[a].pc = pc /\ op'[a].conn = link /\ op'[a].conn \in 1..next - 1
  <2>1. link \in Nat /\ link = next - 1 /\ next \in Nat BY <1>4, LinkIsConnection
  <2>2. link \in 1..next - 1 BY <1>4, <2>1
  <2> DEFINE o == [pc |-> pc, conn |-> link, stale |-> FALSE]
  <2>3. o \in Operation /\ o.pc = pc /\ o.conn = link BY <1>4, <2>1 DEF Operation
  <2>4. op' = [op EXCEPT ![a] = o] BY <1>4 DEF Begin
  <2> HIDE DEF o
  <2> QED BY <1>1, <2>2, <2>3, <2>4
<1> QED BY <1>2, <1>3, <1>4

(* An entry with another phase, with what it last noted of the host.        *)
EntryShape(P, H, W) == [phase : P, hostPhase : H, why : W, acked : BOOLEAN]

(* An entry is one of these.                                                *)
LEMMA EntryIsShape == Entry = EntryShape(EntryPhases, Phases, Whys)
  BY DEF Entry, EntryShape

(* An entry in another phase.                                               *)
LEMMA PhaseEntered ==
    ASSUME NEW e \in Entry, NEW p \in EntryPhases
    PROVE  LET f == [e EXCEPT !.phase = p] IN
           f \in Entry /\ f.phase = p /\ f.hostPhase = e.hostPhase /\ f.why = e.why /\ f.acked = e.acked
  BY EntryIsShape DEF EntryShape

(* The absent entry, and the phases of any.                                 *)
LEMMA NoEntryFields ==
    /\ NoEntry.phase = "none" /\ NoEntry.hostPhase = "none" /\ NoEntry.acked = FALSE
    /\ \A e \in Entry : e.phase \in Terminal \cup {"none", "prepared", "start_dispatching",
            "host_admitted", "browser_dispatching", "browser_opened", "observing",
            "cancel_dispatching", "recovery_required"}
  BY DEF NoEntry, Entry, EntryPhases, PhaseTransitions, Terminal

(* PHASE_TRANSITIONS, row by row.                                           *)
LEMMA PhaseRows ==
    /\ PhaseTransitions["prepared"] = {"start_dispatching", "failed"}
    /\ PhaseTransitions["start_dispatching"] = {"host_admitted", "recovery_required", "failed"}
    /\ PhaseTransitions["host_admitted"] = {"browser_dispatching"} \cup Outcomes
    /\ PhaseTransitions["browser_dispatching"] = {"browser_opened"} \cup Outcomes
    /\ PhaseTransitions["browser_opened"] = {"observing"} \cup Outcomes
    /\ PhaseTransitions["observing"] = Outcomes
    /\ PhaseTransitions["cancel_dispatching"] = Outcomes \ {"cancel_dispatching"}
    /\ PhaseTransitions["recovery_required"] = Outcomes \ {"recovery_required"}
    /\ Outcomes = {"completed", "cancelled", "failed", "recovery_required", "cancel_dispatching"}
  BY DEF PhaseTransitions, Outcomes, Terminal

(* A write the ledger allows is made.                                       *)
LEMMA EnterKeeps ==
    ASSUME DesktopShape, NEW a \in Attempts, NEW e \in Entry, Allowed(led[a], e), Enter(a, e)
    PROVE  /\ led' \in [Attempts -> Entry] /\ led'[a] = e /\ refused' = refused
           /\ \A b \in Attempts : b # a => led'[b] = led[b]
  BY DEF Enter, DesktopShape

(* No start is on its way for an attempt that is not dispatched.            *)
LEMMA NoStartYet ==
    ASSUME OAuthInvariant, NEW a \in Attempts, ~Begun(a)
    PROVE  \A c \in Connections : ~StartOn(c, a)
<1>1. \A c \in Connections : RequestFacts(c) BY OnlyLinkLive
<1> QED BY <1>1 DEF RequestFacts, Dispatched, StartOn, Begun

-----------------------------------------------------------------------------
(* The steps of the desktop.                                                *)

(* A sign-in is prepared: the host cannot have a record of it.              *)
LEMMA StartSignInKeeps ==
    ASSUME OAuthInvariant, NEW a \in Attempts, StartSignIn(a)
    PROVE  OAuthInvariant'
<1>1. /\ DesktopShape /\ SoundEntry(led[a]) /\ led[a] \in Entry
      /\ led[a].phase = "none" => rec[a] = NoRecord
      /\ AnswerFacts(a) /\ AbsenceFacts(a) /\ PageFacts(a)
      /\ op[a].pc \notin Awaits => ~answer[a].ok
  BY DesktopOf
<1>2. /\ link # 0 /\ led[a] = NoEntry /\ op[a].pc = "idle" /\ Begin(a, "prepared")
      /\ led' = [led EXCEPT ![a].phase = "prepared"]
      /\ UNCHANGED <<theHost, refused, inbox, answer, link, next, owed, eligible, told, pages, born>>
  BY DEF StartSignIn, broker, calls, desktop, seen, past
<1>3. op[a].pc \notin Awaits /\ "prepared" \in Places BY <1>2 DEF Awaits, Places
<1>4. /\ op' \in [Attempts -> Operation] /\ \A b \in Attempts : b # a => op'[b] = op[b]
      /\ op'[a].pc = "prepared" /\ op'[a].conn \in 1..next - 1
  BY <1>1, <1>2, <1>3, Operations
<1>5. PICK e : e = [led[a] EXCEPT !.phase = "prepared"] OBVIOUS
<1>6. "prepared" \in EntryPhases /\ "none" \in Phases /\ "none" \in Whys
  BY DEF EntryPhases, PhaseTransitions, Phases, Whys
<1>7. e \in Entry /\ e.phase = "prepared" /\ e.hostPhase = "none" /\ e.acked = FALSE
  BY <1>1, <1>2, <1>5, <1>6, PhaseEntered, NoEntryFields
<1>8. led' \in [Attempts -> Entry] /\ led'[a] = e /\ \A b \in Attempts : b # a => led'[b] = led[b]
  BY <1>1, <1>2, <1>5, <1>7 DEF DesktopShape
<1>9. SoundEntry(e) BY <1>7 DEF SoundEntry, Coherent, Terminal
<1>10. Alone(a)
  BY <1>1, <1>2, <1>4, <1>8, <1>9 DEF Alone, DesktopShape
<1>11. ~Begun(a) BY <1>2, NoEntryFields DEF Begun
<1>12. UNCHANGED <<open, at, link, next>> BY <1>2 DEF theHost
<1>13. Wired(a) BY <1>2, <1>3, <1>4, <1>8, <1>11, <1>12, QuietWires
<1>14. rec[a] = NoRecord BY <1>1, <1>2, NoEntryFields
<1>15. Follows(e, rec[a]) BY <1>7 DEF Follows
<1>16. OperationFacts(a)'
  BY <1>2, <1>4, <1>7, <1>8, NoEntryFields DEF OperationFacts, Awaits
<1>17. PageFacts(a)'
  BY <1>1, <1>2, <1>4, <1>7, <1>8, NoEntryFields DEF PageFacts
<1>18. a \notin told BY <1>1, <1>2 DEF AbsenceFacts, NeverBegins
<1>19. ~answer'[a].ok BY <1>1, <1>2, <1>3
<1> QED BY <1>2, <1>7, <1>8, <1>10, <1>13, <1>14, <1>15, <1>16, <1>17, <1>18, <1>19, AttemptKeeps

(* An attempt whose start was not sent ends with the host knowing nothing.  *)
LEMMA HostFreeEntry ==
    ASSUME NEW e, SoundEntry(e), e.phase \in {"prepared", "start_dispatching"}
    PROVE  /\ HostFree(e) \in Entry /\ SoundEntry(HostFree(e)) /\ Allowed(e, HostFree(e))
           /\ HostFree(e).phase = "failed" /\ HostFree(e).hostPhase = "none"
           /\ HostFree(e) # NoEntry /\ \A r : Follows(HostFree(e), r)
<1>1. e \in Entry /\ e.hostPhase = "none" /\ e.acked = FALSE
  BY DEF SoundEntry, Terminal, Entry
<1>2. "failed" \in EntryPhases /\ "none" \in Phases /\ "interrupted_before_login_dispatch" \in Whys
  BY DEF EntryPhases, PhaseTransitions, Phases, Whys, FailedWhy
<1>3. PICK f : f = HostFree(e) OBVIOUS
<1>4. /\ f \in Entry /\ f.phase = "failed" /\ f.hostPhase = "none"
      /\ f.why = "interrupted_before_login_dispatch" /\ f.acked = FALSE
  <2>1. f = [e EXCEPT !.phase = "failed", !.why = "interrupted_before_login_dispatch"]
    BY <1>3 DEF HostFree
  <2>2. LET g == [e EXCEPT !.phase = "failed", !.why = "interrupted_before_login_dispatch"] IN
        /\ g \in Entry /\ g.phase = "failed" /\ g.hostPhase = e.hostPhase
        /\ g.why = "interrupted_before_login_dispatch" /\ g.acked = e.acked
    BY <1>1, <1>2, EntryIsShape DEF EntryShape
  <2> QED BY <1>1, <2>1, <2>2
<1>5. Coherent(f) BY <1>4 DEF Coherent, Terminal
<1>6. SoundEntry(f) BY <1>4, <1>5 DEF SoundEntry
<1>7. Allowed(e, f) BY <1>1, <1>4, <1>5, PhaseRows DEF Allowed, HostPhaseFollows
<1>8. \A r : Follows(f, r) BY <1>4 DEF Follows
<1> QED BY <1>3, <1>4, <1>6, <1>7, <1>8, NoEntryFields

(* The desktop ends by itself what the host will never begin.               *)
LEMMA SettledAloneKeeps ==
    ASSUME OAuthInvariant, NEW a \in Attempts, led[a].phase \in {"prepared", "start_dispatching"},
           rec[a] = NoRecord, Enter(a, HostFree(led[a])), Ends(a),
           UNCHANGED <<theHost, link, next, owed, eligible, born, pages>>, told' \subseteq told \cup {a},
           \A c \in Connections : StartOn(c, a) => c < absentSeen,
           op[a].pc \notin Awaits \/ answer[a].ok, inbox' = inbox,
           Took(a) \/ (op[a].pc \notin Awaits /\ answer' = answer)
    PROVE  OAuthInvariant'
<1>1. /\ DesktopShape /\ WireShape /\ SoundEntry(led[a]) /\ PageFacts(a)
      /\ op[a].pc \notin Awaits => ~answer[a].ok
  BY DesktopOf
<1>2. PICK e : e = HostFree(led[a]) OBVIOUS
<1>3. /\ e \in Entry /\ SoundEntry(e) /\ Allowed(led[a], e) /\ e.phase = "failed" /\ e # NoEntry
      /\ Follows(e, rec[a])
  BY <1>1, <1>2, HostFreeEntry
<1>4. led' \in [Attempts -> Entry] /\ led'[a] = e /\ refused' = refused
      /\ \A b \in Attempts : b # a => led'[b] = led[b]
  BY <1>1, <1>2, <1>3, EnterKeeps
<1>5. op' \in [Attempts -> Operation] /\ op'[a].pc = "idle"
      /\ \A b \in Attempts : b # a => op'[b] = op[b]
  BY <1>1, Operations
<1>6. Alone(a)
  BY <1>1, <1>3, <1>4, <1>5 DEF Alone, DesktopShape
<1>7. UNCHANGED <<open, at, link, next, rec, absentSeen>> BY DEF theHost
<1>8. Begun(a)' BY <1>3, <1>4, <1>5 DEF Begun
<1>9. Wired(a) /\ \A c \in Connections : StartOn(c, a)' => StartOn(c, a)
  BY <1>4, <1>5, <1>7, <1>8, QuietWires
<1>10. ~answer'[a].ok
  <2>1. Took(a) => answer'[a] = NoAnswer BY <1>1 DEF Took, WireShape
  <2> QED BY <1>1, <2>1 DEF NoAnswer
<1>11. NeverBegins(a)' BY <1>3, <1>4, <1>5, <1>7, <1>9 DEF NeverBegins
<1>12. OperationFacts(a)' BY <1>5 DEF OperationFacts, Awaits
<1>13. PageFacts(a)' BY <1>1, <1>3, <1>4, <1>5 DEF PageFacts
<1> QED BY <1>3, <1>4, <1>5, <1>6, <1>9, <1>10, <1>11, <1>12, <1>13, AttemptKeeps

(* The mark before the start is sent, or its end when it became stale.      *)
LEMMA DispatchStartKeeps ==
    ASSUME OAuthInvariant, NEW a \in Attempts, DispatchStart(a)
    PROVE  OAuthInvariant'
<1>1. /\ DesktopShape /\ SoundEntry(led[a]) /\ led[a] \in Entry
      /\ OperationFacts(a) /\ AbsenceFacts(a) /\ PageFacts(a)
      /\ op[a].pc \in {"prepared", "marked"} => rec[a] = NoRecord
      /\ op[a].pc \notin Awaits => ~answer[a].ok
  BY DesktopOf
<1>2. op[a].pc = "prepared" /\ op[a].pc \notin Awaits
      /\ UNCHANGED <<theHost, inbox, answer, link, next, owed, eligible, told, pages, born>>
  BY DEF DispatchStart, calls, desktop, seen, past, Awaits
<1>3. led[a].phase = "prepared" /\ rec[a] = NoRecord /\ led[a] # NoEntry BY <1>1, <1>2 DEF OperationFacts
<1>4. ~Begun(a) BY <1>2 DEF Begun
<1>5. CASE op[a].stale
  <2>1. Enter(a, HostFree(led[a])) /\ Ends(a) BY <1>5 DEF DispatchStart
  <2>2. \A c \in Connections : StartOn(c, a) => c < absentSeen BY <1>4, NoStartYet
  <2> QED BY <1>2, <1>3, <2>1, <2>2, SettledAloneKeeps
<1>6. CASE ~op[a].stale
  <2>1. PICK e : e = [led[a] EXCEPT !.phase = "start_dispatching"] OBVIOUS
  <2>2. Enter(a, e) /\ To(a, "marked") BY <1>6, <2>1 DEF DispatchStart
  <2>3. "start_dispatching" \in EntryPhases /\ "none" \in Phases /\ "none" \in Whys
        /\ "marked" \in Places
    BY DEF EntryPhases, PhaseTransitions, Phases, Whys, Places
  <2>4. led[a].hostPhase = "none" /\ led[a].acked = FALSE
    BY <1>1, <1>3 DEF SoundEntry, Terminal, Entry
  <2>5. e \in Entry /\ e.phase = "start_dispatching" /\ e.hostPhase = "none" /\ e.acked = FALSE
    BY <1>1, <2>1, <2>3, <2>4, PhaseEntered
  <2>6. Coherent(e) BY <2>5 DEF Coherent, Terminal
  <2>7. SoundEntry(e) BY <2>5, <2>6 DEF SoundEntry
  <2>8. Allowed(led[a], e) BY <1>3, <2>4, <2>5, <2>6, PhaseRows DEF Allowed, HostPhaseFollows
  <2>9. led' \in [Attempts -> Entry] /\ led'[a] = e /\ refused' = refused
        /\ \A b \in Attempts : b # a => led'[b] = led[b]
    BY <1>1, <2>2, <2>5, <2>8, EnterKeeps
  <2>10. op' \in [Attempts -> Operation] /\ op'[a].pc = "marked" /\ op'[a].conn = op[a].conn
         /\ \A b \in Attempts : b # a => op'[b] = op[b]
    BY <1>1, <2>2, <2>3, Operations
  <2>11. Alone(a) BY <1>1, <1>2, <2>7, <2>9, <2>10 DEF Alone, DesktopShape
  <2>12. UNCHANGED <<open, at, link, next>> BY <1>2 DEF theHost
  <2>13. Wired(a) BY <1>2, <1>4, <2>9, <2>10, <2>12, QuietWires
  <2>14. Follows(e, rec[a]) BY <2>5 DEF Follows
  <2>15. OperationFacts(a)'
    BY <1>1, <1>2, <2>5, <2>9, <2>10, NoEntryFields DEF OperationFacts, Awaits
  <2>16. PageFacts(a)' BY <1>1, <1>2, <1>3, <2>5, <2>9, <2>10 DEF PageFacts
  <2>17. a \notin told BY <1>1, <1>2 DEF AbsenceFacts, NeverBegins
  <2> QED BY <1>1, <1>2, <1>3, <2>5, <2>9, <2>10, <2>11, <2>13, <2>14, <2>15, <2>16, <2>17, AttemptKeeps
<1> QED BY <1>5, <1>6

(* A request sent, or given up: the entry as it is, or one that follows.    *)
LEMMA AskedKeeps ==
    ASSUME OAuthInvariant, NEW a \in Attempts, Alone(a), Wired(a), answer'[a] = NoAnswer,
           pages' = pages, told' = told, op'[a].pc \notin {"prepared", "marked", "browser"},
           led'[a] # NoEntry, led'[a] = led[a] \/ led'[a].phase \notin {"none", "prepared", "failed"},
           Follows(led'[a], rec[a]), OperationFacts(a)', PageFacts(a)',
           NeverBegins(a) => \A c \in Connections : StartOn(c, a)' => StartOn(c, a)
    PROVE  OAuthInvariant'
<1>1. /\ led[a].phase \in {"none", "prepared"} => rec[a] = NoRecord
      /\ AbsenceFacts(a)
  BY DesktopOf
<1>2. ~answer'[a].ok BY DEF NoAnswer
<1>3. led'[a].phase \in {"none", "prepared"} => rec[a] = NoRecord BY <1>1
<1>4. a \in told' \/ (led'[a].phase = "failed" /\ led'[a].hostPhase = "none") => NeverBegins(a)
  BY <1>1 DEF AbsenceFacts
<1>5. UNCHANGED theHost BY DEF Alone
<1>6. NeverBegins(a) => NeverBegins(a)' BY <1>5, StillNeverBegins
<1> QED BY <1>2, <1>3, <1>4, <1>6, AttemptKeeps

(* The start is sent, once: none of the attempt was before.                 *)
LEMMA SendStartKeeps ==
    ASSUME OAuthInvariant, NEW a \in Attempts, SendStart(a)
    PROVE  OAuthInvariant'
<1>1. /\ DesktopShape /\ SoundEntry(led[a]) /\ led[a] \in Entry
      /\ OperationFacts(a) /\ AbsenceFacts(a) /\ PageFacts(a) /\ Follows(led[a], rec[a])
      /\ op[a].pc \in {"prepared", "marked"} => rec[a] = NoRecord
      /\ op[a].pc \notin Awaits => ~answer[a].ok
  BY DesktopOf
<1>2. op[a].pc = "marked" /\ op[a].pc \notin Awaits
      /\ UNCHANGED <<theHost, link, next, owed, eligible, told, pages>>
  BY DEF SendStart, desktop, past, Awaits
<1>3. led[a].phase = "start_dispatching" /\ rec[a] = NoRecord /\ led[a] # NoEntry
      /\ op[a].conn \in 1..next - 1
  BY <1>1, <1>2 DEF OperationFacts
<1>4. ~Begun(a) /\ a \notin told BY <1>1, <1>2 DEF Begun, AbsenceFacts, NeverBegins
<1>5. UNCHANGED <<open, at>> BY <1>2 DEF theHost
<1>6. CASE op[a].stale
  <2>1. Enter(a, HostFree(led[a])) /\ Ends(a) /\ UNCHANGED <<inbox, answer, born>>
    BY <1>6 DEF SendStart, calls
  <2>2. \A c \in Connections : StartOn(c, a) => c < absentSeen BY <1>4, NoStartYet
  <2> QED BY <1>2, <1>3, <2>1, <2>2, SettledAloneKeeps
<1>7. CASE ~op[a].stale /\ op[a].conn # link
  <2>1. Ends(a) /\ UNCHANGED <<led, refused, inbox, answer, born>>
    BY <1>7 DEF SendStart, calls
  <2>2. op' \in [Attempts -> Operation] /\ op'[a].pc = "idle"
        /\ \A b \in Attempts : b # a => op'[b] = op[b]
    BY <1>1, <2>1, Operations
  <2>3. Alone(a) BY <1>1, <1>2, <2>1, <2>2 DEF Alone, DesktopShape
  <2>4. Wired(a) BY <1>2, <1>4, <1>5, <2>1, <2>2, QuietWires
  <2>5. OperationFacts(a)' BY <2>2 DEF OperationFacts, Awaits
  <2>6. PageFacts(a)' BY <1>1, <1>2, <2>1, <2>2 DEF PageFacts
  <2> QED BY <1>1, <1>2, <1>3, <1>4, <2>1, <2>2, <2>3, <2>4, <2>5, <2>6, AttemptKeeps
<1>8. CASE ~op[a].stale /\ op[a].conn = link
  <2>1. /\ Sent(a, "start", 0) /\ To(a, "start") /\ born' = born \cup {a}
        /\ UNCHANGED <<led, refused>>
    BY <1>8 DEF SendStart
  <2>2. "start" \in Places /\ "start" \in Awaits /\ KindOf["start"] = "start"
    BY DEF Places, Awaits, KindOf
  <2>3. op' \in [Attempts -> Operation] /\ op'[a].pc = "start" /\ op'[a].conn = op[a].conn
        /\ \A b \in Attempts : b # a => op'[b] = op[b]
    BY <1>1, <2>1, <2>2, Operations
  <2>4. Alone(a) BY <1>1, <1>2, <2>1, <2>3 DEF Alone, DesktopShape
  <2>5. Begun(a)' BY <1>3, <2>1, <2>3 DEF Begun
  <2>6. link # 0 BY <1>3, <1>8
  <2>7. Wired(a) /\ answer'[a] = NoAnswer
    BY <1>2, <1>5, <2>1, <2>2, <2>3, <2>5, <2>6, SentWires
  <2>8. OperationFacts(a)'
    BY <1>2, <1>3, <1>8, <2>1, <2>3, <2>6 DEF OperationFacts
  <2>9. PageFacts(a)' BY <1>1, <1>2, <1>3, <2>1, <2>3 DEF PageFacts
  <2>10. ~answer'[a].ok BY <2>7 DEF NoAnswer
  <2> QED BY <1>1, <1>2, <1>3, <1>4, <2>1, <2>3, <2>4, <2>7, <2>8, <2>9, <2>10, AttemptKeeps
<1> QED BY <1>6, <1>7, <1>8

(* An entry that holds up others is there.                                  *)
LEMMA BarrierEntry ==
    ASSUME NEW e, SoundEntry(e), DesktopBarrier(e)
    PROVE  e # NoEntry /\ e.phase # "none"
  BY NoEntryFields DEF DesktopBarrier, Unsettled, SoundEntry

(* A request for an attempt whose entry stays as it is.                     *)
LEMMA SentKeeps ==
    ASSUME OAuthInvariant, NEW a \in Attempts, link # 0, led[a] # NoEntry,
           op[a].pc \notin {"prepared", "marked"}, NEW rev \in Nat,
           NEW kind \in {"status", "cancel", "ack"}, Sent(a, kind, rev),
           op' \in [Attempts -> Operation], \A b \in Attempts : b # a => op'[b] = op[b],
           op'[a].pc \in Awaits, kind = KindOf[op'[a].pc], op'[a].conn = link,
           op'[a].pc \in {"ack", "ackStatus"} => led[a].phase \in Terminal /\ led[a].hostPhase # "none",
           op'[a].pc = "startStatus" => op[a].pc \in {"start", "startStatus"},
           UNCHANGED <<theHost, refused, led, link, next, told, pages, born>>,
           owed' \subseteq owed, eligible' \subseteq eligible
    PROVE  OAuthInvariant'
<1>1. /\ DesktopShape /\ SoundEntry(led[a]) /\ led[a] \in Entry
      /\ OperationFacts(a) /\ PageFacts(a) /\ Follows(led[a], rec[a])
  BY DesktopOf
<1>2. Alone(a) BY <1>1 DEF Alone, DesktopShape
<1>3. UNCHANGED <<open, at>> BY DEF theHost
<1>4. op'[a].pc \notin {"prepared", "marked", "browser", "idle", "opened", "observing"}
      /\ op'[a].pc # "start"
  BY DEF Awaits, KindOf
<1>5. Begun(a) => Begun(a)' BY <1>4 DEF Begun
<1>6. /\ Wired(a) /\ answer'[a] = NoAnswer
      /\ \A c \in Connections : StartOn(c, a)' => StartOn(c, a)
  BY <1>3, <1>5, SentWires
<1>7. OperationFacts(a)'
  <2>1. link \in 1..next - 1 BY <1>1, LinkIsConnection
  <2> QED BY <1>4, <2>1 DEF OperationFacts
<1>8. PageFacts(a)' BY <1>1, <1>4 DEF PageFacts
<1> QED BY <1>1, <1>2, <1>4, <1>6, <1>7, <1>8, AskedKeeps

(* A read of the status.                                                    *)
LEMMA AskStatusKeeps ==
    ASSUME OAuthInvariant, NEW a \in Attempts, AskStatus(a)
    PROVE  OAuthInvariant'
<1>1. DesktopShape /\ SoundEntry(led[a]) BY DesktopOf
<1>2. /\ link # 0 /\ op[a].pc = "idle" /\ DesktopBarrier(led[a])
      /\ Sent(a, "status", 0) /\ Begin(a, "status") /\ owed' \subseteq owed
      /\ UNCHANGED <<theHost, refused, led, link, next, eligible, told, pages, born>>
  BY DEF AskStatus, seen, past
<1>3. "status" \in Places /\ "status" \in Awaits /\ KindOf["status"] = "status"
  BY DEF Places, Awaits, KindOf
<1>4. op' \in [Attempts -> Operation] /\ op'[a].pc = "status" /\ op'[a].conn = link
      /\ \A b \in Attempts : b # a => op'[b] = op[b]
  BY <1>1, <1>2, <1>3, Operations
<1> QED BY <1>1, <1>2, <1>3, <1>4, BarrierEntry, SentKeeps

(* A cancellation; the ledger allows it from every phase it is made in.     *)
LEMMA CancelSignInKeeps ==
    ASSUME OAuthInvariant, NEW a \in Attempts, CancelSignIn(a)
    PROVE  OAuthInvariant'
<1>1. /\ DesktopShape /\ SoundEntry(led[a]) /\ led[a] \in Entry
      /\ OperationFacts(a) /\ AbsenceFacts(a) /\ PageFacts(a) /\ Follows(led[a], rec[a])
  BY DesktopOf
<1>2. /\ link # 0 /\ op[a].pc = "idle" /\ DesktopBarrier(led[a]) /\ led[a].hostPhase # "none"
      /\ eligible' = eligible \ {a}
      /\ UNCHANGED <<theHost, link, next, owed, told, pages, born>>
  BY DEF CancelSignIn, desktop, seen, past
<1>3. led[a] # NoEntry /\ led[a].phase # "none" /\ rec[a] # NoRecord
  BY <1>1, <1>2, BarrierEntry DEF Follows
<1>4. CASE led[a].phase \in Terminal \cup {"cancel_dispatching"}
  <2>1. Sent(a, "status", 0) /\ Begin(a, "status") /\ UNCHANGED <<led, refused>>
    BY <1>4 DEF CancelSignIn
  <2>2. "status" \in Places /\ "status" \in Awaits /\ KindOf["status"] = "status"
    BY DEF Places, Awaits, KindOf
  <2>3. op' \in [Attempts -> Operation] /\ op'[a].pc = "status" /\ op'[a].conn = link
        /\ \A b \in Attempts : b # a => op'[b] = op[b]
    BY <1>1, <1>2, <2>1, <2>2, Operations
  <2> QED BY <1>2, <1>3, <2>1, <2>2, <2>3, SentKeeps
<1>5. CASE led[a].phase \notin Terminal \cup {"cancel_dispatching"}
  <2>1. PICK e : e = [led[a] EXCEPT !.phase = "cancel_dispatching"] OBVIOUS
  <2>2. Enter(a, e) /\ Sent(a, "cancel", 0) /\ Begin(a, "cancel")
    BY <1>5, <2>1 DEF CancelSignIn
  <2>3. "cancel" \in Places /\ "cancel" \in Awaits /\ KindOf["cancel"] = "cancel"
        /\ "cancel_dispatching" \in EntryPhases
    BY DEF Places, Awaits, KindOf, EntryPhases, PhaseTransitions
  <2>4. op' \in [Attempts -> Operation] /\ op'[a].pc = "cancel" /\ op'[a].conn = link
        /\ op'[a].conn \in 1..next - 1 /\ \A b \in Attempts : b # a => op'[b] = op[b]
    BY <1>1, <1>2, <2>2, <2>3, Operations
  <2>5. e \in Entry /\ e.phase = "cancel_dispatching" /\ e.hostPhase = led[a].hostPhase
        /\ e.why = led[a].why /\ e.acked = led[a].acked
    BY <1>1, <2>1, <2>3, PhaseEntered
  <2>6. led[a].acked = FALSE BY <1>1, <1>5 DEF SoundEntry, Entry
  <2>7. Coherent(e) BY <2>5 DEF Coherent, Terminal
  <2>8. SoundEntry(e) BY <1>2, <2>5, <2>6, <2>7 DEF SoundEntry, Terminal
  <2>9. led[a].phase \in {"host_admitted", "browser_dispatching", "browser_opened", "observing",
                          "recovery_required"}
    <3>1. led[a].phase \notin {"none", "prepared", "start_dispatching"} BY <1>1, <1>2 DEF SoundEntry
    <3> QED BY <1>1, <1>5, <3>1, NoEntryFields
  <2>10. HostPhaseFollows(led[a].hostPhase, led[a].hostPhase)
    <3>1. led[a].hostPhase \in Phases BY <1>1 DEF Entry
    <3> QED BY <1>2, <3>1, PhaseFollows
  <2>11. Allowed(led[a], e) BY <2>5, <2>7, <2>9, <2>10, PhaseRows DEF Allowed
  <2>12. led' \in [Attempts -> Entry] /\ led'[a] = e /\ refused' = refused
         /\ \A b \in Attempts : b # a => led'[b] = led[b]
    BY <1>1, <2>2, <2>5, <2>11, EnterKeeps
  <2>13. Alone(a) BY <1>1, <1>2, <2>4, <2>8, <2>12 DEF Alone, DesktopShape
  <2>14. UNCHANGED <<open, at>> BY <1>2 DEF theHost
  <2>15. Begun(a)' BY <2>4, <2>5, <2>12 DEF Begun
  <2>16. /\ Wired(a) /\ answer'[a] = NoAnswer
         /\ \A c \in Connections : StartOn(c, a)' => StartOn(c, a)
    BY <1>2, <2>2, <2>3, <2>4, <2>12, <2>14, <2>15, SentWires
  <2>17. Follows(e, rec[a]) BY <1>1, <2>5, <2>6 DEF Follows, Terminal
  <2>18. OperationFacts(a)'
    BY <1>2, <2>4, <2>5, <2>12, NoEntryFields DEF OperationFacts
  <2>19. PageFacts(a)' BY <1>2, <2>4, <2>5, <2>12 DEF PageFacts
  <2> QED BY <1>2, <2>4, <2>5, <2>12, <2>13, <2>16, <2>17, <2>18, <2>19, NoEntryFields, AskedKeeps
<1> QED BY <1>4, <1>5

(* An operation that ends with its entry as it is.                          *)
LEMMA EndsKeeps ==
    ASSUME OAuthInvariant, NEW a \in Attempts, Ends(a), op[a].pc \notin {"idle", "prepared", "marked"},
           UNCHANGED <<theHost, refused, led, link, next, owed, told, pages, born>>,
           eligible' \subseteq Attempts, \A b \in Attempts : b # a => (b \in eligible' => b \in eligible),
           a \in eligible' => a \in born,
           \/ Took(a) /\ inbox' = inbox /\ answer[a].ok
           \/ GivenUp(a) /\ link # 0
    PROVE  OAuthInvariant'
<1>1. /\ DesktopShape /\ WireShape /\ SoundEntry(led[a]) /\ led[a] \in Entry
      /\ OperationFacts(a) /\ PageFacts(a) /\ Follows(led[a], rec[a])
  BY DesktopOf
<1>2. op' \in [Attempts -> Operation] /\ op'[a].pc = "idle"
      /\ \A b \in Attempts : b # a => op'[b] = op[b]
  BY <1>1, Operations
<1>3. Alone(a) BY <1>1, <1>2 DEF Alone, DesktopShape
<1>4. UNCHANGED <<open, at>> BY DEF theHost
<1>5. Begun(a) => Begun(a)' BY <1>2 DEF Begun
<1>6. /\ Wired(a) /\ \A c \in Connections : StartOn(c, a)' => StartOn(c, a)
  BY <1>2, <1>4, <1>5, QuietWires, GivenUpWires
<1>7. answer'[a] = NoAnswer BY <1>1 DEF Took, GivenUp, WireShape
<1>8. OperationFacts(a)' BY <1>2 DEF OperationFacts, Awaits
<1>9. PageFacts(a)' BY <1>1, <1>2 DEF PageFacts
<1>10. led[a] # NoEntry BY <1>1 DEF OperationFacts
<1> QED BY <1>1, <1>2, <1>3, <1>6, <1>7, <1>8, <1>9, <1>10, AskedKeeps

(* No answer: the outcome is read from the status, or given up.             *)
LEMMA UnansweredKeeps ==
    ASSUME OAuthInvariant, NEW a \in Attempts, Unanswered(a)
    PROVE  OAuthInvariant'
<1>1. DesktopShape /\ OperationFacts(a) /\ PageFacts(a) BY DesktopOf
<1>2. op[a].pc \in Awaits
      /\ UNCHANGED <<theHost, refused, led, link, next, owed, eligible, told, pages, born>>
  BY DEF Unanswered, desktop, seen, past
<1>3. /\ link # 0 /\ op[a].conn = link /\ led[a] # NoEntry
      /\ op[a].pc \notin {"idle", "prepared", "marked"}
      /\ op[a].pc = "ack" => led[a].phase \in Terminal /\ led[a].hostPhase # "none"
      /\ eligible \subseteq Attempts /\ (a \in eligible => a \in born)
  BY <1>1, <1>2 DEF OperationFacts, Awaits, DesktopShape, PageFacts
<1>4. CASE op[a].pc \in DOMAIN ReadInstead
  <2>1. PICK pc : pc = ReadInstead[op[a].pc] OBVIOUS
  <2>2. Sent(a, "status", 0) /\ To(a, pc) BY <1>4, <2>1 DEF Unanswered
  <2>3. /\ pc \in {"startStatus", "status", "ackStatus"}
        /\ (pc = "startStatus" => op[a].pc = "start") /\ (pc = "ackStatus" => op[a].pc = "ack")
    BY <1>4, <2>1 DEF ReadInstead
  <2>4. pc \in Places /\ pc \in Awaits /\ KindOf[pc] = "status"
    BY <2>3 DEF Places, Awaits, KindOf
  <2>5. op' \in [Attempts -> Operation] /\ op'[a].pc = pc /\ op'[a].conn = op[a].conn
        /\ \A b \in Attempts : b # a => op'[b] = op[b]
    BY <1>1, <2>2, <2>4, Operations
  <2> QED BY <1>2, <1>3, <2>2, <2>3, <2>4, <2>5, SentKeeps
<1>5. CASE op[a].pc \notin DOMAIN ReadInstead
  <2>1. GivenUp(a) /\ Ends(a) BY <1>5 DEF Unanswered
  <2> QED BY <1>2, <1>3, <2>1, EndsKeeps
<1> QED BY <1>4, <1>5

(* An absence is told of an attempt whose entry never had a phase of the    *)
(* host, so the ledger is never set back by one.                            *)
LEMMA AcceptAbsenceKeeps ==
    ASSUME OAuthInvariant, NEW a \in Attempts, AcceptAbsence(a)
    PROVE  OAuthInvariant'
<1>1. /\ DesktopShape /\ WireShape /\ SoundEntry(led[a]) /\ led[a] \in Entry
      /\ OperationFacts(a) /\ AbsenceFacts(a) /\ PageFacts(a) /\ Follows(led[a], rec[a])
  BY DesktopOf
<1>2. /\ op[a].pc \in {"start", "startStatus", "status", "cancel"} /\ answer[a].ok
      /\ answer[a].rec = NoRecord /\ told' = told \cup {a} /\ Ends(a) /\ Took(a)
      /\ UNCHANGED <<theHost, inbox, link, next, owed, eligible, born, pages>>
  BY DEF AcceptAbsence, Accepting, desktop
<1>3. NeverBegins(a) BY <1>1, <1>2 DEF AbsenceFacts
<1>4. rec[a] = NoRecord /\ led[a] # NoEntry /\ \A c \in Connections : StartOn(c, a) => c < absentSeen
  BY <1>3 DEF NeverBegins
<1>5. led[a].phase \in {"prepared", "start_dispatching", "failed"}
  <2>1. led[a].hostPhase = "none" BY <1>1, <1>4 DEF Follows
  <2>2. led[a].phase # "none" BY <1>1, <1>4 DEF SoundEntry
  <2> QED BY <1>1, <2>1, <2>2, NoEntryFields DEF SoundEntry, Coherent, Terminal
<1>6. CASE led[a].phase = "prepared" \/ (led[a].phase = "start_dispatching" /\ op[a].pc = "startStatus")
  <2>1. Enter(a, HostFree(led[a])) BY <1>6 DEF AcceptAbsence
  <2>2. told' \subseteq told \cup {a} BY <1>2
  <2> QED BY <1>2, <1>4, <1>5, <1>6, <2>1, <2>2, SettledAloneKeeps
<1>7. CASE ~(led[a].phase = "prepared" \/ (led[a].phase = "start_dispatching" /\ op[a].pc = "startStatus"))
  <2>1. UNCHANGED <<led, refused>> BY <1>5, <1>7 DEF AcceptAbsence, Terminal
  <2>2. op' \in [Attempts -> Operation] /\ op'[a].pc = "idle"
        /\ \A b \in Attempts : b # a => op'[b] = op[b]
    BY <1>1, <1>2, Operations
  <2>3. Alone(a) BY <1>1, <1>2, <2>1, <2>2 DEF Alone, DesktopShape
  <2>4. UNCHANGED <<open, at>> BY <1>2 DEF theHost
  <2>5. Begun(a) => Begun(a)' BY <2>1, <2>2 DEF Begun
  <2>6. Wired(a) /\ \A c \in Connections : StartOn(c, a)' => StartOn(c, a)
    BY <1>2, <2>1, <2>2, <2>4, <2>5, QuietWires
  <2>7. answer'[a] = NoAnswer BY <1>1, <1>2 DEF Took, WireShape
  <2>8. OperationFacts(a)' BY <2>2 DEF OperationFacts, Awaits
  <2>9. PageFacts(a)' BY <1>1, <1>2, <2>1, <2>2 DEF PageFacts
  <2>10. NeverBegins(a)' BY <1>2, <1>3, <1>4, <2>1, <2>2, <2>6, StillNeverBegins
  <2>11. ~answer'[a].ok BY <2>7 DEF NoAnswer
  <2> QED BY <1>1, <1>4, <2>1, <2>2, <2>3, <2>6, <2>8, <2>9, <2>10, <2>11, AttemptKeeps
<1> QED BY <1>6, <1>7

(* What a record that was heard says: the ledger is never ahead of it.      *)
LEMMA HeardRecord ==
    ASSUME OAuthInvariant, NEW a \in Attempts, answer[a].ok, answer[a].rec # NoRecord
    PROVE  /\ Sound(answer[a].rec) /\ answer[a].rec \in RecordShape
           /\ answer[a].rec.phase \in Phases \ {"none"} /\ answer[a].rec.why \in Whys
           /\ rec[a] # NoRecord /\ Became(answer[a].rec, rec[a])
           /\ Follows(led[a], answer[a].rec) /\ HostPhaseFollows(led[a].hostPhase, answer[a].rec.phase)
           /\ ~NeverBegins(a) /\ a \notin told /\ led[a].phase \notin {"none", "prepared"}
           /\ led[a].phase \in Terminal => led[a].hostPhase # "none"
           /\ ~Contradicts(led[a], answer[a].rec)
           /\ SignedIn(answer[a].rec) => pages[a] # <<>>
           /\ op[a].pc \in Awaits
<1>1. /\ SoundEntry(led[a]) /\ led[a] \in Entry /\ AnswerFacts(a) /\ AbsenceFacts(a)
      /\ led[a].phase \in {"none", "prepared"} => rec[a] = NoRecord
  BY DesktopOf
<1>2. PICK r : r = answer[a].rec OBVIOUS
<1>3. /\ Sound(r) /\ r # NoRecord /\ Became(r, rec[a]) /\ Follows(led[a], r)
      /\ SignedIn(r) => pages[a] # <<>>
      /\ op[a].pc \in Awaits
  BY <1>1, <1>2 DEF AnswerFacts
<1>4. r \in RecordShape /\ r.phase \in Phases \ {"none"} /\ r.why \in Whys
  BY <1>3 DEF Sound, RecordShape
<1>5. rec[a] # NoRecord BY <1>3 DEF Became
<1>6. ~NeverBegins(a) /\ a \notin told /\ led[a].phase \notin {"none", "prepared"}
      /\ ~(led[a].phase = "failed" /\ led[a].hostPhase = "none")
  BY <1>1, <1>5 DEF AbsenceFacts, NeverBegins
<1>7. led[a].phase \in Terminal => led[a].hostPhase # "none"
  BY <1>1, <1>6 DEF SoundEntry, Terminal
<1>8. HostPhaseFollows(led[a].hostPhase, r.phase)
  BY <1>3 DEF Follows, Later, HostPhaseFollows
<1>9. ~Contradicts(led[a], r)
  BY <1>3, <1>6, <1>7, <1>8 DEF Contradicts, Follows
<1> QED BY <1>2, <1>3, <1>4, <1>5, <1>6, <1>7, <1>8, <1>9

(* The ledger takes what it makes of a record that follows on its entry.    *)
LEMMA NotedSound ==
    ASSUME NEW e, SoundEntry(e), NEW r, Sound(r), r # NoRecord, Follows(e, r),
           HostPhaseFollows(e.hostPhase, r.phase), e.phase \notin {"none", "prepared"},
           Noted(e, r) # e
    PROVE  /\ Allowed(e, Noted(e, r)) /\ SoundEntry(Noted(e, r)) /\ Noted(e, r) \in Entry
           /\ Follows(Noted(e, r), r)
           /\ Noted(e, r).phase \notin {"none", "prepared", "start_dispatching"}
           /\ Noted(e, r).phase = "host_admitted" => e.phase = "start_dispatching"
           /\ Noted(e, r).hostPhase # "none"
<1>1. r \in RecordShape /\ r.phase \in Phases \ {"none"} /\ r.why \in Whys /\ e \in Entry
  BY DEF Sound, RecordShape, SoundEntry
<1>2. PICK f : f = Noted(e, r) OBVIOUS
<1>3. Unsettled(e) BY DEF Noted
<1>4. e.acked = FALSE /\ e.phase \in {"start_dispatching", "host_admitted", "browser_dispatching",
            "browser_opened", "observing", "cancel_dispatching", "recovery_required"}
  BY <1>1, <1>3, NoEntryFields DEF Unsettled, SoundEntry, Entry
<1>5. CASE e.phase = "start_dispatching" /\ r.phase \notin {"failed", "recovery_required"}
  <2>1. PICK h : h = IF r.phase = "completed" THEN "persistence_dispatching"
                     ELSE IF r.phase = "cancelled" THEN "cancelling" ELSE r.phase
    OBVIOUS
  <2>2. f = [e EXCEPT !.phase = "host_admitted", !.hostPhase = h]
    BY <1>2, <1>3, <1>5, <2>1 DEF Noted
  <2>3. h \in {"prepared", "login_dispatching", "credentials_ready", "persistence_dispatching", "cancelling"}
        /\ h \in Phases
    BY <1>1, <1>5, <2>1 DEF Phases, Terminal
  <2>4. "host_admitted" \in EntryPhases BY DEF EntryPhases, PhaseTransitions
  <2>5. f \in Entry /\ f.phase = "host_admitted" /\ f.hostPhase = h /\ f.acked = FALSE
    BY <1>1, <1>4, <2>2, <2>3, <2>4, EntryIsShape DEF EntryShape
  <2>6. Coherent(f) BY <2>3, <2>5 DEF Coherent, Terminal
  <2>7. SoundEntry(f) BY <2>5, <2>6 DEF SoundEntry, Terminal
  <2>8. e.hostPhase = "none" BY <1>5 DEF SoundEntry
  <2>9. Allowed(e, f) BY <1>5, <2>5, <2>6, <2>8, PhaseRows DEF Allowed, HostPhaseFollows
  <2>10. Later(h, r.phase) BY <1>1, <2>1, <2>3, PhaseFollows DEF Later
  <2>11. Follows(f, r) BY <2>5, <2>10 DEF Follows, Terminal
  <2> QED BY <1>2, <1>5, <2>3, <2>5, <2>7, <2>9, <2>11
<1>6. CASE r.phase = "recovery_required"
  <2>1. f = [e EXCEPT !.phase = "recovery_required", !.hostPhase = "recovery_required"]
    BY <1>2, <1>3, <1>6 DEF Noted, Terminal
  <2>2. "recovery_required" \in EntryPhases /\ "recovery_required" \in Phases
    BY DEF EntryPhases, PhaseTransitions, Phases
  <2>3. f \in Entry /\ f.phase = "recovery_required" /\ f.hostPhase = "recovery_required"
        /\ f.acked = FALSE /\ f.why = e.why
    BY <1>1, <1>4, <2>1, <2>2, EntryIsShape DEF EntryShape
  <2>4. Coherent(f) BY <2>3 DEF Coherent, Terminal
  <2>5. SoundEntry(f) BY <2>3, <2>4 DEF SoundEntry, Terminal
  <2>6. e.phase # "recovery_required"
    <3>1. SUFFICES ASSUME e.phase = "recovery_required" PROVE f = e
      BY <1>2
    <3>2. e.hostPhase = "recovery_required" BY <3>1 DEF SoundEntry, Coherent
    <3> QED BY <1>1, <1>4, <2>1, <3>1, <3>2 DEF Entry
  <2>7. Allowed(e, f) BY <1>4, <1>6, <2>3, <2>4, <2>6, PhaseRows DEF Allowed
  <2>8. Later("recovery_required", "recovery_required") BY <2>2, PhaseFollows DEF Later
  <2>9. Follows(f, r) BY <1>6, <2>3, <2>8 DEF Follows, Terminal
  <2> QED BY <1>2, <2>3, <2>5, <2>7, <2>9
<1>7. CASE r.phase \in Terminal /\ (e.phase # "start_dispatching" \/ r.phase = "failed")
  <2>1. f = [e EXCEPT !.phase = r.phase, !.hostPhase = r.phase, !.why = r.why]
    BY <1>2, <1>3, <1>7 DEF Noted, Terminal
  <2>2. r.phase \in EntryPhases BY <1>7 DEF EntryPhases, PhaseTransitions, Terminal
  <2>3. f \in Entry /\ f.phase = r.phase /\ f.hostPhase = r.phase /\ f.why = r.why
        /\ f.acked = FALSE
    BY <1>1, <1>4, <2>1, <2>2, EntryIsShape DEF EntryShape
  <2>4. Coherent(f) BY <1>7, <2>3 DEF Coherent, Terminal
  <2>5. SoundEntry(f) BY <1>7, <2>3, <2>4 DEF SoundEntry, Terminal
  <2>6. Allowed(e, f) BY <1>4, <1>7, <2>3, <2>4, PhaseRows DEF Allowed, Terminal
  <2>7. Later(r.phase, r.phase) BY <1>1, <1>7, PhaseFollows DEF Later
  <2>8. Follows(f, r) BY <2>3, <2>7 DEF Follows
  <2> QED BY <1>2, <1>7, <2>3, <2>5, <2>6, <2>8 DEF Terminal
<1>8. CASE /\ e.phase # "start_dispatching" \/ r.phase \in {"failed", "recovery_required"}
           /\ r.phase # "recovery_required"
           /\ ~(r.phase \in Terminal /\ (e.phase # "start_dispatching" \/ r.phase = "failed"))
  BY <1>3, <1>8 DEF Noted
<1> QED BY <1>5, <1>6, <1>7, <1>8

(* A record is never a contradiction and the ledger takes what is made of   *)
(* it: the desktop gives up no connection over one.                         *)
LEMMA AcceptRecordKeeps ==
    ASSUME OAuthInvariant, NEW a \in Attempts, AcceptRecord(a)
    PROVE  OAuthInvariant'
<1>1. /\ DesktopShape /\ WireShape /\ SoundEntry(led[a]) /\ led[a] \in Entry
      /\ OperationFacts(a) /\ AnswerFacts(a) /\ PageFacts(a) /\ Sound(rec[a])
  BY DesktopOf
<1>2. PICK r : r = answer[a].rec OBVIOUS
<1>3. PICK f : f = Noted(led[a], r) OBVIOUS
<1>4. /\ op[a].pc \in {"start", "startStatus", "status", "cancel"} /\ answer[a].ok /\ r # NoRecord
      /\ Contradicts(led[a], r) \/ f # led[a]
      /\ IF ~Contradicts(led[a], r) /\ Allowed(led[a], f)
         THEN Enter(a, f) /\ UNCHANGED <<theHost, calls, op, desktop, eligible, seen>>
         ELSE Reject
  BY <1>2, <1>3 DEF AcceptRecord, Accepting
<1>5. /\ Sound(r) /\ rec[a] # NoRecord /\ Became(r, rec[a]) /\ Follows(led[a], r)
      /\ HostPhaseFollows(led[a].hostPhase, r.phase) /\ ~NeverBegins(a) /\ a \notin told
      /\ led[a].phase \notin {"none", "prepared"} /\ ~Contradicts(led[a], r)
      /\ SignedIn(r) => pages[a] # <<>>
  BY <1>2, <1>4, HeardRecord
<1>6. /\ Allowed(led[a], f) /\ SoundEntry(f) /\ f \in Entry /\ Follows(f, r)
      /\ f.phase \notin {"none", "prepared", "start_dispatching"}
      /\ f.phase = "host_admitted" => led[a].phase = "start_dispatching"
      /\ f.hostPhase # "none"
  <2>1. Noted(led[a], r) # led[a] BY <1>3, <1>4, <1>5
  <2> QED BY <1>1, <1>3, <1>4, <1>5, <2>1, NotedSound
<1>7. Enter(a, f) /\ UNCHANGED <<theHost, inbox, answer, op, link, next, owed, eligible, told, born, pages>>
  BY <1>4, <1>5, <1>6 DEF calls, desktop, seen, past
<1>8. led' \in [Attempts -> Entry] /\ led'[a] = f /\ refused' = refused
      /\ \A b \in Attempts : b # a => led'[b] = led[b]
  BY <1>1, <1>6, <1>7, EnterKeeps
<1>9. Alone(a) BY <1>1, <1>6, <1>7, <1>8 DEF Alone, DesktopShape
<1>10. UNCHANGED <<open, at>> BY <1>7 DEF theHost
<1>11. Begun(a)' BY <1>4, <1>6, <1>7, <1>8 DEF Begun
<1>12. Wired(a) BY <1>4, <1>7, <1>8, <1>10, <1>11, QuietWires
<1>13. Follows(f, rec[a]) BY <1>1, <1>5, <1>6, FollowsBecame
<1>14. UNCHANGED rec BY <1>7 DEF theHost
<1>15. f # NoEntry BY <1>6, NoEntryFields
<1>16. OperationFacts(a)' BY <1>1, <1>4, <1>7, <1>8, <1>15 DEF OperationFacts, Awaits
<1>17. AnswerFacts(a)' BY <1>1, <1>2, <1>6, <1>7, <1>8, <1>14 DEF AnswerFacts
<1>18. AbsenceFacts(a)' BY <1>2, <1>4, <1>5, <1>6, <1>7, <1>8 DEF AbsenceFacts
<1>19. PageFacts(a)' BY <1>1, <1>4, <1>6, <1>7, <1>8 DEF PageFacts
<1>20. DesktopFacts(a)'
  BY <1>4, <1>6, <1>7, <1>8, <1>13, <1>14, <1>16, <1>17, <1>18, <1>19 DEF DesktopFacts
<1> QED BY <1>9, <1>12, <1>20, DesktopStepKeeps

(* An entry in step with a settled record is settled.                       *)
LEMMA SettledInStep ==
    ASSUME OAuthInvariant, NEW a \in Attempts, InStep(a), answer[a].rec.phase \in Terminal
    PROVE  led[a].phase \in Terminal /\ led[a].hostPhase # "none" /\ led[a] # NoEntry
<1>1. PICK r : r = answer[a].rec OBVIOUS
<1>2. /\ answer[a].ok /\ r # NoRecord /\ Noted(led[a], r) = led[a] /\ r.phase \in Terminal
  BY <1>1 DEF InStep, Accepting
<1>3. /\ led[a].phase \notin {"none", "prepared"}
      /\ led[a].phase \in Terminal => led[a].hostPhase # "none"
      /\ SoundEntry(led[a]) /\ led[a] \in Entry /\ r.why \in Whys
  BY <1>1, <1>2, HeardRecord, DesktopOf
<1>4. led[a].phase \in Terminal
  <2>1. SUFFICES ASSUME led[a].phase \notin Terminal PROVE FALSE OBVIOUS
  <2>2. Unsettled(led[a]) BY <1>3, <2>1 DEF Unsettled
  <2>3. PICK e : e = led[a] OBVIOUS
  <2>4. CASE e.phase = "start_dispatching" /\ r.phase # "failed"
    <3>1. PICK h : h = IF r.phase = "completed" THEN "persistence_dispatching"
                       ELSE IF r.phase = "cancelled" THEN "cancelling" ELSE r.phase
      OBVIOUS
    <3>2. e = [e EXCEPT !.phase = "host_admitted", !.hostPhase = h]
      BY <1>2, <2>2, <2>3, <2>4, <3>1 DEF Noted, Terminal
    <3>3. [e EXCEPT !.phase = "host_admitted", !.hostPhase = h].phase = "host_admitted"
      BY <1>3, <2>3 DEF Entry
    <3> QED BY <2>4, <3>2, <3>3
  <2>5. CASE e.phase # "start_dispatching" \/ r.phase = "failed"
    <3>1. e = [e EXCEPT !.phase = r.phase, !.hostPhase = r.phase, !.why = r.why]
      BY <1>2, <2>2, <2>3, <2>5 DEF Noted, Terminal
    <3>2. [e EXCEPT !.phase = r.phase, !.hostPhase = r.phase, !.why = r.why].phase = r.phase
      BY <1>3, <2>3 DEF Entry
    <3> QED BY <1>2, <2>1, <2>3, <3>1, <3>2
  <2> QED BY <2>4, <2>5
<1> QED BY <1>3, <1>4, NoEntryFields DEF Terminal

(* An acknowledgement is asked for what the ledger has as settled.          *)
LEMMA AskAcknowledgementKeeps ==
    ASSUME OAuthInvariant, NEW a \in Attempts, AskAcknowledgement(a)
    PROVE  OAuthInvariant'
<1>1. DesktopShape /\ OperationFacts(a) BY DesktopOf
<1>2. /\ InStep(a) /\ answer[a].rec.phase \in Terminal
      /\ Sent(a, "ack", answer[a].rec.rev) /\ To(a, "ack")
      /\ eligible' \subseteq eligible
      /\ UNCHANGED <<theHost, refused, led, link, next, owed, told, born, pages>>
  BY DEF AskAcknowledgement, desktop, seen, past
<1>3. op[a].pc \in {"start", "startStatus", "status", "cancel"} /\ answer[a].ok /\ answer[a].rec # NoRecord
  BY <1>2 DEF InStep, Accepting
<1>4. answer[a].rec.rev \in Nat BY <1>3, HeardRecord DEF RecordShape
<1>5. "ack" \in Places /\ "ack" \in Awaits /\ KindOf["ack"] = "ack" BY DEF Places, Awaits, KindOf
<1>6. op' \in [Attempts -> Operation] /\ op'[a].pc = "ack" /\ op'[a].conn = op[a].conn
      /\ \A b \in Attempts : b # a => op'[b] = op[b]
  BY <1>1, <1>2, <1>5, Operations
<1>7. led[a].phase \in Terminal /\ led[a].hostPhase # "none" /\ led[a] # NoEntry
  BY <1>2, SettledInStep
<1>8. link # 0 /\ op[a].conn = link BY <1>1, <1>3 DEF OperationFacts, Awaits
<1> QED BY <1>2, <1>3, <1>4, <1>5, <1>6, <1>7, <1>8, SentKeeps

(* An acknowledgement is noted once the host has it on record.              *)
LEMMA NoteAcknowledgementKeeps ==
    ASSUME OAuthInvariant, NEW a \in Attempts, NoteAcknowledgement(a)
    PROVE  OAuthInvariant'
<1>1. /\ DesktopShape /\ WireShape /\ SoundEntry(led[a]) /\ led[a] \in Entry
      /\ OperationFacts(a) /\ AnswerFacts(a) /\ PageFacts(a) /\ Follows(led[a], rec[a])
  BY DesktopOf
<1>2. answer[a].ok /\ op[a].pc \in Awaits
      /\ (op[a].pc \in {"ack", "ackStatus"} \/ InStep(a))
  BY DEF NoteAcknowledgement, InStep, Accepting, Awaits
<1>3. ~(answer[a].rec # NoRecord /\ Contradicts(led[a], answer[a].rec))
  BY <1>2, HeardRecord
<1>4. /\ led' = IF answer[a].rec.acked THEN [led EXCEPT ![a].acked = TRUE] ELSE led
      /\ Ends(a) /\ Took(a) /\ eligible' = eligible \ {a}
      /\ UNCHANGED <<theHost, refused, inbox, link, next, owed, told, born, pages>>
  BY <1>3 DEF NoteAcknowledgement, desktop, seen, past
<1>5. op[a].pc \notin {"idle", "prepared", "marked"} BY <1>2 DEF Awaits
<1>6. CASE ~answer[a].rec.acked
  <2>1. eligible' \subseteq Attempts /\ a \notin eligible'
        /\ \A b \in Attempts : b # a => (b \in eligible' => b \in eligible)
    BY <1>1, <1>4 DEF DesktopShape
  <2> QED BY <1>2, <1>4, <1>5, <1>6, <2>1, EndsKeeps
<1>7. CASE answer[a].rec.acked
  <2>1. Sound(answer[a].rec) /\ Became(answer[a].rec, rec[a]) BY <1>1, <1>2 DEF AnswerFacts
  <2>2. answer[a].rec.phase \in Terminal /\ rec[a].acked BY <1>7, <2>1 DEF Sound, Became
  <2>3. led[a].phase \in Terminal /\ led[a].hostPhase # "none"
    BY <1>1, <1>2, <2>2, SettledInStep DEF OperationFacts
  <2>4. PICK e : e = [led[a] EXCEPT !.acked = TRUE] OBVIOUS
  <2>5. e \in Entry /\ e.phase = led[a].phase /\ e.hostPhase = led[a].hostPhase
        /\ e.why = led[a].why /\ e.acked = TRUE
    BY <1>1, <2>4, EntryIsShape DEF EntryShape
  <2>6. led' = [led EXCEPT ![a] = e] BY <1>1, <1>4, <1>7, <2>4 DEF DesktopShape
  <2>7. led' \in [Attempts -> Entry] /\ led'[a] = e /\ \A b \in Attempts : b # a => led'[b] = led[b]
    BY <1>1, <2>5, <2>6 DEF DesktopShape
  <2>8. Coherent(e) BY <1>1, <2>5 DEF SoundEntry, Coherent
  <2>9. SoundEntry(e) BY <1>1, <2>3, <2>5, <2>8 DEF SoundEntry, Terminal
  <2>10. op' \in [Attempts -> Operation] /\ op'[a].pc = "idle"
         /\ \A b \in Attempts : b # a => op'[b] = op[b]
    BY <1>1, <1>4, Operations
  <2>11. Alone(a) BY <1>1, <1>4, <2>7, <2>9, <2>10 DEF Alone, DesktopShape
  <2>12. UNCHANGED <<open, at>> BY <1>4 DEF theHost
  <2>13. Begun(a)' BY <2>3, <2>5, <2>7, <2>10 DEF Begun, Terminal
  <2>14. Wired(a) /\ \A c \in Connections : StartOn(c, a)' => StartOn(c, a)
    BY <1>2, <1>4, <2>7, <2>10, <2>12, <2>13, QuietWires
  <2>15. answer'[a] = NoAnswer BY <1>1, <1>4 DEF Took, WireShape
  <2>16. Follows(e, rec[a]) BY <1>1, <2>2, <2>5 DEF Follows
  <2>17. OperationFacts(a)' BY <2>10 DEF OperationFacts, Awaits
  <2>18. PageFacts(a)' BY <1>1, <1>4, <2>5, <2>7, <2>10 DEF PageFacts
  <2>19. e # NoEntry /\ e.phase \notin {"none", "prepared"} BY <2>3, <2>5, NoEntryFields DEF Terminal
  <2>20. ~answer'[a].ok BY <2>15 DEF NoAnswer
  <2>21. a \notin told
    <3>1. answer[a].rec # NoRecord BY <1>7, NoRecordFields
    <3> QED BY <1>2, <3>1, HeardRecord
  <2> QED BY <1>4, <2>3, <2>5, <2>7, <2>10, <2>11, <2>14, <2>16, <2>17, <2>18, <2>19, <2>20, <2>21, AttemptKeeps
<1> QED BY <1>6, <1>7

(* Only a start sent on this connection makes an attempt eligible for its   *)
(* page.                                                                    *)
LEMMA AdmittedKeeps ==
    ASSUME OAuthInvariant, NEW a \in Attempts, Admitted(a)
    PROVE  OAuthInvariant'
<1>1. DesktopShape /\ PageFacts(a) BY DesktopOf
<1>2. /\ op[a].pc \in {"start", "startStatus"} /\ answer[a].ok
      /\ eligible' \subseteq eligible \cup {a} /\ Ends(a) /\ Took(a)
      /\ UNCHANGED <<theHost, refused, led, inbox, link, next, owed, told, born, pages>>
  BY DEF Admitted, InStep, Accepting, desktop, seen, past
<1>3. a \in born BY <1>1, <1>2 DEF PageFacts
<1>4. eligible' \subseteq Attempts /\ \A b \in Attempts : b # a => (b \in eligible' => b \in eligible)
  BY <1>1, <1>2 DEF DesktopShape
<1> QED BY <1>2, <1>3, <1>4, EndsKeeps

(* A record that changes nothing.                                           *)
LEMMA ObservedKeeps ==
    ASSUME OAuthInvariant, NEW a \in Attempts, Observed(a)
    PROVE  OAuthInvariant'
<1>1. DesktopShape /\ PageFacts(a) BY DesktopOf
<1>2. /\ op[a].pc \in {"status", "cancel"} /\ answer[a].ok /\ Ends(a) /\ Took(a)
      /\ UNCHANGED <<theHost, refused, led, inbox, link, next, owed, eligible, told, born, pages>>
  BY DEF Observed, InStep, Accepting, desktop, seen, past
<1>3. eligible' \subseteq Attempts /\ (a \in eligible' => a \in born)
  BY <1>1, <1>2 DEF DesktopShape, PageFacts
<1> QED BY <1>2, <1>3, EndsKeeps

(* A page is opened of a sign-in the host has just begun: its record cannot *)
(* be past the login, which the page is opened for.                         *)
LEMMA DispatchBrowserKeeps ==
    ASSUME OAuthInvariant, NEW a \in Attempts, DispatchBrowser(a)
    PROVE  OAuthInvariant'
<1>1. /\ DesktopShape /\ WireShape /\ SoundEntry(led[a]) /\ led[a] \in Entry
      /\ OperationFacts(a) /\ AnswerFacts(a) /\ PageFacts(a)
  BY DesktopOf
<1>2. PICK r : r = answer[a].rec OBVIOUS
<1>3. /\ answer[a].ok /\ r # NoRecord /\ op[a].pc = "status" /\ answer[a].page
      /\ a \in eligible /\ led[a].phase = "host_admitted"
  BY <1>2 DEF DispatchBrowser, InStep, Accepting, PageDue
<1>4. /\ Sound(r) /\ Became(r, rec[a]) /\ rec[a] # NoRecord /\ a \notin told
      /\ SignedIn(r) => pages[a] # <<>>
      /\ HostPhaseFollows(led[a].hostPhase, r.phase)
  BY <1>2, <1>3, HeardRecord
<1>5. pages[a] = <<>> /\ a \in born BY <1>1, <1>3 DEF PageFacts
<1>6. r.phase = "login_dispatching"
  <2>1. r.phase \in {"login_dispatching", "credentials_ready", "persistence_dispatching"}
    BY <1>1, <1>2, <1>3 DEF AnswerFacts
  <2> QED BY <1>4, <1>5, <2>1 DEF SignedIn
<1>7. PICK e : e = [led[a] EXCEPT !.phase = "browser_dispatching", !.hostPhase = "login_dispatching"]
  OBVIOUS
<1>8. /\ Enter(a, e) /\ To(a, "browser") /\ Took(a) /\ eligible' = eligible \ {a}
      /\ UNCHANGED <<theHost, inbox, link, next, owed, told, born, pages>>
  BY <1>2, <1>6, <1>7 DEF DispatchBrowser, desktop, seen, past
<1>9. "browser_dispatching" \in EntryPhases /\ "login_dispatching" \in Phases /\ "browser" \in Places
  BY DEF EntryPhases, PhaseTransitions, Phases, Places
<1>10. e \in Entry /\ e.phase = "browser_dispatching" /\ e.hostPhase = "login_dispatching"
       /\ e.acked = led[a].acked
  BY <1>1, <1>7, <1>9, EntryIsShape DEF EntryShape
<1>11. led[a].acked = FALSE BY <1>1, <1>3 DEF SoundEntry, Terminal, Entry
<1>12. Coherent(e) BY <1>10 DEF Coherent, Terminal
<1>13. SoundEntry(e) BY <1>10, <1>11, <1>12 DEF SoundEntry
<1>14. Allowed(led[a], e) BY <1>3, <1>4, <1>6, <1>10, <1>12, PhaseRows DEF Allowed
<1>15. led' \in [Attempts -> Entry] /\ led'[a] = e /\ refused' = refused
       /\ \A b \in Attempts : b # a => led'[b] = led[b]
  BY <1>1, <1>8, <1>10, <1>14, EnterKeeps
<1>16. op' \in [Attempts -> Operation] /\ op'[a].pc = "browser" /\ op'[a].conn = op[a].conn
       /\ \A b \in Attempts : b # a => op'[b] = op[b]
  BY <1>1, <1>8, <1>9, Operations
<1>17. Alone(a) BY <1>1, <1>8, <1>13, <1>15, <1>16 DEF Alone, DesktopShape
<1>18. UNCHANGED <<open, at>> BY <1>8 DEF theHost
<1>19. Begun(a)' BY <1>10, <1>15, <1>16 DEF Begun
<1>20. Wired(a) BY <1>3, <1>8, <1>15, <1>16, <1>18, <1>19, QuietWires
<1>21. answer'[a] = NoAnswer BY <1>1, <1>8 DEF Took, WireShape
<1>22. Follows(e, rec[a])
  BY <1>3, <1>4, <1>6, <1>10, <1>11 DEF Follows, Became, Terminal
<1>23. OperationFacts(a)'
  BY <1>1, <1>3, <1>8, <1>10, <1>15, <1>16, NoEntryFields DEF OperationFacts, Awaits
<1>24. PageFacts(a)' BY <1>5, <1>8, <1>10, <1>15, <1>16 DEF PageFacts
<1>25. ~answer'[a].ok BY <1>21 DEF NoAnswer
<1> QED BY <1>4, <1>8, <1>10, <1>15, <1>16, <1>17, <1>20, <1>22, <1>23, <1>24, <1>25, AttemptKeeps

(* The page is opened once, on the connection its start was sent on.        *)
LEMMA OpenPageKeeps ==
    ASSUME OAuthInvariant, NEW a \in Attempts, OpenPage(a)
    PROVE  OAuthInvariant'
<1>1. /\ DesktopShape /\ WireShape /\ SoundEntry(led[a]) /\ led[a] \in Entry /\ Follows(led[a], rec[a])
      /\ OperationFacts(a) /\ AbsenceFacts(a) /\ PageFacts(a)
      /\ op[a].pc \notin Awaits => ~answer[a].ok
  BY DesktopOf
<1>2. /\ op[a].pc = "browser" /\ op[a].pc \notin Awaits
      /\ IF Turned(a) THEN Ends(a) /\ UNCHANGED pages
         ELSE pages' = [pages EXCEPT ![a] = Append(@, a \in born)] /\ (To(a, "opened") \/ Ends(a))
      /\ UNCHANGED <<theHost, refused, inbox, answer, led, link, next, owed, eligible, told, born>>
  BY DEF OpenPage, broker, calls, desktop, Awaits
<1>3. led[a].phase = "browser_dispatching" /\ led[a] # NoEntry /\ op[a].conn \in 1..next - 1
  BY <1>1, <1>2 DEF OperationFacts
<1>4. "opened" \in Places BY DEF Places
<1>5. op' \in [Attempts -> Operation] /\ op'[a].pc \in {"opened", "idle"}
      /\ (op'[a].pc = "opened" => op'[a].conn = op[a].conn)
      /\ \A b \in Attempts : b # a => op'[b] = op[b]
  BY <1>1, <1>2, <1>4, Operations
<1>6. /\ pages' \in [Attempts -> {<<>>, <<TRUE>>}] /\ (pages'[a] = pages[a] \/ pages'[a] # <<>>)
      /\ \A b \in Attempts : b # a => pages'[b] = pages[b]
  <2>1. CASE Turned(a) BY <1>1, <1>2, <2>1 DEF DesktopShape
  <2>2. CASE ~Turned(a)
    <3>1. op[a].conn = link BY <2>2 DEF Turned
    <3>2. pages[a] = <<>> /\ a \in born BY <1>1, <1>2, <3>1 DEF PageFacts
    <3>3. (a \in born) = TRUE BY <3>2
    <3>4. Append(pages[a], a \in born) = <<TRUE>>
      <4>1. Append(pages[a], a \in born) = Append(<<>>, TRUE) BY ONLY <3>2, <3>3, Zenon
      <4>2. Append(<<>>, TRUE) = <<TRUE>> OBVIOUS
      <4> QED BY <4>1, <4>2
    <3>5. pages' = [pages EXCEPT ![a] = <<TRUE>>] BY <1>2, <2>2, <3>4
    <3> QED BY <1>1, <3>5 DEF DesktopShape
  <2> QED BY <2>1, <2>2
<1>7. Alone(a) BY <1>1, <1>2, <1>5, <1>6 DEF Alone, DesktopShape
<1>8. UNCHANGED <<open, at>> BY <1>2 DEF theHost
<1>9. Begun(a)' BY <1>2, <1>3, <1>5 DEF Begun
<1>10. Wired(a) /\ \A c \in Connections : StartOn(c, a)' => StartOn(c, a)
  BY <1>2, <1>5, <1>8, <1>9, QuietWires
<1>11. OperationFacts(a)' BY <1>2, <1>3, <1>5 DEF OperationFacts, Awaits
<1>12. PageFacts(a)' BY <1>1, <1>2, <1>3, <1>5 DEF PageFacts
<1>13. a \in told => NeverBegins(a)'
  <2>1. a \in told => NeverBegins(a) BY <1>1 DEF AbsenceFacts
  <2> QED BY <1>2, <1>3, <1>5, <1>10, <2>1, StillNeverBegins
<1> QED BY <1>1, <1>2, <1>3, <1>5, <1>7, <1>10, <1>11, <1>12, <1>13, AttemptKeeps

(* The opened page is noted, then its observation.                          *)
LEMMA PageOpenedKeeps ==
    ASSUME OAuthInvariant, NEW a \in Attempts, PageOpened(a)
    PROVE  OAuthInvariant'
<1>1. /\ DesktopShape /\ WireShape /\ SoundEntry(led[a]) /\ led[a] \in Entry /\ Follows(led[a], rec[a])
      /\ OperationFacts(a) /\ AbsenceFacts(a) /\ PageFacts(a)
      /\ op[a].pc \notin Awaits => ~answer[a].ok
  BY DesktopOf
<1>2. PICK phase : phase = IF op[a].pc = "opened" THEN "browser_opened" ELSE "observing" OBVIOUS
<1>3. PICK e : e = [led[a] EXCEPT !.phase = phase] OBVIOUS
<1>4. /\ op[a].pc \in {"opened", "observing"} /\ op[a].pc \notin Awaits
      /\ \/ Ends(a) /\ UNCHANGED <<led, refused>>
         \/ Enter(a, e) /\ ((To(a, "observing") /\ op[a].pc = "opened") \/ Ends(a))
      /\ UNCHANGED <<theHost, inbox, answer, link, next, owed, eligible, told, born, pages>>
  BY <1>2, <1>3 DEF PageOpened, calls, desktop, seen, past, Awaits
<1>5. /\ op[a].pc = "opened" => led[a].phase = "browser_dispatching"
      /\ op[a].pc = "observing" => led[a].phase = "browser_opened"
      /\ led[a] # NoEntry /\ op[a].conn \in 1..next - 1
  BY <1>1, <1>4 DEF OperationFacts
<1>6. phase \in {"browser_opened", "observing"} /\ phase \in EntryPhases /\ "observing" \in Places
  BY <1>2 DEF EntryPhases, PhaseTransitions, Places
<1>7. e \in Entry /\ e.phase = phase /\ e.hostPhase = led[a].hostPhase /\ e.acked = led[a].acked
  BY <1>1, <1>3, <1>6, PhaseEntered
<1>8. /\ led[a].acked = FALSE
      /\ led[a].hostPhase \in {"prepared", "login_dispatching", "credentials_ready",
                               "persistence_dispatching", "cancelling"}
      /\ led[a].phase \in {"browser_dispatching", "browser_opened"}
  BY <1>1, <1>4, <1>5 DEF SoundEntry, Coherent, Terminal, Entry
<1>9. Coherent(e) BY <1>6, <1>7, <1>8 DEF Coherent, Terminal
<1>10. SoundEntry(e) BY <1>6, <1>7, <1>8, <1>9 DEF SoundEntry
<1>11. HostPhaseFollows(led[a].hostPhase, led[a].hostPhase)
  BY <1>8, PhaseFollows DEF Phases
<1>12. Allowed(led[a], e) BY <1>2, <1>4, <1>5, <1>7, <1>9, <1>11, PhaseRows DEF Allowed
<1>13. rec[a] # NoRecord BY <1>1, <1>8 DEF Follows
<1>14. /\ led' \in [Attempts -> Entry] /\ (led'[a] = e \/ (led'[a] = led[a] /\ Ends(a)))
       /\ refused' = refused /\ \A b \in Attempts : b # a => led'[b] = led[b]
  <2>1. CASE Enter(a, e) BY <1>1, <1>7, <1>12, <2>1, EnterKeeps
  <2>2. CASE Ends(a) /\ UNCHANGED <<led, refused>> BY <1>1, <2>2 DEF DesktopShape
  <2> QED BY <1>4, <2>1, <2>2
<1>15. op' \in [Attempts -> Operation] /\ op'[a].pc \in {"observing", "idle"}
       /\ (op'[a].pc = "observing" => op'[a].conn = op[a].conn /\ op[a].pc = "opened" /\ led'[a] = e)
       /\ \A b \in Attempts : b # a => op'[b] = op[b]
  BY <1>1, <1>4, <1>6, <1>14, Operations
<1>16. Alone(a) BY <1>1, <1>4, <1>10, <1>14, <1>15 DEF Alone, DesktopShape
<1>17. UNCHANGED <<open, at>> BY <1>4 DEF theHost
<1>18. led'[a].phase \in {"browser_dispatching", "browser_opened", "observing"} /\ led'[a] # NoEntry
  BY <1>5, <1>6, <1>7, <1>8, <1>14, NoEntryFields
<1>19. Begun(a)' BY <1>15, <1>18 DEF Begun
<1>20. Wired(a) BY <1>4, <1>14, <1>15, <1>17, <1>19, QuietWires
<1>21. Follows(led'[a], rec[a]) BY <1>1, <1>6, <1>7, <1>8, <1>14 DEF Follows, Terminal
<1>22. OperationFacts(a)'
  BY <1>2, <1>4, <1>5, <1>7, <1>15, <1>18 DEF OperationFacts, Awaits
<1>23. PageFacts(a)' BY <1>1, <1>4, <1>15, <1>18 DEF PageFacts
<1>24. a \notin told BY <1>1, <1>13 DEF AbsenceFacts, NeverBegins
<1> QED BY <1>1, <1>4, <1>15, <1>16, <1>18, <1>20, <1>21, <1>22, <1>23, <1>24, AttemptKeeps

-----------------------------------------------------------------------------
(* Connections of the desktop.                                              *)

(* What a step of the connection has to show.                               *)
LEMMA LinkStepKeeps ==
    ASSUME OAuthInvariant, NEW who, Hushed(who), RequestInvariant', DesktopShape',
           UNCHANGED <<rec, host, sick, session, at, absentSeen, refused, led, told, pages>>,
           open' \subseteq Connections, process = "down" => open' = open,
           answer' \in [Attempts -> Body], \A a \in Attempts : Heard(a), next <= next',
           \A a \in Attempts : \/ op'[a].pc = "idle"
                               \/ op'[a].pc = op[a].pc /\ op'[a].conn = op[a].conn,
           eligible' \subseteq eligible,
           \A a \in Attempts :
              \/ link' = link /\ (a \in born => a \in born')
              \/ /\ op'[a].pc \notin Awaits /\ (op'[a].pc = "idle" \/ op[a].conn # link')
                 /\ a \in eligible' => a \in born'
    PROVE  OAuthInvariant'
<1>1. HostShape /\ WireShape /\ DesktopShape /\ HostInvariant /\ DesktopInvariant /\ NeverRefused
  BY DEF OAuthInvariant, OAuthShape
<1>2. UNCHANGED <<rec, process, secure, sick, run, helper, logins, kept, at, absentSeen>>
      /\ refused' = refused
  BY DEF host, session
<1>3. HostShape' BY <1>1, <1>2 DEF HostShape
<1>4. WireShape' BY <1>1, <1>2 DEF WireShape, Hushed
<1>5. NeverRefused' BY <1>1, <1>2 DEF NeverRefused
<1>6. \A b \in Attempts : SessionFacts(b)' BY <1>1, <1>2, SessionFrame DEF HostInvariant
<1>7. \A c \in Connections :
        /\ inbox[c] = <<>> => inbox'[c] = <<>>
        /\ \A a \in Attempts : StartOn(c, a)' => StartOn(c, a)
        /\ LaneFacts(c) /\ at[c] # "idle" =>
             /\ inbox'[c] # <<>>
             /\ inbox'[c][1].kind = inbox[c][1].kind /\ inbox'[c][1].a = inbox[c][1].a
  BY HushedQueue
<1>8. \A c \in Connections : LaneFacts(c)'
  <2> TAKE c \in Connections
  <2>1. LaneFacts(c) BY <1>1 DEF HostInvariant
  <2>2. CASE at[c] = "idle" BY <1>2, <2>2 DEF LaneFacts
  <2>3. CASE at[c] # "idle"
    <3>1. Of(c) \in Attempts BY <1>1, <2>1, <2>3, OfAttempt DEF LaneFacts
    <3>2. /\ inbox'[c] # <<>>
          /\ inbox'[c][1].kind = inbox[c][1].kind /\ inbox'[c][1].a = inbox[c][1].a
      BY <1>7, <2>1, <2>3
    <3>3. rec[Of(c)] # NoRecord \/ at[c] # "prepared" BY <2>1 DEF LaneFacts
    <3> QED BY <1>2, <2>1, <3>1, <3>2, <3>3, LaneFrame
  <2> QED BY <2>2, <2>3
<1>9. HostInvariant'
  <2>1. OneBarrier' /\ OneLane' BY <1>1, <1>2 DEF HostInvariant, OneBarrier, OneLane
  <2>2. StoppedFacts' BY <1>1, <1>2, <1>7 DEF HostInvariant, StoppedFacts
  <2> QED BY <1>6, <1>8, <2>1, <2>2 DEF HostInvariant
<1>10. ASSUME NEW b \in Attempts PROVE DesktopFacts(b)'
  <2>1. DesktopFacts(b) /\ SessionFacts(b)' BY <1>1, <1>6 DEF DesktopInvariant
  <2>2. Grows(b) BY <1>2 DEF Grows
  <2>3. absentSeen <= absentSeen' BY <1>1, <1>2 DEF WireShape
  <2>4. \A c \in Connections : StartOn(c, b)' => StartOn(c, b) /\ absentSeen <= absentSeen'
    BY <1>7, <2>3
  <2>5. led'[b] = led[b] /\ pages'[b] = pages[b] /\ (b \in told' => b \in told)
        /\ (b \in eligible' => b \in eligible) /\ Heard(b)
    OBVIOUS
  <2> QED BY <1>1, <1>4, <2>1, <2>2, <2>4, <2>5, DesktopFrame
<1>11. DesktopInvariant' BY <1>10 DEF DesktopInvariant
<1> QED BY <1>3, <1>4, <1>5, <1>9, <1>11 DEF OAuthInvariant, OAuthShape

(* A new connection: nothing is waited for on the old ones.                 *)
LEMMA ConnectKeeps ==
    ASSUME OAuthInvariant, Connect
    PROVE  OAuthInvariant'
<1>1. HostShape /\ WireShape /\ DesktopShape /\ HostInvariant /\ DesktopInvariant
  BY DEF OAuthInvariant, OAuthShape
<1>2. /\ link = 0 /\ process = "up" /\ next <= MaxConnections
      /\ link' = next /\ next' = next + 1 /\ open' = open \cup {next} /\ owed' \subseteq Attempts
      /\ UNCHANGED <<rec, host, sick, session, at, absentSeen, refused, inbox, answer,
                     led, op, eligible, told, pages, born>>
  BY DEF Connect, calls, seen, past
<1>3. next \in Nat \ {0} /\ next \in Connections
  BY <1>1, <1>2, OAuthAssumption DEF DesktopShape, Connections
<1>4. DesktopShape'
  <2>1. next' \in Nat \ {0} /\ next' <= MaxConnections + 1 /\ link' = next' - 1
    BY <1>2, <1>3, OAuthAssumption
  <2>2. led' = led /\ op' = op /\ pages' = pages /\ eligible' = eligible /\ told' = told /\ born' = born
    BY <1>2
  <2> QED BY <1>1, <1>2, <2>1, <2>2 DEF DesktopShape
<1>5. Hushed({})
  <2>1. \A c \in Connections : \A i \in 1..Len(inbox[c]) : inbox[c][i].live => inbox[c][i].a \notin {}
    OBVIOUS
  <2> QED BY <1>2, <2>1, RestHushes
<1>6. \A c \in Connections : c # 0 /\ c \in Nat BY DEF Connections
<1>7. RequestInvariant'
  <2>1. SUFFICES ASSUME NEW c \in Connections PROVE RequestFacts(c)' BY DEF RequestInvariant
  <2>2. RequestFacts(c) /\ \A i \in 1..Len(inbox[c]) : ~inbox[c][i].live
    BY <1>2, <1>6, OnlyLinkLive
  <2>3. \A i \in 1..Len(inbox'[c]) : Waited(c, inbox[c][i])'
    BY <1>2, <2>2 DEF RequestFacts, Waited
  <2>4. \A i \in 1..Len(inbox'[c]) : Dispatched(c, i)'
    <3>1. c < next => c < next' BY <1>2, <1>3, <1>6
    <3> QED BY <1>2, <2>2, <3>1 DEF RequestFacts, Dispatched
  <2> QED BY <1>2, <2>2, <2>3, <2>4 DEF RequestFacts
<1>8. answer' \in [Attempts -> Body] /\ open' \subseteq Connections /\ process # "down" /\ next <= next'
  BY <1>1, <1>2, <1>3 DEF WireShape
<1>9. ASSUME NEW a \in Attempts
      PROVE  /\ Heard(a) /\ op'[a].pc \notin Awaits /\ (op'[a].pc = "idle" \/ op[a].conn # link')
             /\ a \in eligible' => a \in born'
  <2>1. OperationFacts(a) /\ PageFacts(a) BY DesktopOf
  <2>2. op[a].pc \notin Awaits BY <1>2, <2>1 DEF OperationFacts
  <2>3. op[a].pc # "idle" => op[a].conn # next BY <1>3, <2>1 DEF OperationFacts
  <2>4. a \in eligible => a \in born BY <2>1 DEF PageFacts
  <2> QED BY <1>2, <2>2, <2>3, <2>4 DEF Heard
<1> QED BY <1>2, <1>4, <1>5, <1>7, <1>8, <1>9, LinkStepKeeps

(* The desktop is on no connection any more, and waits for nothing.         *)
LEMMA CutKeeps ==
    ASSUME OAuthInvariant, Hushed(Attempts), answer' = [a \in Attempts |-> NoAnswer],
           link' = 0, next' = next, owed' = {}, eligible' = {}, born' = {},
           UNCHANGED <<theHost, refused, led, told, pages>>, op' \in [Attempts -> Operation],
           \A a \in Attempts : op'[a].pc = "idle" \/ (op'[a] = op[a] /\ op[a].pc \notin Awaits)
    PROVE  OAuthInvariant'
<1>1. WireShape /\ DesktopShape BY DEF OAuthInvariant, OAuthShape
<1>2. UNCHANGED <<rec, host, sick, session, open, at, absentSeen>> BY DEF theHost
<1>3. DesktopShape' BY <1>1 DEF DesktopShape
<1>4. next <= next' /\ next' \in Nat BY <1>1 DEF DesktopShape
<1>5. NoAnswer \in Body BY NoRecordFields DEF NoAnswer, Body
<1>6. answer' \in [Attempts -> Body] /\ \A a \in Attempts : answer'[a] = NoAnswer BY <1>5
<1>7. RequestInvariant'
  <2>1. SUFFICES ASSUME NEW c \in Connections PROVE RequestFacts(c)' BY DEF RequestInvariant
  <2>2. \A b \in Attempts : Begun(b) => Begun(b)' BY DEF Begun
  <2>3. \A i \in 1..Len(inbox'[c]) : Waited(c, inbox[c][i])' /\ Dispatched(c, i)'
    BY <1>2, <1>4, <2>2, HushedRequests
  <2>4. Orderly(inbox'[c]) BY HushedQueue
  <2> QED BY <2>3, <2>4 DEF RequestFacts
<1>8. ASSUME NEW a \in Attempts
      PROVE  /\ Heard(a) /\ op'[a].pc \notin Awaits /\ (op'[a].pc = "idle" \/ op[a].conn # link')
             /\ a \notin eligible'
  <2>1. OperationFacts(a) /\ next \in Nat BY <1>1, DesktopOf DEF DesktopShape
  <2>2. op[a].pc # "idle" => op[a].conn # 0 BY <2>1 DEF OperationFacts
  <2>3. op'[a].pc \notin Awaits BY DEF Awaits
  <2> QED BY <1>6, <2>2, <2>3 DEF Heard
<1>9. open' \subseteq Connections BY <1>1, <1>2 DEF WireShape
<1> QED BY <1>2, <1>3, <1>4, <1>6, <1>7, <1>8, <1>9, LinkStepKeeps

(* A connection is lost.                                                    *)
LEMMA LoseLinkKeeps ==
    ASSUME OAuthInvariant, LoseLink
    PROVE  OAuthInvariant'
<1>1. /\ link # 0 /\ link' = 0 /\ owed' = {} /\ eligible' = {} /\ born' = {} /\ next' = next
      /\ inbox' = [inbox EXCEPT ![link] = Unheard(@, Attempts)]
      /\ answer' = [a \in Attempts |-> NoAnswer]
      /\ op' = [a \in Attempts |-> IF op[a].pc \in Awaits THEN Idle ELSE op[a]]
      /\ UNCHANGED <<theHost, refused, led, told, pages>>
  BY DEF LoseLink, Unlinked, past
<1>2. Hushed(Attempts) BY <1>1, UnheardHushes
<1>3. op \in [Attempts -> Operation] BY DEF OAuthInvariant, OAuthShape, DesktopShape
<1>4. Idle \in Operation /\ Idle.pc = "idle" BY DEF Idle, Operation, Places
<1>5. op' \in [Attempts -> Operation]
      /\ \A a \in Attempts : op'[a].pc = "idle" \/ (op'[a] = op[a] /\ op[a].pc \notin Awaits)
  BY <1>1, <1>3, <1>4
<1> QED BY <1>1, <1>2, <1>5, CutKeeps

(* The process of the desktop stops and starts again; its ledger stays.     *)
LEMMA DesktopStopsKeeps ==
    ASSUME OAuthInvariant, DesktopStops
    PROVE  OAuthInvariant'
<1>1. /\ link' = 0 /\ owed' = {} /\ eligible' = {} /\ born' = {} /\ next' = next
      /\ IF link # 0 THEN inbox' = [inbox EXCEPT ![link] = Unheard(@, Attempts)]
         ELSE inbox' = inbox
      /\ answer' = [a \in Attempts |-> NoAnswer]
      /\ op' = [a \in Attempts |-> Idle]
      /\ UNCHANGED <<theHost, refused, led, told, pages>>
  BY DEF DesktopStops, past
<1>2. Hushed(Attempts)
  <2>1. CASE link # 0 BY <1>1, <2>1, UnheardHushes
  <2>2. CASE link = 0
    <3>1. \A c \in Connections : c # 0 BY DEF Connections
    <3>2. \A c \in Connections : \A i \in 1..Len(inbox[c]) : ~inbox[c][i].live
      BY <2>2, <3>1, OnlyLinkLive
    <3> QED BY <1>1, <2>2, <3>2, RestHushes
  <2> QED BY <2>1, <2>2
<1>3. Idle \in Operation /\ Idle.pc = "idle" BY DEF Idle, Operation, Places
<1>4. op' \in [Attempts -> Operation] /\ \A a \in Attempts : op'[a].pc = "idle"
  BY <1>1, <1>3
<1> QED BY <1>1, <1>2, <1>4, CutKeeps

(* The user turns to another host: what is under way is stale.              *)
LEMMA TransitionKeeps ==
    ASSUME OAuthInvariant, Transition
    PROVE  OAuthInvariant'
<1>1. WireShape /\ DesktopShape BY DEF OAuthInvariant, OAuthShape
<1>2. /\ eligible' = {}
      /\ op' = [a \in Attempts |-> IF op[a].pc \in Cautious
                                   THEN [op[a] EXCEPT !.stale = TRUE] ELSE op[a]]
      /\ UNCHANGED <<theHost, refused, inbox, answer, led, link, next, owed, told, pages, born>>
  BY DEF Transition, broker, calls, desktop, seen, past
<1>3. \A o \in Operation : /\ [o EXCEPT !.stale = TRUE] \in Operation
                           /\ [o EXCEPT !.stale = TRUE].pc = o.pc
                           /\ [o EXCEPT !.stale = TRUE].conn = o.conn
  BY DEF Operation
<1>4. op' \in [Attempts -> Operation]
      /\ \A a \in Attempts : op'[a].pc = op[a].pc /\ op'[a].conn = op[a].conn
  BY <1>1, <1>2, <1>3 DEF DesktopShape
<1>5. DesktopShape' BY <1>1, <1>2, <1>4 DEF DesktopShape
<1>6. UNCHANGED <<rec, host, sick, session, open, at, absentSeen>> BY <1>2 DEF theHost
<1>7. Hushed({})
  <2>1. \A c \in Connections : \A i \in 1..Len(inbox[c]) : inbox[c][i].live => inbox[c][i].a \notin {}
    OBVIOUS
  <2> QED BY <1>2, <2>1, RestHushes
<1>8. RequestInvariant'
  <2>1. SUFFICES ASSUME NEW c \in Connections PROVE RequestFacts(c)' BY DEF RequestInvariant
  <2>2. \A b \in Attempts : Begun(b) => Begun(b)' BY <1>2, <1>4 DEF Begun
  <2>3. next <= next' /\ next' \in Nat BY <1>1, <1>2 DEF DesktopShape
  <2>4. \A i \in 1..Len(inbox'[c]) : Waited(c, inbox[c][i])' /\ Dispatched(c, i)'
    BY <1>2, <1>4, <1>6, <1>7, <2>2, <2>3, HushedRequests
  <2>5. Orderly(inbox'[c]) BY <1>7, HushedQueue
  <2> QED BY <2>4, <2>5 DEF RequestFacts
<1>9. \A a \in Attempts : Heard(a) BY <1>2, <1>4 DEF Heard
<1>10. answer' \in [Attempts -> Body] /\ open' \subseteq Connections /\ next <= next'
  BY <1>1, <1>2, <1>6 DEF WireShape, DesktopShape
<1> QED BY <1>2, <1>4, <1>5, <1>6, <1>7, <1>8, <1>9, <1>10, LinkStepKeeps

-----------------------------------------------------------------------------
(* The invariant.                                                           *)

(* It holds at first.                                                       *)
LEMMA InitInvariant == Init => OAuthInvariant
<1> SUFFICES ASSUME Init PROVE OAuthInvariant
  OBVIOUS
<1>1. /\ rec = [a \in Attempts |-> NoRecord] /\ process = "up" /\ sick = FALSE /\ secure = TRUE
      /\ run = [a \in Attempts |-> "idle"] /\ helper = [a \in Attempts |-> "none"]
      /\ logins = [a \in Attempts |-> 0] /\ kept = {} /\ refused = {} /\ open = {}
      /\ inbox = [c \in Connections |-> <<>>] /\ at = [c \in Connections |-> "idle"]
      /\ absentSeen = 0 /\ answer = [a \in Attempts |-> NoAnswer]
  BY DEF Init, BrokerInit
<1>2. /\ led = [a \in Attempts |-> NoEntry] /\ link = 0 /\ next = 1 /\ owed = {}
      /\ op = [a \in Attempts |-> Idle] /\ eligible = {} /\ told = {} /\ born = {}
      /\ pages = [a \in Attempts |-> <<>>]
  BY DEF Init
<1>3. HostShape
  <2>1. Sound(NoRecord) /\ NoRecord \in RecordShape BY PrepareMoves, NoRecordFields
  <2> QED BY <1>1, <2>1 DEF HostShape
<1>4. WireShape
  <2>1. NoAnswer \in Body BY NoRecordFields DEF NoAnswer, Body
  <2>2. <<>> \in Seq(Requests) OBVIOUS
  <2> QED BY <1>1, <2>1, <2>2 DEF WireShape
<1>5. NoEntry \in Entry /\ SoundEntry(NoEntry)
  <2>1. NoEntry \in Entry BY DEF NoEntry, Entry, EntryPhases, Phases, Whys
  <2>2. Coherent(NoEntry) BY DEF NoEntry, Coherent, Terminal
  <2> QED BY <2>1, <2>2, NoEntryFields DEF SoundEntry, Terminal
<1>6. DesktopShape
  <2>1. Idle \in Operation BY DEF Idle, Operation, Places
  <2> QED BY <1>2, <1>5, <2>1, OAuthAssumption DEF DesktopShape
<1>7. HostInvariant
  <2>1. \A a \in Attempts : SessionFacts(a)
    BY <1>1, NoRecordFields DEF SessionFacts, SignedIn, Stored
  <2>2. OneBarrier BY <1>1, NoRecordFields DEF OneBarrier, Barrier
  <2>3. \A c \in Connections : LaneFacts(c) BY <1>1 DEF LaneFacts
  <2>4. OneLane BY <1>1 DEF OneLane
  <2>5. StoppedFacts BY <1>1 DEF StoppedFacts
  <2> QED BY <2>1, <2>2, <2>3, <2>4, <2>5 DEF HostInvariant
<1>8. RequestInvariant
  <2>1. \A c \in Connections : inbox[c] = <<>> BY <1>1
  <2> QED BY <2>1 DEF RequestInvariant, RequestFacts, Orderly
<1>9. ASSUME NEW a \in Attempts PROVE DesktopFacts(a)
  <2>1. rec[a] = NoRecord /\ led[a] = NoEntry /\ op[a].pc = "idle" /\ ~answer[a].ok
        /\ pages[a] = <<>> /\ a \notin told /\ a \notin eligible
    BY <1>1, <1>2 DEF NoAnswer, Idle
  <2>2. Follows(led[a], rec[a]) BY <2>1, NoEntryFields DEF Follows, Terminal
  <2>3. OperationFacts(a) BY <2>1 DEF OperationFacts, Awaits
  <2>4. AnswerFacts(a) BY <2>1 DEF AnswerFacts
  <2>5. AbsenceFacts(a) BY <2>1, NoEntryFields DEF AbsenceFacts
  <2>6. PageFacts(a) BY <2>1 DEF PageFacts
  <2> QED BY <2>1, <2>2, <2>3, <2>4, <2>5, <2>6 DEF DesktopFacts
<1>10. NeverRefused BY <1>1 DEF NeverRefused
<1> QED BY <1>3, <1>4, <1>6, <1>7, <1>8, <1>9, <1>10 DEF OAuthInvariant, OAuthShape, DesktopInvariant

(* Every step keeps it: of a connection, of a session, of the host, of the  *)
(* desktop, and none.                                                       *)
LEMMA RequestKeepsInvariant ==
    ASSUME OAuthInvariant, NEW c \in Connections, Request(c), DesktopRests
    PROVE  OAuthInvariant'
  BY StartPrepareKeeps, StartMarkKeeps, StartRunKeeps, StatusKeeps, CancelKeeps, CancelReturnsKeeps,
     AcknowledgeKeeps DEF Request

LEMMA SessionKeepsInvariant ==
    ASSUME OAuthInvariant, NEW a \in Attempts, SessionStep(a), DesktopRests
    PROVE  OAuthInvariant'
  BY HelperFailsKeeps, CustodyDriftsKeeps, CredentialsDispatchedKeeps, StorageConfirmsKeeps,
     SessionExpiresKeeps DEF SessionStep

LEMMA HostKeepsInvariant ==
    ASSUME OAuthInvariant, HostStep, DesktopRests
    PROVE  OAuthInvariant'
<1>1. ASSUME NEW a \in Attempts, pages[a] # <<>>, LoginReturns(a) PROVE OAuthInvariant'
  BY <1>1, LoginReturnsKeeps
<1>2. ASSUME NEW a \in Attempts, SessionStep(a) PROVE OAuthInvariant'
  BY <1>2, SessionKeepsInvariant
<1>3. ASSUME NEW a \in Attempts, HelperStores(a) \/ HelperEnds(a) PROVE OAuthInvariant'
  BY <1>3, HelperStoresKeeps, HelperEndsKeeps
<1>4. ASSUME NEW c \in Connections, Request(c) PROVE OAuthInvariant'
  BY <1>4, RequestKeepsInvariant
<1>5. ASSUME NEW c \in Connections, c # link, InputEnds(c) PROVE OAuthInvariant'
  BY <1>5, InputEndsKeeps
<1>6. ASSUME BeginClose \/ Stop \/ Restart PROVE OAuthInvariant'
  BY <1>6, BeginCloseKeeps, StopKeeps, RestartKeeps
<1> QED BY <1>1, <1>2, <1>3, <1>4, <1>5, <1>6 DEF HostStep

LEMMA DesktopKeepsInvariant ==
    ASSUME OAuthInvariant, NEW a \in Attempts, DesktopStep(a)
    PROVE  OAuthInvariant'
<1>1. CASE StartSignIn(a) BY <1>1, StartSignInKeeps
<1>2. CASE DispatchStart(a) BY <1>2, DispatchStartKeeps
<1>3. CASE SendStart(a) BY <1>3, SendStartKeeps
<1>4. CASE AskStatus(a) BY <1>4, AskStatusKeeps
<1>5. CASE CancelSignIn(a) BY <1>5, CancelSignInKeeps
<1>6. CASE Unanswered(a) BY <1>6, UnansweredKeeps
<1>7. CASE AcceptAbsence(a) BY <1>7, AcceptAbsenceKeeps
<1>8. CASE AcceptRecord(a) BY <1>8, AcceptRecordKeeps
<1>9. CASE AskAcknowledgement(a) BY <1>9, AskAcknowledgementKeeps
<1>10. CASE NoteAcknowledgement(a) BY <1>10, NoteAcknowledgementKeeps
<1>11. CASE Admitted(a) BY <1>11, AdmittedKeeps
<1>12. CASE Observed(a) BY <1>12, ObservedKeeps
<1>13. CASE DispatchBrowser(a) BY <1>13, DispatchBrowserKeeps
<1>14. CASE OpenPage(a) BY <1>14, OpenPageKeeps
<1>15. CASE PageOpened(a) BY <1>15, PageOpenedKeeps
<1> QED
  BY <1>1, <1>2, <1>3, <1>4, <1>5, <1>6, <1>7, <1>8, <1>9, <1>10, <1>11, <1>12, <1>13, <1>14, <1>15
  DEF DesktopStep

LEMMA StutterKeeps ==
    ASSUME OAuthInvariant, UNCHANGED vars
    PROVE  OAuthInvariant'
<1>1. /\ UNCHANGED <<rec, host, sick, session, open, at, absentSeen, refused, inbox, answer>>
      /\ UNCHANGED <<led, op, eligible, link, next, owed, told, pages, born>>
  BY DEF vars, broker, theHost, calls, desktop, seen, past
<1>2. Hushed({})
  <2>1. \A c \in Connections : \A i \in 1..Len(inbox[c]) : inbox[c][i].live => inbox[c][i].a \notin {}
    OBVIOUS
  <2> QED BY <1>1, <2>1, RestHushes
<1>3. DesktopShape /\ WireShape /\ RequestInvariant BY DEF OAuthInvariant, OAuthShape
<1>4. DesktopShape' BY <1>1, <1>3 DEF DesktopShape
<1>5. RequestInvariant'
  BY <1>1, <1>3 DEF RequestInvariant, RequestFacts, Waited, Dispatched
<1>6. answer' \in [Attempts -> Body] /\ open' \subseteq Connections /\ next <= next'
  BY <1>1, <1>3 DEF WireShape, DesktopShape
<1>7. \A a \in Attempts : Heard(a) BY <1>1 DEF Heard
<1> QED BY <1>1, <1>2, <1>4, <1>5, <1>6, <1>7, LinkStepKeeps

(* The invariant: for any attempts, connections and queues, in every state  *)
(* of host, desktop and what is between them, over any crashes of either,   *)
(* the records, sessions, helpers, requests, answers, ledger and pages      *)
(* agree as OAuthInvariant says.                                            *)
THEOREM OAuthInvariantHolds == OAuthSpec => []OAuthInvariant
<1>1. Init => OAuthInvariant BY InitInvariant
<1>2. OAuthInvariant /\ [Next]_vars => OAuthInvariant'
  <2> SUFFICES ASSUME OAuthInvariant, [Next]_vars PROVE OAuthInvariant'
    OBVIOUS
  <2>1. ASSUME HostStep, UNCHANGED <<led, op, eligible, desktop, seen>> PROVE OAuthInvariant'
    BY <2>1, HostKeepsInvariant DEF DesktopRests
  <2>2. ASSUME NEW a \in Attempts, DesktopStep(a) PROVE OAuthInvariant'
    BY <2>2, DesktopKeepsInvariant
  <2>3. ASSUME Connect \/ LoseLink \/ Transition \/ DesktopStops PROVE OAuthInvariant'
    BY <2>3, ConnectKeeps, LoseLinkKeeps, TransitionKeeps, DesktopStopsKeeps
  <2>4. ASSUME UNCHANGED vars PROVE OAuthInvariant'
    BY <2>4, StutterKeeps
  <2> QED BY <2>1, <2>2, <2>3, <2>4 DEF Next
<1> QED BY <1>1, <1>2, PTL DEF OAuthSpec

(* What follows from it.                                                    *)
LEMMA InvariantGivesEffectsOnce == OAuthInvariant => EffectsOnce
<1> SUFFICES ASSUME OAuthInvariant PROVE EffectsOnce
  OBVIOUS
<1>1. ASSUME NEW a \in Attempts PROVE logins[a] <= 1 /\ pages[a] \in {<<>>, <<TRUE>>}
  <2>1. SessionFacts(a) /\ DesktopShape BY RecordOf, DesktopOf
  <2> QED BY <2>1 DEF SessionFacts, DesktopShape
<1>2. ASSUME NEW a \in Attempts, helper[a] # "none"
      PROVE  Barrier(rec[a]) \/ (helper[a] = "storage" /\ rec[a].why = "persistence_failed")
  <2>1. SessionFacts(a) /\ rec[a].why \in WhyOf(rec[a].phase) /\ HostShape BY RecordOf
  <2>2. helper[a] \in {"login", "storage"} BY <1>2, <2>1 DEF HostShape
  <2>3. CASE helper[a] = "login"
    <3>1. rec[a].phase \in {"login_dispatching", "cancelling"}
              \/ rec[a].why \in {"login_helper", "cancelling_helper"}
      BY <2>1, <2>3 DEF SessionFacts
    <3>2. rec[a].why \in {"login_helper", "cancelling_helper"} => rec[a].phase = "recovery_required"
      BY <2>1 DEF WhyOf, FailedWhy
    <3> QED BY <3>1, <3>2 DEF Barrier, Terminal
  <2>4. CASE helper[a] = "storage"
    <3>1. rec[a].phase = "persistence_dispatching" \/ rec[a].why \in Stored
      BY <2>1, <2>4 DEF SessionFacts
    <3>2. rec[a].phase # "completed" BY <2>1, <2>4 DEF SessionFacts
    <3>3. /\ rec[a].why = "persistence_confirmed" => rec[a].phase = "completed"
          /\ rec[a].why = "storage_helper" => rec[a].phase = "recovery_required"
      BY <2>1 DEF WhyOf, FailedWhy, RecoveryReasons
    <3> QED BY <2>4, <3>1, <3>2, <3>3 DEF Barrier, Terminal, Stored
  <2> QED BY <2>2, <2>3, <2>4
<1>3. OneBarrier BY DEF OAuthInvariant, HostInvariant
<1> QED BY <1>1, <1>2, <1>3 DEF EffectsOnce, OneBarrier

LEMMA InvariantGivesAbsence == OAuthInvariant => AbsenceIsFinal
  BY DesktopOf DEF AbsenceIsFinal, AbsenceFacts, NeverBegins

LEMMA InvariantGivesOutcome == OAuthInvariant => OutcomeTruthful
<1> SUFFICES ASSUME OAuthInvariant, NEW a \in Attempts
             PROVE  /\ rec[a].phase = "completed" => a \in kept
                    /\ rec[a].phase \in Terminal
                          /\ rec[a].why \notin {"persistence_confirmed", "persistence_failed"}
                          => a \notin kept /\ helper[a] = "none"
                    /\ led[a].phase \in Terminal /\ led[a].hostPhase # "none" =>
                          rec[a].phase = led[a].phase /\ rec[a].why = led[a].why
                    /\ led[a].acked => rec[a].acked
  BY DEF OutcomeTruthful
<1>1. SessionFacts(a) /\ rec[a].why \in WhyOf(rec[a].phase) /\ HostShape /\ Follows(led[a], rec[a])
  BY RecordOf, DesktopOf
<1>2. helper[a] \in {"none", "login", "storage"} BY <1>1 DEF HostShape
<1>3. ASSUME rec[a].phase \in Terminal, rec[a].why \notin {"persistence_confirmed", "persistence_failed"}
      PROVE  a \notin kept /\ helper[a] = "none"
  <2>1. rec[a].why \notin RecoveryReasons
    BY <1>1, <1>3 DEF WhyOf, FailedWhy, RecoveryReasons, Terminal
  <2> QED BY <1>1, <1>2, <1>3, <2>1 DEF SessionFacts, Stored, RecoveryReasons, Terminal
<1> QED BY <1>1, <1>3 DEF SessionFacts, Follows

(* One login helper and one page per sign-in, the page on the connection    *)
(* and in the process its start was sent in; and no two helpers alive at    *)
(* once, but for the storage helper a drift of the credential directory     *)
(* left behind: across crashes and restarts of the host, lost connections   *)
(* and repeated reads.                                                      *)
THEOREM EffectsOnceHolds == OAuthSpec => []EffectsOnce
<1>1. OAuthSpec => []OAuthInvariant BY OAuthInvariantHolds
<1> QED BY <1>1, InvariantGivesEffectsOnce, PTL

(* What the host was heard to know nothing of, and what the desktop ended   *)
(* by itself as never begun, never has a record: no start that is still on  *)
(* its way is entitled to bring one about.                                  *)
THEOREM AbsenceIsFinalHolds == OAuthSpec => []AbsenceIsFinal
<1>1. OAuthSpec => []OAuthInvariant BY OAuthInvariantHolds
<1> QED BY <1>1, InvariantGivesAbsence, PTL

(* A recorded outcome is what happened to the credentials, and the desktop  *)
(* reports it, and an acknowledgement, only as the host has it on record.   *)
THEOREM OutcomeTruthfulHolds == OAuthSpec => []OutcomeTruthful
<1>1. OAuthSpec => []OAuthInvariant BY OAuthInvariantHolds
<1> QED BY <1>1, InvariantGivesOutcome, PTL

(* Neither journal turns down what the other side, or its own past, has     *)
(* faithfully produced: the hand-written tables of the phases have no gap.  *)
THEOREM NeverRefusedHolds == OAuthSpec => []NeverRefused
<1>1. OAuthSpec => []OAuthInvariant BY OAuthInvariantHolds
<1>2. OAuthInvariant => NeverRefused BY DEF OAuthInvariant
<1> QED BY <1>1, <1>2, PTL
=============================================================================
