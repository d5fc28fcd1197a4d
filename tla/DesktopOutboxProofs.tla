------------------------ MODULE DesktopOutboxProofs ------------------------
(***************************************************************************)
(* OutboxInvariant is inductive, and the safety properties of DesktopOutbox*)
(* follow from it, for any numbers of prompts, follow-ups and hosts, with  *)
(* the identities shared as they like, and for any number of faults.       *)
(*                                                                         *)
(* The argument: a message on its way is handled through what a step does  *)
(* to the two channels (MessageSent, MessageGone, Messages); a task's step *)
(* leaves every other task as it was (OnlyTask), so each part of the       *)
(* invariant is shown for the one that moved; the host's outcomes are for  *)
(* good (OutcomesKept), so what an answer says stays true on its way.      *)
(*                                                                         *)
(* That a proof is final takes a second invariant, ProvenInvariant.  Who   *)
(* writes under a command's lock is the first in its order, so nobody else *)
(* drops the fence meanwhile (LeaveKeeps); what a host sends behind a proof*)
(* agrees with it (LastSent, HeardGone), so no reconciler goes on to put   *)
(* anything else; what it had queued before stands before the proof's own  *)
(* update, and the file's updates are made in order (QueueLeft).  Most     *)
(* steps touch none of this (Quiet), those of the host only what it sends  *)
(* (HostQuiet), those of one task only what is its own (MovesHeard,        *)
(* MovesKnown).                                                            *)
(***************************************************************************)
EXTENDS DesktopOutboxInvariant, TLAPS, SequenceTheorems

-----------------------------------------------------------------------------
(* Sequences.                                                               *)

LEMMA SeqFacts ==
    ASSUME NEW S, NEW s \in Seq(S), NEW e \in S
    PROVE  /\ Append(s, e) \in Seq(S) /\ Len(Append(s, e)) = Len(s) + 1
           /\ \A i \in 1..Len(s) + 1 : Append(s, e)[i] = IF i = Len(s) + 1 THEN e ELSE s[i]
           /\ s # <<>> => /\ Tail(s) \in Seq(S) /\ Len(Tail(s)) = Len(s) - 1 /\ Head(s) = s[1]
                          /\ Len(s) \in Nat \ {0}
                          /\ \A i \in 1..Len(s) - 1 : Tail(s)[i] = s[i + 1]
  OBVIOUS

LEMMA RemovedAt ==
    ASSUME NEW S, NEW s \in Seq(S), NEW i \in 1..Len(s)
    PROVE  /\ RemoveAt(s, i) \in Seq(S) /\ Len(RemoveAt(s, i)) = Len(s) - 1
           /\ \A j \in 1..Len(s) - 1 : RemoveAt(s, i)[j] = IF j < i THEN s[j] ELSE s[j + 1]
<1> DEFINE before == SubSeq(s, 1, i - 1)
           after == SubSeq(s, i + 1, Len(s))
<1>1. before \in Seq(S) /\ Len(before) = i - 1 /\ \A j \in 1..i - 1 : before[j] = s[j]
  OBVIOUS
<1>2. after \in Seq(S) /\ Len(after) = Len(s) - i /\ \A j \in 1..Len(s) - i : after[j] = s[j + i]
  OBVIOUS
<1>3. RemoveAt(s, i) = before \o after
  BY DEF RemoveAt
<1>4. Len(s) \in Nat OBVIOUS
<1> HIDE DEF before, after
<1>5. /\ before \o after \in Seq(S) /\ Len(before \o after) = Len(before) + Len(after)
      /\ \A j \in 1..Len(before) + Len(after) :
            (before \o after)[j] = IF j <= Len(before) THEN before[j] ELSE after[j - Len(before)]
  BY <1>1, <1>2, ConcatProperties
<1>a. Len(before \o after) = Len(s) - 1
  BY <1>1, <1>2, <1>4, <1>5
<1>b. \A j \in 1..Len(s) - 1 : (before \o after)[j] = IF j < i THEN before[j] ELSE after[j - i + 1]
  BY <1>1, <1>2, <1>4, <1>5
<1>6. \A j \in 1..Len(s) - 1 : j < i => j \in 1..i-1
  BY <1>4
<1>7. \A j \in 1..Len(s) - 1 : ~(j < i) => j - i + 1 \in 1..Len(s) - i /\ j - i + 1 + i = j + 1
  BY <1>4
<1>8. \A j \in 1..Len(s) - 1 : ~(j < i) => after[j - i + 1] = s[j + 1]
  BY <1>7, <1>2
<1>9. \A j \in 1..Len(s) - 1 : j < i => before[j] = s[j]
  BY <1>6, <1>1
<1> QED BY <1>3, <1>5, <1>a, <1>b, <1>8, <1>9

USE OutboxAssumption
DEF At, Goto, Join, HasTurn, Queue, files, reconciling, memory, hostVars, history

-----------------------------------------------------------------------------
(* A step of one task.                                                      *)
OnlyTask(t) == \A u \in Tasks \ {t} : pc'[u] = pc[u] /\ want'[u] = want[u] /\ cmd'[u] = cmd[u]

(* The host's outcomes are for good.                                        *)
OutcomesKept == \A c : status[c] \in Final => status'[c] = status[c]

LEMMA TaskFacts ==
    /\ Tasks = Submissions \cup Signals \cup Reconcilers
    /\ Reconcilers = {Connecting, Polling} /\ Connecting # Polling
    /\ \A c \in Commands : Submission(c) \in Submissions /\ Submission(c).of = c
    /\ \A t \in Submissions : t.of \in Commands /\ t = Submission(t.of)
    /\ \A c \in Prompts : Signal(c) \in Signals /\ Signal(c).of = c /\ c \in Commands
    /\ \A t \in Signals : t.of \in Prompts /\ t.of \in Commands /\ t = Signal(t.of)
    /\ Submissions \cap Signals = {} /\ Submissions \cap Reconcilers = {}
    /\ Signals \cap Reconcilers = {}
    /\ \A t \in Reconcilers : t.of = NoCommand
    /\ \A c \in Commands : IdOf[c] \in Ids
  BY DEF Tasks, Submissions, Signals, Reconcilers, Connecting, Polling, Submission, Signal,
    Commands, Ids

LEMMA Messages ==
    ASSUME OutboxShape
    PROVE  /\ Len(down) \in Nat
           /\ \A i \in 1..Len(down) :
               down[i] \in Message /\ down[i].to \in Tasks /\ down[i].got \in Statuses
<1>1. down \in Seq(Message) BY DEF OutboxShape
<1>2. \A i \in 1..Len(down) : down[i] \in Message BY <1>1
<1> QED BY <1>1, <1>2 DEF Message

LEMMA AnswersFrame ==
    ASSUME OutboxShape, AnswersTrue,
           UNCHANGED <<status, asked, wire, owed, down>>, 
           \A t \in Tasks : At(t, "asked") => At(t, "asked")' /\ cmd'[t] = cmd[t]
    PROVE  AnswersTrue'
BY Messages DEF AnswersTrue, Truthful

LEMMA GotoShape ==
    ASSUME OutboxShape, NEW t \in Tasks, NEW p \in Places, Goto(t, p)
    PROVE  pc' \in [Tasks -> Places]
  BY DEF OutboxShape

LEMMA WantShape ==
    ASSUME OutboxShape, NEW t \in Tasks, NEW w \in Wants, want' = [want EXCEPT ![t] = w]
    PROVE  want' \in [Tasks -> Wants]
  BY DEF OutboxShape

LEMMA RetainedWants ==
    ASSUME NEW c, NEW got
    PROVE  Retained(c, got) \in Updates \cap Wants
  BY DEF Retained, Updates, Entries, Wants

LEMMA RetainedShape ==
    ASSUME NEW c \in Commands, NEW got \in Statuses
    PROVE  /\ Retained(c, got) \in Updates /\ Retained(c, got) \in Entries
           /\ Retained(c, got) = "none" => got \in Final \cup {"none"}
  BY DEF Retained, Updates, Entries, Statuses, Final

LEMMA RemovalsFrame ==
    ASSUME OutboxShape, RemovalsEarned, NEW t \in Tasks, OnlyTask(t), OutcomesKept,
           \A c \in fence' : c \in fence \/ status'[c] = "completed",
           \A c \in gone' : c \in gone \/ status'[c] \in Final,
           Earned(t)'
    PROVE  RemovalsEarned'
<1>1. ASSUME NEW u \in Tasks, u # t PROVE Earned(u)'
  <2>1. Earned(u) /\ pc'[u] = pc[u] /\ want'[u] = want[u] /\ cmd'[u] = cmd[u]
    BY <1>1 DEF RemovalsEarned, OnlyTask
  <2>2. \A c : status[c] \in Final => status'[c] = status[c]
    BY DEF OutcomesKept
  <2> QED BY <2>1, <2>2 DEF Earned, Final
<1>2. \A c \in fence' : status'[c] = "completed"
  BY DEF RemovalsEarned, OutcomesKept, Final
<1>3. \A c \in gone' : status'[c] \in Final
  BY DEF RemovalsEarned, OutcomesKept
<1> QED BY <1>1, <1>2, <1>3 DEF RemovalsEarned

LEMMA TruthfulKept ==
    ASSUME NEW m, Truthful(m), OutcomesKept,
           m.to \notin Signals => At(m.to, "asked")' /\ m.to \notin asked' /\ cmd'[m.to] = cmd[m.to]
    PROVE  Truthful(m)'
  BY DEF Truthful, OutcomesKept, Final

(* A message more.                                                          *)
LEMMA MessageSent ==
    ASSUME OutboxShape, AnswersTrue, NEW m \in Message, down' = Append(down, m),
           UNCHANGED <<pc, cmd, status>>, asked' \subseteq asked,
           Truthful(m)',
           m.to \in Signals \/ m.to \in asked,
           \A c \in Commands : Submission(c) \in asked' /\ c \notin wire' => status[c] # "none",
           owed' \subseteq owed
    PROVE  AnswersTrue'
<1>1. /\ down \in Seq(Message) /\ Len(down) \in Nat /\ Len(down') = Len(down) + 1
      /\ \A i \in 1..Len(down') : down'[i] = IF i = Len(down) + 1 THEN m ELSE down[i]
  BY SeqFacts DEF OutboxShape
<1>2. \A i \in 1..Len(down') : i = Len(down) + 1 \/ i \in 1..Len(down)
  BY <1>1
<1>3. ASSUME NEW n \in Message, \E i \in 1..Len(down) : n = down[i] PROVE Truthful(n)'
  BY <1>3, TruthfulKept DEF AnswersTrue, Truthful, OutcomesKept
<1>4. ASSUME NEW i \in 1..Len(down') PROVE Truthful(down[i])'
  BY <1>1, <1>2, <1>3, Messages
<1>5. \A i \in 1..Len(down) : down[i].to = m.to => m.to \in Signals
  BY DEF AnswersTrue, Truthful
<1>6. \A i, j \in 1..Len(down') : down'[i].to = down'[j].to => i = j \/ down'[i].to \in Signals
  BY <1>1, <1>2, <1>5 DEF AnswersTrue
<1> QED BY <1>4, <1>6 DEF AnswersTrue

(* A message less.                                                          *)
LEMMA MessageGone ==
    ASSUME OutboxShape, AnswersTrue, NEW k \in 1..Len(down), down' = RemoveAt(down, k),
           UNCHANGED <<status, wire, owed>>, asked' \subseteq asked,
           \A t \in Tasks : t # down[k].to /\ At(t, "asked") /\ t \notin Signals =>
               At(t, "asked")' /\ cmd'[t] = cmd[t]
    PROVE  AnswersTrue'
<1>1. /\ down \in Seq(Message) /\ Len(down) \in Nat /\ Len(down') = Len(down) - 1
      /\ \A j \in 1..Len(down') : down'[j] = IF j < k THEN down[j] ELSE down[j + 1]
  <2>1. down \in Seq(Message) BY DEF OutboxShape
  <2>2. Len(down) \in Nat BY <2>1
  <2> QED BY <2>1, <2>2, RemovedAt
<1> DEFINE old(j) == IF j < k THEN j ELSE j + 1
<1>2. \A j \in 1..Len(down') : old(j) \in 1..Len(down) \ {k} /\ down'[j] = down[old(j)]
  BY <1>1
<1>3. \A i, j \in 1..Len(down') : old(i) = old(j) => i = j
  BY <1>1
<1> HIDE DEF old
<1>4. ASSUME NEW i \in 1..Len(down) \ {k}, NEW m \in Message, m = down[i] PROVE Truthful(m)'
  <2>1. Truthful(m) /\ m.to \in Tasks BY <1>4, Messages DEF AnswersTrue
  <2>2. m.to \notin Signals => m.to # down[k].to BY <1>4 DEF AnswersTrue
  <2>3. m.to \notin Signals => At(m.to, "asked") /\ m.to \notin asked
    BY <2>1 DEF Truthful
  <2> QED BY <2>1, <2>2, <2>3, TruthfulKept DEF OutcomesKept
<1>5. ASSUME NEW j \in 1..Len(down') PROVE Truthful(down[j])'
  BY <1>2, <1>4, Messages
<1>6. ASSUME NEW i \in 1..Len(down'), NEW j \in 1..Len(down'), down'[i].to = down'[j].to
      PROVE  i = j \/ down'[i].to \in Signals
  <2>1. old(i) = old(j) \/ down[old(i)].to \in Signals BY <1>2, <1>6 DEF AnswersTrue
  <2> QED BY <2>1, <1>2, <1>3
<1> QED BY <1>5, <1>6 DEF AnswersTrue

-----------------------------------------------------------------------------
(* Submissions.                                                             *)

LEMMA SubmitPreserves ==
    ASSUME NEW c \in Commands, OutboxInvariant, Submit(c)
    PROVE  OutboxInvariant'
<1>1. OutboxShape'
  BY TaskFacts DEF OutboxInvariant, OutboxShape, RemovalsEarned, Earned, Submit, Submittable, Places, Wants, Entries, Updates, Statuses, Final
<1>2. Reservations'
  BY <1>1, TaskFacts DEF OutboxInvariant, OutboxShape, Reservations, Submit, Submittable, Reserved, Working, Final, Wants, Entries, Updates, Statuses
<1>3. Connected'
  BY <1>1, TaskFacts DEF OutboxInvariant, OutboxShape, Connected, Submit, Submittable, Final, Wants, Entries, Updates, Statuses
<1>4. AnswersTrue'
  BY TaskFacts, AnswersFrame DEF OutboxInvariant, OutboxShape, RemovalsEarned, Earned, Submit, Submittable
<1>5. RemovalsEarned'
  BY <1>1, TaskFacts DEF OutboxInvariant, OutboxShape, RemovalsEarned, Earned, AnswersTrue, Submit, Submittable, Final, Wants, Entries, Updates, Statuses
<1>6. SentOnce'
  BY <1>1, TaskFacts DEF OutboxInvariant, OutboxShape, SentOnce, RemovalsEarned, Earned, Submit, Submittable, Final, Wants, Entries, Updates, Statuses
<1> QED BY <1>1, <1>2, <1>3, <1>4, <1>5, <1>6 DEF OutboxInvariant

LEMMA CheckPreserves ==
    ASSUME NEW c \in Commands, OutboxInvariant, Check(c)
    PROVE  OutboxInvariant'
<1>1. OutboxShape'
  BY TaskFacts DEF OutboxInvariant, OutboxShape, RemovalsEarned, Earned, Check, IdentityAvailable, Places, Wants, Entries, Updates, Statuses, Final
<1>2. Reservations'
  BY <1>1, TaskFacts DEF OutboxInvariant, OutboxShape, Reservations, Check, IdentityAvailable, Reserved, Working, Final, Wants, Entries, Updates, Statuses
<1>3. Connected'
  BY <1>1, TaskFacts DEF OutboxInvariant, OutboxShape, Connected, Check, IdentityAvailable, Final, Wants, Entries, Updates, Statuses
<1>4. AnswersTrue'
  BY TaskFacts, AnswersFrame DEF OutboxInvariant, OutboxShape, RemovalsEarned, Earned, Check, IdentityAvailable
<1>5. RemovalsEarned'
  BY <1>1, TaskFacts DEF OutboxInvariant, OutboxShape, RemovalsEarned, Earned, AnswersTrue, Check, IdentityAvailable, Final, Wants, Entries, Updates, Statuses
<1>6. SentOnce'
  BY <1>1, TaskFacts DEF OutboxInvariant, OutboxShape, SentOnce, RemovalsEarned, Earned, Check, IdentityAvailable, Final, Wants, Entries, Updates, Statuses
<1> QED BY <1>1, <1>2, <1>3, <1>4, <1>5, <1>6 DEF OutboxInvariant

LEMMA ReservePreserves ==
    ASSUME NEW c \in Commands, OutboxInvariant, Reserve(c)
    PROVE  OutboxInvariant'
<1>1. OutboxShape'
  <2>1. Submission(c) \in Tasks BY TaskFacts
  <2>2. pc' \in [Tasks -> Places]
    <3>1. \E p \in Places : Goto(Submission(c), p) BY DEF Reserve, Places
    <3> QED BY <2>1, <3>1, GotoShape DEF OutboxInvariant
  <2>3. want' \in [Tasks -> Wants]
    BY <2>1, WantShape DEF OutboxInvariant, OutboxShape, Reserve, Wants, Entries
  <2> QED
    BY <2>1, <2>2, <2>3, TaskFacts DEF OutboxInvariant, OutboxShape, Reserve
<1>2. Reservations'
  BY <1>1, TaskFacts DEF OutboxInvariant, OutboxShape, Reservations, Reserve, Reservable, Reserved, Working, Final, Wants, Entries, Updates, Statuses
<1>3. Connected'
  BY <1>1, TaskFacts DEF OutboxInvariant, OutboxShape, Connected, Reserve, Reservable, Final, Wants, Entries, Updates, Statuses
<1>4. AnswersTrue'
  BY TaskFacts, AnswersFrame DEF OutboxInvariant, OutboxShape, RemovalsEarned, Earned, Reserve, Reservable
<1>5. RemovalsEarned'
  BY <1>1, TaskFacts DEF OutboxInvariant, OutboxShape, RemovalsEarned, Earned, AnswersTrue, Reserve, Reservable, Final, Wants, Entries, Updates, Statuses
<1>6. SentOnce'
  BY <1>1, TaskFacts DEF OutboxInvariant, OutboxShape, SentOnce, RemovalsEarned, Earned, Reserve, Reservable, Final, Wants, Entries, Updates, Statuses
<1> QED BY <1>1, <1>2, <1>3, <1>4, <1>5, <1>6 DEF OutboxInvariant

LEMMA ReserveRefusedPreserves ==
    ASSUME NEW c \in Commands, OutboxInvariant, ReserveRefused(c)
    PROVE  OutboxInvariant'
<1>1. OutboxShape'
  BY TaskFacts DEF OutboxInvariant, OutboxShape, RemovalsEarned, Earned, ReserveRefused, Places, Wants, Entries, Updates, Statuses, Final
<1>2. Reservations'
  BY <1>1, TaskFacts DEF OutboxInvariant, OutboxShape, Reservations, ReserveRefused, Reserved, Working, Final, Wants, Entries, Updates, Statuses
<1>3. Connected'
  BY <1>1, TaskFacts DEF OutboxInvariant, OutboxShape, Connected, ReserveRefused, Final, Wants, Entries, Updates, Statuses
<1>4. AnswersTrue'
  BY TaskFacts, AnswersFrame DEF OutboxInvariant, OutboxShape, RemovalsEarned, Earned, ReserveRefused
<1>5. RemovalsEarned'
  BY <1>1, TaskFacts DEF OutboxInvariant, OutboxShape, RemovalsEarned, Earned, AnswersTrue, ReserveRefused, Final, Wants, Entries, Updates, Statuses
<1>6. SentOnce'
  BY <1>1, TaskFacts DEF OutboxInvariant, OutboxShape, SentOnce, RemovalsEarned, Earned, ReserveRefused, Final, Wants, Entries, Updates, Statuses
<1> QED BY <1>1, <1>2, <1>3, <1>4, <1>5, <1>6 DEF OutboxInvariant

LEMMA FirstWrittenPreserves ==
    ASSUME NEW c \in Commands, OutboxInvariant, FirstWritten(c)
    PROVE  OutboxInvariant'
<1>1. OutboxShape'
  <2>1. Submission(c) \in Tasks BY TaskFacts
  <2>2. pc' \in [Tasks -> Places]
    <3>1. \E p \in Places : Goto(Submission(c), p) BY DEF FirstWritten, Places
    <3> QED BY <2>1, <3>1, GotoShape DEF OutboxInvariant
  <2>3. want' \in [Tasks -> Wants]
    BY <2>1, WantShape DEF OutboxInvariant, FirstWritten, Write, Wants, Entries
  <2>4. outbox' \in [Commands -> Entries]
    BY <2>1 DEF OutboxInvariant, OutboxShape, FirstWritten, Write, Updated, Entries
  <2>5. asked' \subseteq Tasks \ Signals BY TaskFacts DEF OutboxInvariant, OutboxShape, FirstWritten
  <2> QED
    BY <2>1, <2>2, <2>3, <2>4, <2>5 DEF OutboxInvariant, OutboxShape, FirstWritten
<1>2. Reservations'
  BY <1>1, TaskFacts DEF OutboxInvariant, OutboxShape, Reservations, FirstWritten, StillCurrent, Write, Updated, Reserved, Working, Final, Wants, Entries, Updates, Statuses
<1>3. Connected'
  BY <1>1, TaskFacts DEF OutboxInvariant, OutboxShape, Connected, FirstWritten, StillCurrent, Write, Updated, Final, Wants, Entries, Updates, Statuses
<1>4. AnswersTrue'
  BY <1>1, TaskFacts, Messages DEF OutboxInvariant, OutboxShape, AnswersTrue, Truthful, FirstWritten, StillCurrent, Write, Updated, Final, Wants, Entries, Updates, Statuses
<1>5. RemovalsEarned'
  BY <1>1, TaskFacts DEF OutboxInvariant, OutboxShape, RemovalsEarned, Earned, AnswersTrue, FirstWritten, StillCurrent, Write, Updated, Final, Wants, Entries, Updates, Statuses
<1>6. SentOnce'
  BY <1>1, TaskFacts DEF OutboxInvariant, OutboxShape, SentOnce, RemovalsEarned, Earned, FirstWritten, StillCurrent, Write, Updated, Final, Wants, Entries, Updates, Statuses
<1> QED BY <1>1, <1>2, <1>3, <1>4, <1>5, <1>6 DEF OutboxInvariant

LEMMA SettlePreserves ==
    ASSUME NEW c \in Commands, OutboxInvariant, Settle(c)
    PROVE  OutboxInvariant'
<1>1. OutboxShape'
  <2>1. Submission(c) \in Tasks BY TaskFacts
  <2>2. pc' \in [Tasks -> Places]
    <3>1. \E p \in Places : Goto(Submission(c), p) BY DEF Settle, Places
    <3> QED BY <2>1, <3>1, GotoShape DEF OutboxInvariant
  <2>3. \E w \in Wants : want' = [want EXCEPT ![Submission(c)] = w]
    BY RetainedWants DEF Settle, Wants, Entries
  <2>4. want' \in [Tasks -> Wants]
    BY <2>1, <2>3, WantShape DEF OutboxInvariant
  <2>5. fence' \subseteq Commands /\ live' \subseteq Tasks 
    BY DEF OutboxInvariant, OutboxShape, Settle, Leave, FenceAfter
  <2> QED
    BY <2>1, <2>2, <2>4, <2>5, TaskFacts DEF OutboxInvariant, OutboxShape, Settle
<1>2. Reservations'
  BY <1>1, TaskFacts DEF OutboxInvariant, OutboxShape, Reservations, Settle, Leave, FenceAfter, Retained, Reserved, Working, Final, Wants, Entries, Updates, Statuses
<1>3. Connected'
  BY <1>1, TaskFacts DEF OutboxInvariant, OutboxShape, Connected, Settle, Leave, FenceAfter, Retained, Final, Wants, Entries, Updates, Statuses
<1>4. AnswersTrue'
  BY TaskFacts, AnswersFrame DEF OutboxInvariant, OutboxShape, RemovalsEarned, Earned, Settle, Leave, FenceAfter, Retained
<1>5. RemovalsEarned'
  <2>1. /\ Submission(c) \in Submissions /\ Submission(c) \in Tasks /\ cmd[Submission(c)] = c
        /\ Submission(c) \notin Reconcilers /\ Submission(c) # Connecting
    BY TaskFacts DEF OutboxInvariant, OutboxShape
  <2>2. LET w == Retained(c, want[Submission(c)]) IN
          w \in Updates /\ (w = "none" => status[c] \in Final)
      BY <2>1, RetainedShape DEF OutboxInvariant, RemovalsEarned, Earned, Settle
  <2>3. Earned(Submission(c))'
    BY <2>1, <2>2 DEF OutboxInvariant, OutboxShape, Earned, Settle
  <2>4. OnlyTask(Submission(c)) /\ OutcomesKept /\ fence' \subseteq fence /\ gone' = gone
    BY <2>1 DEF OutboxInvariant, OutboxShape, Settle, Leave, FenceAfter, OnlyTask, OutcomesKept
  <2> QED BY <2>1, <2>3, <2>4, RemovalsFrame DEF OutboxInvariant
<1>6. SentOnce'
  BY <1>1, TaskFacts DEF OutboxInvariant, OutboxShape, SentOnce, RemovalsEarned, Earned, Settle, Leave, FenceAfter, Retained, Final, Wants, Entries, Updates, Statuses
<1> QED BY <1>1, <1>2, <1>3, <1>4, <1>5, <1>6 DEF OutboxInvariant

LEMMA FailPreserves ==
    ASSUME NEW c \in Commands, OutboxInvariant, Fail(c)
    PROVE  OutboxInvariant'
<1>1. OutboxShape'
  <2>1. Submission(c) \in Tasks BY TaskFacts
  <2>2. pc' \in [Tasks -> Places]
    <3>1. \E p \in Places : Goto(Submission(c), p) BY DEF Fail, Places
    <3> QED BY <2>1, <3>1, GotoShape DEF OutboxInvariant
  <2>3. want' \in [Tasks -> Wants]
    BY <2>1, WantShape DEF OutboxInvariant, OutboxShape, Fail, Wants, Entries
  <2>4. fence' \subseteq Commands /\ live' \subseteq Tasks
    BY DEF OutboxInvariant, OutboxShape, Fail, Leave, FenceAfter
  <2> QED
    BY <2>1, <2>2, <2>3, <2>4, TaskFacts DEF OutboxInvariant, OutboxShape, Fail
<1>2. Reservations'
  BY <1>1, TaskFacts DEF OutboxInvariant, OutboxShape, Reservations, Fail, Leave, FenceAfter, Schedule, Reserved, Working, Final, Wants, Entries, Updates, Statuses
<1>3. Connected'
  BY <1>1, TaskFacts DEF OutboxInvariant, OutboxShape, Connected, Fail, Leave, FenceAfter, Schedule, Final, Wants, Entries, Updates, Statuses
<1>4. AnswersTrue'
  BY TaskFacts, AnswersFrame DEF OutboxInvariant, OutboxShape, RemovalsEarned, Earned, Fail, Leave, FenceAfter, Schedule
<1>5. RemovalsEarned'
  <2>1. /\ Submission(c) \in Submissions /\ Submission(c) \in Tasks /\ cmd[Submission(c)] = c
        /\ Submission(c) \notin Reconcilers /\ Submission(c) # Connecting
    BY TaskFacts DEF OutboxInvariant, OutboxShape
  <2>2. Earned(Submission(c))'
    BY <2>1 DEF OutboxInvariant, OutboxShape, Earned, Fail, Updates, Entries
  <2>3. OnlyTask(Submission(c)) /\ OutcomesKept /\ fence' \subseteq fence /\ gone' = gone
    BY <2>1 DEF OutboxInvariant, OutboxShape, Fail, Leave, FenceAfter, OnlyTask, OutcomesKept
  <2> QED BY <2>1, <2>2, <2>3, RemovalsFrame DEF OutboxInvariant
<1>6. SentOnce'
  BY <1>1, TaskFacts DEF OutboxInvariant, OutboxShape, SentOnce, RemovalsEarned, Earned, Fail, Leave, FenceAfter, Schedule, Final, Wants, Entries, Updates, Statuses
<1> QED BY <1>1, <1>2, <1>3, <1>4, <1>5, <1>6 DEF OutboxInvariant

-----------------------------------------------------------------------------
(* Proofs of completion, and what is written under the lifecycle lock.      *)

LEMMA CommitPreserves ==
    ASSUME NEW t \in Tasks, OutboxInvariant, Commit(t)
    PROVE  OutboxInvariant'
<1>1. OutboxShape'
  <2>1. cmd[t] \in Commands BY DEF OutboxInvariant, Reservations, Working, Commit
  <2>2. pc' \in [Tasks -> Places] BY GotoShape DEF OutboxInvariant, Commit, Places
  <2>3. want' \in [Tasks -> Wants] BY WantShape DEF OutboxInvariant, Commit, Wants, Entries
  <2> QED BY <2>1, <2>2, <2>3 DEF OutboxInvariant, OutboxShape, Commit
<1>2. Reservations'
  BY <1>1, TaskFacts DEF OutboxInvariant, OutboxShape, Reservations, Commit, Reserved, Working, Final, Wants, Entries, Updates, Statuses
<1>3. Connected'
  BY <1>1, TaskFacts DEF OutboxInvariant, OutboxShape, Connected, Commit, Final, Wants, Entries, Updates, Statuses
<1>4. AnswersTrue'
  BY TaskFacts, AnswersFrame DEF OutboxInvariant, OutboxShape, RemovalsEarned, Earned, Commit
<1>5. RemovalsEarned'
  BY <1>1, TaskFacts DEF OutboxInvariant, OutboxShape, RemovalsEarned, Earned, AnswersTrue, Commit, Final, Wants, Entries, Updates, Statuses
<1>6. SentOnce'
  BY <1>1, TaskFacts DEF OutboxInvariant, OutboxShape, SentOnce, RemovalsEarned, Earned, Commit, Final, Wants, Entries, Updates, Statuses
<1> QED BY <1>1, <1>2, <1>3, <1>4, <1>5, <1>6 DEF OutboxInvariant

LEMMA CommitRepeatedPreserves ==
    ASSUME NEW t \in Tasks, OutboxInvariant, CommitRepeated(t)
    PROVE  OutboxInvariant'
<1>1. OutboxShape'
  BY TaskFacts DEF OutboxInvariant, OutboxShape, RemovalsEarned, Earned, CommitRepeated, Onward, Leave, FenceAfter, Places, Wants, Entries, Updates, Statuses, Final
<1>2. Reservations'
  BY <1>1, TaskFacts DEF OutboxInvariant, OutboxShape, Reservations, CommitRepeated, Onward, Leave, FenceAfter, Reserved, Working, Final, Wants, Entries, Updates, Statuses
<1>3. Connected'
  BY <1>1, TaskFacts DEF OutboxInvariant, OutboxShape, Connected, CommitRepeated, Onward, Leave, FenceAfter, Final, Wants, Entries, Updates, Statuses
<1>4. AnswersTrue'
  BY TaskFacts, AnswersFrame DEF OutboxInvariant, OutboxShape, RemovalsEarned, Earned, CommitRepeated, Onward, Leave, FenceAfter
<1>5. RemovalsEarned'
  BY <1>1, TaskFacts DEF OutboxInvariant, OutboxShape, RemovalsEarned, Earned, AnswersTrue, CommitRepeated, Onward, Leave, FenceAfter, Final, Wants, Entries, Updates, Statuses
<1>6. SentOnce'
  BY <1>1, TaskFacts DEF OutboxInvariant, OutboxShape, SentOnce, RemovalsEarned, Earned, CommitRepeated, Onward, Leave, FenceAfter, Final, Wants, Entries, Updates, Statuses
<1> QED BY <1>1, <1>2, <1>3, <1>4, <1>5, <1>6 DEF OutboxInvariant

LEMMA CommitSupersededPreserves ==
    ASSUME NEW t \in Tasks, OutboxInvariant, CommitSuperseded(t)
    PROVE  OutboxInvariant'
<1>1. OutboxShape'
  <2>1. pc' \in [Tasks -> Places]
    <3>1. \E p \in Places : Goto(t, p) BY DEF CommitSuperseded, Onward, Places
    <3> QED BY <3>1, GotoShape DEF OutboxInvariant
  <2>2. want' \in [Tasks -> Wants]
    <3>1. want' = want \/ want' = [want EXCEPT ![t] = "none"] BY DEF CommitSuperseded
    <3> QED BY <3>1, WantShape DEF OutboxInvariant, OutboxShape, Wants, Entries
  <2>3. fence' \subseteq Commands /\ live' \subseteq Tasks
    BY DEF OutboxInvariant, OutboxShape, CommitSuperseded, Leave, FenceAfter
  <2> QED BY <2>1, <2>2, <2>3 DEF OutboxInvariant, OutboxShape, CommitSuperseded
<1>2. Reservations'
  BY <1>1, TaskFacts DEF OutboxInvariant, OutboxShape, Reservations, CommitSuperseded, Onward, Leave, FenceAfter, Reserved, Working, Final, Wants, Entries, Updates, Statuses
<1>3. Connected'
  BY <1>1, TaskFacts DEF OutboxInvariant, OutboxShape, Connected, CommitSuperseded, Onward, Leave, FenceAfter, Final, Wants, Entries, Updates, Statuses
<1>4. AnswersTrue'
  BY TaskFacts, AnswersFrame DEF OutboxInvariant, OutboxShape, RemovalsEarned, Earned, CommitSuperseded, Onward, Leave, FenceAfter
<1>5. RemovalsEarned'
  BY <1>1, TaskFacts DEF OutboxInvariant, OutboxShape, RemovalsEarned, Earned, AnswersTrue, CommitSuperseded, Onward, Leave, FenceAfter, Final, Wants, Entries, Updates, Statuses
<1>6. SentOnce'
  BY <1>1, TaskFacts DEF OutboxInvariant, OutboxShape, SentOnce, RemovalsEarned, Earned, CommitSuperseded, Onward, Leave, FenceAfter, Final, Wants, Entries, Updates, Statuses
<1> QED BY <1>1, <1>2, <1>3, <1>4, <1>5, <1>6 DEF OutboxInvariant

LEMMA CommitAmbiguousPreserves ==
    ASSUME NEW t \in Tasks, OutboxInvariant, CommitAmbiguous(t)
    PROVE  OutboxInvariant'
<1>1. OutboxShape'
  BY TaskFacts DEF OutboxInvariant, OutboxShape, RemovalsEarned, Earned, CommitAmbiguous, Ambiguous, Onward, Closed, CutOffPc, Waiting, Places, Wants, Entries, Updates, Statuses, Final
<1>2. Reservations'
  BY <1>1, TaskFacts DEF OutboxInvariant, OutboxShape, Reservations, CommitAmbiguous, Ambiguous, Onward, Closed, CutOffPc, Waiting, Reserved, Working, Final, Wants, Entries, Updates, Statuses
<1>3. Connected'
  BY <1>1, TaskFacts DEF OutboxInvariant, OutboxShape, Connected, CommitAmbiguous, Ambiguous, Onward, Closed, CutOffPc, Waiting, Final, Wants, Entries, Updates, Statuses
<1>4. AnswersTrue'
  BY <1>1, TaskFacts, Messages DEF OutboxInvariant, OutboxShape, AnswersTrue, Truthful, CommitAmbiguous, Ambiguous, Onward, Closed, CutOffPc, Waiting, Final, Wants, Entries, Updates, Statuses
<1>5. RemovalsEarned'
  BY <1>1, TaskFacts DEF OutboxInvariant, OutboxShape, RemovalsEarned, Earned, AnswersTrue, CommitAmbiguous, Ambiguous, Onward, Closed, CutOffPc, Waiting, Final, Wants, Entries, Updates, Statuses
<1>6. SentOnce'
  BY <1>1, TaskFacts DEF OutboxInvariant, OutboxShape, SentOnce, RemovalsEarned, Earned, CommitAmbiguous, Ambiguous, Onward, Closed, CutOffPc, Waiting, Final, Wants, Entries, Updates, Statuses
<1> QED BY <1>1, <1>2, <1>3, <1>4, <1>5, <1>6 DEF OutboxInvariant

LEMMA CommitHeldPreserves ==
    ASSUME OutboxInvariant, CommitHeld
    PROVE  OutboxInvariant'
<1>1. OutboxShape'
  BY TaskFacts DEF OutboxInvariant, OutboxShape, RemovalsEarned, Earned, CommitHeld, Ambiguous, Leave, FenceAfter, Places, Wants, Entries, Updates, Statuses, Final
<1>2. Reservations'
  BY <1>1, TaskFacts DEF OutboxInvariant, OutboxShape, Reservations, CommitHeld, Ambiguous, Leave, FenceAfter, Reserved, Working, Final, Wants, Entries, Updates, Statuses
<1>3. Connected'
  BY <1>1, TaskFacts DEF OutboxInvariant, OutboxShape, Connected, CommitHeld, Ambiguous, Leave, FenceAfter, Final, Wants, Entries, Updates, Statuses
<1>4. AnswersTrue'
  BY TaskFacts, AnswersFrame DEF OutboxInvariant, OutboxShape, RemovalsEarned, Earned, CommitHeld, Ambiguous, Leave, FenceAfter
<1>5. RemovalsEarned'
  BY <1>1, TaskFacts DEF OutboxInvariant, OutboxShape, RemovalsEarned, Earned, AnswersTrue, CommitHeld, Ambiguous, Leave, FenceAfter, Final, Wants, Entries, Updates, Statuses
<1>6. SentOnce'
  BY <1>1, TaskFacts DEF OutboxInvariant, OutboxShape, SentOnce, RemovalsEarned, Earned, CommitHeld, Ambiguous, Leave, FenceAfter, Final, Wants, Entries, Updates, Statuses
<1> QED BY <1>1, <1>2, <1>3, <1>4, <1>5, <1>6 DEF OutboxInvariant

LEMMA LockedWrittenPreserves ==
    ASSUME NEW t \in Tasks, OutboxInvariant, LockedWritten(t)
    PROVE  OutboxInvariant'
<1>1. OutboxShape'
  BY TaskFacts DEF OutboxInvariant, OutboxShape, RemovalsEarned, Earned, LockedWritten, Write, Updated, Onward, Leave, FenceAfter, Places, Wants, Entries, Updates, Statuses, Final
<1>2. Reservations'
  BY <1>1, TaskFacts DEF OutboxInvariant, OutboxShape, Reservations, LockedWritten, Write, Updated, Onward, Leave, FenceAfter, Reserved, Working, Final, Wants, Entries, Updates, Statuses
<1>3. Connected'
  BY <1>1, TaskFacts DEF OutboxInvariant, OutboxShape, Connected, LockedWritten, Write, Updated, Onward, Leave, FenceAfter, Final, Wants, Entries, Updates, Statuses
<1>4. AnswersTrue'
  BY TaskFacts, AnswersFrame DEF OutboxInvariant, OutboxShape, RemovalsEarned, Earned, LockedWritten, Write, Updated, Onward, Leave, FenceAfter
<1>5. RemovalsEarned'
  BY <1>1, TaskFacts DEF OutboxInvariant, OutboxShape, RemovalsEarned, Earned, AnswersTrue, LockedWritten, Write, Updated, Onward, Leave, FenceAfter, Final, Wants, Entries, Updates, Statuses
<1>6. SentOnce'
  BY <1>1, TaskFacts DEF OutboxInvariant, OutboxShape, SentOnce, RemovalsEarned, Earned, LockedWritten, Write, Updated, Onward, Leave, FenceAfter, Final, Wants, Entries, Updates, Statuses
<1> QED BY <1>1, <1>2, <1>3, <1>4, <1>5, <1>6 DEF OutboxInvariant

LEMMA SignalReadPreserves ==
    ASSUME NEW c \in Prompts, OutboxInvariant, SignalRead(c)
    PROVE  OutboxInvariant'
<1>1. OutboxShape'
  BY TaskFacts DEF OutboxInvariant, OutboxShape, RemovalsEarned, Earned, SignalRead, Places, Wants, Entries, Updates, Statuses, Final
<1>2. Reservations'
  BY <1>1, TaskFacts DEF OutboxInvariant, OutboxShape, Reservations, SignalRead, Reserved, Working, Final, Wants, Entries, Updates, Statuses
<1>3. Connected'
  BY <1>1, TaskFacts DEF OutboxInvariant, OutboxShape, Connected, SignalRead, Final, Wants, Entries, Updates, Statuses
<1>4. AnswersTrue'
  BY TaskFacts, AnswersFrame DEF OutboxInvariant, OutboxShape, RemovalsEarned, Earned, SignalRead
<1>5. RemovalsEarned'
  BY <1>1, TaskFacts DEF OutboxInvariant, OutboxShape, RemovalsEarned, Earned, AnswersTrue, SignalRead, Final, Wants, Entries, Updates, Statuses
<1>6. SentOnce'
  BY <1>1, TaskFacts DEF OutboxInvariant, OutboxShape, SentOnce, RemovalsEarned, Earned, SignalRead, Final, Wants, Entries, Updates, Statuses
<1> QED BY <1>1, <1>2, <1>3, <1>4, <1>5, <1>6 DEF OutboxInvariant

-----------------------------------------------------------------------------
(* The connection.                                                          *)

LEMMA ConnectPreserves ==
    ASSUME NEW h \in Hosts, OutboxInvariant, Connect(h)
    PROVE  OutboxInvariant'
<1>1. OutboxShape'
  BY TaskFacts DEF OutboxInvariant, OutboxShape, RemovalsEarned, Earned, Connect, Places, Wants, Entries, Updates, Statuses, Final
<1>2. Reservations'
  BY <1>1, TaskFacts DEF OutboxInvariant, OutboxShape, Reservations, Connect, Reserved, Working, Final, Wants, Entries, Updates, Statuses
<1>3. Connected'
  BY <1>1, TaskFacts DEF OutboxInvariant, OutboxShape, Connected, Connect, Final, Wants, Entries, Updates, Statuses
<1>4. AnswersTrue'
  BY TaskFacts, AnswersFrame DEF OutboxInvariant, OutboxShape, RemovalsEarned, Earned, Connect
<1>5. RemovalsEarned'
  BY <1>1, TaskFacts DEF OutboxInvariant, OutboxShape, RemovalsEarned, Earned, AnswersTrue, Connect, Final, Wants, Entries, Updates, Statuses
<1>6. SentOnce'
  BY <1>1, TaskFacts DEF OutboxInvariant, OutboxShape, SentOnce, RemovalsEarned, Earned, Connect, Final, Wants, Entries, Updates, Statuses
<1> QED BY <1>1, <1>2, <1>3, <1>4, <1>5, <1>6 DEF OutboxInvariant

LEMMA DropPreserves ==
    ASSUME OutboxInvariant, Drop
    PROVE  OutboxInvariant'
<1>1. OutboxShape'
  BY TaskFacts DEF OutboxInvariant, OutboxShape, RemovalsEarned, Earned, Drop, Closed, CutOffPc, Waiting, Places, Wants, Entries, Updates, Statuses, Final
<1>2. Reservations'
  BY <1>1, TaskFacts DEF OutboxInvariant, OutboxShape, Reservations, Drop, Closed, CutOffPc, Waiting, Reserved, Working, Final, Wants, Entries, Updates, Statuses
<1>3. Connected'
  BY <1>1, TaskFacts DEF OutboxInvariant, OutboxShape, Connected, Drop, Closed, CutOffPc, Waiting, Final, Wants, Entries, Updates, Statuses
<1>4. AnswersTrue'
  BY <1>1, TaskFacts, Messages DEF OutboxInvariant, OutboxShape, AnswersTrue, Truthful, Drop, Closed, CutOffPc, Waiting, Final, Wants, Entries, Updates, Statuses
<1>5. RemovalsEarned'
  BY <1>1, TaskFacts DEF OutboxInvariant, OutboxShape, RemovalsEarned, Earned, AnswersTrue, Drop, Closed, CutOffPc, Waiting, Final, Wants, Entries, Updates, Statuses
<1>6. SentOnce'
  BY <1>1, TaskFacts DEF OutboxInvariant, OutboxShape, SentOnce, RemovalsEarned, Earned, Drop, Closed, CutOffPc, Waiting, Final, Wants, Entries, Updates, Statuses
<1> QED BY <1>1, <1>2, <1>3, <1>4, <1>5, <1>6 DEF OutboxInvariant

LEMMA CrashPreserves ==
    ASSUME OutboxInvariant, Crash
    PROVE  OutboxInvariant'
<1>1. OutboxShape'
  BY TaskFacts DEF OutboxInvariant, OutboxShape, RemovalsEarned, Earned, Crash, Places, Wants, Entries, Updates, Statuses, Final
<1>2. Reservations'
  BY <1>1, TaskFacts DEF OutboxInvariant, OutboxShape, Reservations, Crash, Reserved, Working, Final, Wants, Entries, Updates, Statuses
<1>3. Connected'
  BY <1>1, TaskFacts DEF OutboxInvariant, OutboxShape, Connected, Crash, Final, Wants, Entries, Updates, Statuses
<1>4. AnswersTrue'
  BY <1>1, TaskFacts, Messages DEF OutboxInvariant, OutboxShape, AnswersTrue, Truthful, Crash, Final, Wants, Entries, Updates, Statuses
<1>5. RemovalsEarned'
  BY <1>1, TaskFacts DEF OutboxInvariant, OutboxShape, RemovalsEarned, Earned, AnswersTrue, Crash, Final, Wants, Entries, Updates, Statuses
<1>6. SentOnce'
  BY <1>1, TaskFacts DEF OutboxInvariant, OutboxShape, SentOnce, RemovalsEarned, Earned, Crash, Final, Wants, Entries, Updates, Statuses
<1> QED BY <1>1, <1>2, <1>3, <1>4, <1>5, <1>6 DEF OutboxInvariant

-----------------------------------------------------------------------------
(* Reconciliation.                                                          *)

LEMMA PendingFacts ==
    ASSUME NEW t \in Reconcilers
    PROVE  \A c \in Pending(t) : c \in Commands /\ HostOf[c] = link /\ outbox[c] # "none"
BY DEF Pending, Pollable

LEMMA PolledPreserves ==
    ASSUME OutboxInvariant, Polled
    PROVE  OutboxInvariant'
<1>1. OutboxShape'
  BY PendingFacts, TaskFacts DEF OutboxInvariant, OutboxShape, RemovalsEarned, Earned, Polled, Places, Wants, Entries, Updates, Statuses, Final
<1>2. Reservations'
  BY <1>1, PendingFacts, TaskFacts DEF OutboxInvariant, OutboxShape, Reservations, Polled, Reserved, Working, Final, Wants, Entries, Updates, Statuses
<1>3. Connected'
  BY <1>1, PendingFacts, TaskFacts DEF OutboxInvariant, OutboxShape, Connected, Polled, Final, Wants, Entries, Updates, Statuses
<1>4. AnswersTrue'
  BY TaskFacts, AnswersFrame DEF OutboxInvariant, OutboxShape, RemovalsEarned, Earned, Polled
<1>5. RemovalsEarned'
  BY <1>1, TaskFacts DEF OutboxInvariant, OutboxShape, RemovalsEarned, Earned, AnswersTrue, Polled, Final, Wants, Entries, Updates, Statuses
<1>6. SentOnce'
  BY <1>1, TaskFacts DEF OutboxInvariant, OutboxShape, SentOnce, RemovalsEarned, Earned, Polled, Final, Wants, Entries, Updates, Statuses
<1> QED BY <1>1, <1>2, <1>3, <1>4, <1>5, <1>6 DEF OutboxInvariant

LEMMA ReadOutboxPreserves ==
    ASSUME OutboxInvariant, ReadOutbox
    PROVE  OutboxInvariant'
<1>1. OutboxShape'
  BY PendingFacts, TaskFacts DEF OutboxInvariant, OutboxShape, RemovalsEarned, Earned, ReadOutbox, Places, Wants, Entries, Updates, Statuses, Final
<1>2. Reservations'
  BY <1>1, PendingFacts, TaskFacts DEF OutboxInvariant, OutboxShape, Reservations, ReadOutbox, Reserved, Working, Final, Wants, Entries, Updates, Statuses
<1>3. Connected'
  BY <1>1, PendingFacts, TaskFacts DEF OutboxInvariant, OutboxShape, Connected, ReadOutbox, Final, Wants, Entries, Updates, Statuses
<1>4. AnswersTrue'
  BY TaskFacts, AnswersFrame DEF OutboxInvariant, OutboxShape, RemovalsEarned, Earned, ReadOutbox
<1>5. RemovalsEarned'
  BY <1>1, TaskFacts DEF OutboxInvariant, OutboxShape, RemovalsEarned, Earned, AnswersTrue, ReadOutbox, Final, Wants, Entries, Updates, Statuses
<1>6. SentOnce'
  BY <1>1, TaskFacts DEF OutboxInvariant, OutboxShape, SentOnce, RemovalsEarned, Earned, ReadOutbox, Final, Wants, Entries, Updates, Statuses
<1> QED BY <1>1, <1>2, <1>3, <1>4, <1>5, <1>6 DEF OutboxInvariant

LEMMA AskPreserves ==
    ASSUME NEW t \in Reconcilers, NEW c \in Commands, OutboxInvariant, Ask(t, c)
    PROVE  OutboxInvariant'
<1>1. OutboxShape'
  BY TaskFacts DEF OutboxInvariant, OutboxShape, RemovalsEarned, Earned, Ask, Places, Wants, Entries, Updates, Statuses, Final
<1>2. Reservations'
  BY <1>1, TaskFacts DEF OutboxInvariant, OutboxShape, Reservations, Ask, Reserved, Working, Final, Wants, Entries, Updates, Statuses
<1>3. Connected'
  BY <1>1, TaskFacts DEF OutboxInvariant, OutboxShape, Connected, Ask, Final, Wants, Entries, Updates, Statuses
<1>4. AnswersTrue'
  BY <1>1, TaskFacts, Messages DEF OutboxInvariant, OutboxShape, AnswersTrue, Truthful, Ask, Final, Wants, Entries, Updates, Statuses
<1>5. RemovalsEarned'
  BY <1>1, TaskFacts DEF OutboxInvariant, OutboxShape, RemovalsEarned, Earned, AnswersTrue, Ask, Final, Wants, Entries, Updates, Statuses
<1>6. SentOnce'
  BY <1>1, TaskFacts DEF OutboxInvariant, OutboxShape, SentOnce, RemovalsEarned, Earned, Ask, Final, Wants, Entries, Updates, Statuses
<1> QED BY <1>1, <1>2, <1>3, <1>4, <1>5, <1>6 DEF OutboxInvariant

LEMMA UnlockedWrittenPreserves ==
    ASSUME NEW t \in Reconcilers, OutboxInvariant, UnlockedWritten(t)
    PROVE  OutboxInvariant'
<1>1. OutboxShape'
  BY TaskFacts DEF OutboxInvariant, OutboxShape, RemovalsEarned, Earned, UnlockedWritten, Write, Updated, Places, Wants, Entries, Updates, Statuses, Final
<1>2. Reservations'
  BY <1>1, TaskFacts DEF OutboxInvariant, OutboxShape, Reservations, UnlockedWritten, Write, Updated, Reserved, Working, Final, Wants, Entries, Updates, Statuses
<1>3. Connected'
  BY <1>1, TaskFacts DEF OutboxInvariant, OutboxShape, Connected, UnlockedWritten, Write, Updated, Final, Wants, Entries, Updates, Statuses
<1>4. AnswersTrue'
  BY TaskFacts, AnswersFrame DEF OutboxInvariant, OutboxShape, RemovalsEarned, Earned, UnlockedWritten, Write, Updated
<1>5. RemovalsEarned'
  BY <1>1, TaskFacts DEF OutboxInvariant, OutboxShape, RemovalsEarned, Earned, AnswersTrue, UnlockedWritten, Write, Updated, Final, Wants, Entries, Updates, Statuses
<1>6. SentOnce'
  BY <1>1, TaskFacts DEF OutboxInvariant, OutboxShape, SentOnce, RemovalsEarned, Earned, UnlockedWritten, Write, Updated, Final, Wants, Entries, Updates, Statuses
<1> QED BY <1>1, <1>2, <1>3, <1>4, <1>5, <1>6 DEF OutboxInvariant

LEMMA SupersededPreserves ==
    ASSUME NEW t \in Reconcilers, OutboxInvariant, Superseded(t)
    PROVE  OutboxInvariant'
<1>1. OutboxShape'
  BY TaskFacts DEF OutboxInvariant, OutboxShape, RemovalsEarned, Earned, Superseded, End, Places, Wants, Entries, Updates, Statuses, Final
<1>2. Reservations'
  BY <1>1, TaskFacts DEF OutboxInvariant, OutboxShape, Reservations, Superseded, End, Reserved, Working, Final, Wants, Entries, Updates, Statuses
<1>3. Connected'
  BY <1>1, TaskFacts DEF OutboxInvariant, OutboxShape, Connected, Superseded, End, Final, Wants, Entries, Updates, Statuses
<1>4. AnswersTrue'
  BY TaskFacts, AnswersFrame DEF OutboxInvariant, OutboxShape, RemovalsEarned, Earned, Superseded, End
<1>5. RemovalsEarned'
  BY <1>1, TaskFacts DEF OutboxInvariant, OutboxShape, RemovalsEarned, Earned, AnswersTrue, Superseded, End, Final, Wants, Entries, Updates, Statuses
<1>6. SentOnce'
  BY <1>1, TaskFacts DEF OutboxInvariant, OutboxShape, SentOnce, RemovalsEarned, Earned, Superseded, End, Final, Wants, Entries, Updates, Statuses
<1> QED BY <1>1, <1>2, <1>3, <1>4, <1>5, <1>6 DEF OutboxInvariant

LEMMA PollEndsPreserves ==
    ASSUME OutboxInvariant, PollEnds
    PROVE  OutboxInvariant'
<1>1. OutboxShape'
  BY TaskFacts DEF OutboxInvariant, OutboxShape, RemovalsEarned, Earned, PollEnds, End, Places, Wants, Entries, Updates, Statuses, Final
<1>2. Reservations'
  BY <1>1, TaskFacts DEF OutboxInvariant, OutboxShape, Reservations, PollEnds, End, Reserved, Working, Final, Wants, Entries, Updates, Statuses
<1>3. Connected'
  BY <1>1, TaskFacts DEF OutboxInvariant, OutboxShape, Connected, PollEnds, End, Final, Wants, Entries, Updates, Statuses
<1>4. AnswersTrue'
  BY TaskFacts, AnswersFrame DEF OutboxInvariant, OutboxShape, RemovalsEarned, Earned, PollEnds, End
<1>5. RemovalsEarned'
  BY <1>1, TaskFacts DEF OutboxInvariant, OutboxShape, RemovalsEarned, Earned, AnswersTrue, PollEnds, End, Final, Wants, Entries, Updates, Statuses
<1>6. SentOnce'
  BY <1>1, TaskFacts DEF OutboxInvariant, OutboxShape, SentOnce, RemovalsEarned, Earned, PollEnds, End, Final, Wants, Entries, Updates, Statuses
<1> QED BY <1>1, <1>2, <1>3, <1>4, <1>5, <1>6 DEF OutboxInvariant

LEMMA ConnectAskedPreserves ==
    ASSUME OutboxInvariant, ConnectAsked
    PROVE  OutboxInvariant'
<1>1. OutboxShape'
  BY TaskFacts DEF OutboxInvariant, OutboxShape, RemovalsEarned, Earned, ConnectAsked, Places, Wants, Entries, Updates, Statuses, Final
<1>2. Reservations'
  BY <1>1, TaskFacts DEF OutboxInvariant, OutboxShape, Reservations, ConnectAsked, Reserved, Working, Final, Wants, Entries, Updates, Statuses
<1>3. Connected'
  BY <1>1, TaskFacts DEF OutboxInvariant, OutboxShape, Connected, ConnectAsked, Final, Wants, Entries, Updates, Statuses
<1>4. AnswersTrue'
  BY TaskFacts, AnswersFrame DEF OutboxInvariant, OutboxShape, RemovalsEarned, Earned, ConnectAsked
<1>5. RemovalsEarned'
  BY <1>1, TaskFacts DEF OutboxInvariant, OutboxShape, RemovalsEarned, Earned, AnswersTrue, ConnectAsked, Final, Wants, Entries, Updates, Statuses
<1>6. SentOnce'
  BY <1>1, TaskFacts DEF OutboxInvariant, OutboxShape, SentOnce, RemovalsEarned, Earned, ConnectAsked, Final, Wants, Entries, Updates, Statuses
<1> QED BY <1>1, <1>2, <1>3, <1>4, <1>5, <1>6 DEF OutboxInvariant

LEMMA ClearedPreserves ==
    ASSUME OutboxInvariant, Cleared
    PROVE  OutboxInvariant'
<1>1. OutboxShape'
  BY TaskFacts DEF OutboxInvariant, OutboxShape, RemovalsEarned, Earned, Cleared, Write, Updated, Places, Wants, Entries, Updates, Statuses, Final
<1>2. Reservations'
  <2>1. Connecting \in Tasks BY TaskFacts
  <2>2. \A c \in Commands : outbox'[c] # "none" => outbox[c] # "none"
    BY <2>1 DEF OutboxInvariant, RemovalsEarned, Earned, Cleared, Write, Updated
  <2> QED
    BY <2>1, <2>2 DEF OutboxInvariant, OutboxShape, Reservations, Reserved, Working, Cleared, Write
<1>3. Connected'
  BY <1>1, TaskFacts DEF OutboxInvariant, OutboxShape, Connected, Cleared, Write, Updated, Final, Wants, Entries, Updates, Statuses
<1>4. AnswersTrue'
  BY TaskFacts, AnswersFrame DEF OutboxInvariant, OutboxShape, RemovalsEarned, Earned, Cleared, Write, Updated
<1>5. RemovalsEarned'
  BY <1>1, TaskFacts DEF OutboxInvariant, OutboxShape, RemovalsEarned, Earned, AnswersTrue, Cleared, Write, Updated, Final, Wants, Entries, Updates, Statuses
<1>6. SentOnce'
  BY <1>1, TaskFacts DEF OutboxInvariant, OutboxShape, SentOnce, RemovalsEarned, Earned, Cleared, Write, Updated, Final, Wants, Entries, Updates, Statuses
<1> QED BY <1>1, <1>2, <1>3, <1>4, <1>5, <1>6 DEF OutboxInvariant

LEMMA ResubmitPreserves ==
    ASSUME NEW c \in Commands, OutboxInvariant, Resubmit(c)
    PROVE  OutboxInvariant'
<1>1. OutboxShape'
  BY TaskFacts DEF OutboxInvariant, OutboxShape, RemovalsEarned, Earned, Resubmit, Submittable, Places, Wants, Entries, Updates, Statuses, Final
<1>2. Reservations'
  BY <1>1, TaskFacts DEF OutboxInvariant, OutboxShape, Reservations, Resubmit, Submittable, Reserved, Working, Final, Wants, Entries, Updates, Statuses
<1>3. Connected'
  BY <1>1, TaskFacts DEF OutboxInvariant, OutboxShape, Connected, Resubmit, Submittable, Final, Wants, Entries, Updates, Statuses
<1>4. AnswersTrue'
  BY TaskFacts, AnswersFrame DEF OutboxInvariant, OutboxShape, RemovalsEarned, Earned, Resubmit, Submittable
<1>5. RemovalsEarned'
  BY <1>1, TaskFacts DEF OutboxInvariant, OutboxShape, RemovalsEarned, Earned, AnswersTrue, Resubmit, Submittable, Final, Wants, Entries, Updates, Statuses
<1>6. SentOnce'
  BY <1>1, TaskFacts DEF OutboxInvariant, OutboxShape, SentOnce, RemovalsEarned, Earned, Resubmit, Submittable, Final, Wants, Entries, Updates, Statuses
<1> QED BY <1>1, <1>2, <1>3, <1>4, <1>5, <1>6 DEF OutboxInvariant

LEMMA ResubmittedPreserves ==
    ASSUME OutboxInvariant, Resubmitted
    PROVE  OutboxInvariant'
<1>1. OutboxShape'
  BY TaskFacts DEF OutboxInvariant, OutboxShape, RemovalsEarned, Earned, Resubmitted, Places, Wants, Entries, Updates, Statuses, Final
<1>2. Reservations'
  BY <1>1, TaskFacts DEF OutboxInvariant, OutboxShape, Reservations, Resubmitted, Reserved, Working, Final, Wants, Entries, Updates, Statuses
<1>3. Connected'
  BY <1>1, TaskFacts DEF OutboxInvariant, OutboxShape, Connected, Resubmitted, Final, Wants, Entries, Updates, Statuses
<1>4. AnswersTrue'
  BY TaskFacts, AnswersFrame DEF OutboxInvariant, OutboxShape, RemovalsEarned, Earned, Resubmitted
<1>5. RemovalsEarned'
  BY <1>1, TaskFacts DEF OutboxInvariant, OutboxShape, RemovalsEarned, Earned, AnswersTrue, Resubmitted, Final, Wants, Entries, Updates, Statuses
<1>6. SentOnce'
  BY <1>1, TaskFacts DEF OutboxInvariant, OutboxShape, SentOnce, RemovalsEarned, Earned, Resubmitted, Final, Wants, Entries, Updates, Statuses
<1> QED BY <1>1, <1>2, <1>3, <1>4, <1>5, <1>6 DEF OutboxInvariant

LEMMA ConnectEndsPreserves ==
    ASSUME OutboxInvariant, ConnectEnds
    PROVE  OutboxInvariant'
<1>1. OutboxShape'
  BY TaskFacts DEF OutboxInvariant, OutboxShape, RemovalsEarned, Earned, ConnectEnds, End, Places, Wants, Entries, Updates, Statuses, Final
<1>2. Reservations'
  BY <1>1, TaskFacts DEF OutboxInvariant, OutboxShape, Reservations, ConnectEnds, End, Reserved, Working, Final, Wants, Entries, Updates, Statuses
<1>3. Connected'
  BY <1>1, TaskFacts DEF OutboxInvariant, OutboxShape, Connected, ConnectEnds, End, Final, Wants, Entries, Updates, Statuses
<1>4. AnswersTrue'
  BY TaskFacts, AnswersFrame DEF OutboxInvariant, OutboxShape, RemovalsEarned, Earned, ConnectEnds, End
<1>5. RemovalsEarned'
  BY <1>1, TaskFacts DEF OutboxInvariant, OutboxShape, RemovalsEarned, Earned, AnswersTrue, ConnectEnds, End, Final, Wants, Entries, Updates, Statuses
<1>6. SentOnce'
  BY <1>1, TaskFacts DEF OutboxInvariant, OutboxShape, SentOnce, RemovalsEarned, Earned, ConnectEnds, End, Final, Wants, Entries, Updates, Statuses
<1> QED BY <1>1, <1>2, <1>3, <1>4, <1>5, <1>6 DEF OutboxInvariant

-----------------------------------------------------------------------------
(* What arrives, and what is given up.                                      *)

LEMMA TailRemoves ==
    ASSUME OutboxShape, down # <<>>
    PROVE  1 \in 1..Len(down) /\ Tail(down) = RemoveAt(down, 1) /\ Head(down) = down[1]
<1>1. down \in Seq(Message) BY DEF OutboxShape
<1>2. Len(down) \in Nat \ {0} /\ 1 \in 1..Len(down) BY <1>1
<1>3. /\ RemoveAt(down, 1) \in Seq(Message) /\ Len(RemoveAt(down, 1)) = Len(down) - 1
      /\ \A j \in 1..Len(down) - 1 : RemoveAt(down, 1)[j] = IF j < 1 THEN down[j] ELSE down[j + 1]
  BY <1>1, <1>2, RemovedAt
<1>4. /\ Tail(down) \in Seq(Message) /\ Len(Tail(down)) = Len(down) - 1 /\ Head(down) = down[1]
      /\ \A j \in 1..Len(down) - 1 : Tail(down)[j] = down[j + 1]
  BY <1>1, <1>2
<1>5. \A j \in 1..Len(down) - 1 : Tail(down)[j] = RemoveAt(down, 1)[j]
  BY <1>2, <1>3, <1>4
<1> QED BY <1>2, <1>3, <1>4, <1>5, SeqEqual

LEMMA ArrivePreserves ==
    ASSUME OutboxInvariant, Arrive
    PROVE  OutboxInvariant'
<1>1. PICK t \in Tasks, got \in Statuses : t = Head(down).to /\ got = Head(down).got
  BY TailRemoves, Messages DEF OutboxInvariant, Arrive
<1>2. /\ down # <<>> /\ down' = Tail(down)
      /\ IF t \in Signals
         THEN /\ Goto(t, "reading") /\ live' = live \cup {t}
              /\ UNCHANGED <<turn, want, gone, later, queue>>
         ELSE /\ IF t \in Submissions THEN SubmissionAnswered(t, got)
                                      ELSE ReconcilerAnswered(t, cmd[t], got)
              /\ UNCHANGED live
      /\ UNCHANGED <<files, authority, link, cmd, todo, seen, fence, timer,
                     status, wire, asked, owed, history, moves>>
  BY <1>1 DEF Arrive
<1>3. /\ t \in Signals => status[cmd[t]] = "completed"
      /\ t \notin Signals => /\ At(t, "asked") /\ t \notin asked /\ cmd[t] \in Commands /\ Reserved(cmd[t])
                             /\ got \in Final => status[cmd[t]] = got
                             /\ got = "none" => t \notin Submissions
  <2>1. Truthful(down[1]) /\ down[1].to = t /\ down[1].got = got
    BY <1>1, <1>2, TailRemoves DEF OutboxInvariant, AnswersTrue
  <2> QED
    BY <2>1, TaskFacts DEF OutboxInvariant, OutboxShape, Truthful, Reservations, Working
<1>4. /\ t \in Submissions => cmd[t] = t.of
      /\ t \in Signals => cmd[t] = t.of /\ t \notin asked
      /\ t \notin Signals /\ t \notin Submissions => t \in Reconcilers
  BY TaskFacts DEF OutboxInvariant, OutboxShape
<1>5. PICK p \in {"reading", "commit", "settle", "next", "put"} :
        /\ Goto(t, p)
        /\ p = "reading" <=> t \in Signals
        /\ p = "settle" => t \in Submissions
  BY <1>2, <1>4, TaskFacts DEF SubmissionAnswered, ReconcilerAnswered
<1>6. PICK w \in Wants : want' = [want EXCEPT ![t] = w]
  <2>1. want[t] \in Wants /\ want = [want EXCEPT ![t] = want[t]] BY DEF OutboxInvariant, OutboxShape
  <2>2. want' = want \/ want' = [want EXCEPT ![t] = got] \/ want' = [want EXCEPT ![t] = Retained(cmd[t], got)]
    BY <1>2 DEF SubmissionAnswered, ReconcilerAnswered
  <2> QED BY <2>1, <2>2, RetainedWants DEF Wants
<1>7. OutboxShape'
  <2>1. pc' \in [Tasks -> Places] BY <1>5, GotoShape DEF OutboxInvariant, Places
  <2>2. want' \in [Tasks -> Wants] BY <1>6, WantShape DEF OutboxInvariant
  <2>3. down' \in Seq(Message) BY <1>2, TailRemoves, RemovedAt DEF OutboxInvariant, OutboxShape
  <2>4. live' \subseteq Tasks /\ gone' \subseteq Commands
    BY <1>2, <1>3 DEF OutboxInvariant, OutboxShape, SubmissionAnswered, ReconcilerAnswered
  <2> QED BY <1>2, <2>1, <2>2, <2>3, <2>4 DEF OutboxInvariant, OutboxShape
<1>8. \A u \in Tasks \ {t} : pc'[u] = pc[u]
  BY <1>5 DEF OutboxInvariant, OutboxShape
<1>9. Reservations'
  BY <1>2, <1>3, <1>5, <1>8 DEF OutboxInvariant, OutboxShape, Reservations, Reserved, Working
<1>10. Connected'
  <2>1. t \notin asked /\ link # NoHost /\ pc'[t] # "idle" /\ (t \in Reconcilers => pc'[t] # "reading")
    BY <1>2, <1>3, <1>4, <1>5, TaskFacts DEF OutboxInvariant, OutboxShape, Connected
  <2> QED
    BY <1>2, <1>8, <2>1, TaskFacts DEF OutboxInvariant, OutboxShape, Connected
<1>11. AnswersTrue'
  BY <1>1, <1>2, <1>8, TailRemoves, MessageGone DEF OutboxInvariant
<1>12. RemovalsEarned'
  <2>1. Earned(t)'
    <3>1. pc'[t] = p /\ want'[t] = w BY <1>5, <1>6 DEF OutboxInvariant, OutboxShape
    <3>2. p = "commit" => status[cmd[t]] = "completed"
      <4>1. p = "commit" => t \in Signals \/ got = "completed"
        BY <1>2, <1>4, <1>5, <3>1
        DEF SubmissionAnswered, ReconcilerAnswered, IsProof, OutboxInvariant, OutboxShape
      <4> QED BY <1>3, <4>1 DEF Final
    <3>3. p = "settle" => w = got /\ got # "none"
      BY <1>2, <1>3, <1>5, <1>6, <3>1 DEF SubmissionAnswered, OutboxInvariant, OutboxShape
    <3>4. p = "put" => got # "none" /\ w = Retained(cmd[t], got)
      BY <1>2, <1>4, <1>5, <3>1 DEF SubmissionAnswered, ReconcilerAnswered, OutboxInvariant, OutboxShape
    <3>5. p = "put" => w \in Updates /\ (w = "none" => status[cmd[t]] \in Final)
      BY <1>3, <1>5, <3>4, RetainedShape, RetainedWants
    <3> QED BY <1>1, <1>2, <1>3, <1>5, <3>1, <3>2, <3>3, <3>5 DEF Earned
  <2>2. OnlyTask(t) BY <1>2, <1>6, <1>8 DEF OnlyTask, OutboxInvariant, OutboxShape
  <2>3. \A c \in gone' : c \in gone \/ status[c] \in Final
    BY <1>2, <1>3, RetainedShape DEF SubmissionAnswered, ReconcilerAnswered
  <2> QED BY <1>2, <2>1, <2>2, <2>3, RemovalsFrame DEF OutboxInvariant, OutcomesKept
<1>13. SentOnce'
  <2>1. ASSUME NEW c \in Commands, pc'[Submission(c)] \in {"reserving", "first"}
        PROVE  pc[Submission(c)] = pc'[Submission(c)]
    BY <2>1, <1>5, <1>8, TaskFacts DEF OutboxInvariant, OutboxShape
  <2> QED BY <1>2, <2>1 DEF OutboxInvariant, OutboxShape, SentOnce
<1> QED BY <1>7, <1>9, <1>10, <1>11, <1>12, <1>13 DEF OutboxInvariant

LEMMA TimeoutPreserves ==
    ASSUME NEW t \in Tasks, OutboxInvariant, Timeout(t)
    PROVE  OutboxInvariant'
<1>1. OutboxShape'
  <2>1. pc' \in [Tasks -> Places]
    <3>1. \E p \in Places : Goto(t, p) BY DEF Timeout, Places
    <3> QED BY <3>1, GotoShape DEF OutboxInvariant
  <2>2. want' \in [Tasks -> Wants]
    BY WantShape DEF OutboxInvariant, OutboxShape, Timeout, Wants, Updates
  <2>3. down' \in Seq(Message)
    BY RemovedAt DEF OutboxInvariant, OutboxShape, Timeout, Ignored
  <2> QED BY <2>1, <2>2, <2>3 DEF OutboxInvariant, OutboxShape, Timeout
<1>2. Reservations'
  BY <1>1, TaskFacts DEF OutboxInvariant, OutboxShape, Reservations, Timeout, Waiting, Ignored, Reserved, Working, Final, Wants, Entries, Updates, Statuses
<1>3. Connected'
  BY <1>1, TaskFacts DEF OutboxInvariant, OutboxShape, Connected, Timeout, Waiting, Ignored, Final, Wants, Entries, Updates, Statuses
<1>4. AnswersTrue'
  <2>1. CASE \E i \in 1..Len(down) : down[i].to = t /\ down' = RemoveAt(down, i)
    <3>1. PICK i \in 1..Len(down) : down[i].to = t /\ down' = RemoveAt(down, i)
      BY <2>1
    <3>2. \A u \in Tasks : u # t => pc'[u] = pc[u]
      BY DEF OutboxInvariant, OutboxShape, Timeout
    <3> QED BY <3>1, <3>2, MessageGone DEF OutboxInvariant, Timeout
  <2>2. CASE (\A i \in 1..Len(down) : down[i].to # t) /\ UNCHANGED down
    <3>1. \A u \in Tasks : u # t => pc'[u] = pc[u]
      BY DEF OutboxInvariant, OutboxShape, Timeout
    <3>2. ASSUME NEW i \in 1..Len(down), NEW m \in Message, m = down[i] PROVE Truthful(m)'
      <4>1. Truthful(m) /\ m.to # t /\ m.to \in Tasks BY <2>2, <3>2, Messages DEF OutboxInvariant, AnswersTrue
      <4>2. m.to \notin Signals => At(m.to, "asked") /\ m.to \notin asked BY <4>1 DEF Truthful
      <4> QED BY <3>1, <4>1, <4>2, TruthfulKept DEF OutcomesKept, Timeout
    <3>3. ASSUME NEW i \in 1..Len(down) PROVE Truthful(down[i])'
      BY <2>2, <3>2, Messages DEF OutboxInvariant
    <3> QED BY <2>2, <3>3 DEF OutboxInvariant, AnswersTrue, Timeout
  <2>3. DOMAIN down = 1..Len(down) BY DEF OutboxInvariant, OutboxShape
  <2> QED BY <2>1, <2>2, <2>3 DEF Timeout, Ignored
<1>5. RemovalsEarned'
  BY <1>1, TaskFacts DEF OutboxInvariant, OutboxShape, RemovalsEarned, Earned, AnswersTrue, Timeout, Waiting, Ignored, Final, Wants, Entries, Updates, Statuses
<1>6. SentOnce'
  BY <1>1, TaskFacts DEF OutboxInvariant, OutboxShape, SentOnce, RemovalsEarned, Earned, Timeout, Waiting, Ignored, Final, Wants, Entries, Updates, Statuses
<1> QED BY <1>1, <1>2, <1>3, <1>4, <1>5, <1>6 DEF OutboxInvariant

-----------------------------------------------------------------------------
(* The host.                                                                *)

LEMMA HostAdmitPreserves ==
    ASSUME NEW c \in Commands, OutboxInvariant, HostAdmit(c)
    PROVE  OutboxInvariant'
<1>1. OutboxShape'
  BY TaskFacts DEF OutboxInvariant, OutboxShape, RemovalsEarned, Earned, HostAdmit, Places, Wants, Entries, Updates, Statuses, Final
<1>2. Reservations'
  BY <1>1, TaskFacts DEF OutboxInvariant, OutboxShape, Reservations, HostAdmit, Reserved, Working, Final, Wants, Entries, Updates, Statuses
<1>3. Connected'
  BY <1>1, TaskFacts DEF OutboxInvariant, OutboxShape, Connected, HostAdmit, Final, Wants, Entries, Updates, Statuses
<1>4. AnswersTrue'
  BY <1>1, TaskFacts, Messages DEF OutboxInvariant, OutboxShape, AnswersTrue, Truthful, HostAdmit, Final, Wants, Entries, Updates, Statuses
<1>5. RemovalsEarned'
  BY <1>1, TaskFacts DEF OutboxInvariant, OutboxShape, RemovalsEarned, Earned, AnswersTrue, HostAdmit, Final, Wants, Entries, Updates, Statuses
<1>6. SentOnce'
  BY <1>1, TaskFacts DEF OutboxInvariant, OutboxShape, SentOnce, RemovalsEarned, Earned, HostAdmit, Final, Wants, Entries, Updates, Statuses
<1> QED BY <1>1, <1>2, <1>3, <1>4, <1>5, <1>6 DEF OutboxInvariant

LEMMA HostRepeatsPreserves ==
    ASSUME NEW c \in Commands, OutboxInvariant, HostRepeats(c)
    PROVE  OutboxInvariant'
<1>1. OutboxShape'
  <2>1. [to |-> Submission(c), got |-> status[c]] \in Message
    BY TaskFacts DEF OutboxInvariant, OutboxShape, Message
  <2>2. down' = down \/ down' = Append(down, [to |-> Submission(c), got |-> status[c]])
    BY DEF HostRepeats
  <2>3. down \in Seq(Message) BY DEF OutboxInvariant, OutboxShape
  <2>4. down' \in Seq(Message) BY <2>1, <2>2, <2>3, SeqFacts
  <2>5. asked' \subseteq asked BY DEF HostRepeats
  <2> QED BY <2>4, <2>5 DEF OutboxInvariant, OutboxShape, HostRepeats
<1>2. Reservations'
  BY <1>1, TaskFacts DEF OutboxInvariant, OutboxShape, Reservations, HostRepeats, Reserved, Working, Final, Wants, Entries, Updates, Statuses
<1>3. Connected'
  BY <1>1, TaskFacts DEF OutboxInvariant, OutboxShape, Connected, HostRepeats, Final, Wants, Entries, Updates, Statuses
<1>4. AnswersTrue'
  <2>0. PICK m \in Message : m = [to |-> Submission(c), got |-> status[c]]
    BY TaskFacts DEF OutboxInvariant, OutboxShape, Message
  <2>1. /\ m \in Message /\ m.to \in Submissions /\ m.to \notin Signals
        /\ m.to = Submission(c) /\ m.got = status[c] /\ cmd[m.to] = c
    BY <2>0, TaskFacts DEF OutboxInvariant, OutboxShape
  <2>2. /\ UNCHANGED <<pc, cmd, status, owed>> /\ wire' = wire \ {c} /\ status[c] # "none"
        /\ \/ Submission(c) \in asked /\ asked' = asked \ {Submission(c)} /\ down' = Append(down, m)
           \/ Submission(c) \notin asked /\ UNCHANGED <<asked, down>>
    BY <2>0 DEF HostRepeats
  <2>3. ASSUME NEW d \in Commands, Submission(d) \in asked', d \notin wire' PROVE status[d] # "none"
    BY <2>2, <2>3 DEF OutboxInvariant, AnswersTrue
  <2>4. CASE Submission(c) \in asked
    <3>1. At(m.to, "asked") BY <2>1, <2>4 DEF OutboxInvariant, Connected
    <3>2. Truthful(m)' BY <2>1, <2>2, <2>4, <3>1 DEF Truthful
    <3> QED BY <2>1, <2>2, <2>3, <2>4, <3>2, MessageSent DEF OutboxInvariant
  <2>5. CASE Submission(c) \notin asked
    <3>1. ASSUME NEW i \in 1..Len(down) PROVE Truthful(down[i])'
      BY <2>2, <2>5 DEF OutboxInvariant, AnswersTrue, Truthful
    <3> QED BY <2>2, <2>3, <2>5, <3>1 DEF OutboxInvariant, AnswersTrue
  <2> QED BY <2>4, <2>5
<1>5. RemovalsEarned'
  BY <1>1, TaskFacts DEF OutboxInvariant, OutboxShape, RemovalsEarned, Earned, AnswersTrue, HostRepeats, Final, Wants, Entries, Updates, Statuses
<1>6. SentOnce'
  BY <1>1, TaskFacts DEF OutboxInvariant, OutboxShape, SentOnce, RemovalsEarned, Earned, HostRepeats, Final, Wants, Entries, Updates, Statuses
<1> QED BY <1>1, <1>2, <1>3, <1>4, <1>5, <1>6 DEF OutboxInvariant

LEMMA HostMissesPreserves ==
    ASSUME NEW c \in Commands, OutboxInvariant, HostMisses(c)
    PROVE  OutboxInvariant'
<1>1. OutboxShape'
  BY TaskFacts DEF OutboxInvariant, OutboxShape, RemovalsEarned, Earned, HostMisses, Places, Wants, Entries, Updates, Statuses, Final
<1>2. Reservations'
  BY <1>1, TaskFacts DEF OutboxInvariant, OutboxShape, Reservations, HostMisses, Reserved, Working, Final, Wants, Entries, Updates, Statuses
<1>3. Connected'
  BY <1>1, TaskFacts DEF OutboxInvariant, OutboxShape, Connected, HostMisses, Final, Wants, Entries, Updates, Statuses
<1>4. AnswersTrue'
  BY <1>1, TaskFacts, Messages DEF OutboxInvariant, OutboxShape, AnswersTrue, Truthful, HostMisses, Final, Wants, Entries, Updates, Statuses
<1>5. RemovalsEarned'
  BY <1>1, TaskFacts DEF OutboxInvariant, OutboxShape, RemovalsEarned, Earned, AnswersTrue, HostMisses, Final, Wants, Entries, Updates, Statuses
<1>6. SentOnce'
  BY <1>1, TaskFacts DEF OutboxInvariant, OutboxShape, SentOnce, RemovalsEarned, Earned, HostMisses, Final, Wants, Entries, Updates, Statuses
<1> QED BY <1>1, <1>2, <1>3, <1>4, <1>5, <1>6 DEF OutboxInvariant

LEMMA HostRunPreserves ==
    ASSUME NEW c \in Commands, OutboxInvariant, HostRun(c)
    PROVE  OutboxInvariant'
<1>1. OutboxShape'
  BY TaskFacts DEF OutboxInvariant, OutboxShape, RemovalsEarned, Earned, HostRun, Places, Wants, Entries, Updates, Statuses, Final
<1>2. Reservations'
  BY <1>1, TaskFacts DEF OutboxInvariant, OutboxShape, Reservations, HostRun, Reserved, Working, Final, Wants, Entries, Updates, Statuses
<1>3. Connected'
  BY <1>1, TaskFacts DEF OutboxInvariant, OutboxShape, Connected, HostRun, Final, Wants, Entries, Updates, Statuses
<1>4. AnswersTrue'
  BY <1>1, TaskFacts, Messages DEF OutboxInvariant, OutboxShape, AnswersTrue, Truthful, HostRun, Final, Wants, Entries, Updates, Statuses
<1>5. RemovalsEarned'
  BY <1>1, TaskFacts DEF OutboxInvariant, OutboxShape, RemovalsEarned, Earned, AnswersTrue, HostRun, Final, Wants, Entries, Updates, Statuses
<1>6. SentOnce'
  BY <1>1, TaskFacts DEF OutboxInvariant, OutboxShape, SentOnce, RemovalsEarned, Earned, HostRun, Final, Wants, Entries, Updates, Statuses
<1> QED BY <1>1, <1>2, <1>3, <1>4, <1>5, <1>6 DEF OutboxInvariant

LEMMA HostFinishPreserves ==
    ASSUME NEW c \in Commands, OutboxInvariant, HostFinish(c)
    PROVE  OutboxInvariant'
<1>1. OutboxShape'
  BY TaskFacts DEF OutboxInvariant, OutboxShape, RemovalsEarned, Earned, HostFinish, Outcomes, IsProof, Places, Wants, Entries, Updates, Statuses, Final
<1>2. Reservations'
  BY <1>1, TaskFacts DEF OutboxInvariant, OutboxShape, Reservations, HostFinish, Outcomes, IsProof, Reserved, Working, Final, Wants, Entries, Updates, Statuses
<1>3. Connected'
  BY <1>1, TaskFacts DEF OutboxInvariant, OutboxShape, Connected, HostFinish, Outcomes, IsProof, Final, Wants, Entries, Updates, Statuses
<1>4. AnswersTrue'
  BY <1>1, TaskFacts, Messages DEF OutboxInvariant, OutboxShape, AnswersTrue, Truthful, HostFinish, Outcomes, IsProof, Final, Wants, Entries, Updates, Statuses
<1>5. RemovalsEarned'
  BY <1>1, TaskFacts DEF OutboxInvariant, OutboxShape, RemovalsEarned, Earned, AnswersTrue, HostFinish, Outcomes, IsProof, Final, Wants, Entries, Updates, Statuses
<1>6. SentOnce'
  BY <1>1, TaskFacts DEF OutboxInvariant, OutboxShape, SentOnce, RemovalsEarned, Earned, HostFinish, Outcomes, IsProof, Final, Wants, Entries, Updates, Statuses
<1> QED BY <1>1, <1>2, <1>3, <1>4, <1>5, <1>6 DEF OutboxInvariant

LEMMA HostSignalPreserves ==
    ASSUME NEW c \in Prompts, OutboxInvariant, HostSignal(c)
    PROVE  OutboxInvariant'
<1>1. OutboxShape'
  <2>1. [to |-> Signal(c), got |-> "completed"] \in Message
    BY TaskFacts DEF Message, Statuses, Final
  <2>2. down' \in Seq(Message)
    BY <2>1, SeqFacts DEF OutboxInvariant, OutboxShape, HostSignal
  <2> QED BY <2>2 DEF OutboxInvariant, OutboxShape, HostSignal
<1>2. Reservations'
  BY <1>1, TaskFacts DEF OutboxInvariant, OutboxShape, Reservations, HostSignal, Reserved, Working, Final, Wants, Entries, Updates, Statuses
<1>3. Connected'
  <2>1. link # NoHost 
    BY DEF OutboxInvariant, Connected, HostSignal
  <2> QED BY <2>1 DEF OutboxInvariant, Connected, HostSignal
<1>4. AnswersTrue'
  <2> DEFINE m == [to |-> Signal(c), got |-> "completed"]
  <2>1. m \in Message /\ m.to = Signal(c) /\ m.to \in Signals /\ m.to.of = c
    BY TaskFacts DEF Message, Statuses, Final
  <2>2. down' = Append(down, m) BY DEF HostSignal
  <2> HIDE DEF m
  <2>3. Truthful(m)' BY <2>1 DEF OutboxInvariant, AnswersTrue, HostSignal, Truthful
  <2> QED BY <2>1, <2>2, <2>3, MessageSent DEF OutboxInvariant, AnswersTrue, HostSignal
<1>5. RemovalsEarned'
  BY <1>1, TaskFacts DEF OutboxInvariant, OutboxShape, RemovalsEarned, Earned, AnswersTrue, HostSignal, Final, Wants, Entries, Updates, Statuses
<1>6. SentOnce'
  BY <1>1, TaskFacts DEF OutboxInvariant, OutboxShape, SentOnce, RemovalsEarned, Earned, HostSignal, Final, Wants, Entries, Updates, Statuses
<1> QED BY <1>1, <1>2, <1>3, <1>4, <1>5, <1>6 DEF OutboxInvariant

LEMMA HostAnswerPreserves ==
    ASSUME NEW t \in Tasks, OutboxInvariant, HostAnswer(t)
    PROVE  OutboxInvariant'
<1>1. OutboxShape'
  <2>1. \E got \in Statuses : down' = Append(down, [to |-> t, got |-> got])
    <3>1. t \in asked /\ cmd[t] \in Commands BY DEF OutboxInvariant, Connected, Reservations, Working, HostAnswer
    <3>2. status[cmd[t]] \in Statuses BY <3>1 DEF OutboxInvariant, OutboxShape
    <3> QED BY <3>1, <3>2 DEF HostAnswer, Answers, Statuses, Final
  <2>2. down' \in Seq(Message)
    BY <2>1, SeqFacts DEF OutboxInvariant, OutboxShape, Message
  <2> QED BY <2>2 DEF OutboxInvariant, OutboxShape, HostAnswer
<1>2. Reservations'
  BY <1>1, TaskFacts DEF OutboxInvariant, OutboxShape, Reservations, HostAnswer, Answers, Reserved, Working, Final, Wants, Entries, Updates, Statuses
<1>3. Connected'
  BY <1>1, TaskFacts DEF OutboxInvariant, OutboxShape, Connected, HostAnswer, Answers, Final, Wants, Entries, Updates, Statuses
<1>4. AnswersTrue'
  <2>1. PICK got \in Answers(t) : down' = Append(down, [to |-> t, got |-> got])
    BY DEF HostAnswer
  <2>2. t \in asked /\ cmd[t] \in Commands /\ t \notin Signals /\ At(t, "asked")
    BY DEF OutboxInvariant, OutboxShape, Connected, Reservations, Working, HostAnswer
  <2>3. status[cmd[t]] \in Statuses BY <2>2 DEF OutboxInvariant, OutboxShape
  <2>4. t \in Submissions => status[cmd[t]] # "none"
    BY <2>2, TaskFacts DEF OutboxInvariant, OutboxShape, AnswersTrue, HostAnswer
  <2>5. got \in Statuses /\ (got \in Final => got = status[cmd[t]]) /\ (got = "none" => t \notin Submissions)
    BY <2>3, <2>4 DEF Answers, Statuses, Final
  <2> DEFINE m == [to |-> t, got |-> got]
  <2>6. m \in Message /\ m.to = t /\ m.got = got BY <2>5 DEF Message
  <2> HIDE DEF m
  <2>7. down' = Append(down, m) BY <2>1 DEF m
  <2>8. Truthful(m)' BY <2>2, <2>5, <2>6 DEF HostAnswer, Truthful
  <2> QED BY <2>2, <2>6, <2>7, <2>8, MessageSent DEF OutboxInvariant, AnswersTrue, HostAnswer
<1>5. RemovalsEarned'
  BY <1>1, TaskFacts DEF OutboxInvariant, OutboxShape, RemovalsEarned, Earned, AnswersTrue, HostAnswer, Answers, Final, Wants, Entries, Updates, Statuses
<1>6. SentOnce'
  BY <1>1, TaskFacts DEF OutboxInvariant, OutboxShape, SentOnce, RemovalsEarned, Earned, HostAnswer, Answers, Final, Wants, Entries, Updates, Statuses
<1> QED BY <1>1, <1>2, <1>3, <1>4, <1>5, <1>6 DEF OutboxInvariant

-----------------------------------------------------------------------------
(* The theorems.                                                            *)

LEMMA InitEstablishes ==
    ASSUME OutboxInit
    PROVE  OutboxInvariant
<1>1. OutboxShape
  BY FileAssumption, TaskFacts DEF OutboxInit, OutboxShape, Places, Entries, Wants, Statuses
<1>2. Reservations /\ Connected /\ SentOnce
  <2>1. Reservations
    <3>1. \A c \in Left : identities[IdOf[c]] = c
      BY FileAssumption, TaskFacts DEF OutboxInit
    <3>2. sent = Left /\ \A c \in Commands : outbox[c] # "none" => c \in Left
      BY DEF OutboxInit
    <3> QED BY <3>1, <3>2, TaskFacts DEF OutboxInit, Reservations, Reserved, Working
  <2>2. Connected BY TaskFacts DEF OutboxInit, Connected
  <2>3. SentOnce BY FileAssumption, TaskFacts DEF OutboxInit, SentOnce
  <2> QED BY <2>1, <2>2, <2>3
<1>3. AnswersTrue /\ RemovalsEarned
  BY DEF OutboxInit, AnswersTrue, RemovalsEarned, Earned
<1> QED BY <1>1, <1>2, <1>3 DEF OutboxInvariant

LEMMA StepPreserves ==
    ASSUME OutboxInvariant, [OutboxNext]_outboxVars
    PROVE  OutboxInvariant'
<1>1. ASSUME UNCHANGED outboxVars PROVE OutboxInvariant'
  BY <1>1 DEF outboxVars, OutboxInvariant, OutboxShape, Reservations, Reserved, Connected,
    AnswersTrue, Truthful, RemovalsEarned, Earned, SentOnce
<1>2. ASSUME NEW c \in Commands, Submit(c) \/ SubmissionStep(c) PROVE OutboxInvariant'
  BY <1>2, SubmitPreserves, CheckPreserves, ReservePreserves, ReserveRefusedPreserves,
    FirstWrittenPreserves, SettlePreserves, FailPreserves DEF SubmissionStep
<1>3. ASSUME NEW t \in Tasks, ProofStep(t) PROVE OutboxInvariant'
  BY <1>3, CommitPreserves, CommitRepeatedPreserves, CommitSupersededPreserves,
    CommitAmbiguousPreserves, LockedWrittenPreserves DEF ProofStep
<1>4. ASSUME NEW t \in Reconcilers, ReconcilerStep(t) PROVE OutboxInvariant'
  BY <1>4, AskPreserves, UnlockedWrittenPreserves, SupersededPreserves DEF ReconcilerStep
<1>5. ASSUME ConnectStep PROVE OutboxInvariant'
  BY <1>5, ReadOutboxPreserves, CommitHeldPreserves, ConnectAskedPreserves, ClearedPreserves,
    ResubmitPreserves, ResubmittedPreserves, ConnectEndsPreserves, ConnectPreserves
  DEF ConnectStep
<1>6. ASSUME PollStep \/ PolledNothing PROVE OutboxInvariant'
  <2>1. Polling \in Reconcilers /\ Polling \in Tasks BY TaskFacts
  <2> QED BY <1>1, <1>3, <1>4, <1>6, <2>1, PolledPreserves, PollEndsPreserves,
        HostAnswerPreserves DEF PollStep, PolledNothing
<1>7. ASSUME HostStep PROVE OutboxInvariant'
  BY <1>7, TaskFacts, HostAdmitPreserves, HostRepeatsPreserves, HostRunPreserves,
    HostFinishPreserves, HostSignalPreserves, HostAnswerPreserves DEF HostStep
<1>8. ASSUME Fault PROVE OutboxInvariant'
  BY <1>8, DropPreserves, CrashPreserves, TimeoutPreserves, HostMissesPreserves DEF Fault
<1>9. ASSUME Work PROVE OutboxInvariant'
  <2>1. Connecting \in Reconcilers BY TaskFacts
  <2> QED BY <1>2, <1>3, <1>4, <1>5, <1>7, <1>9, <2>1, SignalReadPreserves DEF Work
<1> QED BY <1>1, <1>2, <1>6, <1>8, <1>9, ArrivePreserves DEF OutboxNext

(* The invariant holds whatever the user, the connections and the hosts do. *)
THEOREM OutboxInvariantHolds == OutboxSpec => []OutboxInvariant
  BY InitEstablishes, StepPreserves, PTL DEF OutboxSpec

(* What was sent stays owned by its entry until the host has settled it:    *)
(* SentOnce says as much, of commands about to be sent as well.             *)
THEOREM OwnedUntilSettledHolds == OutboxSpec => []OwnedUntilSettled
<1>1. OutboxInvariant => OwnedUntilSettled
  BY DEF OutboxInvariant, SentOnce, OwnedUntilSettled
<1> QED BY <1>1, OutboxInvariantHolds, PTL

(* Entries and what was sent have the reservation of their id, and a request*)
(* goes to the host of its command.                                         *)
THEOREM AuthorityExactHolds == OutboxSpec => []AuthorityExact
<1>1. OutboxInvariant => AuthorityExact
  BY DEF OutboxInvariant, Reservations, Reserved, Connected, AuthorityExact
<1> QED BY <1>1, OutboxInvariantHolds, PTL

(* A submission becomes "asked" from "first" alone.                         *)
Sends(c) == pc'[Submission(c)] = "asked" => pc[Submission(c)] \in {"asked", "first"}

LEMMA OnlyFirstWrittenSends ==
    ASSUME OutboxInvariant, OutboxNext, NEW c \in Commands
    PROVE  Sends(c)
<1>1. pc \in [Tasks -> Places] /\ Submission(c) \in Tasks /\ Submission(c) \notin Reconcilers
  BY TaskFacts DEF OutboxInvariant, OutboxShape
<1>2. ASSUME NEW t \in Tasks, NEW p, Goto(t, p), p # "asked" \/ t # Submission(c) \/ At(t, "first")
      PROVE Sends(c)
  BY <1>1, <1>2 DEF Sends
<1>3. ASSUME UNCHANGED pc PROVE Sends(c)
  BY <1>3 DEF Sends
<1>4. ASSUME NEW d \in Commands, Submit(d) \/ SubmissionStep(d) PROVE Sends(c)
  <2>1. Submission(d) \in Tasks BY TaskFacts
  <2> QED BY <1>2, <1>4, <2>1 DEF SubmissionStep, Submit, Check, Reserve, ReserveRefused,
        FirstWritten, Settle, Fail
<1>5. ASSUME Drop \/ \E t \in Tasks : CommitAmbiguous(t) PROVE Sends(c)
  BY <1>1, <1>5 DEF Sends, Drop, CommitAmbiguous, CutOffPc, Waiting, Onward
<1>6. ASSUME NEW t \in Tasks, ProofStep(t) PROVE Sends(c)
  BY <1>2, <1>5, <1>6 DEF ProofStep, Commit, CommitRepeated, CommitSuperseded, LockedWritten, Onward
<1>7. ASSUME NEW t \in Reconcilers, ReconcilerStep(t) PROVE Sends(c)
  <2>1. t \in Tasks /\ t # Submission(c) BY <1>1, TaskFacts
  <2> QED BY <1>2, <1>7, <2>1 DEF ReconcilerStep, Ask, UnlockedWritten, Superseded, End
<1>8. ASSUME NEW d \in Commands, Resubmit(d) PROVE Sends(c)
  BY <1>1, <1>8, TaskFacts DEF Sends, Resubmit
<1>9. Connecting \in Tasks /\ Polling \in Tasks /\ Connecting \in Reconcilers /\ Polling \in Reconcilers
  BY TaskFacts
<1>10. ASSUME ConnectStep PROVE Sends(c)
  BY <1>2, <1>3, <1>8, <1>9, <1>10 DEF ConnectStep, ReadOutbox, CommitHeld, ConnectAsked, Cleared,
    Resubmitted, ConnectEnds, End, Connect
<1>11. ASSUME HostStep \/ \E t \in Tasks : HostAnswer(t) PROVE Sends(c)
  BY <1>3, <1>11, TaskFacts DEF HostStep, HostAdmit, HostRepeats, HostRun, HostFinish, HostSignal,
    HostAnswer
<1>12. ASSUME PollStep \/ PolledNothing PROVE Sends(c)
  BY <1>2, <1>3, <1>6, <1>7, <1>9, <1>11, <1>12 DEF PollStep, PolledNothing, Polled, PollEnds, End, outboxVars
<1>13. ASSUME Fault PROVE Sends(c)
  <2>1. CASE Crash BY <1>1, <2>1 DEF Sends, Crash
  <2>2. CASE \E t \in Tasks : Timeout(t) BY <1>2, <2>2 DEF Timeout
  <2>3. CASE \E d \in Commands : HostMisses(d) BY <1>3, <2>3 DEF HostMisses
  <2> QED BY <1>5, <1>13, <2>1, <2>2, <2>3 DEF Fault
<1>14. ASSUME Arrive PROVE Sends(c)
  <2>1. Head(down).to \in Tasks BY <1>14, TailRemoves, Messages DEF OutboxInvariant, Arrive
  <2> QED BY <1>2, <1>14, <2>1 DEF Arrive, SubmissionAnswered, ReconcilerAnswered
<1>15. ASSUME NEW d \in Prompts, SignalRead(d) PROVE Sends(c)
  BY <1>2, <1>15, TaskFacts DEF SignalRead
<1>16. ASSUME Work PROVE Sends(c)
  BY <1>4, <1>6, <1>7, <1>9, <1>10, <1>11, <1>15, <1>16 DEF Work
<1> QED BY <1>4, <1>12, <1>13, <1>14, <1>16 DEF OutboxNext

(* Only FirstWritten sends, from "first", where SentOnce leaves no command  *)
(* that was sent and is open at its host.                                   *)
THEOREM NoBlindResendHolds == OutboxSpec => NoBlindResend
<1> DEFINE Resent == \A c \in sent :
        ~At(Submission(c), "asked") /\ At(Submission(c), "asked")' => status[c] \in Final
<1>1. ASSUME OutboxInvariant, OutboxNext PROVE Resent
  <2>1. \A c \in sent : c \in Commands BY <1>1 DEF OutboxInvariant, OutboxShape
  <2>2. \A c \in sent : pc[Submission(c)] = "first" => status[c] \in Final
    BY <1>1 DEF OutboxInvariant, SentOnce
  <2> QED BY <1>1, <2>1, <2>2, OnlyFirstWrittenSends DEF Sends
<1>2. OutboxInvariant /\ [OutboxNext]_outboxVars => [Resent]_outboxVars
  BY <1>1
<1> QED BY <1>2, OutboxInvariantHolds, PTL DEF OutboxSpec, NoBlindResend

-----------------------------------------------------------------------------
(* Locks and the queue.                                                     *)

(* Every task but t keeps its place in an order, the first its lead.        *)
Keeps(s, r, t) ==
    /\ \A i \in 1..Len(s) : s[i] # t => \E j \in 1..Len(r) : r[j] = s[i]
    /\ s # <<>> /\ s[1] # t => r[1] = s[1]

LEMMA KeepsFacts ==
    ASSUME NEW S, NEW s \in Seq(S), NEW t \in S, NEW u \in S
    PROVE  /\ Keeps(s, s, t)
           /\ Keeps(s, Append(s, u), t)
           /\ s # <<>> /\ Head(s) = t => Keeps(s, Tail(s), t) /\ Keeps(s, Append(Tail(s), u), t)
<1>1. Len(s) \in Nat /\ (s # <<>> => Len(s) # 0)
  BY SeqFacts
<1>2. Keeps(s, s, t)
  BY DEF Keeps
<1>3. Keeps(s, Append(s, u), t)
  BY <1>1, SeqFacts DEF Keeps
<1>4. ASSUME s # <<>>, Head(s) = t PROVE Keeps(s, Tail(s), t) /\ Keeps(s, Append(Tail(s), u), t)
  <2>1. /\ Tail(s) \in Seq(S) /\ Len(Tail(s)) = Len(s) - 1 /\ s[1] = t
        /\ \A i \in 1..Len(s) - 1 : Tail(s)[i] = s[i + 1]
    BY <1>4, SeqFacts
  <2>2. ASSUME NEW i \in 1..Len(s), s[i] # t PROVE i - 1 \in 1..Len(Tail(s)) /\ Tail(s)[i - 1] = s[i]
    BY <1>1, <2>1, <2>2
  <2> DEFINE r == Tail(s)
  <2>3. r \in Seq(S) BY <2>1
  <2>4. \A i \in 1..Len(r) : i \in 1..Len(Append(r, u)) /\ Append(r, u)[i] = r[i]
    BY <2>3, SeqFacts
  <2> QED BY <2>1, <2>2, <2>4 DEF Keeps
<1> QED BY <1>2, <1>3, <1>4

(* Who wants a lock is in its order, and keeps its place but for the one    *)
(* task that leaves.                                                        *)
InTurn(u) ==
    /\ \E i \in 1..Len(turn[cmd[u]]) : turn[cmd[u]][i] = u
    /\ At(u, "write") => turn[cmd[u]][1] = u

LEMMA StillInTurn ==
    ASSUME OutboxInvariant, LocksHeld, NEW t \in Tasks, NEW u \in Tasks, u # t,
           pc[u] \in Locking, pc'[u] = pc[u], cmd'[u] = cmd[u],
           cmd[u] \in Commands => Keeps(turn[cmd[u]], turn'[cmd[u]], t)
    PROVE  InTurn(u)'
<1>1. cmd[u] \in Commands
  BY DEF OutboxInvariant, Reservations, Working, Locking
<1> DEFINE s == turn[cmd[u]]
           r == turn'[cmd[u]]
<1>2. (\E i \in 1..Len(s) : s[i] = u) /\ (At(u, "write") => s[1] = u)
  BY DEF LocksHeld
<1>3. Keeps(s, r, t) /\ s \in Seq(Tasks)
  BY <1>1 DEF LocksHeld
<1>4. s # <<>> BY <1>2, <1>3
<1> QED BY <1>2, <1>3, <1>4 DEF Keeps, InTurn

LEMMA LocksFrame ==
    ASSUME OutboxInvariant, LocksHeld, NEW t \in Tasks,
           turn' \in [Commands -> Seq(Tasks)],
           \A c \in Commands : Keeps(turn[c], turn'[c], t),
           \A u \in Tasks : pc'[u] \in Locking =>
               \/ u # t /\ pc'[u] = pc[u] /\ cmd'[u] = cmd[u]
               \/ InTurn(u)'
    PROVE  LocksHeld'
<1>1. \A u \in Tasks : pc'[u] \in Locking => InTurn(u)'
  BY StillInTurn
<1> QED BY <1>1 DEF LocksHeld, InTurn, Locking

LEMMA FirstInTurn ==
    ASSUME OutboxInvariant, LocksHeld, NEW t \in Tasks, pc[t] \in Locking
    PROVE  /\ cmd[t] \in Commands /\ turn[cmd[t]] \in Seq(Tasks) /\ turn[cmd[t]] # <<>>
           /\ Head(turn[cmd[t]]) = turn[cmd[t]][1]
           /\ At(t, "write") => Head(turn[cmd[t]]) = t
<1>1. cmd[t] \in Commands
  BY DEF OutboxInvariant, Reservations, Working, Locking
<1>2. turn[cmd[t]] \in Seq(Tasks) /\ \E i \in 1..Len(turn[cmd[t]]) : turn[cmd[t]][i] = t
  BY <1>1 DEF LocksHeld
<1>3. turn[cmd[t]] # <<>>
  BY <1>2
<1> QED BY <1>1, <1>2, <1>3, SeqFacts DEF LocksHeld

(* The lock's order when a task has joined, has left, or nothing happened.  *)
LEMMA TurnMoves ==
    ASSUME OutboxInvariant, LocksHeld, NEW t \in Tasks, NEW u \in Tasks, NEW d \in Commands
    PROVE  /\ turn' = turn =>
                 turn' \in [Commands -> Seq(Tasks)] /\ \A c \in Commands : Keeps(turn[c], turn'[c], t)
           /\ turn' = [turn EXCEPT ![d] = Append(@, u)] =>
                 /\ turn' \in [Commands -> Seq(Tasks)]
                 /\ \A c \in Commands : Keeps(turn[c], turn'[c], t)
                 /\ \E i \in 1..Len(turn'[d]) : turn'[d][i] = u
           /\ turn[d] # <<>> /\ Head(turn[d]) = t =>
                 /\ turn' = [turn EXCEPT ![d] = Tail(@)] =>
                       turn' \in [Commands -> Seq(Tasks)] /\ \A c \in Commands : Keeps(turn[c], turn'[c], t)
                 /\ turn' = [turn EXCEPT ![d] = Append(Tail(@), u)] =>
                       /\ turn' \in [Commands -> Seq(Tasks)]
                       /\ \A c \in Commands : Keeps(turn[c], turn'[c], t)
                       /\ \E i \in 1..Len(turn'[d]) : turn'[d][i] = u
<1>0. turn \in [Commands -> Seq(Tasks)] BY DEF LocksHeld
<1>a. \A c \in Commands : Keeps(turn[c], turn[c], t)
  BY <1>0, KeepsFacts
<1>1. ASSUME turn' = turn
      PROVE turn' \in [Commands -> Seq(Tasks)] /\ \A c \in Commands : Keeps(turn[c], turn'[c], t)
  BY <1>0, <1>1, <1>a
<1> DEFINE s == turn[d]
<1>b. s \in Seq(Tasks) BY <1>0
<1>2. ASSUME NEW r \in Seq(Tasks), turn' = [turn EXCEPT ![d] = r], Keeps(s, r, t)
      PROVE  /\ turn' \in [Commands -> Seq(Tasks)] /\ turn'[d] = r
             /\ \A c \in Commands : Keeps(turn[c], turn'[c], t)
  BY <1>0, <1>2, <1>a
<1>3. /\ Append(s, u) \in Seq(Tasks) /\ Keeps(s, Append(s, u), t)
      /\ \E i \in 1..Len(Append(s, u)) : Append(s, u)[i] = u
  BY <1>b, KeepsFacts, SeqFacts
<1>4. ASSUME s # <<>>, Head(s) = t
      PROVE /\ Tail(s) \in Seq(Tasks) /\ Append(Tail(s), u) \in Seq(Tasks)
            /\ Keeps(s, Tail(s), t) /\ Keeps(s, Append(Tail(s), u), t)
            /\ \E i \in 1..Len(Append(Tail(s), u)) : Append(Tail(s), u)[i] = u
  <2>1. Tail(s) \in Seq(Tasks) BY <1>b, <1>4, SeqFacts
  <2>2. /\ Append(Tail(s), u) \in Seq(Tasks)
        /\ \E i \in 1..Len(Append(Tail(s), u)) : Append(Tail(s), u)[i] = u
    BY <2>1, SeqFacts
  <2> QED BY <1>b, <1>4, <2>1, <2>2, KeepsFacts
<1>5. ASSUME turn' = [turn EXCEPT ![d] = Append(@, u)]
      PROVE  turn' = [turn EXCEPT ![d] = Append(s, u)]
  BY <1>0, <1>5
<1>6. ASSUME turn' = [turn EXCEPT ![d] = Tail(@)]
      PROVE  turn' = [turn EXCEPT ![d] = Tail(s)]
  BY <1>0, <1>6
<1>7. ASSUME turn' = [turn EXCEPT ![d] = Append(Tail(@), u)]
      PROVE  turn' = [turn EXCEPT ![d] = Append(Tail(s), u)]
  BY <1>0, <1>7
<1> HIDE DEF s
<1>8. ASSUME turn' = [turn EXCEPT ![d] = Append(@, u)]
      PROVE  /\ turn' \in [Commands -> Seq(Tasks)]
             /\ \A c \in Commands : Keeps(turn[c], turn'[c], t)
             /\ \E i \in 1..Len(turn'[d]) : turn'[d][i] = u
  <2>1. turn' = [turn EXCEPT ![d] = Append(s, u)] BY <1>5, <1>8
  <2>2. /\ turn' \in [Commands -> Seq(Tasks)] /\ turn'[d] = Append(s, u)
        /\ \A c \in Commands : Keeps(turn[c], turn'[c], t)
    BY <2>1, <1>2, <1>3
  <2> QED BY <2>2, <1>3
<1>9. ASSUME s # <<>>, Head(s) = t, turn' = [turn EXCEPT ![d] = Tail(@)]
      PROVE  turn' \in [Commands -> Seq(Tasks)] /\ \A c \in Commands : Keeps(turn[c], turn'[c], t)
  <2>1. turn' = [turn EXCEPT ![d] = Tail(s)] BY <1>6, <1>9
  <2> QED BY <2>1, <1>2, <1>4, <1>9
<1>10. ASSUME s # <<>>, Head(s) = t, turn' = [turn EXCEPT ![d] = Append(Tail(@), u)]
      PROVE  /\ turn' \in [Commands -> Seq(Tasks)]
             /\ \A c \in Commands : Keeps(turn[c], turn'[c], t)
             /\ \E i \in 1..Len(turn'[d]) : turn'[d][i] = u
  <2>1. turn' = [turn EXCEPT ![d] = Append(Tail(s), u)] BY <1>7, <1>10
  <2>2. /\ turn' \in [Commands -> Seq(Tasks)] /\ turn'[d] = Append(Tail(s), u)
        /\ \A c \in Commands : Keeps(turn[c], turn'[c], t)
    BY <2>1, <1>2, <1>4, <1>10
  <2> QED BY <2>2, <1>4, <1>10
<1> QED BY <1>1, <1>8, <1>9, <1>10 DEF s

LEMMA TurnStays ==
    ASSUME ProvenInvariant, NEW t \in Tasks, turn' = turn
    PROVE  turn' \in [Commands -> Seq(Tasks)] /\ \A c \in Commands : Keeps(turn[c], turn'[c], t)
<1>1. turn \in [Commands -> Seq(Tasks)]
  BY DEF ProvenInvariant, LocksHeld
<1> QED BY <1>1, KeepsFacts

(* a stands before b.                                                       *)
Before(s, a, b) == \E i, j \in 1..Len(s) : i < j /\ s[i] = a /\ s[j] = b

LEMMA QueueStays ==
    ASSUME QueueExact, queue' = queue,
           \A u \in Tasks : pc'[u] \in Updating <=> pc[u] \in Updating
    PROVE  QueueExact' /\ \A a, b : Before(queue, a, b) => Before(queue, a, b)'
  BY DEF QueueExact, Before

LEMMA QueueJoined ==
    ASSUME QueueExact, NEW t \in Tasks, queue' = Append(queue, t), pc[t] \notin Updating, pc'[t] \in Updating,
           \A u \in Tasks \ {t} : pc'[u] \in Updating <=> pc[u] \in Updating
    PROVE  /\ QueueExact' /\ \A a, b : Before(queue, a, b) => Before(queue, a, b)'
           /\ \A a \in Tasks : pc[a] \in Updating => Before(queue, a, t)'
<1>1. /\ queue \in Seq(Tasks) /\ Len(queue) \in Nat /\ queue' \in Seq(Tasks) /\ Len(queue') = Len(queue) + 1
      /\ \A i \in 1..Len(queue') : queue'[i] = IF i = Len(queue) + 1 THEN t ELSE queue[i]
  BY SeqFacts DEF QueueExact
<1>2. \A i \in 1..Len(queue) : queue[i] # t
  BY DEF QueueExact
<1>3. \A i, j \in 1..Len(queue') : queue'[i] = queue'[j] => i = j
  BY <1>1, <1>2 DEF QueueExact
<1>4. ASSUME NEW u \in Tasks PROVE pc'[u] \in Updating <=> \E i \in 1..Len(queue') : queue'[i] = u
  <2>1. CASE u = t BY <1>1, <2>1
  <2>2. CASE u # t BY <1>1, <2>2 DEF QueueExact
  <2> QED BY <2>1, <2>2
<1>5. \A a, b : Before(queue, a, b) => Before(queue, a, b)'
  BY <1>1 DEF Before
<1>6. ASSUME NEW a \in Tasks, pc[a] \in Updating PROVE Before(queue, a, t)'
  <2>1. PICK i \in 1..Len(queue) : queue[i] = a BY <1>6 DEF QueueExact
  <2>2. i \in 1..Len(queue') /\ Len(queue') \in 1..Len(queue') /\ i < Len(queue') BY <1>1
  <2> QED BY <1>1, <2>1, <2>2 DEF Before
<1> QED BY <1>1, <1>3, <1>4, <1>5, <1>6 DEF QueueExact

LEMMA QueueLeft ==
    ASSUME QueueExact, NEW t \in Tasks, queue # <<>>, Head(queue) = t, queue' = Tail(queue), pc'[t] \notin Updating,
           \A u \in Tasks \ {t} : pc'[u] \in Updating <=> pc[u] \in Updating
    PROVE  /\ QueueExact' /\ \A a, b : a # t /\ Before(queue, a, b) => Before(queue, a, b)'
           /\ \A a : ~Before(queue, a, t)
<1>1. /\ queue \in Seq(Tasks) /\ Len(queue) \in Nat \ {0} /\ queue' \in Seq(Tasks) /\ Len(queue') = Len(queue) - 1
      /\ \A i \in 1..Len(queue') : queue'[i] = queue[i + 1]
      /\ queue[1] = t
  BY SeqFacts DEF QueueExact
<1>2. \A i \in 1..Len(queue') : i + 1 \in 1..Len(queue)
  BY <1>1
<1>3. \A i \in 1..Len(queue) : queue[i] = t => i = 1
  BY <1>1 DEF QueueExact
<1>4. \A i \in 1..Len(queue) : i # 1 => i - 1 \in 1..Len(queue') /\ queue'[i - 1] = queue[i]
  BY <1>1
<1>5. ASSUME NEW i \in 1..Len(queue'), NEW j \in 1..Len(queue'), queue'[i] = queue'[j] PROVE i = j
  <2>1. i + 1 = j + 1 BY <1>1, <1>2, <1>5 DEF QueueExact
  <2> QED BY <2>1
<1>6. ASSUME NEW u \in Tasks PROVE pc'[u] \in Updating <=> \E i \in 1..Len(queue') : queue'[i] = u
  <2>1. CASE u = t
    <3>1. \A i \in 1..Len(queue') : queue'[i] # t BY <1>1, <1>2, <1>3
    <3> QED BY <2>1, <3>1
  <2>2. CASE u # t
    <3>1. pc[u] \in Updating <=> \E i \in 1..Len(queue) : queue[i] = u BY DEF QueueExact
    <3>2. ASSUME NEW i \in 1..Len(queue), queue[i] = u PROVE \E k \in 1..Len(queue') : queue'[k] = u
      <4>1. i # 1 BY <1>1, <2>2, <3>2
      <4> QED BY <1>4, <3>2, <4>1
    <3>3. \A k \in 1..Len(queue') : queue'[k] = u => \E i \in 1..Len(queue) : queue[i] = u
      BY <1>1, <1>2
    <3> QED BY <2>2, <3>1, <3>2, <3>3
  <2> QED BY <2>1, <2>2
<1>7. ASSUME NEW a, NEW b, a # t, Before(queue, a, b) PROVE Before(queue, a, b)'
  <2>1. PICK i \in 1..Len(queue), j \in 1..Len(queue) : i < j /\ queue[i] = a /\ queue[j] = b
    BY <1>7 DEF Before
  <2>2. i # 1 /\ j # 1 /\ i - 1 < j - 1 BY <1>1, <1>7, <2>1
  <2> QED BY <1>4, <2>1, <2>2 DEF Before
<1>8. \A a : ~Before(queue, a, t)
  BY <1>3 DEF Before
<1> QED BY <1>1, <1>5, <1>6, <1>7, <1>8 DEF QueueExact

-----------------------------------------------------------------------------
(* The parts that an action leaves alone.                                   *)

LEMMA SignalsFrame ==
    ASSUME SignalledOnce, OutcomesKept, down' = down, owed' \subseteq owed,
           \A c \in Prompts : At(Signal(c), "idle") => At(Signal(c), "idle")'
    PROVE  SignalledOnce'
<1>1. ASSUME NEW i \in 1..Len(down), down[i].to \in Signals PROVE At(down[i].to, "idle")'
  <2>1. PICK c \in Prompts : down[i].to = Signal(c) BY <1>1 DEF Signals
  <2> QED BY <1>1, <2>1 DEF SignalledOnce
<1> QED BY <1>1 DEF SignalledOnce, OutcomesKept, Final

LEMMA LastFrame ==
    ASSUME OutboxInvariant, ProofsLast, down' = down,
           \A t \in Tasks : At(t, "asked") /\ t \notin Signals => cmd'[t] = cmd[t],
           \A c \in Prompts : Proved(c)' => Proved(c)
    PROVE  ProofsLast'
<1>1. ASSUME NEW i \in 1..Len(down), down[i].to \notin Signals PROVE cmd'[down[i].to] = cmd[down[i].to]
  BY <1>1, Messages DEF OutboxInvariant, AnswersTrue, Truthful
<1>2. ASSUME NEW i \in 1..Len(down), NEW c PROVE (Proves(down[i], c))' <=> Proves(down[i], c)
  BY <1>1 DEF Proves
<1>3. ASSUME NEW i \in 1..Len(down), NEW c PROVE (Agrees(down[i], c))' <=> Agrees(down[i], c)
  BY <1>1, TaskFacts DEF Agrees
<1>4. \A i, j : i \in 1..Len(down) /\ j \in i + 1..Len(down) => j \in 1..Len(down)
  BY Messages DEF OutboxInvariant
<1>5. ASSUME NEW c \in Prompts, NEW i \in 1..Len(down), Proves(down[i], c)', NEW j \in i + 1..Len(down)
      PROVE  Agrees(down[j], c)'
  BY <1>2, <1>3, <1>4, <1>5 DEF ProofsLast
<1>6. ASSUME NEW c \in Prompts, Proved(c)', NEW j \in 1..Len(down) PROVE Agrees(down[j], c)'
  BY <1>3, <1>6 DEF ProofsLast
<1> QED BY <1>5, <1>6 DEF ProofsLast

LEMMA KnownFrame ==
    ASSUME OutboxInvariant, RemovalsKnown, OutcomesKept,
           \A c \in proven' : c \in proven \/ (c \in Prompts /\ status'[c] = "completed"),
           \A u \in Tasks : Proving(u)' => cmd'[u] \in Prompts \/ (Proving(u) /\ cmd'[u] = cmd[u]),
           \A c \in gone' : c \in gone \/ (c \in Prompts => status'[c] = "failed"),
           \A u \in Reconcilers : At(u, "put")' =>
               \/ pc'[u] = pc[u] /\ want'[u] = want[u] /\ cmd'[u] = cmd[u]
               \/ want'[u] = "none" /\ cmd'[u] \in Prompts => status'[cmd'[u]] = "failed",
           \A u \in Tasks \ Submissions : At(u, "write")' =>
               \/ At(u, "write") /\ want'[u] = want[u] /\ cmd'[u] = cmd[u]
                  /\ (cmd[u] \in fence => cmd[u] \in fence')
               \/ want'[u] = "none" /\ cmd'[u] \in fence',
           \A c \in proven' : Submitting(c)' /\ c \notin fence' /\ outbox'[c] = "none" =>
               c \in proven /\ Submitting(c) /\ c \notin fence /\ outbox[c] = "none"
    PROVE  RemovalsKnown'
<1>1. \A c \in proven' : c \in Prompts /\ status'[c] = "completed"
  BY DEF RemovalsKnown, OutcomesKept, Final
<1>2. \A u \in Tasks : Proving(u)' => cmd'[u] \in Prompts
  BY DEF RemovalsKnown
<1>3. \A c \in gone' : c \in Prompts => status'[c] = "failed"
  BY DEF RemovalsKnown, OutcomesKept, Final
<1>4. \A u \in Reconcilers :
          At(u, "put")' /\ want'[u] = "none" /\ cmd'[u] \in Prompts => status'[cmd'[u]] = "failed"
  BY DEF RemovalsKnown, OutcomesKept, Final
<1>5. \A u \in Tasks \ Submissions : At(u, "write")' => want'[u] = "none" /\ cmd'[u] \in fence'
  BY DEF RemovalsKnown
<1>6. \A c \in proven' : Submitting(c)' /\ c \notin fence' => outbox'[c] # "none"
  BY DEF RemovalsKnown
<1> QED BY <1>1, <1>2, <1>3, <1>4, <1>5, <1>6 DEF RemovalsKnown

LEMMA OvertakenFrame ==
    ASSUME PutsOvertaken,
           \A u \in Reconcilers :
               At(u, "put")' /\ want'[u] \notin {"none", "hold"} /\ cmd'[u] \in proven' =>
                   pc'[u] = pc[u] /\ want'[u] = want[u] /\ cmd'[u] = cmd[u] /\ cmd[u] \in proven,
           \A a, b \in Tasks : At(a, "put") /\ At(b, "write") /\ cmd[b] \in fence /\ Before(queue, a, b) =>
               \/ ~At(a, "put")'
               \/ At(b, "write")' /\ cmd'[b] = cmd[b] /\ cmd[b] \in fence' /\ Before(queue, a, b)'
    PROVE  PutsOvertaken'
<1>1. ASSUME NEW u \in Reconcilers, At(u, "put")', want'[u] \notin {"none", "hold"}, cmd'[u] \in proven'
      PROVE  Overtaken(u)'
  <2>1. pc'[u] = pc[u] /\ want'[u] = want[u] /\ cmd'[u] = cmd[u] /\ cmd[u] \in proven
    BY <1>1
  <2>2. Overtaken(u) BY <1>1, <2>1 DEF PutsOvertaken
  <2>3. PICK w \in Tasks : /\ At(w, "write") /\ cmd[w] = cmd[u] /\ cmd[w] \in fence
                           /\ Before(queue, u, w)
    BY <2>2 DEF Overtaken, Before
  <2>4. u \in Tasks BY TaskFacts
  <2>5. At(w, "write")' /\ cmd'[w] = cmd[w] /\ cmd[w] \in fence' /\ Before(queue, u, w)'
    BY <1>1, <2>1, <2>3, <2>4
  <2>6. cmd'[w] = cmd'[u] /\ cmd'[w] \in fence' BY <2>1, <2>3, <2>5
  <2> QED BY <2>5, <2>6 DEF Overtaken, Before
<1> QED BY <1>1 DEF PutsOvertaken

(* Who leaves a lock drops no fence that a writer or a submission relies on.*)
LEMMA LeaveKeeps ==
    ASSUME OutboxInvariant, LocksHeld, NEW t \in Tasks, pc[t] \in Locking,
           Head(turn[cmd[t]]) = t, Leave(t)
    PROVE  /\ fence' \subseteq fence
           /\ \A u \in Tasks \ {t} : At(u, "write") /\ cmd[u] \in fence => cmd[u] \in fence'
           /\ \A c \in fence : Submitting(c) /\ t # Submission(c) => c \in fence'
<1>1. fence' = fence \/ fence' = fence \ {cmd[t]}
  BY DEF Leave, FenceAfter
<1>2. ASSUME NEW u \in Tasks, u # t, At(u, "write") PROVE cmd[u] # cmd[t]
  BY <1>2, FirstInTurn DEF Locking
<1>3. \A c \in fence : Submitting(c) /\ t # Submission(c) => c \in fence'
  BY DEF Leave, FenceAfter
<1> QED BY <1>1, <1>2, <1>3

(* A step that touches neither locks nor queue nor entries nor messages.    *)
LEMMA Quiet ==
    ASSUME OutboxInvariant, ProvenInvariant, OutcomesKept,
           UNCHANGED <<outbox, queue, turn, fence, want, down, proven>>,
           gone' \subseteq gone, owed' \subseteq owed,
           \A u \in Tasks : pc'[u] \in Locking \cup Updating => pc'[u] = pc[u] /\ cmd'[u] = cmd[u],
           \A u \in Tasks : pc[u] \in Updating => pc'[u] = pc[u],
           \A u \in Tasks : At(u, "asked") /\ u \notin Signals => cmd'[u] = cmd[u],
           \A u \in Tasks \ Reconcilers : (At(u, "asked")' => At(u, "asked")) /\ cmd'[u] = cmd[u],
           \A u \in Signals : pc'[u] = pc[u]
    PROVE  ProvenInvariant'
<1>1. QueueExact' /\ \A a, b : Before(queue, a, b) => Before(queue, a, b)'
  BY QueueStays DEF ProvenInvariant, Locking, Updating
<1>2. LocksHeld'
  <2>1. Connecting \in Tasks BY TaskFacts
  <2>2. \A u \in Tasks : pc'[u] \in Locking => InTurn(u)'
    BY DEF ProvenInvariant, LocksHeld, InTurn
  <2>3. /\ turn' \in [Commands -> Seq(Tasks)]
        /\ \A c \in Commands : Keeps(turn[c], turn'[c], Connecting)
    <3>1. turn \in [Commands -> Seq(Tasks)] /\ turn' = turn BY DEF ProvenInvariant, LocksHeld
    <3> QED BY <2>1, <3>1, KeepsFacts
  <2> QED BY <2>1, <2>2, <2>3, LocksFrame DEF ProvenInvariant
<1>3. SignalledOnce'
  BY SignalsFrame, TaskFacts DEF ProvenInvariant
<1>4. \A u \in Tasks : Proving(u)' => Proving(u) /\ cmd'[u] = cmd[u]
  BY TaskFacts DEF Proving, Locking
<1>5. \A c \in Prompts : Proved(c)' => Proved(c)
  BY <1>4 DEF Proved
<1>6. ProofsLast'
  BY <1>5, LastFrame DEF ProvenInvariant
<1>7. \A c \in proven : c \in Prompts /\ Submission(c) \in Tasks \ Reconcilers
  BY TaskFacts DEF ProvenInvariant, RemovalsKnown
<1>8. \A c \in proven : Submitting(c)' => Submitting(c)
  BY <1>7 DEF Submitting, Locking
<1>9. RemovalsKnown'
  BY <1>4, <1>8, TaskFacts, KnownFrame DEF ProvenInvariant, Locking, Updating
<1>10. PutsOvertaken'
  BY <1>1, TaskFacts, OvertakenFrame DEF ProvenInvariant, Locking, Updating
<1> QED BY <1>1, <1>2, <1>3, <1>6, <1>9, <1>10 DEF ProvenInvariant

-----------------------------------------------------------------------------
(* Steps that are quiet.                                                    *)

LEMMA SubmitProven ==
    ASSUME NEW c \in Commands, OutboxInvariant, ProvenInvariant, Submit(c)
    PROVE  ProvenInvariant'
<1>1. pc \in [Tasks -> Places] /\ cmd \in [Tasks -> Commands \cup {NoCommand}]
  BY DEF OutboxInvariant, OutboxShape
<1>2. UNCHANGED <<outbox, queue, turn, fence, want, down, proven, owed>> /\ gone' \subseteq gone
  BY DEF Submit, Submittable
<1>3. OutcomesKept
  BY DEF OutboxInvariant, OutboxShape, OutcomesKept, Final, Submit, Submittable
<1>4. \A u \in Tasks : pc'[u] \in Locking \cup Updating => pc'[u] = pc[u] /\ cmd'[u] = cmd[u]
  BY <1>1, TaskFacts DEF Locking, Updating, Submit, Submittable
<1>5. \A u \in Tasks : pc[u] \in Updating => pc'[u] = pc[u]
  BY <1>1, TaskFacts DEF Updating, Submit, Submittable
<1>6. \A u \in Tasks : At(u, "asked") /\ u \notin Signals => cmd'[u] = cmd[u]
  BY <1>1, TaskFacts DEF Submit, Submittable
<1>7. \A u \in Tasks \ Reconcilers : (At(u, "asked")' => At(u, "asked")) /\ cmd'[u] = cmd[u]
  BY <1>1, TaskFacts DEF Submit, Submittable
<1>8. \A u \in Signals : pc'[u] = pc[u]
  BY <1>1, TaskFacts DEF Submit, Submittable
<1> QED BY <1>2, <1>3, <1>4, <1>5, <1>6, <1>7, <1>8, Quiet

LEMMA CheckProven ==
    ASSUME NEW c \in Commands, OutboxInvariant, ProvenInvariant, Check(c)
    PROVE  ProvenInvariant'
<1>1. pc \in [Tasks -> Places] /\ cmd \in [Tasks -> Commands \cup {NoCommand}]
  BY DEF OutboxInvariant, OutboxShape
<1>2. UNCHANGED <<outbox, queue, turn, fence, want, down, proven, owed>> /\ gone' \subseteq gone
  BY DEF Check
<1>3. OutcomesKept
  BY DEF OutboxInvariant, OutboxShape, OutcomesKept, Final, Check
<1>4. \A u \in Tasks : pc'[u] \in Locking \cup Updating => pc'[u] = pc[u] /\ cmd'[u] = cmd[u]
  BY <1>1, TaskFacts DEF Locking, Updating, Check
<1>5. \A u \in Tasks : pc[u] \in Updating => pc'[u] = pc[u]
  BY <1>1, TaskFacts DEF Updating, Check
<1>6. \A u \in Tasks : At(u, "asked") /\ u \notin Signals => cmd'[u] = cmd[u]
  BY <1>1, TaskFacts DEF Check
<1>7. \A u \in Tasks \ Reconcilers : (At(u, "asked")' => At(u, "asked")) /\ cmd'[u] = cmd[u]
  BY <1>1, TaskFacts DEF Check
<1>8. \A u \in Signals : pc'[u] = pc[u]
  BY <1>1, TaskFacts DEF Check
<1> QED BY <1>2, <1>3, <1>4, <1>5, <1>6, <1>7, <1>8, Quiet

LEMMA ReserveRefusedProven ==
    ASSUME NEW c \in Commands, OutboxInvariant, ProvenInvariant, ReserveRefused(c)
    PROVE  ProvenInvariant'
<1>1. pc \in [Tasks -> Places] /\ cmd \in [Tasks -> Commands \cup {NoCommand}]
  BY DEF OutboxInvariant, OutboxShape
<1>2. UNCHANGED <<outbox, queue, turn, fence, want, down, proven, owed>> /\ gone' \subseteq gone
  BY DEF ReserveRefused
<1>3. OutcomesKept
  BY DEF OutboxInvariant, OutboxShape, OutcomesKept, Final, ReserveRefused
<1>4. \A u \in Tasks : pc'[u] \in Locking \cup Updating => pc'[u] = pc[u] /\ cmd'[u] = cmd[u]
  BY <1>1, TaskFacts DEF Locking, Updating, ReserveRefused
<1>5. \A u \in Tasks : pc[u] \in Updating => pc'[u] = pc[u]
  BY <1>1, TaskFacts DEF Updating, ReserveRefused
<1>6. \A u \in Tasks : At(u, "asked") /\ u \notin Signals => cmd'[u] = cmd[u]
  BY <1>1, TaskFacts DEF ReserveRefused
<1>7. \A u \in Tasks \ Reconcilers : (At(u, "asked")' => At(u, "asked")) /\ cmd'[u] = cmd[u]
  BY <1>1, TaskFacts DEF ReserveRefused
<1>8. \A u \in Signals : pc'[u] = pc[u]
  BY <1>1, TaskFacts DEF ReserveRefused
<1> QED BY <1>2, <1>3, <1>4, <1>5, <1>6, <1>7, <1>8, Quiet

LEMMA ConnectProven ==
    ASSUME NEW h \in Hosts, OutboxInvariant, ProvenInvariant, Connect(h)
    PROVE  ProvenInvariant'
<1>1. pc \in [Tasks -> Places] /\ cmd \in [Tasks -> Commands \cup {NoCommand}]
  BY DEF OutboxInvariant, OutboxShape
<1>2. UNCHANGED <<outbox, queue, turn, fence, want, down, proven, owed>> /\ gone' \subseteq gone
  BY DEF Connect
<1>3. OutcomesKept
  BY DEF OutboxInvariant, OutboxShape, OutcomesKept, Final, Connect
<1>4. \A u \in Tasks : pc'[u] \in Locking \cup Updating => pc'[u] = pc[u] /\ cmd'[u] = cmd[u]
  BY <1>1, TaskFacts DEF Locking, Updating, Connect
<1>5. \A u \in Tasks : pc[u] \in Updating => pc'[u] = pc[u]
  BY <1>1, TaskFacts DEF Updating, Connect
<1>6. \A u \in Tasks : At(u, "asked") /\ u \notin Signals => cmd'[u] = cmd[u]
  BY <1>1, TaskFacts DEF Connect
<1>7. \A u \in Tasks \ Reconcilers : (At(u, "asked")' => At(u, "asked")) /\ cmd'[u] = cmd[u]
  BY <1>1, TaskFacts DEF Connect
<1>8. \A u \in Signals : pc'[u] = pc[u]
  BY <1>1, TaskFacts DEF Connect
<1> QED BY <1>2, <1>3, <1>4, <1>5, <1>6, <1>7, <1>8, Quiet

LEMMA ReadOutboxProven ==
    ASSUME OutboxInvariant, ProvenInvariant, ReadOutbox
    PROVE  ProvenInvariant'
<1>1. pc \in [Tasks -> Places] /\ cmd \in [Tasks -> Commands \cup {NoCommand}]
  BY DEF OutboxInvariant, OutboxShape
<1>2. UNCHANGED <<outbox, queue, turn, fence, want, down, proven, owed>> /\ gone' \subseteq gone
  BY DEF ReadOutbox
<1>3. OutcomesKept
  BY DEF OutboxInvariant, OutboxShape, OutcomesKept, Final, ReadOutbox
<1>4. \A u \in Tasks : pc'[u] \in Locking \cup Updating => pc'[u] = pc[u] /\ cmd'[u] = cmd[u]
  BY <1>1, TaskFacts DEF Locking, Updating, ReadOutbox
<1>5. \A u \in Tasks : pc[u] \in Updating => pc'[u] = pc[u]
  BY <1>1, TaskFacts DEF Updating, ReadOutbox
<1>6. \A u \in Tasks : At(u, "asked") /\ u \notin Signals => cmd'[u] = cmd[u]
  BY <1>1, TaskFacts DEF ReadOutbox
<1>7. \A u \in Tasks \ Reconcilers : (At(u, "asked")' => At(u, "asked")) /\ cmd'[u] = cmd[u]
  BY <1>1, TaskFacts DEF ReadOutbox
<1>8. \A u \in Signals : pc'[u] = pc[u]
  BY <1>1, TaskFacts DEF ReadOutbox
<1> QED BY <1>2, <1>3, <1>4, <1>5, <1>6, <1>7, <1>8, Quiet

LEMMA PolledProven ==
    ASSUME OutboxInvariant, ProvenInvariant, Polled
    PROVE  ProvenInvariant'
<1>1. pc \in [Tasks -> Places] /\ cmd \in [Tasks -> Commands \cup {NoCommand}]
  BY DEF OutboxInvariant, OutboxShape
<1>2. UNCHANGED <<outbox, queue, turn, fence, want, down, proven, owed>> /\ gone' \subseteq gone
  BY DEF Polled
<1>3. OutcomesKept
  BY DEF OutboxInvariant, OutboxShape, OutcomesKept, Final, Polled
<1>4. \A u \in Tasks : pc'[u] \in Locking \cup Updating => pc'[u] = pc[u] /\ cmd'[u] = cmd[u]
  BY <1>1, TaskFacts DEF Locking, Updating, Polled
<1>5. \A u \in Tasks : pc[u] \in Updating => pc'[u] = pc[u]
  BY <1>1, TaskFacts DEF Updating, Polled
<1>6. \A u \in Tasks : At(u, "asked") /\ u \notin Signals => cmd'[u] = cmd[u]
  BY <1>1, TaskFacts DEF Polled
<1>7. \A u \in Tasks \ Reconcilers : (At(u, "asked")' => At(u, "asked")) /\ cmd'[u] = cmd[u]
  BY <1>1, TaskFacts DEF Polled
<1>8. \A u \in Signals : pc'[u] = pc[u]
  BY <1>1, TaskFacts DEF Polled
<1> QED BY <1>2, <1>3, <1>4, <1>5, <1>6, <1>7, <1>8, Quiet

LEMMA AskProven ==
    ASSUME NEW t \in Reconcilers, NEW c \in Commands, OutboxInvariant, ProvenInvariant, Ask(t, c)
    PROVE  ProvenInvariant'
<1>1. pc \in [Tasks -> Places] /\ cmd \in [Tasks -> Commands \cup {NoCommand}]
  BY DEF OutboxInvariant, OutboxShape
<1>2. UNCHANGED <<outbox, queue, turn, fence, want, down, proven, owed>> /\ gone' \subseteq gone
  BY DEF Ask
<1>3. OutcomesKept
  BY DEF OutboxInvariant, OutboxShape, OutcomesKept, Final, Ask
<1>4. \A u \in Tasks : pc'[u] \in Locking \cup Updating => pc'[u] = pc[u] /\ cmd'[u] = cmd[u]
  BY <1>1, TaskFacts DEF Locking, Updating, Ask
<1>5. \A u \in Tasks : pc[u] \in Updating => pc'[u] = pc[u]
  BY <1>1, TaskFacts DEF Updating, Ask
<1>6. \A u \in Tasks : At(u, "asked") /\ u \notin Signals => cmd'[u] = cmd[u]
  BY <1>1, TaskFacts DEF Ask
<1>7. \A u \in Tasks \ Reconcilers : (At(u, "asked")' => At(u, "asked")) /\ cmd'[u] = cmd[u]
  BY <1>1, TaskFacts DEF Ask
<1>8. \A u \in Signals : pc'[u] = pc[u]
  BY <1>1, TaskFacts DEF Ask
<1> QED BY <1>2, <1>3, <1>4, <1>5, <1>6, <1>7, <1>8, Quiet

LEMMA SupersededProven ==
    ASSUME NEW t \in Reconcilers, OutboxInvariant, ProvenInvariant, Superseded(t)
    PROVE  ProvenInvariant'
<1>1. pc \in [Tasks -> Places] /\ cmd \in [Tasks -> Commands \cup {NoCommand}]
  BY DEF OutboxInvariant, OutboxShape
<1>2. UNCHANGED <<outbox, queue, turn, fence, want, down, proven, owed>> /\ gone' \subseteq gone
  BY DEF Superseded, End
<1>3. OutcomesKept
  BY DEF OutboxInvariant, OutboxShape, OutcomesKept, Final, Superseded, End
<1>4. \A u \in Tasks : pc'[u] \in Locking \cup Updating => pc'[u] = pc[u] /\ cmd'[u] = cmd[u]
  BY <1>1, TaskFacts DEF Locking, Updating, Superseded, End
<1>5. \A u \in Tasks : pc[u] \in Updating => pc'[u] = pc[u]
  BY <1>1, TaskFacts DEF Updating, Superseded, End
<1>6. \A u \in Tasks : At(u, "asked") /\ u \notin Signals => cmd'[u] = cmd[u]
  BY <1>1, TaskFacts DEF Superseded, End
<1>7. \A u \in Tasks \ Reconcilers : (At(u, "asked")' => At(u, "asked")) /\ cmd'[u] = cmd[u]
  BY <1>1, TaskFacts DEF Superseded, End
<1>8. \A u \in Signals : pc'[u] = pc[u]
  BY <1>1, TaskFacts DEF Superseded, End
<1> QED BY <1>2, <1>3, <1>4, <1>5, <1>6, <1>7, <1>8, Quiet

LEMMA PollEndsProven ==
    ASSUME OutboxInvariant, ProvenInvariant, PollEnds
    PROVE  ProvenInvariant'
<1>1. pc \in [Tasks -> Places] /\ cmd \in [Tasks -> Commands \cup {NoCommand}]
  BY DEF OutboxInvariant, OutboxShape
<1>2. UNCHANGED <<outbox, queue, turn, fence, want, down, proven, owed>> /\ gone' \subseteq gone
  BY DEF PollEnds, End
<1>3. OutcomesKept
  BY DEF OutboxInvariant, OutboxShape, OutcomesKept, Final, PollEnds, End
<1>4. \A u \in Tasks : pc'[u] \in Locking \cup Updating => pc'[u] = pc[u] /\ cmd'[u] = cmd[u]
  BY <1>1, TaskFacts DEF Locking, Updating, PollEnds, End
<1>5. \A u \in Tasks : pc[u] \in Updating => pc'[u] = pc[u]
  BY <1>1, TaskFacts DEF Updating, PollEnds, End
<1>6. \A u \in Tasks : At(u, "asked") /\ u \notin Signals => cmd'[u] = cmd[u]
  BY <1>1, TaskFacts DEF PollEnds, End
<1>7. \A u \in Tasks \ Reconcilers : (At(u, "asked")' => At(u, "asked")) /\ cmd'[u] = cmd[u]
  BY <1>1, TaskFacts DEF PollEnds, End
<1>8. \A u \in Signals : pc'[u] = pc[u]
  BY <1>1, TaskFacts DEF PollEnds, End
<1> QED BY <1>2, <1>3, <1>4, <1>5, <1>6, <1>7, <1>8, Quiet

LEMMA ResubmitProven ==
    ASSUME NEW c \in Commands, OutboxInvariant, ProvenInvariant, Resubmit(c)
    PROVE  ProvenInvariant'
<1>1. pc \in [Tasks -> Places] /\ cmd \in [Tasks -> Commands \cup {NoCommand}]
  BY DEF OutboxInvariant, OutboxShape
<1>2. UNCHANGED <<outbox, queue, turn, fence, want, down, proven, owed>> /\ gone' \subseteq gone
  BY DEF Resubmit, Submittable
<1>3. OutcomesKept
  BY DEF OutboxInvariant, OutboxShape, OutcomesKept, Final, Resubmit, Submittable
<1>4. \A u \in Tasks : pc'[u] \in Locking \cup Updating => pc'[u] = pc[u] /\ cmd'[u] = cmd[u]
  BY <1>1, TaskFacts DEF Locking, Updating, Resubmit, Submittable
<1>5. \A u \in Tasks : pc[u] \in Updating => pc'[u] = pc[u]
  BY <1>1, TaskFacts DEF Updating, Resubmit, Submittable
<1>6. \A u \in Tasks : At(u, "asked") /\ u \notin Signals => cmd'[u] = cmd[u]
  BY <1>1, TaskFacts DEF Resubmit, Submittable
<1>7. \A u \in Tasks \ Reconcilers : (At(u, "asked")' => At(u, "asked")) /\ cmd'[u] = cmd[u]
  BY <1>1, TaskFacts DEF Resubmit, Submittable
<1>8. \A u \in Signals : pc'[u] = pc[u]
  BY <1>1, TaskFacts DEF Resubmit, Submittable
<1> QED BY <1>2, <1>3, <1>4, <1>5, <1>6, <1>7, <1>8, Quiet

LEMMA ResubmittedProven ==
    ASSUME OutboxInvariant, ProvenInvariant, Resubmitted
    PROVE  ProvenInvariant'
<1>1. pc \in [Tasks -> Places] /\ cmd \in [Tasks -> Commands \cup {NoCommand}]
  BY DEF OutboxInvariant, OutboxShape
<1>2. UNCHANGED <<outbox, queue, turn, fence, want, down, proven, owed>> /\ gone' \subseteq gone
  BY DEF Resubmitted
<1>3. OutcomesKept
  BY DEF OutboxInvariant, OutboxShape, OutcomesKept, Final, Resubmitted
<1>4. \A u \in Tasks : pc'[u] \in Locking \cup Updating => pc'[u] = pc[u] /\ cmd'[u] = cmd[u]
  BY <1>1, TaskFacts DEF Locking, Updating, Resubmitted
<1>5. \A u \in Tasks : pc[u] \in Updating => pc'[u] = pc[u]
  BY <1>1, TaskFacts DEF Updating, Resubmitted
<1>6. \A u \in Tasks : At(u, "asked") /\ u \notin Signals => cmd'[u] = cmd[u]
  BY <1>1, TaskFacts DEF Resubmitted
<1>7. \A u \in Tasks \ Reconcilers : (At(u, "asked")' => At(u, "asked")) /\ cmd'[u] = cmd[u]
  BY <1>1, TaskFacts DEF Resubmitted
<1>8. \A u \in Signals : pc'[u] = pc[u]
  BY <1>1, TaskFacts DEF Resubmitted
<1> QED BY <1>2, <1>3, <1>4, <1>5, <1>6, <1>7, <1>8, Quiet

LEMMA ConnectEndsProven ==
    ASSUME OutboxInvariant, ProvenInvariant, ConnectEnds
    PROVE  ProvenInvariant'
<1>1. pc \in [Tasks -> Places] /\ cmd \in [Tasks -> Commands \cup {NoCommand}]
  BY DEF OutboxInvariant, OutboxShape
<1>2. UNCHANGED <<outbox, queue, turn, fence, want, down, proven, owed>> /\ gone' \subseteq gone
  BY DEF ConnectEnds, End
<1>3. OutcomesKept
  BY DEF OutboxInvariant, OutboxShape, OutcomesKept, Final, ConnectEnds, End
<1>4. \A u \in Tasks : pc'[u] \in Locking \cup Updating => pc'[u] = pc[u] /\ cmd'[u] = cmd[u]
  BY <1>1, TaskFacts DEF Locking, Updating, ConnectEnds, End
<1>5. \A u \in Tasks : pc[u] \in Updating => pc'[u] = pc[u]
  BY <1>1, TaskFacts DEF Updating, ConnectEnds, End
<1>6. \A u \in Tasks : At(u, "asked") /\ u \notin Signals => cmd'[u] = cmd[u]
  BY <1>1, TaskFacts DEF ConnectEnds, End
<1>7. \A u \in Tasks \ Reconcilers : (At(u, "asked")' => At(u, "asked")) /\ cmd'[u] = cmd[u]
  BY <1>1, TaskFacts DEF ConnectEnds, End
<1>8. \A u \in Signals : pc'[u] = pc[u]
  BY <1>1, TaskFacts DEF ConnectEnds, End
<1> QED BY <1>2, <1>3, <1>4, <1>5, <1>6, <1>7, <1>8, Quiet

LEMMA HostAdmitProven ==
    ASSUME NEW c \in Commands, OutboxInvariant, ProvenInvariant, HostAdmit(c)
    PROVE  ProvenInvariant'
<1>1. pc \in [Tasks -> Places] /\ cmd \in [Tasks -> Commands \cup {NoCommand}]
  BY DEF OutboxInvariant, OutboxShape
<1>2. UNCHANGED <<outbox, queue, turn, fence, want, down, proven, owed>> /\ gone' \subseteq gone
  BY DEF HostAdmit
<1>3. OutcomesKept
  BY DEF OutboxInvariant, OutboxShape, OutcomesKept, Final, HostAdmit
<1>4. \A u \in Tasks : pc'[u] \in Locking \cup Updating => pc'[u] = pc[u] /\ cmd'[u] = cmd[u]
  BY <1>1, TaskFacts DEF Locking, Updating, HostAdmit
<1>5. \A u \in Tasks : pc[u] \in Updating => pc'[u] = pc[u]
  BY <1>1, TaskFacts DEF Updating, HostAdmit
<1>6. \A u \in Tasks : At(u, "asked") /\ u \notin Signals => cmd'[u] = cmd[u]
  BY <1>1, TaskFacts DEF HostAdmit
<1>7. \A u \in Tasks \ Reconcilers : (At(u, "asked")' => At(u, "asked")) /\ cmd'[u] = cmd[u]
  BY <1>1, TaskFacts DEF HostAdmit
<1>8. \A u \in Signals : pc'[u] = pc[u]
  BY <1>1, TaskFacts DEF HostAdmit
<1> QED BY <1>2, <1>3, <1>4, <1>5, <1>6, <1>7, <1>8, Quiet

LEMMA HostMissesProven ==
    ASSUME NEW c \in Commands, OutboxInvariant, ProvenInvariant, HostMisses(c)
    PROVE  ProvenInvariant'
<1>1. pc \in [Tasks -> Places] /\ cmd \in [Tasks -> Commands \cup {NoCommand}]
  BY DEF OutboxInvariant, OutboxShape
<1>2. UNCHANGED <<outbox, queue, turn, fence, want, down, proven, owed>> /\ gone' \subseteq gone
  BY DEF HostMisses
<1>3. OutcomesKept
  BY DEF OutboxInvariant, OutboxShape, OutcomesKept, Final, HostMisses
<1>4. \A u \in Tasks : pc'[u] \in Locking \cup Updating => pc'[u] = pc[u] /\ cmd'[u] = cmd[u]
  BY <1>1, TaskFacts DEF Locking, Updating, HostMisses
<1>5. \A u \in Tasks : pc[u] \in Updating => pc'[u] = pc[u]
  BY <1>1, TaskFacts DEF Updating, HostMisses
<1>6. \A u \in Tasks : At(u, "asked") /\ u \notin Signals => cmd'[u] = cmd[u]
  BY <1>1, TaskFacts DEF HostMisses
<1>7. \A u \in Tasks \ Reconcilers : (At(u, "asked")' => At(u, "asked")) /\ cmd'[u] = cmd[u]
  BY <1>1, TaskFacts DEF HostMisses
<1>8. \A u \in Signals : pc'[u] = pc[u]
  BY <1>1, TaskFacts DEF HostMisses
<1> QED BY <1>2, <1>3, <1>4, <1>5, <1>6, <1>7, <1>8, Quiet

LEMMA HostRunProven ==
    ASSUME NEW c \in Commands, OutboxInvariant, ProvenInvariant, HostRun(c)
    PROVE  ProvenInvariant'
<1>1. pc \in [Tasks -> Places] /\ cmd \in [Tasks -> Commands \cup {NoCommand}]
  BY DEF OutboxInvariant, OutboxShape
<1>2. UNCHANGED <<outbox, queue, turn, fence, want, down, proven, owed>> /\ gone' \subseteq gone
  BY DEF HostRun
<1>3. OutcomesKept
  BY DEF OutboxInvariant, OutboxShape, OutcomesKept, Final, HostRun
<1>4. \A u \in Tasks : pc'[u] \in Locking \cup Updating => pc'[u] = pc[u] /\ cmd'[u] = cmd[u]
  BY <1>1, TaskFacts DEF Locking, Updating, HostRun
<1>5. \A u \in Tasks : pc[u] \in Updating => pc'[u] = pc[u]
  BY <1>1, TaskFacts DEF Updating, HostRun
<1>6. \A u \in Tasks : At(u, "asked") /\ u \notin Signals => cmd'[u] = cmd[u]
  BY <1>1, TaskFacts DEF HostRun
<1>7. \A u \in Tasks \ Reconcilers : (At(u, "asked")' => At(u, "asked")) /\ cmd'[u] = cmd[u]
  BY <1>1, TaskFacts DEF HostRun
<1>8. \A u \in Signals : pc'[u] = pc[u]
  BY <1>1, TaskFacts DEF HostRun
<1> QED BY <1>2, <1>3, <1>4, <1>5, <1>6, <1>7, <1>8, Quiet

-----------------------------------------------------------------------------
(* The host.                                                                *)

(* A step of the host, but for what it sends.                               *)
LEMMA HostQuiet ==
    ASSUME OutboxInvariant, ProvenInvariant, OutcomesKept,
           UNCHANGED <<outbox, pc, cmd, want, gone, queue, turn, fence, proven>>
    PROVE  LocksHeld' /\ QueueExact' /\ RemovalsKnown' /\ PutsOvertaken'
<1>1. LocksHeld' /\ QueueExact'
  BY DEF ProvenInvariant, LocksHeld, QueueExact
<1>2. RemovalsKnown'
  BY TaskFacts, KnownFrame DEF ProvenInvariant, Proving, Submitting
<1>3. PutsOvertaken'
  BY TaskFacts, OvertakenFrame DEF ProvenInvariant, Before
<1> QED BY <1>1, <1>2, <1>3 DEF ProvenInvariant

(* One message more, to the end of those on their way.                      *)
LEMMA LastSent ==
    ASSUME OutboxInvariant, ProvenInvariant, NEW m \in Message, down' = Append(down, m),
           UNCHANGED <<pc, cmd, proven, status>>,
           m.to \in Reconcilers => m.got = status[cmd[m.to]]
    PROVE  ProofsLast'
<1>1. /\ down \in Seq(Message) /\ Len(down) \in Nat /\ Len(down') = Len(down) + 1
      /\ \A i \in 1..Len(down') : down'[i] = IF i = Len(down) + 1 THEN m ELSE down[i]
  BY SeqFacts DEF OutboxInvariant, OutboxShape
<1>2. \A d, c : (Proves(d, c)' <=> Proves(d, c)) /\ (Agrees(d, c)' <=> Agrees(d, c))
  BY DEF Proves, Agrees
<1>3. \A c : Proved(c)' <=> Proved(c)
  BY DEF Proved, Proving
<1>4. ASSUME NEW c \in Prompts, status[c] = "completed" PROVE Agrees(m, c)
  BY <1>4 DEF Agrees
<1>5. ASSUME NEW c \in Prompts, NEW i \in 1..Len(down), Proves(down[i], c) PROVE status[c] = "completed"
  <2>1. Truthful(down[i]) /\ down[i].to \in Tasks
    BY Messages DEF OutboxInvariant, AnswersTrue
  <2> QED BY <1>5, <2>1, TaskFacts DEF Proves, Truthful, Final
<1>6. ASSUME NEW c \in Prompts, Proved(c) PROVE status[c] = "completed"
  BY <1>6 DEF ProvenInvariant, RemovalsKnown, Proved, Proving, OutboxInvariant, RemovalsEarned, Earned
<1>7. ASSUME NEW c \in Prompts, NEW i \in 1..Len(down'), Proves(down'[i], c), NEW j \in i + 1..Len(down')
      PROVE  Agrees(down'[j], c)
  <2>1. i \in 1..Len(down) /\ down'[i] = down[i] BY <1>1, <1>7
  <2>2. CASE j = Len(down) + 1 BY <1>1, <1>4, <1>5, <1>7, <2>1, <2>2
  <2>3. CASE j # Len(down) + 1
    <3>1. j \in i + 1..Len(down) /\ down'[j] = down[j] BY <1>1, <2>1, <2>3
    <3> QED BY <1>7, <2>1, <3>1 DEF ProvenInvariant, ProofsLast
  <2> QED BY <2>2, <2>3
<1>8. ASSUME NEW c \in Prompts, Proved(c), NEW j \in 1..Len(down') PROVE Agrees(down'[j], c)
  <2>1. CASE j = Len(down) + 1 BY <1>1, <1>4, <1>6, <1>8, <2>1
  <2>2. CASE j # Len(down) + 1
    <3>1. j \in 1..Len(down) /\ down'[j] = down[j] BY <1>1, <2>2
    <3> QED BY <1>8, <3>1 DEF ProvenInvariant, ProofsLast
  <2> QED BY <2>1, <2>2
<1> QED BY <1>2, <1>3, <1>7, <1>8 DEF ProofsLast

LEMMA AnswerSent ==
    ASSUME OutboxInvariant, ProvenInvariant, NEW m \in Message, down' = Append(down, m),
           UNCHANGED <<pc, status, owed>>, m.to \in asked
    PROVE  SignalledOnce'
<1>1. /\ down \in Seq(Message) /\ Len(down) \in Nat /\ Len(down') = Len(down) + 1
      /\ \A i \in 1..Len(down') : down'[i] = IF i = Len(down) + 1 THEN m ELSE down[i]
  BY SeqFacts DEF OutboxInvariant, OutboxShape
<1>2. m.to \notin Signals
  BY DEF OutboxInvariant, OutboxShape
<1>3. \A i \in 1..Len(down) : down[i].to # m.to
  <2>1. ASSUME NEW i \in 1..Len(down), down[i].to = m.to PROVE FALSE
    BY <1>2, <2>1 DEF OutboxInvariant, AnswersTrue, Truthful
  <2> QED BY <2>1
<1>4. \A i, j \in 1..Len(down') : down'[i].to = down'[j].to => i = j
  BY <1>1, <1>3 DEF ProvenInvariant, SignalledOnce
<1>5. \A i \in 1..Len(down') : i = Len(down) + 1 \/ i \in 1..Len(down)
  BY <1>1
<1>6. \A i \in 1..Len(down') : down'[i].to \in Signals => At(down'[i].to, "idle")
  BY <1>1, <1>2, <1>5 DEF ProvenInvariant, SignalledOnce
<1>7. \A c \in owed : \A i \in 1..Len(down') : down'[i].to # Signal(c)
  <2>1. \A c \in owed : c \in Prompts /\ Signal(c) # m.to
    BY <1>2, TaskFacts DEF OutboxInvariant, OutboxShape
  <2> QED BY <1>1, <1>5, <2>1 DEF ProvenInvariant, SignalledOnce
<1> QED BY <1>4, <1>6, <1>7 DEF ProvenInvariant, SignalledOnce

LEMMA HostFinishProven ==
    ASSUME NEW c \in Commands, OutboxInvariant, ProvenInvariant, HostFinish(c)
    PROVE  ProvenInvariant'
<1>1. OutcomesKept /\ (c \in Prompts => status[c] # "completed")
  BY DEF OutboxInvariant, OutboxShape, OutcomesKept, HostFinish, Outcomes, Final
<1>2. LocksHeld' /\ QueueExact' /\ RemovalsKnown' /\ PutsOvertaken'
  BY <1>1, HostQuiet DEF HostFinish
<1>3. ProofsLast'
  BY LastFrame DEF ProvenInvariant, HostFinish, Proved, Proving
<1>4. owed' \subseteq owed \/ (c \in Prompts /\ owed' = owed \cup {c})
  BY DEF HostFinish, IsProof
<1>5. ASSUME c \in Prompts
      PROVE  At(Signal(c), "idle") /\ \A i \in 1..Len(down) : down[i].to # Signal(c)
  <2>1. ASSUME NEW i \in 1..Len(down), down[i].to = Signal(c) PROVE FALSE
    BY <1>1, <1>5, <2>1, TaskFacts DEF OutboxInvariant, AnswersTrue, Truthful
  <2> QED BY <1>1, <1>5, <2>1 DEF ProvenInvariant, SignalledOnce
<1>6. /\ UNCHANGED <<pc, down>>
      /\ \A d \in Prompts : status[d] = "completed" => status'[d] = "completed"
  BY <1>1 DEF HostFinish, OutcomesKept, Final
<1>7. SignalledOnce'
  BY <1>4, <1>5, <1>6 DEF ProvenInvariant, SignalledOnce
<1> QED BY <1>2, <1>3, <1>7 DEF ProvenInvariant

LEMMA HostAnswerProven ==
    ASSUME NEW t \in Tasks, OutboxInvariant, ProvenInvariant, HostAnswer(t)
    PROVE  ProvenInvariant'
<1>1. t \in asked /\ t \notin Signals /\ cmd[t] \in Commands
  BY DEF OutboxInvariant, OutboxShape, Connected, Reservations, Working, HostAnswer
<1>2. PICK got \in Answers(t) : down' = Append(down, [to |-> t, got |-> got])
  BY DEF HostAnswer
<1>3. got \in Statuses /\ (t \notin Submissions => got = status[cmd[t]])
  BY <1>1, <1>2 DEF OutboxInvariant, OutboxShape, Answers, Statuses, Final
<1> DEFINE m == [to |-> t, got |-> got]
<1>4. m \in Message /\ m.to = t /\ m.got = got BY <1>3 DEF Message
<1>5. down' = Append(down, m) BY <1>2
<1> HIDE DEF m
<1>6. LocksHeld' /\ QueueExact' /\ RemovalsKnown' /\ PutsOvertaken'
  BY HostQuiet DEF HostAnswer, OutcomesKept
<1>7. SignalledOnce'
  BY <1>1, <1>4, <1>5, AnswerSent DEF HostAnswer
<1>8. ProofsLast'
  BY <1>3, <1>4, <1>5, TaskFacts, LastSent DEF HostAnswer
<1> QED BY <1>6, <1>7, <1>8 DEF ProvenInvariant

LEMMA HostRepeatsProven ==
    ASSUME NEW c \in Commands, OutboxInvariant, ProvenInvariant, HostRepeats(c)
    PROVE  ProvenInvariant'
<1> DEFINE m == [to |-> Submission(c), got |-> status[c]]
<1>1. m \in Message /\ m.to = Submission(c) /\ m.to \notin Reconcilers
  BY TaskFacts DEF Message, OutboxInvariant, OutboxShape
<1>2. (m.to \in asked /\ down' = Append(down, m)) \/ down' = down
  BY DEF HostRepeats
<1> HIDE DEF m
<1>3. LocksHeld' /\ QueueExact' /\ RemovalsKnown' /\ PutsOvertaken'
  BY HostQuiet DEF HostRepeats, OutcomesKept
<1>4. CASE down' = down
  <2>1. SignalledOnce' BY <1>4, SignalsFrame DEF ProvenInvariant, HostRepeats, OutcomesKept
  <2>2. ProofsLast' BY <1>4, LastFrame DEF ProvenInvariant, HostRepeats, Proved, Proving
  <2> QED BY <1>3, <2>1, <2>2 DEF ProvenInvariant
<1>5. CASE m.to \in asked /\ down' = Append(down, m)
  <2>1. SignalledOnce' BY <1>1, <1>5, AnswerSent DEF HostRepeats
  <2>2. ProofsLast' BY <1>1, <1>5, LastSent DEF HostRepeats
  <2> QED BY <1>3, <2>1, <2>2 DEF ProvenInvariant
<1> QED BY <1>2, <1>4, <1>5

LEMMA HostSignalProven ==
    ASSUME NEW c \in Prompts, OutboxInvariant, ProvenInvariant, HostSignal(c)
    PROVE  ProvenInvariant'
<1> DEFINE m == [to |-> Signal(c), got |-> "completed"]
<1>1. m \in Message /\ m.to = Signal(c) /\ m.to \notin Reconcilers /\ down' = Append(down, m)
  BY TaskFacts DEF Message, Statuses, Final, HostSignal
<1> HIDE DEF m
<1>2. LocksHeld' /\ QueueExact' /\ RemovalsKnown' /\ PutsOvertaken'
  BY HostQuiet DEF HostSignal, OutcomesKept
<1>3. ProofsLast'
  BY <1>1, LastSent DEF HostSignal
<1>4. /\ down \in Seq(Message) /\ Len(down) \in Nat /\ Len(down') = Len(down) + 1
      /\ \A i \in 1..Len(down') : down'[i] = IF i = Len(down) + 1 THEN m ELSE down[i]
  BY <1>1, SeqFacts DEF OutboxInvariant, OutboxShape
<1>5. /\ c \in owed /\ owed' = owed \ {c} /\ UNCHANGED <<pc, status>>
      /\ At(Signal(c), "idle") /\ \A i \in 1..Len(down) : down[i].to # Signal(c)
  BY DEF ProvenInvariant, SignalledOnce, HostSignal
<1>6. \A i, j \in 1..Len(down') : down'[i].to = down'[j].to => i = j
  BY <1>1, <1>4, <1>5 DEF ProvenInvariant, SignalledOnce
<1>7. \A i \in 1..Len(down') : down'[i].to \in Signals => At(down'[i].to, "idle")
  BY <1>1, <1>4, <1>5 DEF ProvenInvariant, SignalledOnce
<1>8. ASSUME NEW d \in owed' PROVE At(Signal(d), "idle") /\ \A i \in 1..Len(down') : down'[i].to # Signal(d)
  <2>1. d \in Prompts /\ d \in owed /\ Signal(d) # Signal(c)
    BY <1>5, <1>8, TaskFacts DEF OutboxInvariant, OutboxShape
  <2>2. \A i \in 1..Len(down) : down[i].to # Signal(d)
    BY <2>1 DEF ProvenInvariant, SignalledOnce
  <2> QED BY <1>1, <1>4, <2>1, <2>2 DEF ProvenInvariant, SignalledOnce
<1>9. SignalledOnce'
  BY <1>5, <1>6, <1>7, <1>8 DEF ProvenInvariant, SignalledOnce
<1> QED BY <1>2, <1>3, <1>9 DEF ProvenInvariant

(* A step of one task is not heard of before its time, and disturbs no      *)
(* removal and no update that was overtaken.                                *)
LEMMA MovesHeard ==
    ASSUME OutboxInvariant, ProvenInvariant, NEW t \in Tasks, OnlyTask(t),
           UNCHANGED <<cmd, status, down, owed>>,
           proven' \subseteq proven \cup {c \in Prompts : Proving(t) /\ cmd[t] = c},
           t \in Signals => ~At(t, "idle"),
           Proving(t)' => Proving(t)
    PROVE  SignalledOnce' /\ ProofsLast'
<1>1. \A c \in Prompts : At(Signal(c), "idle") => At(Signal(c), "idle")'
  BY TaskFacts DEF OnlyTask
<1>2. SignalledOnce'
  BY <1>1, SignalsFrame DEF ProvenInvariant, OutcomesKept
<1>3. \A u \in Tasks : Proving(u)' => Proving(u)
  BY DEF OnlyTask, Proving
<1>4. \A c \in Prompts : Proved(c)' => Proved(c)
  BY <1>3 DEF Proved
<1> QED BY <1>2, <1>4, LastFrame DEF ProvenInvariant

LEMMA MovesKnown ==
    ASSUME OutboxInvariant, ProvenInvariant, NEW t \in Tasks, OnlyTask(t),
           UNCHANGED <<cmd, status, proven>>,
           \A c \in gone' : c \in gone \/ (c \in Prompts => status[c] = "failed"),
           Proving(t)' => Proving(t) \/ cmd[t] \in Prompts,
           At(t, "put")' => /\ ~At(t, "put")
                            /\ want'[t] = "none" /\ cmd[t] \in Prompts => status[cmd[t]] = "failed"
                            /\ want'[t] \in {"none", "hold"} \/ cmd[t] \notin proven,
           At(t, "write")' => t \in Submissions,
           \A u \in Tasks \ {t} : At(u, "write") /\ cmd[u] \in fence => cmd[u] \in fence',
           \A a, b : a # t /\ Before(queue, a, b) => Before(queue, a, b)',
           At(t, "write") => \A a : ~Before(queue, a, t),
           \A c \in proven : Submitting(c)' /\ c \notin fence' /\ outbox'[c] = "none" =>
               Submitting(c) /\ c \notin fence /\ outbox[c] = "none"
    PROVE  RemovalsKnown' /\ PutsOvertaken'
<1>1. \A u \in Tasks : Proving(u)' => cmd'[u] \in Prompts \/ (Proving(u) /\ cmd'[u] = cmd[u])
  BY DEF Proving, OnlyTask
<1>2. \A u \in Reconcilers : At(u, "put")' =>
               \/ pc'[u] = pc[u] /\ want'[u] = want[u] /\ cmd'[u] = cmd[u]
               \/ (want'[u] = "none" /\ cmd'[u] \in Prompts => status'[cmd'[u]] = "failed")
  BY TaskFacts DEF OnlyTask
<1>3. \A u \in Tasks \ Submissions : At(u, "write")' =>
               /\ At(u, "write") /\ want'[u] = want[u] /\ cmd'[u] = cmd[u]
               /\ (cmd[u] \in fence => cmd[u] \in fence')
  BY DEF OnlyTask
<1>4. RemovalsKnown'
  BY <1>1, <1>2, <1>3, KnownFrame DEF ProvenInvariant, OutcomesKept
<1>5. \A u \in Reconcilers :
               At(u, "put")' /\ want'[u] \notin {"none", "hold"} /\ cmd'[u] \in proven' =>
                   pc'[u] = pc[u] /\ want'[u] = want[u] /\ cmd'[u] = cmd[u] /\ cmd[u] \in proven
  BY TaskFacts DEF OnlyTask
<1>6. ASSUME NEW a \in Tasks, NEW b \in Tasks, At(a, "put"), At(b, "write"), cmd[b] \in fence,
             Before(queue, a, b), At(a, "put")'
      PROVE  At(b, "write")' /\ cmd'[b] = cmd[b] /\ cmd[b] \in fence' /\ Before(queue, a, b)'
  <2>1. a # t BY <1>6
  <2>2. b # t BY <1>6
  <2> QED BY <1>6, <2>1, <2>2 DEF OnlyTask
<1>7. PutsOvertaken'
  BY <1>5, <1>6, OvertakenFrame DEF ProvenInvariant
<1> QED BY <1>4, <1>7

LEMMA ShapeFacts ==
    ASSUME OutboxInvariant
    PROVE  /\ pc \in [Tasks -> Places] /\ want \in [Tasks -> Wants]
           /\ cmd \in [Tasks -> Commands \cup {NoCommand}]
           /\ outbox \in [Commands -> Entries]
  BY DEF OutboxInvariant, OutboxShape

LEMMA SubmissionFacts ==
    ASSUME OutboxInvariant, NEW c \in Commands
    PROVE  /\ Submission(c) \in Tasks /\ Submission(c) \in Submissions
           /\ Submission(c) \notin Reconcilers /\ Submission(c) \notin Signals
           /\ Submission(c) # Connecting /\ Submission(c) # Polling
           /\ cmd[Submission(c)] = c
           /\ pc \in [Tasks -> Places] /\ want \in [Tasks -> Wants]
           /\ cmd \in [Tasks -> Commands \cup {NoCommand}]
           /\ \A d \in Commands : Submission(d) = Submission(c) => d = c
  BY TaskFacts DEF OutboxInvariant, OutboxShape

-----------------------------------------------------------------------------
(* Submissions and signals.                                                 *)

LEMMA ReserveProven ==
    ASSUME NEW c \in Commands, OutboxInvariant, ProvenInvariant, Reserve(c)
    PROVE  ProvenInvariant'
<1> DEFINE t == Submission(c)
<1>1. /\ OnlyTask(t) /\ UNCHANGED <<cmd, status, down, owed, proven, gone, turn, fence, outbox>>
      /\ At(t, "reserving") /\ pc'[t] \in {"first", "idle"}
      /\ \A u \in Tasks \ {t} : pc'[u] = pc[u]
  BY SubmissionFacts DEF Reserve, OnlyTask
<1>2. \/ pc'[t] = "first" /\ queue' = Append(queue, t)
      \/ pc'[t] = "idle" /\ queue' = queue
  BY SubmissionFacts DEF Reserve
<1>3. QueueExact' /\ \A a, b : Before(queue, a, b) => Before(queue, a, b)'
  <2>1. t \in Tasks BY SubmissionFacts
  <2> HIDE DEF t
  <2> QED BY <1>1, <1>2, <2>1, QueueStays, QueueJoined DEF ProvenInvariant, Updating
<1>4. LocksHeld'
  <2>1. \A d \in Commands : Keeps(turn[d], turn'[d], t) /\ turn' \in [Commands -> Seq(Tasks)]
    BY <1>1, SubmissionFacts, TurnMoves DEF ProvenInvariant
  <2>2. \A u \in Tasks : pc'[u] \in Locking => u # t /\ pc'[u] = pc[u] /\ cmd'[u] = cmd[u]
    BY <1>1 DEF Locking
  <2> QED BY <2>1, <2>2, SubmissionFacts, LocksFrame DEF ProvenInvariant
<1>5. SignalledOnce' /\ ProofsLast'
  BY <1>1, SubmissionFacts, MovesHeard DEF Proving
<1>6. RemovalsKnown' /\ PutsOvertaken'
  <2>1. \A d \in Commands : Submitting(d)' => Submitting(d)
    BY <1>1, SubmissionFacts DEF Submitting
  <2> QED BY <1>1, <1>3, <2>1, SubmissionFacts, MovesKnown
          DEF Proving, ProvenInvariant, RemovalsKnown, Commands
<1> QED BY <1>3, <1>4, <1>5, <1>6 DEF ProvenInvariant

LEMMA FirstWrittenProven ==
    ASSUME NEW c \in Commands, OutboxInvariant, ProvenInvariant, FirstWritten(c)
    PROVE  ProvenInvariant'
<1> DEFINE t == Submission(c)
<1>1. /\ OnlyTask(t) /\ UNCHANGED <<cmd, status, down, owed, proven, gone, fence>>
      /\ At(t, "first") /\ pc'[t] \in {"idle", "asked", "fail"}
      /\ \A u \in Tasks \ {t} : pc'[u] = pc[u]
      /\ queue # <<>> /\ Head(queue) = t /\ queue' = Tail(queue)
  BY SubmissionFacts DEF FirstWritten, Write, OnlyTask
<1>2. \/ pc'[t] # "fail" /\ turn' = turn
      \/ turn' = [turn EXCEPT ![c] = Append(@, t)]
  BY SubmissionFacts DEF FirstWritten
<1>3. /\ QueueExact' /\ \A a, b : a # t /\ Before(queue, a, b) => Before(queue, a, b)'
  BY <1>1, SubmissionFacts, QueueLeft DEF ProvenInvariant, Updating
<1>4. LocksHeld'
  <2>1. /\ turn' \in [Commands -> Seq(Tasks)]
        /\ \A d \in Commands : Keeps(turn[d], turn'[d], t)
        /\ pc'[t] = "fail" => \E i \in 1..Len(turn'[c]) : turn'[c][i] = t
    <3>1. t \in Tasks BY SubmissionFacts
    <3> HIDE DEF t
    <3>2. CASE pc'[t] # "fail" /\ turn' = turn BY <3>1, <3>2, TurnMoves DEF ProvenInvariant
    <3>3. CASE turn' = [turn EXCEPT ![c] = Append(@, t)] BY <3>1, <3>3, TurnMoves DEF ProvenInvariant
    <3> QED BY <1>2, <3>2, <3>3
  <2>2. ASSUME NEW u \in Tasks, pc'[u] \in Locking
        PROVE  \/ u # t /\ pc'[u] = pc[u] /\ cmd'[u] = cmd[u]
               \/ InTurn(u)'
    BY <1>1, <2>1, <2>2, SubmissionFacts DEF Locking, InTurn
  <2> QED BY <2>1, <2>2, SubmissionFacts, LocksFrame DEF ProvenInvariant
<1>5. SignalledOnce' /\ ProofsLast'
  BY <1>1, SubmissionFacts, MovesHeard DEF Proving
<1>6. RemovalsKnown' /\ PutsOvertaken'
  <2>1. \A d \in Commands : d # c => outbox'[d] = outbox[d] /\ (Submitting(d)' <=> Submitting(d))
    BY <1>1, SubmissionFacts DEF Submitting, FirstWritten, Write
  <2>2. c \notin fence => outbox'[c] # "none"
    BY DEF FirstWritten, Write, Updated
  <2>3. proven \subseteq Commands BY DEF ProvenInvariant, RemovalsKnown, Commands
  <2>4. \A d \in proven : Submitting(d)' /\ d \notin fence' /\ outbox'[d] = "none" =>
               Submitting(d) /\ d \notin fence /\ outbox[d] = "none"
    BY <1>1, <2>1, <2>2, <2>3
  <2> QED BY <1>1, <1>3, <2>4, SubmissionFacts, MovesKnown DEF Proving
<1> QED BY <1>3, <1>4, <1>5, <1>6 DEF ProvenInvariant

(* A lock's holder goes on to write, or leaves.                             *)
LEMMA HolderMoves ==
    ASSUME OutboxInvariant, ProvenInvariant, NEW t \in Tasks, OnlyTask(t), UNCHANGED cmd,
           pc[t] \in Locking, Head(turn[cmd[t]]) = t,
           \/ turn' = turn
           \/ pc'[t] \notin Locking /\ turn' = [turn EXCEPT ![cmd[t]] = Tail(@)]
           \/ pc'[t] # "write" /\ turn' = [turn EXCEPT ![cmd[t]] = Append(Tail(@), t)]
    PROVE  LocksHeld'
<1> DEFINE d == cmd[t]
<1>1. /\ d \in Commands /\ turn[d] # <<>> /\ turn[d][1] = t
      /\ \E i \in 1..Len(turn[d]) : turn[d][i] = t
  BY FirstInTurn DEF ProvenInvariant, LocksHeld
<1>2. /\ turn' \in [Commands -> Seq(Tasks)] /\ \A c \in Commands : Keeps(turn[c], turn'[c], t)
  BY <1>1, TurnMoves DEF ProvenInvariant
<1>3. turn' = [turn EXCEPT ![d] = Append(Tail(@), t)] => \E i \in 1..Len(turn'[d]) : turn'[d][i] = t
  <2> HIDE DEF d
  <2>1. Head(turn[d]) = t BY <1>1, FirstInTurn DEF d, ProvenInvariant
  <2> QED BY <1>1, <2>1, TurnMoves DEF ProvenInvariant
<1>4. pc'[t] \in Locking => InTurn(t)'
  BY <1>1, <1>3 DEF InTurn
<1>5. \A u \in Tasks : pc'[u] \in Locking =>
               \/ u # t /\ pc'[u] = pc[u] /\ cmd'[u] = cmd[u]
               \/ InTurn(u)'
  BY <1>4 DEF OnlyTask
<1> QED BY <1>2, <1>5, LocksFrame DEF ProvenInvariant

LEMMA SettleProven ==
    ASSUME NEW c \in Commands, OutboxInvariant, ProvenInvariant, Settle(c)
    PROVE  ProvenInvariant'
<1> DEFINE t == Submission(c)
<1>1. /\ OnlyTask(t) /\ UNCHANGED <<cmd, status, down, owed, proven, gone, outbox>>
      /\ At(t, "settle") /\ Head(turn[cmd[t]]) = t
      /\ \A u \in Tasks \ {t} : pc'[u] = pc[u]
  BY SubmissionFacts DEF Settle, OnlyTask, Leave
<1>2. \/ pc'[t] = "idle" /\ Leave(t) /\ queue' = queue
      \/ pc'[t] = "write" /\ turn' = turn /\ queue' = Append(queue, t) /\ fence' = fence /\ c \notin fence
  BY SubmissionFacts DEF Settle
<1>3. /\ QueueExact' /\ \A a, b : Before(queue, a, b) => Before(queue, a, b)'
  <2>1. t \in Tasks BY SubmissionFacts
  <2> HIDE DEF t
  <2> QED BY <1>1, <1>2, <2>1, QueueStays, QueueJoined DEF ProvenInvariant, Updating
<1>4. LocksHeld'
  BY <1>1, <1>2, SubmissionFacts, HolderMoves DEF Leave, Locking
<1>5. SignalledOnce' /\ ProofsLast'
  BY <1>1, <1>2, SubmissionFacts, MovesHeard DEF Proving
<1>6. RemovalsKnown' /\ PutsOvertaken'
  <2>1. /\ \A u \in Tasks \ {t} : At(u, "write") /\ cmd[u] \in fence => cmd[u] \in fence'
        /\ \A d \in fence : Submitting(d) /\ t # Submission(d) => d \in fence'
        /\ fence' \subseteq fence
    BY <1>1, <1>2, SubmissionFacts, LeaveKeeps DEF Locking, ProvenInvariant
  <2>2. \A d \in Commands : d # c => (Submitting(d)' <=> Submitting(d))
    BY <1>1, SubmissionFacts DEF Submitting
  <2>3. Submitting(c)' /\ c \notin fence' => Submitting(c) /\ c \notin fence
    BY <1>1, <1>2, SubmissionFacts DEF Submitting
  <2>4. \A d \in proven : Submitting(d)' /\ d \notin fence' /\ outbox'[d] = "none" =>
               Submitting(d) /\ d \notin fence /\ outbox[d] = "none"
    BY <1>1, <2>1, <2>2, <2>3, SubmissionFacts DEF ProvenInvariant, RemovalsKnown, Commands
  <2> QED BY <1>1, <1>2, <1>3, <2>1, <2>4, SubmissionFacts, MovesKnown DEF Proving
<1> QED BY <1>3, <1>4, <1>5, <1>6 DEF ProvenInvariant

LEMMA FailProven ==
    ASSUME NEW c \in Commands, OutboxInvariant, ProvenInvariant, Fail(c)
    PROVE  ProvenInvariant'
<1> DEFINE t == Submission(c)
<1>1. /\ OnlyTask(t) /\ UNCHANGED <<cmd, status, down, owed, proven, gone, outbox>>
      /\ At(t, "fail") /\ Head(turn[cmd[t]]) = t
      /\ \A u \in Tasks \ {t} : pc'[u] = pc[u]
  BY SubmissionFacts DEF Fail, OnlyTask, Leave
<1>2. \/ pc'[t] = "idle" /\ Leave(t) /\ queue' = queue
      \/ pc'[t] = "write" /\ turn' = turn /\ queue' = Append(queue, t) /\ fence' = fence /\ c \notin fence
  BY SubmissionFacts DEF Fail
<1>3. /\ QueueExact' /\ \A a, b : Before(queue, a, b) => Before(queue, a, b)'
  <2>1. t \in Tasks BY SubmissionFacts
  <2> HIDE DEF t
  <2> QED BY <1>1, <1>2, <2>1, QueueStays, QueueJoined DEF ProvenInvariant, Updating
<1>4. LocksHeld'
  BY <1>1, <1>2, SubmissionFacts, HolderMoves DEF Leave, Locking
<1>5. SignalledOnce' /\ ProofsLast'
  BY <1>1, <1>2, SubmissionFacts, MovesHeard DEF Proving
<1>6. RemovalsKnown' /\ PutsOvertaken'
  <2>1. /\ \A u \in Tasks \ {t} : At(u, "write") /\ cmd[u] \in fence => cmd[u] \in fence'
        /\ \A d \in fence : Submitting(d) /\ t # Submission(d) => d \in fence'
        /\ fence' \subseteq fence
    BY <1>1, <1>2, SubmissionFacts, LeaveKeeps DEF Locking, ProvenInvariant
  <2>2. \A d \in Commands : d # c => (Submitting(d)' <=> Submitting(d))
    BY <1>1, SubmissionFacts DEF Submitting
  <2>3. Submitting(c)' /\ c \notin fence' => Submitting(c) /\ c \notin fence
    BY <1>1, <1>2, SubmissionFacts DEF Submitting
  <2>4. \A d \in proven : Submitting(d)' /\ d \notin fence' /\ outbox'[d] = "none" =>
               Submitting(d) /\ d \notin fence /\ outbox[d] = "none"
    BY <1>1, <2>1, <2>2, <2>3, SubmissionFacts DEF ProvenInvariant, RemovalsKnown, Commands
  <2> QED BY <1>1, <1>2, <1>3, <2>1, <2>4, SubmissionFacts, MovesKnown DEF Proving
<1> QED BY <1>3, <1>4, <1>5, <1>6 DEF ProvenInvariant

LEMMA SignalReadProven ==
    ASSUME NEW c \in Prompts, OutboxInvariant, ProvenInvariant, SignalRead(c)
    PROVE  ProvenInvariant'
<1> DEFINE t == Signal(c)
<1>0. t \in Tasks /\ t \in Signals /\ t \notin Submissions /\ t \notin Reconcilers /\ c \in Commands /\ cmd[t] = c
  BY TaskFacts DEF OutboxInvariant, OutboxShape
<1>1. /\ OnlyTask(t) /\ UNCHANGED <<cmd, status, down, owed, proven, gone, outbox, fence, queue>>
      /\ At(t, "reading") /\ pc'[t] \in {"idle", "commit"}
      /\ \A u \in Tasks \ {t} : pc'[u] = pc[u]
  BY <1>0 DEF SignalRead, OnlyTask, OutboxInvariant, OutboxShape
<1>2. \/ pc'[t] = "idle" /\ turn' = turn
      \/ turn' = [turn EXCEPT ![c] = Append(@, t)]
  BY <1>0 DEF SignalRead, OutboxInvariant, OutboxShape
<1>3. QueueExact' /\ \A a, b : Before(queue, a, b) => Before(queue, a, b)'
  BY <1>0, <1>1, QueueStays DEF ProvenInvariant, Updating
<1>4. LocksHeld'
  <2>1. /\ turn' \in [Commands -> Seq(Tasks)]
        /\ \A d \in Commands : Keeps(turn[d], turn'[d], t)
        /\ pc'[t] = "commit" => \E i \in 1..Len(turn'[c]) : turn'[c][i] = t
    <3> HIDE DEF t
    <3>2. CASE pc'[t] = "idle" /\ turn' = turn BY <1>0, <3>2, TurnMoves DEF ProvenInvariant
    <3>3. CASE turn' = [turn EXCEPT ![c] = Append(@, t)] BY <1>0, <3>3, TurnMoves DEF ProvenInvariant
    <3> QED BY <1>2, <3>2, <3>3
  <2>2. ASSUME NEW u \in Tasks, pc'[u] \in Locking
        PROVE  \/ u # t /\ pc'[u] = pc[u] /\ cmd'[u] = cmd[u]
               \/ InTurn(u)'
    BY <1>0, <1>1, <2>1, <2>2 DEF Locking, InTurn
  <2> QED BY <1>0, <2>1, <2>2, LocksFrame DEF ProvenInvariant
<1>5. SignalledOnce' /\ ProofsLast'
  BY <1>0, <1>1, MovesHeard DEF Proving
<1>6. RemovalsKnown' /\ PutsOvertaken'
  <2>1. \A d \in Commands : Submitting(d)' <=> Submitting(d)
    BY <1>0, <1>1, TaskFacts DEF Submitting
  <2> QED BY <1>0, <1>1, <1>3, <2>1, MovesKnown DEF Proving, ProvenInvariant, RemovalsKnown, Commands
<1> QED BY <1>3, <1>4, <1>5, <1>6 DEF ProvenInvariant

-----------------------------------------------------------------------------
(* Under the lock, and the updates of the file.                             *)

LEMMA CommitProven ==
    ASSUME NEW t \in Tasks, OutboxInvariant, ProvenInvariant, Commit(t)
    PROVE  ProvenInvariant'
<1>0. cmd[t] \in Prompts /\ cmd[t] \in Commands /\ status[cmd[t]] = "completed" /\ Proving(t)
  BY DEF ProvenInvariant, RemovalsKnown, Proving, Commands, OutboxInvariant, RemovalsEarned, Earned, Commit
<1>1. /\ OnlyTask(t) /\ UNCHANGED <<cmd, status, down, owed, gone, outbox, turn>>
      /\ At(t, "commit") /\ Head(turn[cmd[t]]) = t /\ pc'[t] = "write" /\ want'[t] = "none"
      /\ \A u \in Tasks \ {t} : pc'[u] = pc[u]
      /\ queue' = Append(queue, t)
      /\ fence' = fence \cup {cmd[t]} /\ proven' = proven \cup {cmd[t]}
  BY ShapeFacts DEF Commit, OnlyTask
<1>2. /\ QueueExact' /\ \A a, b : Before(queue, a, b) => Before(queue, a, b)'
      /\ \A a \in Tasks : pc[a] \in Updating => Before(queue, a, t)'
  BY <1>1, QueueJoined DEF ProvenInvariant, Updating
<1>3. LocksHeld'
  BY <1>1, HolderMoves DEF Locking
<1>4. SignalledOnce' /\ ProofsLast'
  BY <1>0, <1>1, MovesHeard DEF Proving
<1>5. RemovalsKnown'
  <2>1. \A u \in Tasks : Proving(u)' => Proving(u) /\ cmd'[u] = cmd[u]
    BY <1>1 DEF Proving
  <2>2. \A u \in Reconcilers : At(u, "put")' => pc'[u] = pc[u] /\ want'[u] = want[u] /\ cmd'[u] = cmd[u]
    BY <1>1, TaskFacts DEF OnlyTask
  <2>3. \A u \in Tasks \ Submissions : At(u, "write")' =>
               \/ At(u, "write") /\ want'[u] = want[u] /\ cmd'[u] = cmd[u]
                  /\ (cmd[u] \in fence => cmd[u] \in fence')
               \/ want'[u] = "none" /\ cmd'[u] \in fence'
    BY <1>1 DEF OnlyTask
  <2>4. \A c \in Commands : Submitting(c)' => Submitting(c)
    BY <1>1, SubmissionFacts DEF Submitting
  <2>5. \A c \in proven' : Submitting(c)' /\ c \notin fence' /\ outbox'[c] = "none" =>
               c \in proven /\ Submitting(c) /\ c \notin fence /\ outbox[c] = "none"
    BY <1>1, <2>4 DEF ProvenInvariant, RemovalsKnown, Commands
  <2> QED BY <1>0, <1>1, <2>1, <2>2, <2>3, <2>5, KnownFrame DEF ProvenInvariant, OutcomesKept
<1>6. ASSUME NEW a \in Reconcilers, At(a, "put")', want'[a] \notin {"none", "hold"}, cmd'[a] \in proven'
      PROVE  Overtaken(a)'
  <2>1. a \in Tasks /\ a # t /\ At(a, "put") /\ want[a] = want'[a] /\ cmd'[a] = cmd[a]
    BY <1>1, <1>6, TaskFacts DEF OnlyTask
  <2>2. CASE cmd[a] = cmd[t]
    <3>1. Before(queue, a, t)' BY <1>2, <2>1 DEF Updating
    <3> QED BY <1>1, <2>1, <2>2, <3>1 DEF Overtaken, Before
  <2>3. CASE cmd[a] # cmd[t]
    <3>1. Overtaken(a) BY <1>1, <1>6, <2>1, <2>3 DEF ProvenInvariant, PutsOvertaken
    <3>2. PICK u \in Tasks : At(u, "write") /\ cmd[u] = cmd[a] /\ cmd[u] \in fence /\ Before(queue, a, u)
      BY <3>1 DEF Overtaken, Before
    <3>3. u # t /\ Before(queue, a, u)' BY <1>1, <1>2, <3>2
    <3> QED BY <1>1, <2>1, <3>2, <3>3 DEF Overtaken, Before
  <2> QED BY <2>2, <2>3
<1>7. PutsOvertaken'
  BY <1>6 DEF PutsOvertaken
<1> QED BY <1>2, <1>3, <1>4, <1>5, <1>7 DEF ProvenInvariant

LEMMA CommitRepeatedProven ==
    ASSUME NEW t \in Tasks, OutboxInvariant, ProvenInvariant, CommitRepeated(t)
    PROVE  ProvenInvariant'
<1>1. /\ OnlyTask(t) /\ UNCHANGED <<cmd, status, down, owed, proven, gone, outbox, queue>>
      /\ At(t, "commit") /\ Head(turn[cmd[t]]) = t /\ pc'[t] \in {"next", "idle"} /\ Leave(t)
      /\ \A u \in Tasks \ {t} : pc'[u] = pc[u]
  BY ShapeFacts DEF CommitRepeated, Onward, OnlyTask
<1>2. QueueExact' /\ \A a, b : Before(queue, a, b) => Before(queue, a, b)'
  BY <1>1, QueueStays DEF ProvenInvariant, Updating
<1>3. LocksHeld'
  BY <1>1, HolderMoves DEF Leave, Locking
<1>4. SignalledOnce' /\ ProofsLast'
  BY <1>1, MovesHeard DEF Proving
<1>5. RemovalsKnown' /\ PutsOvertaken'
  <2>1. /\ \A u \in Tasks \ {t} : At(u, "write") /\ cmd[u] \in fence => cmd[u] \in fence'
        /\ \A d \in fence : Submitting(d) /\ t # Submission(d) => d \in fence'
        /\ fence' \subseteq fence
    BY <1>1, LeaveKeeps DEF Locking, ProvenInvariant
  <2>2. \A d \in Commands : Submitting(d)' => Submitting(d) /\ t # Submission(d)
    BY <1>1, SubmissionFacts DEF Submitting
  <2> QED BY <1>1, <1>2, <2>1, <2>2, MovesKnown DEF Proving, ProvenInvariant, RemovalsKnown, Commands
<1> QED BY <1>2, <1>3, <1>4, <1>5 DEF ProvenInvariant

LEMMA CommitSupersededProven ==
    ASSUME NEW t \in Tasks, OutboxInvariant, ProvenInvariant, CommitSuperseded(t)
    PROVE  ProvenInvariant'
<1>1. /\ OnlyTask(t) /\ UNCHANGED <<cmd, status, down, owed, proven, gone, outbox, queue>>
      /\ At(t, "commit") /\ Head(turn[cmd[t]]) = t
      /\ \A u \in Tasks \ {t} : pc'[u] = pc[u]
  BY ShapeFacts DEF CommitSuperseded, Onward, OnlyTask
<1>2. \/ t \in Submissions /\ pc'[t] = "fail" /\ fence' = fence
         /\ turn' = [turn EXCEPT ![cmd[t]] = Append(Tail(@), t)]
      \/ t \notin Submissions /\ pc'[t] \in {"next", "idle"} /\ Leave(t)
  BY ShapeFacts DEF CommitSuperseded, Onward
<1>3. QueueExact' /\ \A a, b : Before(queue, a, b) => Before(queue, a, b)'
  BY <1>1, <1>2, QueueStays DEF ProvenInvariant, Updating
<1>4. LocksHeld'
  BY <1>1, <1>2, HolderMoves DEF Leave, Locking
<1>5. SignalledOnce' /\ ProofsLast'
  BY <1>1, <1>2, MovesHeard DEF Proving
<1>6. RemovalsKnown' /\ PutsOvertaken'
  <2>1. /\ \A u \in Tasks \ {t} : At(u, "write") /\ cmd[u] \in fence => cmd[u] \in fence'
        /\ \A d \in fence : Submitting(d) /\ (t \in Submissions \/ t # Submission(d)) => d \in fence'
        /\ fence' \subseteq fence
    BY <1>1, <1>2, LeaveKeeps DEF Locking, ProvenInvariant
  <2>2. \A d \in Commands : Submitting(d)' => Submitting(d) /\ (t \in Submissions \/ t # Submission(d))
    BY <1>1, SubmissionFacts DEF Submitting
  <2> QED BY <1>1, <1>2, <1>3, <2>1, <2>2, MovesKnown DEF Proving, ProvenInvariant, RemovalsKnown, Commands
<1> QED BY <1>3, <1>4, <1>5, <1>6 DEF ProvenInvariant

LEMMA CommitHeldProven ==
    ASSUME OutboxInvariant, ProvenInvariant, CommitHeld
    PROVE  ProvenInvariant'
<1> DEFINE t == Connecting
<1>0. t \in Tasks /\ t \notin Submissions /\ t \notin Signals
  BY TaskFacts
<1>1. /\ OnlyTask(t) /\ UNCHANGED <<cmd, status, down, owed, proven, gone, outbox>>
      /\ At(t, "commit") /\ Head(turn[cmd[t]]) = t /\ pc'[t] = "put" /\ want'[t] = "hold" /\ Leave(t)
      /\ \A u \in Tasks \ {t} : pc'[u] = pc[u]
      /\ queue' = Append(queue, t)
  BY <1>0, ShapeFacts DEF CommitHeld, Ambiguous, OnlyTask
<1> HIDE DEF t
<1>2. QueueExact' /\ \A a, b : Before(queue, a, b) => Before(queue, a, b)'
  BY <1>0, <1>1, QueueJoined DEF ProvenInvariant, Updating
<1>3. LocksHeld'
  BY <1>0, <1>1, HolderMoves DEF Leave, Locking
<1>4. SignalledOnce' /\ ProofsLast'
  BY <1>0, <1>1, MovesHeard DEF Proving
<1>5. RemovalsKnown' /\ PutsOvertaken'
  <2>1. /\ \A u \in Tasks \ {t} : At(u, "write") /\ cmd[u] \in fence => cmd[u] \in fence'
        /\ \A d \in fence : Submitting(d) /\ t # Submission(d) => d \in fence'
        /\ fence' \subseteq fence
    BY <1>0, <1>1, LeaveKeeps DEF Locking, ProvenInvariant
  <2>2. \A d \in Commands : Submitting(d)' => Submitting(d) /\ t # Submission(d)
    BY <1>0, <1>1, SubmissionFacts DEF Submitting
  <2> QED BY <1>0, <1>1, <1>2, <2>1, <2>2, MovesKnown DEF Proving, ProvenInvariant, RemovalsKnown, Commands
<1> QED BY <1>2, <1>3, <1>4, <1>5 DEF ProvenInvariant

LEMMA LockedWrittenProven ==
    ASSUME NEW t \in Tasks, OutboxInvariant, ProvenInvariant, LockedWritten(t)
    PROVE  ProvenInvariant'
<1>1. /\ OnlyTask(t) /\ UNCHANGED <<cmd, status, down, owed, proven, gone>>
      /\ At(t, "write") /\ pc'[t] \in {"next", "idle"} /\ Leave(t)
      /\ \A u \in Tasks \ {t} : pc'[u] = pc[u]
      /\ queue # <<>> /\ Head(queue) = t /\ queue' = Tail(queue)
      /\ \A c \in Commands : c # cmd[t] => outbox'[c] = outbox[c]
  BY ShapeFacts DEF LockedWritten, Write, Onward, OnlyTask
<1>2. /\ QueueExact' /\ \A a, b : a # t /\ Before(queue, a, b) => Before(queue, a, b)'
      /\ \A a : ~Before(queue, a, t)
  BY <1>1, QueueLeft DEF ProvenInvariant, Updating
<1>a. Head(turn[cmd[t]]) = t /\ cmd[t] \in Commands
  BY <1>1, FirstInTurn DEF ProvenInvariant, Locking
<1>3. LocksHeld'
  BY <1>1, <1>a, HolderMoves DEF Leave, Locking
<1>4. SignalledOnce' /\ ProofsLast'
  BY <1>1, MovesHeard DEF Proving
<1>5. RemovalsKnown' /\ PutsOvertaken'
  <2>1. /\ \A u \in Tasks \ {t} : At(u, "write") /\ cmd[u] \in fence => cmd[u] \in fence'
        /\ \A d \in fence : Submitting(d) /\ t # Submission(d) => d \in fence'
        /\ fence' \subseteq fence
    BY <1>1, <1>a, LeaveKeeps DEF Locking, ProvenInvariant
  <2>2. \A d \in Commands : Submitting(d)' => Submitting(d) /\ t # Submission(d)
    BY <1>1, SubmissionFacts DEF Submitting
  <2>3. t \notin Submissions => cmd[t] \in fence
    BY <1>1 DEF ProvenInvariant, RemovalsKnown
  <2>4. t \in Submissions => t = Submission(cmd[t])
    BY TaskFacts DEF OutboxInvariant, OutboxShape
  <2>5. \A d \in proven : Submitting(d)' /\ d \notin fence' /\ outbox'[d] = "none" =>
               Submitting(d) /\ d \notin fence /\ outbox[d] = "none"
    BY <1>1, <2>1, <2>2, <2>3, <2>4 DEF ProvenInvariant, RemovalsKnown, Commands
  <2> QED BY <1>1, <1>2, <2>1, <2>5, MovesKnown DEF Proving
<1> QED BY <1>2, <1>3, <1>4, <1>5 DEF ProvenInvariant

LEMMA UnlockedWrittenProven ==
    ASSUME NEW t \in Reconcilers, OutboxInvariant, ProvenInvariant, UnlockedWritten(t)
    PROVE  ProvenInvariant'
<1>0. t \in Tasks /\ t \notin Submissions /\ t \notin Signals /\ cmd[t] \in Commands
  BY TaskFacts DEF OutboxInvariant, Reservations, Working, UnlockedWritten
<1>1. /\ OnlyTask(t) /\ UNCHANGED <<cmd, status, down, owed, proven, gone, turn, fence>>
      /\ At(t, "put") /\ pc'[t] = "next"
      /\ \A u \in Tasks \ {t} : pc'[u] = pc[u]
      /\ queue # <<>> /\ Head(queue) = t /\ queue' = Tail(queue)
      /\ \A c \in Commands : c # cmd[t] => outbox'[c] = outbox[c]
      /\ outbox'[cmd[t]] = Updated(cmd[t], want[t])
  BY <1>0, ShapeFacts DEF UnlockedWritten, Write, OnlyTask
<1>2. QueueExact' /\ \A a, b : a # t /\ Before(queue, a, b) => Before(queue, a, b)'
  BY <1>0, <1>1, QueueLeft DEF ProvenInvariant, Updating
<1>3. LocksHeld'
  <2>1. turn' \in [Commands -> Seq(Tasks)] /\ \A c \in Commands : Keeps(turn[c], turn'[c], t)
    BY <1>0, <1>1, TurnMoves DEF ProvenInvariant
  <2>2. \A u \in Tasks : pc'[u] \in Locking => u # t /\ pc'[u] = pc[u] /\ cmd'[u] = cmd[u]
    BY <1>1 DEF Locking
  <2> QED BY <1>0, <2>1, <2>2, LocksFrame DEF ProvenInvariant
<1>4. SignalledOnce' /\ ProofsLast'
  BY <1>0, <1>1, MovesHeard DEF Proving
<1>5. RemovalsKnown' /\ PutsOvertaken'
  <2>1. \A d \in Commands : Submitting(d)' <=> Submitting(d)
    BY <1>0, <1>1, SubmissionFacts DEF Submitting
  <2>2. cmd[t] \in proven /\ cmd[t] \notin fence => (outbox'[cmd[t]] = "none" => outbox[cmd[t]] = "none")
    <3>1. cmd[t] \in proven => want[t] # "none"
      BY <1>1 DEF ProvenInvariant, RemovalsKnown
    <3> QED BY <1>1, <3>1 DEF Updated
  <2>3. \A d \in proven : Submitting(d)' /\ d \notin fence' /\ outbox'[d] = "none" =>
               Submitting(d) /\ d \notin fence /\ outbox[d] = "none"
    BY <1>1, <2>1, <2>2 DEF ProvenInvariant, RemovalsKnown, Commands
  <2> QED BY <1>0, <1>1, <1>2, <2>3, MovesKnown DEF Proving
<1> QED BY <1>2, <1>3, <1>4, <1>5 DEF ProvenInvariant

LEMMA ConnectAskedProven ==
    ASSUME OutboxInvariant, ProvenInvariant, ConnectAsked
    PROVE  ProvenInvariant'
<1> DEFINE t == Connecting
<1>0. t \in Tasks /\ t \notin Submissions /\ t \notin Signals
  BY TaskFacts
<1>1. /\ OnlyTask(t) /\ UNCHANGED <<cmd, status, down, owed, proven, gone, turn, fence, outbox>>
      /\ At(t, "next")
      /\ \A u \in Tasks \ {t} : pc'[u] = pc[u]
      /\ \/ pc'[t] = "deliver" /\ queue' = queue
         \/ pc'[t] = "clear" /\ queue' = Append(queue, t)
  BY <1>0, ShapeFacts DEF ConnectAsked, OnlyTask
<1> HIDE DEF t
<1>2. QueueExact' /\ \A a, b : Before(queue, a, b) => Before(queue, a, b)'
  BY <1>0, <1>1, QueueStays, QueueJoined DEF ProvenInvariant, Updating
<1>3. LocksHeld'
  <2>1. turn' \in [Commands -> Seq(Tasks)] /\ \A c \in Commands : Keeps(turn[c], turn'[c], t)
    BY <1>0, <1>1, TurnStays
  <2>2. \A u \in Tasks : pc'[u] \in Locking => u # t /\ pc'[u] = pc[u] /\ cmd'[u] = cmd[u]
    BY <1>1 DEF Locking
  <2> QED BY <1>0, <2>1, <2>2, LocksFrame DEF ProvenInvariant
<1>4. SignalledOnce' /\ ProofsLast'
  BY <1>0, <1>1, MovesHeard DEF Proving
<1>5. RemovalsKnown' /\ PutsOvertaken'
  <2>1. \A d \in Commands : Submitting(d)' <=> Submitting(d)
    BY <1>0, <1>1, SubmissionFacts DEF Submitting
  <2> QED BY <1>0, <1>1, <1>2, <2>1, MovesKnown DEF Proving, ProvenInvariant, RemovalsKnown, Commands
<1> QED BY <1>2, <1>3, <1>4, <1>5 DEF ProvenInvariant

LEMMA ClearedProven ==
    ASSUME OutboxInvariant, ProvenInvariant, Cleared
    PROVE  ProvenInvariant'
<1> DEFINE t == Connecting
<1>0. t \in Tasks /\ t \notin Submissions /\ t \notin Signals
  BY TaskFacts
<1>1. /\ OnlyTask(t) /\ UNCHANGED <<cmd, status, down, owed, proven, turn, fence>> /\ gone' = {}
      /\ At(t, "clear") /\ pc'[t] = "deliver"
      /\ \A u \in Tasks \ {t} : pc'[u] = pc[u]
      /\ queue # <<>> /\ Head(queue) = t /\ queue' = Tail(queue)
      /\ \A c \in Commands \ gone : outbox'[c] = outbox[c]
  BY <1>0, ShapeFacts DEF Cleared, Write, OnlyTask
<1> HIDE DEF t
<1>2. QueueExact' /\ \A a, b : a # t /\ Before(queue, a, b) => Before(queue, a, b)'
  BY <1>0, <1>1, QueueLeft DEF ProvenInvariant, Updating
<1>3. LocksHeld'
  <2>1. turn' \in [Commands -> Seq(Tasks)] /\ \A c \in Commands : Keeps(turn[c], turn'[c], t)
    BY <1>0, <1>1, TurnStays
  <2>2. \A u \in Tasks : pc'[u] \in Locking => u # t /\ pc'[u] = pc[u] /\ cmd'[u] = cmd[u]
    BY <1>1 DEF Locking
  <2> QED BY <1>0, <2>1, <2>2, LocksFrame DEF ProvenInvariant
<1>4. SignalledOnce' /\ ProofsLast'
  BY <1>0, <1>1, MovesHeard DEF Proving
<1>5. RemovalsKnown' /\ PutsOvertaken'
  <2>1. \A d \in Commands : Submitting(d)' <=> Submitting(d)
    BY <1>0, <1>1, SubmissionFacts DEF Submitting
  <2>2. \A d \in proven : d \in Commands \ gone
    BY DEF ProvenInvariant, RemovalsKnown, Commands
  <2> QED BY <1>0, <1>1, <1>2, <2>1, <2>2, MovesKnown DEF Proving
<1> QED BY <1>2, <1>3, <1>4, <1>5 DEF ProvenInvariant

-----------------------------------------------------------------------------
(* Messages that are handled, and the connection's end.                     *)

(* A message less.                                                          *)
LEMMA HeardGone ==
    ASSUME OutboxInvariant, ProvenInvariant, NEW k \in 1..Len(down), down' = RemoveAt(down, k),
           UNCHANGED <<cmd, status, owed>>,
           \A c \in Prompts : Proved(c)' => Proved(c) \/ (k = 1 /\ Proves(down[k], c)),
           \A c \in Prompts : At(Signal(c), "idle") => At(Signal(c), "idle")' \/ down[k].to = Signal(c)
    PROVE  SignalledOnce' /\ ProofsLast'
<1>1. /\ down \in Seq(Message) /\ Len(down) \in Nat /\ Len(down') = Len(down) - 1
      /\ \A j \in 1..Len(down') : down'[j] = IF j < k THEN down[j] ELSE down[j + 1]
  <2>1. down \in Seq(Message) BY DEF OutboxInvariant, OutboxShape
  <2>2. Len(down) \in Nat BY <2>1
  <2> QED BY <2>1, <2>2, RemovedAt
<1> DEFINE old(j) == IF j < k THEN j ELSE j + 1
<1>2. \A j \in 1..Len(down') : old(j) \in 1..Len(down) \ {k} /\ down'[j] = down[old(j)]
  BY <1>1
<1>3. \A i, j \in 1..Len(down') : (i < j => old(i) < old(j)) /\ (old(i) = old(j) => i = j)
  BY <1>1
<1>4. k = 1 => \A j \in 1..Len(down') : old(j) \in 2..Len(down)
  BY <1>1
<1> HIDE DEF old
<1>5. \A m, c : (Proves(m, c)' <=> Proves(m, c)) /\ (Agrees(m, c)' <=> Agrees(m, c))
  BY DEF Proves, Agrees
<1>6. ASSUME NEW c \in Prompts, NEW i \in 1..Len(down'), Proves(down'[i], c), NEW j \in i + 1..Len(down')
      PROVE  Agrees(down'[j], c)
  <2>1. i < j /\ j \in 1..Len(down') BY <1>1
  <2>2. old(i) \in 1..Len(down) /\ old(j) \in 1..Len(down) /\ old(i) < old(j) BY <1>2, <1>3, <2>1
  <2>3. old(j) \in old(i) + 1..Len(down) BY <1>1, <2>2
  <2>4. Agrees(down[old(j)], c) BY <1>2, <1>6, <2>2, <2>3 DEF ProvenInvariant, ProofsLast
  <2> QED BY <1>2, <2>1, <2>4
<1>7. ASSUME NEW c \in Prompts, Proved(c)', NEW j \in 1..Len(down') PROVE Agrees(down'[j], c)
  <2>1. CASE Proved(c)
    <3>1. Agrees(down[old(j)], c) BY <1>2, <2>1 DEF ProvenInvariant, ProofsLast
    <3> QED BY <1>2, <3>1
  <2>2. CASE k = 1 /\ Proves(down[k], c)
    <3>1. old(j) \in 1 + 1..Len(down) BY <1>4, <2>2
    <3>2. Agrees(down[old(j)], c) BY <2>2, <3>1 DEF ProvenInvariant, ProofsLast
    <3> QED BY <1>2, <3>2
  <2> QED BY <1>7, <2>1, <2>2
<1>8. ProofsLast'
  BY <1>5, <1>6, <1>7 DEF ProofsLast
<1>9. ASSUME NEW c \in Prompts, ~At(Signal(c), "idle")' PROVE status[c] = "completed"
  <2>1. CASE ~At(Signal(c), "idle") BY <2>1 DEF ProvenInvariant, SignalledOnce
  <2>2. CASE down[k].to = Signal(c)
    BY <2>2, TaskFacts DEF OutboxInvariant, AnswersTrue, Truthful
  <2> QED BY <1>9, <2>1, <2>2
<1>10. ASSUME NEW c \in Prompts, c \in owed
       PROVE  At(Signal(c), "idle")' /\ \A i \in 1..Len(down') : down'[i].to # Signal(c)
  <2>1. At(Signal(c), "idle") /\ \A i \in 1..Len(down) : down[i].to # Signal(c)
    BY <1>10 DEF ProvenInvariant, SignalledOnce
  <2> QED BY <1>2, <2>1
<1>11. ASSUME NEW i \in 1..Len(down'), down'[i].to \in Signals PROVE pc'[down'[i].to] = "idle"
  <2>1. PICK c \in Prompts : down'[i].to = Signal(c) BY <1>11 DEF Signals
  <2>2. At(Signal(c), "idle") /\ down[k].to # Signal(c)
    BY <1>2, <1>11, <2>1 DEF ProvenInvariant, SignalledOnce
  <2>3. pc'[Signal(c)] = "idle" BY <2>2
  <2> QED BY <2>1, <2>3
<1>12. ASSUME NEW i \in 1..Len(down'), NEW j \in 1..Len(down'), down'[i].to = down'[j].to PROVE i = j
  BY <1>2, <1>3, <1>12 DEF ProvenInvariant, SignalledOnce
<1>13. SignalledOnce'
  <2>1. status' = status /\ owed' = owed OBVIOUS
  <2>2. \A c \in Prompts : At(Signal(c), "idle")' \/ status'[c] = "completed"
    BY <1>9, <2>1
  <2>3. \A c \in Prompts : c \in owed' =>
           At(Signal(c), "idle")' /\ \A i \in 1..Len(down') : down'[i].to # Signal(c)
    BY <1>10, <2>1
  <2> QED BY <1>11, <1>12, <2>2, <2>3 DEF SignalledOnce
<1> QED BY <1>8, <1>13

(* What a task at work can rely on when its connection is cut off.          *)
LEMMA CutOff ==
    ASSUME OutboxInvariant, ProvenInvariant,
           UNCHANGED <<outbox, cmd, want, gone, queue, fence, status, proven>>,
           down' = <<>>, owed' = {},
           \A u \in Tasks : pc[u] \in Updating \/ pc'[u] \in Updating => pc'[u] = pc[u],
           \A u \in Tasks : Proving(u)' => Proving(u),
           \A u \in Signals : At(u, "idle") => At(u, "idle")',
           \A c \in Commands : Submitting(c)' => Submitting(c)
    PROVE  QueueExact' /\ SignalledOnce' /\ ProofsLast' /\ RemovalsKnown' /\ PutsOvertaken'
<1>1. QueueExact' /\ \A a, b : Before(queue, a, b) => Before(queue, a, b)'
  BY QueueStays DEF ProvenInvariant
<1>2. SignalledOnce' /\ ProofsLast'
  BY TaskFacts DEF ProvenInvariant, SignalledOnce, ProofsLast
<1>3. RemovalsKnown'
  BY TaskFacts, KnownFrame DEF ProvenInvariant, RemovalsKnown, OutcomesKept, Updating, Commands
<1>4. PutsOvertaken'
  BY <1>1, TaskFacts, OvertakenFrame DEF ProvenInvariant, Updating
<1> QED BY <1>1, <1>2, <1>3, <1>4

LEMMA CutOffTurns ==
    ASSUME OutboxInvariant, ProvenInvariant, NEW t \in Tasks, NEW c \in Commands
    PROVE  /\ CutOffTurn[c] \in Seq(Tasks) /\ Keeps(turn[c], CutOffTurn[c], t)
           /\ turn[c] # <<>> => CutOffTurn[c] # <<>> /\ CutOffTurn[c][1] = turn[c][1]
           /\ Submission(c) \in Waiting => \E i \in 1..Len(CutOffTurn[c]) : CutOffTurn[c][i] = Submission(c)
<1> DEFINE s == turn[c]
           u == Submission(c)
<1>1. s \in Seq(Tasks) /\ u \in Tasks /\ (s # <<>> => Len(s) \in Nat \ {0})
  <2>1. s \in Seq(Tasks) BY DEF ProvenInvariant, LocksHeld
  <2> QED BY <2>1, TaskFacts, SeqFacts
<1>2. CutOffTurn[c] = IF u \in Waiting THEN Append(s, u) ELSE s
  BY DEF CutOffTurn
<1> HIDE DEF s, u
<1>3. /\ Append(s, u) \in Seq(Tasks) /\ Keeps(s, Append(s, u), t) /\ Keeps(s, s, t)
      /\ \E i \in 1..Len(Append(s, u)) : Append(s, u)[i] = u
  BY <1>1, KeepsFacts, SeqFacts
<1>4. s # <<>> => Append(s, u) # <<>> /\ Append(s, u)[1] = s[1]
  BY <1>1, SeqFacts
<1> QED BY <1>1, <1>2, <1>3, <1>4 DEF s, u

LEMMA DropProven ==
    ASSUME OutboxInvariant, ProvenInvariant, Drop
    PROVE  ProvenInvariant'
<1>1. /\ UNCHANGED <<outbox, cmd, want, gone, queue, fence, status, proven>>
      /\ down' = <<>> /\ owed' = {} /\ turn' = CutOffTurn
      /\ \A u \in Tasks : pc'[u] = IF u \notin Waiting THEN pc[u] ELSE IF u \in Submissions THEN "fail" ELSE "next"
  BY DEF Drop, Closed, CutOffPc
<1>2. \A u \in Tasks : u \in Waiting <=> At(u, "asked")
  BY DEF Waiting
<1>3. QueueExact' /\ SignalledOnce' /\ ProofsLast' /\ RemovalsKnown' /\ PutsOvertaken'
  BY <1>1, <1>2, TaskFacts, CutOff DEF Updating, Proving, Submitting
<1>4. \A c \in Commands : turn'[c] = CutOffTurn[c]
  BY <1>1
<1>5. turn' \in [Commands -> Seq(Tasks)]
  <2>1. Connecting \in Tasks BY TaskFacts
  <2>2. \A c \in Commands : CutOffTurn[c] \in Seq(Tasks) BY <2>1, CutOffTurns
  <2> QED BY <1>1, <2>2 DEF CutOffTurn
<1>6. ASSUME NEW u \in Tasks, pc'[u] \in Locking PROVE InTurn(u)'
  <2>1. CASE u \in Waiting
    <3>1. u \in Submissions /\ pc'[u] = "fail" BY <1>1, <1>6, <2>1 DEF Locking
    <3>2. PICK c \in Commands : u = Submission(c) /\ cmd[u] = c
      BY <3>1, TaskFacts DEF OutboxInvariant, OutboxShape
    <3>3. \E i \in 1..Len(CutOffTurn[c]) : CutOffTurn[c][i] = u
      BY <2>1, <3>2, CutOffTurns
    <3> QED BY <1>1, <1>4, <3>1, <3>2, <3>3 DEF InTurn
  <2>2. CASE u \notin Waiting
    <3>1. PICK t \in Tasks : t # u BY TaskFacts
    <3>2. pc'[u] = pc[u] /\ cmd'[u] = cmd[u] /\ cmd[u] \in Commands
      BY <1>1, <1>6, <2>2 DEF OutboxInvariant, Reservations, Working, Locking
    <3>3. Keeps(turn[cmd[u]], turn'[cmd[u]], t) BY <1>4, <3>2, CutOffTurns
    <3> QED BY <1>6, <3>1, <3>2, <3>3, StillInTurn DEF ProvenInvariant
  <2> QED BY <2>1, <2>2
<1>7. LocksHeld'
  BY <1>5, <1>6 DEF LocksHeld, InTurn, Locking
<1> QED BY <1>3, <1>7 DEF ProvenInvariant

LEMMA CommitAmbiguousProven ==
    ASSUME NEW t \in Tasks, OutboxInvariant, ProvenInvariant, CommitAmbiguous(t)
    PROVE  ProvenInvariant'
<1>0. t \notin Submissions /\ At(t, "commit") /\ Head(turn[cmd[t]]) = t
  BY TaskFacts DEF CommitAmbiguous, Ambiguous
<1>1. /\ UNCHANGED <<outbox, cmd, want, gone, queue, fence, status, proven>>
      /\ down' = <<>> /\ owed' = {} /\ turn' = [CutOffTurn EXCEPT ![cmd[t]] = Tail(@)]
      /\ pc'[t] \in {"idle", "next"}
      /\ \A u \in Tasks \ {t} :
            pc'[u] = IF u \notin Waiting THEN pc[u] ELSE IF u \in Submissions THEN "fail" ELSE "next"
  BY DEF CommitAmbiguous, Closed, CutOffPc, Onward
<1>2. \A u \in Tasks : u \in Waiting <=> At(u, "asked")
  BY DEF Waiting
<1>3. QueueExact' /\ SignalledOnce' /\ ProofsLast' /\ RemovalsKnown' /\ PutsOvertaken'
  <2>1. \A u \in Tasks : pc[u] \in Updating \/ pc'[u] \in Updating => pc'[u] = pc[u]
    BY <1>0, <1>1, <1>2 DEF Updating
  <2>2. \A u \in Tasks : Proving(u)' => Proving(u)
    BY <1>0, <1>1, <1>2 DEF Proving
  <2>3. \A u \in Signals : At(u, "idle") => At(u, "idle")'
    BY <1>0, <1>1, <1>2, TaskFacts
  <2>4. \A c \in Commands : Submitting(c)' => Submitting(c)
    BY <1>0, <1>1, <1>2, TaskFacts DEF Submitting
  <2> QED BY <1>1, <2>1, <2>2, <2>3, <2>4, CutOff
<1> DEFINE d == cmd[t]
<1>4. d \in Commands /\ turn[d] # <<>> /\ turn[d][1] = t
  BY <1>0, FirstInTurn DEF Locking, ProvenInvariant
<1>5. /\ \A c \in Commands : turn'[c] = IF c = d THEN Tail(CutOffTurn[d]) ELSE CutOffTurn[c]
      /\ DOMAIN turn' = Commands /\ turn' = [c \in Commands |-> turn'[c]]
  BY <1>1, <1>4 DEF CutOffTurn
<1> HIDE DEF d
<1>6. CutOffTurn[d] \in Seq(Tasks) /\ CutOffTurn[d] # <<>> /\ Head(CutOffTurn[d]) = t
  <2>1. CutOffTurn[d] \in Seq(Tasks) /\ CutOffTurn[d] # <<>> /\ CutOffTurn[d][1] = t
    BY <1>4, CutOffTurns
  <2> QED BY <2>1, SeqFacts
<1>7. Tail(CutOffTurn[d]) \in Seq(Tasks) /\ Keeps(CutOffTurn[d], Tail(CutOffTurn[d]), t)
  BY <1>6, KeepsFacts, SeqFacts
<1>8. Keeps(turn[d], Tail(CutOffTurn[d]), t)
  <2>1. Keeps(turn[d], CutOffTurn[d], t) BY <1>4, CutOffTurns
  <2>2. \A i \in 1..Len(turn[d]) : turn[d][i] # t =>
            \E j \in 1..Len(Tail(CutOffTurn[d])) : Tail(CutOffTurn[d])[j] = turn[d][i]
    <3>1. ASSUME NEW i \in 1..Len(turn[d]), turn[d][i] # t
          PROVE  \E j \in 1..Len(Tail(CutOffTurn[d])) : Tail(CutOffTurn[d])[j] = turn[d][i]
      <4>1. PICK k \in 1..Len(CutOffTurn[d]) : CutOffTurn[d][k] = turn[d][i]
        BY <2>1, <3>1 DEF Keeps
      <4> QED BY <1>7, <3>1, <4>1 DEF Keeps
    <3> QED BY <3>1
  <2> QED BY <1>4, <2>2 DEF Keeps
<1>9. \A c \in Commands : turn'[c] \in Seq(Tasks) /\ Keeps(turn[c], turn'[c], t)
  BY <1>5, <1>7, <1>8, CutOffTurns
<1>10. turn' \in [Commands -> Seq(Tasks)]
  BY <1>5, <1>9
<1>11. ASSUME NEW u \in Tasks, pc'[u] \in Locking
       PROVE  \/ u # t /\ pc'[u] = pc[u] /\ cmd'[u] = cmd[u]
              \/ InTurn(u)'
  <2>0. u # t BY <1>1, <1>11 DEF Locking
  <2>1. CASE u \in Waiting
    <3>1. u \in Submissions /\ pc'[u] = "fail" BY <1>1, <1>11, <2>0, <2>1 DEF Locking
    <3>2. PICK c \in Commands : u = Submission(c) /\ cmd[u] = c
      BY <3>1, TaskFacts DEF OutboxInvariant, OutboxShape
    <3>3. \E i \in 1..Len(CutOffTurn[c]) : CutOffTurn[c][i] = u
      BY <2>1, <3>2, CutOffTurns
    <3>4. \E i \in 1..Len(turn'[c]) : turn'[c][i] = u
      BY <1>5, <1>7, <2>0, <3>2, <3>3 DEF Keeps
    <3> QED BY <1>1, <3>1, <3>2, <3>4 DEF InTurn
  <2>2. CASE u \notin Waiting BY <1>1, <2>0, <2>2
  <2> QED BY <2>1, <2>2
<1>12. LocksHeld'
  BY <1>9, <1>10, <1>11, LocksFrame DEF ProvenInvariant
<1> QED BY <1>3, <1>12 DEF ProvenInvariant

LEMMA CrashProven ==
    ASSUME OutboxInvariant, ProvenInvariant, Crash
    PROVE  ProvenInvariant'
<1>1. /\ queue' = <<>> /\ gone' = {} /\ owed' = {} /\ down' = <<>> /\ UNCHANGED <<status, proven>>
      /\ turn' = [c \in Commands |-> <<>>] /\ \A u \in Tasks : pc'[u] = "idle"
  BY DEF Crash
<1>2. LocksHeld' /\ QueueExact'
  BY <1>1 DEF LocksHeld, QueueExact, Locking, Updating
<1>3. SignalledOnce' /\ ProofsLast'
  BY <1>1, TaskFacts DEF SignalledOnce, ProofsLast
<1>4. RemovalsKnown' /\ PutsOvertaken'
  BY <1>1, TaskFacts DEF ProvenInvariant, RemovalsKnown, PutsOvertaken, Proving, Submitting, Commands
<1> QED BY <1>2, <1>3, <1>4 DEF ProvenInvariant

LEMMA TimeoutProven ==
    ASSUME NEW t \in Tasks, OutboxInvariant, ProvenInvariant, Timeout(t)
    PROVE  ProvenInvariant'
<1>1. /\ OnlyTask(t) /\ UNCHANGED <<cmd, status, owed, proven, gone, fence, outbox>>
      /\ At(t, "asked") /\ \A u \in Tasks \ {t} : pc'[u] = pc[u]
  BY ShapeFacts DEF Timeout, Waiting, OnlyTask
<1>2. \/ t \in Submissions /\ pc'[t] = "fail" /\ queue' = queue
         /\ turn' = [turn EXCEPT ![t.of] = Append(@, t)]
      \/ t \notin Submissions /\ pc'[t] = "put" /\ want'[t] = "hold"
         /\ queue' = Append(queue, t) /\ turn' = turn
  BY ShapeFacts DEF Timeout
<1>3. QueueExact' /\ \A a, b : Before(queue, a, b) => Before(queue, a, b)'
  BY <1>1, <1>2, QueueStays, QueueJoined DEF ProvenInvariant, Updating
<1>4. LocksHeld'
  <2>1. CASE t \in Submissions
    <3> DEFINE c == t.of
    <3>1. c \in Commands /\ cmd[t] = c
      BY <2>1, TaskFacts DEF OutboxInvariant, OutboxShape
    <3>2. pc'[t] = "fail" /\ turn' = [turn EXCEPT ![c] = Append(@, t)] BY <1>2, <2>1
    <3> HIDE DEF c
    <3>3. /\ turn' \in [Commands -> Seq(Tasks)]
          /\ \A d \in Commands : Keeps(turn[d], turn'[d], t)
          /\ \E i \in 1..Len(turn'[c]) : turn'[c][i] = t
      BY <3>1, <3>2, TurnMoves DEF ProvenInvariant
    <3>4. ASSUME NEW u \in Tasks, pc'[u] \in Locking
          PROVE  \/ u # t /\ pc'[u] = pc[u] /\ cmd'[u] = cmd[u]
                 \/ InTurn(u)'
      BY <1>1, <3>1, <3>2, <3>3, <3>4 DEF Locking, InTurn
    <3> QED BY <3>3, <3>4, LocksFrame DEF ProvenInvariant
  <2>2. CASE t \notin Submissions
    <3>1. turn' \in [Commands -> Seq(Tasks)] /\ \A d \in Commands : Keeps(turn[d], turn'[d], t)
      BY <1>2, <2>2, TurnStays
    <3>2. \A u \in Tasks : pc'[u] \in Locking => u # t /\ pc'[u] = pc[u] /\ cmd'[u] = cmd[u]
      BY <1>1, <1>2, <2>2 DEF Locking
    <3> QED BY <3>1, <3>2, LocksFrame DEF ProvenInvariant
  <2> QED BY <2>1, <2>2
<1>5. SignalledOnce' /\ ProofsLast'
  <2>1. \A c \in Prompts : Proved(c)' => Proved(c)
    BY <1>1, <1>2, TaskFacts DEF Proved, Proving
  <2>2. \A c \in Prompts : At(Signal(c), "idle") => At(Signal(c), "idle")'
    BY <1>1, TaskFacts
  <2>3. CASE down' = down
    BY <1>1, <2>1, <2>2, <2>3, SignalsFrame, LastFrame DEF ProvenInvariant, OutcomesKept
  <2>4. ASSUME NEW k \in 1..Len(down), down' = RemoveAt(down, k) PROVE SignalledOnce' /\ ProofsLast'
    BY <1>1, <2>1, <2>2, <2>4, HeardGone
  <2>5. DOMAIN down = 1..Len(down) BY DEF OutboxInvariant, OutboxShape
  <2> QED BY <2>3, <2>4, <2>5 DEF Timeout, Ignored
<1>6. RemovalsKnown' /\ PutsOvertaken'
  <2>1. \A d \in Commands : Submitting(d)' => Submitting(d)
    BY <1>1, SubmissionFacts DEF Submitting
  <2> QED BY <1>1, <1>2, <1>3, <2>1, MovesKnown DEF Proving, ProvenInvariant, RemovalsKnown, Commands
<1> QED BY <1>3, <1>4, <1>5, <1>6 DEF ProvenInvariant

(* What a message makes of the one it is for.                               *)
LEMMA ArriveProven ==
    ASSUME OutboxInvariant, ProvenInvariant, Arrive
    PROVE  ProvenInvariant'
<1>1. PICK t \in Tasks, got \in Statuses : t = Head(down).to /\ got = Head(down).got
  BY TailRemoves, Messages DEF OutboxInvariant, Arrive
<1>2. /\ down # <<>> /\ down' = Tail(down)
      /\ IF t \in Signals
         THEN /\ Goto(t, "reading") /\ live' = live \cup {t}
              /\ UNCHANGED <<turn, want, gone, later, queue>>
         ELSE /\ IF t \in Submissions THEN SubmissionAnswered(t, got)
                                      ELSE ReconcilerAnswered(t, cmd[t], got)
              /\ UNCHANGED live
      /\ UNCHANGED <<files, authority, link, cmd, todo, seen, fence, timer,
                     status, wire, asked, owed, history, moves>>
  BY <1>1 DEF Arrive
<1>3. /\ 1 \in 1..Len(down) /\ down' = RemoveAt(down, 1) /\ down[1].to = t /\ down[1].got = got
      /\ Truthful(down[1])
  BY <1>1, <1>2, TailRemoves DEF OutboxInvariant, AnswersTrue
<1> DEFINE c == cmd[t]
<1>4. /\ t \in Signals => At(t, "idle") /\ c = t.of /\ c \in Prompts
      /\ t \notin Signals => /\ At(t, "asked") /\ c \in Commands
                             /\ got \in Final => status[c] = got
      /\ t \in Submissions => c = t.of
  BY <1>3, TaskFacts DEF ProvenInvariant, SignalledOnce, OutboxInvariant, OutboxShape, Truthful,
    Reservations, Working
<1>5. OnlyTask(t) /\ UNCHANGED <<cmd, status, owed, proven, fence, outbox>>
      /\ \A u \in Tasks \ {t} : pc'[u] = pc[u]
  BY <1>2, ShapeFacts DEF SubmissionAnswered, ReconcilerAnswered, OnlyTask
<1> HIDE DEF c
<1>6. \/ /\ t \in Signals /\ pc'[t] = "reading" /\ UNCHANGED <<turn, gone, queue>>
      \/ /\ t \notin Signals /\ pc'[t] \in {"commit", "settle"}
         /\ turn' = [turn EXCEPT ![c] = Append(@, t)] /\ UNCHANGED <<gone, queue>>
         /\ pc'[t] = "commit" => IsProof(c, got)
      \/ /\ t \in Reconcilers /\ pc'[t] = "next" /\ UNCHANGED <<turn, queue>>
         /\ gone' \subseteq gone \cup {d \in {c} : ~IsProof(c, got) /\ Retained(c, got) = "none" /\ got # "none"}
      \/ /\ t \in Reconcilers /\ pc'[t] = "put" /\ want'[t] = Retained(c, got)
         /\ got # "none" /\ ~IsProof(c, got) /\ queue' = Append(queue, t) /\ UNCHANGED <<turn, gone>>
  BY <1>2, <1>4, ShapeFacts, TaskFacts DEF SubmissionAnswered, ReconcilerAnswered, c
<1>7. QueueExact' /\ \A a, b : Before(queue, a, b) => Before(queue, a, b)'
  BY <1>4, <1>5, <1>6, QueueStays, QueueJoined DEF ProvenInvariant, Updating
<1>8. LocksHeld'
  <2>1. CASE pc'[t] \in {"commit", "settle"}
    <3>1. c \in Commands /\ cmd[t] = c /\ turn' = [turn EXCEPT ![c] = Append(@, t)]
      BY <1>4, <1>6, <2>1 DEF c
    <3>2. /\ turn' \in [Commands -> Seq(Tasks)]
          /\ \A d \in Commands : Keeps(turn[d], turn'[d], t)
          /\ \E i \in 1..Len(turn'[c]) : turn'[c][i] = t
      BY <3>1, TurnMoves DEF ProvenInvariant
    <3>3. ASSUME NEW u \in Tasks, pc'[u] \in Locking
          PROVE  \/ u # t /\ pc'[u] = pc[u] /\ cmd'[u] = cmd[u]
                 \/ InTurn(u)'
      BY <1>5, <2>1, <3>1, <3>2, <3>3 DEF Locking, InTurn
    <3> QED BY <3>2, <3>3, LocksFrame DEF ProvenInvariant
  <2>2. CASE pc'[t] \notin {"commit", "settle"}
    <3>1. pc'[t] \notin Locking /\ turn' = turn BY <1>6, <2>2 DEF Locking
    <3>2. turn' \in [Commands -> Seq(Tasks)] /\ \A d \in Commands : Keeps(turn[d], turn'[d], t)
      BY <3>1, TurnStays
    <3>3. \A u \in Tasks : pc'[u] \in Locking => u # t /\ pc'[u] = pc[u] /\ cmd'[u] = cmd[u]
      BY <1>5, <3>1
    <3> QED BY <3>2, <3>3, LocksFrame DEF ProvenInvariant
  <2> QED BY <2>1, <2>2
<1>9. Proving(t)' => Proves(down[1], c) /\ c \in Prompts
  BY <1>3, <1>4, <1>6, TaskFacts DEF Proving, Proves, IsProof, c
<1>10. SignalledOnce' /\ ProofsLast'
  <2>1. \A u \in Tasks \ {t} : Proving(u)' => Proving(u)
    BY <1>5 DEF Proving
  <2>2. \A d \in Prompts : Proved(d)' => Proved(d) \/ Proves(down[1], d)
    BY <1>5, <1>9, <2>1 DEF Proved, c
  <2>3. \A d \in Prompts : At(Signal(d), "idle") => At(Signal(d), "idle")' \/ down[1].to = Signal(d)
    BY <1>3, <1>5, TaskFacts
  <2> QED BY <1>3, <1>5, <2>2, <2>3, HeardGone
<1>11. c \in Prompts /\ t \notin Signals /\ ~IsProof(c, got) /\ Retained(c, got) = "none" /\ got # "none" =>
          status[c] = "failed"
  BY <1>4 DEF IsProof, Retained, Statuses, Final
<1>12. t \in Reconcilers /\ ~IsProof(c, got) => c \notin proven
  <2>1. ASSUME t \in Reconcilers, c \in proven PROVE IsProof(c, got)
    <3>1. c \in Prompts BY <2>1 DEF ProvenInvariant, RemovalsKnown
    <3>2. Agrees(down[1], c) BY <1>3, <2>1, <3>1 DEF ProvenInvariant, ProofsLast, Proved
    <3> QED BY <1>3, <2>1, <3>1, <3>2 DEF Agrees, IsProof, c
  <2> QED BY <2>1
<1>13. RemovalsKnown' /\ PutsOvertaken'
  <2>1. \A d \in Commands : Submitting(d)' => Submitting(d)
    BY <1>4, <1>5, SubmissionFacts DEF Submitting
  <2>2. \A d \in proven : Submitting(d)' /\ d \notin fence' /\ outbox'[d] = "none" =>
               Submitting(d) /\ d \notin fence /\ outbox[d] = "none"
    BY <1>5, <2>1 DEF ProvenInvariant, RemovalsKnown, Commands
  <2>3. \A d \in gone' : d \in gone \/ (d \in Prompts => status[d] = "failed")
    BY <1>6, <1>11, TaskFacts
  <2>4. At(t, "put")' => /\ ~At(t, "put")
                         /\ want'[t] = "none" /\ cmd[t] \in Prompts => status[cmd[t]] = "failed"
                         /\ want'[t] \in {"none", "hold"} \/ cmd[t] \notin proven
    BY <1>4, <1>6, <1>11, <1>12, TaskFacts DEF c
  <2>5. At(t, "write")' => t \in Submissions BY <1>6
  <2>6. ~At(t, "write") BY <1>4
  <2>7. Proving(t)' => cmd[t] \in Prompts BY <1>9 DEF c
  <2> QED BY <1>5, <1>7, <2>2, <2>3, <2>4, <2>5, <2>6, <2>7, MovesKnown
<1> QED BY <1>7, <1>8, <1>10, <1>13 DEF ProvenInvariant

-----------------------------------------------------------------------------
(* What was proven stays so.                                                *)

LEMMA InitProven ==
    ASSUME OutboxInit
    PROVE  ProvenInvariant
<1>1. LocksHeld /\ QueueExact
  BY DEF OutboxInit, LocksHeld, QueueExact, Locking, Updating
<1>2. SignalledOnce /\ ProofsLast
  BY TaskFacts DEF OutboxInit, SignalledOnce, ProofsLast, Proved, Proving
<1>3. RemovalsKnown /\ PutsOvertaken
  BY TaskFacts DEF OutboxInit, RemovalsKnown, PutsOvertaken, Proving
<1> QED BY <1>1, <1>2, <1>3 DEF ProvenInvariant

LEMMA StepProven ==
    ASSUME OutboxInvariant, ProvenInvariant, [OutboxNext]_outboxVars
    PROVE  ProvenInvariant'
<1>1. ASSUME UNCHANGED outboxVars PROVE ProvenInvariant'
  <2>1. UNCHANGED <<outbox, pc, cmd, want, gone, queue, turn, fence, proven, status, down, owed>>
    BY <1>1 DEF outboxVars
  <2>2. LocksHeld' /\ QueueExact' /\ RemovalsKnown' /\ PutsOvertaken'
    BY <2>1, HostQuiet DEF OutcomesKept
  <2>3. SignalledOnce' BY <2>1, SignalsFrame DEF ProvenInvariant, OutcomesKept
  <2>4. ProofsLast' BY <2>1, LastFrame DEF ProvenInvariant, Proved, Proving
  <2> QED BY <2>2, <2>3, <2>4 DEF ProvenInvariant
<1>2. ASSUME NEW c \in Commands, Submit(c) \/ SubmissionStep(c) PROVE ProvenInvariant'
  BY <1>2, SubmitProven, CheckProven, ReserveProven, ReserveRefusedProven,
    FirstWrittenProven, SettleProven, FailProven DEF SubmissionStep
<1>3. ASSUME NEW t \in Tasks, ProofStep(t) PROVE ProvenInvariant'
  BY <1>3, CommitProven, CommitRepeatedProven, CommitSupersededProven,
    CommitAmbiguousProven, LockedWrittenProven DEF ProofStep
<1>4. ASSUME NEW t \in Reconcilers, ReconcilerStep(t) PROVE ProvenInvariant'
  BY <1>4, AskProven, UnlockedWrittenProven, SupersededProven DEF ReconcilerStep
<1>5. ASSUME ConnectStep PROVE ProvenInvariant'
  BY <1>5, ReadOutboxProven, CommitHeldProven, ConnectAskedProven, ClearedProven,
    ResubmitProven, ResubmittedProven, ConnectEndsProven, ConnectProven
  DEF ConnectStep
<1>6. ASSUME PollStep \/ PolledNothing PROVE ProvenInvariant'
  <2>1. Polling \in Reconcilers /\ Polling \in Tasks BY TaskFacts
  <2> QED BY <1>1, <1>3, <1>4, <1>6, <2>1, PolledProven, PollEndsProven,
        HostAnswerProven DEF PollStep, PolledNothing
<1>7. ASSUME HostStep PROVE ProvenInvariant'
  BY <1>7, TaskFacts, HostAdmitProven, HostRepeatsProven, HostRunProven,
    HostFinishProven, HostSignalProven, HostAnswerProven DEF HostStep
<1>8. ASSUME Fault PROVE ProvenInvariant'
  BY <1>8, DropProven, CrashProven, TimeoutProven, HostMissesProven DEF Fault
<1>9. ASSUME Work PROVE ProvenInvariant'
  <2>1. Connecting \in Reconcilers BY TaskFacts
  <2> QED BY <1>2, <1>3, <1>4, <1>5, <1>7, <1>9, <2>1, SignalReadProven DEF Work
<1> QED BY <1>1, <1>2, <1>6, <1>8, <1>9, ArriveProven DEF OutboxNext

(* Four actions write the file: the first write of a submission, an update  *)
(* made under the lock, one made without it, and the removals.              *)
LEMMA EntriesWritten ==
    ASSUME OutboxNext, outbox' # outbox
    PROVE  \/ \E c \in Commands : FirstWritten(c)
           \/ \E t \in Tasks : LockedWritten(t)
           \/ \E t \in Reconcilers : UnlockedWritten(t)
           \/ Cleared
<1> DEFINE Written == \/ \E c \in Commands : FirstWritten(c)
                      \/ \E t \in Tasks : LockedWritten(t)
                      \/ \E t \in Reconcilers : UnlockedWritten(t)
                      \/ Cleared
<1>1. ASSUME NEW c \in Commands, Submit(c) \/ SubmissionStep(c) PROVE Written
  BY <1>1 DEF SubmissionStep, Submit, Check, Reserve, ReserveRefused, Settle, Fail
<1>2. ASSUME NEW t \in Tasks, ProofStep(t) PROVE Written
  BY <1>2 DEF ProofStep, Commit, CommitRepeated, CommitSuperseded, CommitAmbiguous
<1>3. ASSUME NEW t \in Reconcilers, ReconcilerStep(t) PROVE Written
  BY <1>3 DEF ReconcilerStep, Ask, Superseded, End
<1>4. Connecting \in Reconcilers /\ Polling \in Reconcilers /\ Connecting \in Tasks /\ Polling \in Tasks
  BY TaskFacts
<1>5. ASSUME ConnectStep PROVE Written
  BY <1>5 DEF ConnectStep, ReadOutbox, CommitHeld, ConnectAsked, Resubmit, Resubmitted, ConnectEnds,
    End, Connect
<1>6. ASSUME HostStep \/ \E t \in Tasks : HostAnswer(t) PROVE Written
  BY <1>6, TaskFacts DEF HostStep, HostAdmit, HostRepeats, HostRun, HostFinish, HostSignal, HostAnswer
<1>7. ASSUME PollStep \/ PolledNothing PROVE Written
  BY <1>2, <1>3, <1>4, <1>6, <1>7 DEF PollStep, PolledNothing, Polled, PollEnds, End, outboxVars
<1>8. ASSUME Fault \/ Arrive PROVE Written
  BY <1>8 DEF Fault, Drop, Crash, Timeout, HostMisses, Arrive
<1>9. ASSUME Work PROVE Written
  BY <1>1, <1>2, <1>3, <1>4, <1>5, <1>6, <1>9 DEF Work, SignalRead
<1> QED BY <1>1, <1>7, <1>8, <1>9 DEF OutboxNext

(* The entry of a proven prompt, once gone, is made anew by its submission's*)
(* first write alone.                                                       *)
LEMMA OnlyFirstWrittenRevives ==
    ASSUME OutboxInvariant, ProvenInvariant, OutboxNext, NEW c \in proven,
           outbox[c] = "none", outbox'[c] # "none"
    PROVE  At(Submission(c), "first")
<1>1. /\ c \in Prompts /\ c \in Commands /\ c \notin gone
      /\ Submitting(c) => c \in fence
  BY DEF ProvenInvariant, RemovalsKnown, Commands
<1>2. ASSUME NEW d \in Commands, FirstWritten(d) PROVE At(Submission(c), "first")
  BY <1>1, <1>2 DEF FirstWritten, Write
<1>3. ASSUME NEW t \in Tasks, cmd[t] = c => c \in fence \/ want[t] \in {"none", "hold"},
             outbox' = [d \in Commands |-> IF d \in {cmd[t]} THEN Updated(d, want[t]) ELSE outbox[d]]
      PROVE  FALSE
  BY <1>1, <1>3 DEF Updated
<1>4. ASSUME NEW t \in Tasks, LockedWritten(t) PROVE FALSE
  <2>1. t \notin Submissions => want[t] = "none" BY <1>4 DEF ProvenInvariant, RemovalsKnown, LockedWritten
  <2>2. t \in Submissions /\ cmd[t] = c => Submitting(c)
    BY <1>4, TaskFacts DEF OutboxInvariant, OutboxShape, LockedWritten, Submitting
  <2> QED BY <1>1, <1>3, <1>4, <2>1, <2>2 DEF LockedWritten, Write
<1>5. ASSUME NEW t \in Reconcilers, UnlockedWritten(t) PROVE FALSE
  <2>1. cmd[t] = c /\ want[t] \notin {"none", "hold"} => c \in fence
    BY <1>5 DEF ProvenInvariant, PutsOvertaken, Overtaken, UnlockedWritten
  <2> QED BY <1>3, <1>5, <2>1, TaskFacts DEF UnlockedWritten, Write
<1>6. ASSUME Cleared PROVE FALSE
  BY <1>1, <1>6 DEF Cleared, Write
<1> QED BY <1>2, <1>4, <1>5, <1>6, EntriesWritten

LEMMA ProvenInvariantHolds == OutboxSpec => []ProvenInvariant
<1>1. OutboxInvariant /\ ProvenInvariant /\ [OutboxNext]_outboxVars => ProvenInvariant'
  BY StepProven
<1> QED BY <1>1, InitProven, OutboxInvariantHolds, PTL DEF OutboxSpec

(* Once the proof of a prompt was accepted and its entry removed, no task   *)
(* that was at work on it makes the entry anew, whatever it had read, heard *)
(* or queued before: only a submission by the user does.                    *)
THEOREM ProofIsFinalHolds == OutboxSpec => ProofIsFinal
<1> DEFINE Kept == \A c \in proven :
        outbox[c] = "none" /\ outbox'[c] # "none" => At(Submission(c), "first")
<1>1. OutboxInvariant /\ ProvenInvariant /\ [OutboxNext]_outboxVars => [Kept]_outboxVars
  BY OnlyFirstWrittenRevives
<1> QED BY <1>1, OutboxInvariantHolds, ProvenInvariantHolds, PTL DEF OutboxSpec, ProofIsFinal
=============================================================================
