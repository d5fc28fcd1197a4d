----------------------------- MODULE OAuthBroker -----------------------------
(* Sign-in on the host: the attempt journal (hostd/oauth-attempt-store.ts), *)
(* the broker over it (hostd/oauth-session-broker.ts), its helper processes *)
(* (hostd/runtime-oauth.ts) and the framed connections requests arrive on.  *)
(* An attempt has one record; login and the storing of credentials each     *)
(* follow a durable mark; what a crash leaves is classified at restart.     *)
(*                                                                          *)
(* Awaits inside one transition of an attempt are no steps: its session     *)
(* runs one at a time, and an attempt without a session has one writer.     *)
(* A start holds the admission lane over its awaits, and those are steps.   *)
(* Left out: time (a session expires when it will, compaction comes long    *)
(* after the last connection), the limits of the journal, and challenges.   *)
EXTENDS Naturals, Sequences, FiniteSets, SequencesExt

CONSTANTS
    Attempts,
    MaxConnections      \* connections of the desktop, numbered as they come

ASSUME OAuthAssumption == MaxConnections \in Nat \ {0}

Connections == 1..MaxConnections

VARIABLES
    rec,        \* durable: the record of each attempt
    process,    \* the host process: "up", "closing" or "down"
    sick,       \* a write of the journal was ambiguous: nothing is served
    secure,     \* this process has not seen the credential directory drift
    run,        \* where the session of an attempt stands; "idle": none, or over
    helper,     \* the helper process alive for an attempt
    logins,     \* history: login helpers started for an attempt
    kept,       \* history: attempts whose credentials were stored
    refused,    \* history: who turned down what the other faithfully did
    open,       \* connections whose input has not ended at the host
    inbox,      \* requests on a connection, the first being served
    at,         \* how far the first request of a connection is served
    absentSeen, \* the newest connection told that an attempt is absent
    answer      \* what came back for the request an attempt waits for

journal == <<rec, sick, refused>>
host == <<process, secure>>
session == <<run, helper, logins, kept>>
wire == <<open, inbox, at, absentSeen, answer>>

-----------------------------------------------------------------------------
(* Records; an intent to cancel is kept only while it decides something.    *)

NoRecord ==
    [phase |-> "none", rev |-> 0, why |-> "none", intent |-> "none", acked |-> FALSE]
Prepared == [NoRecord EXCEPT !.phase = "prepared"]

Terminal == {"completed", "cancelled", "failed"}
Barrier(r) == r.phase \notin Terminal \cup {"none"}

PhaseOf(resolution) ==
    CASE resolution = "persistence_confirmed" -> "completed"
      [] resolution = "user_cancelled" -> "cancelled"
      [] OTHER -> "failed"

CancelResolution == [user |-> "user_cancelled", expired |-> "expired",
                     shutdown |-> "host_shutdown"]

Advanced(r, phase) == [r EXCEPT !.phase = phase, !.rev = @ + 1]
Cancelling(r, intent) == [Advanced(r, "cancelling") EXCEPT !.intent = intent]
Settled(r, resolution) ==
    [Advanced(r, PhaseOf(resolution)) EXCEPT !.why = resolution, !.intent = "none"]
Acknowledged(r) == [r EXCEPT !.rev = @ + 1, !.acked = TRUE]

RecoveryReason == [login_dispatching |-> "login_helper",
                   persistence_dispatching |-> "storage_helper",
                   cancelling |-> "cancelling_helper"]
Unconfirmed(r) ==
    [Advanced(r, "recovery_required") EXCEPT
        !.why = RecoveryReason[r.phase], !.intent = "none"]

(* The two tables the journal holds every record and every change against.  *)
Revisions(r) ==
    CASE r.phase = "prepared" -> {0}
      [] r.phase = "login_dispatching" -> {1}
      [] r.phase \in {"credentials_ready", "cancelling"} -> {2}
      [] r.phase = "persistence_dispatching" -> {3}
      [] r.why = "login_helper" -> {2}
      [] r.why = "cancelling_helper" -> {3}
      [] r.why = "storage_helper" -> {4}
      [] r.why = "interrupted_before_login_dispatch" -> {1}
      [] r.why = "provider_login_failed" -> {2}
      [] r.why = "credentials_discarded" -> {3}
      [] r.why \in {"persistence_confirmed", "persistence_failed"} -> {4}
      [] OTHER -> {1, 3}
ReachableRevision(r) == (IF r.acked THEN r.rev - 1 ELSE r.rev) \in Revisions(r)

LegalTransition(old, new) ==
    \/ old.phase = "none" /\ new.phase = "prepared"
    \/ old.phase \in Terminal /\ new = Acknowledged(old) /\ ~old.acked
    \/ /\ Barrier(old) /\ new.phase \in Terminal
       /\ CASE old.phase = "prepared" ->
                 new.why \in {"interrupted_before_login_dispatch", "user_cancelled",
                              "expired", "host_shutdown"}
            [] old.phase = "login_dispatching" -> new.why = "provider_login_failed"
            [] old.phase = "credentials_ready" -> new.why = "credentials_discarded"
            [] old.phase = "persistence_dispatching" ->
                 new.why \in {"persistence_confirmed", "persistence_failed"}
            [] old.phase = "cancelling" -> new.why = CancelResolution[old.intent]
            [] OTHER -> FALSE
    \/ <<old.phase, new.phase>> \in
         {<<"prepared", "login_dispatching">>,
          <<"login_dispatching", "credentials_ready">>,
          <<"login_dispatching", "cancelling">>,
          <<"login_dispatching", "recovery_required">>,
          <<"credentials_ready", "persistence_dispatching">>,
          <<"persistence_dispatching", "recovery_required">>,
          <<"cancelling", "recovery_required">>}

Accepts(old, new) == LegalTransition(old, new) /\ ReachableRevision(new)

(* A write that is confirmed, and one that is not: it may be visible without *)
(* being durable, and the journal then refuses every call until a restart.  *)
Write(a, r) ==
    /\ ~sick /\ Accepts(rec[a], r)
    /\ rec' = [rec EXCEPT ![a] = r]
    /\ UNCHANGED <<sick, refused>>

WriteFails(a, r) ==
    /\ sick' = TRUE
    /\ IF sick THEN UNCHANGED <<rec, refused>>
       ELSE IF Accepts(rec[a], r)
       THEN rec' \in {rec, [rec EXCEPT ![a] = r]} /\ UNCHANGED refused
       ELSE UNCHANGED rec /\ refused' = refused \cup {"journal"}

-----------------------------------------------------------------------------
(* The session of an attempt                                                *)

Live(a) == run[a] \notin {"idle", "held"}
Busy == \E a \in Attempts : run[a] # "idle"

Moves(a, to) == run' = [run EXCEPT ![a] = to]

(* The run goes on to `to`, or, when the journal fails, keeps the provider. *)
Step(a, r, to) ==
    \/ Write(a, r) /\ Moves(a, to)
    \/ WriteFails(a, r) /\ Moves(a, "held")

Keeps(a) == Moves(a, "held") /\ UNCHANGED journal
Frees(a) == Moves(a, "idle") /\ UNCHANGED journal

SettleCancellation(a) == Step(a, Settled(rec[a], CancelResolution[rec[a].intent]), "idle")

HelperGone(a) == helper' = [helper EXCEPT ![a] = "none"]

(* A helper's end and what the journal makes of it are one step: whatever   *)
(* comes in between could as well come before. A login that returns after   *)
(* its time is one that expired just before.                                *)
LoginReturns(a) ==
    /\ run[a] = "login"
    /\ HelperGone(a)
    /\ CASE sick -> Keeps(a)
         [] ~sick /\ rec[a].phase = "cancelling" -> SettleCancellation(a)
         [] ~sick /\ rec[a].phase \in Terminal -> Frees(a)
         [] ~sick /\ rec[a].phase = "login_dispatching" ->
              Step(a, Advanced(rec[a], "credentials_ready"), "committing")
         [] OTHER -> Keeps(a)
    /\ UNCHANGED <<host, logins, kept, wire>>

CredentialsDispatchedBlindly(a) ==
    /\ run[a] = "committing"
    /\ Moves(a, "storing") /\ helper' = [helper EXCEPT ![a] = "storage"]
    /\ IF ~sick /\ rec[a].phase = "credentials_ready"
       THEN Write(a, Advanced(rec[a], "persistence_dispatching"))
       ELSE UNCHANGED journal
    /\ UNCHANGED <<host, logins, kept, wire>>

CredentialsDispatched(a) ==
    /\ run[a] = "committing"
    /\ LET dispatching == Advanced(rec[a], "persistence_dispatching")
       IN  CASE sick -> Keeps(a) /\ UNCHANGED helper
             [] ~sick /\ rec[a].phase \in Terminal -> Frees(a) /\ UNCHANGED helper
             [] ~sick /\ rec[a].phase = "credentials_ready" ->
                  \/ /\ Write(a, dispatching) /\ Moves(a, "storing")
                     /\ helper' = [helper EXCEPT ![a] = "storage"]
                  \/ WriteFails(a, dispatching) /\ Moves(a, "held") /\ UNCHANGED helper
             [] OTHER -> Keeps(a) /\ UNCHANGED helper
    /\ UNCHANGED <<host, logins, kept, wire>>

StorageConfirms(a) ==
    /\ run[a] = "storing" /\ a \in kept
    /\ HelperGone(a)
    /\ IF ~sick /\ rec[a].phase = "persistence_dispatching"
       THEN Step(a, Settled(rec[a], "persistence_confirmed"), "idle")
       ELSE Keeps(a)
    /\ UNCHANGED <<host, logins, kept, wire>>

FailureResolution == [prepared |-> "interrupted_before_login_dispatch",
                      login_dispatching |-> "provider_login_failed",
                      credentials_ready |-> "credentials_discarded",
                      persistence_dispatching |-> "persistence_failed"]

(* handleAttemptRunError, for a helper that was seen to end or was not      *)
RunError(a, observed) ==
    CASE sick -> Keeps(a)
      [] ~sick /\ rec[a].phase \in Terminal -> Frees(a)
      [] ~sick /\ Barrier(rec[a]) /\ ~observed ->
           IF rec[a].phase \in DOMAIN RecoveryReason
           THEN Step(a, Unconfirmed(rec[a]), "held")
           ELSE Keeps(a)
      [] ~sick /\ rec[a].phase = "cancelling" /\ observed -> SettleCancellation(a)
      [] ~sick /\ rec[a].phase \in DOMAIN FailureResolution /\ observed ->
           Step(a, Settled(rec[a], FailureResolution[rec[a].phase]), "idle")
      [] OTHER -> Keeps(a)

(* A helper that fails is killed, and then seen to end, or not.             *)
HelperFails(a) ==
    /\ run[a] \in {"login", "storing"}
    /\ \/ HelperGone(a) /\ RunError(a, TRUE)
       \/ UNCHANGED helper /\ RunError(a, FALSE)
    /\ UNCHANGED <<host, logins, kept, wire>>

(* The credential directory drifts while credentials are stored: each call   *)
(* of the confirmation fails, the last (getAuthStatus) before the close of   *)
(* the storage helper, so the run fails with the helper alive; the provider  *)
(* is withdrawn until the host restarts.                                    *)
CustodyDrifts(a) ==
    /\ run[a] = "storing"
    /\ secure' = FALSE
    /\ RunError(a, TRUE)
    /\ UNCHANGED <<process, helper, logins, kept, wire>>

(* What a helper does by itself, its run waiting or long gone.              *)
HelperStores(a) ==
    /\ helper[a] = "storage" /\ a \notin kept
    /\ kept' = kept \cup {a}
    /\ UNCHANGED <<journal, host, run, helper, logins, wire>>

HelperEnds(a) ==
    /\ helper[a] # "none" /\ run[a] \notin {"login", "storing"}
    /\ HelperGone(a)
    /\ UNCHANGED <<journal, host, run, logins, kept, wire>>

(* cancelAttemptSession, up to its wait for the run.                        *)
CancelSession(a, intent) ==
    CASE sick -> UNCHANGED journal
      [] ~sick /\ rec[a].phase = "login_dispatching" ->
           \/ Write(a, Cancelling(rec[a], intent))
           \/ WriteFails(a, Cancelling(rec[a], intent))
      [] ~sick /\ rec[a].phase = "credentials_ready" ->
           \/ Write(a, Settled(rec[a], "credentials_discarded"))
           \/ WriteFails(a, Settled(rec[a], "credentials_discarded"))
      [] OTHER -> UNCHANGED journal

SessionExpires(a) ==
    /\ Live(a) /\ rec[a].phase \in {"login_dispatching", "credentials_ready"} /\ ~sick
    /\ CancelSession(a, "expired")
    /\ UNCHANGED <<host, session, wire>>

SessionStep(a) ==
    \/ HelperFails(a) \/ CustodyDrifts(a) \/ CredentialsDispatched(a) \/ StorageConfirms(a)
    \/ SessionExpires(a)

-----------------------------------------------------------------------------
(* Requests: a framed connection serves them one by one.                    *)

\* live: the desktop still waits for the answer
Requests == [kind : {"start", "status", "cancel", "ack"}, a : Attempts, rev : Nat, live : BOOLEAN]

(* The requests of a queue that are among `these`, in their order.          *)
Remaining(q, these) ==
    LET first[n \in 0..Len(q)] ==
          IF n = 0 THEN <<>>
          ELSE IF q[n] \in these THEN Append(first[n - 1], q[n]) ELSE first[n - 1]
    IN  first[Len(q)]

\* an answer that is an error asks for the same as none at all
NoAnswer == [ok |-> FALSE, rec |-> NoRecord, page |-> FALSE]
Answer(r, page) == [ok |-> TRUE, rec |-> r, page |-> page]

Serving(c, kind, stage) ==
    process # "down" /\ inbox[c] # <<>> /\ inbox[c][1].kind = kind /\ at[c] = stage
Of(c) == inbox[c][1].a

Reply(c, body) ==
    /\ inbox' = [inbox EXCEPT ![c] = Tail(@)]
    /\ at' = [at EXCEPT ![c] = "idle"]
    /\ answer' = IF inbox[c][1].live THEN [answer EXCEPT ![Of(c)] = body] ELSE answer

Reaches(c, stage) == at' = [at EXCEPT ![c] = stage] /\ UNCHANGED <<inbox, answer>>

Serves == process = "up" /\ ~sick

(* Starts and status reads take turns: withAttemptAdmission                 *)
LaneFree == \A c \in Connections : at[c] \notin {"prepared", "marked"}

EntitledWhileOpen(c) == process = "up" /\ c \in open

(* The connection can still start an attempt.                               *)
Entitled(c) == process = "up" /\ c \in open /\ c >= absentSeen

MayPrepare(c, a) ==
    /\ Entitled(c) /\ ~sick /\ secure
    /\ rec[a] = NoRecord /\ ~Busy
    /\ \A b \in Attempts : ~Barrier(rec[b])

StartPrepare(c) ==
    /\ Serving(c, "start", "idle") /\ LaneFree
    /\ IF MayPrepare(c, Of(c))
       THEN \/ Write(Of(c), Prepared) /\ Reaches(c, "prepared")
            \/ WriteFails(Of(c), Prepared) /\ Reply(c, NoAnswer)
       ELSE Reply(c, NoAnswer) /\ UNCHANGED journal
    /\ UNCHANGED <<host, session, open, absentSeen>>

(* Behind this mark the login may be dispatched.                            *)
StartMark(c) ==
    /\ Serving(c, "start", "prepared")
    /\ LET dispatching == Advanced(Prepared, "login_dispatching")
       IN  IF Entitled(c) /\ rec[Of(c)] = Prepared
           THEN \/ Write(Of(c), dispatching) /\ Reaches(c, "marked")
                \/ WriteFails(Of(c), dispatching) /\ Reply(c, NoAnswer)
           ELSE Reply(c, NoAnswer) /\ UNCHANGED journal
    /\ UNCHANGED <<host, session, open, absentSeen>>

StartRun(c) ==
    /\ Serving(c, "start", "marked")
    /\ LET a == Of(c)
       IN  IF Entitled(c)
           THEN /\ Moves(a, "login")
                /\ helper' = [helper EXCEPT ![a] = "login"]
                /\ logins' = [logins EXCEPT ![a] = @ + 1]
                /\ Reply(c, Answer(rec[a], FALSE))
           ELSE Reply(c, NoAnswer) /\ UNCHANGED <<run, helper, logins>>
    /\ UNCHANGED <<journal, host, kept, open, absentSeen>>

(* Whether the page to sign in on can be among what a status read shows.    *)
PageShown(a) ==
    Live(a) /\ rec[a].phase \in
                  {"login_dispatching", "credentials_ready", "persistence_dispatching"}

Status(c) ==
    /\ Serving(c, "status", "idle") /\ LaneFree
    /\ IF Serves
       THEN Reply(c, Answer(rec[Of(c)], PageShown(Of(c))))
       ELSE Reply(c, NoAnswer)
    /\ absentSeen' = IF Serves /\ rec[Of(c)] = NoRecord /\ c \in open /\ c > absentSeen
                     THEN c ELSE absentSeen
    /\ UNCHANGED <<journal, host, session, open>>

(* A cancellation of a session waits for its run, unless there is nothing   *)
(* to interrupt; without a session only a prepared record can be settled.   *)
Cancel(c) ==
    /\ Serving(c, "cancel", "idle")
    /\ LET a == Of(c)
           settled == Settled(rec[a], "user_cancelled")
       IN  CASE ~Serves \/ rec[a] = NoRecord -> Reply(c, NoAnswer) /\ UNCHANGED journal
             [] Serves /\ rec[a] # NoRecord /\ run[a] # "idle" ->
                  CancelSession(a, "user") /\ Reaches(c, "waiting")
             [] Serves /\ run[a] = "idle" /\ rec[a].phase = "prepared" ->
                  \/ Write(a, settled) /\ Reply(c, Answer(settled, FALSE))
                  \/ WriteFails(a, settled) /\ Reply(c, NoAnswer)
             [] Serves /\ run[a] = "idle" /\ rec[a].phase \in Terminal ->
                  Reply(c, Answer(rec[a], FALSE)) /\ UNCHANGED journal
             [] OTHER -> Reply(c, NoAnswer) /\ UNCHANGED journal
    /\ UNCHANGED <<host, session, open, absentSeen>>

CancelReturns(c) ==
    /\ Serving(c, "cancel", "waiting")
    /\ LET a == Of(c)
       IN  /\ ~Live(a) \/ sick \/ rec[a].phase = "recovery_required"
           /\ Reply(c, IF ~sick /\ rec[a].phase \in Terminal
                       THEN Answer(rec[a], FALSE) ELSE NoAnswer)
    /\ UNCHANGED <<journal, host, session, open, absentSeen>>

Acknowledge(c) ==
    /\ Serving(c, "ack", "idle")
    /\ LET a == Of(c)
           expected == inbox[c][1].rev
       IN  CASE Serves /\ rec[a].acked /\ rec[a].rev = expected + 1 ->
                  Reply(c, Answer(rec[a], FALSE)) /\ UNCHANGED journal
             [] Serves /\ rec[a].phase \in Terminal /\ ~rec[a].acked /\ rec[a].rev = expected ->
                  \/ /\ Write(a, Acknowledged(rec[a]))
                     /\ Reply(c, Answer(Acknowledged(rec[a]), FALSE))
                  \/ WriteFails(a, Acknowledged(rec[a])) /\ Reply(c, NoAnswer)
             [] OTHER -> Reply(c, NoAnswer) /\ UNCHANGED journal
    /\ UNCHANGED <<host, session, open, absentSeen>>

Request(c) ==
    \/ StartPrepare(c) \/ StartMark(c) \/ StartRun(c) \/ Status(c)
    \/ Cancel(c) \/ CancelReturns(c) \/ Acknowledge(c)

-----------------------------------------------------------------------------
(* The process and its connections                                          *)

(* The input of a connection the desktop has left ends. A start that was    *)
(* not entered is given up, the rest is drained, or all of it is lost.      *)
InputEnds(c) ==
    /\ c \in open
    /\ open' = open \ {c}
    /\ LET entered == IF at[c] = "idle" THEN <<>> ELSE SubSeq(inbox[c], 1, 1)
           queued == IF at[c] = "idle" THEN inbox[c] ELSE Tail(inbox[c])
           drained == Remaining(queued, {q \in Requests : q.kind \in {"cancel", "ack"}})
       IN  \E rest \in {<<>>, drained} : inbox' = [inbox EXCEPT ![c] = entered \o rest]
    /\ UNCHANGED <<journal, host, session, at, absentSeen, answer>>

(* A host with nothing under way, or one that serves nothing any more, goes *)
(* straight to its end.                                                     *)
BeginClose ==
    /\ process = "up"
    /\ ~LaneFree \/ (~sick /\ \E a \in Attempts : Live(a))
    /\ process' = "closing"
    /\ IF \E a \in Attempts : Live(a)
       THEN \E a \in Attempts : Live(a) /\ CancelSession(a, "shutdown")
       ELSE UNCHANGED journal
    /\ UNCHANGED <<secure, session, wire>>

(* The process ends, by itself or not; a helper may outlive it.             *)
Stop ==
    /\ process # "down"
    /\ process' = "down"
    /\ run' = [a \in Attempts |-> "idle"]
    /\ open' = {}
    /\ inbox' = [c \in Connections |-> <<>>]
    /\ at' = [c \in Connections |-> "idle"]
    /\ absentSeen' = 0
    /\ secure' = TRUE
    /\ UNCHANGED <<journal, helper, logins, kept, answer>>

ClassifiedAsFailed(r) ==
    IF r.phase \in DOMAIN FailureResolution
    THEN Settled(r, FailureResolution[r.phase]) ELSE r

(* classifyRestart                                                          *)
Classified(r) ==
    CASE r.phase = "prepared" -> Settled(r, "interrupted_before_login_dispatch")
      [] r.phase = "credentials_ready" -> Settled(r, "credentials_discarded")
      [] r.phase \in DOMAIN RecoveryReason -> Unconfirmed(r)
      [] OTHER -> r

Restart ==
    /\ process = "down"
    /\ process' = "up"
    /\ sick' = FALSE
    /\ rec' = [a \in Attempts |-> Classified(rec[a])]
    /\ refused' = IF /\ Cardinality({a \in Attempts : Barrier(rec[a])}) <= 1
                     /\ \A a \in Attempts : rec[a] = NoRecord \/ ReachableRevision(Classified(rec[a]))
                  THEN refused ELSE refused \cup {"journal"}
    /\ UNCHANGED <<secure, session, wire>>

BrokerInit ==
    /\ rec = [a \in Attempts |-> NoRecord]
    /\ process = "up" /\ sick = FALSE /\ secure = TRUE
    /\ run = [a \in Attempts |-> "idle"]
    /\ helper = [a \in Attempts |-> "none"]
    /\ logins = [a \in Attempts |-> 0]
    /\ kept = {} /\ refused = {} /\ open = {}
    /\ inbox = [c \in Connections |-> <<>>]
    /\ at = [c \in Connections |-> "idle"]
    /\ absentSeen = 0
    /\ answer = [a \in Attempts |-> NoAnswer]

=============================================================================
