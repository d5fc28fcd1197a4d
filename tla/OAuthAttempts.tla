---------------------------- MODULE OAuthAttempts ----------------------------
(* Sign-in end to end: the desktop's attempt ledger                         *)
(* (main/control/runtime-oauth-attempt-store.ts) and the control service's  *)
(* operations on it (main/control/service.ts), over the host's broker.      *)
(* The desktop writes its ledger before the one start request, reads status *)
(* for anything it did not hear, and opens the page to sign in on once.     *)
(* Operations on one attempt run one at a time; an operation's writes, its  *)
(* requests and the opening of the page are steps of their own. A status    *)
(* read that follows a start is the same here whether the start or the      *)
(* renderer asks; a settled attempt is not asked about again. Failures of   *)
(* the ledger's own writes and its compaction are left out.                 *)
EXTENDS OAuthBroker

CONSTANT MaxQueue       \* requests that may be outstanding on a connection

ASSUME QueueAssumption == MaxQueue \in Nat \ {0}

VARIABLES
    led,        \* durable: the desktop's record of each attempt
    link,       \* the connection the desktop is on, or 0
    next,       \* the number the next connection gets
    op,         \* the operation under way on an attempt
    eligible,   \* attempts whose page this connection may still open
    owed,       \* attempts the renderer cannot ask about, yet to be reconciled
    told,       \* history: attempts the host was heard to know nothing of
    born,       \* history: attempts whose start was sent on this connection
    pages       \* history: for each opening of a page, whether in `born` then

desktop == <<link, next, owed>>
past == <<told, pages>>
seen == <<past, born>>
calls == <<inbox, answer>>
\* what no step of the desktop changes
theHost == <<rec, host, sick, session, open, at, absentSeen>>
broker == <<theHost, refused, calls>>
vars == <<broker, led, op, eligible, desktop, seen>>

-----------------------------------------------------------------------------
(* The ledger                                                               *)

NoEntry == [phase |-> "none", hostPhase |-> "none", why |-> "none", acked |-> FALSE]

Unsettled(e) == e.phase \notin Terminal \cup {"none"}
DesktopBarrier(e) == Unsettled(e) \/ (e.hostPhase # "none" /\ ~e.acked)

(* PHASE_TRANSITIONS                                                        *)
Outcomes == Terminal \cup {"recovery_required", "cancel_dispatching"}
PhaseTransitions ==
    [prepared |-> {"start_dispatching", "failed"},
     start_dispatching |-> {"host_admitted", "recovery_required", "failed"},
     host_admitted |-> {"browser_dispatching"} \cup Outcomes,
     browser_dispatching |-> {"browser_opened"} \cup Outcomes,
     browser_opened |-> {"observing"} \cup Outcomes,
     observing |-> Outcomes,
     cancel_dispatching |-> Outcomes \ {"cancel_dispatching"},
     recovery_required |-> Outcomes \ {"recovery_required"},
     completed |-> {}, cancelled |-> {}, failed |-> {}]

(* HOST_PHASE_TRANSITIONS, and runtimeOAuthHostPhaseCanFollow, its copy     *)
HostPhaseTransitions ==
    LET afterReady == {"persistence_dispatching", "cancelling", "recovery_required"} \cup Terminal
    IN  [prepared |-> {"prepared", "login_dispatching", "credentials_ready"} \cup afterReady,
         login_dispatching |-> {"login_dispatching", "credentials_ready"} \cup afterReady,
         credentials_ready |-> {"credentials_ready"} \cup afterReady,
         persistence_dispatching |->
            {"persistence_dispatching", "recovery_required", "completed", "failed"},
         cancelling |-> {"cancelling", "recovery_required", "cancelled", "failed"},
         recovery_required |-> {"recovery_required", "cancelled", "failed"},
         completed |-> {"completed"}, cancelled |-> {"cancelled"}, failed |-> {"failed"}]

HostPhaseFollowsUserOnly(from, to) ==
    \/ from = "none"
    \/ to \in HostPhaseTransitions[from] /\ <<from, to>> # <<"cancelling", "failed">>

HostPhaseFollows(from, to) == from = "none" \/ to \in HostPhaseTransitions[from]

Coherent(e) ==
    /\ e.phase \in Terminal => \/ e.hostPhase = e.phase
                               \/ /\ e.hostPhase = "none" /\ e.phase = "failed"
                                  /\ e.why = "interrupted_before_login_dispatch"
    /\ e.phase \in {"prepared", "start_dispatching"} => e.hostPhase = "none"
    /\ e.phase = "recovery_required" => e.hostPhase \in {"none", "recovery_required"}
    /\ e.phase \in {"host_admitted", "browser_dispatching", "browser_opened", "observing"} =>
          e.hostPhase \in {"prepared", "login_dispatching", "credentials_ready",
                           "persistence_dispatching", "cancelling"}

Allowed(e, new) ==
    /\ new.phase \in PhaseTransitions[e.phase]
    /\ e.phase = "prepared" => new.hostPhase = "none"
    /\ HostPhaseFollows(e.hostPhase, new.hostPhase)
    /\ Coherent(new)

(* A write the ledger turns down is the desktop's own contradiction.        *)
Enter(a, e) ==
    IF Allowed(led[a], e) THEN led' = [led EXCEPT ![a] = e] /\ UNCHANGED refused
    ELSE UNCHANGED led /\ refused' = refused \cup {"desktop"}
HostFree(e) == [e EXCEPT !.phase = "failed", !.why = "interrupted_before_login_dispatch"]

-----------------------------------------------------------------------------
(* Operations and their requests                                            *)

Idle == [pc |-> "idle", conn |-> 0, stale |-> FALSE]
Awaits == {"start", "startStatus", "status", "cancel", "ack", "ackStatus"}
\* where an operation looks whether it has become stale; a status read finds
\* its attempt not eligible any more
Cautious == {"prepared", "marked", "start", "startStatus", "browser", "opened"}

To(a, pc) == op' = [op EXCEPT ![a].pc = pc]
Ends(a) == op' = [op EXCEPT ![a] = Idle]
Begin(a, pc) == op' = [op EXCEPT ![a] = [pc |-> pc, conn |-> link, stale |-> FALSE]]

(* A request on the link; one sent to a host that is gone is lost. What     *)
(* nobody waits for any more is not heard; a read of that kind changes      *)
(* nothing, and is left out.                                                *)
Unheard(q, who) ==
    Remaining([i \in DOMAIN q |-> [q[i] EXCEPT !.live = @ /\ q[i].a \notin who]],
              {m \in Requests : m.live \/ m.kind # "status"})
Sent(a, kind, rev) ==
    /\ answer' = [answer EXCEPT ![a] = NoAnswer]
    /\ IF link \in open
       THEN /\ Len(Unheard(inbox[link], {a})) < MaxQueue
            /\ inbox' = [inbox EXCEPT ![link] =
                 Append(Unheard(@, {a}), [kind |-> kind, a |-> a, rev |-> rev, live |-> TRUE])]
       ELSE UNCHANGED inbox
GivenUp(a) ==
    /\ answer' = [answer EXCEPT ![a] = NoAnswer]
    /\ inbox' = [inbox EXCEPT ![link] = Unheard(@, {a})]

(* A connection is lost, or given up: what waits for an answer fails, what  *)
(* does not goes on and notices by itself.                                  *)
Unlinked ==
    /\ link' = 0 /\ owed' = {} /\ eligible' = {} /\ born' = {}
    /\ inbox' = [inbox EXCEPT ![link] = Unheard(@, Attempts)]
    /\ answer' = [a \in Attempts |-> NoAnswer]
    /\ op' = [a \in Attempts |-> IF op[a].pc \in Awaits THEN Idle ELSE op[a]]
    /\ UNCHANGED next

(* startRuntimeOAuth                                                        *)
StartSignIn(a) ==
    /\ link # 0 /\ led[a] = NoEntry /\ op[a].pc = "idle"
    /\ \A b \in Attempts : ~DesktopBarrier(led[b])
    /\ led' = [led EXCEPT ![a].phase = "prepared"]
    /\ Begin(a, "prepared")
    /\ UNCHANGED <<broker, desktop, eligible, seen>>

DispatchStart(a) ==
    /\ op[a].pc = "prepared"
    /\ IF op[a].stale
       THEN Enter(a, HostFree(led[a])) /\ Ends(a)
       ELSE Enter(a, [led[a] EXCEPT !.phase = "start_dispatching"]) /\ To(a, "marked")
    /\ UNCHANGED <<theHost, calls, desktop, eligible, seen>>

SendStart(a) ==
    /\ op[a].pc = "marked"
    /\ CASE op[a].stale ->
              Enter(a, HostFree(led[a])) /\ Ends(a) /\ UNCHANGED <<calls, born>>
         [] ~op[a].stale /\ op[a].conn # link ->
              Ends(a) /\ UNCHANGED <<led, refused, calls, born>>
         [] OTHER ->
              /\ Sent(a, "start", 0) /\ To(a, "start")
              /\ born' = born \cup {a}
              /\ UNCHANGED <<led, refused>>
    /\ UNCHANGED <<theHost, desktop, eligible, past>>

(* runtimeOAuthStatus, and reconcileRuntimeOAuthAttemptsAfterConnect        *)
AskStatus(a) ==
    /\ link # 0 /\ op[a].pc = "idle" /\ DesktopBarrier(led[a])
    /\ a \in owed \/ led[a].hostPhase # "none"
    /\ Sent(a, "status", 0) /\ Begin(a, "status")
    /\ owed' = owed \ {a}
    /\ UNCHANGED <<theHost, refused, led, link, next, eligible, seen>>

(* cancelRuntimeOAuth                                                       *)
CancelSignIn(a) ==
    /\ link # 0 /\ op[a].pc = "idle"
    /\ DesktopBarrier(led[a]) /\ led[a].hostPhase # "none"
    /\ eligible' = eligible \ {a}
    /\ IF led[a].phase \in Terminal \cup {"cancel_dispatching"}
       THEN Sent(a, "status", 0) /\ Begin(a, "status") /\ UNCHANGED <<led, refused>>
       ELSE /\ Enter(a, [led[a] EXCEPT !.phase = "cancel_dispatching"])
            /\ Sent(a, "cancel", 0) /\ Begin(a, "cancel")
    /\ UNCHANGED <<theHost, desktop, seen>>

(* No answer in time, or an error: nothing is sent twice; what a start, a   *)
(* cancellation or an acknowledgement did is read from the status, once.    *)
ReadInstead == [start |-> "startStatus", cancel |-> "status", ack |-> "ackStatus"]

Unanswered(a) ==
    /\ op[a].pc \in Awaits /\ ~answer[a].ok
    /\ IF op[a].pc \in DOMAIN ReadInstead
       THEN Sent(a, "status", 0) /\ To(a, ReadInstead[op[a].pc])
       ELSE GivenUp(a) /\ Ends(a)
    /\ UNCHANGED <<theHost, refused, led, desktop, eligible, seen>>

-----------------------------------------------------------------------------
(* acceptRuntimeOAuthAttemptResult, a write or a request at a time          *)

Accepting(a) == op[a].pc \in {"start", "startStatus", "status", "cancel"} /\ answer[a].ok
Took(a) == answer' = [answer EXCEPT ![a] = NoAnswer]

(* An absence ends an attempt that was not sent, or, on the connection of    *)
(* its start, one that the host then cannot have admitted.                  *)
AcceptAbsence(a) ==
    /\ Accepting(a) /\ answer[a].rec = NoRecord
    /\ told' = told \cup {a}
    /\ IF \/ led[a].phase = "prepared"
          \/ led[a].phase = "start_dispatching" /\ op[a].pc = "startStatus"
       THEN Enter(a, HostFree(led[a]))
       ELSE IF led[a].phase \in {"start_dispatching", "recovery_required"} \cup Terminal
       THEN UNCHANGED <<led, refused>>
       ELSE Enter(a, [led[a] EXCEPT !.phase = "recovery_required",
                                    !.hostPhase = "recovery_required"])
    /\ Ends(a) /\ Took(a)
    /\ UNCHANGED <<theHost, inbox, desktop, eligible, born, pages>>

(* What the ledger makes of a record; a completed or cancelled one that     *)
(* follows on a start is first noted as admitted.                           *)
Noted(e, h) ==
    LET admitted == IF h.phase = "completed" THEN "persistence_dispatching"
                    ELSE IF h.phase = "cancelled" THEN "cancelling" ELSE h.phase
    IN  IF ~Unsettled(e) THEN e
        ELSE CASE e.phase = "start_dispatching" /\ h.phase \notin {"failed", "recovery_required"} ->
                    [e EXCEPT !.phase = "host_admitted", !.hostPhase = admitted]
               [] h.phase = "recovery_required" ->
                    [e EXCEPT !.phase = "recovery_required", !.hostPhase = "recovery_required"]
               [] h.phase \in Terminal /\ (e.phase # "start_dispatching" \/ h.phase = "failed") ->
                    [e EXCEPT !.phase = h.phase, !.hostPhase = h.phase, !.why = h.why]
               [] OTHER -> e

Contradicts(e, h) ==
    \/ e.phase = "prepared"
    \/ ~HostPhaseFollows(e.hostPhase, h.phase)
    \/ e.phase \in Terminal
       /\ (h.phase # e.phase \/ h.why # e.why \/ (e.acked /\ ~h.acked))

Reject ==
    /\ refused' = refused \cup {"desktop"}
    /\ Unlinked
    /\ UNCHANGED <<theHost, led, past>>

AcceptRecord(a) ==
    /\ Accepting(a) /\ answer[a].rec # NoRecord
    /\ LET e == led[a]
           new == Noted(e, answer[a].rec)
           contradiction == Contradicts(e, answer[a].rec)
       IN  /\ contradiction \/ new # e
          /\ IF ~contradiction /\ Allowed(e, new)
             THEN Enter(a, new) /\ UNCHANGED <<theHost, calls, op, desktop, eligible, seen>>
             ELSE Reject

(* Its ledger in step with the record, the operation goes on.               *)
InStep(a) ==
    /\ Accepting(a) /\ answer[a].rec # NoRecord
    /\ ~Contradicts(led[a], answer[a].rec) /\ Noted(led[a], answer[a].rec) = led[a]

AskAcknowledgement(a) ==
    /\ InStep(a) /\ answer[a].rec.phase \in Terminal /\ ~answer[a].rec.acked
    /\ Sent(a, "ack", answer[a].rec.rev) /\ To(a, "ack")
    /\ eligible' = eligible \ {a}
    /\ UNCHANGED <<theHost, refused, led, desktop, seen>>

NoteAcknowledgement(a) ==
    /\ \/ InStep(a) /\ answer[a].rec.acked
       \/ op[a].pc \in {"ack", "ackStatus"} /\ answer[a].ok
    /\ IF answer[a].rec # NoRecord /\ Contradicts(led[a], answer[a].rec) THEN Reject
       ELSE /\ led' = IF answer[a].rec.acked THEN [led EXCEPT ![a].acked = TRUE] ELSE led
            /\ Ends(a) /\ Took(a)
            /\ eligible' = eligible \ {a}
            /\ UNCHANGED <<theHost, refused, inbox, desktop, seen>>

Admitted(a) ==
    /\ InStep(a) /\ answer[a].rec.phase \notin Terminal
    /\ op[a].pc \in {"start", "startStatus"}
    /\ eligible' = IF op[a].stale THEN eligible ELSE eligible \cup {a}
    /\ Ends(a) /\ Took(a)
    /\ UNCHANGED <<theHost, refused, led, inbox, desktop, seen>>

(* The page to sign in on may be opened: dispatchRuntimeOAuthBrowser        *)
PageDue(a) == answer[a].page /\ a \in eligible /\ led[a].phase = "host_admitted"

Observed(a) ==
    /\ InStep(a) /\ answer[a].rec.phase \notin Terminal
    /\ op[a].pc \in {"status", "cancel"}
    /\ Ends(a) /\ Took(a)
    /\ UNCHANGED <<theHost, refused, led, inbox, desktop, eligible, seen>>

DispatchBrowser(a) ==
    /\ InStep(a) /\ op[a].pc = "status" /\ PageDue(a)
    /\ IF answer[a].rec.phase # "login_dispatching" THEN Reject
       ELSE /\ eligible' = eligible \ {a}
            /\ Enter(a, [led[a] EXCEPT !.phase = "browser_dispatching",
                                       !.hostPhase = "login_dispatching"])
            /\ To(a, "browser") /\ Took(a)
            /\ UNCHANGED <<theHost, inbox, desktop, seen>>

(* Nothing is opened on a connection that is gone or about to go; a page    *)
(* whose opening fails may have been seen, and is not opened again.         *)
Turned(a) == op[a].conn # link \/ op[a].stale
OpenPage(a) ==
    /\ op[a].pc = "browser"
    /\ IF Turned(a) THEN Ends(a) /\ UNCHANGED pages
       ELSE /\ pages' = [pages EXCEPT ![a] = Append(@, a \in born)]
            /\ To(a, "opened") \/ Ends(a)
    /\ UNCHANGED <<broker, led, desktop, eligible, told, born>>

PageOpened(a) ==
    /\ op[a].pc \in {"opened", "observing"}
    /\ IF op[a].pc = "opened" /\ Turned(a)
       THEN Ends(a) /\ UNCHANGED <<led, refused>>
       ELSE LET phase == IF op[a].pc = "opened" THEN "browser_opened" ELSE "observing"
            IN  /\ Enter(a, [led[a] EXCEPT !.phase = phase])
                /\ IF op[a].pc = "opened" THEN To(a, "observing") ELSE Ends(a)
    /\ UNCHANGED <<theHost, calls, desktop, eligible, seen>>

-----------------------------------------------------------------------------
(* Connections of the desktop                                               *)

Connect ==
    /\ link = 0 /\ process = "up" /\ next <= MaxConnections
    /\ link' = next /\ next' = next + 1
    /\ open' = open \cup {next}
    /\ owed' = {a \in Attempts : Unsettled(led[a]) /\ led[a].hostPhase = "none"}
    /\ UNCHANGED <<rec, host, sick, session, at, absentSeen, refused, calls,
                   led, op, eligible, seen>>

LoseLink ==
    /\ link # 0
    /\ Unlinked
    /\ UNCHANGED <<theHost, refused, led, past>>

(* The user turns to another host, or back: whatever is under way is stale, *)
(* whether or not the connection is then replaced.                          *)
Transition ==
    /\ link # 0
    /\ eligible' = {}
    /\ op' = [a \in Attempts |-> IF op[a].pc \in Cautious
                                 THEN [op[a] EXCEPT !.stale = TRUE] ELSE op[a]]
    /\ op' # op \/ eligible # {}
    /\ UNCHANGED <<broker, led, desktop, seen>>

DesktopStops ==
    /\ \E a \in Attempts : op[a].pc # "idle"
    /\ IF link # 0 THEN inbox' = [inbox EXCEPT ![link] = Unheard(@, Attempts)]
       ELSE UNCHANGED inbox
    /\ answer' = [a \in Attempts |-> NoAnswer]
    /\ op' = [a \in Attempts |-> Idle]
    /\ link' = 0 /\ owed' = {} /\ eligible' = {} /\ born' = {}
    /\ UNCHANGED <<theHost, refused, led, next, past>>

-----------------------------------------------------------------------------
Init ==
    /\ BrokerInit
    /\ led = [a \in Attempts |-> NoEntry]
    /\ link = 0 /\ next = 1 /\ owed = {}
    /\ op = [a \in Attempts |-> Idle]
    /\ eligible = {} /\ told = {}
    /\ born = {}
    /\ pages = [a \in Attempts |-> <<>>]

(* A login ends well only when its page was opened.                         *)
HostStep ==
    \/ \E a \in Attempts : (pages[a] # <<>> /\ LoginReturns(a))
                         \/ SessionStep(a) \/ HelperStores(a) \/ HelperEnds(a)
    \/ \E c \in Connections : Request(c) \/ (c # link /\ InputEnds(c))
    \/ BeginClose \/ Stop \/ Restart

DesktopStep(a) ==
    \/ StartSignIn(a) \/ DispatchStart(a) \/ SendStart(a) \/ AskStatus(a) \/ CancelSignIn(a)
    \/ Unanswered(a) \/ AcceptAbsence(a) \/ AcceptRecord(a)
    \/ AskAcknowledgement(a) \/ NoteAcknowledgement(a) \/ Admitted(a) \/ Observed(a)
    \/ DispatchBrowser(a) \/ OpenPage(a) \/ PageOpened(a)

Next ==
    \/ HostStep /\ UNCHANGED <<led, op, eligible, desktop, seen>>
    \/ \E a \in Attempts : DesktopStep(a)
    \/ Connect \/ LoseLink \/ Transition \/ DesktopStops

OAuthSpec == Init /\ [][Next]_vars

-----------------------------------------------------------------------------
(* Every effect of a sign-in happens at most once: one login helper, one    *)
(* page, on the connection its start was sent on and in that process of the *)
(* desktop. And at most one helper is alive, across crashes of the host and *)
(* sign-ins that follow one another; only the storage helper that a drift   *)
(* of the credential directory left behind may meet the next one's.         *)
EffectsOnce ==
    /\ \A a \in Attempts : logins[a] <= 1 /\ pages[a] \in {<<>>, <<TRUE>>}
    /\ \A a, b \in Attempts :
         a # b /\ helper[a] # "none" /\ helper[b] # "none" =>
            \E x \in {a, b} : helper[x] = "storage" /\ rec[x].why = "persistence_failed"

(* What the desktop was told the host knows nothing of, and what it settled *)
(* by itself as never begun, the host never begins: no delayed start of an  *)
(* old connection and no restart brings a record of it about.               *)
AbsenceIsFinal ==
    \A a \in Attempts :
        a \in told \/ (led[a].phase = "failed" /\ led[a].hostPhase = "none") =>
            rec[a] = NoRecord

(* A recorded outcome is what happened: completed credentials are stored;   *)
(* a sign-in that was cancelled, expired, shut down, discarded or failed    *)
(* before its storage stores none, then or later, and has no helper left.   *)
(* And the desktop reports the host's outcome, and an acknowledgement only  *)
(* once the host has it on record.                                          *)
OutcomeTruthful ==
    \A a \in Attempts :
        /\ rec[a].phase = "completed" => a \in kept
        /\ rec[a].phase \in Terminal /\ rec[a].why \notin {"persistence_confirmed", "persistence_failed"}
              => a \notin kept /\ helper[a] = "none"
        /\ led[a].phase \in Terminal /\ led[a].hostPhase # "none" =>
              rec[a].phase = led[a].phase /\ rec[a].why = led[a].why
        /\ led[a].acked => rec[a].acked

(* Each side keeps its records within tables written by hand, and ends the  *)
(* connection or the service over what they do not list. What the other     *)
(* side, and its own past, faithfully produce is always listed: no crash,   *)
(* lost answer, cancellation or expiry leads a journal to a write or an     *)
(* answer that is turned down.                                              *)
NeverRefused == refused = {}

=============================================================================
