---------------------------- MODULE DesktopOutbox ----------------------------
(* The desktop's command outbox (src/main/control/service.ts): a command is *)
(* written to a durable file before it is sent, its identity is reserved in *)
(* a ledger, and its entry leaves the file only on the host's own word.     *)
(* Submissions, the reconciliation after a connection, the poll of what is  *)
(* pending and the signals of finished prompts run as tasks that interleave *)
(* at every await, over one file whose updates queue, one lifecycle lock per*)
(* command and one connection at a time.                                    *)
(*                                                                          *)
(* The hosts are abstracted, ResidentCommands being their model: one admits *)
(* a command at most once, may be reached late by what was sent before a    *)
(* loss, answers a reconciliation with the receipt it has then, and signals *)
(* a finished prompt after the answers that came first (hostd/server.ts).   *)
(*                                                                          *)
(* Left out: capabilities, legacy and quarantined entries, the capacities of*)
(* the two files, the diagnostics of uncertain receipts, dialog responses, the  *)
(* ledger of Ends and reconcileCommands, which the renderer does not call.  *)
(* The commands of one host are of one thread.  An attempt to connect begins*)
(* when the reconciliation of the last one has noticed its loss.            *)
EXTENDS Naturals, Sequences, FiniteSets, SequencesExt

CONSTANTS
    Prompts,        \* commands completed by an idle proof (a Stop is alike)
    FollowUps,      \* follow-ups the user lets wait for a connection
    Hosts,
    NoHost,
    NoCommand,
    HostOf,         \* the host in a command's immutable envelope
    IdOf,           \* its device-global id; two envelopes may bear one id
    Left,           \* commands an earlier process of the desktop was cut off in
    BatchLimit,     \* entries one poll asks about
    MaxMoves        \* submissions by the user, connections lost, restarts and
                    \* requests given up, together

Commands == Prompts \cup FollowUps
Ids == {IdOf[c] : c \in Commands}

ASSUME OutboxAssumption ==
    /\ Prompts \cap FollowUps = {}
    /\ NoCommand \notin Commands /\ NoHost \notin Hosts
    /\ HostOf \in [Commands -> Hosts]
    /\ MaxMoves \in Nat

ASSUME FileAssumption ==
    /\ BatchLimit \in Nat \ {0}
    /\ Left \subseteq Commands
    /\ \A c, d \in Left : IdOf[c] = IdOf[d] => c = d

Submission(c) == [kind |-> "submit", of |-> c]
Signal(c) == [kind |-> "signal", of |-> c]
Connecting == [kind |-> "connect", of |-> NoCommand]
Polling == [kind |-> "poll", of |-> NoCommand]

Submissions == {Submission(c) : c \in Commands}
Signals == {Signal(c) : c \in Prompts}
Reconcilers == {Connecting, Polling}
Tasks == Submissions \cup Signals \cup Reconcilers

VARIABLES
    outbox,     \* durable: each command's entry, "none", "waiting_for_connection",
                \* "uncertain", "awaiting_reconciliation" or "awaiting_idle_proof"
    order,      \* durable: the commands that have an entry, as the file lists them
    identities, \* durable: the envelope each id is reserved for
    authority,  \* the host last verified; restored from the cache
    link,       \* the host of the live connection
    pc,         \* where each task is
    cmd,        \* the command a task is about
    live,       \* tasks whose captured connection is still the current one
    want,       \* what a task's update of the file writes, or the answer it got
    todo,       \* entries a reconciler has yet to ask about
    seen,       \* waiting entries the connection's reconciliation has read
    gone,       \* entries it will remove
    later,      \* entries it will submit
    queue,      \* updates of the outbox file, in order
    turn,       \* the lifecycle lock of each command, in order
    fence,      \* completedResidentProofs
    timer,      \* the poll is scheduled
    status,     \* the host: what it knows of a command
    wire,       \* submissions sent and not yet admitted
    asked,      \* tasks whose request the host has not answered
    owed,       \* finished prompts whose signal the host has queued
    down,       \* answers and signals on their way
    sent,       \* history: commands transmitted at least once
    proven,     \* history: prompts whose proof has been accepted
    givenUp,    \* history: commands this connection gave up reconciling
    moves       \* what the user and the faults have done

files == <<outbox, order, identities>>
reconciling == <<todo, seen, gone, later>>
memory == <<queue, turn, fence, timer>>
hostVars == <<status, wire, asked, owed, down>>
history == <<sent, proven, givenUp>>
outboxVars == <<files, authority, link, pc, cmd, live, want, reconciling,
                memory, hostVars, history, moves>>

(* The statuses of a host's receipt that no later one replaces.             *)
Final == {"completed", "failed", "uncertain"}

(* The files are what an earlier process left: it had sent what is in them, *)
(* which may still arrive.                                                  *)
OutboxInit ==
    /\ outbox = [c \in Commands |-> IF c \in Left THEN "uncertain" ELSE "none"]
    /\ order \in SetToSeqs(Left)
    /\ identities = [i \in Ids |->
          IF \E c \in Left : IdOf[c] = i THEN CHOOSE c \in Left : IdOf[c] = i ELSE NoCommand]
    /\ authority = NoHost /\ link = NoHost
    /\ pc = [t \in Tasks |-> "idle"]
    /\ cmd = [t \in Tasks |-> t.of]
    /\ live = {}
    /\ want = [t \in Tasks |-> "none"]
    /\ todo = [t \in Reconcilers |-> {}]
    /\ seen = {} /\ gone = {} /\ later = {}
    /\ queue = <<>>
    /\ turn = [c \in Commands |-> <<>>]
    /\ fence = {} /\ timer = FALSE
    /\ status = [c \in Commands |-> "none"]
    /\ wire = Left /\ asked = {} /\ owed = {} /\ down = <<>>
    /\ sent = Left /\ proven = {} /\ givenUp = {}
    /\ moves = 0

-----------------------------------------------------------------------------
(* Helpers.                                                                 *)

(* The state an entry is kept in after a receipt; "none": it is removed.    *)
Retained(c, got) ==
    CASE got = "admitted" -> "awaiting_reconciliation"
      [] got = "running" -> IF c \in Prompts THEN "awaiting_idle_proof"
                                             ELSE "awaiting_reconciliation"
      [] got = "uncertain" /\ c \in Prompts -> "uncertain"
      [] OTHER -> "none"

(* What an update makes of an entry: a proof accepted meanwhile wins over a *)
(* put, and a hold never makes an entry anew nor replayable.                *)
Updated(c, w) ==
    CASE w = "none" -> "none"
      [] w = "hold" ->
            IF outbox[c] = "waiting_for_connection" THEN "uncertain" ELSE outbox[c]
      [] OTHER -> IF c \in fence THEN "none" ELSE w

Queue(t, w) == queue' = Append(queue, t) /\ want' = [want EXCEPT ![t] = w]

(* Mutant: a put leaves an entry the file has at its place.                 *)
PlacedInPlace(t, cs) ==
    IF want[t] = "hold" \/ (cmd[t] \in Range(order) /\ Updated(cmd[t], want[t]) # "none")
    THEN order
    ELSE SelectSeq(order, LAMBDA c : c \notin cs)
         \o (IF Updated(cmd[t], want[t]) = "none" THEN <<>> ELSE <<cmd[t]>>)

(* The entries in the order of the file after the update: a put moves its   *)
(* entry to the end, a hold rewrites it where it is.                        *)
Placed(t, cs) ==
    LET others == SelectSeq(order, LAMBDA c : c \notin cs) IN
    CASE want[t] = "hold" -> order
      [] want[t] # "hold" /\ Updated(cmd[t], want[t]) = "none" -> others
      [] OTHER -> Append(others, cmd[t])

(* The update at the head of the queue is t's, of the commands in cs.       *)
Write(t, cs) ==
    /\ queue # <<>> /\ Head(queue) = t
    /\ queue' = Tail(queue) /\ want' = [want EXCEPT ![t] = "none"]
    /\ outbox' = [c \in Commands |-> IF c \in cs THEN Updated(c, want[t]) ELSE outbox[c]]
    /\ order' = Placed(t, cs)

At(t, p) == pc[t] = p
Goto(t, p) == pc' = [pc EXCEPT ![t] = p]
Join(t, c, p) == Goto(t, p) /\ turn' = [turn EXCEPT ![c] = Append(@, t)]
HasTurn(t, p) == At(t, p) /\ Head(turn[cmd[t]]) = t

(* The phases of a submission between its begin and its end.                *)
Submitting(c) == pc[Submission(c)] \in {"asked", "settle", "fail", "commit", "write"}

(* Mutant: the last to leave drops the fence, whoever is still submitting.  *)
FenceAfterLast(t, c) == IF Len(turn[c]) = 1 THEN fence \ {c} ELSE fence

(* Leaving the lifecycle lock: the fence goes when nobody waits and no      *)
(* submission is active, and at the end of a submission.                    *)
FenceAfter(t, c) ==
    IF t = Submission(c) \/ (Len(turn[c]) = 1 /\ ~Submitting(c))
    THEN fence \ {c} ELSE fence

Leave(t) ==
    /\ turn' = [turn EXCEPT ![cmd[t]] = Tail(@)]
    /\ fence' = FenceAfter(t, cmd[t])
    /\ live' = live \ ({t} \ Reconcilers)

(* Where a task goes on when it has settled its command.                    *)
Onward(t) == IF t \in Reconcilers THEN "next" ELSE "idle"

Schedule == timer' = (timer \/ link # NoHost)

-----------------------------------------------------------------------------
(* submitCommand.                                                           *)

(* The submissions of a thread follow one another.                          *)
Submittable(c) ==
    /\ \A d \in Commands : HostOf[d] = HostOf[c] => At(Submission(d), "idle")
    /\ authority = HostOf[c]

Submit(c) ==
    /\ Submittable(c) /\ moves < MaxMoves
    /\ moves' = moves + 1
    /\ Goto(Submission(c), "checking")
    /\ UNCHANGED <<files, authority, link, cmd, live, want, reconciling,
                   memory, hostVars, history>>

(* Mutant: the exact command may be submitted again whatever its state.     *)
IdentityHeldByItself(c) == \A d \in Commands :
    IdOf[d] = IdOf[c] /\ outbox[d] # "none" => d = c

(* assertOutboxIdentityAvailable: only this very command, waiting, may hold *)
(* the id.                                                                  *)
IdentityAvailable(c) == \A d \in Commands :
    IdOf[d] = IdOf[c] /\ outbox[d] # "none" => d = c /\ outbox[d] = "waiting_for_connection"

Check(c) ==
    /\ At(Submission(c), "checking")
    /\ Goto(Submission(c), IF IdentityAvailable(c) THEN "reserving" ELSE "idle")
    /\ UNCHANGED <<files, authority, link, cmd, live, want, reconciling,
                   memory, hostVars, history, moves>>

(* reserveCommandIdentity, and what submitCommand decides from the          *)
(* connection it then has.                                                  *)
Reservable(c) == identities[IdOf[c]] \in {NoCommand, c}

Reserve(c) ==
    LET t == Submission(c) IN
    /\ At(t, "reserving") /\ Reservable(c)
    /\ identities' = [identities EXCEPT ![IdOf[c]] = c]
    /\ \/ link # NoHost
          /\ live' = live \cup {t}
          /\ Goto(t, "first") /\ Queue(t, "uncertain")
       \/ link = NoHost /\ c \in FollowUps
          /\ Goto(t, "first") /\ Queue(t, "waiting_for_connection")
          /\ UNCHANGED live
       \/ link = NoHost /\ c \notin FollowUps
          /\ Goto(t, "idle")
          /\ UNCHANGED <<live, queue, want>>
    /\ UNCHANGED <<outbox, order, authority, link, cmd, reconciling, turn, fence,
                   timer, hostVars, history, moves>>

ReserveRefused(c) ==
    /\ At(Submission(c), "reserving") /\ ~Reservable(c)
    /\ Goto(Submission(c), "idle")
    /\ UNCHANGED <<files, authority, link, cmd, live, want, reconciling,
                   memory, hostVars, history, moves>>

(* Mutant: only the connection is compared.                                 *)
StillConnected(c) == Submission(c) \in live

(* The entry is in the file.  The command is sent if the connection is still*)
(* the one that was captured and its host the command's own.                *)
StillCurrent(c) == Submission(c) \in live /\ authority = HostOf[c]

FirstWritten(c) ==
    LET t == Submission(c) IN
    /\ At(t, "first") /\ Write(t, {c})
    /\ \/ want[t] = "waiting_for_connection"
          /\ Goto(t, "idle")
          /\ UNCHANGED <<turn, asked, wire, sent>>
       \/ want[t] = "uncertain" /\ StillCurrent(c)
          /\ Goto(t, "asked")
          /\ asked' = asked \cup {t} /\ wire' = wire \cup {c} /\ sent' = sent \cup {c}
          /\ UNCHANGED turn
       \/ want[t] = "uncertain" /\ ~StillCurrent(c)
          /\ Join(t, c, "fail")
          /\ UNCHANGED <<asked, wire, sent>>
    /\ UNCHANGED <<identities, authority, link, cmd, live, reconciling, fence,
                   timer, status, owed, down, proven, givenUp, moves>>

(* The receipt is applied, unless a proof has won.                          *)
Settle(c) ==
    LET t == Submission(c) IN
    /\ HasTurn(t, "settle")
    /\ \/ c \in fence
          /\ Goto(t, "idle") /\ Leave(t) /\ UNCHANGED queue
          /\ want' = [want EXCEPT ![t] = "none"]
       \/ c \notin fence
          /\ Goto(t, "write") /\ Queue(t, Retained(c, want[t]))
          /\ UNCHANGED <<turn, fence, live>>
    /\ UNCHANGED <<files, authority, link, cmd, reconciling, timer, hostVars,
                   history, moves>>

(* The catch clause: the outcome is unknown, unless a proof has won.        *)
Fail(c) ==
    LET t == Submission(c) IN
    /\ HasTurn(t, "fail")
    /\ \/ c \in fence
          /\ Goto(t, "idle") /\ Leave(t) /\ Schedule /\ UNCHANGED <<queue, want>>
       \/ c \notin fence
          /\ Goto(t, "write") /\ Queue(t, "uncertain")
          /\ UNCHANGED <<turn, fence, live, timer>>
    /\ UNCHANGED <<files, authority, link, cmd, reconciling, hostVars,
                   history, moves>>

-----------------------------------------------------------------------------
(* commitCompletedResidentProof, for a submission answered `completed`, a   *)
(* reconciler or a signal.                                                  *)

Commit(t) ==
    /\ HasTurn(t, "commit") /\ t \in live /\ outbox[cmd[t]] # "none"
    /\ fence' = fence \cup {cmd[t]}
    /\ proven' = proven \cup {cmd[t]}
    /\ Goto(t, "write") /\ Queue(t, "none")
    /\ UNCHANGED <<files, authority, link, cmd, live, reconciling, turn,
                   timer, hostVars, sent, givenUp, moves>>

(* Another holder of the same proof has consumed the entry.                 *)
CommitRepeated(t) ==
    /\ HasTurn(t, "commit") /\ t \in live
    /\ outbox[cmd[t]] = "none" /\ cmd[t] \in fence
    /\ Goto(t, Onward(t)) /\ Leave(t) /\ want' = [want EXCEPT ![t] = "none"]
    /\ UNCHANGED <<files, authority, link, cmd, reconciling, queue, timer,
                   hostVars, history, moves>>

(* The connection is gone: a submission's outcome is unknown.               *)
CommitSuperseded(t) ==
    /\ HasTurn(t, "commit") /\ t \notin live
    /\ IF t \in Submissions
       THEN /\ Goto(t, "fail") /\ want' = [want EXCEPT ![t] = "none"]
            /\ turn' = [turn EXCEPT ![cmd[t]] = Append(Tail(@), t)]
            /\ UNCHANGED <<fence, live>>
       ELSE Goto(t, Onward(t)) /\ Leave(t) /\ UNCHANGED want
    /\ UNCHANGED <<files, authority, link, cmd, reconciling, queue, timer,
                   hostVars, history, moves>>

(* An update made under the lock is in the file.                            *)
LockedWritten(t) ==
    /\ At(t, "write") /\ Write(t, {cmd[t]})
    /\ Goto(t, Onward(t)) /\ Leave(t)
    /\ IF t \in Submissions /\ want[t] \in {"awaiting_reconciliation", "uncertain"}
       THEN Schedule ELSE UNCHANGED timer
    /\ UNCHANGED <<identities, authority, link, cmd, reconciling, hostVars,
                   history, moves>>

-----------------------------------------------------------------------------
(* The connection.                                                          *)

(* A request cut off fails: a submission goes to its catch clause, a        *)
(* reconciler on to find that its connection is gone.                       *)
Waiting == {t \in Tasks : At(t, "asked")}

CutOffPc == [t \in Tasks |->
    IF t \notin Waiting THEN pc[t] ELSE IF t \in Submissions THEN "fail" ELSE "next"]
CutOffTurn == [c \in Commands |->
    IF Submission(c) \in Waiting THEN Append(turn[c], Submission(c)) ELSE turn[c]]

(* The close handler.                                                       *)
Closed ==
    /\ link' = NoHost /\ live' = {}
    /\ asked' = {} /\ owed' = {} /\ down' = <<>> /\ timer' = FALSE

Drop ==
    /\ link # NoHost /\ moves < MaxMoves
    /\ moves' = moves + 1
    /\ Closed /\ pc' = CutOffPc /\ turn' = CutOffTurn
    /\ UNCHANGED <<files, authority, cmd, want, reconciling, queue, fence,
                   status, wire, history>>

(* A proof whose entry is gone and whose fence is gone: a protocol error.   *)
(* The signal and the poll close the connection, the reconciliation after a *)
(* connection holds the entry.                                              *)
Ambiguous(t) ==
    HasTurn(t, "commit") /\ t \in live /\ outbox[cmd[t]] = "none" /\ cmd[t] \notin fence

CommitAmbiguous(t) ==
    /\ Ambiguous(t) /\ t \in Signals \cup {Polling}
    /\ Closed
    /\ pc' = [CutOffPc EXCEPT ![t] = Onward(t)]
    /\ turn' = [CutOffTurn EXCEPT ![cmd[t]] = Tail(@)]
    /\ UNCHANGED <<files, authority, cmd, want, reconciling, queue, fence,
                   status, wire, history, moves>>

CommitHeld ==
    /\ Ambiguous(Connecting)
    /\ Goto(Connecting, "put") /\ Queue(Connecting, "hold") /\ Leave(Connecting)
    /\ UNCHANGED <<files, authority, link, cmd, reconciling, timer, hostVars,
                   history, moves>>

(* A connection is established and reconciles first.                        *)
Connect(h) ==
    /\ link = NoHost /\ At(Connecting, "idle")
    /\ link' = h /\ authority' = h /\ givenUp' = {}
    /\ live' = live \cup {Connecting}
    /\ Goto(Connecting, "reading")
    /\ UNCHANGED <<files, cmd, want, reconciling, memory, hostVars, sent,
                   proven, moves>>

(* The desktop process stops; what it had sent may still arrive.            *)
Crash ==
    /\ moves < MaxMoves
    /\ moves' = moves + 1
    /\ link' = NoHost /\ live' = {}
    /\ pc' = [t \in Tasks |-> "idle"]
    /\ queue' = <<>> /\ turn' = [c \in Commands |-> <<>>]
    /\ fence' = {} /\ timer' = FALSE
    /\ asked' = {} /\ owed' = {} /\ down' = <<>>
    /\ want' = [t \in Tasks |-> "none"] /\ cmd' = [t \in Tasks |-> t.of]
    /\ todo' = [t \in Reconcilers |-> {}] /\ seen' = {} /\ gone' = {} /\ later' = {}
    /\ UNCHANGED <<files, authority, status, wire, history>>

-----------------------------------------------------------------------------
(* Reconciliation: reconcileOutboxAfterConnect and pollNonterminalReconciliation.*)

(* What a poll may ask about: what may still change by itself.              *)
Pollable(c) ==
    HostOf[c] = link /\ outbox[c] \in {"awaiting_reconciliation", "uncertain"}

Ahead(c) == {d \in Commands : Pollable(d) /\
    \E i, j \in DOMAIN order : i < j /\ order[i] = d /\ order[j] = c}

(* The reconciliation of a connection asks about every entry of the host, a *)
(* poll about the first BatchLimit it may ask about.                        *)
Pending(t) == {c \in Commands :
    IF t = Connecting THEN HostOf[c] = link /\ outbox[c] # "none"
    ELSE Pollable(c) /\ Cardinality(Ahead(c)) < BatchLimit}

Polled ==
    /\ timer /\ link # NoHost /\ At(Polling, "idle") /\ Pending(Polling) # {}
    /\ timer' = FALSE
    /\ live' = live \cup {Polling}
    /\ todo' = [todo EXCEPT ![Polling] = Pending(Polling)]
    /\ Goto(Polling, "next")
    /\ UNCHANGED <<files, authority, link, cmd, want, seen, gone, later,
                   queue, turn, fence, hostVars, history, moves>>

PolledNothing ==
    /\ timer /\ link # NoHost /\ At(Polling, "idle") /\ Pending(Polling) = {}
    /\ UNCHANGED outboxVars

ReadOutbox ==
    /\ At(Connecting, "reading") /\ Connecting \in live
    /\ todo' = [todo EXCEPT ![Connecting] = Pending(Connecting)]
    /\ seen' = {c \in Pending(Connecting) : outbox[c] = "waiting_for_connection"}
    /\ Goto(Connecting, "next")
    /\ UNCHANGED <<files, authority, link, cmd, live, want, gone, later,
                   memory, hostVars, history, moves>>

(* One exact envelope per request.                                          *)
Ask(t, c) ==
    /\ At(t, "next") /\ t \in live /\ c \in todo[t]
    /\ todo' = [todo EXCEPT ![t] = @ \ {c}]
    /\ cmd' = [cmd EXCEPT ![t] = c]
    /\ Goto(t, "asked") /\ asked' = asked \cup {t}
    /\ UNCHANGED <<files, authority, link, live, want, seen, gone, later,
                   memory, status, wire, owed, down, history, moves>>

(* An update made without the lock is in the file.                          *)
UnlockedWritten(t) ==
    /\ At(t, "put") /\ Write(t, {cmd[t]})
    /\ Goto(t, "next")
    /\ UNCHANGED <<identities, authority, link, cmd, live, reconciling, turn,
                   fence, timer, hostVars, history, moves>>

(* A reconciler ends; the poll schedules itself anew, and the               *)
(* reconciliation of a connection starts it.                                *)
End(t) ==
    /\ Goto(t, "idle") /\ cmd' = [cmd EXCEPT ![t] = NoCommand]
    /\ live' = live \ {t}
    /\ todo' = [todo EXCEPT ![t] = {}]
    /\ IF t = Connecting THEN seen' = {} /\ gone' = {} /\ later' = {}
                         ELSE UNCHANGED <<seen, gone, later>>
    /\ UNCHANGED <<files, authority, link, want, queue, turn, fence, hostVars,
                   history, moves>>

Superseded(t) ==
    /\ pc[t] \in {"reading", "next", "deliver"} /\ t \notin live
    /\ End(t)
    /\ IF t = Polling THEN Schedule ELSE UNCHANGED timer

PollEnds ==
    /\ At(Polling, "next") /\ Polling \in live /\ todo[Polling] = {}
    /\ End(Polling) /\ Schedule

(* The connection's reconciliation removes what is settled, then submits    *)
(* what waited and the host does not know.                                  *)
ConnectAsked ==
    /\ At(Connecting, "next") /\ Connecting \in live /\ todo[Connecting] = {}
    /\ IF gone = {} THEN Goto(Connecting, "deliver") /\ UNCHANGED <<queue, want>>
                    ELSE Goto(Connecting, "clear") /\ Queue(Connecting, "none")
    /\ seen' = {}
    /\ UNCHANGED <<files, authority, link, cmd, live, todo, gone, later, turn,
                   fence, timer, hostVars, history, moves>>

Cleared ==
    /\ At(Connecting, "clear") /\ Write(Connecting, gone)
    /\ Goto(Connecting, "deliver") /\ gone' = {}
    /\ UNCHANGED <<identities, authority, link, cmd, live, todo, seen, later,
                   turn, fence, timer, hostVars, history, moves>>

Resubmit(c) ==
    /\ At(Connecting, "deliver") /\ Connecting \in live /\ c \in later
    /\ Submittable(c)
    /\ later' = later \ {c}
    /\ cmd' = [cmd EXCEPT ![Connecting] = c]
    /\ pc' = [pc EXCEPT ![Connecting] = "submitting", ![Submission(c)] = "checking"]
    /\ UNCHANGED <<files, authority, link, live, want, todo, seen, gone,
                   memory, hostVars, history, moves>>

Resubmitted ==
    /\ At(Connecting, "submitting") /\ At(Submission(cmd[Connecting]), "idle")
    /\ Goto(Connecting, "deliver")
    /\ UNCHANGED <<files, authority, link, cmd, live, want, reconciling,
                   memory, hostVars, history, moves>>

ConnectEnds ==
    /\ At(Connecting, "deliver") /\ Connecting \in live /\ later = {}
    /\ End(Connecting) /\ Schedule

-----------------------------------------------------------------------------
(* What arrives.                                                            *)

IsProof(c, got) == c \in Prompts /\ got = "completed"

SubmissionAnswered(t, got) ==
    /\ Join(t, t.of, IF IsProof(t.of, got) THEN "commit" ELSE "settle")
    /\ want' = [want EXCEPT ![t] = got]
    /\ UNCHANGED <<gone, later, queue>>

(* Mutant: an entry the host does not know is removed.                      *)
UnknownRemoved(t, c, got) ==
    IF got = "none" THEN Goto(t, "put") /\ Queue(t, "none") /\ UNCHANGED <<turn, gone, later>>
    ELSE \/ IsProof(c, got) /\ Join(t, c, "commit") /\ UNCHANGED <<want, gone, later, queue>>
         \/ ~IsProof(c, got) /\ Goto(t, "put") /\ Queue(t, Retained(c, got))
            /\ UNCHANGED <<turn, gone, later>>

(* An entry the host does not know stays, to be submitted if it waited; a   *)
(* proof is committed; another receipt keeps the entry or removes it, the   *)
(* reconciliation of a connection doing so at its end.                      *)
ReconcilerAnswered(t, c, got) ==
    \/ got = "none"
       /\ Goto(t, "next")
       /\ later' = later \cup (IF t = Connecting THEN {c} \cap seen ELSE {})
       /\ UNCHANGED <<turn, want, gone, queue>>
    \/ IsProof(c, got)
       /\ Join(t, c, "commit")
       /\ UNCHANGED <<want, gone, later, queue>>
    \/ got # "none" /\ ~IsProof(c, got) /\ (Retained(c, got) # "none" \/ t = Polling)
       /\ Goto(t, "put") /\ Queue(t, Retained(c, got))
       /\ UNCHANGED <<turn, gone, later>>
    \/ got # "none" /\ ~IsProof(c, got) /\ Retained(c, got) = "none" /\ t = Connecting
       /\ Goto(t, "next") /\ gone' = gone \cup {c}
       /\ UNCHANGED <<turn, want, later, queue>>

(* A signal begins by reading the outbox.                                   *)
Arrive ==
    /\ down # <<>>
    /\ down' = Tail(down)
    /\ LET t == Head(down).to  got == Head(down).got IN
       IF t \in Signals
       THEN /\ Goto(t, "reading") /\ live' = live \cup {t}
            /\ UNCHANGED <<turn, want, gone, later, queue>>
       ELSE /\ IF t \in Submissions THEN SubmissionAnswered(t, got)
                                    ELSE ReconcilerAnswered(t, cmd[t], got)
            /\ UNCHANGED live
    /\ UNCHANGED <<files, authority, link, cmd, todo, seen, fence, timer,
                   status, wire, asked, owed, history, moves>>

(* acceptResidentPromptIdleSignal: an entry that is gone needs no proof.    *)
SignalRead(c) ==
    LET t == Signal(c) IN
    /\ At(t, "reading")
    /\ IF outbox[c] = "none" THEN Goto(t, "idle") /\ live' = live \ {t} /\ UNCHANGED turn
                            ELSE Join(t, c, "commit") /\ UNCHANGED live
    /\ UNCHANGED <<files, authority, link, cmd, want, reconciling, queue,
                   fence, timer, hostVars, history, moves>>

(* The answer to a request that was given up is ignored.                    *)
Ignored(t) ==
    \/ \E i \in DOMAIN down : down[i].to = t /\ down' = RemoveAt(down, i)
    \/ (\A i \in DOMAIN down : down[i].to # t) /\ UNCHANGED down

(* A request is given up.  A submission's outcome is unknown, a reconciler  *)
(* holds the entry.                                                         *)
Timeout(t) ==
    /\ moves < MaxMoves /\ t \in Waiting
    /\ moves' = moves + 1
    /\ givenUp' = IF t = Connecting THEN givenUp \cup {cmd[t]} ELSE givenUp
    /\ asked' = asked \ {t} /\ Ignored(t)
    /\ IF t \in Submissions
       THEN Join(t, t.of, "fail") /\ UNCHANGED <<queue, want>>
       ELSE Goto(t, "put") /\ Queue(t, "hold") /\ UNCHANGED turn
    /\ UNCHANGED <<files, authority, link, cmd, live, reconciling, fence,
                   timer, status, wire, owed, sent, proven>>

-----------------------------------------------------------------------------
(* The host.                                                                *)

HostAdmit(c) ==
    /\ c \in wire /\ status[c] = "none"
    /\ wire' = wire \ {c}
    /\ \E s \in {"admitted", "failed"} : status' = [status EXCEPT ![c] = s]
    /\ UNCHANGED <<files, authority, link, pc, cmd, live, want, reconciling,
                   memory, asked, owed, down, history, moves>>

(* A command already known is answered with its receipt.                    *)
HostRepeats(c) ==
    LET t == Submission(c) IN
    /\ c \in wire /\ status[c] # "none"
    /\ wire' = wire \ {c}
    /\ IF t \in asked
       THEN asked' = asked \ {t} /\ down' = Append(down, [to |-> t, got |-> status[c]])
       ELSE UNCHANGED <<asked, down>>
    /\ UNCHANGED <<files, authority, link, pc, cmd, live, want, reconciling,
                   memory, status, owed, history, moves>>

(* A submission sent on a connection that is gone may never arrive.         *)
HostMisses(c) ==
    /\ c \in wire /\ Submission(c) \notin asked
    /\ wire' = wire \ {c}
    /\ UNCHANGED <<files, authority, link, pc, cmd, live, want, reconciling,
                   memory, status, asked, owed, down, history, moves>>

HostRun(c) ==
    /\ status[c] = "admitted"
    /\ status' = [status EXCEPT ![c] = "running"]
    /\ UNCHANGED <<files, authority, link, pc, cmd, live, want, reconciling,
                   memory, wire, asked, owed, down, history, moves>>

(* A prompt that runs is never refused afterwards.                          *)
Outcomes(c) ==
    CASE status[c] = "admitted" -> {"failed", "uncertain"}
      [] status[c] = "running" -> IF c \in Prompts THEN {"completed", "uncertain"} ELSE Final
      [] OTHER -> {}

HostFinish(c) ==
    /\ \E s \in Outcomes(c) :
          /\ status' = [status EXCEPT ![c] = s]
          /\ owed' = IF IsProof(c, s) /\ link = HostOf[c] THEN owed \cup {c} ELSE owed
    /\ UNCHANGED <<files, authority, link, pc, cmd, live, want, reconciling,
                   memory, wire, asked, down, history, moves>>

(* A signal follows the answers to the requests that came before it.        *)
HostSignal(c) ==
    /\ c \in owed /\ Submission(c) \notin asked
    /\ owed' = owed \ {c}
    /\ down' = Append(down, [to |-> Signal(c), got |-> "completed"])
    /\ UNCHANGED <<files, authority, link, pc, cmd, live, want, reconciling,
                   memory, status, wire, asked, history, moves>>

(* A prompt's submission is answered with what its delivery came to, however *)
(* far its turn is by then; a reconciler with the receipt of the moment.    *)
Answers(t) ==
    LET c == cmd[t] IN
    IF t \notin Submissions \/ c \notin Prompts THEN {status[c]}
    ELSE CASE status[c] = "completed" -> {"running"}
           [] status[c] = "uncertain" -> {"running", "uncertain"}
           [] OTHER -> {status[c]}

HostAnswer(t) ==
    /\ t \in asked
    /\ t \in Submissions => t.of \notin wire
    /\ asked' = asked \ {t}
    /\ \E got \in Answers(t) : down' = Append(down, [to |-> t, got |-> got])
    /\ UNCHANGED <<files, authority, link, pc, cmd, live, want, reconciling,
                   memory, status, wire, owed, history, moves>>

-----------------------------------------------------------------------------
SubmissionStep(c) ==
    \/ Check(c) \/ Reserve(c) \/ ReserveRefused(c) \/ FirstWritten(c) \/ Settle(c) \/ Fail(c)

ProofStep(t) ==
    \/ Commit(t) \/ CommitRepeated(t) \/ CommitSuperseded(t) \/ CommitAmbiguous(t)
    \/ LockedWritten(t)

ReconcilerStep(t) ==
    \/ (\E c \in Commands : Ask(t, c)) \/ UnlockedWritten(t) \/ Superseded(t)

ConnectStep ==
    \/ ReadOutbox \/ CommitHeld \/ ConnectAsked \/ Cleared \/ (\E c \in Commands : Resubmit(c))
    \/ Resubmitted \/ ConnectEnds \/ (\E h \in Hosts : Connect(h))

PollStep ==
    \/ Polled \/ PollEnds \/ ProofStep(Polling) \/ ReconcilerStep(Polling)
    \/ HostAnswer(Polling)

HostStep ==
    \/ \E c \in Commands : HostAdmit(c) \/ HostRepeats(c) \/ HostRun(c) \/ HostFinish(c)
    \/ \E c \in Prompts : HostSignal(c)
    \/ \E t \in Submissions \cup {Connecting} : HostAnswer(t)

(* All there is to do but for polling.                                      *)
Work ==
    \/ \E c \in Commands : SubmissionStep(c)
    \/ \E c \in Prompts : SignalRead(c)
    \/ \E t \in Tasks \ {Polling} : ProofStep(t)
    \/ ReconcilerStep(Connecting) \/ ConnectStep \/ HostStep

Fault ==
    \/ Drop \/ Crash
    \/ \E t \in Tasks : Timeout(t)
    \/ \E c \in Commands : HostMisses(c)

OutboxNext ==
    \/ \E c \in Commands : Submit(c)
    \/ Work \/ PollStep \/ PolledNothing \/ Arrive \/ Fault

OutboxSpec == OutboxInit /\ [][OutboxNext]_outboxVars

(* Awaits settle, updates are written, a lost connection is made anew, and  *)
(* the host answers and finishes what it runs, however often the poll runs; *)
(* the poll's timer fires; what arrives is handled.  Nothing is assumed of  *)
(* the user or of faults.                                                   *)
OutboxFairness == SF_outboxVars(Work) /\ WF_outboxVars(PollStep) /\ WF_outboxVars(Arrive)

FairOutboxSpec == OutboxSpec /\ OutboxFairness

-----------------------------------------------------------------------------
(* A command that was sent keeps its entry, and one that will not be sent   *)
(* again, until the host has reached its outcome.                           *)
OwnedUntilSettled == \A c \in sent :
    outbox[c] \in {"none", "waiting_for_connection"} => status[c] \in Final

(* What is in the file or was sent is the envelope its id was reserved for, *)
(* for good; and no host is told of a command for another.                  *)
AuthorityExact ==
    /\ \A c \in Commands : outbox[c] # "none" \/ c \in sent => identities[IdOf[c]] = c
    /\ \A t \in asked : link = HostOf[cmd[t]]

(* A command is never sent again while its outcome is open at the host.     *)
NoBlindResend == [][\A c \in sent :
    ~At(Submission(c), "asked") /\ At(Submission(c), "asked")' => status[c] \in Final]_outboxVars

(* No continuation makes the entry of a prompt anew once its proof was      *)
(* accepted and the entry removed; only the user submits it again.          *)
ProofIsFinal == [][\A c \in proven :
    outbox[c] = "none" /\ outbox'[c] # "none" => At(Submission(c), "first")]_outboxVars

(* Entries the host does not know keep their places at the head of the file *)
(* when a poll asks about them: a whole batch of them keeps it from c.      *)
Starved(c) ==
    Pollable(c) /\ Cardinality({d \in Ahead(c) : status[d] = "none"}) >= BatchLimit

(* On a connection that stays up, the entry of a command the host has       *)
(* completed or refused goes away, however many others are asked about      *)
(* again and again, unless a whole batch ahead of it was never admitted; one*)
(* that waits for a proof only if the reconciliation of that connection did *)
(* not give it up, for no poll asks about it.                               *)
OutboxDrains == \A c \in Commands :
    <>[](link = HostOf[c]) =>
        <>[](status[c] \in {"completed", "failed"} =>
                \/ outbox[c] \in {"none", "waiting_for_connection"}
                \/ outbox[c] = "awaiting_idle_proof" /\ c \in givenUp
                \/ Starved(c))
=============================================================================
