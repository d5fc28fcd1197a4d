-------------------------- MODULE ResidentCommands --------------------------
(***************************************************************************)
(* Prompts and Stops from the desktop's request to the idle proof: the     *)
(* request handler of hostd (src/src/hostd/service.ts), the FIFO of the    *)
(* Store's mutex, the resident adapter and gateway with their idle         *)
(* evidence, and the Prime Agent daemon, over the Store of                 *)
(* ResidentDispatch.                                                       *)
(*                                                                         *)
(* A handler's program counter names the await it stands at; the Store     *)
(* calls of handlers are served in the order they were made, and every     *)
(* other Store call may come between any two of them.  The daemon runs one *)
(* turn at a time: of a prompt, or of somebody else.  `cursor` counts its  *)
(* authoritative states.                                                   *)
(***************************************************************************)
EXTENDS ResidentDispatch, Sequences

CONSTANT MaxCursor  \* bound on the daemon's spontaneous changes

ASSUME CursorAssumption == MaxCursor \in Nat

Nobody == "none"
Somebody == "foreign"
NoAnswer == "none"

ASSUME TurnAssumption == Nobody \notin Commands /\ Somebody \notin Commands

VARIABLES
    pc,       \* where each request's handler stands
    queue,    \* handlers waiting for the Store's mutex, in order
    answer,   \* what a handler is about to record (NoAnswer before and after)
    flight,   \* the upstream invocation of each command
    turn,     \* daemon: whose turn is running
    cursor,   \* daemon: its authoritative state
    seen,     \* adapter: the projection it read last
    shown,    \* durable: cursor of the published snapshot
    settledAt, \* durable: that cursor when a prompt's answer was recorded
    evidence  \* adapter: the idle evidence it keeps for a command

handlers == <<pc, queue, answer>>
daemon == <<flight, turn, cursor>>
adapter == <<seen, shown, settledAt, evidence>>
commandVars == <<dispatchVars, handlers, daemon, adapter>>

CommandsInit ==
    /\ Init
    /\ pc = [c \in Commands |-> "idle"] /\ queue = <<>>
    /\ answer = [c \in Commands |-> NoAnswer]
    /\ flight = [c \in Commands |-> "none"] /\ turn = Nobody /\ cursor = 0
    /\ seen = [cursor |-> 0, activity |-> FALSE] /\ shown = 0
    /\ settledAt = [p \in Prompts |-> 0]
    /\ evidence = [c \in Commands |-> {}]

-----------------------------------------------------------------------------
(* The mutex serves calls in the order they were made: a new call goes to  *)
(* the end of the queue, the one being served stays at its head until its  *)
(* method returns.                                                         *)

Turn(c) == queue # <<>> /\ Head(queue) = c

Goto(c, at) == pc' = [pc EXCEPT ![c] = at]

CallStore(c, at) == Goto(c, at) /\ queue' = Append(queue, c)
Leave(c, at) == Goto(c, at) /\ queue' = Tail(queue)

(* Mutant: the next call of a Stop is let in ahead of those that wait.     *)
LeaveAndCallFirst(c, at) ==
    Goto(c, at) /\ queue' = IF c \in Aborts THEN <<c>> \o Tail(queue) ELSE Append(Tail(queue), c)

LeaveAndCall(c, at) == Goto(c, at) /\ queue' = Append(Tail(queue), c)

Serving(c, at) == mode = "up" /\ pc[c] = at /\ Turn(c)

-----------------------------------------------------------------------------
(* The handler of command.submit.                                          *)

Request(c) ==
    /\ mode = "up" /\ pc[c] = "idle"
    /\ CallStore(c, "admit")
    /\ UNCHANGED <<dispatchVars, answer, daemon, adapter>>

HandleAdmission(c) ==
    /\ Serving(c, "admit")
    /\ \/ (PrepareAdmission(c) \/ WriteIdentity(c) \/ WriteAttempt(c) \/ WriteReceipt(c))
          /\ UNCHANGED <<pc, queue>>
       \/ /\ ClearAdmission(c)
          /\ IF receipt[c] = "admitted" THEN LeaveAndCall(c, "begin") ELSE Leave(c, "done")
    /\ UNCHANGED <<answer, daemon, adapter>>

HandleBegin(c) ==
    /\ Serving(c, "begin")
    /\ \/ BeginDispatch(c) /\ UNCHANGED <<pc, queue>>
       \/ IssueLease(c) /\ Leave(c, "send")
       \/ /\ Ready /\ ~MayBegin(c)
          /\ LeaveAndCall(c, "refuse") /\ UNCHANGED dispatchVars
    /\ UNCHANGED <<answer, daemon, adapter>>

HandleRefusal(c) ==
    /\ Serving(c, "refuse")
    /\ \/ (FailBeforeStart(c) \/ WriteSettledReceipt(c)) /\ UNCHANGED <<pc, queue>>
       \/ RemoveAttempt(c) /\ Leave(c, "done")
    /\ UNCHANGED <<answer, daemon, adapter>>

(* gateway.submit: refused before the one upstream invocation, or invoked. *)
RefuseUpstream(c) ==
    /\ pc[c] = "send"
    /\ answer' = [answer EXCEPT ![c] = "failed"]
    /\ CallStore(c, "finalize")
    /\ UNCHANGED <<dispatchVars, daemon, adapter>>

(* A Stop waits for the invocation of a prompt that is not answered yet and *)
(* goes upstream only if the daemon owns that prompt.                      *)
Undecided(p) == p \in lease /\ flight[p] = "flying"
Cancelled(p) == p \in lease /\ pc[p] # "send" /\ flight[p] \in {"none", "rejected"}

Invoke(c) ==
    /\ pc[c] = "send"
    /\ c \in Aborts => \A p \in Prompts : pc[p] = "sent" => flight[p] = "landed"
    /\ flight' = [flight EXCEPT ![c] = "flying"]
    /\ Goto(c, "sent")
    /\ UNCHANGED <<dispatchVars, queue, answer, turn, cursor, adapter>>

StopNotNeeded(a) ==
    /\ a \in Aborts /\ pc[a] = "send"
    /\ \E p \in Prompts : Cancelled(p)
    /\ answer' = [answer EXCEPT ![a] = "running"]
    /\ CallStore(a, "finalize")
    /\ UNCHANGED <<dispatchVars, daemon, adapter>>

StopUndecided(a) ==
    /\ a \in Aborts /\ pc[a] = "send"
    /\ \E p \in Prompts : Undecided(p)
    /\ answer' = [answer EXCEPT ![a] = "uncertain"]
    /\ CallStore(a, "finalize")
    /\ UNCHANGED <<dispatchVars, daemon, adapter>>

(* Only a prompt's rejection is definitive.                                *)
Answered(c) ==
    /\ pc[c] = "sent"
    /\ flight[c] = "landed" \/ (c \in Prompts /\ flight[c] = "rejected")
    /\ answer' = [answer EXCEPT ![c] = IF flight[c] = "landed" THEN "running" ELSE "failed"]
    /\ CallStore(c, "finalize")
    /\ UNCHANGED <<dispatchVars, daemon, adapter>>

(* Mutant: a request that timed out is reported as failed.                 *)
OutcomeAssumed(c) ==
    /\ pc[c] = "sent"
    /\ answer' = [answer EXCEPT ![c] = "failed"]
    /\ CallStore(c, "finalize")
    /\ UNCHANGED <<dispatchVars, daemon, adapter>>

OutcomeUnknown(c) ==
    /\ pc[c] = "sent"
    /\ answer' = [answer EXCEPT ![c] = "uncertain"]
    /\ CallStore(c, "finalize")
    /\ UNCHANGED <<dispatchVars, daemon, adapter>>

(* An acknowledgement the Store refuses is recorded once more, as uncertain; *)
(* any other refused answer fails the handler and leaves the attempt        *)
(* dispatching.                                                            *)
MayFinalize(c) ==
    /\ c \in lease /\ doc[c] = "dispatching" /\ receipt[c] = "admitted"
    /\ Resolvable /\ SameAuthority(c)

HandleAnswer(c) ==
    /\ Serving(c, "finalize")
    /\ \/ /\ FinalizeDispatch(c, answer[c]) /\ UNCHANGED <<pc, queue>>
          /\ settledAt' = [p \in Prompts |-> IF p = c THEN shown ELSE settledAt[p]]
          /\ answer' = [answer EXCEPT ![c] = NoAnswer]
       \/ /\ WriteSettledReceipt(c) /\ UNCHANGED <<answer, settledAt>>
          /\ IF Retains(c) THEN Leave(c, "done") ELSE UNCHANGED <<pc, queue>>
       \/ RemoveAttempt(c) /\ Leave(c, "done") /\ UNCHANGED <<answer, settledAt>>
    /\ UNCHANGED <<daemon, seen, shown, evidence>>

(* Mutant: a call that throws does not pass the mutex on.                  *)
RefusedHolding(c) ==
    /\ Serving(c, "finalize") /\ Ready /\ ~MayFinalize(c)
    /\ IF answer[c] # "running" THEN Goto(c, "done") /\ UNCHANGED <<queue, answer>>
       ELSE LeaveAndCall(c, "finalize") /\ answer' = [answer EXCEPT ![c] = "uncertain"]
    /\ UNCHANGED <<dispatchVars, daemon, adapter>>

RefusedAnswer(c) ==
    /\ Serving(c, "finalize") /\ Ready /\ ~MayFinalize(c)
    /\ IF answer[c] # "running" THEN Leave(c, "done") /\ UNCHANGED answer
       ELSE LeaveAndCall(c, "finalize") /\ answer' = [answer EXCEPT ![c] = "uncertain"]
    /\ UNCHANGED <<dispatchVars, daemon, adapter>>

-----------------------------------------------------------------------------
(* The daemon.  A prompt is never queued behind a running turn.            *)

Advance == cursor' = cursor + 1
Fly(c, to) == flight' = [flight EXCEPT ![c] = to]

LandPrompt(p) ==
    /\ p \in Prompts /\ flight[p] = "flying" /\ turn = Nobody
    /\ turn' = p /\ Advance /\ Fly(p, "landed")
    /\ UNCHANGED <<dispatchVars, handlers, adapter>>

RejectPrompt(p) ==
    /\ p \in Prompts /\ flight[p] = "flying"
    /\ Fly(p, "rejected")
    /\ UNCHANGED <<dispatchVars, handlers, turn, cursor, adapter>>

LandStop(a) ==
    /\ a \in Aborts /\ flight[a] = "flying"
    /\ turn' = Nobody
    /\ IF turn = Nobody THEN UNCHANGED cursor ELSE Advance
    /\ Fly(a, "landed")
    /\ UNCHANGED <<dispatchVars, handlers, adapter>>

EndTurn ==
    /\ turn # Nobody
    /\ turn' = Nobody /\ Advance
    /\ UNCHANGED <<dispatchVars, handlers, flight, adapter>>

(* Somebody else's turn, or a change of the projection without one.        *)
ChangeUnasked ==
    /\ active # NoBinding /\ turn = Nobody /\ cursor < MaxCursor
    /\ turn' \in {Nobody, Somebody} /\ Advance
    /\ UNCHANGED <<dispatchVars, handlers, flight, adapter>>

-----------------------------------------------------------------------------
(* The adapter reads the projection and publishes what it read.            *)

ReadProjection ==
    /\ active # NoBinding /\ seen.cursor <= shown /\ seen.cursor # cursor
    /\ seen' = [cursor |-> cursor, activity |-> turn # Nobody]
    /\ UNCHANGED <<dispatchVars, handlers, daemon, shown, settledAt, evidence>>

(* A cursor older than the published one is refused.                       *)
PublishSeen ==
    /\ seen.cursor > shown
    /\ PublishProjection(seen.activity)
    /\ shown' = seen.cursor
    /\ UNCHANGED <<handlers, daemon, seen, settledAt, evidence>>

(* Idle evidence: read when the daemon is idle, and kept for the life of   *)
(* the connection once it was read.  A prompt's evidence is published by   *)
(* the adapter before it is handed out; where the connection invoked the   *)
(* prompt it must be newer than the recorded answer, after a restart it    *)
(* need not.                                                               *)
Evidence(at, binding) == [at |-> at, under |-> binding]
AfterAnswer(c) == c \in Prompts \cap lease => cursor > settledAt[c]

(* Mutant: the projection is taken for idle without looking.               *)
ObserveUnlooked(c) ==
    /\ active # NoBinding /\ idle[c] = active /\ doc[c] = "running" /\ evidence[c] = {}
    /\ evidence' = [evidence EXCEPT ![c] = {Evidence(cursor, active)}]
    /\ IF c \in Aborts THEN UNCHANGED <<dispatchVars, seen, shown>>
       ELSE /\ PublishProjection(FALSE) /\ shown' = cursor
            /\ seen' = [cursor |-> cursor, activity |-> FALSE]
    /\ UNCHANGED <<handlers, daemon, settledAt>>

ObserveIdle(c) ==
    /\ active # NoBinding /\ idle[c] = active /\ doc[c] = "running" /\ evidence[c] = {}
    /\ turn = Nobody /\ AfterAnswer(c)
    /\ evidence' = [evidence EXCEPT ![c] = {Evidence(cursor, active)}]
    /\ IF c \in Aborts THEN UNCHANGED <<dispatchVars, seen, shown>>
       ELSE /\ PublishProjection(FALSE) /\ shown' = cursor
            /\ seen' = [cursor |-> cursor, activity |-> FALSE]
    /\ UNCHANGED <<handlers, daemon, settledAt>>

(* The gateway publishes a Stop's evidence under its lease.                *)
PublishStopProof(a) ==
    /\ a \in Aborts /\ idle[a] = active /\ doc[a] = "running"
    /\ \E e \in evidence[a] :
          /\ e.under = active /\ e.at >= shown /\ shown' = e.at
          /\ PublishProjection(FALSE)
    /\ UNCHANGED <<handlers, daemon, seen, settledAt, evidence>>

(* completeResident{Prompt,Abort}Reconciliation: the published snapshot     *)
(* must still be the one of the evidence.                                  *)
ProveIdle(c) ==
    /\ evidence[c] = {Evidence(shown, active)}
    /\ CompleteIdle(c)
    /\ UNCHANGED <<handlers, daemon, adapter>>

ProofWrites(c) ==
    /\ \/ LeaseIdleProof(c) /\ idle[c] # active
       \/ WriteProofReceipt(c) \/ WriteProofEvent(c)
       \/ RemoveAttempt(c) /\ receipt[c] = "completed"
    /\ UNCHANGED <<handlers, daemon, adapter>>

-----------------------------------------------------------------------------
(* The rest of the Store: sessions, recovery, failure.                     *)

KillSession ==
    /\ SettleEnd
    /\ turn' = Nobody
    /\ flight' = [c \in Commands |-> IF flight[c] = "flying" THEN "rejected" ELSE flight[c]]
    /\ UNCHANGED <<cursor, handlers, adapter>>

SessionCalls ==
    /\ \/ \E b \in Bindings : Provision(b)
       \/ \E g \in Generations : RefreshBinding(g)
       \/ PrepareEnd
    /\ UNCHANGED <<handlers, daemon, adapter>>

EndSession ==
    /\ \/ WriteRevoked \/ FinishSupersede
       \/ \E c \in Commands : SupersedeReceipt(c) \/ RetireSuperseded(c)
    /\ UNCHANGED <<handlers, daemon, adapter>>

Recovering ==
    /\ \/ RecoveryStep
       \/ /\ mode \in {"admissions", "dispatches"}
          /\ \E c \in Commands :
                \/ WriteIdentity(c) \/ WriteAttempt(c) \/ WriteReceipt(c) \/ ClearAdmission(c)
                \/ WriteSettledReceipt(c)
                \/ RemoveAttempt(c) /\ receipt[c] # "completed"
    /\ UNCHANGED <<handlers, daemon, adapter>>

(* Every handler that stands at a Store call sees it fail.                 *)
FailStore ==
    /\ StoreFault
    /\ pc' = [c \in Commands |-> IF \E i \in 1 .. Len(queue) : queue[i] = c THEN "done" ELSE pc[c]]
    /\ queue' = <<>>
    /\ UNCHANGED <<answer, daemon, adapter>>

(* What was sent may still land; handlers and evidence are gone.           *)
StopHost ==
    /\ Crash
    /\ pc' = [c \in Commands |-> IF pc[c] = "idle" THEN "idle" ELSE "done"]
    /\ queue' = <<>> /\ answer' = [c \in Commands |-> NoAnswer]
    /\ evidence' = [c \in Commands |-> {}]
    /\ UNCHANGED <<daemon, seen, shown, settledAt>>

WorkspaceMoves == WorkspaceChange /\ UNCHANGED <<handlers, daemon, adapter>>

Handle(c) ==
    \/ HandleAdmission(c) \/ HandleBegin(c) \/ HandleRefusal(c)
    \/ RefuseUpstream(c) \/ Invoke(c) \/ StopNotNeeded(c) \/ StopUndecided(c)
    \/ Answered(c) \/ OutcomeUnknown(c) \/ HandleAnswer(c) \/ RefusedAnswer(c)

Prove(c) == ObserveIdle(c) \/ PublishStopProof(c) \/ ProveIdle(c) \/ ProofWrites(c)

CommandsNext ==
    \/ \E c \in Commands :
          \/ Request(c) \/ Handle(c) \/ Prove(c)
          \/ LandPrompt(c) \/ RejectPrompt(c) \/ LandStop(c)
    \/ EndTurn \/ ChangeUnasked \/ ReadProjection \/ PublishSeen
    \/ KillSession \/ SessionCalls \/ EndSession \/ Recovering
    \/ FailStore \/ StopHost \/ WorkspaceMoves

CommandsSpec == CommandsInit /\ [][CommandsNext]_commandVars

(* A handler goes on when its Store call is served, its upstream call is   *)
(* answered or its timeout has passed; a method that holds the mutex       *)
(* writes what it has to write.                                            *)
FairHandlersSpec ==
    /\ CommandsSpec
    /\ \A c \in Commands : WF_commandVars(Handle(c))
    /\ WF_commandVars(EndSession \/ \E c \in Commands : ProofWrites(c))

(* Handlers, reconciliation and publication are driven by promises and      *)
(* timers of a running process; a turn ends, a request times out.          *)
FairCommandsSpec ==
    /\ CommandsSpec
    /\ \A c \in Commands : WF_commandVars(Handle(c)) /\ WF_commandVars(Prove(c))
    /\ WF_commandVars(EndTurn)
    /\ WF_commandVars(ReadProjection) /\ WF_commandVars(PublishSeen)
    /\ WF_commandVars(EndSession) /\ WF_commandVars(KillSession)

-----------------------------------------------------------------------------
(* No prompt crosses its dispatch boundary while a Stop that was admitted   *)
(* after it is across its own: the Stop would hit work nobody had begun.   *)
(* The Store does not check this; the order of the mutex's queue gives it. *)
StopNeverOvertakes == [][\A p \in Prompts :
    doc[p] = "admitted" /\ doc'[p] = "dispatching" =>
        \A a \in Aborts : doc[a] \notin {"dispatching", "running", "uncertain"}]_commandVars

(* A command reported rejected, queued, unsent or failed has not run and   *)
(* never will.                                                             *)
FailedNeverRuns == \A c \in Commands :
    receipt[c] \in {"rejected", "queued", "unsent", "failed"} => flight[c] \notin {"flying", "landed"}

(* A completed command is over upstream: its turn has ended, its Stop has  *)
(* landed or was not needed.                                               *)
CompletedIsOver == \A c \in Commands :
    receipt[c] = "completed" => flight[c] # "flying" /\ turn # c

(* A request the host accepted is answered, or the Store stops serving.     *)
HandlersReturn == \A c \in Commands :
    pc[c] = "admit" ~> pc[c] = "done" \/ mode # "up"

(* An acknowledged command does not wait for ever: its receipt leaves      *)
(* `running`, or the process stops.                                        *)
AcknowledgedSettles == \A c \in Commands :
    receipt[c] = "running" /\ mode = "up" ~> receipt[c] # "running" \/ mode # "up"
=============================================================================
