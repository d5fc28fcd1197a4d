--------------------- MODULE ResidentCommandsInvariant ---------------------
(***************************************************************************)
(* The inductive invariant of ResidentCommands, on top of that of the      *)
(* Store: what a handler's program counter says of its command upstream,   *)
(* what a record or idle evidence says of it, and which calls stand in the *)
(* mutex's queue.                                                          *)
(***************************************************************************)
EXTENDS ResidentCommands, ResidentDispatchInvariant

Before == {"idle", "admit", "begin", "refuse"}
Waiting == {"admit", "begin", "refuse", "finalize"}
After == {"finalize", "done"}
Stations == Before \cup {"send", "sent"} \cup After
Evidences == [at : Nat, under : Bindings \cup {NoBinding}]

CommandsTypeOK ==
    /\ pc \in [Commands -> Stations]
    /\ queue \in Seq(Commands)
    /\ answer \in [Commands -> {NoAnswer, "failed", "running", "uncertain"}]
    /\ flight \in [Commands -> {"none", "flying", "landed", "rejected"}]
    /\ turn \in Commands \cup {Nobody, Somebody}
    /\ cursor \in Nat
    /\ seen \in [cursor : Nat, activity : BOOLEAN]
    /\ shown \in Nat
    /\ settledAt \in [Prompts -> Nat]
    /\ evidence \in [Commands -> SUBSET Evidences]

-----------------------------------------------------------------------------
(* Upstream.                                                               *)

(* A command is invoked at most once, from "send", under the lease its     *)
(* handler was granted; a refused or unsent one has no such lease.         *)
InvokedUnderLease(c) ==
    /\ pc[c] \in Before => c \notin granted
    /\ pc[c] \in Before \cup {"send"} => flight[c] = "none"
    /\ pc[c] = "send" => c \in granted
    /\ flight[c] # "none" => c \in granted
    /\ c \in granted => receipt[c] \notin {"rejected", "queued"}

(* The answer a handler is about to record is what became of the command.  *)
AnswerTruthful(c) == pc[c] = "finalize" =>
    /\ answer[c] = NoAnswer => doc[c] # "dispatching"
    /\ answer[c] = "failed" => flight[c] \in {"none", "rejected"}
    /\ answer[c] = "running" => flight[c] # "flying"

(* What the attempt, the receipt and the idle evidence say of it.          *)
RecordTruthful(c) ==
    /\ doc[c] = "failed" \/ receipt[c] = "failed" =>
        pc[c] \in After /\ flight[c] \in {"none", "rejected"}
    /\ doc[c] = "running" => pc[c] \in After /\ flight[c] # "flying"
    /\ evidence[c] # {} \/ doc[c] = "proven" \/ receipt[c] = "completed" =>
        pc[c] \in After /\ flight[c] # "flying" /\ turn # c

-----------------------------------------------------------------------------
(* The queue.                                                              *)

Waits(q, c) == \E i \in 1 .. Len(q) : q[i] = c
Distinct(q) == \A i, j \in 1 .. Len(q) : q[i] = q[j] => i = j
Ahead(q, c, d) == \E i, j \in 1 .. Len(q) : i < j /\ q[i] = c /\ q[j] = d

(* A handler stands at most once in the queue, and does exactly while it   *)
(* waits for a Store call.                                                 *)
QueueOfHandlers ==
    /\ Distinct(queue)
    /\ \A c \in Commands : Waits(queue, c) <=> pc[c] \in Waiting

(* Only a process that serves, or whose Store has failed under it, has     *)
(* handlers under way.                                                     *)
HandlersRun == \A c \in Commands : pc[c] \notin {"idle", "done"} => mode \in {"up", "faulted"}

(* One admission is pending at a time, and that of a prompt only while no  *)
(* Stop has an attempt.                                                    *)
OneAdmission ==
    /\ \A c, d \in Commands : wal[c] # "none" /\ wal[d] # "none" => c = d
    /\ \A p \in Prompts, a \in Aborts : wal[p] = "admitted" => doc[a] = "none"

(* A Stop admitted behind a prompt that is not begun yet begins behind it. *)
Across == {"dispatching", "running", "uncertain"}
StopBehind(p, a) ==
    pc[p] = "begin" /\ doc[p] = "admitted" =>
        /\ doc[a] \notin Across
        /\ pc[a] = "begin" /\ doc[a] = "admitted" => Ahead(queue, p, a)

Upstream(c) == InvokedUnderLease(c) /\ AnswerTruthful(c) /\ RecordTruthful(c)

(* In every state: what each handler, record and piece of evidence says of *)
(* its command upstream is so, and the queue holds the calls it must.      *)
CommandsInvariant ==
    /\ CommandsTypeOK
    /\ \A c \in Commands : Upstream(c)
    /\ QueueOfHandlers /\ HandlersRun /\ OneAdmission
    /\ \A p \in Prompts, a \in Aborts : StopBehind(p, a)
=============================================================================
