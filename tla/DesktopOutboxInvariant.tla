------------------------ MODULE DesktopOutboxInvariant ------------------------
(* What holds of the outbox, of the tasks at work on it and of what is on   *)
(* its way from the host, in every reachable state: the inductive invariant *)
(* of DesktopOutbox.                                                        *)
EXTENDS DesktopOutbox

Entries == {"none", "waiting_for_connection", "uncertain", "awaiting_reconciliation",
            "awaiting_idle_proof"}
Statuses == {"none", "admitted", "running"} \cup Final

Places == {"idle", "checking", "reserving", "first", "asked", "settle", "fail", "commit", "write",
           "put", "reading", "next", "clear", "deliver", "submitting"}

(* What an update may write, and what it writes made by a task at work.     *)
Updates == (Entries \ {"waiting_for_connection"}) \cup {"hold"}

Wants == Updates \cup Entries \cup Statuses
Message == [to : Tasks, got : Statuses]

OutboxShape ==
    /\ outbox \in [Commands -> Entries]
    /\ identities \in [Ids -> Commands \cup {NoCommand}]
    /\ pc \in [Tasks -> Places]
    /\ cmd \in [Tasks -> Commands \cup {NoCommand}]
    /\ \A t \in Tasks \ Reconcilers : cmd[t] = t.of
    /\ live \subseteq Tasks /\ asked \subseteq Tasks \ Signals
    /\ want \in [Tasks -> Wants]
    /\ todo \in [Reconcilers -> SUBSET Commands]
    /\ fence \subseteq Commands /\ gone \subseteq Commands
    /\ status \in [Commands -> Statuses]
    /\ owed \subseteq Prompts
    /\ down \in Seq(Message)
    /\ sent \subseteq Commands

(* The id of the command is reserved for this very envelope.                *)
Reserved(c) == identities[IdOf[c]] = c

(* The places of a task that has asked about its command, or will write it. *)
Working == {"first", "asked", "settle", "fail", "commit", "write", "put"}

(* What is in the file, was sent, will be asked about or written has the    *)
(* reservation of its id.                                                   *)
Reservations ==
    /\ \A c \in Commands : outbox[c] # "none" \/ c \in sent => Reserved(c)
    /\ \A t \in Reconcilers : \A c \in todo[t] : Reserved(c)
    /\ \A t \in Tasks : pc[t] \in Working => cmd[t] \in Commands /\ Reserved(cmd[t])

(* Only tasks that captured the live connection ask, and of the host they   *)
(* are connected to; what that host sent is on its way on it.               *)
Connected ==
    /\ link # NoHost => authority = link
    /\ live # {} \/ down # <<>> \/ owed # {} => link # NoHost
    /\ \A t \in asked : At(t, "asked") /\ t \in live /\ link = HostOf[cmd[t]]
    /\ \A t \in Reconcilers \cap live : \A c \in todo[t] : HostOf[c] = link
    /\ \A t \in Reconcilers : pc[t] \in {"idle", "reading"} => todo[t] = {}

(* An answer is awaited by the one it is for, and its outcome is still the  *)
(* host's; a signal is of a prompt that has finished.                       *)
Truthful(m) ==
    IF m.to \in Signals THEN status[m.to.of] = "completed"
    ELSE /\ At(m.to, "asked") /\ m.to \notin asked
         /\ m.got \in Final => status[cmd[m.to]] = m.got
         /\ m.got = "none" => m.to \notin Submissions

AnswersTrue ==
    /\ \A i \in 1..Len(down) : Truthful(down[i])
    /\ \A i, j \in 1..Len(down) : down[i].to = down[j].to => i = j \/ down[i].to \in Signals
    /\ \A c \in Commands : Submission(c) \in asked /\ c \notin wire => status[c] # "none"
    /\ \A c \in owed : status[c] = "completed"

(* A task that removes an entry, or is about to, knows the host's outcome.  *)
Earned(t) ==
    /\ At(t, "commit") \/ (At(t, "reading") /\ t \in Signals) => status[cmd[t]] = "completed"
    /\ At(t, "settle") /\ t \in Submissions =>
          want[t] \in Statuses \ {"none"} /\ (want[t] \in Final => status[cmd[t]] \in Final)
    /\ pc[t] \in {"write", "put"} =>
          want[t] \in Updates /\ (want[t] = "none" => status[cmd[t]] \in Final)
    /\ At(t, "clear") /\ t = Connecting => want[t] = "none"

RemovalsEarned ==
    /\ \A c \in fence : status[c] = "completed"
    /\ \A c \in gone : status[c] \in Final
    /\ \A t \in Tasks : Earned(t)

(* What was sent is in the file until the host has reached its outcome, and *)
(* is not on its way to being sent again.                                   *)
SentOnce == \A c \in sent :
    \/ status[c] \in Final
    \/ /\ outbox[c] \notin {"none", "waiting_for_connection"}
       /\ pc[Submission(c)] \notin {"reserving", "first"}

OutboxInvariant ==
    /\ OutboxShape /\ Reservations /\ Connected /\ AnswersTrue /\ RemovalsEarned /\ SentOnce

-----------------------------------------------------------------------------
(* Proofs that were accepted.                                               *)

(* Tasks that hold a command's lifecycle lock, or wait for it, are in its   *)
(* order; who writes under it is first.                                     *)
Locking == {"settle", "fail", "commit", "write"}

LocksHeld ==
    /\ turn \in [Commands -> Seq(Tasks)]
    /\ \A t \in Tasks :
        /\ pc[t] \in Locking => \E i \in 1..Len(turn[cmd[t]]) : turn[cmd[t]][i] = t
        /\ At(t, "write") => turn[cmd[t]][1] = t

(* The queue of the outbox file is the tasks that have an update in it.     *)
Updating == {"first", "write", "put", "clear"}

QueueExact ==
    /\ queue \in Seq(Tasks)
    /\ \A i, j \in 1..Len(queue) : queue[i] = queue[j] => i = j
    /\ \A t \in Tasks : pc[t] \in Updating <=> \E i \in 1..Len(queue) : queue[i] = t

(* A prompt is signalled once.                                              *)
SignalledOnce ==
    /\ \A c \in Prompts :
        /\ At(Signal(c), "idle") \/ status[c] = "completed"
        /\ c \in owed => At(Signal(c), "idle") /\ \A i \in 1..Len(down) : down[i].to # Signal(c)
    /\ \A i \in 1..Len(down) : down[i].to \in Signals => At(down[i].to, "idle")
    /\ \A i, j \in 1..Len(down) : down[i].to = down[j].to => i = j

(* What a reconciler will hear of a finished prompt, behind a proof of it,  *)
(* is that it has completed.                                                *)
Proves(m, c) == m.to = Signal(c) \/ (m.to \notin Signals /\ m.got = "completed" /\ cmd[m.to] = c)
Agrees(m, c) == m.to \in Reconcilers /\ cmd[m.to] = c => m.got = "completed"

Proving(t) == At(t, "commit") \/ (t \in Signals /\ At(t, "reading"))
Proved(c) == c \in proven \/ \E t \in Tasks : cmd[t] = c /\ Proving(t)

ProofsLast == \A c \in Prompts :
    /\ \A i \in 1..Len(down) : Proves(down[i], c) => \A j \in i + 1..Len(down) : Agrees(down[j], c)
    /\ Proved(c) => \A j \in 1..Len(down) : Agrees(down[j], c)

(* An entry of a prompt is removed for its proof, which leaves its fence as *)
(* long as a submission may still write it, or because it has failed.       *)
RemovalsKnown ==
    /\ \A c \in proven : c \in Prompts /\ status[c] = "completed"
    /\ \A t \in Tasks : Proving(t) => cmd[t] \in Prompts
    /\ \A c \in gone : c \in Prompts => status[c] = "failed"
    /\ \A t \in Reconcilers :
          At(t, "put") /\ want[t] = "none" /\ cmd[t] \in Prompts => status[cmd[t]] = "failed"
    /\ \A t \in Tasks \ Submissions : At(t, "write") => want[t] = "none" /\ cmd[t] \in fence
    /\ \A c \in proven : Submitting(c) /\ c \notin fence => outbox[c] # "none"

(* What a reconciler still has to put about a proved prompt stands before   *)
(* the proof's own update, and the fence keeps it out.                      *)
Overtaken(t) == \E u \in Tasks :
    /\ At(u, "write") /\ cmd[u] = cmd[t] /\ cmd[u] \in fence
    /\ \E i, j \in 1..Len(queue) : i < j /\ queue[i] = t /\ queue[j] = u

PutsOvertaken == \A t \in Reconcilers :
    At(t, "put") /\ want[t] \notin {"none", "hold"} /\ cmd[t] \in proven => Overtaken(t)

ProvenInvariant ==
    LocksHeld /\ QueueExact /\ SignalledOnce /\ ProofsLast /\ RemovalsKnown /\ PutsOvertaken
=============================================================================
