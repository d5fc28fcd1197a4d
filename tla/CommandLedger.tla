---------------------------- MODULE CommandLedger ----------------------------
(***************************************************************************)
(* What the Store promises about one thread's prompts and Stops, without   *)
(* attempts, receipts, leases, crashes or recovery: a command is sent at   *)
(* most once and only after it was admitted; one prompt and one Stop are   *)
(* open at a time and nothing new is admitted under an open Stop; only an  *)
(* acknowledged command can complete; what is over stays over.             *)
(***************************************************************************)
CONSTANTS Prompts, Aborts

VARIABLE stage  \* what has become of each command

Commands == Prompts \cup Aborts
Open(c) == stage[c] \in {"admitted", "sent", "running", "uncertain"}
Move(c, s) == stage' = [stage EXCEPT ![c] = s]

Init == stage = [c \in Commands |-> "unknown"]

Refuse(c) == stage[c] = "unknown" /\ Move(c, "rejected")
Queue(c) == c \in Prompts /\ stage[c] = "unknown" /\ Move(c, "queued")

Admit(c) ==
    /\ stage[c] = "unknown"
    /\ \A a \in Aborts : ~Open(a)
    /\ c \in Prompts => \A p \in Prompts : ~Open(p)
    /\ Move(c, "admitted")

Withdraw(c) == stage[c] = "admitted" /\ Move(c, "unsent")
Send(c) == stage[c] = "admitted" /\ Move(c, "sent")
Answer(c) == stage[c] = "sent" /\ \E s \in {"failed", "running", "uncertain"} : Move(c, s)
Complete(c) == stage[c] = "running" /\ Move(c, "completed")
Supersede(c) == stage[c] \in {"running", "uncertain"} /\ Move(c, "superseded")

Next == \E c \in Commands :
    \/ Refuse(c) \/ Queue(c) \/ Admit(c) \/ Withdraw(c) \/ Send(c)
    \/ Answer(c) \/ Complete(c) \/ Supersede(c)

Spec == Init /\ [][Next]_stage
=============================================================================
