-------------------------- MODULE ResidentDispatch --------------------------
(***************************************************************************)
(* The Store's half of a resident prompt or Stop (src/src/hostd/store.ts): *)
(* the admission transaction, the non-replayable dispatch attempt, the     *)
(* receipt a desktop reads, the locks attempts are, the idle proof that    *)
(* alone completes one, its supersession by an End, and their recovery in  *)
(* HostStore.initialize().                                                 *)
(*                                                                         *)
(* As in LifecycleStore, `call` is the method that holds the mutex and the *)
(* durable write it makes next, and the environment is any caller.  The    *)
(* thread's binding and its End are those of LifecycleStore cut down to    *)
(* what dispatch reads: `settled` is an acknowledged or completed End.     *)
(*                                                                         *)
(* Abstractions.  One thread.  A binding is its stable authority `sess`    *)
(* (all that residentDispatchAuthorityFingerprint covers) and the mutable  *)
(* supervisor generation `gen`.  A snapshot is whether it reports          *)
(* activity, and evidence is fresh when the snapshot it names is current.  *)
(* Receipts `unsent` and `superseded` are `failed` and `uncertain` with    *)
(* the error code that says so.  Envelopes are immutable and an exact      *)
(* duplicate only reads, so it is no step.  Refusals that need a corrupt   *)
(* or foreign file, capacity limits, journals other than the idle event,   *)
(* and model or dialog attempts are left out.                              *)
(***************************************************************************)
EXTENDS Naturals, FiniteSets

CONSTANTS
    Prompts, Aborts,    \* command identities, by the kind of their envelope
    Sessions,           \* stable resident authorities
    Generations,        \* supervisor generations
    WorkspaceMayVanish, \* may the workspace directory be missing for a while?
    NoCommand, NoBinding

Commands == Prompts \cup Aborts
Bindings == [sess : Sessions, gen : Generations]

ASSUME CommandsAssumption == Prompts \cap Aborts = {} /\ NoCommand \notin Commands
ASSUME BindingAssumption == NoBinding \notin Bindings
ASSUME VanishAssumption == WorkspaceMayVanish \in BOOLEAN

VARIABLES
    wal,      \* durable: the verdict of each pending admission transaction
    known,    \* durable: commands with an exact identity record
    doc,      \* durable: each command's dispatch attempt
    held,     \* durable: the binding in that attempt
    receipt,  \* durable: each command's receipt
    proof,    \* durable: commands with an idle-observed event
    active,   \* durable: the thread's active binding
    ending,   \* durable: the thread's End
    endof,    \* durable: the binding that End took
    used,     \* durable: sessions bound so far
    busy,     \* durable: does the public snapshot report activity?
    ws,       \* is the workspace directory at its canonical path?
    mode,     \* life of the Store instance
    degraded, \* residentSubsystemFault
    call,     \* the method holding the mutex, and its next durable write
    todo,     \* attempts recovery has not visited yet
    lease,    \* process-local: commands whose dispatch lease was returned
    idle,     \* process-local: the binding of each reconciliation lease
    granted   \* history: commands whose dispatch lease was ever returned

ledger == <<wal, known, doc, held, receipt, proof>>
authority == <<active, ending, endof, used, busy>>
instance == <<mode, degraded, call, todo>>
process == <<lease, idle, granted>>
dispatchVars == <<ledger, authority, ws, instance, process>>

Idle == [cmd |-> NoCommand, at |-> "none"]

Init ==
    /\ wal = [c \in Commands |-> "none"]
    /\ known = {}
    /\ doc = [c \in Commands |-> "none"]
    /\ held = [c \in Commands |-> NoBinding]
    /\ receipt = [c \in Commands |-> "none"]
    /\ proof = {}
    /\ active = NoBinding /\ ending = "none" /\ endof = NoBinding /\ used = {}
    /\ busy = FALSE /\ ws = TRUE
    /\ mode = "down" /\ degraded = FALSE /\ call = Idle /\ todo = {}
    /\ lease = {} /\ idle = [c \in Commands |-> NoBinding] /\ granted = {}

-----------------------------------------------------------------------------
(* What the methods read.                                                  *)

Ready == mode = "up" /\ call = Idle
At(c, at) == call = [cmd |-> c, at |-> at]
Continue(c, at) == call' = [cmd |-> c, at |-> at]
Return == call' = Idle

PromptLock == {p \in Prompts : doc[p] # "none"}
AbortLock == {a \in Aborts : doc[a] # "none"}
Retains(c) == doc[c] \in {"running", "uncertain"}
DeliveredPrompt == \E p \in PromptLock : PromptLock = {p} /\ Retains(p)

(* resolveResidentDispatchBinding, and the comparison of the fingerprint.  *)
Resolvable == ~degraded /\ ws /\ active # NoBinding /\ ending # "ending"
SameAuthority(c) == active # NoBinding /\ held[c] # NoBinding /\ held[c].sess = active.sess

Attempt(c, state, binding) ==
    /\ doc' = [doc EXCEPT ![c] = state]
    /\ held' = [held EXCEPT ![c] = binding]
Receipt(c, status) == receipt' = [receipt EXCEPT ![c] = status]

-----------------------------------------------------------------------------
(* admitCommand: the verdict, the write-ahead file, and its materialization.*)
(* `queued` is a prompt admitted without a live connection: it never has   *)
(* an attempt.                                                             *)

Admissible(c) ==
    /\ AbortLock = {}
    /\ c \in Prompts => PromptLock = {} /\ ~busy
    /\ c \in Aborts => busy \/ DeliveredPrompt
    /\ Resolvable

Verdicts(c) ==
    {v \in {"rejected", "admitted", "queued"} :
        /\ v = "admitted" => Admissible(c)
        /\ v = "queued" => c \in Prompts}

PrepareAdmission(c) ==
    /\ Ready /\ c \notin known /\ wal[c] = "none"
    /\ \E v \in Verdicts(c) : wal' = [wal EXCEPT ![c] = v]
    /\ Continue(c, "identity")
    /\ UNCHANGED <<known, doc, held, receipt, proof, authority, ws, mode, degraded, todo, process>>

(* Mutant: the receipt is written without the attempt it speaks of.        *)
WriteIdentityThenReceipt(c) ==
    /\ At(c, "identity")
    /\ known' = known \cup {c}
    /\ Continue(c, "receipt")
    /\ UNCHANGED <<wal, doc, held, receipt, proof, authority, ws, mode, degraded, todo, process>>

WriteIdentity(c) ==
    /\ At(c, "identity")
    /\ known' = known \cup {c}
    /\ Continue(c, IF wal[c] = "admitted" THEN "attempt" ELSE "receipt")
    /\ UNCHANGED <<wal, doc, held, receipt, proof, authority, ws, mode, degraded, todo, process>>

(* The transaction holds the binding it was prepared under; nothing binds  *)
(* the thread before the transaction is materialized.                      *)
WriteAttempt(c) ==
    /\ At(c, "attempt")
    /\ Attempt(c, "admitted", active)
    /\ Continue(c, "receipt")
    /\ UNCHANGED <<wal, known, receipt, proof, authority, ws, mode, degraded, todo, process>>

WriteReceipt(c) ==
    /\ At(c, "receipt")
    /\ Receipt(c, wal[c])
    /\ Continue(c, "clear")
    /\ UNCHANGED <<wal, known, doc, held, proof, authority, ws, mode, degraded, todo, process>>

ClearAdmission(c) ==
    /\ At(c, "clear")
    /\ wal' = [wal EXCEPT ![c] = "none"]
    /\ Return
    /\ UNCHANGED <<known, doc, held, receipt, proof, authority, ws, mode, degraded, todo, process>>

-----------------------------------------------------------------------------
(* The attempt: refused before it starts, begun, settled.                  *)

(* Mutant: an attempt past its marker may still be reported unsent.        *)
FailUnanswered(c) ==
    /\ Ready /\ doc[c] \in {"admitted", "dispatching"} /\ receipt[c] = "admitted"
    /\ Attempt(c, "unsent", held[c])
    /\ Continue(c, "settle")
    /\ UNCHANGED <<wal, known, receipt, proof, authority, ws, mode, degraded, todo, process>>

FailBeforeStart(c) ==
    /\ Ready /\ doc[c] = "admitted" /\ receipt[c] = "admitted"
    /\ Attempt(c, "unsent", held[c])
    /\ Continue(c, "settle")
    /\ UNCHANGED <<wal, known, receipt, proof, authority, ws, mode, degraded, todo, process>>

(* beginResidentDispatch: the marker is the one-way no-replay boundary; the *)
(* lease to send the command exists only once it is durable.               *)
MayBegin(c) ==
    /\ c \in Prompts => PromptLock = {c} /\ ~busy
    /\ c \in Aborts => busy \/ DeliveredPrompt
    /\ Resolvable /\ SameAuthority(c)

BeginDispatch(c) ==
    /\ Ready /\ doc[c] = "admitted" /\ receipt[c] = "admitted" /\ MayBegin(c)
    /\ Attempt(c, "dispatching", active)
    /\ Continue(c, "lease")
    /\ UNCHANGED <<wal, known, receipt, proof, authority, ws, mode, degraded, todo, process>>

IssueLease(c) ==
    /\ At(c, "lease")
    /\ lease' = lease \cup {c} /\ granted' = granted \cup {c}
    /\ Return
    /\ UNCHANGED <<ledger, authority, ws, mode, degraded, todo, idle>>

FinalizeDispatch(c, outcome) ==
    /\ Ready /\ c \in lease /\ doc[c] = "dispatching" /\ receipt[c] = "admitted"
    /\ Resolvable /\ SameAuthority(c)
    /\ Attempt(c, outcome, active)
    /\ Continue(c, "settle")
    /\ UNCHANGED <<wal, known, receipt, proof, authority, ws, mode, degraded, todo, process>>

(* The tail of a settlement: the receipt, then the attempt goes unless it   *)
(* still waits for an idle proof.                                          *)
WriteSettledReceipt(c) ==
    /\ At(c, "settle")
    /\ Receipt(c, doc[c])
    /\ IF Retains(c) THEN Return ELSE Continue(c, "remove")
    /\ UNCHANGED <<wal, known, doc, held, proof, authority, ws, mode, degraded, todo, process>>

RemoveAttempt(c) ==
    /\ At(c, "remove")
    /\ Attempt(c, "none", NoBinding)
    /\ idle' = [idle EXCEPT ![c] = NoBinding]
    /\ Return
    /\ UNCHANGED <<wal, known, receipt, proof, authority, ws, mode, degraded, todo, lease, granted>>

-----------------------------------------------------------------------------
(* The idle proof of an acknowledged prompt or Stop.                       *)

LeaseIdleProof(c) ==
    /\ Ready /\ doc[c] = "running" /\ receipt[c] = "running"
    /\ Resolvable /\ SameAuthority(c)
    /\ idle' = [idle EXCEPT ![c] = active]
    /\ UNCHANGED <<ledger, authority, ws, instance, lease, granted>>

CompleteIdle(c) ==
    /\ Ready /\ doc[c] = "running" /\ receipt[c] = "running"
    /\ Resolvable /\ idle[c] = active /\ ~busy
    /\ Attempt(c, "proven", active)
    /\ Continue(c, "proof_receipt")
    /\ UNCHANGED <<wal, known, receipt, proof, authority, ws, mode, degraded, todo, process>>

WriteProofReceipt(c) ==
    /\ At(c, "proof_receipt")
    /\ Receipt(c, "completed")
    /\ Continue(c, "proof_event")
    /\ UNCHANGED <<wal, known, doc, held, proof, authority, ws, mode, degraded, todo, process>>

WriteProofEvent(c) ==
    /\ At(c, "proof_event")
    /\ proof' = proof \cup {c}
    /\ Continue(c, "remove")
    /\ UNCHANGED <<wal, known, doc, held, receipt, authority, ws, mode, degraded, todo, process>>

-----------------------------------------------------------------------------
(* The thread's session: bound, refreshed, projected, ended.               *)

Provision(b) ==
    /\ Ready /\ ~degraded /\ ws
    /\ active = NoBinding /\ ending # "ending" /\ b.sess \notin used
    /\ active' = b /\ used' = used \cup {b.sess}
    /\ ending' = "none" /\ endof' = NoBinding
    /\ busy' \in BOOLEAN
    /\ UNCHANGED <<ledger, ws, instance, process>>

(* persistResidentSessionBinding: a reconnect brings the supervisor's      *)
(* generation of the day.  The stable authority of an active binding never *)
(* changes, so an unresolved attempt does not stand in its way.            *)
RefreshBinding(g) ==
    /\ Ready /\ ~degraded /\ ws
    /\ active # NoBinding /\ ending = "none" /\ g # active.gen
    /\ active' = [active EXCEPT !.gen = g]
    /\ UNCHANGED <<ledger, ending, endof, used, busy, ws, instance, process>>

PublishProjection(activity) ==
    /\ Ready /\ ~degraded /\ ws /\ active # NoBinding
    /\ \A p \in PromptLock : PromptLock = {p} /\ SameAuthority(p)
    /\ busy' = activity
    /\ UNCHANGED <<ledger, active, ending, endof, used, ws, instance, process>>

(* assertResidentEndDispatchTransitions: an End may supersede what waits   *)
(* for proof, never what may still be sent.                                *)
EndMaySupersede(c) == Retains(c) /\ held[c] = active /\ receipt[c] = doc[c]

PrepareEnd ==
    /\ Ready /\ ~degraded /\ ws /\ active # NoBinding /\ ending = "none"
    /\ \A c \in Commands : doc[c] # "none" => EndMaySupersede(c)
    /\ ending' = "ending" /\ endof' = active
    /\ Continue(NoCommand, "revoke")
    /\ UNCHANGED <<ledger, active, used, busy, ws, mode, degraded, todo, process>>

WriteRevoked ==
    /\ At(NoCommand, "revoke")
    /\ active' = NoBinding
    /\ Continue(NoCommand, "supersede")
    /\ UNCHANGED <<ledger, ending, endof, used, busy, ws, mode, degraded, todo, process>>

(* supersedeResidentDispatchProofBarriersForEnd: the whole set is validated *)
(* before the first write, then each attempt loses its receipt and its file.*)
Supersedable == \A c \in Commands : doc[c] # "none" =>
    Retains(c) /\ held[c] = endof /\ receipt[c] \in {doc[c], "superseded"}

SupersedeReceipt(c) ==
    /\ At(NoCommand, "supersede") /\ Supersedable
    /\ doc[c] # "none"
    /\ \A d \in Commands : doc[d] # "none" => receipt[d] # "superseded"
    /\ Receipt(c, "superseded")
    /\ UNCHANGED <<wal, known, doc, held, proof, authority, ws, instance, process>>

RetireSuperseded(c) ==
    /\ At(NoCommand, "supersede")
    /\ doc[c] # "none" /\ receipt[c] = "superseded"
    /\ Attempt(c, "none", NoBinding)
    /\ idle' = [idle EXCEPT ![c] = NoBinding]
    /\ UNCHANGED <<wal, known, receipt, proof, authority, ws, instance, lease, granted>>

(* Mutant: the method returns after the first attempt it retired.          *)
FinishEarly ==
    /\ At(NoCommand, "supersede")
    /\ Supersedable => \E c \in Commands : doc[c] = "none"
    /\ IF Supersedable THEN UNCHANGED <<mode, degraded>>
       ELSE IF mode = "up" THEN mode' = "faulted" /\ UNCHANGED degraded
       ELSE degraded' = TRUE /\ UNCHANGED mode
    /\ Return
    /\ UNCHANGED <<ledger, authority, ws, todo, process>>

(* A set that does not validate stops the method: the serving Store is     *)
(* faulted, recovery goes on with resident continuity degraded.            *)
FinishSupersede ==
    /\ At(NoCommand, "supersede")
    /\ Supersedable => \A c \in Commands : doc[c] = "none"
    /\ IF Supersedable THEN UNCHANGED <<mode, degraded>>
       ELSE IF mode = "up" THEN mode' = "faulted" /\ UNCHANGED degraded
       ELSE degraded' = TRUE /\ UNCHANGED mode
    /\ Return
    /\ UNCHANGED <<ledger, authority, ws, todo, process>>

SettleEnd ==
    /\ Ready /\ ~degraded /\ ending = "ending"
    /\ ending' = "settled" /\ busy' = FALSE
    /\ UNCHANGED <<ledger, active, endof, used, ws, instance, process>>

-----------------------------------------------------------------------------
(* A write that fails, a crash, the workspace.                             *)

StoreFault ==
    /\ mode = "up" /\ mode' = "faulted" /\ Return
    /\ UNCHANGED <<ledger, authority, ws, degraded, todo, process>>

Crash ==
    /\ mode # "down" /\ mode' = "down" /\ degraded' = FALSE /\ Return /\ todo' = {}
    /\ lease' = {} /\ idle' = [c \in Commands |-> NoBinding]
    /\ UNCHANGED <<ledger, authority, ws, granted>>

WorkspaceChange ==
    /\ WorkspaceMayVanish /\ ws' = ~ws
    /\ UNCHANGED <<ledger, authority, instance, process>>

-----------------------------------------------------------------------------
(* initialize(): admissions, then Ends, then interrupted attempts.         *)

Boot ==
    /\ mode = "down" /\ mode' = "admissions"
    /\ UNCHANGED <<ledger, authority, ws, degraded, call, todo, process>>

RecoverAdmission(c) ==
    /\ mode = "admissions" /\ call = Idle /\ wal[c] # "none"
    /\ Continue(c, "identity")
    /\ UNCHANGED <<ledger, authority, ws, mode, degraded, todo, process>>

FinishAdmissions ==
    /\ mode = "admissions" /\ call = Idle
    /\ \A c \in Commands : wal[c] = "none"
    /\ mode' = "ends"
    /\ UNCHANGED <<ledger, authority, ws, degraded, call, todo, process>>

(* Mutant: recovery looks only for an End that has not revoked.            *)
EndUnrevoked == endof # NoBinding /\ active = endof

EndPending == endof # NoBinding /\ (active = endof \/ \E c \in Commands : doc[c] # "none")

RecoverEnd ==
    /\ mode = "ends" /\ call = Idle /\ ~degraded /\ EndPending
    /\ Continue(NoCommand, IF active = endof THEN "revoke" ELSE "supersede")
    /\ UNCHANGED <<ledger, authority, ws, mode, degraded, todo, process>>

(* validateResidentState: an active binding whose workspace is missing     *)
(* degrades resident continuity and nothing else.                          *)
FinishEnds ==
    /\ mode = "ends" /\ call = Idle /\ (degraded \/ ~EndPending)
    /\ mode' = "dispatches"
    /\ degraded' = (degraded \/ (active # NoBinding /\ ~ws))
    /\ todo' = {c \in Commands : doc[c] # "none"}
    /\ UNCHANGED <<ledger, authority, ws, call, process>>

(* recoverInterruptedResidentDispatches: what each state may be found with. *)
Visiting(c) == mode = "dispatches" /\ call = Idle /\ c \in todo

ReceiptsFor == [admitted |-> {"admitted", "unsent"}, dispatching |-> {"admitted", "running", "uncertain"},
                unsent |-> {"admitted", "unsent"}, failed |-> {"admitted", "failed"},
                running |-> {"admitted", "running"}, uncertain |-> {"admitted", "uncertain"},
                proven |-> {"running", "completed"}]

Recoverable(c) ==
    c \in known /\ Resolvable /\ SameAuthority(c) /\ receipt[c] \in ReceiptsFor[doc[c]]

Visited(c) == todo' = todo \ {c}

ResumeSettled(c) ==
    /\ Visiting(c) /\ Recoverable(c) /\ doc[c] \in {"unsent", "failed", "running", "uncertain"}
    /\ Continue(c, "settle") /\ Visited(c)
    /\ UNCHANGED <<ledger, authority, ws, mode, degraded, process>>

ResumeProof(c) ==
    /\ Visiting(c) /\ Recoverable(c) /\ doc[c] = "proven"
    /\ Continue(c, "proof_receipt") /\ Visited(c)
    /\ UNCHANGED <<ledger, authority, ws, mode, degraded, process>>

RecoverNotStarted(c) ==
    /\ Visiting(c) /\ Recoverable(c) /\ doc[c] = "admitted"
    /\ Receipt(c, "unsent")
    /\ Continue(c, "remove") /\ Visited(c)
    /\ UNCHANGED <<wal, known, doc, held, proof, authority, ws, mode, degraded, process>>

(* Mutant: an interrupted attempt is put back to be sent again.            *)
RecoverForRetry(c) ==
    /\ Visiting(c) /\ Recoverable(c) /\ doc[c] = "dispatching"
    /\ Attempt(c, "admitted", held[c])
    /\ Return /\ Visited(c)
    /\ UNCHANGED <<wal, known, receipt, proof, authority, ws, mode, degraded, process>>

(* The attempt keeps the binding it was begun under.                       *)
RecoverUncertain(c) ==
    /\ Visiting(c) /\ Recoverable(c) /\ doc[c] = "dispatching"
    /\ Attempt(c, "uncertain", held[c])
    /\ Continue(c, "settle") /\ Visited(c)
    /\ UNCHANGED <<wal, known, receipt, proof, authority, ws, mode, degraded, process>>

(* Any attempt that cannot be recovered makes initialize() throw.          *)
RefuseToServe(c) ==
    /\ Visiting(c) /\ ~Recoverable(c)
    /\ mode' = "refused"
    /\ UNCHANGED <<ledger, authority, ws, degraded, call, todo, process>>

FinishRecovery ==
    /\ mode = "dispatches" /\ call = Idle /\ todo = {}
    /\ mode' = "up"
    /\ UNCHANGED <<ledger, authority, ws, degraded, call, todo, process>>

-----------------------------------------------------------------------------
AdmissionStep(c) ==
    \/ PrepareAdmission(c) \/ WriteIdentity(c) \/ WriteAttempt(c)
    \/ WriteReceipt(c) \/ ClearAdmission(c)

DispatchStep(c) ==
    \/ FailBeforeStart(c) \/ BeginDispatch(c) \/ IssueLease(c)
    \/ \E outcome \in {"failed", "running", "uncertain"} : FinalizeDispatch(c, outcome)
    \/ WriteSettledReceipt(c) \/ RemoveAttempt(c)

ProofStep(c) ==
    LeaseIdleProof(c) \/ CompleteIdle(c) \/ WriteProofReceipt(c) \/ WriteProofEvent(c)

SessionStep ==
    \/ \E b \in Bindings : Provision(b)
    \/ \E g \in Generations : RefreshBinding(g)
    \/ \E activity \in BOOLEAN : PublishProjection(activity)
    \/ PrepareEnd \/ WriteRevoked \/ FinishSupersede \/ SettleEnd
    \/ \E c \in Commands : SupersedeReceipt(c) \/ RetireSuperseded(c)

RecoveryStep ==
    \/ Boot \/ FinishAdmissions \/ RecoverEnd \/ FinishEnds \/ FinishRecovery
    \/ \E c \in Commands :
          \/ RecoverAdmission(c) \/ ResumeSettled(c) \/ ResumeProof(c)
          \/ RecoverNotStarted(c) \/ RecoverUncertain(c) \/ RefuseToServe(c)

Next ==
    \/ \E c \in Commands : AdmissionStep(c) \/ DispatchStep(c) \/ ProofStep(c)
    \/ SessionStep \/ RecoveryStep
    \/ StoreFault \/ Crash \/ WorkspaceChange

DispatchSpec == Init /\ [][Next]_dispatchVars

-----------------------------------------------------------------------------
(* Types: every record holds one of the values its schema admits.          *)
Verdict == {"none", "rejected", "admitted", "queued"}
AttemptState == {"none", "admitted", "dispatching", "unsent", "failed", "running", "uncertain", "proven"}
ReceiptStatus == {"none", "rejected", "queued", "admitted", "unsent", "failed", "running",
                  "uncertain", "completed", "superseded"}
Writes == {"none", "identity", "attempt", "receipt", "clear", "settle", "remove", "lease",
           "proof_receipt", "proof_event", "revoke", "supersede"}

DispatchTypeOK ==
    /\ wal \in [Commands -> Verdict]
    /\ known \subseteq Commands
    /\ doc \in [Commands -> AttemptState]
    /\ held \in [Commands -> Bindings \cup {NoBinding}]
    /\ receipt \in [Commands -> ReceiptStatus]
    /\ proof \subseteq Commands
    /\ active \in Bindings \cup {NoBinding}
    /\ ending \in {"none", "ending", "settled"}
    /\ endof \in Bindings \cup {NoBinding}
    /\ used \subseteq Sessions
    /\ busy \in BOOLEAN /\ ws \in BOOLEAN
    /\ mode \in {"down", "admissions", "ends", "dispatches", "up", "faulted", "refused"}
    /\ degraded \in BOOLEAN
    /\ call \in [cmd : Commands \cup {NoCommand}, at : Writes]
    /\ todo \subseteq Commands
    /\ lease \subseteq Commands
    /\ idle \in [Commands -> Bindings \cup {NoBinding}]
    /\ granted \subseteq Commands

(* While the Store serves, an attempt exists for exactly the commands that *)
(* are not settled and it agrees with their receipts: no command waits for *)
(* ever on a receipt nothing will settle, and no lock is left behind.      *)
Unsettled == {"admitted", "running", "uncertain"}
ReceiptsHaveAttempts == Ready =>
    /\ known = {c \in Commands : receipt[c] # "none"}
    /\ \A c \in Commands :
        /\ wal[c] = "none"
        /\ doc[c] = "none" <=> receipt[c] \notin Unsettled
        /\ doc[c] \in {"admitted", "dispatching"} => receipt[c] = "admitted"
        /\ doc[c] \notin {"none", "admitted", "dispatching"} => Retains(c) /\ receipt[c] = doc[c]

(* A receipt that says nothing was sent to Prime Agent tells the truth: no *)
(* caller ever held the lease to send that command.                        *)
UnsentNeverGranted == \A c \in Commands :
    receipt[c] = "unsent" \/ doc[c] = "unsent" => c \notin granted

(* Completion is exactly the durable idle observation of that command.     *)
CompletedIsProven == Ready => proof = {c \in Commands : receipt[c] = "completed"}

(* Whatever a receipt says is true: it is unsettled while its attempt is   *)
(* there to settle it, unsent only if nobody was ever let send, completed  *)
(* only with the idle observation, through every crash, fault and End.     *)
ReceiptsTruthful == ReceiptsHaveAttempts /\ UnsentNeverGranted /\ CompletedIsProven

(* Once an End has begun nothing of the session it took can be dispatched, *)
(* settled or completed any more; an attempt is always of the session the  *)
(* thread is bound to.                                                     *)
EndRetiresAttempts == Ready => \A c \in Commands :
    doc[c] # "none" => ending = "none" /\ SameAuthority(c)

(* initialize() comes back: as long as the workspace is where it was, no   *)
(* attempt and no End the Store itself wrote degrades resident continuity  *)
(* or makes the whole host refuse to start.                                *)
InitializeServes == [][
    /\ mode' = "refused" => mode = "refused" \/ degraded \/ ~ws
    /\ degraded' => degraded \/ ~ws]_dispatchVars

(* End may supersede a dispatch whose upstream call is already settled but *)
(* whose idle proof never arrived.                                         *)
EndSupersedesSettled ==
    Ready => \A c \in Commands : Retains(c) => EndMaySupersede(c)

-----------------------------------------------------------------------------
(* The Store implements CommandLedger: the durable attempt decides, except  *)
(* where recovery or an End has already written the receipt.               *)
StageOfAttempt == [admitted |-> "admitted", dispatching |-> "sent", unsent |-> "unsent",
                   failed |-> "failed", running |-> "running", uncertain |-> "uncertain",
                   proven |-> "completed"]

Stage(c) ==
    IF receipt[c] \in {"superseded", "unsent"} THEN receipt[c]
    ELSE IF wal[c] # "none" THEN wal[c]
    ELSE IF doc[c] # "none" THEN StageOfAttempt[doc[c]]
    ELSE IF receipt[c] = "none" THEN "unknown"
    ELSE receipt[c]

Ledger == INSTANCE CommandLedger WITH stage <- [c \in Commands |-> Stage(c)]

LedgerSpec == Ledger!Spec
=============================================================================
