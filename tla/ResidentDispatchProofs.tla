----------------------- MODULE ResidentDispatchProofs -----------------------
(***************************************************************************)
(* The invariant of ResidentDispatch is inductive, its safety properties   *)
(* follow from it, and the Store's dispatch half implements CommandLedger. *)
(* Then ResidentCommands: handlers, mutex, adapter, gateway and daemon are *)
(* one caller of that Store, the invariant of the whole is inductive, and  *)
(* its safety properties follow.                                           *)
(*                                                                         *)
(* The argument of the second part: most steps only settle what the Store  *)
(* holds (AllSettle), and a command none of whose variables but those      *)
(* change stays truthful (UpstreamKept), the pending admission the only    *)
(* one (AdmissionKept), a Stop behind its prompt (OrderKept).  What is     *)
(* left are the six writes that do more, and the moves of the queue.       *)
(***************************************************************************)
EXTENDS ResidentCommandsInvariant, SequenceTheorems, TLAPS

USE CommandsAssumption, BindingAssumption
DEF Idle, At, Ready, Continue, Return, Attempt, Receipt, Visiting, Visited, ledger, authority,
    instance, process

-----------------------------------------------------------------------------
(* A step about one command: the records of every other one, the thread's  *)
(* authority and the mode stay, and the mutex was and is held for it or    *)
(* for no command.                                                         *)
OnlyCommand(c) ==
    /\ \A d \in Commands \ {c} :
        /\ wal'[d] = wal[d] /\ doc'[d] = doc[d] /\ held'[d] = held[d] /\ receipt'[d] = receipt[d]
        /\ d \in known' <=> d \in known
        /\ d \in proof' <=> d \in proof
        /\ d \in granted' <=> d \in granted
        /\ d \in todo' <=> d \in todo
    /\ UNCHANGED <<active, ending, endof, mode, degraded>>
    /\ call.cmd \in {c, NoCommand} /\ call'.cmd \in {c, NoCommand}
    /\ call.at \notin EndWrites /\ call'.at \notin EndWrites

(* The frame of such a step: the invariant has to be shown again only for  *)
(* that command.                                                           *)
LEMMA OneCommandPreserves ==
    ASSUME NEW c \in Commands, DispatchInvariant, OnlyCommand(c),
           DispatchTypeOK', CallModes',
           RecordShape(c)', AttemptAuthority(c)', GrantedIsPast(c)',
           CallEstablished(c)', ModeFacts(c)'
    PROVE  DispatchInvariant'
<1>1. EndShape' /\ (mode \in {"down", "admissions", "ends"} => ~degraded)'
  BY DEF DispatchInvariant, OnlyCommand, EndShape
<1>2. ASSUME NEW d \in Commands, d # c PROVE CommandFacts(d)'
  <2>1. CommandFacts(d) BY DEF DispatchInvariant
  <2>2. /\ wal'[d] = wal[d] /\ doc'[d] = doc[d] /\ held'[d] = held[d] /\ receipt'[d] = receipt[d]
        /\ d \in known' <=> d \in known
        /\ d \in proof' <=> d \in proof
        /\ d \in granted' <=> d \in granted
        /\ d \in todo' <=> d \in todo
    BY <1>2 DEF OnlyCommand
  <2>3. RecordShape(d)' BY <2>1, <2>2 DEF CommandFacts, RecordShape, Beside, Retains
  <2>4. AttemptAuthority(d)'
    BY <2>1, <2>2 DEF CommandFacts, AttemptAuthority, Retains, OnlyCommand
  <2>5. GrantedIsPast(d)' BY <2>1, <2>2 DEF CommandFacts, GrantedIsPast
  <2>6. CallEstablished(d)'
    BY <1>2, CommandsAssumption DEF OnlyCommand, CallEstablished, At
  <2>7. ModeFacts(d)'
    <3>1. AtRest(d)' <=> AtRest(d) BY <2>2 DEF AtRest, Retains
    <3>2. ~At(NoCommand, "supersede") BY DEF OnlyCommand, EndWrites, At
    <3>3. call.cmd # d BY <1>2, CommandsAssumption DEF OnlyCommand
    <3>4. call'.cmd # d BY <1>2, CommandsAssumption DEF OnlyCommand
    <3> QED BY <2>1, <2>2, <3>1, <3>2, <3>3, <3>4 DEF CommandFacts, ModeFacts, OnlyCommand
  <2> QED BY <2>3, <2>4, <2>5, <2>6, <2>7 DEF CommandFacts
<1> QED BY <1>1, <1>2 DEF CommandFacts, DispatchInvariant

-----------------------------------------------------------------------------
(* Admission. Each write is about one command; what the previous write     *)
(* left is CallEstablished.                                                *)

LEMMA PrepareAdmissionPreserves ==
    ASSUME NEW c \in Commands, DispatchInvariant, PrepareAdmission(c)
    PROVE  DispatchInvariant'
<1>1. DispatchTypeOK /\ EndShape /\ CallModes /\ CommandFacts(c)
  BY DEF DispatchInvariant
<1>2. DispatchTypeOK'
  BY <1>1 DEF PrepareAdmission, Verdicts, DispatchTypeOK, Verdict, Writes
<1>3. OnlyCommand(c) /\ CallModes'
  BY <1>1 DEF PrepareAdmission, OnlyCommand, CallModes, EndWrites
<1>4. RecordShape(c)' /\ AttemptAuthority(c)' /\ GrantedIsPast(c)'
  BY <1>1 DEF PrepareAdmission, Verdicts, Admissible, Resolvable,
    CommandFacts, RecordShape, AttemptAuthority, GrantedIsPast, CallModes
<1>5. CallEstablished(c)' /\ ModeFacts(c)'
  BY <1>1 DEF PrepareAdmission, Verdicts, DispatchTypeOK, CommandFacts,
    RecordShape, CallEstablished, ModeFacts
<1> QED BY <1>2, <1>3, <1>4, <1>5, OneCommandPreserves

LEMMA WriteIdentityPreserves ==
    ASSUME NEW c \in Commands, DispatchInvariant, WriteIdentity(c)
    PROVE  DispatchInvariant'
<1>1. DispatchTypeOK /\ EndShape /\ CallModes /\ CommandFacts(c)
  BY DEF DispatchInvariant
<1>2. DispatchTypeOK'
  BY <1>1 DEF WriteIdentity, DispatchTypeOK, Writes
<1>3. OnlyCommand(c) /\ CallModes'
  BY <1>1 DEF WriteIdentity, OnlyCommand, CallModes, AdmissionWrites,
    SettlementWrites, EndWrites
<1>4. RecordShape(c)' /\ AttemptAuthority(c)' /\ GrantedIsPast(c)'
  BY <1>1 DEF WriteIdentity, CommandFacts, RecordShape, AttemptAuthority,
    GrantedIsPast, CallEstablished
<1>5. CallEstablished(c)' /\ ModeFacts(c)'
  BY <1>1 DEF WriteIdentity, CommandFacts, RecordShape, AttemptAuthority,
    CallEstablished, ModeFacts
<1> QED BY <1>2, <1>3, <1>4, <1>5, OneCommandPreserves

LEMMA WriteAttemptPreserves ==
    ASSUME NEW c \in Commands, DispatchInvariant, WriteAttempt(c)
    PROVE  DispatchInvariant'
<1>1. DispatchTypeOK /\ EndShape /\ CallModes /\ CommandFacts(c)
  BY DEF DispatchInvariant
<1>2. DispatchTypeOK'
  BY <1>1 DEF WriteAttempt, DispatchTypeOK, AttemptState, Writes
<1>3. OnlyCommand(c) /\ CallModes'
  BY <1>1 DEF WriteAttempt, OnlyCommand, CallModes, AdmissionWrites,
    SettlementWrites, EndWrites
<1>4. RecordShape(c)' /\ AttemptAuthority(c)' /\ GrantedIsPast(c)'
  BY <1>1 DEF WriteAttempt, DispatchTypeOK, CommandFacts, RecordShape,
    AttemptAuthority, GrantedIsPast, CallEstablished
<1>5. CallEstablished(c)' /\ ModeFacts(c)'
  BY <1>1 DEF WriteAttempt, DispatchTypeOK, CommandFacts, AttemptAuthority,
    CallEstablished, ModeFacts
<1> QED BY <1>2, <1>3, <1>4, <1>5, OneCommandPreserves

LEMMA WriteReceiptPreserves ==
    ASSUME NEW c \in Commands, DispatchInvariant, WriteReceipt(c)
    PROVE  DispatchInvariant'
<1>1. DispatchTypeOK /\ EndShape /\ CallModes /\ CommandFacts(c)
  BY DEF DispatchInvariant
<1>2. DispatchTypeOK'
  BY <1>1 DEF WriteReceipt, DispatchTypeOK, ReceiptStatus, Verdict, Writes
<1>3. OnlyCommand(c) /\ CallModes'
  BY <1>1 DEF WriteReceipt, OnlyCommand, CallModes, AdmissionWrites,
    SettlementWrites, EndWrites
<1>4. RecordShape(c)' /\ AttemptAuthority(c)' /\ GrantedIsPast(c)'
  BY <1>1 DEF WriteReceipt, DispatchTypeOK, Verdict, CommandFacts,
    RecordShape, AttemptAuthority, GrantedIsPast, CallEstablished
<1>5. CallEstablished(c)' /\ ModeFacts(c)'
  BY <1>1 DEF WriteReceipt, DispatchTypeOK, CommandFacts, RecordShape,
    AttemptAuthority, CallEstablished, ModeFacts
<1> QED BY <1>2, <1>3, <1>4, <1>5, OneCommandPreserves

LEMMA ClearAdmissionPreserves ==
    ASSUME NEW c \in Commands, DispatchInvariant, ClearAdmission(c)
    PROVE  DispatchInvariant'
<1>1. DispatchTypeOK /\ EndShape /\ CallModes /\ CommandFacts(c)
  BY DEF DispatchInvariant
<1>2. DispatchTypeOK'
  BY <1>1 DEF ClearAdmission, DispatchTypeOK, Verdict, Writes
<1>3. OnlyCommand(c) /\ CallModes'
  BY <1>1 DEF ClearAdmission, OnlyCommand, CallModes, AdmissionWrites,
    SettlementWrites, EndWrites
<1>4. RecordShape(c)' /\ AttemptAuthority(c)' /\ GrantedIsPast(c)'
  BY <1>1 DEF ClearAdmission, DispatchTypeOK, Verdict, CommandFacts,
    RecordShape, Beside, AttemptAuthority, GrantedIsPast, CallEstablished,
    Retains
<1>5. CallEstablished(c)' /\ ModeFacts(c)'
  BY <1>1 DEF ClearAdmission, DispatchTypeOK, CommandFacts, RecordShape,
    AttemptAuthority, CallEstablished, ModeFacts, AtRest, Retains
<1> QED BY <1>2, <1>3, <1>4, <1>5, OneCommandPreserves

-----------------------------------------------------------------------------
(* The attempt: begun, leased, settled or refused, and removed.            *)

LEMMA FailBeforeStartPreserves ==
    ASSUME NEW c \in Commands, DispatchInvariant, FailBeforeStart(c)
    PROVE  DispatchInvariant'
<1>1. DispatchTypeOK /\ EndShape /\ CallModes /\ CommandFacts(c)
  BY DEF DispatchInvariant
<1>2. DispatchTypeOK'
  BY <1>1 DEF FailBeforeStart, DispatchTypeOK, AttemptState, Writes
<1>3. OnlyCommand(c) /\ CallModes'
  BY <1>1 DEF FailBeforeStart, OnlyCommand, CallModes, EndWrites
<1>4. RecordShape(c)' /\ AttemptAuthority(c)' /\ GrantedIsPast(c)'
  BY <1>1 DEF FailBeforeStart, CommandFacts, RecordShape, Beside,
    AttemptAuthority, GrantedIsPast, ModeFacts, Retains
<1>5. CallEstablished(c)' /\ ModeFacts(c)'
  BY <1>1 DEF FailBeforeStart, DispatchTypeOK, CommandFacts,
    AttemptAuthority, CallEstablished, ModeFacts, Retains
<1> QED BY <1>2, <1>3, <1>4, <1>5, OneCommandPreserves

(* The marker is durable before the lease exists.                          *)
LEMMA BeginDispatchPreserves ==
    ASSUME NEW c \in Commands, DispatchInvariant, BeginDispatch(c)
    PROVE  DispatchInvariant'
<1>1. DispatchTypeOK /\ EndShape /\ CallModes /\ CommandFacts(c)
  BY DEF DispatchInvariant
<1>2. DispatchTypeOK'
  BY <1>1 DEF BeginDispatch, DispatchTypeOK, AttemptState, Writes
<1>3. OnlyCommand(c) /\ CallModes'
  BY <1>1 DEF BeginDispatch, OnlyCommand, CallModes, EndWrites
<1>4. RecordShape(c)' /\ AttemptAuthority(c)' /\ GrantedIsPast(c)'
  BY <1>1 DEF BeginDispatch, MayBegin, Resolvable, DispatchTypeOK,
    CommandFacts, RecordShape, Beside, AttemptAuthority, GrantedIsPast,
    ModeFacts
<1>5. CallEstablished(c)' /\ ModeFacts(c)'
  BY <1>1 DEF BeginDispatch, DispatchTypeOK, CommandFacts, AttemptAuthority,
    CallEstablished, ModeFacts, Retains
<1> QED BY <1>2, <1>3, <1>4, <1>5, OneCommandPreserves

(* The one step that grants: the attempt is past admission for good.       *)
LEMMA IssueLeasePreserves ==
    ASSUME NEW c \in Commands, DispatchInvariant, IssueLease(c)
    PROVE  DispatchInvariant'
<1>1. DispatchTypeOK /\ EndShape /\ CallModes /\ CommandFacts(c)
  BY DEF DispatchInvariant
<1>2. DispatchTypeOK'
  BY <1>1 DEF IssueLease, DispatchTypeOK, Writes
<1>3. OnlyCommand(c) /\ CallModes'
  BY <1>1 DEF IssueLease, OnlyCommand, CallModes, AdmissionWrites,
    SettlementWrites, EndWrites
<1>4. RecordShape(c)' /\ AttemptAuthority(c)' /\ GrantedIsPast(c)'
  BY <1>1 DEF IssueLease, CommandFacts, RecordShape, Beside,
    AttemptAuthority, GrantedIsPast, CallEstablished
<1>5. CallEstablished(c)' /\ ModeFacts(c)'
  BY <1>1 DEF IssueLease, CommandFacts, RecordShape, Beside,
    AttemptAuthority, CallEstablished, ModeFacts, AtRest, Retains
<1> QED BY <1>2, <1>3, <1>4, <1>5, OneCommandPreserves

LEMMA FinalizeDispatchPreserves ==
    ASSUME NEW c \in Commands, NEW o \in {"failed", "running", "uncertain"},
           DispatchInvariant, FinalizeDispatch(c, o)
    PROVE  DispatchInvariant'
<1>1. DispatchTypeOK /\ EndShape /\ CallModes /\ CommandFacts(c)
  BY DEF DispatchInvariant
<1>2. DispatchTypeOK'
  BY <1>1 DEF FinalizeDispatch, DispatchTypeOK, AttemptState, Writes
<1>3. OnlyCommand(c) /\ CallModes'
  BY <1>1 DEF FinalizeDispatch, OnlyCommand, CallModes, EndWrites
<1>4. RecordShape(c)' /\ AttemptAuthority(c)' /\ GrantedIsPast(c)'
  BY <1>1 DEF FinalizeDispatch, CommandFacts, RecordShape, Beside,
    AttemptAuthority, GrantedIsPast
<1>5. CallEstablished(c)' /\ ModeFacts(c)'
  BY <1>1 DEF FinalizeDispatch, DispatchTypeOK, CommandFacts,
    AttemptAuthority, CallEstablished, ModeFacts
<1> QED BY <1>2, <1>3, <1>4, <1>5, OneCommandPreserves

LEMMA WriteSettledReceiptPreserves ==
    ASSUME NEW c \in Commands, DispatchInvariant, WriteSettledReceipt(c)
    PROVE  DispatchInvariant'
<1>1. DispatchTypeOK /\ EndShape /\ CallModes /\ CommandFacts(c)
  BY DEF DispatchInvariant
<1>2. DispatchTypeOK'
  BY <1>1 DEF WriteSettledReceipt, DispatchTypeOK, ReceiptStatus, Writes,
    CommandFacts, CallEstablished
<1>3. OnlyCommand(c) /\ CallModes'
  BY <1>1 DEF WriteSettledReceipt, OnlyCommand, CallModes, AdmissionWrites,
    SettlementWrites, EndWrites
<1>4. RecordShape(c)' /\ AttemptAuthority(c)' /\ GrantedIsPast(c)'
  BY <1>1 DEF WriteSettledReceipt, Retains, CommandFacts, RecordShape,
    Beside, AttemptAuthority, GrantedIsPast, CallEstablished
<1>5. CallEstablished(c)' /\ ModeFacts(c)'
  BY <1>1 DEF WriteSettledReceipt, Retains, DispatchTypeOK, CommandFacts,
    CallEstablished, ModeFacts, AtRest, CallModes
<1> QED BY <1>2, <1>3, <1>4, <1>5, OneCommandPreserves

(* The receipt is final and Beside no longer asks for an attempt.          *)
LEMMA RemoveAttemptPreserves ==
    ASSUME NEW c \in Commands, DispatchInvariant, RemoveAttempt(c)
    PROVE  DispatchInvariant'
<1>1. DispatchTypeOK /\ EndShape /\ CallModes /\ CommandFacts(c)
  BY DEF DispatchInvariant
<1>2. DispatchTypeOK'
  BY <1>1 DEF RemoveAttempt, DispatchTypeOK, AttemptState, Writes
<1>3. OnlyCommand(c) /\ CallModes'
  BY <1>1 DEF RemoveAttempt, OnlyCommand, CallModes, AdmissionWrites,
    SettlementWrites, EndWrites
<1>4. RecordShape(c)' /\ AttemptAuthority(c)' /\ GrantedIsPast(c)'
  BY <1>1 DEF RemoveAttempt, DispatchTypeOK, CommandFacts, RecordShape,
    Beside, AttemptAuthority, GrantedIsPast, CallEstablished, Retains
<1>5. CallEstablished(c)' /\ ModeFacts(c)'
  BY <1>1 DEF RemoveAttempt, DispatchTypeOK, CommandFacts, CallEstablished,
    ModeFacts, AtRest, Retains
<1> QED BY <1>2, <1>3, <1>4, <1>5, OneCommandPreserves

-----------------------------------------------------------------------------
(* The idle proof: observed, written to the receipt, then to the journal.  *)

LEMMA LeaseIdleProofPreserves ==
    ASSUME NEW c \in Commands, DispatchInvariant, LeaseIdleProof(c)
    PROVE  DispatchInvariant'
<1>1. DispatchTypeOK /\ EndShape /\ CallModes /\ CommandFacts(c)
  BY DEF DispatchInvariant
<1>2. DispatchTypeOK'
  BY <1>1 DEF LeaseIdleProof, DispatchTypeOK
<1>3. OnlyCommand(c) /\ CallModes'
  BY <1>1 DEF LeaseIdleProof, OnlyCommand, CallModes, EndWrites
<1>4. RecordShape(c)' /\ AttemptAuthority(c)' /\ GrantedIsPast(c)'
  BY <1>1 DEF LeaseIdleProof, CommandFacts, RecordShape, Beside,
    AttemptAuthority, GrantedIsPast, Retains
<1>5. CallEstablished(c)' /\ ModeFacts(c)'
  BY <1>1 DEF LeaseIdleProof, CommandFacts, CallEstablished, ModeFacts,
    AtRest
<1> QED BY <1>2, <1>3, <1>4, <1>5, OneCommandPreserves

LEMMA CompleteIdlePreserves ==
    ASSUME NEW c \in Commands, DispatchInvariant, CompleteIdle(c)
    PROVE  DispatchInvariant'
<1>1. DispatchTypeOK /\ EndShape /\ CallModes /\ CommandFacts(c)
  BY DEF DispatchInvariant
<1>2. DispatchTypeOK'
  BY <1>1 DEF CompleteIdle, DispatchTypeOK, AttemptState, Writes
<1>3. OnlyCommand(c) /\ CallModes'
  BY <1>1 DEF CompleteIdle, OnlyCommand, CallModes, EndWrites
<1>4. RecordShape(c)' /\ AttemptAuthority(c)' /\ GrantedIsPast(c)'
  BY <1>1 DEF CompleteIdle, Resolvable, DispatchTypeOK, CommandFacts,
    RecordShape, Beside, AttemptAuthority, GrantedIsPast, Retains
<1>5. CallEstablished(c)' /\ ModeFacts(c)'
  BY <1>1 DEF CompleteIdle, Resolvable, DispatchTypeOK, CommandFacts,
    AttemptAuthority, CallEstablished, ModeFacts
<1> QED BY <1>2, <1>3, <1>4, <1>5, OneCommandPreserves

LEMMA WriteProofReceiptPreserves ==
    ASSUME NEW c \in Commands, DispatchInvariant, WriteProofReceipt(c)
    PROVE  DispatchInvariant'
<1>1. DispatchTypeOK /\ EndShape /\ CallModes /\ CommandFacts(c)
  BY DEF DispatchInvariant
<1>2. DispatchTypeOK'
  BY <1>1 DEF WriteProofReceipt, DispatchTypeOK, ReceiptStatus, Writes
<1>3. OnlyCommand(c) /\ CallModes'
  BY <1>1 DEF WriteProofReceipt, OnlyCommand, CallModes, AdmissionWrites,
    SettlementWrites, EndWrites
<1>4. RecordShape(c)' /\ AttemptAuthority(c)' /\ GrantedIsPast(c)'
  BY <1>1 DEF WriteProofReceipt, CommandFacts, RecordShape, Beside,
    AttemptAuthority, GrantedIsPast, CallEstablished, Retains
<1>5. CallEstablished(c)' /\ ModeFacts(c)'
  BY <1>1 DEF WriteProofReceipt, DispatchTypeOK, CommandFacts, RecordShape,
    Beside, AttemptAuthority, CallEstablished, ModeFacts
<1> QED BY <1>2, <1>3, <1>4, <1>5, OneCommandPreserves

LEMMA WriteProofEventPreserves ==
    ASSUME NEW c \in Commands, DispatchInvariant, WriteProofEvent(c)
    PROVE  DispatchInvariant'
<1>1. DispatchTypeOK /\ EndShape /\ CallModes /\ CommandFacts(c)
  BY DEF DispatchInvariant
<1>2. DispatchTypeOK'
  BY <1>1 DEF WriteProofEvent, DispatchTypeOK, Writes
<1>3. OnlyCommand(c) /\ CallModes'
  BY <1>1 DEF WriteProofEvent, OnlyCommand, CallModes, AdmissionWrites,
    SettlementWrites, EndWrites
<1>4. RecordShape(c)' /\ AttemptAuthority(c)' /\ GrantedIsPast(c)'
  BY <1>1 DEF WriteProofEvent, CommandFacts, RecordShape, Beside,
    AttemptAuthority, GrantedIsPast, CallEstablished, Retains
<1>5. CallEstablished(c)' /\ ModeFacts(c)'
  BY <1>1 DEF WriteProofEvent, CommandFacts, AttemptAuthority,
    CallEstablished, ModeFacts
<1> QED BY <1>2, <1>3, <1>4, <1>5, OneCommandPreserves

-----------------------------------------------------------------------------
(* The thread's session. A binding, its End and the supersession of what   *)
(* the End took speak of every command, so an arbitrary one is followed.   *)

LEMMA ProvisionPreserves ==
    ASSUME NEW b \in Bindings, DispatchInvariant, Provision(b)
    PROVE  DispatchInvariant'
<1>1. DispatchTypeOK'
  BY DEF Provision, DispatchTypeOK, Bindings, DispatchInvariant
<1>2. EndShape' /\ CallModes' /\ (mode \in {"down", "admissions", "ends"} => ~degraded)'
  BY DEF Provision, CallModes, EndShape, AdmissionWrites, SettlementWrites,
    EndWrites
<1>3. ASSUME NEW d \in Commands PROVE CommandFacts(d)'
  <2>1. DispatchTypeOK /\ EndShape /\ CallModes /\ CommandFacts(d)
    BY DEF DispatchInvariant
  <2>2. RecordShape(d)' /\ AttemptAuthority(d)' /\ GrantedIsPast(d)'
    BY <2>1 DEF Provision, CommandFacts, RecordShape, Beside,
      AttemptAuthority, GrantedIsPast, Retains
  <2>3. CallEstablished(d)' /\ ModeFacts(d)'
    BY <2>1 DEF Provision, CommandFacts, CallEstablished, ModeFacts,
      AtRest, Retains
  <2> QED BY <2>2, <2>3 DEF CommandFacts
<1> QED BY <1>1, <1>2, <1>3 DEF DispatchInvariant

LEMMA RefreshBindingPreserves ==
    ASSUME NEW g \in Generations, DispatchInvariant, RefreshBinding(g)
    PROVE  DispatchInvariant'
<1>1. DispatchTypeOK'
  BY DEF RefreshBinding, Bindings, DispatchTypeOK, DispatchInvariant
<1>2. EndShape' /\ CallModes' /\ (mode \in {"down", "admissions", "ends"} => ~degraded)'
  BY DEF RefreshBinding, CallModes, EndShape, DispatchInvariant
<1>3. ASSUME NEW d \in Commands PROVE CommandFacts(d)'
  <2>1. DispatchTypeOK /\ EndShape /\ CallModes /\ CommandFacts(d)
    BY DEF DispatchInvariant
  <2>2. RecordShape(d)' /\ AttemptAuthority(d)' /\ GrantedIsPast(d)'
    BY <2>1 DEF RefreshBinding, Bindings, DispatchTypeOK, CommandFacts,
      RecordShape, Beside, AttemptAuthority, GrantedIsPast, Retains
  <2>3. CallEstablished(d)' /\ ModeFacts(d)'
    BY <2>1 DEF RefreshBinding, CommandFacts, CallEstablished, ModeFacts,
      AtRest, Retains
  <2> QED BY <2>2, <2>3 DEF CommandFacts
<1> QED BY <1>1, <1>2, <1>3 DEF DispatchInvariant

LEMMA PublishProjectionPreserves ==
    ASSUME NEW v \in BOOLEAN, DispatchInvariant, PublishProjection(v)
    PROVE  DispatchInvariant'
<1>1. DispatchTypeOK'
  BY DEF PublishProjection, DispatchTypeOK, DispatchInvariant
<1>2. EndShape' /\ CallModes' /\ (mode \in {"down", "admissions", "ends"} => ~degraded)'
  BY DEF PublishProjection, CallModes, EndShape, DispatchInvariant
<1>3. ASSUME NEW d \in Commands PROVE CommandFacts(d)'
  <2>1. DispatchTypeOK /\ EndShape /\ CallModes /\ CommandFacts(d)
    BY DEF DispatchInvariant
  <2>2. RecordShape(d)' /\ AttemptAuthority(d)' /\ GrantedIsPast(d)'
    BY <2>1 DEF PublishProjection, CommandFacts, RecordShape, Beside,
      AttemptAuthority, GrantedIsPast, Retains
  <2>3. CallEstablished(d)' /\ ModeFacts(d)'
    BY <2>1 DEF PublishProjection, CommandFacts, CallEstablished,
      ModeFacts, AtRest, Retains
  <2> QED BY <2>2, <2>3 DEF CommandFacts
<1> QED BY <1>1, <1>2, <1>3 DEF DispatchInvariant

(* The End checks the whole set first, so all of it may be superseded.     *)
LEMMA PrepareEndPreserves ==
    ASSUME DispatchInvariant, PrepareEnd
    PROVE  DispatchInvariant'
<1>1. DispatchTypeOK'
  BY DEF PrepareEnd, DispatchTypeOK, Writes, DispatchInvariant
<1>2. EndShape' /\ CallModes' /\ (mode \in {"down", "admissions", "ends"} => ~degraded)'
  BY DEF PrepareEnd, CallModes, EndShape, AdmissionWrites, SettlementWrites,
    EndWrites
<1>3. ASSUME NEW d \in Commands PROVE CommandFacts(d)'
  <2>1. DispatchTypeOK /\ EndShape /\ CallModes /\ CommandFacts(d)
    BY DEF DispatchInvariant
  <2>2. RecordShape(d)' /\ AttemptAuthority(d)' /\ GrantedIsPast(d)'
    BY <2>1 DEF PrepareEnd, EndMaySupersede, Retains, CommandFacts,
      RecordShape, Beside, AttemptAuthority, GrantedIsPast, ModeFacts
  <2>3. CallEstablished(d)' /\ ModeFacts(d)'
    BY <2>1 DEF PrepareEnd, Retains, CommandFacts, CallEstablished,
      ModeFacts, AtRest, CallModes, EndShape, AdmissionWrites,
      SettlementWrites, EndWrites
  <2> QED BY <2>2, <2>3 DEF CommandFacts
<1> QED BY <1>1, <1>2, <1>3 DEF DispatchInvariant

LEMMA WriteRevokedPreserves ==
    ASSUME DispatchInvariant, WriteRevoked
    PROVE  DispatchInvariant'
<1>1. DispatchTypeOK'
  BY DEF WriteRevoked, DispatchTypeOK, Writes, DispatchInvariant
<1>2. EndShape' /\ CallModes' /\ (mode \in {"down", "admissions", "ends"} => ~degraded)'
  BY DEF WriteRevoked, CallModes, EndShape, AdmissionWrites,
    SettlementWrites, EndWrites, DispatchInvariant
<1>3. ASSUME NEW d \in Commands PROVE CommandFacts(d)'
  <2>1. DispatchTypeOK /\ EndShape /\ CallModes /\ CommandFacts(d)
    BY DEF DispatchInvariant
  <2>2. RecordShape(d)' /\ AttemptAuthority(d)' /\ GrantedIsPast(d)'
    BY <2>1 DEF WriteRevoked, CommandFacts, RecordShape, Beside,
      AttemptAuthority, GrantedIsPast, Retains, CallModes, EndWrites
  <2>3. CallEstablished(d)' /\ ModeFacts(d)'
    BY <2>1 DEF WriteRevoked, CommandFacts, CallEstablished, ModeFacts,
      CallModes, EndShape, AdmissionWrites, SettlementWrites, EndWrites
  <2> QED BY <2>2, <2>3 DEF CommandFacts
<1> QED BY <1>1, <1>2, <1>3 DEF DispatchInvariant

LEMMA SupersedeReceiptPreserves ==
    ASSUME NEW c \in Commands, DispatchInvariant, SupersedeReceipt(c)
    PROVE  DispatchInvariant'
<1>1. DispatchTypeOK'
  BY DEF SupersedeReceipt, DispatchTypeOK, ReceiptStatus, DispatchInvariant
<1>2. EndShape' /\ CallModes' /\ (mode \in {"down", "admissions", "ends"} => ~degraded)'
  BY DEF SupersedeReceipt, CallModes, EndShape, DispatchInvariant
<1>3. ASSUME NEW d \in Commands PROVE CommandFacts(d)'
  <2>1. DispatchTypeOK /\ EndShape /\ CallModes /\ CommandFacts(d)
    BY DEF DispatchInvariant
  <2>2. RecordShape(d)' /\ AttemptAuthority(d)' /\ GrantedIsPast(d)'
    BY <2>1 DEF SupersedeReceipt, Retains, CommandFacts, RecordShape,
      Beside, AttemptAuthority, GrantedIsPast, CallModes
  <2>3. CallEstablished(d)' /\ ModeFacts(d)'
    BY <2>1 DEF SupersedeReceipt, CommandFacts, CallEstablished,
      ModeFacts, CallModes, EndShape, AdmissionWrites, SettlementWrites,
      EndWrites
  <2> QED BY <2>2, <2>3 DEF CommandFacts
<1> QED BY <1>1, <1>2, <1>3 DEF DispatchInvariant

LEMMA RetireSupersededPreserves ==
    ASSUME NEW c \in Commands, DispatchInvariant, RetireSuperseded(c)
    PROVE  DispatchInvariant'
<1>1. DispatchTypeOK'
  BY DEF RetireSuperseded, DispatchTypeOK, AttemptState, DispatchInvariant
<1>2. EndShape' /\ CallModes' /\ (mode \in {"down", "admissions", "ends"} => ~degraded)'
  BY DEF RetireSuperseded, CallModes, EndShape, DispatchInvariant
<1>3. ASSUME NEW d \in Commands PROVE CommandFacts(d)'
  <2>1. DispatchTypeOK /\ EndShape /\ CallModes /\ CommandFacts(d)
    BY DEF DispatchInvariant
  <2>2. RecordShape(d)' /\ AttemptAuthority(d)' /\ GrantedIsPast(d)'
    BY <2>1 DEF RetireSuperseded, DispatchTypeOK, CommandFacts,
      RecordShape, Beside, AttemptAuthority, GrantedIsPast, Retains
  <2>3. CallEstablished(d)' /\ ModeFacts(d)'
    BY <2>1 DEF RetireSuperseded, CommandFacts, CallEstablished,
      ModeFacts, CallModes, EndShape, AdmissionWrites, SettlementWrites,
      EndWrites
  <2> QED BY <2>2, <2>3 DEF CommandFacts
<1> QED BY <1>1, <1>2, <1>3 DEF DispatchInvariant

(* A validated set has been retired when the method returns.               *)
LEMMA FinishSupersedePreserves ==
    ASSUME DispatchInvariant, FinishSupersede
    PROVE  DispatchInvariant'
<1>1. DispatchTypeOK'
  <2>1. DispatchTypeOK /\ call' = Idle /\ UNCHANGED <<ledger, authority, ws, todo, process>>
    BY DEF FinishSupersede, DispatchInvariant
  <2>2. mode' \in {mode, "faulted"} /\ degraded' \in BOOLEAN
    BY <2>1 DEF FinishSupersede, DispatchTypeOK
  <2> QED
    BY <2>1, <2>2 DEF DispatchTypeOK, Writes
<1>2. EndShape' /\ CallModes' /\ (mode \in {"down", "admissions", "ends"} => ~degraded)'
  BY DEF FinishSupersede, Supersedable, CommandFacts, AttemptAuthority,
    CallModes, EndShape, AdmissionWrites, SettlementWrites, EndWrites,
    DispatchInvariant
<1>3. ASSUME NEW d \in Commands PROVE CommandFacts(d)'
  <2>1. DispatchTypeOK /\ EndShape /\ CallModes /\ CommandFacts(d)
    BY DEF DispatchInvariant
  <2>2. RecordShape(d)' /\ AttemptAuthority(d)' /\ GrantedIsPast(d)'
    BY <2>1 DEF FinishSupersede, Retains, CommandFacts, RecordShape,
      Beside, AttemptAuthority, GrantedIsPast
  <2>3. CallEstablished(d)' /\ ModeFacts(d)'
    BY <2>1 DEF FinishSupersede, Retains, CommandFacts, CallEstablished,
      ModeFacts, AtRest, CallModes, EndShape, AdmissionWrites,
      SettlementWrites, EndWrites
  <2> QED BY <2>2, <2>3 DEF CommandFacts
<1> QED BY <1>1, <1>2, <1>3 DEF DispatchInvariant

LEMMA SettleEndPreserves ==
    ASSUME DispatchInvariant, SettleEnd
    PROVE  DispatchInvariant'
<1>1. DispatchTypeOK'
  BY DEF SettleEnd, DispatchTypeOK, AttemptState, ReceiptStatus, Verdict,
    Writes, Bindings, DispatchInvariant
<1>2. EndShape' /\ CallModes' /\ (mode \in {"down", "admissions", "ends"} => ~degraded)'
  BY DEF SettleEnd, CallModes, EndShape, EndWrites, DispatchInvariant
<1>3. ASSUME NEW d \in Commands PROVE CommandFacts(d)'
  <2>1. DispatchTypeOK /\ EndShape /\ CallModes /\ CommandFacts(d)
    BY DEF DispatchInvariant
  <2>2. RecordShape(d)' /\ AttemptAuthority(d)' /\ GrantedIsPast(d)'
    BY <2>1 DEF SettleEnd, CommandFacts, RecordShape, Beside,
      AttemptAuthority, GrantedIsPast, ModeFacts, Retains, EndWrites
  <2>3. CallEstablished(d)' /\ ModeFacts(d)'
    BY <2>1 DEF SettleEnd, CommandFacts, CallEstablished, ModeFacts,
      AtRest, Retains
  <2> QED BY <2>2, <2>3 DEF CommandFacts
<1> QED BY <1>1, <1>2, <1>3 DEF DispatchInvariant

-----------------------------------------------------------------------------
(* initialize(). A pass may begin only where the one before has nothing    *)
(* left to do, which is what ModeFacts adds.                               *)

LEMMA BootPreserves ==
    ASSUME DispatchInvariant, Boot
    PROVE  DispatchInvariant'
<1>1. DispatchTypeOK'
  BY DEF Boot, DispatchTypeOK, DispatchInvariant
<1>2. EndShape' /\ CallModes' /\ (mode \in {"down", "admissions", "ends"} => ~degraded)'
  BY DEF Boot, CallModes, EndShape, DispatchInvariant
<1>3. ASSUME NEW d \in Commands PROVE CommandFacts(d)'
  <2>1. DispatchTypeOK /\ EndShape /\ CallModes /\ CommandFacts(d)
    BY DEF DispatchInvariant
  <2>2. RecordShape(d)' /\ AttemptAuthority(d)' /\ GrantedIsPast(d)'
    BY <2>1 DEF Boot, CommandFacts, RecordShape, Beside, AttemptAuthority,
      GrantedIsPast, Retains
  <2>3. CallEstablished(d)' /\ ModeFacts(d)'
    BY <2>1 DEF Boot, CommandFacts, CallEstablished, ModeFacts
  <2> QED BY <2>2, <2>3 DEF CommandFacts
<1> QED BY <1>1, <1>2, <1>3 DEF DispatchInvariant

LEMMA RecoverAdmissionPreserves ==
    ASSUME NEW c \in Commands, DispatchInvariant, RecoverAdmission(c)
    PROVE  DispatchInvariant'
<1>1. DispatchTypeOK /\ EndShape /\ CallModes /\ CommandFacts(c)
  BY DEF DispatchInvariant
<1>2. DispatchTypeOK'
  BY <1>1 DEF RecoverAdmission, DispatchTypeOK, Writes
<1>3. OnlyCommand(c) /\ CallModes'
  BY <1>1 DEF RecoverAdmission, OnlyCommand, CallModes, SettlementWrites,
    EndWrites
<1>4. RecordShape(c)' /\ AttemptAuthority(c)' /\ GrantedIsPast(c)'
  BY <1>1 DEF RecoverAdmission, CommandFacts, RecordShape, AttemptAuthority,
    GrantedIsPast
<1>5. CallEstablished(c)' /\ ModeFacts(c)'
  BY <1>1 DEF RecoverAdmission, CallEstablished, ModeFacts
<1> QED BY <1>2, <1>3, <1>4, <1>5, OneCommandPreserves

LEMMA FinishAdmissionsPreserves ==
    ASSUME DispatchInvariant, FinishAdmissions
    PROVE  DispatchInvariant'
<1>1. DispatchTypeOK'
  BY DEF FinishAdmissions, DispatchTypeOK, DispatchInvariant
<1>2. EndShape' /\ CallModes' /\ (mode \in {"down", "admissions", "ends"} => ~degraded)'
  BY DEF FinishAdmissions, CallModes, EndShape, DispatchInvariant
<1>3. ASSUME NEW d \in Commands PROVE CommandFacts(d)'
  <2>1. DispatchTypeOK /\ EndShape /\ CallModes /\ CommandFacts(d)
    BY DEF DispatchInvariant
  <2>2. RecordShape(d)' /\ AttemptAuthority(d)' /\ GrantedIsPast(d)'
    BY <2>1 DEF FinishAdmissions, CommandFacts, RecordShape, Beside,
      AttemptAuthority, GrantedIsPast, Retains
  <2>3. CallEstablished(d)' /\ ModeFacts(d)'
    BY <2>1 DEF FinishAdmissions, CallEstablished, ModeFacts
  <2> QED BY <2>2, <2>3 DEF CommandFacts
<1> QED BY <1>1, <1>2, <1>3 DEF DispatchInvariant

LEMMA RecoverEndPreserves ==
    ASSUME DispatchInvariant, RecoverEnd
    PROVE  DispatchInvariant'
<1>1. DispatchTypeOK'
  BY DEF RecoverEnd, DispatchTypeOK, Writes, DispatchInvariant
<1>2. EndShape' /\ CallModes' /\ (mode \in {"down", "admissions", "ends"} => ~degraded)'
  BY DEF RecoverEnd, EndPending, DispatchTypeOK, CommandFacts,
    AttemptAuthority, CallModes, EndShape, AdmissionWrites,
    SettlementWrites, DispatchInvariant
<1>3. ASSUME NEW d \in Commands PROVE CommandFacts(d)'
  <2>1. DispatchTypeOK /\ EndShape /\ CallModes /\ CommandFacts(d)
    BY DEF DispatchInvariant
  <2>2. RecordShape(d)' /\ AttemptAuthority(d)' /\ GrantedIsPast(d)'
    BY <2>1 DEF RecoverEnd, CommandFacts, RecordShape, Beside,
      AttemptAuthority, GrantedIsPast, Retains
  <2>3. CallEstablished(d)' /\ ModeFacts(d)'
    BY <2>1 DEF RecoverEnd, CommandFacts, CallEstablished, ModeFacts
  <2> QED BY <2>2, <2>3 DEF CommandFacts
<1> QED BY <1>1, <1>2, <1>3 DEF DispatchInvariant

(* With no End pending, every attempt is of the active session.            *)
LEMMA FinishEndsPreserves ==
    ASSUME DispatchInvariant, FinishEnds
    PROVE  DispatchInvariant'
<1>1. DispatchTypeOK'
  BY DEF FinishEnds, DispatchTypeOK, DispatchInvariant
<1>2. EndShape' /\ CallModes' /\ (mode \in {"down", "admissions", "ends"} => ~degraded)'
  BY DEF FinishEnds, EndPending, DispatchTypeOK, CallModes, EndShape,
    EndWrites, DispatchInvariant
<1>3. ASSUME NEW d \in Commands PROVE CommandFacts(d)'
  <2>1. DispatchTypeOK /\ EndShape /\ CallModes /\ CommandFacts(d)
    BY DEF DispatchInvariant
  <2>2. RecordShape(d)' /\ AttemptAuthority(d)' /\ GrantedIsPast(d)'
    BY <2>1 DEF FinishEnds, CommandFacts, RecordShape, Beside,
      AttemptAuthority, GrantedIsPast, Retains
  <2>3. CallEstablished(d)' /\ ModeFacts(d)'
    BY <2>1 DEF FinishEnds, EndPending, DispatchTypeOK, CommandFacts,
      RecordShape, Beside, AttemptAuthority, CallEstablished, ModeFacts,
      AtRest, Retains, DispatchInvariant, CallModes, EndShape,
      AdmissionWrites, SettlementWrites, EndWrites
  <2> QED BY <2>2, <2>3 DEF CommandFacts
<1> QED BY <1>1, <1>2, <1>3 DEF DispatchInvariant

LEMMA ResumeSettledPreserves ==
    ASSUME NEW c \in Commands, DispatchInvariant, ResumeSettled(c)
    PROVE  DispatchInvariant'
<1>1. DispatchTypeOK /\ EndShape /\ CallModes /\ CommandFacts(c)
  BY DEF DispatchInvariant
<1>2. DispatchTypeOK'
  BY <1>1 DEF ResumeSettled, DispatchTypeOK, Writes
<1>3. OnlyCommand(c) /\ CallModes'
  BY <1>1 DEF ResumeSettled, OnlyCommand, CallModes, AdmissionWrites,
    EndWrites
<1>4. RecordShape(c)' /\ AttemptAuthority(c)' /\ GrantedIsPast(c)'
  BY <1>1 DEF ResumeSettled, Recoverable, Resolvable, ReceiptsFor,
    DispatchTypeOK, CommandFacts, RecordShape, Beside, AttemptAuthority,
    GrantedIsPast
<1>5. CallEstablished(c)' /\ ModeFacts(c)'
  BY <1>1 DEF ResumeSettled, CommandFacts, RecordShape, Beside,
    AttemptAuthority, CallEstablished, ModeFacts, Retains, CallModes
<1> QED BY <1>2, <1>3, <1>4, <1>5, OneCommandPreserves

LEMMA ResumeProofPreserves ==
    ASSUME NEW c \in Commands, DispatchInvariant, ResumeProof(c)
    PROVE  DispatchInvariant'
<1>1. DispatchTypeOK /\ EndShape /\ CallModes /\ CommandFacts(c)
  BY DEF DispatchInvariant
<1>2. DispatchTypeOK'
  BY <1>1 DEF ResumeProof, DispatchTypeOK, Writes
<1>3. OnlyCommand(c) /\ CallModes'
  BY <1>1 DEF ResumeProof, OnlyCommand, CallModes, AdmissionWrites,
    EndWrites
<1>4. RecordShape(c)' /\ AttemptAuthority(c)' /\ GrantedIsPast(c)'
  BY <1>1 DEF ResumeProof, CommandFacts, RecordShape, Beside,
    AttemptAuthority, GrantedIsPast, Retains
<1>5. CallEstablished(c)' /\ ModeFacts(c)'
  BY <1>1 DEF ResumeProof, CommandFacts, RecordShape, Beside,
    AttemptAuthority, CallEstablished, ModeFacts
<1> QED BY <1>2, <1>3, <1>4, <1>5, OneCommandPreserves

LEMMA RecoverNotStartedPreserves ==
    ASSUME NEW c \in Commands, DispatchInvariant, RecoverNotStarted(c)
    PROVE  DispatchInvariant'
<1>1. DispatchTypeOK /\ EndShape /\ CallModes /\ CommandFacts(c)
  BY DEF DispatchInvariant
<1>2. DispatchTypeOK'
  BY <1>1 DEF RecoverNotStarted, DispatchTypeOK, ReceiptStatus, Writes
<1>3. OnlyCommand(c) /\ CallModes'
  BY <1>1 DEF RecoverNotStarted, OnlyCommand, CallModes, AdmissionWrites,
    EndWrites
<1>4. RecordShape(c)' /\ AttemptAuthority(c)' /\ GrantedIsPast(c)'
  BY <1>1 DEF RecoverNotStarted, CommandFacts, RecordShape, Beside,
    AttemptAuthority, GrantedIsPast, ModeFacts, Retains
<1>5. CallEstablished(c)' /\ ModeFacts(c)'
  BY <1>1 DEF RecoverNotStarted, DispatchTypeOK, CommandFacts,
    AttemptAuthority, CallEstablished, ModeFacts, Retains
<1> QED BY <1>2, <1>3, <1>4, <1>5, OneCommandPreserves

LEMMA RecoverUncertainPreserves ==
    ASSUME NEW c \in Commands, DispatchInvariant, RecoverUncertain(c)
    PROVE  DispatchInvariant'
<1>1. DispatchTypeOK /\ EndShape /\ CallModes /\ CommandFacts(c)
  BY DEF DispatchInvariant
<1>2. DispatchTypeOK'
  BY <1>1 DEF RecoverUncertain, DispatchTypeOK, AttemptState, Writes
<1>3. OnlyCommand(c) /\ CallModes'
  BY <1>1 DEF RecoverUncertain, OnlyCommand, CallModes, AdmissionWrites,
    EndWrites
<1>4. RecordShape(c)' /\ AttemptAuthority(c)' /\ GrantedIsPast(c)'
  BY <1>1 DEF RecoverUncertain, CommandFacts, RecordShape, Beside,
    AttemptAuthority, GrantedIsPast
<1>5. CallEstablished(c)' /\ ModeFacts(c)'
  BY <1>1 DEF RecoverUncertain, DispatchTypeOK, CommandFacts, RecordShape,
    Beside, AttemptAuthority, CallEstablished, ModeFacts
<1> QED BY <1>2, <1>3, <1>4, <1>5, OneCommandPreserves

LEMMA RefuseToServePreserves ==
    ASSUME NEW c \in Commands, DispatchInvariant, RefuseToServe(c)
    PROVE  DispatchInvariant'
<1>1. DispatchTypeOK'
  BY DEF RefuseToServe, DispatchTypeOK, DispatchInvariant
<1>2. EndShape' /\ CallModes' /\ (mode \in {"down", "admissions", "ends"} => ~degraded)'
  BY DEF RefuseToServe, CallModes, EndShape, DispatchInvariant
<1>3. ASSUME NEW d \in Commands PROVE CommandFacts(d)'
  <2>1. DispatchTypeOK /\ EndShape /\ CallModes /\ CommandFacts(d)
    BY DEF DispatchInvariant
  <2>2. RecordShape(d)' /\ AttemptAuthority(d)' /\ GrantedIsPast(d)'
    BY <2>1 DEF RefuseToServe, CommandFacts, RecordShape, Beside,
      AttemptAuthority, GrantedIsPast, Retains
  <2>3. CallEstablished(d)' /\ ModeFacts(d)'
    BY <2>1 DEF RefuseToServe, CallEstablished, ModeFacts
  <2> QED BY <2>2, <2>3 DEF CommandFacts
<1> QED BY <1>1, <1>2, <1>3 DEF DispatchInvariant

LEMMA FinishRecoveryPreserves ==
    ASSUME DispatchInvariant, FinishRecovery
    PROVE  DispatchInvariant'
<1>1. DispatchTypeOK'
  BY DEF FinishRecovery, DispatchTypeOK, DispatchInvariant
<1>2. EndShape' /\ CallModes' /\ (mode \in {"down", "admissions", "ends"} => ~degraded)'
  BY DEF FinishRecovery, CallModes, EndShape, DispatchInvariant
<1>3. ASSUME NEW d \in Commands PROVE CommandFacts(d)'
  <2>1. DispatchTypeOK /\ EndShape /\ CallModes /\ CommandFacts(d)
    BY DEF DispatchInvariant
  <2>2. RecordShape(d)' /\ AttemptAuthority(d)' /\ GrantedIsPast(d)'
    BY <2>1 DEF FinishRecovery, CommandFacts, RecordShape, Beside,
      AttemptAuthority, GrantedIsPast, Retains
  <2>3. CallEstablished(d)' /\ ModeFacts(d)'
    BY <2>1 DEF FinishRecovery, CommandFacts, CallEstablished, ModeFacts,
      AtRest, Retains
  <2> QED BY <2>2, <2>3 DEF CommandFacts
<1> QED BY <1>1, <1>2, <1>3 DEF DispatchInvariant

-----------------------------------------------------------------------------
(* What falls between any two writes. Only the facts about the files       *)
(* survive a crash.                                                        *)

LEMMA StoreFaultPreserves ==
    ASSUME DispatchInvariant, StoreFault
    PROVE  DispatchInvariant'
<1>1. DispatchTypeOK'
  BY DEF StoreFault, DispatchTypeOK, Writes, DispatchInvariant
<1>2. EndShape' /\ CallModes' /\ (mode \in {"down", "admissions", "ends"} => ~degraded)'
  BY DEF StoreFault, CallModes, EndShape, AdmissionWrites, SettlementWrites,
    EndWrites, DispatchInvariant
<1>3. ASSUME NEW d \in Commands PROVE CommandFacts(d)'
  <2>1. DispatchTypeOK /\ EndShape /\ CallModes /\ CommandFacts(d)
    BY DEF DispatchInvariant
  <2>2. RecordShape(d)' /\ AttemptAuthority(d)' /\ GrantedIsPast(d)'
    BY <2>1 DEF StoreFault, CommandFacts, RecordShape, Beside,
      AttemptAuthority, GrantedIsPast, Retains
  <2>3. CallEstablished(d)' /\ ModeFacts(d)'
    BY <2>1 DEF StoreFault, CallEstablished, ModeFacts
  <2> QED BY <2>2, <2>3 DEF CommandFacts
<1> QED BY <1>1, <1>2, <1>3 DEF DispatchInvariant

(* RecordShape, AttemptAuthority and GrantedIsPast read nothing a crash    *)
(* changes.                                                                *)
LEMMA CrashPreserves ==
    ASSUME DispatchInvariant, Crash
    PROVE  DispatchInvariant'
<1>1. DispatchTypeOK'
  BY DEF Crash, DispatchTypeOK, AttemptState, ReceiptStatus, Verdict,
    Writes, Bindings, DispatchInvariant
<1>2. EndShape' /\ CallModes' /\ (mode \in {"down", "admissions", "ends"} => ~degraded)'
  BY DEF Crash, CallModes, EndShape, AdmissionWrites, SettlementWrites,
    EndWrites, DispatchInvariant
<1>3. ASSUME NEW d \in Commands PROVE CommandFacts(d)'
  <2>1. DispatchTypeOK /\ EndShape /\ CallModes /\ CommandFacts(d)
    BY DEF DispatchInvariant
  <2>2. RecordShape(d)' /\ AttemptAuthority(d)' /\ GrantedIsPast(d)'
    BY <2>1 DEF Crash, CommandFacts, RecordShape, Beside,
      AttemptAuthority, GrantedIsPast, Retains
  <2>3. CallEstablished(d)' /\ ModeFacts(d)'
    BY <2>1 DEF Crash, CallEstablished, ModeFacts
  <2> QED BY <2>2, <2>3 DEF CommandFacts
<1> QED BY <1>1, <1>2, <1>3 DEF DispatchInvariant

LEMMA WorkspaceChangePreserves ==
    ASSUME DispatchInvariant, WorkspaceChange
    PROVE  DispatchInvariant'
<1>1. DispatchTypeOK'
  BY DEF WorkspaceChange, DispatchTypeOK, DispatchInvariant
<1>2. EndShape' /\ CallModes' /\ (mode \in {"down", "admissions", "ends"} => ~degraded)'
  BY DEF WorkspaceChange, CallModes, EndShape, DispatchInvariant
<1>3. ASSUME NEW d \in Commands PROVE CommandFacts(d)'
  <2>1. DispatchTypeOK /\ EndShape /\ CallModes /\ CommandFacts(d)
    BY DEF DispatchInvariant
  <2>2. RecordShape(d)' /\ AttemptAuthority(d)' /\ GrantedIsPast(d)'
    BY <2>1 DEF WorkspaceChange, CommandFacts, RecordShape, Beside,
      AttemptAuthority, GrantedIsPast, Retains
  <2>3. CallEstablished(d)' /\ ModeFacts(d)'
    BY <2>1 DEF WorkspaceChange, CommandFacts, CallEstablished, ModeFacts,
      AtRest, Retains
  <2> QED BY <2>2, <2>3 DEF CommandFacts
<1> QED BY <1>1, <1>2, <1>3 DEF DispatchInvariant

-----------------------------------------------------------------------------
(* The theorems.                                                           *)

LEMMA InitEstablishes == Init => DispatchInvariant
<1> SUFFICES ASSUME Init PROVE DispatchInvariant
  OBVIOUS
<1>1. DispatchTypeOK
  BY DEF Init, Idle, DispatchTypeOK, AttemptState, ReceiptStatus, Verdict, Writes
<1>2. EndShape /\ CallModes /\ (mode \in {"down", "admissions", "ends"} => ~degraded)
  BY DEF Init, Idle, EndShape, CallModes, AdmissionWrites, SettlementWrites, EndWrites
<1>3. ASSUME NEW c \in Commands PROVE CommandFacts(c)
  BY CommandsAssumption
  DEF Init, Idle, At, CommandFacts, RecordShape, AttemptAuthority, GrantedIsPast,
      CallEstablished, ModeFacts
<1> QED
  BY <1>1, <1>2, <1>3 DEF DispatchInvariant

LEMMA StepPreserves == DispatchInvariant /\ [Next]_dispatchVars => DispatchInvariant'
<1> SUFFICES ASSUME DispatchInvariant, [Next]_dispatchVars PROVE DispatchInvariant'
  OBVIOUS
<1>1. ASSUME NEW c \in Commands, AdmissionStep(c) PROVE DispatchInvariant'
  BY <1>1, PrepareAdmissionPreserves, WriteIdentityPreserves, WriteAttemptPreserves,
     WriteReceiptPreserves, ClearAdmissionPreserves DEF AdmissionStep
<1>2. ASSUME NEW c \in Commands, DispatchStep(c) PROVE DispatchInvariant'
  BY <1>2, FailBeforeStartPreserves, BeginDispatchPreserves, IssueLeasePreserves,
     FinalizeDispatchPreserves, WriteSettledReceiptPreserves, RemoveAttemptPreserves
  DEF DispatchStep
<1>3. ASSUME NEW c \in Commands, ProofStep(c) PROVE DispatchInvariant'
  BY <1>3, LeaseIdleProofPreserves, CompleteIdlePreserves, WriteProofReceiptPreserves,
     WriteProofEventPreserves DEF ProofStep
<1>4. CASE SessionStep
  BY <1>4, ProvisionPreserves, RefreshBindingPreserves, PublishProjectionPreserves,
     PrepareEndPreserves, WriteRevokedPreserves, SupersedeReceiptPreserves,
     RetireSupersededPreserves, FinishSupersedePreserves, SettleEndPreserves
  DEF SessionStep
<1>5. CASE RecoveryStep
  BY <1>5, BootPreserves, RecoverAdmissionPreserves, FinishAdmissionsPreserves,
     RecoverEndPreserves, FinishEndsPreserves, ResumeSettledPreserves, ResumeProofPreserves,
     RecoverNotStartedPreserves, RecoverUncertainPreserves, RefuseToServePreserves,
     FinishRecoveryPreserves DEF RecoveryStep
<1>6. CASE StoreFault \/ Crash \/ WorkspaceChange
  BY <1>6, StoreFaultPreserves, CrashPreserves, WorkspaceChangePreserves
<1>7. CASE UNCHANGED dispatchVars
  <2>1. /\ DispatchTypeOK' /\ EndShape' /\ CallModes'
        /\ (mode \in {"down", "admissions", "ends"} => ~degraded)'
    BY <1>7
    DEF dispatchVars, ledger, authority, instance, process, DispatchInvariant, DispatchTypeOK,
        EndShape, CallModes
  <2>2. ASSUME NEW c \in Commands PROVE CommandFacts(c)'
    BY <1>7
    DEF dispatchVars, ledger, authority, instance, process, DispatchInvariant, CommandFacts,
        RecordShape, Beside, AttemptAuthority, GrantedIsPast, CallEstablished, ModeFacts, AtRest,
        Retains, At
  <2> QED
    BY <2>1, <2>2 DEF DispatchInvariant
<1> QED
  BY <1>1, <1>2, <1>3, <1>4, <1>5, <1>6, <1>7 DEF Next

(* Every state the Store can reach satisfies the inductive invariant.      *)
THEOREM DispatchInvariantHolds == DispatchSpec => []DispatchInvariant
<1> QED
  BY InitEstablishes, StepPreserves, PTL DEF DispatchSpec

(* Type correctness: every record of the files, every running method and   *)
(* every process-local lease holds a value its schema admits.              *)
THEOREM DispatchTypeOKHolds == DispatchSpec => []DispatchTypeOK
<1>1. DispatchInvariant => DispatchTypeOK
  BY DEF DispatchInvariant
<1> QED
  BY <1>1, DispatchInvariantHolds, PTL

(* While the Store serves, attempts and receipts agree: no command waits   *)
(* on a receipt nothing will settle, and no lock is left behind.           *)
THEOREM ReceiptsHaveAttemptsHolds == DispatchSpec => []ReceiptsHaveAttempts
<1>1. DispatchInvariant => ReceiptsHaveAttempts
  <2> SUFFICES ASSUME DispatchInvariant, Ready PROVE ReceiptsHaveAttempts
    BY DEF ReceiptsHaveAttempts
  <2>1. ASSUME NEW c \in Commands
        PROVE  wal[c] = "none" /\ AtRest(c) /\ RecordShape(c)
    BY CommandsAssumption DEF DispatchInvariant, CommandFacts, ModeFacts, Ready, Idle, At
  <2>2. known = {c \in Commands : receipt[c] # "none"}
    BY <2>1
    DEF DispatchInvariant, DispatchTypeOK, AttemptState, RecordShape, Beside, Retains, AtRest
  <2>3. ASSUME NEW c \in Commands
        PROVE  /\ doc[c] = "none" <=> receipt[c] \notin Unsettled
               /\ doc[c] \in {"admitted", "dispatching"} => receipt[c] = "admitted"
               /\ doc[c] \notin {"none", "admitted", "dispatching"} =>
                     Retains(c) /\ receipt[c] = doc[c]
    BY <2>1 DEF RecordShape, Beside, Retains, AtRest, Unsettled
  <2> QED
    BY <2>1, <2>2, <2>3 DEF ReceiptsHaveAttempts
<1> QED
  BY <1>1, DispatchInvariantHolds, PTL

(* A receipt that says nothing was sent tells the truth.                   *)
THEOREM UnsentNeverGrantedHolds == DispatchSpec => []UnsentNeverGranted
<1>1. DispatchInvariant => UnsentNeverGranted
  BY DEF DispatchInvariant, CommandFacts, GrantedIsPast, UnsentNeverGranted
<1> QED
  BY <1>1, DispatchInvariantHolds, PTL

(* A completed receipt and the durable idle observation go together.       *)
THEOREM CompletedIsProvenHolds == DispatchSpec => []CompletedIsProven
<1>1. DispatchInvariant => CompletedIsProven
  <2> SUFFICES ASSUME DispatchInvariant, Ready PROVE CompletedIsProven
    BY DEF CompletedIsProven
  <2>1. ASSUME NEW c \in Commands PROVE c \in proof <=> receipt[c] = "completed"
    BY CommandsAssumption
    DEF DispatchInvariant, CommandFacts, RecordShape, ModeFacts, AtRest, Ready, Idle, At
  <2> QED
    BY <2>1 DEF CompletedIsProven, DispatchInvariant, DispatchTypeOK
<1> QED
  BY <1>1, DispatchInvariantHolds, PTL

(* What a receipt says of its command is true.                             *)
THEOREM ReceiptsTruthfulHolds == DispatchSpec => []ReceiptsTruthful
<1>1. ReceiptsHaveAttempts /\ UnsentNeverGranted /\ CompletedIsProven => ReceiptsTruthful
  BY DEF ReceiptsTruthful
<1> QED
  BY <1>1, ReceiptsHaveAttemptsHolds, UnsentNeverGrantedHolds, CompletedIsProvenHolds, PTL

(* An attempt the serving Store holds is under the thread's active session *)
(* and no End: an End leaves none behind.                                  *)
THEOREM EndRetiresAttemptsHolds == DispatchSpec => []EndRetiresAttempts
<1>1. DispatchInvariant => EndRetiresAttempts
  BY DEF DispatchInvariant, CommandFacts, AttemptAuthority, ModeFacts, EndRetiresAttempts,
         SameAuthority, Ready, Idle, EndWrites
<1> QED
  BY <1>1, DispatchInvariantHolds, PTL

(* As long as the workspace stays, no attempt and no End the Store wrote   *)
(* degrades resident continuity or makes initialize() throw.               *)
THEOREM InitializeServesHolds == DispatchSpec => InitializeServes
<1> DEFINE Serves ==
      /\ mode' = "refused" => mode = "refused" \/ degraded \/ ~ws
      /\ degraded' => degraded \/ ~ws
<1>1. DispatchInvariant /\ [Next]_dispatchVars => [Serves]_dispatchVars
  <2> SUFFICES ASSUME DispatchInvariant, Next PROVE Serves
    OBVIOUS
  <2>1. ASSUME NEW c \in Commands, RefuseToServe(c) PROVE Serves
    BY <2>1
    DEF RefuseToServe, Visiting, Recoverable, Resolvable, SameAuthority, ReceiptsFor, instance,
        authority, ledger, process, DispatchInvariant, DispatchTypeOK, AttemptState, CommandFacts,
        RecordShape, Beside, Retains, AttemptAuthority, ModeFacts, EndWrites, Idle
  <2>2. CASE FinishSupersede
    <3>1. Supersedable
      BY <2>2
      DEF FinishSupersede, Supersedable, DispatchInvariant, CommandFacts, AttemptAuthority,
          CallModes, EndWrites, At
    <3> QED
      BY <2>2, <3>1 DEF FinishSupersede, DispatchInvariant, DispatchTypeOK
  <2>3. CASE FinishEnds
    BY <2>3 DEF FinishEnds, DispatchInvariant
  <2>4. ASSUME NEW c \in Commands, AdmissionStep(c) PROVE Serves
    BY <2>4
    DEF AdmissionStep, PrepareAdmission, WriteIdentity, WriteAttempt, WriteReceipt, ClearAdmission
  <2>5. ASSUME NEW c \in Commands, DispatchStep(c) PROVE Serves
    BY <2>5
    DEF DispatchStep, FailBeforeStart, BeginDispatch, IssueLease, FinalizeDispatch,
        WriteSettledReceipt, RemoveAttempt
  <2>6. ASSUME NEW c \in Commands, ProofStep(c) PROVE Serves
    BY <2>6
    DEF ProofStep, LeaseIdleProof, CompleteIdle, WriteProofReceipt, WriteProofEvent, instance
  <2>7. CASE SessionStep
    BY <2>7, <2>2
    DEF SessionStep, Provision, RefreshBinding, PublishProjection, PrepareEnd, WriteRevoked,
        SettleEnd, SupersedeReceipt, RetireSuperseded, instance
  <2>8. CASE RecoveryStep
    BY <2>8, <2>1, <2>3
    DEF RecoveryStep, Boot, RecoverAdmission, FinishAdmissions, RecoverEnd, ResumeSettled,
        ResumeProof, RecoverNotStarted, RecoverUncertain, FinishRecovery
  <2>9. CASE StoreFault \/ Crash \/ WorkspaceChange
    BY <2>9 DEF StoreFault, Crash, WorkspaceChange, instance
  <2> QED
    BY <2>4, <2>5, <2>6, <2>7, <2>8, <2>9 DEF Next
<1> QED
  BY <1>1, DispatchInvariantHolds, PTL DEF DispatchSpec, InitializeServes

-----------------------------------------------------------------------------
(* The Store's dispatch half implements CommandLedger: every durable write *)
(* maps to one of its moves of one command, or to a stutter, across        *)
(* crashes and recovery.                                                   *)

(* A stage is read from three records of its own command, so a step that   *)
(* writes those of one command moves at most that command.                 *)

stages == [c \in Commands |-> Stage(c)]

WritesOnly(c) == \A d \in Commands \ {c} :
    wal'[d] = wal[d] /\ doc'[d] = doc[d] /\ receipt'[d] = receipt[d]

LEMMA Moved ==
    ASSUME NEW c \in Commands, NEW s, WritesOnly(c), Stage(c)' = s
    PROVE  Ledger!Move(c, s)
<1>1. \A d \in Commands \ {c} : Stage(d)' = Stage(d)
  BY DEF WritesOnly, Stage
<1> QED
  BY <1>1 DEF Ledger!Move, Ledger!Commands, Commands

LEMMA Unmoved ==
    ASSUME NEW c \in Commands, WritesOnly(c), Stage(c)' = Stage(c)
    PROVE  UNCHANGED stages
<1>1. \A d \in Commands : Stage(d)' = Stage(d)
  BY DEF WritesOnly, Stage
<1> QED
  BY <1>1 DEF stages

LEMMA FilesUnmoved ==
    ASSUME UNCHANGED <<wal, doc, receipt>>
    PROVE  UNCHANGED stages
BY DEF stages, Stage

(* What the invariant says of the command a step is about.                 *)
LEMMA FactsOf ==
    ASSUME NEW c \in Commands, DispatchInvariant
    PROVE  /\ DispatchTypeOK /\ RecordShape(c) /\ AttemptAuthority(c)
           /\ CallEstablished(c) /\ ModeFacts(c)
BY DEF DispatchInvariant, CommandFacts

(* A serving Store holds a lock for every open command of the ledger.      *)
LEMMA OpenIsLocked ==
    ASSUME NEW c \in Commands, DispatchInvariant, Ready, Ledger!Open(c)
    PROVE  doc[c] # "none"
<1>1. wal[c] = "none" /\ RecordShape(c) /\ Stage(c) \in {"admitted", "sent", "running", "uncertain"}
  BY DEF DispatchInvariant, CommandFacts, ModeFacts, Ledger!Open, Commands
<1> QED
  BY <1>1 DEF RecordShape, Beside, Stage

-----------------------------------------------------------------------------
(* Admission: the verdict is the move, its materialization a stutter.      *)

LEMMA PrepareAdmissionMaps ==
    ASSUME NEW c \in Commands, DispatchInvariant, PrepareAdmission(c)
    PROVE  Ledger!Refuse(c) \/ Ledger!Queue(c) \/ Ledger!Admit(c)
<1>0. DispatchTypeOK /\ RecordShape(c) /\ AttemptAuthority(c) /\ CallEstablished(c) /\ ModeFacts(c)
  BY FactsOf
<1>1. PICK v \in Verdicts(c) : wal' = [wal EXCEPT ![c] = v]
  BY DEF PrepareAdmission
<1>2. WritesOnly(c) /\ Stage(c) = "unknown" /\ Stage(c)' = v
  BY <1>1, <1>0
  DEF PrepareAdmission, WritesOnly, Stage, Verdicts, RecordShape, DispatchTypeOK
<1>3. Ledger!Move(c, v)
  BY <1>2, Moved
<1>4. CASE v = "admitted"
  <2>1. Admissible(c)
    BY <1>1, <1>4 DEF Verdicts
  <2>2. \A a \in Aborts : ~Ledger!Open(a)
    BY <2>1, OpenIsLocked DEF PrepareAdmission, Admissible, AbortLock, Commands
  <2>3. c \in Prompts => \A p \in Prompts : ~Ledger!Open(p)
    BY <2>1, OpenIsLocked DEF PrepareAdmission, Admissible, PromptLock, Commands
  <2> QED
    BY <1>2, <1>3, <1>4, <2>2, <2>3 DEF Ledger!Admit
<1> QED
  BY <1>1, <1>2, <1>3, <1>4 DEF Verdicts, Ledger!Refuse, Ledger!Queue

LEMMA MaterializationMaps ==
    ASSUME NEW c \in Commands, DispatchInvariant,
           WriteIdentity(c) \/ WriteAttempt(c) \/ WriteReceipt(c) \/ ClearAdmission(c)
    PROVE  UNCHANGED stages
<1>0. DispatchTypeOK /\ RecordShape(c) /\ AttemptAuthority(c) /\ CallEstablished(c) /\ ModeFacts(c)
  BY FactsOf
<1>1. CASE WriteIdentity(c)
  BY <1>1, FilesUnmoved DEF WriteIdentity
<1>2. CASE WriteAttempt(c)
  BY <1>2, <1>0, Unmoved
  DEF WriteAttempt, WritesOnly, Stage, RecordShape, CallEstablished, DispatchTypeOK
<1>3. CASE WriteReceipt(c)
  BY <1>3, <1>0, Unmoved
  DEF WriteReceipt, WritesOnly, Stage, RecordShape, CallEstablished, DispatchTypeOK, Verdict
<1>4. CASE ClearAdmission(c)
  BY <1>4, <1>0, Unmoved
  DEF ClearAdmission, WritesOnly, Stage, StageOfAttempt, RecordShape, CallEstablished,
      DispatchTypeOK, Verdict
<1> QED
  BY <1>1, <1>2, <1>3, <1>4

-----------------------------------------------------------------------------
(* The attempt: its first write decides, the receipt and the removal only  *)
(* say so.                                                                 *)

LEMMA AttemptMaps ==
    ASSUME NEW c \in Commands, DispatchInvariant
    PROVE  /\ FailBeforeStart(c) => Ledger!Withdraw(c)
           /\ BeginDispatch(c) => Ledger!Send(c)
           /\ \A o \in {"failed", "running", "uncertain"} :
                 FinalizeDispatch(c, o) => Ledger!Answer(c)
           /\ CompleteIdle(c) => Ledger!Complete(c)
<1>0. DispatchTypeOK /\ RecordShape(c) /\ AttemptAuthority(c) /\ CallEstablished(c) /\ ModeFacts(c)
  BY FactsOf
<1>1. ASSUME FailBeforeStart(c) PROVE Ledger!Withdraw(c)
  <2>1. WritesOnly(c) /\ Stage(c) = "admitted" /\ Stage(c)' = "unsent"
    BY <1>1, <1>0
    DEF FailBeforeStart, WritesOnly, Stage, StageOfAttempt, RecordShape, ModeFacts, DispatchTypeOK
  <2> QED
    BY <2>1, Moved DEF Ledger!Withdraw
<1>2. ASSUME BeginDispatch(c) PROVE Ledger!Send(c)
  <2>1. WritesOnly(c) /\ Stage(c) = "admitted" /\ Stage(c)' = "sent"
    BY <1>2, <1>0
    DEF BeginDispatch, WritesOnly, Stage, StageOfAttempt, RecordShape, ModeFacts, DispatchTypeOK
  <2> QED
    BY <2>1, Moved DEF Ledger!Send
<1>3. ASSUME NEW o \in {"failed", "running", "uncertain"}, FinalizeDispatch(c, o)
      PROVE  Ledger!Answer(c)
  <2>1. WritesOnly(c) /\ Stage(c) = "sent" /\ Stage(c)' = o
    BY <1>3, <1>0
    DEF FinalizeDispatch, WritesOnly, Stage, StageOfAttempt, RecordShape, ModeFacts, DispatchTypeOK
  <2> QED
    BY <2>1, Moved DEF Ledger!Answer
<1>4. ASSUME CompleteIdle(c) PROVE Ledger!Complete(c)
  <2>1. WritesOnly(c) /\ Stage(c) = "running" /\ Stage(c)' = "completed"
    BY <1>4, <1>0
    DEF CompleteIdle, WritesOnly, Stage, StageOfAttempt, RecordShape, ModeFacts, DispatchTypeOK
  <2> QED
    BY <2>1, Moved DEF Ledger!Complete
<1> QED
  BY <1>1, <1>2, <1>3, <1>4

LEMMA SettlementMaps ==
    ASSUME NEW c \in Commands, DispatchInvariant,
           \/ IssueLease(c) \/ WriteSettledReceipt(c) \/ RemoveAttempt(c)
           \/ LeaseIdleProof(c) \/ WriteProofReceipt(c) \/ WriteProofEvent(c)
    PROVE  UNCHANGED stages
<1>0. DispatchTypeOK /\ RecordShape(c) /\ AttemptAuthority(c) /\ CallEstablished(c) /\ ModeFacts(c)
  BY FactsOf
<1>1. CASE IssueLease(c) \/ LeaseIdleProof(c) \/ WriteProofEvent(c)
  BY <1>1, FilesUnmoved DEF IssueLease, LeaseIdleProof, WriteProofEvent
<1>2. CASE WriteSettledReceipt(c)
  BY <1>2, <1>0, Unmoved
  DEF WriteSettledReceipt, WritesOnly, Stage, StageOfAttempt, CallEstablished, DispatchTypeOK
<1>3. CASE RemoveAttempt(c)
  <2>1. WritesOnly(c)
    BY <1>3, <1>0 DEF RemoveAttempt, WritesOnly, DispatchTypeOK
  <2>2. wal[c] = "none" /\ doc[c] \in {"admitted", "unsent", "failed", "proven"}
        /\ receipt[c] \in {"unsent", "failed", "completed"} /\ RecordShape(c)
    BY <1>3, <1>0 DEF RemoveAttempt, CallEstablished
  <2>3. wal'[c] = "none" /\ doc'[c] = "none" /\ receipt'[c] = receipt[c]
    BY <1>3, <2>2, <1>0 DEF RemoveAttempt, DispatchTypeOK
  <2> QED
    BY <2>1, <2>2, <2>3, Unmoved DEF Stage, StageOfAttempt, RecordShape, Beside
<1>4. CASE WriteProofReceipt(c)
  BY <1>4, <1>0, Unmoved
  DEF WriteProofReceipt, WritesOnly, Stage, StageOfAttempt, CallEstablished, RecordShape, Beside,
      DispatchTypeOK
<1> QED
  BY <1>1, <1>2, <1>3, <1>4

-----------------------------------------------------------------------------
(* An End, and recovery.                                                   *)

LEMMA SupersessionMaps ==
    ASSUME NEW c \in Commands, DispatchInvariant
    PROVE  /\ SupersedeReceipt(c) => Ledger!Supersede(c)
           /\ RetireSuperseded(c) => UNCHANGED stages
<1>0. DispatchTypeOK /\ RecordShape(c) /\ AttemptAuthority(c) /\ CallEstablished(c) /\ ModeFacts(c)
  BY FactsOf
<1>1. ASSUME SupersedeReceipt(c) PROVE Ledger!Supersede(c)
  <2>1. Retains(c) /\ receipt[c] \in {doc[c], "superseded"} /\ receipt[c] # "superseded"
    BY <1>1 DEF SupersedeReceipt, Supersedable
  <2>2. wal[c] = "none"
    BY <1>1, <2>1, <1>0 DEF SupersedeReceipt, RecordShape, Retains
  <2>3. WritesOnly(c) /\ Stage(c) \in {"running", "uncertain"} /\ Stage(c)' = "superseded"
    BY <1>1, <2>1, <2>2, <1>0
    DEF SupersedeReceipt, WritesOnly, Stage, StageOfAttempt, Retains, DispatchTypeOK
  <2> QED
    BY <2>3, Moved DEF Ledger!Supersede
<1>2. ASSUME RetireSuperseded(c) PROVE UNCHANGED stages
  BY <1>2, Unmoved DEF RetireSuperseded, WritesOnly, Stage, DispatchInvariant, DispatchTypeOK
<1> QED
  BY <1>1, <1>2

LEMMA RecoveryMaps ==
    ASSUME NEW c \in Commands, DispatchInvariant
    PROVE  /\ RecoverNotStarted(c) => Ledger!Withdraw(c) \/ UNCHANGED stages
           /\ RecoverUncertain(c) => Ledger!Answer(c)
<1>0. DispatchTypeOK /\ RecordShape(c) /\ AttemptAuthority(c) /\ CallEstablished(c) /\ ModeFacts(c)
  BY FactsOf
<1>1. ASSUME RecoverNotStarted(c) PROVE Ledger!Withdraw(c) \/ UNCHANGED stages
  <2>1. WritesOnly(c) /\ Stage(c) \in {"admitted", "unsent"} /\ Stage(c)' = "unsent"
    BY <1>1, <1>0
    DEF RecoverNotStarted, WritesOnly, Stage, StageOfAttempt, RecordShape, Beside, ModeFacts,
        DispatchTypeOK
  <2> QED
    BY <2>1, Moved, Unmoved DEF Ledger!Withdraw
<1>2. ASSUME RecoverUncertain(c) PROVE Ledger!Answer(c)
  <2>1. WritesOnly(c) /\ Stage(c) = "sent" /\ Stage(c)' = "uncertain"
    BY <1>2, <1>0
    DEF RecoverUncertain, WritesOnly, Stage, StageOfAttempt, RecordShape, Beside, ModeFacts,
        DispatchTypeOK
  <2> QED
    BY <2>1, Moved DEF Ledger!Answer
<1> QED
  BY <1>1, <1>2

-----------------------------------------------------------------------------
LEMMA StepMaps == DispatchInvariant /\ [Next]_dispatchVars => [Ledger!Next]_stages
<1> SUFFICES ASSUME DispatchInvariant, [Next]_dispatchVars PROVE Ledger!Next \/ UNCHANGED stages
  OBVIOUS
<1>1. ASSUME NEW c \in Commands, AdmissionStep(c) PROVE Ledger!Next \/ UNCHANGED stages
  BY <1>1, PrepareAdmissionMaps, MaterializationMaps
  DEF AdmissionStep, Ledger!Next, Ledger!Commands, Commands
<1>2. ASSUME NEW c \in Commands, DispatchStep(c) PROVE Ledger!Next \/ UNCHANGED stages
  BY <1>2, AttemptMaps, SettlementMaps
  DEF DispatchStep, Ledger!Next, Ledger!Commands, Commands
<1>3. ASSUME NEW c \in Commands, ProofStep(c) PROVE Ledger!Next \/ UNCHANGED stages
  BY <1>3, AttemptMaps, SettlementMaps
  DEF ProofStep, Ledger!Next, Ledger!Commands, Commands
<1>4. CASE SessionStep
  <2>1. ASSUME NEW c \in Commands, SupersedeReceipt(c) \/ RetireSuperseded(c)
        PROVE  Ledger!Next \/ UNCHANGED stages
    BY <2>1, SupersessionMaps DEF Ledger!Next, Ledger!Commands, Commands
  <2>2. ASSUME ~\E c \in Commands : SupersedeReceipt(c) \/ RetireSuperseded(c)
        PROVE  UNCHANGED <<wal, doc, receipt>>
    BY <1>4, <2>2
    DEF SessionStep, Provision, RefreshBinding, PublishProjection, PrepareEnd, WriteRevoked,
        FinishSupersede, SettleEnd
  <2> QED
    BY <2>1, <2>2, FilesUnmoved
<1>5. CASE RecoveryStep
  <2>1. ASSUME NEW c \in Commands, RecoverNotStarted(c) \/ RecoverUncertain(c)
        PROVE  Ledger!Next \/ UNCHANGED stages
    BY <2>1, RecoveryMaps DEF Ledger!Next, Ledger!Commands, Commands
  <2>2. ASSUME ~\E c \in Commands : RecoverNotStarted(c) \/ RecoverUncertain(c)
        PROVE  UNCHANGED <<wal, doc, receipt>>
    BY <1>5, <2>2
    DEF RecoveryStep, Boot, FinishAdmissions, RecoverEnd, FinishEnds, FinishRecovery,
        RecoverAdmission, ResumeSettled, ResumeProof, RefuseToServe
  <2> QED
    BY <2>1, <2>2, FilesUnmoved
<1>6. CASE StoreFault \/ Crash \/ WorkspaceChange \/ UNCHANGED dispatchVars
  BY <1>6, FilesUnmoved DEF StoreFault, Crash, WorkspaceChange, dispatchVars
<1> QED
  BY <1>1, <1>2, <1>3, <1>4, <1>5, <1>6 DEF Next

(* Every behaviour of the Store, crashes, recovery, Ends and the comings   *)
(* and goings of the workspace included, is one of CommandLedger: no       *)
(* command is sent twice, none completes unacknowledged, and what is over  *)
(* stays over.                                                             *)
THEOREM DispatchImplementsLedger == DispatchSpec => LedgerSpec
<1>1. Init => Ledger!Init
  BY DEF Init, Ledger!Init, Ledger!Commands, Commands, Stage
<1> QED
  BY <1>1, StepMaps, DispatchInvariantHolds, PTL
  DEF DispatchSpec, LedgerSpec, Ledger!Spec, stages

-----------------------------------------------------------------------------
(* ResidentCommands.                                                       *)
USE TurnAssumption DEF handlers, daemon, adapter

-----------------------------------------------------------------------------
(* The mutex's queue: what a call at its end and the return of the one at  *)
(* its head do to who waits in it, and ahead of whom.                      *)
LEMMA CallJoins ==
    ASSUME NEW q \in Seq(Commands), NEW c \in Commands, Distinct(q), ~Waits(q, c)
    PROVE  /\ Append(q, c) \in Seq(Commands) /\ Distinct(Append(q, c))
           /\ \A d : Waits(Append(q, c), d) <=> Waits(q, d) \/ d = c
           /\ \A d, e : Ahead(q, d, e) => Ahead(Append(q, c), d, e)
           /\ \A d : Waits(q, d) => Ahead(Append(q, c), d, c)
<1> DEFINE r == Append(q, c)
<1>1. /\ r \in Seq(Commands) /\ Len(q) \in Nat /\ Len(r) = Len(q) + 1
      /\ \A i \in 1 .. Len(q) : r[i] = q[i]
      /\ r[Len(q) + 1] = c
  BY AppendProperties, LenProperties
<1> HIDE DEF r
<1>2. Distinct(r)
  BY <1>1 DEF Distinct, Waits
<1>3. ASSUME NEW d PROVE Waits(r, d) <=> Waits(q, d) \/ d = c
  BY <1>1 DEF Waits
<1>4. ASSUME NEW d, NEW e, Ahead(q, d, e) PROVE Ahead(r, d, e)
  BY <1>1, <1>4 DEF Ahead
<1>5. ASSUME NEW d, Waits(q, d) PROVE Ahead(r, d, c)
  <2>1. PICK i \in 1 .. Len(q) : q[i] = d BY <1>5 DEF Waits
  <2>2. i \in 1 .. Len(r) /\ Len(q) + 1 \in 1 .. Len(r) /\ i < Len(q) + 1 BY <1>1
  <2> QED BY <1>1, <2>1, <2>2 DEF Ahead
<1> QED
  BY <1>1, <1>2, <1>3, <1>4, <1>5 DEF r

LEMMA CallReturns ==
    ASSUME NEW q \in Seq(Commands), q # <<>>, Distinct(q)
    PROVE  /\ Head(q) \in Commands /\ Tail(q) \in Seq(Commands) /\ Distinct(Tail(q))
           /\ \A d : Waits(Tail(q), d) <=> Waits(q, d) /\ d # Head(q)
           /\ \A d, e : Ahead(q, d, e) /\ d # Head(q) => Ahead(Tail(q), d, e)
           /\ \A d : ~Ahead(q, d, Head(q))
           /\ Waits(q, Head(q))
<1> DEFINE t == Tail(q)
           h == Head(q)
<1>1. /\ h \in Commands /\ t \in Seq(Commands)
      /\ Len(q) \in Nat /\ Len(q) > 0 /\ Len(t) = Len(q) - 1
      /\ h = q[1] /\ \A i \in 1 .. Len(t) : t[i] = q[i + 1]
  BY HeadTailProperties, LenProperties, EmptySeq
<1> HIDE DEF t, h
<1>2. Distinct(t)
  <2> SUFFICES ASSUME NEW i \in 1 .. Len(t), NEW j \in 1 .. Len(t), t[i] = t[j] PROVE i = j
    BY DEF Distinct
  <2>1. i + 1 \in 1 .. Len(q) /\ j + 1 \in 1 .. Len(q) /\ q[i + 1] = q[j + 1] BY <1>1
  <2>2. i + 1 = j + 1 BY <2>1 DEF Distinct
  <2> QED BY <2>2
<1>3. ASSUME NEW d PROVE Waits(t, d) <=> Waits(q, d) /\ d # h
  <2>1. ASSUME Waits(t, d) PROVE Waits(q, d) /\ d # h
    <3>1. PICK i \in 1 .. Len(t) : t[i] = d BY <2>1 DEF Waits
    <3>2. i + 1 \in 1 .. Len(q) /\ q[i + 1] = d /\ 1 \in 1 .. Len(q) /\ i + 1 # 1 BY <1>1, <3>1
    <3> QED BY <1>1, <3>2 DEF Waits, Distinct
  <2>2. ASSUME Waits(q, d), d # h PROVE Waits(t, d)
    <3>1. PICK i \in 1 .. Len(q) : q[i] = d BY <2>2 DEF Waits
    <3>2. i # 1 BY <1>1, <2>2, <3>1
    <3>3. i - 1 \in 1 .. Len(t) /\ t[i - 1] = q[(i - 1) + 1] /\ (i - 1) + 1 = i BY <1>1, <3>2
    <3> QED BY <3>1, <3>3 DEF Waits
  <2> QED BY <2>1, <2>2
<1>4. ASSUME NEW d, NEW e, Ahead(q, d, e), d # h PROVE Ahead(t, d, e)
  <2>1. PICK i \in 1 .. Len(q), j \in 1 .. Len(q) : i < j /\ q[i] = d /\ q[j] = e
    BY <1>4 DEF Ahead
  <2>2. i # 1 BY <1>1, <1>4, <2>1
  <2>3. /\ i - 1 \in 1 .. Len(t) /\ j - 1 \in 1 .. Len(t) /\ i - 1 < j - 1
        /\ (i - 1) + 1 = i /\ (j - 1) + 1 = j
    BY <1>1, <2>1, <2>2
  <2>4. t[i - 1] = d /\ t[j - 1] = e BY <1>1, <2>1, <2>3
  <2> QED BY <2>3, <2>4 DEF Ahead
<1>5. ASSUME NEW d PROVE ~Ahead(q, d, h)
  <2> SUFFICES ASSUME NEW i \in 1 .. Len(q), NEW j \in 1 .. Len(q), i < j, q[j] = h
               PROVE  FALSE
    BY DEF Ahead
  <2>1. 1 \in 1 .. Len(q) /\ q[1] = q[j] BY <1>1
  <2>2. j = 1 BY <2>1 DEF Distinct
  <2> QED BY <2>2
<1>6. Waits(q, h)
  BY <1>1 DEF Waits
<1> QED
  BY <1>1, <1>2, <1>3, <1>4, <1>5, <1>6 DEF t, h

-----------------------------------------------------------------------------
(* What a Store step that neither prepares, begins, leases, answers nor    *)
(* proves a command may do to it: settle what is there.                    *)
Settles(d) ==
    /\ wal'[d] \in {"none", wal[d]}
    /\ doc'[d] \in {"admitted", "dispatching", "failed", "running", "proven"} => doc'[d] = doc[d]
    /\ doc'[d] \in Across => doc[d] \in Across
    /\ doc'[d] # "none" => doc[d] # "none"
    /\ receipt'[d] \in {"rejected", "queued"} => receipt'[d] = receipt[d] \/ wal[d] # "none"
    /\ receipt'[d] = "failed" => "failed" \in {receipt[d], doc[d]}
    /\ receipt'[d] = "completed" => receipt[d] = "completed" \/ doc[d] = "proven"
    /\ d \in granted' <=> d \in granted

AllSettle == \A d \in Commands : Settles(d)

LEMMA UnchangedSettles == UNCHANGED <<wal, doc, receipt, granted>> => AllSettle
  BY DEF AllSettle, Settles

(* The writes of an admission, but for the attempt.                        *)
LEMMA AdmissionSettles ==
    ASSUME NEW c \in Commands, DispatchInvariant,
           WriteIdentity(c) \/ WriteReceipt(c) \/ ClearAdmission(c)
    PROVE  AllSettle
<1> SUFFICES ASSUME NEW d \in Commands PROVE Settles(d)
  BY DEF AllSettle
<1>1. DispatchTypeOK /\ CallEstablished(c) BY DEF DispatchInvariant, CommandFacts
<1>2. CASE WriteIdentity(c) BY <1>2 DEF WriteIdentity, Settles
<1>3. CASE WriteReceipt(c)
  BY <1>1, <1>3 DEF WriteReceipt, Settles, CallEstablished, DispatchTypeOK, Verdict
<1>4. CASE ClearAdmission(c) BY <1>1, <1>4 DEF ClearAdmission, Settles, DispatchTypeOK
<1> QED BY <1>2, <1>3, <1>4

(* A refusal before the start, a settlement, a proof.                      *)
LEMMA SettlementSettles ==
    ASSUME NEW c \in Commands, DispatchInvariant,
           \/ FailBeforeStart(c) \/ WriteSettledReceipt(c) \/ RemoveAttempt(c)
           \/ LeaseIdleProof(c) \/ WriteProofReceipt(c) \/ WriteProofEvent(c)
    PROVE  AllSettle
<1> SUFFICES ASSUME NEW d \in Commands PROVE Settles(d)
  BY DEF AllSettle
<1>1. DispatchTypeOK /\ CallEstablished(c) BY DEF DispatchInvariant, CommandFacts
<1>2. CASE FailBeforeStart(c)
  BY <1>1, <1>2 DEF FailBeforeStart, Settles, DispatchTypeOK, Across
<1>3. CASE WriteSettledReceipt(c)
  BY <1>1, <1>3 DEF WriteSettledReceipt, Settles, CallEstablished, DispatchTypeOK
<1>4. CASE RemoveAttempt(c)
  BY <1>1, <1>4 DEF RemoveAttempt, Settles, DispatchTypeOK, Across
<1>5. CASE LeaseIdleProof(c) BY <1>5 DEF LeaseIdleProof, Settles
<1>6. CASE WriteProofReceipt(c)
  BY <1>1, <1>6 DEF WriteProofReceipt, Settles, CallEstablished, DispatchTypeOK
<1>7. CASE WriteProofEvent(c) BY <1>7 DEF WriteProofEvent, Settles
<1> QED BY <1>2, <1>3, <1>4, <1>5, <1>6, <1>7

(* The session's own calls and its End.                                    *)
LEMMA SessionSettles ==
    ASSUME DispatchInvariant, SessionStep
    PROVE  AllSettle
<1>1. DispatchTypeOK BY DEF DispatchInvariant
<1>2. ASSUME NEW c \in Commands, SupersedeReceipt(c) \/ RetireSuperseded(c) PROVE AllSettle
  <2> SUFFICES ASSUME NEW d \in Commands PROVE Settles(d)
    BY DEF AllSettle
  <2> QED
    BY <1>1, <1>2 DEF SupersedeReceipt, RetireSuperseded, Settles, DispatchTypeOK, Across
<1>3. ASSUME NEW b \in Bindings, Provision(b) PROVE AllSettle
  BY <1>3, UnchangedSettles DEF Provision
<1>4. ASSUME NEW g \in Generations, RefreshBinding(g) PROVE AllSettle
  BY <1>4, UnchangedSettles DEF RefreshBinding
<1>5. ASSUME NEW activity \in BOOLEAN, PublishProjection(activity) PROVE AllSettle
  BY <1>5, UnchangedSettles DEF PublishProjection
<1>6. CASE PrepareEnd \/ WriteRevoked \/ FinishSupersede \/ SettleEnd
  BY <1>6, UnchangedSettles DEF PrepareEnd, WriteRevoked, FinishSupersede, SettleEnd
<1> QED BY <1>2, <1>3, <1>4, <1>5, <1>6 DEF SessionStep

(* Recovery never sends: an interrupted attempt becomes uncertain.         *)
LEMMA RecoverySettles ==
    ASSUME DispatchInvariant, RecoveryStep
    PROVE  AllSettle
<1>1. DispatchTypeOK BY DEF DispatchInvariant
<1>2. ASSUME NEW c \in Commands, RecoverUncertain(c) \/ RecoverNotStarted(c) PROVE AllSettle
  <2> SUFFICES ASSUME NEW d \in Commands PROVE Settles(d)
    BY DEF AllSettle
  <2> QED
    BY <1>1, <1>2 DEF RecoverUncertain, RecoverNotStarted, Settles, DispatchTypeOK, Across
<1>3. ASSUME NEW c \in Commands,
             RecoverAdmission(c) \/ ResumeSettled(c) \/ ResumeProof(c) \/ RefuseToServe(c)
      PROVE  AllSettle
  BY <1>3, UnchangedSettles DEF RecoverAdmission, ResumeSettled, ResumeProof, RefuseToServe
<1>4. CASE Boot \/ FinishAdmissions \/ RecoverEnd \/ FinishEnds \/ FinishRecovery
  BY <1>4, UnchangedSettles DEF Boot, FinishAdmissions, RecoverEnd, FinishEnds, FinishRecovery
<1> QED BY <1>2, <1>3, <1>4 DEF RecoveryStep

LEMMA FailureSettles == StoreFault \/ Crash \/ WorkspaceChange => AllSettle
  BY UnchangedSettles DEF StoreFault, Crash, WorkspaceChange

-----------------------------------------------------------------------------
(* Handlers, adapter, gateway and daemon are one caller of the Store.      *)
StoreCall ==
    \/ \E c \in Commands : AdmissionStep(c) \/ DispatchStep(c) \/ ProofStep(c)
    \/ SessionStep \/ RecoveryStep \/ StoreFault \/ WorkspaceChange

LEMMA HandlersCallTheStore ==
    ASSUME NEW c \in Commands, CommandsInvariant, Handle(c)
    PROVE  [StoreCall]_dispatchVars
<1>1. AnswerTruthful(c) /\ CommandsTypeOK BY DEF CommandsInvariant, Upstream
<1>2. CASE HandleAdmission(c) BY <1>2 DEF HandleAdmission, StoreCall, AdmissionStep
<1>3. CASE HandleBegin(c) BY <1>3 DEF HandleBegin, StoreCall, DispatchStep
<1>4. CASE HandleRefusal(c) BY <1>4 DEF HandleRefusal, StoreCall, DispatchStep
<1>5. CASE HandleAnswer(c)
  <2>1. FinalizeDispatch(c, answer[c]) => answer[c] \in {"failed", "running", "uncertain"}
    BY <1>1, <1>5 DEF HandleAnswer, Serving, FinalizeDispatch, AnswerTruthful, CommandsTypeOK
  <2>2. FinalizeDispatch(c, answer[c]) \/ WriteSettledReceipt(c) \/ RemoveAttempt(c)
    BY <1>5 DEF HandleAnswer
  <2> QED BY <2>1, <2>2 DEF StoreCall, DispatchStep
<1>6. CASE \/ RefuseUpstream(c) \/ Invoke(c) \/ StopNotNeeded(c) \/ StopUndecided(c)
           \/ Answered(c) \/ OutcomeUnknown(c) \/ RefusedAnswer(c)
  BY <1>6 DEF RefuseUpstream, Invoke, StopNotNeeded, StopUndecided, Answered, OutcomeUnknown,
              RefusedAnswer
<1> QED BY <1>2, <1>3, <1>4, <1>5, <1>6 DEF Handle

LEMMA ProofsCallTheStore ==
    ASSUME NEW c \in Commands, Prove(c)
    PROVE  [StoreCall]_dispatchVars
<1>1. ASSUME PublishProjection(FALSE) PROVE StoreCall
  BY <1>1 DEF StoreCall, SessionStep
<1>2. CASE ObserveIdle(c) BY <1>1, <1>2 DEF ObserveIdle
<1>3. CASE PublishStopProof(c) BY <1>1, <1>3 DEF PublishStopProof
<1>4. CASE ProveIdle(c) BY <1>4 DEF ProveIdle, StoreCall, ProofStep
<1>5. CASE ProofWrites(c) BY <1>5 DEF ProofWrites, StoreCall, ProofStep, DispatchStep
<1> QED BY <1>2, <1>3, <1>4, <1>5 DEF Prove

LEMMA StepCallsTheStore ==
    ASSUME CommandsInvariant, [CommandsNext]_commandVars
    PROVE  [StoreCall]_dispatchVars \/ StopHost
<1>1. ASSUME NEW c \in Commands, Request(c) \/ LandPrompt(c) \/ RejectPrompt(c) \/ LandStop(c)
      PROVE  [StoreCall]_dispatchVars
  BY <1>1 DEF Request, LandPrompt, RejectPrompt, LandStop
<1>2. CASE EndTurn \/ ChangeUnasked \/ ReadProjection
  BY <1>2 DEF EndTurn, ChangeUnasked, ReadProjection
<1>3. CASE PublishSeen
  <2>1. seen.activity \in BOOLEAN BY DEF CommandsInvariant, CommandsTypeOK
  <2> QED BY <1>3, <2>1 DEF PublishSeen, StoreCall, SessionStep
<1>4. CASE KillSession BY <1>4 DEF KillSession, StoreCall, SessionStep
<1>5. CASE SessionCalls BY <1>5 DEF SessionCalls, StoreCall, SessionStep
<1>6. CASE EndSession BY <1>6 DEF EndSession, StoreCall, SessionStep
<1>7. CASE Recovering BY <1>7 DEF Recovering, StoreCall, AdmissionStep, DispatchStep
<1>8. CASE FailStore BY <1>8 DEF FailStore, StoreCall
<1>9. CASE WorkspaceMoves BY <1>9 DEF WorkspaceMoves, StoreCall
<1>10. CASE UNCHANGED commandVars BY <1>10 DEF commandVars, dispatchVars
<1> QED
  BY <1>1, <1>2, <1>3, <1>4, <1>5, <1>6, <1>7, <1>8, <1>9, <1>10,
     HandlersCallTheStore, ProofsCallTheStore DEF CommandsNext

LEMMA CommandsStepIsStoreStep ==
    ASSUME CommandsInvariant, [CommandsNext]_commandVars
    PROVE  [Next]_dispatchVars
  BY StepCallsTheStore DEF StoreCall, Next, StopHost

-----------------------------------------------------------------------------
(* The frames: what a step keeps of a command it is not about, and of the  *)
(* queue.                                                                  *)
Untouched(d) ==
    /\ pc'[d] \in {pc[d], "done"}
    /\ answer'[d] = answer[d] \/ pc'[d] # "finalize"
    /\ flight'[d] = flight[d] \/ (flight[d] = "flying" /\ flight'[d] = "rejected")
    /\ evidence'[d] \in {evidence[d], {}}
    /\ turn' = d => turn = d

LEMMA UpstreamKept ==
    ASSUME NEW d \in Commands, GrantedIsPast(d), Upstream(d), Settles(d), Untouched(d)
    PROVE  Upstream(d)'
<1>1. InvokedUnderLease(d)'
  BY DEF Upstream, GrantedIsPast, InvokedUnderLease, Settles, Untouched, Before
<1>2. AnswerTruthful(d)'
  BY DEF Upstream, AnswerTruthful, Settles, Untouched
<1>3. RecordTruthful(d)'
  BY DEF Upstream, RecordTruthful, Settles, Untouched, After
<1> QED BY <1>1, <1>2, <1>3 DEF Upstream

LEMMA AdmissionKept == OneAdmission /\ AllSettle => OneAdmission'
<1> SUFFICES ASSUME OneAdmission, AllSettle PROVE OneAdmission'
  OBVIOUS
<1>1. ASSUME NEW d \in Commands PROVE wal'[d] \in {"none", wal[d]} /\ (doc[d] = "none" => doc'[d] = "none")
  BY DEF AllSettle, Settles
<1> QED BY <1>1 DEF OneAdmission, Commands

KeepsOrder == \A c, d \in Commands :
    pc'[c] = "begin" /\ pc'[d] = "begin" /\ Ahead(queue, c, d) => Ahead(queue', c, d)

LEMMA OrderKept ==
    ASSUME NEW p \in Prompts, NEW a \in Aborts, StopBehind(p, a), Settles(p), Settles(a), KeepsOrder,
           pc'[p] = "begin" => pc[p] = "begin", pc'[a] = "begin" => pc[a] = "begin"
    PROVE  StopBehind(p, a)'
<1>1. p \in Commands /\ a \in Commands BY DEF Commands
<1> QED BY <1>1 DEF StopBehind, Settles, KeepsOrder, Across

LEMMA RunKept ==
    ASSUME HandlersRun, [StoreCall]_dispatchVars,
           \A d \in Commands :
               pc'[d] \notin {"idle", "done"} => pc[d] \notin {"idle", "done"} \/ mode = "up"
    PROVE  HandlersRun'
<1>1. mode \in {"up", "faulted"} => mode' \in {"up", "faulted"}
  <2> SUFFICES ASSUME mode \in {"up", "faulted"} PROVE mode' \in {"up", "faulted"}
    OBVIOUS
  <2>1. ASSUME NEW c \in Commands, AdmissionStep(c) PROVE mode' = mode
    BY <2>1 DEF AdmissionStep, PrepareAdmission, WriteIdentity, WriteAttempt, WriteReceipt, ClearAdmission
  <2>2. ASSUME NEW c \in Commands, DispatchStep(c) PROVE mode' = mode
    BY <2>2 DEF DispatchStep, FailBeforeStart, BeginDispatch, IssueLease, FinalizeDispatch,
                WriteSettledReceipt, RemoveAttempt
  <2>3. ASSUME NEW c \in Commands, ProofStep(c) PROVE mode' = mode
    BY <2>3 DEF ProofStep, LeaseIdleProof, CompleteIdle, WriteProofReceipt, WriteProofEvent
  <2>4. CASE SessionStep
    BY <2>4 DEF SessionStep, Provision, RefreshBinding, PublishProjection, PrepareEnd, WriteRevoked,
                FinishSupersede, SettleEnd, SupersedeReceipt, RetireSuperseded
  <2>5. CASE RecoveryStep
    BY <2>5 DEF RecoveryStep, Boot, FinishAdmissions, RecoverEnd, FinishEnds, FinishRecovery,
                RecoverAdmission, ResumeSettled, ResumeProof, RecoverNotStarted, RecoverUncertain,
                RefuseToServe
  <2>6. CASE StoreFault \/ WorkspaceChange BY <2>6 DEF StoreFault, WorkspaceChange
  <2>7. CASE UNCHANGED dispatchVars BY <2>7 DEF dispatchVars
  <2> QED BY <2>1, <2>2, <2>3, <2>4, <2>5, <2>6, <2>7 DEF StoreCall
<1> QED BY <1>1 DEF HandlersRun

(* The calls of handlers.                                                  *)
Moves(c, at) == pc'[c] = at /\ \A d \in Commands \ {c} : pc'[d] = pc[d]

LEMMA GotoMoves ==
    ASSUME NEW c \in Commands, NEW at \in Stations, CommandsTypeOK, Goto(c, at)
    PROVE  Moves(c, at) /\ pc' \in [Commands -> Stations]
  BY DEF CommandsTypeOK, Goto, Moves

LEMMA QueueStays == QueueOfHandlers /\ UNCHANGED <<pc, queue>> => QueueOfHandlers' /\ KeepsOrder
  BY DEF QueueOfHandlers, KeepsOrder, Distinct, Waits, Ahead

LEMMA HandlerCalls ==
    ASSUME NEW c \in Commands, NEW at \in Waiting, CommandsTypeOK, QueueOfHandlers,
           pc[c] \notin Waiting, CallStore(c, at)
    PROVE  /\ Moves(c, at) /\ pc' \in [Commands -> Stations] /\ queue' \in Seq(Commands)
           /\ QueueOfHandlers' /\ KeepsOrder
<1>1. Moves(c, at) /\ pc' \in [Commands -> Stations]
  BY GotoMoves DEF CallStore, Stations, Waiting, Before, After
<1>2. queue \in Seq(Commands) /\ Distinct(queue) /\ ~Waits(queue, c)
  BY DEF CommandsTypeOK, QueueOfHandlers
<1>3. /\ queue' \in Seq(Commands) /\ Distinct(queue')
      /\ \A d : Waits(queue', d) <=> Waits(queue, d) \/ d = c
      /\ \A d, e : Ahead(queue, d, e) => Ahead(queue', d, e)
  BY <1>2, CallJoins DEF CallStore
<1>4. QueueOfHandlers'
  BY <1>1, <1>3 DEF QueueOfHandlers, Moves
<1>5. KeepsOrder
  BY <1>3 DEF KeepsOrder
<1> QED BY <1>1, <1>3, <1>4, <1>5

LEMMA HandlerReturns ==
    ASSUME NEW c \in Commands, NEW at \in Stations \ Waiting, CommandsTypeOK, QueueOfHandlers,
           Turn(c), Leave(c, at)
    PROVE  /\ Moves(c, at) /\ pc' \in [Commands -> Stations] /\ queue' \in Seq(Commands)
           /\ QueueOfHandlers' /\ KeepsOrder
<1>1. Moves(c, at) /\ pc' \in [Commands -> Stations]
  BY GotoMoves DEF Leave
<1>2. queue \in Seq(Commands) /\ Distinct(queue) /\ queue # <<>> /\ Head(queue) = c
  BY DEF CommandsTypeOK, QueueOfHandlers, Turn
<1>3. /\ queue' \in Seq(Commands) /\ Distinct(queue')
      /\ \A d : Waits(queue', d) <=> Waits(queue, d) /\ d # c
      /\ \A d, e : Ahead(queue, d, e) /\ d # c => Ahead(queue', d, e)
  BY <1>2, CallReturns DEF Leave
<1>4. QueueOfHandlers'
  BY <1>1, <1>3 DEF QueueOfHandlers, Moves
<1>5. KeepsOrder
  BY <1>1, <1>3 DEF KeepsOrder, Moves, Waiting
<1> QED BY <1>1, <1>3, <1>4, <1>5

LEMMA HandlerCallsAgain ==
    ASSUME NEW c \in Commands, NEW at \in Waiting, CommandsTypeOK, QueueOfHandlers,
           Turn(c), LeaveAndCall(c, at)
    PROVE  /\ Moves(c, at) /\ pc' \in [Commands -> Stations] /\ queue' \in Seq(Commands)
           /\ QueueOfHandlers'
           /\ \A d, e : Ahead(queue, d, e) /\ d # c => Ahead(queue', d, e)
           /\ \A d : Waits(queue, d) /\ d # c => Ahead(queue', d, c)
           /\ at # "begin" => KeepsOrder
<1> DEFINE tail == Tail(queue)
<1>1. Moves(c, at) /\ pc' \in [Commands -> Stations]
  BY GotoMoves DEF LeaveAndCall, Stations, Waiting, Before, After
<1>2. queue \in Seq(Commands) /\ Distinct(queue) /\ queue # <<>> /\ Head(queue) = c
  BY DEF CommandsTypeOK, QueueOfHandlers, Turn
<1>3. /\ tail \in Seq(Commands) /\ Distinct(tail) /\ Waits(queue, c)
      /\ \A d : Waits(tail, d) <=> Waits(queue, d) /\ d # c
      /\ \A d, e : Ahead(queue, d, e) /\ d # c => Ahead(tail, d, e)
  BY <1>2, CallReturns
<1>4. queue' = Append(tail, c)
  BY DEF LeaveAndCall
<1> HIDE DEF tail
<1>5. ~Waits(tail, c)
  BY <1>3
<1>6. /\ queue' \in Seq(Commands) /\ Distinct(queue')
      /\ \A d : Waits(queue', d) <=> Waits(tail, d) \/ d = c
      /\ \A d, e : Ahead(tail, d, e) => Ahead(queue', d, e)
      /\ \A d : Waits(tail, d) => Ahead(queue', d, c)
  BY <1>3, <1>4, <1>5, CallJoins
<1>7. ASSUME NEW d \in Commands PROVE Waits(queue', d) <=> pc'[d] \in Waiting
  BY <1>1, <1>3, <1>6 DEF QueueOfHandlers, Moves
<1>8. QueueOfHandlers'
  BY <1>6, <1>7 DEF QueueOfHandlers
<1>9. at # "begin" => KeepsOrder
  BY <1>1, <1>3, <1>6 DEF KeepsOrder, Moves
<1> QED BY <1>1, <1>3, <1>6, <1>8, <1>9

-----------------------------------------------------------------------------
(* A step that only settles what the Store holds: the invariant has to be  *)
(* shown for the queue, and again for the commands whose handler, call or  *)
(* evidence the step touches.                                              *)
LEMMA SettlingStepPreserves ==
    ASSUME CommandsInvariant, DispatchInvariant, AllSettle, [StoreCall]_dispatchVars,
           CommandsTypeOK', QueueOfHandlers', KeepsOrder,
           \A d \in Commands :
               /\ pc'[d] \notin {"idle", "done"} => pc[d] \notin {"idle", "done"} \/ mode = "up"
               /\ pc'[d] = "begin" => pc[d] = "begin"
               /\ Untouched(d) \/ Upstream(d)'
    PROVE  CommandsInvariant'
<1>1. ASSUME NEW d \in Commands PROVE Upstream(d)'
  <2>1. GrantedIsPast(d) /\ Upstream(d) /\ Settles(d)
    BY DEF DispatchInvariant, CommandFacts, CommandsInvariant, AllSettle
  <2> QED BY <2>1, UpstreamKept
<1>2. HandlersRun'
  BY RunKept DEF CommandsInvariant
<1>3. OneAdmission'
  BY AdmissionKept DEF CommandsInvariant
<1>4. ASSUME NEW p \in Prompts, NEW a \in Aborts PROVE StopBehind(p, a)'
  <2>1. p \in Commands /\ a \in Commands BY DEF Commands
  <2>2. StopBehind(p, a) /\ Settles(p) /\ Settles(a) BY <2>1 DEF CommandsInvariant, AllSettle
  <2> QED BY <2>1, <2>2, OrderKept
<1> QED
  BY <1>1, <1>2, <1>3, <1>4 DEF CommandsInvariant

(* A step of the Store alone.                                              *)
LEMMA StoreStepPreserves ==
    ASSUME CommandsInvariant, DispatchInvariant, AllSettle, [StoreCall]_dispatchVars,
           UNCHANGED <<handlers, daemon, evidence>>,
           seen' \in [cursor : Nat, activity : BOOLEAN], shown' \in Nat, UNCHANGED settledAt
    PROVE  CommandsInvariant'
<1>1. CommandsTypeOK' BY DEF CommandsInvariant, CommandsTypeOK
<1>2. QueueOfHandlers' /\ KeepsOrder BY QueueStays DEF CommandsInvariant
<1>3. ASSUME NEW d \in Commands PROVE pc'[d] = pc[d] /\ Untouched(d)
  BY DEF Untouched
<1> QED BY <1>1, <1>2, <1>3, SettlingStepPreserves

(* A handler makes its first call, or a later one from outside the mutex.  *)
LEMMA RequestPreserves ==
    ASSUME NEW c \in Commands, CommandsInvariant, DispatchInvariant, Request(c)
    PROVE  CommandsInvariant'
<1>1. CommandsTypeOK /\ QueueOfHandlers /\ Upstream(c) BY DEF CommandsInvariant
<1>2. AllSettle BY UnchangedSettles DEF Request, dispatchVars
<1>3. /\ Moves(c, "admit") /\ pc' \in [Commands -> Stations] /\ queue' \in Seq(Commands)
      /\ QueueOfHandlers' /\ KeepsOrder
  BY <1>1, HandlerCalls DEF Request, Waiting
<1>4. CommandsTypeOK' BY <1>1, <1>3 DEF Request, CommandsTypeOK
<1>5. Upstream(c)'
  BY <1>1, <1>3 DEF Request, Moves, dispatchVars, Upstream, InvokedUnderLease, AnswerTruthful,
                    RecordTruthful, Before, After
<1>6. ASSUME NEW d \in Commands, d # c PROVE pc'[d] = pc[d] /\ Untouched(d)
  BY <1>3, <1>6 DEF Request, Moves, Untouched
<1> QED BY <1>2, <1>3, <1>4, <1>5, <1>6, SettlingStepPreserves DEF Request, Moves

LEMMA GatewayAnswersPreserves ==
    ASSUME NEW c \in Commands, CommandsInvariant, DispatchInvariant,
           \/ RefuseUpstream(c) \/ StopNotNeeded(c) \/ StopUndecided(c)
           \/ Answered(c) \/ OutcomeUnknown(c)
    PROVE  CommandsInvariant'
<1>1. CommandsTypeOK /\ QueueOfHandlers /\ Upstream(c) BY DEF CommandsInvariant
<1>2. /\ pc[c] \in {"send", "sent"} /\ CallStore(c, "finalize")
      /\ UNCHANGED <<dispatchVars, daemon, adapter>>
      /\ answer' \in [Commands -> {NoAnswer, "failed", "running", "uncertain"}]
      /\ \A d \in Commands : d # c => answer'[d] = answer[d]
      /\ answer'[c] # NoAnswer
      /\ answer'[c] = "failed" => flight[c] \in {"none", "rejected"}
      /\ answer'[c] = "running" => flight[c] # "flying"
  BY <1>1 DEF RefuseUpstream, StopNotNeeded, StopUndecided, Answered, OutcomeUnknown, CommandsTypeOK,
              Upstream, InvokedUnderLease, NoAnswer
<1>3. AllSettle BY <1>2, UnchangedSettles DEF dispatchVars
<1>4. /\ Moves(c, "finalize") /\ pc' \in [Commands -> Stations] /\ queue' \in Seq(Commands)
      /\ QueueOfHandlers' /\ KeepsOrder
  BY <1>1, <1>2, HandlerCalls DEF Waiting
<1>5. CommandsTypeOK' BY <1>1, <1>2, <1>4 DEF CommandsTypeOK
<1>6. Upstream(c)'
  BY <1>1, <1>2, <1>4 DEF Moves, dispatchVars, Upstream, InvokedUnderLease, AnswerTruthful,
                          RecordTruthful, Before, After
<1>7. ASSUME NEW d \in Commands, d # c PROVE pc'[d] = pc[d] /\ Untouched(d)
  BY <1>2, <1>4, <1>7 DEF Moves, Untouched
<1> QED BY <1>2, <1>3, <1>4, <1>5, <1>6, <1>7, SettlingStepPreserves DEF Moves

LEMMA InvokePreserves ==
    ASSUME NEW c \in Commands, CommandsInvariant, DispatchInvariant, Invoke(c)
    PROVE  CommandsInvariant'
<1>1. CommandsTypeOK /\ QueueOfHandlers /\ Upstream(c) BY DEF CommandsInvariant
<1>2. AllSettle BY UnchangedSettles DEF Invoke, dispatchVars
<1>3. Moves(c, "sent") /\ pc' \in [Commands -> Stations]
  BY <1>1, GotoMoves DEF Invoke, Stations
<1>4. QueueOfHandlers' /\ KeepsOrder
  <2>1. ASSUME NEW d \in Commands PROVE pc'[d] \in Waiting <=> pc[d] \in Waiting
    BY <1>3 DEF Invoke, Moves, Waiting
  <2> QED
    BY <1>1, <2>1 DEF Invoke, QueueOfHandlers, Distinct, Waits, KeepsOrder, Ahead
<1>5. CommandsTypeOK' BY <1>1, <1>3 DEF Invoke, CommandsTypeOK
<1>6. Upstream(c)'
  BY <1>1, <1>3 DEF Invoke, CommandsTypeOK, Moves, dispatchVars, Upstream, InvokedUnderLease,
                    AnswerTruthful, RecordTruthful, Before, After
<1>7. ASSUME NEW d \in Commands, d # c PROVE pc'[d] = pc[d] /\ Untouched(d)
  BY <1>1, <1>3, <1>7 DEF Invoke, CommandsTypeOK, Moves, Untouched
<1> QED BY <1>2, <1>3, <1>4, <1>5, <1>6, <1>7, SettlingStepPreserves DEF Invoke, Moves

-----------------------------------------------------------------------------
(* Admission.  The transaction is the only one pending; its attempt finds  *)
(* no Stop with an attempt if it is a prompt's, and the handler's next     *)
(* call goes behind whoever waits already.                                 *)
LEMMA PreparationPreserves ==
    ASSUME NEW c \in Commands, CommandsInvariant, DispatchInvariant,
           PrepareAdmission(c), UNCHANGED <<handlers, daemon, adapter>>
    PROVE  CommandsInvariant'
<1>1. CommandsTypeOK /\ DispatchTypeOK /\ OneAdmission
  BY DEF CommandsInvariant, DispatchInvariant
<1>2. \A d \in Commands : wal[d] = "none"
  BY CommandsAssumption DEF PrepareAdmission, DispatchInvariant, CommandFacts, ModeFacts
<1>3. /\ \A d \in Commands \ {c} : wal'[d] = "none"
      /\ wal'[c] = "admitted" => Admissible(c)
      /\ UNCHANGED <<doc, receipt, granted, mode>>
  BY <1>1, <1>2 DEF PrepareAdmission, DispatchTypeOK, Verdicts
<1>4. OneAdmission'
  <2>1. \A d, e \in Commands : wal'[d] # "none" /\ wal'[e] # "none" => d = e
    BY <1>3
  <2>2. ASSUME NEW p \in Prompts, NEW a \in Aborts, wal'[p] = "admitted" PROVE doc'[a] = "none"
    <3>1. p \in Commands /\ p = c BY <1>3, <2>2 DEF Commands
    <3> QED BY <1>3, <2>2, <3>1 DEF Admissible, AbortLock
  <2> QED BY <2>1, <2>2 DEF OneAdmission
<1>5. ASSUME NEW d \in Commands PROVE Upstream(d)'
  BY <1>3 DEF CommandsInvariant, Upstream, InvokedUnderLease, AnswerTruthful, RecordTruthful
<1>6. CommandsTypeOK' BY <1>1 DEF CommandsTypeOK
<1>7. QueueOfHandlers' BY QueueStays DEF CommandsInvariant
<1>8. HandlersRun' BY <1>3 DEF CommandsInvariant, HandlersRun
<1>9. ASSUME NEW p \in Prompts, NEW a \in Aborts PROVE StopBehind(p, a)'
  BY <1>3 DEF CommandsInvariant, StopBehind, Ahead
<1> QED BY <1>4, <1>5, <1>6, <1>7, <1>8, <1>9 DEF CommandsInvariant

LEMMA WriteAttemptKeeps ==
    ASSUME NEW c \in Commands, CommandsInvariant, DispatchInvariant, pc[c] # "begin",
           WriteAttempt(c), UNCHANGED <<handlers, daemon, adapter>>
    PROVE  CommandsInvariant'
<1>1. CommandsTypeOK /\ DispatchTypeOK /\ OneAdmission /\ CallEstablished(c)
  BY DEF CommandsInvariant, DispatchInvariant, CommandFacts
<1>2. /\ wal[c] = "admitted" /\ doc'[c] = "admitted"
      /\ \A d \in Commands \ {c} : doc'[d] = doc[d]
      /\ UNCHANGED <<wal, receipt, granted, mode>>
  BY <1>1 DEF WriteAttempt, CallEstablished, DispatchTypeOK
<1>3. OneAdmission'
  <2>1. ASSUME NEW p \in Prompts, NEW a \in Aborts, wal[p] = "admitted" PROVE doc'[a] = "none"
    <3>1. p \in Commands /\ a \in Commands /\ a # p BY CommandsAssumption DEF Commands
    <3>2. p = c BY <1>1, <1>2, <2>1, <3>1 DEF OneAdmission
    <3> QED BY <1>1, <1>2, <2>1, <3>1, <3>2 DEF OneAdmission
  <2> QED BY <1>1, <1>2, <2>1 DEF OneAdmission
<1>4. ASSUME NEW d \in Commands PROVE Upstream(d)'
  BY <1>2 DEF CommandsInvariant, Upstream, InvokedUnderLease, AnswerTruthful, RecordTruthful
<1>5. CommandsTypeOK' BY <1>1 DEF CommandsTypeOK
<1>6. QueueOfHandlers' BY QueueStays DEF CommandsInvariant
<1>7. HandlersRun' BY <1>2 DEF CommandsInvariant, HandlersRun
<1>8. ASSUME NEW p \in Prompts, NEW a \in Aborts PROVE StopBehind(p, a)'
  <2>1. p \in Commands /\ a \in Commands /\ a # p BY CommandsAssumption DEF Commands
  <2>2. StopBehind(p, a) BY DEF CommandsInvariant
  <2>3. CASE p = c BY <1>1, <1>2, <2>1, <2>3 DEF StopBehind, OneAdmission, Across
  <2>4. CASE p # c BY <1>2, <2>1, <2>2, <2>4 DEF StopBehind, Ahead, Across
  <2> QED BY <2>3, <2>4
<1> QED BY <1>3, <1>4, <1>5, <1>6, <1>7, <1>8 DEF CommandsInvariant

LEMMA AdmittedPreserves ==
    ASSUME NEW c \in Commands, CommandsInvariant, DispatchInvariant, Serving(c, "admit"),
           ClearAdmission(c), receipt[c] = "admitted", LeaveAndCall(c, "begin"),
           UNCHANGED <<answer, daemon, adapter>>
    PROVE  CommandsInvariant'
<1>1. /\ CommandsTypeOK /\ QueueOfHandlers /\ HandlersRun /\ OneAdmission /\ Upstream(c)
      /\ CallEstablished(c)
  BY DEF CommandsInvariant, DispatchInvariant, CommandFacts
<1>2. AllSettle BY AdmissionSettles
<1>3. wal[c] = "admitted" /\ UNCHANGED <<doc, receipt, granted, mode>>
  BY <1>1 DEF ClearAdmission, CallEstablished
<1>4. /\ Moves(c, "begin") /\ pc' \in [Commands -> Stations] /\ queue' \in Seq(Commands)
      /\ QueueOfHandlers'
      /\ \A d, e : Ahead(queue, d, e) /\ d # c => Ahead(queue', d, e)
      /\ \A d : Waits(queue, d) /\ d # c => Ahead(queue', d, c)
  BY <1>1, HandlerCallsAgain DEF Serving, Waiting
<1>5. CommandsTypeOK' BY <1>1, <1>4 DEF CommandsTypeOK
<1>6. ASSUME NEW d \in Commands PROVE Upstream(d)'
  <2>1. CASE d = c
    BY <1>1, <1>3, <1>4, <2>1 DEF Serving, Moves, Upstream, InvokedUnderLease, AnswerTruthful,
                                  RecordTruthful, Before, After
  <2>2. CASE d # c
    <3>1. Untouched(d) BY <1>4, <2>2 DEF Moves, Untouched
    <3>2. GrantedIsPast(d) /\ Upstream(d) /\ Settles(d)
      BY <1>2 DEF DispatchInvariant, CommandFacts, CommandsInvariant, AllSettle
    <3> QED BY <3>1, <3>2, UpstreamKept
  <2> QED BY <2>1, <2>2
<1>7. HandlersRun' BY <1>1, <1>3, <1>4 DEF HandlersRun, Moves, Serving
<1>8. OneAdmission' BY <1>1, <1>2, AdmissionKept
<1>9. ASSUME NEW p \in Prompts, NEW a \in Aborts PROVE StopBehind(p, a)'
  <2>1. p \in Commands /\ a \in Commands /\ a # p BY CommandsAssumption DEF Commands
  <2>2. StopBehind(p, a) BY DEF CommandsInvariant
  <2>3. CASE p = c
    BY <1>1, <1>3, <2>1, <2>3 DEF StopBehind, OneAdmission, Across
  <2>4. CASE p # c
    <3> SUFFICES ASSUME pc'[p] = "begin", doc'[p] = "admitted"
                 PROVE  /\ doc'[a] \notin Across
                        /\ pc'[a] = "begin" => Ahead(queue', p, a) \/ doc'[a] # "admitted"
      BY DEF StopBehind
    <3>1. pc[p] = "begin" /\ doc[p] = "admitted" BY <1>3, <1>4, <2>1, <2>4 DEF Moves
    <3>2. Waits(queue, p) BY <1>1, <2>1, <3>1 DEF QueueOfHandlers, Waiting
    <3>3. a # c => pc'[a] = pc[a] BY <1>4, <2>1 DEF Moves
    <3> QED BY <1>3, <1>4, <2>2, <2>4, <3>1, <3>2, <3>3 DEF StopBehind
  <2> QED BY <2>3, <2>4
<1> QED BY <1>5, <1>4, <1>6, <1>7, <1>8, <1>9 DEF CommandsInvariant

LEMMA HandleAdmissionPreserves ==
    ASSUME NEW c \in Commands, CommandsInvariant, DispatchInvariant, HandleAdmission(c)
    PROVE  CommandsInvariant'
<1>1. CommandsTypeOK /\ QueueOfHandlers BY DEF CommandsInvariant
<1>2. [StoreCall]_dispatchVars
  BY HandlersCallTheStore DEF Handle
<1>3. CASE PrepareAdmission(c) /\ UNCHANGED <<pc, queue>>
  BY <1>3, PreparationPreserves DEF HandleAdmission
<1>4. CASE WriteAttempt(c) /\ UNCHANGED <<pc, queue>>
  BY <1>4, WriteAttemptKeeps DEF HandleAdmission, Serving
<1>5. CASE (WriteIdentity(c) \/ WriteReceipt(c)) /\ UNCHANGED <<pc, queue>>
  BY <1>1, <1>2, <1>5, AdmissionSettles, StoreStepPreserves DEF HandleAdmission, CommandsTypeOK
<1>6. CASE ClearAdmission(c) /\ receipt[c] = "admitted" /\ LeaveAndCall(c, "begin")
  BY <1>6, AdmittedPreserves DEF HandleAdmission
<1>7. CASE ClearAdmission(c) /\ Leave(c, "done")
  <2>1. AllSettle BY <1>7, AdmissionSettles
  <2>2. /\ Moves(c, "done") /\ pc' \in [Commands -> Stations] /\ queue' \in Seq(Commands)
        /\ QueueOfHandlers' /\ KeepsOrder
    BY <1>1, <1>7, HandlerReturns DEF HandleAdmission, Serving, Stations, After, Waiting
  <2>3. CommandsTypeOK' BY <1>1, <2>2 DEF HandleAdmission, CommandsTypeOK
  <2>4. ASSUME NEW d \in Commands PROVE pc'[d] \in {pc[d], "done"} /\ Untouched(d)
    BY <2>2 DEF HandleAdmission, Moves, Untouched
  <2> QED BY <1>2, <2>1, <2>2, <2>3, <2>4, SettlingStepPreserves
<1> QED
  BY ONLY HandleAdmission(c), <1>3, <1>4, <1>5, <1>6, <1>7 DEF HandleAdmission

-----------------------------------------------------------------------------
(* The begin.  A Stop at the head of the queue stands behind no prompt, so *)
(* the marker it crosses overtakes nobody; the lease is the first one.     *)
LEMMA MarkerPreserves ==
    ASSUME NEW c \in Commands, CommandsInvariant, DispatchInvariant, Serving(c, "begin"),
           BeginDispatch(c), UNCHANGED <<handlers, daemon, adapter>>
    PROVE  CommandsInvariant'
<1>1. CommandsTypeOK /\ DispatchTypeOK /\ QueueOfHandlers /\ OneAdmission
  BY DEF CommandsInvariant, DispatchInvariant
<1>2. /\ pc[c] = "begin" /\ doc[c] = "admitted" /\ doc'[c] = "dispatching"
      /\ \A d \in Commands \ {c} : doc'[d] = doc[d]
      /\ UNCHANGED <<wal, receipt, granted, mode>>
  BY <1>1 DEF Serving, BeginDispatch, DispatchTypeOK
<1>3. OneAdmission'
  BY <1>1, <1>2 DEF OneAdmission, Commands
<1>4. ASSUME NEW d \in Commands PROVE Upstream(d)'
  BY <1>2 DEF CommandsInvariant, Upstream, InvokedUnderLease, AnswerTruthful, RecordTruthful
<1>5. CommandsTypeOK' BY <1>1 DEF CommandsTypeOK
<1>6. QueueOfHandlers' BY QueueStays DEF CommandsInvariant
<1>7. HandlersRun' BY <1>2 DEF CommandsInvariant, HandlersRun
<1>8. ASSUME NEW p \in Prompts, NEW a \in Aborts PROVE StopBehind(p, a)'
  <2>1. p \in Commands /\ a \in Commands BY DEF Commands
  <2>2. StopBehind(p, a) BY DEF CommandsInvariant
  <2>3. CASE p = c BY <1>2, <2>3 DEF StopBehind
  <2>4. CASE a = c
    <3>1. ~Ahead(queue, p, c)
      BY <1>1, CallReturns DEF CommandsTypeOK, QueueOfHandlers, Serving, Turn
    <3>2. ~(pc[p] = "begin" /\ doc[p] = "admitted") BY <1>2, <2>2, <2>4, <3>1 DEF StopBehind
    <3> QED BY <1>2, <2>1, <2>4, <3>2 DEF StopBehind
  <2>5. CASE p # c /\ a # c BY <1>2, <2>1, <2>2, <2>5 DEF StopBehind, Ahead
  <2> QED BY <2>3, <2>4, <2>5
<1> QED BY <1>3, <1>4, <1>5, <1>6, <1>7, <1>8 DEF CommandsInvariant

LEMMA LeasePreserves ==
    ASSUME NEW c \in Commands, CommandsInvariant, DispatchInvariant, Serving(c, "begin"),
           IssueLease(c), Leave(c, "send"), UNCHANGED <<answer, daemon, adapter>>
    PROVE  CommandsInvariant'
<1>1. /\ CommandsTypeOK /\ QueueOfHandlers /\ HandlersRun /\ OneAdmission /\ Upstream(c)
      /\ CallEstablished(c) /\ RecordShape(c)
  BY DEF CommandsInvariant, DispatchInvariant, CommandFacts
<1>2. receipt[c] = "admitted"
  BY <1>1 DEF IssueLease, CallEstablished, RecordShape, Beside
<1>3. c \in granted' /\ (\A d \in Commands \ {c} : d \in granted' <=> d \in granted)
      /\ UNCHANGED <<wal, doc, receipt, mode>>
  BY DEF IssueLease
<1>4. /\ Moves(c, "send") /\ pc' \in [Commands -> Stations] /\ queue' \in Seq(Commands)
      /\ QueueOfHandlers' /\ KeepsOrder
  BY <1>1, HandlerReturns DEF Serving, Stations, Waiting
<1>5. CommandsTypeOK' BY <1>1, <1>4 DEF CommandsTypeOK
<1>6. ASSUME NEW d \in Commands PROVE Upstream(d)'
  <2>1. CASE d = c
    BY <1>1, <1>2, <1>3, <1>4, <2>1
    DEF Serving, Moves, Upstream, InvokedUnderLease, AnswerTruthful, RecordTruthful, Before, After
  <2>2. CASE d # c
    BY <1>3, <1>4, <2>2
    DEF CommandsInvariant, Moves, Upstream, InvokedUnderLease, AnswerTruthful, RecordTruthful
  <2> QED BY <2>1, <2>2
<1>7. HandlersRun' BY <1>1, <1>3, <1>4 DEF HandlersRun, Moves, Serving
<1>8. OneAdmission' BY <1>1, <1>3 DEF OneAdmission
<1>9. ASSUME NEW p \in Prompts, NEW a \in Aborts PROVE StopBehind(p, a)'
  <2>1. p \in Commands /\ a \in Commands BY DEF Commands
  <2>2. pc'[p] = "begin" => pc[p] = "begin" BY <1>4, <2>1 DEF Moves
  <2>3. pc'[a] = "begin" => pc[a] = "begin" BY <1>4, <2>1 DEF Moves
  <2> QED BY <1>3, <1>4, <2>1, <2>2, <2>3 DEF CommandsInvariant, StopBehind, KeepsOrder
<1> QED BY <1>4, <1>5, <1>6, <1>7, <1>8, <1>9 DEF CommandsInvariant

LEMMA HandleBeginPreserves ==
    ASSUME NEW c \in Commands, CommandsInvariant, DispatchInvariant, HandleBegin(c)
    PROVE  CommandsInvariant'
<1>1. CommandsTypeOK /\ QueueOfHandlers /\ Upstream(c) BY DEF CommandsInvariant
<1>2. [StoreCall]_dispatchVars
  BY HandlersCallTheStore DEF Handle
<1>3. CASE BeginDispatch(c) /\ UNCHANGED <<pc, queue>>
  BY <1>3, MarkerPreserves DEF HandleBegin
<1>4. CASE IssueLease(c) /\ Leave(c, "send")
  BY <1>4, LeasePreserves DEF HandleBegin
<1>5. CASE LeaveAndCall(c, "refuse") /\ UNCHANGED dispatchVars
  <2>1. AllSettle BY <1>5, UnchangedSettles DEF dispatchVars
  <2>2. /\ Moves(c, "refuse") /\ pc' \in [Commands -> Stations] /\ queue' \in Seq(Commands)
        /\ QueueOfHandlers' /\ KeepsOrder
    BY <1>1, <1>5, HandlerCallsAgain DEF HandleBegin, Serving, Waiting
  <2>3. CommandsTypeOK' BY <1>1, <2>2 DEF HandleBegin, CommandsTypeOK
  <2>4. ASSUME NEW d \in Commands, d # c PROVE pc'[d] = pc[d] /\ Untouched(d)
    BY <2>2, <2>4 DEF HandleBegin, Moves, Untouched
  <2>5. Upstream(c)'
    BY <1>1, <1>5, <2>2
    DEF HandleBegin, Serving, dispatchVars, Moves, Upstream, InvokedUnderLease, AnswerTruthful,
        RecordTruthful, Before, After
  <2> QED
    BY <1>2, <2>1, <2>2, <2>3, <2>4, <2>5, SettlingStepPreserves DEF HandleBegin, Serving, Moves
<1> QED
  BY ONLY HandleBegin(c), <1>3, <1>4, <1>5 DEF HandleBegin

(* A handler whose method returns leaves; its command stays what it was.   *)
LEMMA ReturnPreserves ==
    ASSUME NEW c \in Commands, CommandsInvariant, DispatchInvariant, Turn(c), Leave(c, "done"),
           AllSettle, [StoreCall]_dispatchVars, UNCHANGED <<answer, daemon, adapter>>
    PROVE  CommandsInvariant'
<1>1. CommandsTypeOK /\ QueueOfHandlers BY DEF CommandsInvariant
<1>2. /\ Moves(c, "done") /\ pc' \in [Commands -> Stations] /\ queue' \in Seq(Commands)
      /\ QueueOfHandlers' /\ KeepsOrder
  BY <1>1, HandlerReturns DEF Stations, After, Waiting
<1>3. CommandsTypeOK' BY <1>1, <1>2 DEF CommandsTypeOK
<1>4. ASSUME NEW d \in Commands PROVE pc'[d] \in {pc[d], "done"} /\ Untouched(d)
  BY <1>2 DEF Moves, Untouched
<1> QED BY <1>2, <1>3, <1>4, SettlingStepPreserves

LEMMA HandleRefusalPreserves ==
    ASSUME NEW c \in Commands, CommandsInvariant, DispatchInvariant, HandleRefusal(c)
    PROVE  CommandsInvariant'
<1>1. CommandsTypeOK BY DEF CommandsInvariant
<1>2. AllSettle BY SettlementSettles DEF HandleRefusal
<1>3. [StoreCall]_dispatchVars
  BY HandlersCallTheStore DEF Handle
<1>4. CASE UNCHANGED <<pc, queue>>
  BY <1>1, <1>2, <1>3, <1>4, StoreStepPreserves DEF HandleRefusal, CommandsTypeOK
<1>5. CASE Leave(c, "done")
  BY <1>2, <1>3, <1>5, ReturnPreserves DEF HandleRefusal, Serving
<1> QED BY <1>4, <1>5 DEF HandleRefusal

-----------------------------------------------------------------------------
(* The answer: what is recorded is what became of the command upstream.    *)
LEMMA RecordingPreserves ==
    ASSUME NEW c \in Commands, CommandsInvariant, DispatchInvariant, Serving(c, "finalize"),
           FinalizeDispatch(c, answer[c]), UNCHANGED <<pc, queue>>,
           settledAt' = [p \in Prompts |-> IF p = c THEN shown ELSE settledAt[p]],
           answer' = [answer EXCEPT ![c] = NoAnswer],
           UNCHANGED <<daemon, seen, shown, evidence>>
    PROVE  CommandsInvariant'
<1>1. CommandsTypeOK /\ DispatchTypeOK /\ QueueOfHandlers /\ OneAdmission /\ Upstream(c)
  BY DEF CommandsInvariant, DispatchInvariant
<1>2. /\ pc[c] = "finalize" /\ doc[c] = "dispatching" /\ doc'[c] = answer[c]
      /\ answer[c] \in {"failed", "running", "uncertain"}
      /\ answer'[c] = NoAnswer
      /\ \A d \in Commands \ {c} : doc'[d] = doc[d] /\ answer'[d] = answer[d]
      /\ UNCHANGED <<wal, receipt, granted, mode>>
  BY <1>1 DEF Serving, FinalizeDispatch, DispatchTypeOK, CommandsTypeOK, Upstream, AnswerTruthful
<1>3. OneAdmission' BY <1>1, <1>2 DEF OneAdmission, Commands
<1>4. ASSUME NEW d \in Commands PROVE Upstream(d)'
  <2>1. CASE d = c
    BY <1>1, <1>2, <2>1
    DEF Upstream, InvokedUnderLease, AnswerTruthful, RecordTruthful, After, Before, NoAnswer
  <2>2. CASE d # c
    BY <1>2, <2>2 DEF CommandsInvariant, Upstream, InvokedUnderLease, AnswerTruthful, RecordTruthful
  <2> QED BY <2>1, <2>2
<1>5. CommandsTypeOK' BY <1>1, <1>2 DEF CommandsTypeOK
<1>6. QueueOfHandlers' BY QueueStays DEF CommandsInvariant
<1>7. HandlersRun' BY <1>2 DEF CommandsInvariant, HandlersRun
<1>8. ASSUME NEW p \in Prompts, NEW a \in Aborts PROVE StopBehind(p, a)'
  <2>1. p \in Commands /\ a \in Commands BY DEF Commands
  <2>2. StopBehind(p, a) BY DEF CommandsInvariant
  <2>3. CASE p = c BY <1>2, <2>3 DEF StopBehind
  <2>4. CASE a = c /\ p # c BY <1>2, <2>1, <2>2, <2>4 DEF StopBehind, Across
  <2>5. CASE p # c /\ a # c BY <1>2, <2>1, <2>2, <2>5 DEF StopBehind, Ahead
  <2> QED BY <2>3, <2>4, <2>5
<1> QED BY <1>3, <1>4, <1>5, <1>6, <1>7, <1>8 DEF CommandsInvariant

LEMMA HandleAnswerPreserves ==
    ASSUME NEW c \in Commands, CommandsInvariant, DispatchInvariant, HandleAnswer(c)
    PROVE  CommandsInvariant'
<1>1. CommandsTypeOK BY DEF CommandsInvariant
<1>2. [StoreCall]_dispatchVars
  BY HandlersCallTheStore DEF Handle
<1>3. CASE FinalizeDispatch(c, answer[c]) /\ UNCHANGED <<pc, queue>>
           /\ settledAt' = [p \in Prompts |-> IF p = c THEN shown ELSE settledAt[p]]
           /\ answer' = [answer EXCEPT ![c] = NoAnswer]
  BY <1>3, RecordingPreserves DEF HandleAnswer
<1>4. CASE (WriteSettledReceipt(c) \/ RemoveAttempt(c)) /\ UNCHANGED <<answer, settledAt>>
           /\ (Leave(c, "done") \/ UNCHANGED <<pc, queue>>)
  <2>1. AllSettle BY <1>4, SettlementSettles
  <2>2. CASE UNCHANGED <<pc, queue>>
    BY <1>1, <1>2, <1>4, <2>1, <2>2, StoreStepPreserves DEF HandleAnswer, CommandsTypeOK
  <2>3. CASE Leave(c, "done")
    BY <1>2, <1>4, <2>1, <2>3, ReturnPreserves DEF HandleAnswer, Serving
  <2> QED BY <1>4, <2>2, <2>3
<1> QED
  BY ONLY HandleAnswer(c), <1>3, <1>4 DEF HandleAnswer

LEMMA RefusedAnswerPreserves ==
    ASSUME NEW c \in Commands, CommandsInvariant, DispatchInvariant, RefusedAnswer(c)
    PROVE  CommandsInvariant'
<1>1. CommandsTypeOK /\ QueueOfHandlers /\ Upstream(c) BY DEF CommandsInvariant
<1>2. AllSettle BY UnchangedSettles DEF RefusedAnswer, dispatchVars
<1>3. CASE Leave(c, "done") /\ UNCHANGED answer
  BY <1>2, <1>3, ReturnPreserves DEF RefusedAnswer, Serving
<1>4. CASE LeaveAndCall(c, "finalize") /\ answer' = [answer EXCEPT ![c] = "uncertain"]
  <2>1. /\ Moves(c, "finalize") /\ pc' \in [Commands -> Stations] /\ queue' \in Seq(Commands)
        /\ QueueOfHandlers' /\ KeepsOrder
    BY <1>1, <1>4, HandlerCallsAgain DEF RefusedAnswer, Serving, Waiting
  <2>2. answer'[c] = "uncertain" /\ \A d \in Commands \ {c} : answer'[d] = answer[d]
    BY <1>1, <1>4 DEF CommandsTypeOK
  <2>3. CommandsTypeOK' BY <1>1, <1>4, <2>1 DEF RefusedAnswer, CommandsTypeOK
  <2>4. ASSUME NEW d \in Commands, d # c PROVE pc'[d] = pc[d] /\ Untouched(d)
    BY <2>1, <2>2, <2>4 DEF RefusedAnswer, Moves, Untouched
  <2>5. Upstream(c)'
    BY <1>1, <2>1, <2>2
    DEF RefusedAnswer, Serving, dispatchVars, Moves, Upstream, InvokedUnderLease, AnswerTruthful,
        RecordTruthful, Before, After, NoAnswer
  <2> QED
    BY <1>2, <2>1, <2>3, <2>4, <2>5, SettlingStepPreserves DEF RefusedAnswer, Serving, Moves
<1> QED BY <1>3, <1>4 DEF RefusedAnswer

-----------------------------------------------------------------------------
(* Idle evidence and proofs.                                               *)
LEMMA ObserveIdlePreserves ==
    ASSUME NEW c \in Commands, CommandsInvariant, DispatchInvariant, ObserveIdle(c)
    PROVE  CommandsInvariant'
<1>1. CommandsTypeOK /\ DispatchTypeOK /\ Upstream(c) BY DEF CommandsInvariant, DispatchInvariant
<1>2. UNCHANGED dispatchVars \/ PublishProjection(FALSE)
  BY DEF ObserveIdle
<1>3. AllSettle /\ UNCHANGED <<doc, receipt, granted>>
  BY <1>2, UnchangedSettles DEF dispatchVars, PublishProjection
<1>4. [StoreCall]_dispatchVars BY ProofsCallTheStore DEF Prove
<1>5. /\ seen' \in [cursor : Nat, activity : BOOLEAN] /\ shown' \in Nat
      /\ Evidence(cursor, active) \in Evidences
  <2>1. Evidence(cursor, active) \in Evidences
    BY <1>1 DEF CommandsTypeOK, DispatchTypeOK, Evidence, Evidences
  <2>2. seen' \in {seen, [cursor |-> cursor, activity |-> FALSE]} /\ shown' \in {shown, cursor}
    BY DEF ObserveIdle
  <2>3. cursor \in Nat /\ shown \in Nat /\ seen \in [cursor : Nat, activity : BOOLEAN]
    BY <1>1 DEF CommandsTypeOK
  <2>4. [cursor |-> cursor, activity |-> FALSE] \in [cursor : Nat, activity : BOOLEAN]
    BY <2>3
  <2> QED BY <2>1, <2>2, <2>3, <2>4
<1>6. CommandsTypeOK' BY <1>1, <1>5 DEF ObserveIdle, CommandsTypeOK
<1>7. QueueOfHandlers' /\ KeepsOrder BY QueueStays DEF CommandsInvariant, ObserveIdle
<1>8. Upstream(c)'
  <2>1. doc[c] = "running" /\ turn = Nobody /\ turn # c BY TurnAssumption DEF ObserveIdle
  <2> QED
    BY <1>1, <1>3, <2>1 DEF ObserveIdle, Upstream, InvokedUnderLease, AnswerTruthful, RecordTruthful
<1>9. ASSUME NEW d \in Commands, d # c PROVE Untouched(d)
  BY <1>1, <1>9 DEF ObserveIdle, CommandsTypeOK, Untouched
<1> QED
  BY <1>3, <1>4, <1>6, <1>7, <1>8, <1>9, SettlingStepPreserves DEF ObserveIdle

LEMMA ProveIdlePreserves ==
    ASSUME NEW c \in Commands, CommandsInvariant, DispatchInvariant, ProveIdle(c)
    PROVE  CommandsInvariant'
<1>1. CommandsTypeOK /\ DispatchTypeOK /\ OneAdmission /\ Upstream(c)
  BY DEF CommandsInvariant, DispatchInvariant
<1>2. /\ evidence[c] # {} /\ doc[c] = "running" /\ doc'[c] = "proven"
      /\ \A d \in Commands \ {c} : doc'[d] = doc[d]
      /\ UNCHANGED <<wal, receipt, granted, mode, handlers, daemon, adapter>>
  BY <1>1 DEF ProveIdle, CompleteIdle, DispatchTypeOK
<1>3. OneAdmission' BY <1>1, <1>2 DEF OneAdmission, Commands
<1>4. ASSUME NEW d \in Commands PROVE Upstream(d)'
  BY <1>1, <1>2 DEF CommandsInvariant, Upstream, InvokedUnderLease, AnswerTruthful, RecordTruthful
<1>5. CommandsTypeOK' BY <1>1, <1>2 DEF CommandsTypeOK
<1>6. QueueOfHandlers' BY <1>2, QueueStays DEF CommandsInvariant
<1>7. HandlersRun' BY <1>2 DEF CommandsInvariant, HandlersRun
<1>8. ASSUME NEW p \in Prompts, NEW a \in Aborts PROVE StopBehind(p, a)'
  <2>1. p \in Commands /\ a \in Commands BY DEF Commands
  <2> QED BY <1>2, <2>1 DEF CommandsInvariant, StopBehind, Ahead, Across
<1> QED BY <1>3, <1>4, <1>5, <1>6, <1>7, <1>8 DEF CommandsInvariant

LEMMA ProvePreserves ==
    ASSUME NEW c \in Commands, CommandsInvariant, DispatchInvariant, Prove(c)
    PROVE  CommandsInvariant'
<1>1. CommandsTypeOK BY DEF CommandsInvariant
<1>2. [StoreCall]_dispatchVars BY ProofsCallTheStore
<1>3. CASE PublishStopProof(c)
  <2>1. shown' \in Nat BY <1>1, <1>3 DEF PublishStopProof, CommandsTypeOK, Evidences
  <2>2. AllSettle BY <1>3, UnchangedSettles DEF PublishStopProof, PublishProjection
  <2> QED
    BY <1>1, <1>2, <1>3, <2>1, <2>2, StoreStepPreserves DEF PublishStopProof, CommandsTypeOK
<1>4. CASE ProofWrites(c)
  <2>1. AllSettle BY <1>4, SettlementSettles DEF ProofWrites
  <2> QED BY <1>1, <1>2, <1>4, <2>1, StoreStepPreserves DEF ProofWrites, CommandsTypeOK
<1> QED BY <1>3, <1>4, ObserveIdlePreserves, ProveIdlePreserves DEF Prove

-----------------------------------------------------------------------------
(* The daemon.  A prompt lands once, a turn is taken only by one that was  *)
(* flying.                                                                 *)
LEMMA LandingPreserves ==
    ASSUME NEW c \in Commands, CommandsInvariant, DispatchInvariant,
           LandPrompt(c) \/ RejectPrompt(c) \/ LandStop(c)
    PROVE  CommandsInvariant'
<1>1. CommandsTypeOK /\ Upstream(c) BY DEF CommandsInvariant
<1>2. /\ flight[c] = "flying" /\ flight'[c] \in {"landed", "rejected"}
      /\ flight' \in [Commands -> {"none", "flying", "landed", "rejected"}]
      /\ \A d \in Commands \ {c} : flight'[d] = flight[d] /\ (turn' = d => turn = d)
      /\ turn' \in Commands \cup {Nobody, Somebody} /\ cursor' \in Nat
      /\ UNCHANGED <<dispatchVars, handlers, adapter>>
  BY <1>1, TurnAssumption DEF LandPrompt, RejectPrompt, LandStop, Fly, Advance, CommandsTypeOK
<1>3. AllSettle BY <1>2, UnchangedSettles DEF dispatchVars
<1>4. CommandsTypeOK' BY <1>1, <1>2 DEF CommandsTypeOK
<1>5. QueueOfHandlers' /\ KeepsOrder BY <1>2, QueueStays DEF CommandsInvariant
<1>6. Upstream(c)'
  BY <1>1, <1>2 DEF dispatchVars, Upstream, InvokedUnderLease, AnswerTruthful, RecordTruthful
<1>7. ASSUME NEW d \in Commands, d # c PROVE Untouched(d)
  BY <1>2, <1>7 DEF Untouched
<1>8. \A d \in Commands : pc'[d] = pc[d] BY <1>2
<1> QED
  BY <1>2, <1>3, <1>4, <1>5, <1>6, <1>7, <1>8, SettlingStepPreserves

LEMMA DaemonPreserves ==
    ASSUME CommandsInvariant, DispatchInvariant, EndTurn \/ ChangeUnasked
    PROVE  CommandsInvariant'
<1>1. CommandsTypeOK BY DEF CommandsInvariant
<1>2. /\ turn' \in {Nobody, Somebody} /\ cursor' \in Nat
      /\ UNCHANGED <<dispatchVars, handlers, flight, adapter>>
  BY <1>1 DEF EndTurn, ChangeUnasked, Advance, CommandsTypeOK
<1>3. AllSettle BY <1>2, UnchangedSettles DEF dispatchVars
<1>4. CommandsTypeOK' BY <1>1, <1>2 DEF CommandsTypeOK
<1>5. QueueOfHandlers' /\ KeepsOrder BY <1>2, QueueStays DEF CommandsInvariant
<1>6. ASSUME NEW d \in Commands PROVE pc'[d] = pc[d] /\ Untouched(d)
  BY <1>2, TurnAssumption DEF Untouched
<1> QED BY <1>2, <1>3, <1>4, <1>5, <1>6, SettlingStepPreserves

LEMMA KillPreserves ==
    ASSUME CommandsInvariant, DispatchInvariant, KillSession
    PROVE  CommandsInvariant'
<1>1. CommandsTypeOK BY DEF CommandsInvariant
<1>2. SessionStep BY DEF KillSession, SessionStep
<1>3. AllSettle /\ [StoreCall]_dispatchVars BY <1>2, SessionSettles DEF StoreCall
<1>4. ASSUME NEW d \in Commands
      PROVE  /\ flight'[d] = IF flight[d] = "flying" THEN "rejected" ELSE flight[d]
             /\ pc'[d] = pc[d] /\ Untouched(d)
  BY TurnAssumption DEF KillSession, Untouched
<1>5. CommandsTypeOK' BY <1>1 DEF KillSession, CommandsTypeOK
<1>6. QueueOfHandlers' /\ KeepsOrder BY QueueStays DEF CommandsInvariant, KillSession
<1> QED BY <1>3, <1>4, <1>5, <1>6, SettlingStepPreserves

-----------------------------------------------------------------------------
(* Publication, sessions, recovery, failure, restart.                      *)
LEMMA PublicationPreserves ==
    ASSUME CommandsInvariant, DispatchInvariant, ReadProjection \/ PublishSeen
    PROVE  CommandsInvariant'
<1>1. CommandsTypeOK BY DEF CommandsInvariant
<1>2. AllSettle
  BY UnchangedSettles DEF ReadProjection, PublishSeen, PublishProjection, dispatchVars
<1>3. [StoreCall]_dispatchVars
  BY <1>1 DEF ReadProjection, PublishSeen, StoreCall, SessionStep, CommandsTypeOK
<1>4. seen' \in [cursor : Nat, activity : BOOLEAN] /\ shown' \in Nat
  <2>1. CASE ReadProjection
    <3>1. seen' = [cursor |-> cursor, activity |-> turn # Nobody] /\ shown' = shown
      BY <2>1 DEF ReadProjection
    <3>2. (turn # Nobody) \in BOOLEAN /\ cursor \in Nat BY <1>1 DEF CommandsTypeOK
    <3> QED BY <1>1, <3>1, <3>2 DEF CommandsTypeOK
  <2>2. CASE PublishSeen
    BY <1>1, <2>2 DEF PublishSeen, CommandsTypeOK
  <2> QED BY <2>1, <2>2
<1>5. UNCHANGED <<handlers, daemon, evidence, settledAt>>
  BY DEF ReadProjection, PublishSeen
<1> QED
  BY <1>2, <1>3, <1>4, <1>5, StoreStepPreserves

LEMMA SessionsPreserve ==
    ASSUME CommandsInvariant, DispatchInvariant, SessionCalls \/ EndSession
    PROVE  CommandsInvariant'
<1>1. CommandsTypeOK BY DEF CommandsInvariant
<1>2. SessionStep BY DEF SessionCalls, EndSession, SessionStep
<1>3. AllSettle /\ [StoreCall]_dispatchVars BY <1>2, SessionSettles DEF StoreCall
<1> QED BY <1>1, <1>3, StoreStepPreserves DEF SessionCalls, EndSession, CommandsTypeOK

LEMMA RecoveringPreserves ==
    ASSUME CommandsInvariant, DispatchInvariant, Recovering
    PROVE  CommandsInvariant'
<1>1. CommandsTypeOK /\ HandlersRun BY DEF CommandsInvariant
<1>2. UNCHANGED <<handlers, daemon, adapter>> BY DEF Recovering
<1>3. CASE RecoveryStep
  BY <1>1, <1>2, <1>3, RecoverySettles, StoreStepPreserves DEF StoreCall, CommandsTypeOK
<1>4. ASSUME NEW c \in Commands, WriteAttempt(c), mode \in {"admissions", "dispatches"}
      PROVE  CommandsInvariant'
  <2>1. pc[c] # "begin" BY <1>1, <1>4 DEF HandlersRun
  <2> QED BY <1>2, <1>4, <2>1, WriteAttemptKeeps
<1>5. ASSUME NEW c \in Commands,
             \/ WriteIdentity(c) \/ WriteReceipt(c) \/ ClearAdmission(c)
             \/ WriteSettledReceipt(c) \/ RemoveAttempt(c)
      PROVE  CommandsInvariant'
  <2>1. AllSettle BY <1>5, AdmissionSettles, SettlementSettles
  <2>2. StoreCall BY <1>5 DEF StoreCall, AdmissionStep, DispatchStep
  <2> QED BY <1>1, <1>2, <2>1, <2>2, StoreStepPreserves DEF CommandsTypeOK
<1> QED
  BY ONLY Recovering, <1>3, <1>4, <1>5 DEF Recovering

LEMMA FailStorePreserves ==
    ASSUME CommandsInvariant, DispatchInvariant, FailStore
    PROVE  CommandsInvariant'
<1>1. CommandsTypeOK /\ QueueOfHandlers BY DEF CommandsInvariant
<1>2. AllSettle /\ [StoreCall]_dispatchVars BY FailureSettles DEF FailStore, StoreCall
<1>3. ASSUME NEW d \in Commands
      PROVE  /\ pc'[d] = IF Waits(queue, d) THEN "done" ELSE pc[d]
             /\ pc'[d] \in Stations \ Waiting /\ Untouched(d)
  BY <1>1 DEF FailStore, Waits, Untouched, QueueOfHandlers, CommandsTypeOK, Stations, After, Waiting
<1>4. CommandsTypeOK'
  <2>1. pc' \in [Commands -> Stations]
    BY <1>1 DEF FailStore, CommandsTypeOK, Stations, After
  <2>2. queue' \in Seq(Commands) BY DEF FailStore
  <2> QED BY <1>1, <2>1, <2>2 DEF FailStore, CommandsTypeOK
<1>5. Len(queue') = 0 BY DEF FailStore
<1>6. QueueOfHandlers' BY <1>3, <1>5 DEF QueueOfHandlers, Distinct, Waits
<1>7. KeepsOrder BY <1>3 DEF KeepsOrder, Waiting
<1> QED BY <1>2, <1>3, <1>4, <1>6, <1>7, SettlingStepPreserves DEF Waiting

LEMMA StopHostPreserves ==
    ASSUME CommandsInvariant, DispatchInvariant, StopHost
    PROVE  CommandsInvariant'
<1>1. CommandsTypeOK BY DEF CommandsInvariant
<1>2. AllSettle BY FailureSettles DEF StopHost
<1>3. ASSUME NEW d \in Commands PROVE pc'[d] \in {"idle", "done"} /\ Untouched(d)
  BY <1>1 DEF StopHost, Untouched
<1>4. ASSUME NEW d \in Commands PROVE Upstream(d)'
  <2>1. GrantedIsPast(d) /\ Upstream(d) /\ Settles(d)
    BY <1>2 DEF DispatchInvariant, CommandFacts, CommandsInvariant, AllSettle
  <2> QED BY <1>3, <2>1, UpstreamKept
<1>5. CommandsTypeOK'
  <2>1. pc' \in [Commands -> Stations] BY DEF StopHost, Stations, Before, After
  <2>2. queue' \in Seq(Commands) BY DEF StopHost
  <2> QED BY <1>1, <2>1, <2>2 DEF StopHost, CommandsTypeOK
<1>6. Len(queue') = 0 BY DEF StopHost
<1>7. QueueOfHandlers' BY <1>3, <1>6 DEF QueueOfHandlers, Distinct, Waits, Waiting
<1>8. HandlersRun' BY <1>3 DEF HandlersRun
<1>9. OneAdmission' BY <1>2, AdmissionKept DEF CommandsInvariant
<1>10. ASSUME NEW p \in Prompts, NEW a \in Aborts PROVE StopBehind(p, a)'
  <2>1. p \in Commands BY DEF Commands
  <2> QED BY <1>3, <2>1 DEF StopBehind
<1> QED BY <1>4, <1>5, <1>7, <1>8, <1>9, <1>10 DEF CommandsInvariant

-----------------------------------------------------------------------------
(* Only the handler that stands at its begin takes a command across the    *)
(* dispatch boundary.                                                      *)
LEMMA OnlyTheBeginDispatches ==
    ASSUME NEW p \in Commands, DispatchInvariant, CommandsInvariant, [CommandsNext]_commandVars,
           doc[p] = "admitted", doc'[p] = "dispatching"
    PROVE  pc[p] = "begin"
<1>1. CommandsTypeOK /\ DispatchTypeOK BY DEF CommandsInvariant, DispatchInvariant
<1>2. ~AllSettle BY DEF AllSettle, Settles
<1>3. ~UNCHANGED doc OBVIOUS
<1>4. ASSUME NEW c \in Commands, Handle(c) PROVE pc[p] = "begin"
  <2>1. CASE HandleAdmission(c)
    <3>1. CASE PrepareAdmission(c) BY <1>3, <3>1 DEF PrepareAdmission
    <3>2. CASE WriteAttempt(c) BY <1>1, <3>2 DEF WriteAttempt, DispatchTypeOK
    <3>3. CASE WriteIdentity(c) \/ WriteReceipt(c) \/ ClearAdmission(c)
      BY <1>2, <3>3, AdmissionSettles
    <3> QED BY <2>1, <3>1, <3>2, <3>3 DEF HandleAdmission
  <2>2. CASE HandleBegin(c)
    <3>1. CASE BeginDispatch(c)
      BY <1>1, <2>2, <3>1 DEF HandleBegin, Serving, BeginDispatch, DispatchTypeOK
    <3>2. CASE IssueLease(c) \/ UNCHANGED dispatchVars
      BY <1>3, <3>2 DEF IssueLease, dispatchVars
    <3> QED BY <2>2, <3>1, <3>2 DEF HandleBegin
  <2>3. CASE HandleRefusal(c) BY <1>2, <2>3, SettlementSettles DEF HandleRefusal
  <2>4. CASE HandleAnswer(c)
    <3>1. CASE FinalizeDispatch(c, answer[c])
      BY <1>1, <3>1 DEF FinalizeDispatch, DispatchTypeOK, CommandsInvariant, Upstream, AnswerTruthful,
                        CommandsTypeOK, NoAnswer
    <3>2. CASE WriteSettledReceipt(c) \/ RemoveAttempt(c) BY <1>2, <3>2, SettlementSettles
    <3> QED BY <2>4, <3>1, <3>2 DEF HandleAnswer
  <2>5. CASE \/ RefuseUpstream(c) \/ Invoke(c) \/ StopNotNeeded(c) \/ StopUndecided(c)
             \/ Answered(c) \/ OutcomeUnknown(c) \/ RefusedAnswer(c)
    BY <1>3, <2>5 DEF RefuseUpstream, Invoke, StopNotNeeded, StopUndecided, Answered, OutcomeUnknown,
                      RefusedAnswer, dispatchVars
  <2> QED BY <1>4, <2>1, <2>2, <2>3, <2>4, <2>5 DEF Handle
<1>5. ASSUME NEW c \in Commands, Prove(c) PROVE FALSE
  <2>1. CASE ObserveIdle(c) \/ PublishStopProof(c)
    BY <1>3, <2>1 DEF ObserveIdle, PublishStopProof, PublishProjection, dispatchVars
  <2>2. CASE ProveIdle(c) BY <1>1, <2>2 DEF ProveIdle, CompleteIdle, DispatchTypeOK
  <2>3. CASE ProofWrites(c) BY <1>2, <2>3, SettlementSettles DEF ProofWrites
  <2> QED BY <1>5, <2>1, <2>2, <2>3 DEF Prove
<1>6. ASSUME NEW c \in Commands, Request(c) \/ LandPrompt(c) \/ RejectPrompt(c) \/ LandStop(c)
      PROVE  FALSE
  BY <1>3, <1>6 DEF Request, LandPrompt, RejectPrompt, LandStop, dispatchVars
<1>7. ~(EndTurn \/ ChangeUnasked \/ ReadProjection \/ PublishSeen)
  BY <1>3 DEF EndTurn, ChangeUnasked, ReadProjection, PublishSeen, PublishProjection, dispatchVars
<1>8. ~(KillSession \/ SessionCalls \/ EndSession)
  BY <1>2, SessionSettles DEF KillSession, SessionCalls, EndSession, SessionStep
<1>9. ~Recovering
  <2>1. ~RecoveryStep BY <1>2, RecoverySettles
  <2>2. ASSUME NEW c \in Commands, WriteAttempt(c) PROVE FALSE
    BY <1>1, <2>2 DEF WriteAttempt, DispatchTypeOK
  <2>3. ASSUME NEW c \in Commands,
               \/ WriteIdentity(c) \/ WriteReceipt(c) \/ ClearAdmission(c)
               \/ WriteSettledReceipt(c) \/ RemoveAttempt(c)
        PROVE  FALSE
    BY <1>2, <2>3, AdmissionSettles, SettlementSettles
  <2> QED BY <2>1, <2>2, <2>3 DEF Recovering
<1>10. ~(FailStore \/ StopHost \/ WorkspaceMoves)
  BY <1>2, FailureSettles DEF FailStore, StopHost, WorkspaceMoves
<1>11. ~UNCHANGED commandVars BY <1>3 DEF commandVars, dispatchVars
<1> QED
  BY <1>4, <1>5, <1>6, <1>7, <1>8, <1>9, <1>10, <1>11 DEF CommandsNext

-----------------------------------------------------------------------------
(* The initial state and the step.                                         *)
LEMMA CommandsInitEstablishes == CommandsInit => DispatchInvariant /\ CommandsInvariant
<1> SUFFICES ASSUME CommandsInit PROVE DispatchInvariant /\ CommandsInvariant
  OBVIOUS
<1>1. DispatchInvariant BY InitEstablishes DEF CommandsInit
<1>2. CommandsTypeOK
  BY DEF CommandsInit, CommandsTypeOK, Stations, Before
<1>3. ASSUME NEW c \in Commands PROVE Upstream(c)
  BY TurnAssumption
  DEF CommandsInit, Init, Upstream, InvokedUnderLease, AnswerTruthful, RecordTruthful, Before
<1>4. Len(queue) = 0 BY DEF CommandsInit
<1>5. QueueOfHandlers BY <1>4 DEF CommandsInit, QueueOfHandlers, Distinct, Waits, Waiting
<1>6. HandlersRun /\ OneAdmission
  BY DEF CommandsInit, Init, HandlersRun, OneAdmission, Commands
<1>7. ASSUME NEW p \in Prompts, NEW a \in Aborts PROVE StopBehind(p, a)
  BY DEF CommandsInit, StopBehind, Commands
<1> QED BY <1>1, <1>2, <1>3, <1>5, <1>6, <1>7 DEF CommandsInvariant

LEMMA CommandsStepPreserves ==
    ASSUME DispatchInvariant, CommandsInvariant, [CommandsNext]_commandVars
    PROVE  DispatchInvariant' /\ CommandsInvariant'
<1>1. DispatchInvariant'
  BY CommandsStepIsStoreStep, StepPreserves
<1>2. ASSUME NEW c \in Commands, Handle(c) PROVE CommandsInvariant'
  BY <1>2, HandleAdmissionPreserves, HandleBeginPreserves, HandleRefusalPreserves,
     GatewayAnswersPreserves, InvokePreserves, HandleAnswerPreserves, RefusedAnswerPreserves
  DEF Handle
<1>3. ASSUME NEW c \in Commands,
             Request(c) \/ Prove(c) \/ LandPrompt(c) \/ RejectPrompt(c) \/ LandStop(c)
      PROVE  CommandsInvariant'
  BY <1>3, RequestPreserves, ProvePreserves, LandingPreserves
<1>4. CASE EndTurn \/ ChangeUnasked \/ ReadProjection \/ PublishSeen \/ KillSession
  BY <1>1, <1>4, DaemonPreserves, PublicationPreserves, KillPreserves
<1>5. CASE SessionCalls \/ EndSession \/ Recovering \/ FailStore \/ StopHost
  BY <1>1, <1>5, SessionsPreserve, RecoveringPreserves, FailStorePreserves, StopHostPreserves
<1>6. CASE WorkspaceMoves
  <2>1. AllSettle /\ StoreCall BY <1>6, FailureSettles DEF WorkspaceMoves, StoreCall
  <2> QED
    BY <1>1, <1>6, <2>1, StoreStepPreserves DEF WorkspaceMoves, CommandsInvariant, CommandsTypeOK
<1>7. CASE UNCHANGED commandVars
  <2>1. AllSettle /\ UNCHANGED dispatchVars
    BY <1>7, UnchangedSettles DEF commandVars, dispatchVars
  <2> QED
    BY <1>1, <1>7, <2>1, StoreStepPreserves DEF commandVars, CommandsInvariant, CommandsTypeOK
<1> QED
  BY <1>1, <1>2, <1>3, <1>4, <1>5, <1>6, <1>7 DEF CommandsNext

-----------------------------------------------------------------------------
(* Handlers, mutex, adapter, gateway and daemon together are one caller of *)
(* the Store's dispatch half: whatever is proved of the Store under any    *)
(* caller holds of the whole host.                                         *)
THEOREM CommandsImplementDispatch == CommandsSpec => DispatchSpec
<1>1. CommandsInit => Init BY DEF CommandsInit
<1>2. DispatchInvariant /\ CommandsInvariant /\ [CommandsNext]_commandVars => [Next]_dispatchVars
  BY CommandsStepIsStoreStep
<1> QED
  BY <1>1, <1>2, CommandsInitEstablishes, CommandsStepPreserves, PTL DEF CommandsSpec, DispatchSpec

(* In every state what a handler's station, a record or idle evidence says *)
(* of a command is so, and the mutex's queue holds exactly its callers.    *)
THEOREM CommandsInvariantHolds == CommandsSpec => [](DispatchInvariant /\ CommandsInvariant)
<1> QED
  BY CommandsInitEstablishes, CommandsStepPreserves, PTL DEF CommandsSpec

(* A command reported rejected, queued, unsent or failed has not run and   *)
(* never will: the only call that sends it was never made, or came back    *)
(* with a definitive rejection.                                            *)
THEOREM FailedNeverRunsHolds == CommandsSpec => []FailedNeverRuns
<1>1. DispatchInvariant /\ CommandsInvariant => FailedNeverRuns
  <2> SUFFICES ASSUME DispatchInvariant, CommandsInvariant, NEW c \in Commands,
                      receipt[c] \in {"rejected", "queued", "unsent", "failed"}
               PROVE  flight[c] \notin {"flying", "landed"}
    BY DEF FailedNeverRuns
  <2>1. GrantedIsPast(c) /\ Upstream(c)
    BY DEF DispatchInvariant, CommandFacts, CommandsInvariant
  <2> QED BY <2>1 DEF GrantedIsPast, Upstream, InvokedUnderLease, RecordTruthful
<1> QED
  BY <1>1, CommandsInvariantHolds, PTL

(* A completed command is over upstream: no invocation of it is on its way *)
(* and the daemon is not running its turn, and so it stays.                *)
THEOREM CompletedIsOverHolds == CommandsSpec => []CompletedIsOver
<1>1. CommandsInvariant => CompletedIsOver
  BY DEF CommandsInvariant, Upstream, RecordTruthful, CompletedIsOver
<1> QED
  BY <1>1, CommandsInvariantHolds, PTL

(* No prompt crosses its dispatch boundary while a Stop admitted behind it *)
(* is across its own: the Store does not check it, the mutex's order of    *)
(* service gives it.                                                       *)
THEOREM StopNeverOvertakesHolds == CommandsSpec => StopNeverOvertakes
<1> DEFINE Behind == \A p \in Prompts :
      doc[p] = "admitted" /\ doc'[p] = "dispatching" =>
          \A a \in Aborts : doc[a] \notin {"dispatching", "running", "uncertain"}
<1>1. DispatchInvariant /\ CommandsInvariant /\ [CommandsNext]_commandVars => [Behind]_commandVars
  <2> SUFFICES ASSUME DispatchInvariant, CommandsInvariant, CommandsNext,
                      NEW p \in Prompts, doc[p] = "admitted", doc'[p] = "dispatching",
                      NEW a \in Aborts
               PROVE  doc[a] \notin Across
    BY DEF Across
  <2>1. p \in Commands /\ StopBehind(p, a) /\ CommandsTypeOK /\ DispatchTypeOK
    BY DEF Commands, CommandsInvariant, DispatchInvariant
  <2>2. pc[p] = "begin"
    BY <2>1, OnlyTheBeginDispatches
  <2> QED BY <2>1, <2>2 DEF StopBehind
<1> QED
  BY <1>1, CommandsInvariantHolds, PTL DEF CommandsSpec, StopNeverOvertakes
=============================================================================
