---------------------- MODULE ResidentDispatchInvariant ----------------------
(***************************************************************************)
(* The inductive invariant of ResidentDispatch: what holds of the files    *)
(* alone (a crash leaves it untouched), what the method that holds the     *)
(* mutex has established before its next write, and what each mode of the  *)
(* Store adds.                                                             *)
(***************************************************************************)
EXTENDS ResidentDispatch

-----------------------------------------------------------------------------
(* The files.                                                              *)

(* The receipts each attempt may be found beside, whenever the host stops. *)
Beside(c) ==
    /\ doc[c] = "none" =>
        receipt[c] \in {"rejected", "queued", "unsent", "failed", "completed", "superseded"}
    /\ doc[c] = "admitted" => receipt[c] \in {"admitted", "unsent"}
    /\ doc[c] = "dispatching" => receipt[c] = "admitted"
    /\ doc[c] \in {"unsent", "failed"} => receipt[c] \in {"admitted", doc[c]}
    /\ Retains(c) => receipt[c] \in {"admitted", doc[c], "superseded"}
    /\ doc[c] = "proven" => receipt[c] \in {"running", "completed"}

(* The identity record is written first; a pending transaction is written  *)
(* out in order; after it the attempt decides what the receipt may say.    *)
RecordShape(c) ==
    /\ c \notin known => doc[c] = "none" /\ receipt[c] = "none"
    /\ wal[c] # "none" =>
        /\ receipt[c] \in {"none", wal[c]}
        /\ doc[c] \in {"none", "admitted"}
        /\ doc[c] = "admitted" => wal[c] = "admitted"
        /\ receipt[c] = "admitted" => doc[c] = "admitted"
    /\ wal[c] = "none" /\ c \in known => Beside(c)
    /\ c \in proof => receipt[c] = "completed"
    /\ receipt[c] = "completed" => c \in proof \/ doc[c] = "proven"

(* The binding, the End, and the authority every attempt is under.         *)
EndShape ==
    /\ ending = "none" => endof = NoBinding
    /\ ending # "none" => endof # NoBinding
    /\ ending = "ending" => active \in {endof, NoBinding}
    /\ ending = "settled" => active = NoBinding

AttemptAuthority(c) ==
    /\ doc[c] # "none" =>
        /\ held[c] # NoBinding
        /\ active # NoBinding => held[c].sess = active.sess
        /\ active = NoBinding => ending = "ending"
        /\ ending = "none" => receipt[c] # "superseded"
        /\ ending # "none" => Retains(c) /\ held[c] = endof /\ receipt[c] \in {doc[c], "superseded"}
        /\ ending # "settled"
    /\ wal[c] = "admitted" => active # NoBinding /\ ending = "none"

(* A command whose lease was returned is past admission for good.          *)
GrantedIsPast(c) == c \in granted =>
    /\ c \in known /\ wal[c] = "none"
    /\ doc[c] \notin {"admitted", "unsent"} /\ receipt[c] # "unsent"

-----------------------------------------------------------------------------
(* The method that holds the mutex.                                        *)

AdmissionWrites == {"identity", "attempt", "receipt", "clear"}
SettlementWrites == {"settle", "remove", "proof_receipt", "proof_event"}
EndWrites == {"revoke", "supersede"}

CallModes ==
    /\ call.at \in AdmissionWrites => call.cmd # NoCommand /\ mode \in {"admissions", "up"}
    /\ call.at \in SettlementWrites => call.cmd # NoCommand /\ mode \in {"dispatches", "up"}
    /\ call.at \in EndWrites => call.cmd = NoCommand /\ mode \in {"ends", "up"} /\ ending = "ending"
    /\ call.at = "lease" => call.cmd # NoCommand /\ mode = "up"
    /\ call.at = "none" => call = Idle
    /\ call.at = "revoke" => active = endof
    /\ call.at = "supersede" => active = NoBinding
    /\ mode \in {"dispatches", "up"} /\ ending # "none" /\ call.at \notin EndWrites =>
        active = NoBinding

CallEstablished(c) ==
    /\ At(c, "identity") => wal[c] # "none"
    /\ At(c, "attempt") => wal[c] = "admitted" /\ c \in known
    /\ At(c, "receipt") =>
        wal[c] # "none" /\ c \in known /\ (wal[c] = "admitted" => doc[c] = "admitted")
    /\ At(c, "clear") => wal[c] # "none" /\ c \in known /\ receipt[c] = wal[c]
    /\ At(c, "lease") => wal[c] = "none" /\ doc[c] = "dispatching"
    /\ At(c, "settle") =>
        /\ wal[c] = "none" /\ doc[c] \in {"unsent", "failed", "running", "uncertain"}
        /\ receipt[c] \in {"admitted", doc[c]}
    /\ At(c, "remove") =>
        /\ wal[c] = "none" /\ doc[c] \in {"admitted", "unsent", "failed", "proven"}
        /\ receipt[c] \in {"unsent", "failed", "completed"}
        /\ receipt[c] = "completed" => c \in proof
    /\ At(c, "proof_receipt") => wal[c] = "none" /\ doc[c] = "proven"
    /\ At(c, "proof_event") => wal[c] = "none" /\ doc[c] = "proven" /\ receipt[c] = "completed"

-----------------------------------------------------------------------------
(* The modes.                                                              *)

(* A command no method is at work on: its attempt agrees with its receipt. *)
AtRest(c) ==
    /\ doc[c] \in {"none", "admitted", "dispatching", "running", "uncertain"}
    /\ doc[c] \in {"admitted", "dispatching"} => receipt[c] = "admitted"
    /\ Retains(c) => receipt[c] = doc[c]

ModeFacts(c) ==
    /\ mode \in {"ends", "dispatches", "up"} /\ wal[c] # "none" => call.cmd = c
    /\ mode = "up" /\ call.cmd # c /\ ~At(NoCommand, "supersede") => AtRest(c)
    /\ mode = "dispatches" /\ call.cmd # c /\ c \notin todo => AtRest(c)
    /\ mode = "dispatches" /\ c \in todo => doc[c] # "none" /\ call.cmd # c
    /\ mode \in {"dispatches", "up"} /\ ending # "none" /\ call.at \notin EndWrites =>
        doc[c] = "none"

CommandFacts(c) ==
    /\ RecordShape(c) /\ AttemptAuthority(c) /\ GrantedIsPast(c)
    /\ CallEstablished(c) /\ ModeFacts(c)

(* In every state, between two writes, after a crash and during recovery:  *)
(* an attempt, its receipt, its pending transaction and the identity        *)
(* record are ones some prefix of admission, dispatch, proof or End leaves *)
(* behind, the attempt is under the authority it was begun under, and what *)
(* the running method and the passed stages of recovery rely on holds.     *)
DispatchInvariant ==
    /\ DispatchTypeOK
    /\ EndShape /\ CallModes
    /\ mode \in {"down", "admissions", "ends"} => ~degraded
    /\ \A c \in Commands : CommandFacts(c)
=============================================================================
