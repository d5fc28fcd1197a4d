---------------------------- MODULE OAuthInvariant ----------------------------
(***************************************************************************)
(* What holds of the two journals, of the sessions and helpers, and of the *)
(* requests and answers between desktop and host, in every reachable state:*)
(* the inductive invariant of OAuthAttempts.                               *)
(***************************************************************************)
EXTENDS OAuthAttempts

-----------------------------------------------------------------------------
(* Records and entries.                                                    *)

Intents == {"user", "expired", "shutdown"}
RecoveryReasons == {"login_helper", "cancelling_helper", "storage_helper"}
FailedWhy == {"expired", "host_shutdown", "interrupted_before_login_dispatch",
              "provider_login_failed", "credentials_discarded", "persistence_failed"}
Phases == {"none", "prepared", "login_dispatching", "credentials_ready", "cancelling",
           "persistence_dispatching", "recovery_required"} \cup Terminal
Whys == {"none", "persistence_confirmed", "user_cancelled"} \cup FailedWhy \cup RecoveryReasons

(* The reasons that go with a phase.                                       *)
WhyOf(phase) ==
    CASE phase = "completed" -> {"persistence_confirmed"}
      [] phase = "cancelled" -> {"user_cancelled"}
      [] phase = "failed" -> FailedWhy
      [] phase = "recovery_required" -> RecoveryReasons
      [] OTHER -> {"none"}

RecordShape == [phase : Phases, rev : Nat, why : Whys, intent : Intents \cup {"none"},
                acked : BOOLEAN]

Sound(r) ==
    /\ r \in RecordShape
    /\ r.why \in WhyOf(r.phase)
    /\ r.phase = "cancelling" <=> r.intent # "none"
    /\ r.acked => r.phase \in Terminal
    /\ r = NoRecord \/ (r.phase # "none" /\ ReachableRevision(r))

EntryPhases == DOMAIN PhaseTransitions \cup {"none"}
Entry == [phase : EntryPhases, hostPhase : Phases, why : Whys, acked : BOOLEAN]

(* From the admission on an entry has the phase of the host it last noted. *)
SoundEntry(e) ==
    /\ e \in Entry
    /\ Coherent(e)
    /\ e.phase \in {"none", "prepared", "start_dispatching"} => e.hostPhase = "none"
    /\ e.phase \in {"cancel_dispatching", "recovery_required", "completed", "cancelled"} =>
          e.hostPhase # "none"
    /\ e.acked => e.phase \in Terminal /\ e.hostPhase # "none"
    /\ e.phase = "none" => e = NoEntry

Places == {"idle", "prepared", "marked", "browser", "opened", "observing"} \cup Awaits
Operation == [pc : Places, conn : Nat, stale : BOOLEAN]
Body == [ok : BOOLEAN, rec : RecordShape, page : BOOLEAN]

HostShape ==
    /\ rec \in [Attempts -> RecordShape] /\ \A a \in Attempts : Sound(rec[a])
    /\ process \in {"up", "closing", "down"} /\ sick \in BOOLEAN /\ secure \in BOOLEAN
    /\ run \in [Attempts -> {"idle", "held", "login", "committing", "storing"}]
    /\ helper \in [Attempts -> {"none", "login", "storage"}]
    /\ logins \in [Attempts -> Nat] /\ kept \subseteq Attempts

WireShape ==
    /\ open \subseteq Connections /\ absentSeen \in Nat
    /\ inbox \in [Connections -> Seq(Requests)]
    /\ at \in [Connections -> {"idle", "prepared", "marked", "waiting"}]
    /\ answer \in [Attempts -> Body]

DesktopShape ==
    /\ led \in [Attempts -> Entry] /\ \A a \in Attempts : SoundEntry(led[a])
    /\ op \in [Attempts -> Operation]
    /\ next \in Nat \ {0} /\ next <= MaxConnections + 1 /\ link \in {0, next - 1}
    /\ pages \in [Attempts -> {<<>>, <<TRUE>>}]
    /\ eligible \subseteq Attempts /\ owed \subseteq Attempts
    /\ told \subseteq Attempts /\ born \subseteq Attempts

OAuthShape == HostShape /\ WireShape /\ DesktopShape

-----------------------------------------------------------------------------
(* The host.                                                               *)

Stored == {"storage_helper", "persistence_confirmed", "persistence_failed"}

(* A record past the login, which ended well.                              *)
SignedIn(r) == r.phase \in {"credentials_ready", "persistence_dispatching"}
                    \/ r.why \in Stored \cup {"credentials_discarded"}

(* What a session and a helper at work say of the record, and what there   *)
(* was of effects.                                                         *)
SessionFacts(a) ==
    /\ rec[a].phase \in {"none", "prepared"} =>
          run[a] = "idle" /\ helper[a] = "none" /\ logins[a] = 0
    /\ logins[a] <= 1
    /\ run[a] = "login" =>
          rec[a].phase \in {"login_dispatching", "cancelling"} /\ helper[a] = "login"
    /\ run[a] = "committing" =>
          rec[a].phase \in {"credentials_ready", "failed"} /\ helper[a] = "none"
    /\ run[a] = "storing" => rec[a].phase = "persistence_dispatching" /\ helper[a] = "storage"
    /\ helper[a] = "login" => rec[a].phase \in {"login_dispatching", "cancelling"}
                              \/ rec[a].why \in {"login_helper", "cancelling_helper"}
    /\ helper[a] = "storage" \/ a \in kept =>
          rec[a].phase = "persistence_dispatching" \/ rec[a].why \in Stored
    /\ rec[a].phase = "completed" => a \in kept /\ helper[a] = "none"
    /\ SignedIn(rec[a]) => pages[a] # <<>>

OneBarrier == \A a, b \in Attempts : Barrier(rec[a]) /\ Barrier(rec[b]) => a = b

(* A start on its way through the lane.                                    *)
LaneFacts(c) ==
    /\ at[c] # "idle" => /\ inbox[c] # <<>>
                         /\ inbox[c][1].kind = IF at[c] = "waiting" THEN "cancel" ELSE "start"
    /\ at[c] = "prepared" => rec[Of(c)] # NoRecord
    /\ at[c] = "marked" => /\ rec[Of(c)].phase = "login_dispatching"
                           /\ run[Of(c)] = "idle" /\ logins[Of(c)] = 0

OneLane == \A c, d \in Connections :
    at[c] \in {"prepared", "marked"} /\ at[d] \in {"prepared", "marked"} => c = d

StoppedFacts ==
    process = "down" => /\ open = {} /\ \A a \in Attempts : run[a] = "idle"
                        /\ \A c \in Connections : inbox[c] = <<>> /\ at[c] = "idle"

HostInvariant ==
    /\ \A a \in Attempts : SessionFacts(a)
    /\ OneBarrier
    /\ \A c \in Connections : LaneFacts(c)
    /\ OneLane
    /\ StoppedFacts

-----------------------------------------------------------------------------
(* Requests.                                                               *)

KindOf == [start |-> "start", startStatus |-> "status", status |-> "status",
           cancel |-> "cancel", ack |-> "ack", ackStatus |-> "status"]

(* At most one request for an attempt is waited for, and none to start it  *)
(* comes after a read of its status.                                       *)
Orderly(q) ==
    /\ \A i, j \in 1..Len(q) : q[i].live /\ q[j].live /\ q[i].a = q[j].a => i = j
    /\ \A i, j \in 1..Len(q) :
          j < i /\ q[i].kind = "start" /\ q[j].kind = "status" => q[j].a # q[i].a

(* A request that is waited for is the one its operation has sent; a read  *)
(* is always waited for.                                                   *)
Waited(c, q) ==
    /\ q.live => /\ c = link /\ c \in open
                 /\ op[q.a].pc \in Awaits /\ q.kind = KindOf[op[q.a].pc] /\ ~answer[q.a].ok
    /\ q.kind = "status" => q.live

(* A start is behind the mark in the ledger, and on an open connection     *)
(* unless the host has entered it.                                         *)
Dispatched(c, i) ==
    LET q == inbox[c][i] IN q.kind = "start" =>
        /\ c < next
        /\ c \in open \/ (i = 1 /\ at[c] # "idle")
        /\ led[q.a].phase \notin {"none", "prepared"} /\ op[q.a].pc \notin {"prepared", "marked"}

RequestFacts(c) ==
    /\ Orderly(inbox[c])
    /\ \A i \in 1..Len(inbox[c]) : Waited(c, inbox[c][i]) /\ Dispatched(c, i)

RequestInvariant == \A c \in Connections : RequestFacts(c)

-----------------------------------------------------------------------------
(* The desktop.                                                            *)

(* A phase of the host and what it is later; recovery is never left.       *)
Later(p, q) == HostPhaseFollows(p, q) /\ (p = "recovery_required" => q = p)

(* What the ledger or an answer has of an attempt is the record's past.    *)
Follows(e, r) ==
    /\ e.hostPhase # "none" => r # NoRecord /\ Later(e.hostPhase, r.phase)
    /\ e.phase \in Terminal /\ e.hostPhase # "none" => r.phase = e.phase /\ r.why = e.why
    /\ e.acked => r.acked

Became(old, new) ==
    /\ old # NoRecord => new # NoRecord /\ Later(old.phase, new.phase)
    /\ old.phase \in Terminal => new.phase = old.phase /\ new.why = old.why
    /\ old.acked => new.acked

StartOn(c, a) ==
    \E i \in 1..Len(inbox[c]) : inbox[c][i].kind = "start" /\ inbox[c][i].a = a

(* The host does not have the attempt, and no start that could bring it    *)
(* about is on its way, or will be.                                        *)
NeverBegins(a) ==
    /\ rec[a] = NoRecord
    /\ led[a] # NoEntry /\ op[a].pc \notin {"prepared", "marked"}
    /\ \A c \in Connections : StartOn(c, a) => c < absentSeen

AbsenceFacts(a) ==
    a \in told \/ (answer[a].ok /\ answer[a].rec = NoRecord)
        \/ (led[a].phase = "failed" /\ led[a].hostPhase = "none") => NeverBegins(a)

AnswerFacts(a) == answer[a].ok =>
    /\ op[a].pc \in Awaits
    /\ Sound(answer[a].rec)
    /\ Became(answer[a].rec, rec[a])
    /\ Follows(led[a], answer[a].rec)
    /\ SignedIn(answer[a].rec) => pages[a] # <<>>
    /\ answer[a].page => answer[a].rec.phase \in
                            {"login_dispatching", "credentials_ready", "persistence_dispatching"}

(* Where an operation stands, and its entry.                               *)
OperationFacts(a) ==
    /\ op[a].pc # "idle" => led[a] # NoEntry /\ op[a].conn \in 1..next - 1
    /\ op[a].pc \in Awaits => link # 0 /\ op[a].conn = link
    /\ op[a].pc = "prepared" => led[a].phase = "prepared"
    /\ op[a].pc = "marked" => led[a].phase = "start_dispatching"
    /\ op[a].pc \in {"browser", "opened"} => led[a].phase = "browser_dispatching"
    /\ op[a].pc = "observing" => led[a].phase = "browser_opened"
    /\ op[a].pc \in {"ack", "ackStatus"} => led[a].phase \in Terminal /\ led[a].hostPhase # "none"

(* Only a start sent on this connection lets a page be opened, once.       *)
PageFacts(a) ==
    /\ led[a].phase \in {"none", "prepared", "start_dispatching", "host_admitted"}
          \/ op[a].pc = "browser" => pages[a] = <<>>
    /\ a \in eligible \/ op[a].pc \in {"start", "startStatus"}
          \/ (op[a].pc = "browser" /\ op[a].conn = link) => a \in born

DesktopFacts(a) ==
    /\ led[a].phase \in {"none", "prepared"} \/ op[a].pc \in {"prepared", "marked"} =>
          rec[a] = NoRecord
    /\ Follows(led[a], rec[a])
    /\ OperationFacts(a) /\ AnswerFacts(a) /\ AbsenceFacts(a) /\ PageFacts(a)

DesktopInvariant == \A a \in Attempts : DesktopFacts(a)

OAuthInvariant ==
    OAuthShape /\ HostInvariant /\ RequestInvariant /\ DesktopInvariant /\ NeverRefused
=============================================================================
