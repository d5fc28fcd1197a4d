---------------------- MODULE ResidentLifecycleInvariant ----------------------
(***************************************************************************)
(* The inductive invariant of the resident lifecycle as it runs: what the  *)
(* place of a job, the held candidate, a request on its way and the state  *)
(* of a session upstream say of the Store's records, and the reverse.      *)
(***************************************************************************)
EXTENDS ResidentLifecycle, LifecycleStoreInvariant

ProvisionPlaces == {"prepare", "status", "create", "creating", "promote", "promoting",
    "promoted", "unknown", "publish", "commit", "committing"}
EndPlaces == {"end_prepare", "end_status", "kill", "kill_live", "kill_gone", "killing",
    "absent", "settle", "reconcile", "evidence"}

CoordTypeOK ==
    /\ job \in [Ops -> {"idle"} \cup ProvisionPlaces \cup EndPlaces]
    /\ held \in [Ops -> Sessions \cup {NoSession}]
    /\ closing \in BOOLEAN
    /\ up \in [Sessions -> {"none", "owned", "orphaned", "resident", "gone"}]
    /\ owner \in [Sessions -> Ops \cup {NoOp}]
    /\ req \in [Ops -> {"none", "done", "rejected"} \cup Mutations]
    /\ effects \in [Ops -> [Mutations -> {0, 1}]]

(* Where a job stands says in which phase it left its record; nobody else  *)
(* moves it on.                                                            *)
JobFact(o) ==
    /\ job[o] \in EndPlaces => o \in EndOps
    /\ job[o] \in {"create", "creating"} => phase[o] = "owned_create_dispatching"
    /\ job[o] \in {"promote", "promoting"} => phase[o] = "promotion_dispatching"
    /\ job[o] \in {"promoted", "publish", "commit"} => phase[o] \in PostPromotion
    /\ job[o] \in {"kill", "kill_live", "kill_gone"} => phase[o] = "ending"
    /\ job[o] \in {"killing", "absent"} => phase[o] = "kill_dispatching"
    /\ job[o] \in {"reconcile", "evidence"} => Recorded(o) /\ Stage(o) = "kill_dispatching"

(* A candidate that is held is its record's, and none is before it was     *)
(* observed; a job that rests leaves one only where the provision can go on*)
Unobserved == {"prepare", "create", "creating"}
Resting == {"idle", "status"}
HeldFact(o) == held[o] # NoSession =>
    /\ o \in ProvisionOps /\ sess[o] = held[o] /\ job[o] \notin Unobserved
    /\ mode = "up" /\ job[o] \in Resting => phase[o] \in PostPromotion \cup {"owned_observed"}

(* What was invoked is behind the record: no record that can still lead to *)
(* a mutation has had it.                                                  *)
BeforeCreate == {"none", "prepared"}
BeforePromote == BeforeCreate \cup {"owned_create_dispatching", "owned_observed"}
BeforeKill == {"none", "ending"}
EffectFact(o) ==
    /\ Stage(o) \in BeforeCreate \/ job[o] = "create" => effects[o]["create"] = 0
    /\ Stage(o) \in BeforePromote \/ job[o] = "promote" => effects[o]["promote"] = 0
    /\ Stage(o) \in BeforeKill => effects[o]["kill"] = 0
    /\ job[o] = "killing" => effects[o]["kill"] = 1

(* A request on its way was invoked; a promotion can still land only while *)
(* its outcome is open.                                                    *)
RequestFact(o) ==
    /\ \A m \in Mutations : req[o] = m => effects[o][m] = 1
    /\ req[o] = "promote" => Recorded(o) /\ Stage(o) = "promotion_dispatching"

(* An end that has evidence of its session's end, or has recorded it: the  *)
(* session is not resident.                                                *)
Evident(o) ==
    \/ Stage(o) \in {"kill_acknowledged", "completed"}
    \/ job[o] \in {"kill_gone", "absent", "evidence"}
    \/ job[o] = "killing" /\ req[o] = "done"
GoneFact(o) == Evident(o) => up[sess[o]] # "resident"

(* A compacted end leaves its session behind the fence.                    *)
RetiredFact(o) == phase[o] = "retired" => sess[o] \in Sessions /\ bind[sess[o]].st = "retired"

TrackedFact(s) ==
    /\ up[s] = "resident" => \E o \in ProvisionOps : Recorded(o) /\ sess[o] = s
    /\ bind[s].st = "retired" => up[s] # "resident"

(* Jobs run and candidates are held only once the Store serves, and the    *)
(* write that commits a provision has its job waiting for it.              *)
ServeFact ==
    /\ mode \notin {"up", "faulted"} => \A o \in Ops : At(o, "idle") /\ held[o] = NoSession
    /\ call.at = "committed" => job[call.op] = "committing"

LifecycleInvariant ==
    /\ CoordTypeOK
    /\ \A o \in Ops : JobFact(o) /\ HeldFact(o) /\ EffectFact(o) /\ RequestFact(o)
    /\ \A o \in EndOps : GoneFact(o) /\ RetiredFact(o)
    /\ \A s \in Sessions : TrackedFact(s)
    /\ ServeFact
=============================================================================
