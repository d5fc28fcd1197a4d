-------------------------- MODULE SessionAuthority --------------------------
(***************************************************************************)
(* What the lifecycle Store promises about command authority, without      *)
(* records, leases, crashes or recovery: a thread has at most one session  *)
(* that may be commanded, a session is granted to a thread at most once,   *)
(* its authority is revoked before its end is settled, and an ended        *)
(* session never comes back.                                               *)
(***************************************************************************)
CONSTANTS Threads, Sessions

VARIABLES
    stage,  \* what has become of each session
    held    \* the sessions each thread may command

authorityVars == <<stage, held>>

Init ==
    /\ stage = [s \in Sessions |-> "fresh"]
    /\ held = [t \in Threads |-> {}]

Grant(t, s) ==
    /\ stage[s] = "fresh" /\ held[t] = {}
    /\ stage' = [stage EXCEPT ![s] = "granted"]
    /\ held' = [held EXCEPT ![t] = {s}]

Revoke(t, s) ==
    /\ s \in held[t]
    /\ stage' = [stage EXCEPT ![s] = "revoked"]
    /\ held' = [held EXCEPT ![t] = {}]

End(s) ==
    /\ stage[s] = "revoked"
    /\ stage' = [stage EXCEPT ![s] = "ended"]
    /\ UNCHANGED held

Next ==
    \/ \E t \in Threads, s \in Sessions : Grant(t, s) \/ Revoke(t, s)
    \/ \E s \in Sessions : End(s)

Spec == Init /\ [][Next]_authorityVars
=============================================================================
