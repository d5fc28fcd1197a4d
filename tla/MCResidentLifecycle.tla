-------------------------- MODULE MCResidentLifecycle --------------------------
(* Instances of the lifecycle: operations p1, p2, e1, e2 are of thread t1, p3   *)
(* and e3, when present, of t2.                                             *)
EXTENDS ResidentLifecycleInvariant
CONSTANTS t1, t2, p1, p2, p3, e1, e2, e3, s1, s2, s3

MCThreadOf == [o \in Ops |-> IF o \in {p3, e3} THEN t2 ELSE t1]
=============================================================================
