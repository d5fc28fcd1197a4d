------------------------ MODULE LifecycleStoreProofs -------------------------
(***************************************************************************)
(* The invariant of the lifecycle Store and the safety properties that     *)
(* follow from it, for any number of threads, operations and sessions, any *)
(* registry limit, and workspaces that may go missing.                     *)
(*                                                                         *)
(* The argument: each of the twenty or so kinds of durable write preserves *)
(* the durable part, under the condition the Store establishes before it;  *)
(* then types (TypeStep); then every action is one of those writes, so the *)
(* durable part survives it (Durable...Step), and it leaves the method     *)
(* that holds the mutex with what its next write needs (Calls...).         *)
(* Then the same for RecoveryInvariant, one lemma per conjunct: what a     *)
(* restart finds, and that it can serve it.  Last, the refinement.         *)
(***************************************************************************)
EXTENDS LifecycleStoreInvariant, TLAPS

USE OpsAssumption
USE DEF Ops, TypeOK, Phases, ProvisionPhases, EndPhases, PostPromotion, BindStates
USE DEF Stage, EarlyStages, CandidateStages, BoundStages, Recorded, Nonterminal

-----------------------------------------------------------------------------
(* What each kind of durable write does to the invariant.  The actions of  *)
(* LifecycleStore, and the recovery of its restart, make them in many      *)
(* places.                                                                 *)

(* A step that writes no durable state.                                    *)
LEMMA Stutters ==
  ASSUME DurableInvariant, UNCHANGED durable
  PROVE DurableInvariant'
  BY SMTT(60) DEF DurableInvariant, durable, RecordShape, ProvisionShape, EndShape, SessionShared,
        BindingFacts, BindingFact, RecordFacts, ProvisionFact, EndFact, OneOperation,
        OneSession, OwnSession, Commanded, EndedIsQuiet, Stage, Recorded, Nonterminal,
        EndProjected, Shows, Revoked

(* A nonterminal record is quarantined, by a lost outcome or by recovery:  *)
(* its stage, and so everything the invariant says of it, is unchanged.    *)
LEMMA Quarantines ==
  ASSUME TypeOK, DurableInvariant, NEW o \in Ops,
         Nonterminal(o), phase[o] # "quarantined",
         phase' = [phase EXCEPT ![o] = "quarantined"],
         from' = [from EXCEPT ![o] = phase[o]],
         UNCHANGED <<sess, bind, proj>>
  PROVE DurableInvariant'
<1> USE DEF TypeOK, Phases, ProvisionPhases, EndPhases, Recorded, Nonterminal
<1>1. \A p \in Ops : /\ Stage(p)' = Stage(p)
                     /\ Recorded(p)' = Recorded(p)
                     /\ Nonterminal(p)' = Nonterminal(p)
                     /\ phase'[p] = "committed" <=> phase[p] = "committed"
                     /\ phase'[p] = "completed" <=> phase[p] = "completed"
  BY DEF Stage
<1>2. RecordShape'
  BY <1>1 DEF DurableInvariant, RecordShape, ProvisionShape, EndShape, EarlyStages,
        CandidateStages, BoundStages
<1>3. SessionShared'
  BY <1>1 DEF DurableInvariant, SessionShared
<1>4. BindingFacts'
  BY <1>1 DEF DurableInvariant, BindingFacts, BindingFact
<1>5. RecordFacts'
  BY <1>1, SMTT(60) DEF DurableInvariant, RecordFacts, ProvisionFact, EndFact, Revoked, EndProjected, Shows
<1>6. OneOperation' /\ OneSession' /\ OwnSession' /\ EndedIsQuiet'
  BY <1>1 DEF DurableInvariant, OneOperation, OneSession, OwnSession, EndedIsQuiet, Commanded
<1> QED BY <1>2, <1>3, <1>4, <1>5, <1>6 DEF DurableInvariant

(* A provision is registered on a thread with no operation in progress, no *)
(* authority and no completed end (prepareResidentProvision).              *)
LEMMA Prepares ==
  ASSUME TypeOK, DurableInvariant, NEW o \in ProvisionOps,
         phase[o] = "none",
         \A p \in Ops : ThreadOf[p] = ThreadOf[o] => ~Nonterminal(p),
         \A s \in Sessions : ~Commanded(s, ThreadOf[o]),
         \A e \in EndOps : ThreadOf[e] = ThreadOf[o] => phase[e] # "completed",
         phase' = [phase EXCEPT ![o] = "prepared"],
         UNCHANGED <<from, sess, bind, proj>>
  PROVE DurableInvariant'
<1> USE DEF TypeOK, Phases, ProvisionPhases, EndPhases, Recorded, Nonterminal, Stage
<1>2. RecordShape'
  BY DEF DurableInvariant, RecordShape, ProvisionShape, EndShape, EarlyStages,
        CandidateStages, BoundStages
<1>3. SessionShared'
  BY DEF DurableInvariant, RecordShape, ProvisionShape, EarlyStages, SessionShared
<1>4. BindingFacts'
  BY DEF DurableInvariant, RecordShape, ProvisionShape, EarlyStages, BindingFacts, BindingFact
<1>5. RecordFacts'
  BY DEF DurableInvariant, RecordFacts, ProvisionFact, EndFact, Revoked, EndProjected, Shows,
        CandidateStages
<1>6. OneOperation' /\ OneSession' 
  BY DEF DurableInvariant, OneOperation, OneSession, Commanded
<1>7.  OwnSession' 
  BY DEF DurableInvariant, OwnSession, Commanded
<1>8. EndedIsQuiet'
  BY DEF DurableInvariant, OwnSession, EndedIsQuiet, Commanded
<1> QED BY <1>2, <1>3, <1>4, <1>5, <1>6, <1>7, <1>8 DEF DurableInvariant

(* An end is registered against the one active session of a thread with no *)
(* operation in progress (prepareResidentEnd).                             *)
LEMMA PreparesEnd ==
  ASSUME TypeOK, DurableInvariant,
         NEW o \in EndOps,
         NEW s \in Sessions,
         phase[o] = "none",
         \A p \in Ops : ThreadOf[p] = ThreadOf[o] => ~Nonterminal(p),
         bind[s].st = "active",
         ThreadOf[bind[s].op] = ThreadOf[o],
         phase' = [phase EXCEPT ![o] = "ending"],
         sess' = [sess EXCEPT ![o] = s],
         UNCHANGED <<from, bind, proj>>
  PROVE DurableInvariant'
<1>1. RecordShape'
  BY DEF DurableInvariant, RecordShape, ProvisionShape, EndShape
<1>2. SessionShared'
  <2>1. \A q \in Ops : Recorded(q) /\ sess[q] = s => q = bind[s].op
    <3> DEFINE c == bind[s].op
    <3>1. c \in ProvisionOps /\ Recorded(c) /\ sess[c] = s /\ phase[c] = "committed"
      BY DEF DurableInvariant, RecordShape, ProvisionShape, BindingFacts, BindingFact
    <3>2. ASSUME NEW q \in EndOps, Recorded(q), sess[q] = s PROVE FALSE
      <4>1. ThreadOf[q] = ThreadOf[o]
        BY <3>1, <3>2 DEF DurableInvariant, SessionShared
      <4>2. phase[q] = "completed"
        BY <3>2, <4>1 DEF DurableInvariant, RecordShape, EndShape
      <4>3. bind[sess[q]] = [st |-> "completed", op |-> q]
        BY <4>2 DEF DurableInvariant, RecordFacts, EndFact
      <4> QED BY <3>2, <4>3
    <3> QED BY <3>1, <3>2 DEF DurableInvariant, SessionShared
  <2>2. ThreadOf[bind[s].op] = ThreadOf[o] /\ phase[bind[s].op] = "committed"
        /\ bind[s].op \in ProvisionOps
    BY DEF DurableInvariant, RecordShape, ProvisionShape, BindingFacts, BindingFact
  <2> QED BY <2>1, <2>2 DEF DurableInvariant, SessionShared
<1>3. BindingFacts'
  BY DEF DurableInvariant, RecordShape, ProvisionShape, EndShape, BindingFacts, BindingFact
<1>4. RecordFacts'
  BY DEF DurableInvariant, RecordShape, ProvisionShape, EndShape, SessionShared, RecordFacts,
        ProvisionFact, EndFact, Revoked, EndProjected, Shows
<1>5. OneOperation'
  BY DEF DurableInvariant, OneOperation
<1>6. OneSession'
  BY DEF DurableInvariant, OneSession, Commanded
<1>7. OwnSession'
  <2>1. \A r \in Sessions : Commanded(r, ThreadOf[o]) => r = s
    BY DEF DurableInvariant, OneSession, Commanded
  <2> QED BY <2>1 DEF DurableInvariant, OwnSession, OneOperation, Commanded
<1>8. EndedIsQuiet'
  BY DEF DurableInvariant, EndedIsQuiet, Commanded
<1> QED BY <1>1, <1>2, <1>3, <1>4, <1>5, <1>6, <1>7, <1>8 DEF DurableInvariant

(* The create is marked as dispatched.                                     *)
LEMMA Creates ==
  ASSUME TypeOK, DurableInvariant,
         NEW o \in ProvisionOps,
         phase[o] = "prepared",
         phase' = [phase EXCEPT ![o] = "owned_create_dispatching"],
         UNCHANGED <<from, sess, bind, proj>>
  PROVE DurableInvariant'
<1>1. RecordShape'
  BY DEF DurableInvariant, RecordShape, ProvisionShape, EndShape
<1>2. SessionShared'
  BY DEF DurableInvariant, RecordShape, ProvisionShape, EndShape, SessionShared
<1>3. BindingFacts'
  BY DEF DurableInvariant, RecordShape, ProvisionShape, EndShape, BindingFacts, BindingFact
<1>4. RecordFacts'
  BY DEF DurableInvariant, RecordShape, ProvisionShape, EndShape, SessionShared, RecordFacts,
        ProvisionFact, EndFact, Revoked, EndProjected, Shows
<1>5. OneOperation'
  BY DEF DurableInvariant, OneOperation
<1>6. OneSession'
  BY DEF DurableInvariant, OneSession, Commanded
<1>7. OwnSession'
  BY DEF DurableInvariant, OwnSession, OneOperation, Commanded
<1>8. EndedIsQuiet'
  BY DEF DurableInvariant, EndedIsQuiet, Commanded
<1> QED BY <1>1, <1>2, <1>3, <1>4, <1>5, <1>6, <1>7, <1>8 DEF DurableInvariant

(* A candidate session that no other record or binding knows is recorded.  *)
LEMMA Observes ==
  ASSUME TypeOK, DurableInvariant,
         NEW o \in ProvisionOps,
         NEW s \in Sessions,
         phase[o] = "owned_create_dispatching",
         bind[s].st = "none",
         \A p \in Ops \ {o} : Recorded(p) => sess[p] # s,
         \A r \in Sessions : ~Commanded(r, ThreadOf[o]),
         phase' = [phase EXCEPT ![o] = "owned_observed"],
         sess' = [sess EXCEPT ![o] = s],
         UNCHANGED <<from, bind, proj>>
  PROVE DurableInvariant'
<1>1. RecordShape'
  BY DEF DurableInvariant, RecordShape, ProvisionShape, EndShape
<1>2. SessionShared'
  BY DEF DurableInvariant, RecordShape, ProvisionShape, EndShape, SessionShared
<1>3. BindingFacts'
  BY DEF DurableInvariant, RecordShape, ProvisionShape, EndShape, BindingFacts, BindingFact
<1>4. RecordFacts'
  BY DEF DurableInvariant, RecordShape, ProvisionShape, EndShape, SessionShared, RecordFacts,
        ProvisionFact, EndFact, Revoked, EndProjected, Shows
<1>5. OneOperation'
  BY DEF DurableInvariant, OneOperation
<1>6. OneSession'
  BY DEF DurableInvariant, OneSession, Commanded
<1>7. OwnSession'
  BY DEF DurableInvariant, OwnSession, OneOperation, Commanded
<1>8. EndedIsQuiet'
  BY DEF DurableInvariant, EndedIsQuiet, Commanded
<1> QED BY <1>1, <1>2, <1>3, <1>4, <1>5, <1>6, <1>7, <1>8 DEF DurableInvariant

(* A provision is completed without effect: its create was never sent.     *)
LEMMA Cancels ==
  ASSUME TypeOK, DurableInvariant,
         NEW o \in ProvisionOps,
         phase[o] = "owned_create_dispatching",
         phase' = [phase EXCEPT ![o] = "completed"],
         UNCHANGED <<from, sess, bind, proj>>
  PROVE DurableInvariant'
<1>1. RecordShape'
  BY DEF DurableInvariant, RecordShape, ProvisionShape, EndShape
<1>2. SessionShared'
  BY DEF DurableInvariant, RecordShape, ProvisionShape, EndShape, SessionShared
<1>3. BindingFacts'
  BY DEF DurableInvariant, RecordShape, ProvisionShape, EndShape, BindingFacts, BindingFact
<1>4. RecordFacts'
  BY DEF DurableInvariant, RecordShape, ProvisionShape, EndShape, SessionShared, RecordFacts,
        ProvisionFact, EndFact, Revoked, EndProjected, Shows
<1>5. OneOperation'
  BY DEF DurableInvariant, OneOperation
<1>6. OneSession'
  BY DEF DurableInvariant, OneSession, Commanded
<1>7. OwnSession'
  BY DEF DurableInvariant, OwnSession, OneOperation, Commanded
<1>8. EndedIsQuiet'
  BY DEF DurableInvariant, EndedIsQuiet, Commanded
<1> QED BY <1>1, <1>2, <1>3, <1>4, <1>5, <1>6, <1>7, <1>8 DEF DurableInvariant

(* The promotion is marked as dispatched, or taken back as never sent.     *)
LEMMA Promotes ==
  ASSUME TypeOK, DurableInvariant,
         NEW o \in ProvisionOps,
         NEW p \in CandidateStages,
         phase[o] \in CandidateStages,
         phase' = [phase EXCEPT ![o] = p],
         UNCHANGED <<from, sess, bind, proj>>
  PROVE DurableInvariant'
<1>1. RecordShape'
  BY DEF DurableInvariant, RecordShape, ProvisionShape, EndShape
<1>2. SessionShared'
  BY DEF DurableInvariant, RecordShape, ProvisionShape, EndShape, SessionShared
<1>3. BindingFacts'
  BY DEF DurableInvariant, RecordShape, ProvisionShape, EndShape, BindingFacts, BindingFact
<1>4. RecordFacts'
  BY SMTT(60) DEF DurableInvariant, RecordShape, ProvisionShape, EndShape, SessionShared, RecordFacts,
        ProvisionFact, EndFact, Revoked, EndProjected, Shows
<1>5. OneOperation'
  BY DEF DurableInvariant, OneOperation
<1>6. OneSession'
  BY DEF DurableInvariant, OneSession, Commanded
<1>7. OwnSession'
  BY DEF DurableInvariant, OwnSession, OneOperation, Commanded
<1>8. EndedIsQuiet'
  BY DEF DurableInvariant, EndedIsQuiet, Commanded
<1> QED BY <1>1, <1>2, <1>3, <1>4, <1>5, <1>6, <1>7, <1>8 DEF DurableInvariant

(* The promotion is observed.                                              *)
LEMMA Promotion ==
  ASSUME TypeOK, DurableInvariant,
         NEW o \in ProvisionOps,
         phase[o] = "promotion_dispatching",
         phase' = [phase EXCEPT ![o] = "promoted_observed"],
         UNCHANGED <<from, sess, bind, proj>>
  PROVE DurableInvariant'
<1>1. RecordShape'
  BY DEF DurableInvariant, RecordShape, ProvisionShape, EndShape
<1>2. SessionShared'
  BY DEF DurableInvariant, RecordShape, ProvisionShape, EndShape, SessionShared
<1>3. BindingFacts'
  BY DEF DurableInvariant, RecordShape, ProvisionShape, EndShape, BindingFacts, BindingFact
<1>4. RecordFacts'
  BY DEF DurableInvariant, RecordShape, ProvisionShape, EndShape, SessionShared, RecordFacts,
        ProvisionFact, EndFact, Revoked, EndProjected, Shows
<1>5. OneOperation'
  BY DEF DurableInvariant, OneOperation
<1>6. OneSession'
  BY DEF DurableInvariant, OneSession, Commanded
<1>7. OwnSession'
  BY DEF DurableInvariant, OwnSession, OneOperation, Commanded
<1>8. EndedIsQuiet'
  BY DEF DurableInvariant, EndedIsQuiet, Commanded
<1> QED BY <1>1, <1>2, <1>3, <1>4, <1>5, <1>6, <1>7, <1>8 DEF DurableInvariant

(* A promoted session gets its activating binding on a thread nobody       *)
(* commands.                                                               *)
LEMMA Activates ==
  ASSUME TypeOK, DurableInvariant,
         NEW o \in ProvisionOps,
         Stage(o) \in PostPromotion,
         bind[sess[o]].st = "none",
         \A r \in Sessions : ~Commanded(r, ThreadOf[o]),
         bind' = [bind EXCEPT ![sess[o]] = [st |-> "activating", op |-> o]],
         UNCHANGED <<phase, from, sess, proj>>
  PROVE DurableInvariant'
<1>1. RecordShape'
  BY DEF DurableInvariant, RecordShape, ProvisionShape, EndShape
<1>2. SessionShared'
  BY DEF DurableInvariant, RecordShape, ProvisionShape, EndShape, SessionShared
<1>3. BindingFacts'
  BY DEF DurableInvariant, RecordShape, ProvisionShape, EndShape, BindingFacts, BindingFact
<1>4. RecordFacts'
  <2>1. \A q \in Ops : Recorded(q) /\ sess[q] = sess[o] => q = o
    BY DEF DurableInvariant, RecordShape, ProvisionShape, SessionShared
  <2>2. \A q \in ProvisionOps : ProvisionFact(q)'
    BY <2>1 DEF DurableInvariant, RecordShape, ProvisionShape, RecordFacts, ProvisionFact
  <2>3. \A q \in EndOps : EndFact(q)'
    BY <2>1 DEF DurableInvariant, RecordShape, EndShape, RecordFacts, EndFact, Revoked,
          EndProjected, Shows
  <2> QED BY <2>2, <2>3 DEF RecordFacts
<1>5. OneOperation'
  BY DEF DurableInvariant, OneOperation
<1>6. OneSession'
  BY DEF DurableInvariant, OneSession, Commanded
<1>7. OwnSession'
  BY DEF DurableInvariant, OwnSession, OneOperation, Commanded
<1>8. EndedIsQuiet'
  BY DEF DurableInvariant, EndedIsQuiet, Commanded
<1> QED BY <1>1, <1>2, <1>3, <1>4, <1>5, <1>6, <1>7, <1>8 DEF DurableInvariant

(* The promoted session's projection is published on its thread.           *)
LEMMA Publishes ==
  ASSUME TypeOK, DurableInvariant,
         NEW o \in ProvisionOps,
         phase[o] \in PostPromotion,
         proj' = [proj EXCEPT ![ThreadOf[o]] = [st |-> "resident", sess |-> sess[o]]],
         UNCHANGED <<phase, from, sess, bind>>
  PROVE DurableInvariant'
<1>1. RecordShape'
  BY DEF DurableInvariant, RecordShape, ProvisionShape, EndShape
<1>2. SessionShared'
  BY DEF DurableInvariant, RecordShape, ProvisionShape, EndShape, SessionShared
<1>3. BindingFacts'
  BY DEF DurableInvariant, RecordShape, ProvisionShape, EndShape, BindingFacts, BindingFact
<1>4. RecordFacts'
  <2>1. \A q \in ProvisionOps : ProvisionFact(q)'
    BY DEF DurableInvariant, RecordFacts, ProvisionFact
  <2>2. \A q \in EndOps : phase[q] = "completed" => ThreadOf[q] # ThreadOf[o]
    BY DEF DurableInvariant, EndedIsQuiet
  <2>3. \A q \in EndOps : EndFact(q)'
    BY <2>2 DEF DurableInvariant, RecordFacts, EndFact, Revoked, EndProjected, Shows
  <2> QED BY <2>1, <2>3 DEF RecordFacts
<1>5. OneOperation'
  BY DEF DurableInvariant, OneOperation
<1>6. OneSession'
  BY DEF DurableInvariant, OneSession, Commanded
<1>7. OwnSession'
  BY DEF DurableInvariant, OwnSession, OneOperation, Commanded
<1>8. EndedIsQuiet'
  BY DEF DurableInvariant, EndedIsQuiet, Commanded
<1> QED BY <1>1, <1>2, <1>3, <1>4, <1>5, <1>6, <1>7, <1>8 DEF DurableInvariant

(* The publication is recorded.                                            *)
LEMMA Projects ==
  ASSUME TypeOK, DurableInvariant,
         NEW o \in ProvisionOps,
         phase[o] \in PostPromotion,
         phase' = [phase EXCEPT ![o] = "projection_committed"],
         UNCHANGED <<from, sess, bind, proj>>
  PROVE DurableInvariant'
<1>1. RecordShape'
  BY DEF DurableInvariant, RecordShape, ProvisionShape, EndShape
<1>2. SessionShared'
  BY DEF DurableInvariant, RecordShape, ProvisionShape, EndShape, SessionShared
<1>3. BindingFacts'
  BY DEF DurableInvariant, RecordShape, ProvisionShape, EndShape, BindingFacts, BindingFact
<1>4. RecordFacts'
  BY DEF DurableInvariant, RecordShape, ProvisionShape, EndShape, SessionShared, RecordFacts,
        ProvisionFact, EndFact, Revoked, EndProjected, Shows
<1>5. OneOperation'
  BY DEF DurableInvariant, OneOperation
<1>6. OneSession'
  BY DEF DurableInvariant, OneSession, Commanded
<1>7. OwnSession'
  BY DEF DurableInvariant, OwnSession, OneOperation, Commanded
<1>8. EndedIsQuiet'
  BY DEF DurableInvariant, EndedIsQuiet, Commanded
<1> QED BY <1>1, <1>2, <1>3, <1>4, <1>5, <1>6, <1>7, <1>8 DEF DurableInvariant

(* The binding becomes active: the session may be commanded.               *)
LEMMA Serves ==
  ASSUME TypeOK, DurableInvariant,
         NEW o \in ProvisionOps,
         phase[o] = "projection_committed",
         bind[sess[o]].st = "active" \/ bind[sess[o]] = [st |-> "activating", op |-> o],
         bind' = [bind EXCEPT ![sess[o]] = [st |-> "active", op |-> o]],
         UNCHANGED <<phase, from, sess, proj>>
  PROVE DurableInvariant'
<1>1. RecordShape'
  BY DEF DurableInvariant, RecordShape, ProvisionShape, EndShape
<1>2. SessionShared'
  BY DEF DurableInvariant, RecordShape, ProvisionShape, EndShape, SessionShared
<1>3. BindingFacts'
  BY DEF DurableInvariant, RecordShape, ProvisionShape, EndShape, BindingFacts, BindingFact
<1>4. RecordFacts'
  BY SMTT(60) DEF DurableInvariant, RecordShape, ProvisionShape, EndShape, SessionShared, RecordFacts,
        ProvisionFact, EndFact, Revoked, EndProjected, Shows
<1>5. OneOperation'
  BY DEF DurableInvariant, OneOperation
<1>6. OneSession'
  <2>1. \A t \in Threads : Commanded(sess[o], t)' => ThreadOf[o] = t
    BY DEF DurableInvariant, RecordShape, ProvisionShape, Commanded
  <2>2. \A r \in Sessions : Commanded(r, ThreadOf[o]) => r = sess[o]
    BY DEF DurableInvariant, OwnSession
  <2>3. \A r \in Sessions : r # sess[o] => bind'[r] = bind[r]
    OBVIOUS
  <2> QED BY <2>1, <2>2, <2>3 DEF DurableInvariant, OneSession, Commanded
<1>7. OwnSession'
  BY DEF DurableInvariant, OwnSession, OneOperation, Commanded
<1>8. EndedIsQuiet'
  BY DEF DurableInvariant, EndedIsQuiet, Commanded
<1> QED BY <1>1, <1>2, <1>3, <1>4, <1>5, <1>6, <1>7, <1>8 DEF DurableInvariant

(* The provision is committed under its active binding.                    *)
LEMMA Commits ==
  ASSUME TypeOK, DurableInvariant,
         NEW o \in ProvisionOps,
         phase[o] = "projection_committed",
         bind[sess[o]].st = "active",
         phase' = [phase EXCEPT ![o] = "committed"],
         UNCHANGED <<from, sess, bind, proj>>
  PROVE DurableInvariant'
<1>1. RecordShape'
  BY DEF DurableInvariant, RecordShape, ProvisionShape, EndShape
<1>2. SessionShared'
  BY DEF DurableInvariant, RecordShape, ProvisionShape, EndShape, SessionShared
<1>3. BindingFacts'
  BY DEF DurableInvariant, RecordShape, ProvisionShape, EndShape, BindingFacts, BindingFact
<1>4. RecordFacts'
  BY DEF DurableInvariant, RecordShape, ProvisionShape, EndShape, SessionShared, RecordFacts,
        ProvisionFact, EndFact, Revoked, EndProjected, Shows
<1>5. OneOperation'
  BY DEF DurableInvariant, OneOperation
<1>6. OneSession'
  BY DEF DurableInvariant, OneSession, Commanded
<1>7. OwnSession'
  BY DEF DurableInvariant, OwnSession, OneOperation, Commanded
<1>8. EndedIsQuiet'
  BY DEF DurableInvariant, EndedIsQuiet, Commanded
<1> QED BY <1>1, <1>2, <1>3, <1>4, <1>5, <1>6, <1>7, <1>8 DEF DurableInvariant

(* A recorded end detaches the active binding of its session.              *)
LEMMA Revokes ==
  ASSUME TypeOK, DurableInvariant,
         NEW o \in EndOps,
         Recorded(o),
         bind[sess[o]].st = "active",
         bind' = [bind EXCEPT ![sess[o]] = [st |-> "detached", op |-> o]],
         UNCHANGED <<phase, from, sess, proj>>
  PROVE DurableInvariant'
<1>1. RecordShape'
  BY DEF DurableInvariant, RecordShape, ProvisionShape, EndShape
<1>2. SessionShared'
  BY DEF DurableInvariant, RecordShape, ProvisionShape, EndShape, SessionShared
<1>3. BindingFacts'
  <2>1. Stage(o) \in EndPhases \/ phase[o] = "completed"
    BY DEF DurableInvariant, RecordShape, EndShape
  <2>2. EndFact(o)
    BY DEF DurableInvariant, RecordFacts
  <2>3. Stage(o) = "ending"
    BY <2>1, <2>2 DEF EndFact, Revoked
  <2> QED BY <2>3 DEF DurableInvariant, RecordShape, EndShape, BindingFacts, BindingFact
<1>4. RecordFacts'
  <2>1. Stage(o) \in EndPhases \/ phase[o] = "completed"
    BY DEF DurableInvariant, RecordShape, EndShape
  <2>2. EndFact(o)
    BY DEF DurableInvariant, RecordFacts
  <2>3. Stage(o) = "ending"
    BY <2>1, <2>2 DEF EndFact, Revoked
  <2>4. \A q \in Ops : Recorded(q) /\ sess[q] = sess[o] =>
          q = o \/ (q \in ProvisionOps /\ phase[q] = "committed")
    BY DEF DurableInvariant, RecordShape, EndShape, SessionShared
  <2>5. \A q \in ProvisionOps : ProvisionFact(q)'
    BY <2>4, ZenonT(60) DEF DurableInvariant, RecordShape, ProvisionShape, RecordFacts, ProvisionFact
  <2>6. \A q \in EndOps : EndFact(q)'
    BY <2>3, <2>4 DEF DurableInvariant, RecordShape, EndShape, RecordFacts, EndFact, Revoked,
          EndProjected, Shows
  <2> QED BY <2>5, <2>6 DEF RecordFacts
<1>5. OneOperation'
  BY DEF DurableInvariant, OneOperation
<1>6. OneSession'
  BY DEF DurableInvariant, OneSession, Commanded
<1>7. OwnSession'
  BY DEF DurableInvariant, OwnSession, OneOperation, Commanded
<1>8. EndedIsQuiet'
  BY DEF DurableInvariant, EndedIsQuiet, Commanded
<1> QED BY <1>1, <1>2, <1>3, <1>4, <1>5, <1>6, <1>7, <1>8 DEF DurableInvariant

(* A kill of a revoked session is marked as dispatched, or taken back.     *)
LEMMA Kills ==
  ASSUME TypeOK, DurableInvariant,
         NEW o \in EndOps,
         NEW p \in {"ending", "kill_dispatching"},
         phase[o] \in {"ending", "kill_dispatching"},
         Revoked(o),
         phase' = [phase EXCEPT ![o] = p],
         UNCHANGED <<from, sess, bind, proj>>
  PROVE DurableInvariant'
<1>1. RecordShape'
  BY DEF DurableInvariant, RecordShape, ProvisionShape, EndShape
<1>2. SessionShared'
  BY DEF DurableInvariant, RecordShape, ProvisionShape, EndShape, SessionShared
<1>3. BindingFacts'
  BY DEF DurableInvariant, RecordShape, ProvisionShape, EndShape, BindingFacts, BindingFact
<1>4. RecordFacts'
  BY SMTT(60) DEF DurableInvariant, RecordShape, ProvisionShape, EndShape, SessionShared, RecordFacts,
        ProvisionFact, EndFact, Revoked, EndProjected, Shows
<1>5. OneOperation'
  BY DEF DurableInvariant, OneOperation
<1>6. OneSession'
  BY DEF DurableInvariant, OneSession, Commanded
<1>7. OwnSession'
  BY DEF DurableInvariant, OwnSession, OneOperation, Commanded
<1>8. EndedIsQuiet'
  BY DEF DurableInvariant, EndedIsQuiet, Commanded
<1> QED BY <1>1, <1>2, <1>3, <1>4, <1>5, <1>6, <1>7, <1>8 DEF DurableInvariant

(* A kill is acknowledged, or its effect proven after a quarantine.        *)
LEMMA Acknowledges ==
  ASSUME TypeOK, DurableInvariant,
         NEW o \in EndOps,
         Stage(o) = "kill_dispatching",
         phase' = [phase EXCEPT ![o] = "kill_acknowledged"],
         from' \in [Ops -> Phases],
         \A p \in Ops \ {o} : from'[p] = from[p],
         UNCHANGED <<sess, bind, proj>>
  PROVE DurableInvariant'
<1>1. RecordShape'
  BY DEF DurableInvariant, RecordShape, ProvisionShape, EndShape
<1>2. SessionShared'
  BY DEF DurableInvariant, RecordShape, ProvisionShape, EndShape, SessionShared
<1>3. BindingFacts'
  BY DEF DurableInvariant, RecordShape, ProvisionShape, EndShape, BindingFacts, BindingFact
<1>4. RecordFacts'
  BY SMTT(60) DEF DurableInvariant, RecordShape, ProvisionShape, EndShape, SessionShared, RecordFacts,
        ProvisionFact, EndFact, Revoked, EndProjected, Shows
<1>5. OneOperation'
  BY DEF DurableInvariant, OneOperation
<1>6. OneSession'
  BY DEF DurableInvariant, OneSession, Commanded
<1>7. OwnSession'
  BY DEF DurableInvariant, OwnSession, OneOperation, Commanded
<1>8. EndedIsQuiet'
  BY DEF DurableInvariant, EndedIsQuiet, Commanded
<1> QED BY <1>1, <1>2, <1>3, <1>4, <1>5, <1>6, <1>7, <1>8 DEF DurableInvariant

(* The ended projection is published.                                      *)
LEMMA ProjectsEnd ==
  ASSUME TypeOK, DurableInvariant,
         NEW o \in EndOps,
         phase[o] \in {"kill_acknowledged", "completed"},
         proj' = [proj EXCEPT ![ThreadOf[o]] = [st |-> "ended", sess |-> sess[o]]],
         UNCHANGED <<phase, from, sess, bind>>
  PROVE DurableInvariant'
<1>1. RecordShape'
  BY DEF DurableInvariant, RecordShape, ProvisionShape, EndShape
<1>2. SessionShared'
  BY DEF DurableInvariant, RecordShape, ProvisionShape, EndShape, SessionShared
<1>3. BindingFacts'
  BY DEF DurableInvariant, RecordShape, ProvisionShape, EndShape, BindingFacts, BindingFact
<1>4. RecordFacts'
  <2>1. \A q \in ProvisionOps : ProvisionFact(q)'
    BY DEF DurableInvariant, RecordFacts, ProvisionFact
  <2>2. \A q \in EndOps : phase[q] = "completed" /\ ThreadOf[q] = ThreadOf[o] => sess[q] = sess[o]
    <3>1. CASE phase[o] = "completed"
      <4>1. ASSUME NEW q \in EndOps, phase[q] = "completed" PROVE proj[ThreadOf[q]].sess = sess[q]
        <5>1. EndProjected(q)
          BY <4>1 DEF DurableInvariant, RecordFacts, EndFact
        <5> QED BY <5>1 DEF EndProjected, Shows
      <4> QED BY <3>1, <4>1
    <3>2. CASE phase[o] = "kill_acknowledged"
      BY <3>2 DEF DurableInvariant, EndedIsQuiet
    <3> QED BY <3>1, <3>2
  <2>3. \A q \in EndOps : EndFact(q)'
    BY <2>2 DEF DurableInvariant, RecordFacts, EndFact, Revoked, EndProjected, Shows
  <2> QED BY <2>1, <2>3 DEF RecordFacts
<1>5. OneOperation'
  BY DEF DurableInvariant, OneOperation
<1>6. OneSession'
  BY DEF DurableInvariant, OneSession, Commanded
<1>7. OwnSession'
  BY DEF DurableInvariant, OwnSession, OneOperation, Commanded
<1>8. EndedIsQuiet'
  BY DEF DurableInvariant, EndedIsQuiet, Commanded
<1> QED BY <1>1, <1>2, <1>3, <1>4, <1>5, <1>6, <1>7, <1>8 DEF DurableInvariant

(* The detached binding is completed.                                      *)
LEMMA Settles ==
  ASSUME TypeOK, DurableInvariant,
         NEW o \in EndOps,
         phase[o] = "kill_acknowledged",
         Revoked(o),
         bind' = [bind EXCEPT ![sess[o]] = [st |-> "completed", op |-> o]],
         UNCHANGED <<phase, from, sess, proj>>
  PROVE DurableInvariant'
<1>1. RecordShape'
  BY DEF DurableInvariant, RecordShape, ProvisionShape, EndShape
<1>2. SessionShared'
  BY DEF DurableInvariant, RecordShape, ProvisionShape, EndShape, SessionShared
<1>3. BindingFacts'
  BY DEF DurableInvariant, RecordShape, ProvisionShape, EndShape, BindingFacts, BindingFact
<1>4. RecordFacts'
  BY SMTT(60) DEF DurableInvariant, RecordShape, ProvisionShape, EndShape, SessionShared, RecordFacts,
        ProvisionFact, EndFact, Revoked, EndProjected, Shows
<1>5. OneOperation'
  BY DEF DurableInvariant, OneOperation
<1>6. OneSession'
  BY DEF DurableInvariant, OneSession, Commanded
<1>7. OwnSession'
  BY DEF DurableInvariant, OwnSession, OneOperation, Commanded
<1>8. EndedIsQuiet'
  BY DEF DurableInvariant, EndedIsQuiet, Commanded
<1> QED BY <1>1, <1>2, <1>3, <1>4, <1>5, <1>6, <1>7, <1>8 DEF DurableInvariant

(* The end is completed, its projection and binding being settled.         *)
LEMMA Completes ==
  ASSUME TypeOK, DurableInvariant,
         NEW o \in EndOps,
         phase[o] \in {"kill_acknowledged", "completed"},
         bind[sess[o]].st = "completed",
         EndProjected(o),
         phase' = [phase EXCEPT ![o] = "completed"],
         UNCHANGED <<from, sess, bind, proj>>
  PROVE DurableInvariant'
<1>1. RecordShape'
  BY DEF DurableInvariant, RecordShape, ProvisionShape, EndShape
<1>2. SessionShared'
  BY DEF DurableInvariant, RecordShape, ProvisionShape, EndShape, SessionShared
<1>3. BindingFacts'
  BY DEF DurableInvariant, RecordShape, ProvisionShape, EndShape, BindingFacts, BindingFact
<1>4. RecordFacts'
  BY SMTT(60) DEF DurableInvariant, RecordShape, ProvisionShape, EndShape, SessionShared, RecordFacts,
        ProvisionFact, EndFact, Revoked, EndProjected, Shows
<1>5. OneOperation'
  BY DEF DurableInvariant, OneOperation
<1>6. OneSession'
  BY DEF DurableInvariant, OneSession, Commanded
<1>7. OwnSession'
  BY DEF DurableInvariant, OwnSession, OneOperation, Commanded
<1>8. EndedIsQuiet'
  <2>1. \A q \in Ops : ThreadOf[q] = ThreadOf[o] => ~Nonterminal(q)'
    BY DEF DurableInvariant, OneOperation, EndedIsQuiet
  <2>2. \A s \in Sessions : ~Commanded(s, ThreadOf[o])
    BY DEF DurableInvariant, OwnSession, EndedIsQuiet, Commanded
  <2> QED BY <2>1, <2>2 DEF DurableInvariant, EndedIsQuiet, Commanded
<1> QED BY <1>1, <1>2, <1>3, <1>4, <1>5, <1>6, <1>7, <1>8 DEF DurableInvariant

(* A terminal group is compacted away; its session goes behind the fence.  *)
LEMMA Retires ==
  ASSUME TypeOK, DurableInvariant,
         NEW o \in Ops,
         TerminalGroupHead(o),
         phase' = [p \in Ops |-> IF p \in TerminalGroup(o) THEN "retired" ELSE phase[p]],
         bind' = [s \in Sessions |-> IF o \in EndOps /\ s = sess[o] THEN [st |-> "retired", op |-> NoOp] ELSE bind[s]],
         UNCHANGED <<from, sess, proj>>
  PROVE DurableInvariant'
<1>1. RecordShape'
  BY DEF DurableInvariant, RecordShape, ProvisionShape, EndShape
<1>2. SessionShared'
  BY DEF DurableInvariant, RecordShape, ProvisionShape, EndShape, SessionShared
<1>3. BindingFacts'
  <2>1. o \in EndOps => \A q \in Ops : Recorded(q) /\ sess[q] = sess[o] => q \in TerminalGroup(o)
    BY DEF DurableInvariant, RecordShape, EndShape, SessionShared, TerminalGroup,
          TerminalGroupHead
  <2>2. o \in ProvisionOps => TerminalGroup(o) = {o}
    BY DEF TerminalGroup
  <2>3. \A s \in Sessions : bind'[s] = bind[s] /\ bind[s].st \notin {"none", "retired"} => bind[s].op \notin TerminalGroup(o)
    BY DEF DurableInvariant, RecordShape, ProvisionShape, EndShape, BindingFacts, BindingFact,
          TerminalGroup, TerminalGroupHead
  <2> QED BY <2>1, <2>2, <2>3, SMTT(60) DEF DurableInvariant, BindingFacts, BindingFact
<1>4. RecordFacts'
  <2>1. ASSUME NEW q \in Ops, Recorded(q)', sess[q] \in Sessions
        PROVE bind'[sess[q]] = bind[sess[q]]
    BY <2>1 DEF DurableInvariant, RecordShape, EndShape, SessionShared, TerminalGroup,
          TerminalGroupHead
  <2>2. \A q \in Ops : Recorded(q)' => phase'[q] = phase[q]
    OBVIOUS
  <2>3. ASSUME NEW q \in ProvisionOps PROVE ProvisionFact(q)'
    <3>1. ProvisionShape(q) /\ ProvisionFact(q)
      BY DEF DurableInvariant, RecordShape, RecordFacts
    <3> QED BY <2>1, <2>2, <3>1 DEF ProvisionShape, ProvisionFact
  <2>4. ASSUME NEW q \in EndOps PROVE EndFact(q)'
    <3>1. EndShape(q) /\ EndFact(q)
      BY DEF DurableInvariant, RecordShape, RecordFacts
    <3> QED BY <2>1, <2>2, <3>1 DEF EndShape, EndFact, Revoked, EndProjected, Shows
  <2> QED BY <2>3, <2>4 DEF RecordFacts
<1>5. OneOperation'
  BY DEF DurableInvariant, OneOperation
<1>6. OneSession'
  BY DEF DurableInvariant, OneSession, Commanded
<1>7. OwnSession'
  BY DEF DurableInvariant, OwnSession, OneOperation, Commanded
<1>8. EndedIsQuiet'
  BY DEF DurableInvariant, EndedIsQuiet, Commanded
<1> QED BY <1>1, <1>2, <1>3, <1>4, <1>5, <1>6, <1>7, <1>8 DEF DurableInvariant

-----------------------------------------------------------------------------
(* The actions.                                                            *)

(* Every step of the Store keeps its state well typed.                     *)
LEMMA TypeStep == TypeOK /\ [StoreNext]_storeVars => TypeOK'
<1> SUFFICES ASSUME TypeOK, [StoreNext]_storeVars PROVE TypeOK'
  OBVIOUS
<1> USE DEF durable, Record, Bind, Grant, Drop, Continue, Return, Fault, Idle, Unbound, Shows,
      Reasons, LeaseKinds, KillLeases, Modes, Writes, Ready, Writing, Recovering
<1>1. ASSUME NEW o \in Ops, CallStep(o) PROVE TypeOK'
  <2>1. CASE RetireTerminalGroup(o) BY <2>1, SMTT(30) DEF RetireTerminalGroup
  <2>2. CASE RefuseRegistryFull(o) BY <2>2 DEF RefuseRegistryFull
  <2>3. CASE WritePrepared(o) BY <2>3 DEF WritePrepared
  <2>4. CASE WriteActivating(o)
    <3>1. bind' \in [Sessions -> [st : BindStates, op : Ops \cup {NoOp}]]
      BY <2>4 DEF WriteActivating, MaterializeActivating
    <3>2. lease' \in [Ops -> SUBSET LeaseKinds]
      <4>1. lease[o] \in SUBSET LeaseKinds
        OBVIOUS
      <4>2. (lease[o] \ {"promotion"}) \cup {"projection"} \in SUBSET LeaseKinds
        BY <4>1
      <4> QED BY <2>4, <4>2 DEF WriteActivating
    <3> QED BY <2>4, <3>1, <3>2 DEF WriteActivating
  <2>5. CASE WriteProjectionCommitted(o) BY <2>5 DEF WriteProjectionCommitted
  <2>6. CASE WriteCommitted(o) BY <2>6 DEF WriteCommitted
  <2>7. CASE WriteEnding(o) BY <2>7 DEF WriteEnding, ActiveOn
  <2>8. CASE WriteDetached(o)
    <3>1. bind' \in [Sessions -> [st : BindStates, op : Ops \cup {NoOp}]]
      BY <2>8 DEF WriteDetached, MaterializeRevoked
    <3> QED BY <2>8, <3>1 DEF WriteDetached
  <2>9. CASE WriteEnded(o) BY <2>9 DEF WriteEnded, ProjectEnd
  <2>10. CASE WriteBindingCompleted(o)
    <3>1. bind' \in [Sessions -> [st : BindStates, op : Ops \cup {NoOp}]]
      BY <2>10 DEF WriteBindingCompleted, CompleteBinding
    <3>2. mode' \in Modes /\ call' \in [op : Ops \cup {NoOp}, at : Writes]
      BY <2>10 DEF WriteBindingCompleted
    <3> QED BY <2>10, <3>1, <3>2 DEF WriteBindingCompleted
  <2>11. CASE WriteCompleted(o) BY <2>11 DEF WriteCompleted
  <2> QED BY <1>1, <2>1, <2>2, <2>3, <2>4, <2>5, <2>6, <2>7, <2>8, <2>9, <2>10, <2>11 DEF CallStep
<1>2. ASSUME NEW o \in Ops, ProvisionStep(o) PROVE TypeOK'
  <2>1. CASE PrepareProvision(o) BY <2>1 DEF PrepareProvision
  <2>2. CASE BeginOwnedCreate(o) BY <2>2 DEF BeginOwnedCreate
  <2>3. CASE FailOwnedCreateBeforeEffect(o) BY <2>3 DEF FailOwnedCreateBeforeEffect
  <2>4. ASSUME NEW s \in Sessions, ObserveOwnedCandidate(o, s) PROVE TypeOK'
    BY <2>4 DEF ObserveOwnedCandidate
  <2>5. CASE BeginPromotion(o) BY <2>5 DEF BeginPromotion
  <2>6. CASE FailPromotionBeforeEffect(o) BY <2>6 DEF FailPromotionBeforeEffect
  <2>7. CASE ObservePromotion(o) BY <2>7 DEF ObservePromotion
  <2>8. CASE AcquireRecoveryLease(o)
    <3>1. bind' \in [Sessions -> [st : BindStates, op : Ops \cup {NoOp}]]
      BY <2>8 DEF AcquireRecoveryLease, MaterializeActivating
    <3>2. lease' \in [Ops -> SUBSET LeaseKinds] /\ mode' \in Modes
          /\ call' \in [op : Ops \cup {NoOp}, at : Writes]
      BY <2>8 DEF AcquireRecoveryLease
    <3> QED BY <2>8, <3>1, <3>2 DEF AcquireRecoveryLease
  <2>9. CASE PublishLifecycleProjection(o) BY <2>9 DEF PublishLifecycleProjection
  <2>10. CASE CommitProvision(o) BY <2>10 DEF CommitProvision
  <2> QED BY <1>2, <2>1, <2>2, <2>3, <2>4, <2>5, <2>6, <2>7, <2>8, <2>9, <2>10 DEF ProvisionStep
<1>3. ASSUME NEW o \in Ops, EndStep(o) PROVE TypeOK'
  <2>1. CASE PrepareEnd(o) BY <2>1 DEF PrepareEnd
  <2>2. CASE PrepareEndAgain(o) BY <2>2 DEF PrepareEndAgain, MaterializeRevoked
  <2>3. CASE BeginKill(o) BY <2>3 DEF BeginKill
  <2>4. CASE AuthorizeKill(o) BY <2>4 DEF AuthorizeKill
  <2>5. CASE FailKillBeforeEffect(o) BY <2>5 DEF FailKillBeforeEffect
  <2>6. CASE AcknowledgeKill(o) BY <2>6 DEF AcknowledgeKill
  <2>7. CASE CompleteQuarantinedEnd(o) BY <2>7 DEF CompleteQuarantinedEnd
  <2> QED BY <1>3, <2>1, <2>2, <2>3, <2>4, <2>5, <2>6, <2>7 DEF EndStep
<1>4. ASSUME NEW o \in Ops, RecoveryStep(o) PROVE TypeOK'
  <2>1. CASE RecoverInterrupted(o) BY <2>1 DEF RecoverInterrupted, Quarantine
  <2>2. CASE RecoverRevocation(o) BY <2>2 DEF RecoverRevocation, MaterializeRevoked
  <2>3. CASE RecoverAuthority(o)
    <3>1. CASE AuthorityChanged(o)
      <4>1. Quarantine(o, "authority_changed") /\ todo' = todo \ {o}
            /\ UNCHANGED <<sess, bind, proj, ws, mode, call, lease>>
        BY <2>3, <3>1 DEF RecoverAuthority
      <4> QED BY <4>1 DEF Quarantine
    <3>2. CASE ~AuthorityChanged(o) BY <2>3, <3>2 DEF RecoverAuthority
    <3> QED BY <3>1, <3>2
  <2>4. ASSUME NEW stage \in {"before", "after"}, RecoverActivating(stage, o) PROVE TypeOK'
    BY <2>4 DEF RecoverActivating, MaterializeActivating
  <2>5. CASE RecoverCommit(o) BY <2>5 DEF RecoverCommit
  <2>6. CASE RecoverEnded(o) BY <2>6 DEF RecoverEnded, ProjectEnd
  <2>7. CASE RecoverBindingCompleted(o) BY <2>7 DEF RecoverBindingCompleted, CompleteBinding
  <2>8. CASE RecoverCompleted(o) BY <2>8 DEF RecoverCompleted
  <2>9. CASE RecoverNothing(o) BY <2>9 DEF RecoverNothing
  <2> QED BY <1>4, <2>1, <2>2, <2>3, <2>4, <2>5, <2>6, <2>7, <2>8, <2>9 DEF RecoveryStep
<1>5. ASSUME NEW o \in Ops, QuarantineOutcomeUnknown(o) PROVE TypeOK'
  BY <1>5 DEF QuarantineOutcomeUnknown, DispatchOf
<1>6. CASE StoreFault BY <1>6 DEF StoreFault
<1>7. CASE Crash BY <1>7 DEF Crash
<1>8. CASE Boot BY <1>8 DEF Boot
<1>9. CASE FinishBefore BY <1>9 DEF FinishBefore
<1>10. CASE FinishAfter BY <1>10 DEF FinishAfter
<1>11. ASSUME NEW t \in Threads, WorkspaceChange(t) PROVE TypeOK'
  BY <1>11 DEF WorkspaceChange
<1>12. CASE UNCHANGED storeVars BY <1>12 DEF storeVars
<1> QED BY <1>1, <1>2, <1>3, <1>4, <1>5, <1>6, <1>7, <1>8, <1>9, <1>10, <1>11, <1>12 DEF StoreNext

(* The sets AuthorityOn and ActiveOn, pointwise: every binding with        *)
(* authority names an operation on record.                                 *)
LEMMA AuthorityPointwise ==
  ASSUME TypeOK, DurableInvariant, NEW t \in Threads
  PROVE /\ \A s \in Sessions : s \in AuthorityOn(t) <=> Commanded(s, t)
        /\ \A s \in Sessions : s \in ActiveOn(t) <=> bind[s].st = "active" /\ ThreadOf[bind[s].op] = t
  BY DEF DurableInvariant, BindingFacts, BindingFact, AuthorityOn, ActiveOn, BoundTo,
        OnThread, Commanded

(* On a thread with no nonterminal operation, a binding can only be        *)
(* active, never activating.                                               *)
LEMMA QuietThread ==
  ASSUME TypeOK, DurableInvariant, NEW t \in Threads, ~ThreadBusy(t)
  PROVE /\ \A p \in Ops : ThreadOf[p] = t => ~Nonterminal(p)
        /\ ActiveOn(t) = {} => \A s \in Sessions : ~Commanded(s, t)
<1>1. \A p \in Ops : ThreadOf[p] = t => ~Nonterminal(p)
  BY DEF ThreadBusy, OnThread
<1>2. ASSUME NEW s \in Sessions, Commanded(s, t), ActiveOn(t) = {} PROVE FALSE
  <2>1. bind[s].st = "activating"
    BY <1>2, AuthorityPointwise DEF Commanded
  <2>2. Nonterminal(bind[s].op) /\ bind[s].op \in Ops
    BY <2>1 DEF DurableInvariant, RecordShape, ProvisionShape, BindingFacts, BindingFact
  <2> QED BY <1>1, <1>2, <2>2 DEF Commanded
<1> QED BY <1>1, <1>2

(* When registration finds nothing left to retire for a provision, no      *)
(* completed end of its thread remains.                                    *)
LEMMA NoHeadNoCompletedEnd ==
  ASSUME TypeOK, DurableInvariant, NEW o \in Ops, Retirable(o) = {}, NEW e \in EndOps,
         o \in ProvisionOps, ThreadOf[e] = ThreadOf[o]
  PROVE phase[e] # "completed"
<1> SUFFICES ASSUME phase[e] = "completed" PROVE FALSE
  OBVIOUS
<1>1. EndFact(e)
  BY DEF DurableInvariant, RecordFacts
<1>2. TerminalGroupHead(e)
  BY <1>1 DEF EndFact, TerminalGroupHead
<1> QED BY <1>2 DEF Retirable

(* A method that holds the mutex finds what it established before.         *)
LEMMA CallInProgress ==
  ASSUME TypeOK, CallFacts, NEW o \in Ops, NEW at, at # "idle", call = [op |-> o, at |-> at]
  PROVE CallFact(o) /\ call.at = at
  BY DEF CallFacts

(* The phase of a record tells a provision from an end.                    *)
LEMMA KindOfRecord ==
  ASSUME TypeOK, DurableInvariant, NEW o \in Ops
  PROVE /\ phase[o] \in ProvisionPhases => o \in ProvisionOps
        /\ phase[o] \in EndPhases => o \in EndOps
  BY DEF DurableInvariant, RecordShape, ProvisionShape, EndShape

(* Every write of a method in progress keeps the durable invariant.        *)
LEMMA DurableCallStep ==
  ASSUME StoreInvariant, NEW o \in Ops, CallStep(o)
  PROVE DurableInvariant'
<1> USE DEF StoreInvariant, Writing, Record, Bind
<1>1. CASE RetireTerminalGroup(o)
  BY <1>1, Retires, Stutters DEF RetireTerminalGroup, Retirable, durable
<1>2. CASE RefuseRegistryFull(o)
  BY <1>2, Stutters DEF RefuseRegistryFull
<1>3. CASE WritePrepared(o)
  <2>1. CallFact(o) /\ call.at = "register"
    BY <1>3, CallInProgress DEF WritePrepared
  <2> QED BY <1>3, <2>1, NoHeadNoCompletedEnd, Prepares, ZenonT(60) DEF WritePrepared, CallFact
<1>4. CASE WriteActivating(o)
  <2>1. CallFact(o) /\ call.at = "activating"
    BY <1>4, CallInProgress DEF WriteActivating
  <2>2. o \in ProvisionOps
    BY <2>1, KindOfRecord DEF CallFact
  <2>3. CASE bind' = bind
    BY <1>4, <2>3, Stutters DEF WriteActivating, durable
  <2>4. CASE bind' # bind
    BY <1>4, <2>1, <2>2, <2>4, AuthorityPointwise, Activates DEF WriteActivating, CallFact,
          MaterializeActivating, CanActivate
  <2> QED BY <2>3, <2>4
<1>5. CASE WriteProjectionCommitted(o)
  <2>1. CallFact(o) /\ call.at = "projection_committed"
    BY <1>5, CallInProgress DEF WriteProjectionCommitted
  <2>2. o \in ProvisionOps
    BY <2>1, KindOfRecord DEF CallFact
  <2> QED BY <1>5, <2>1, <2>2, Projects DEF WriteProjectionCommitted, CallFact
<1>6. CASE WriteCommitted(o)
  <2>1. CallFact(o) /\ call.at = "committed"
    BY <1>6, CallInProgress DEF WriteCommitted
  <2>2. o \in ProvisionOps
    BY <2>1, KindOfRecord DEF CallFact
  <2>3. bind[sess[o]].st = "active" /\ phase[o] = "projection_committed"
    BY <2>1 DEF CallFact
  <2> QED BY <1>6, <2>2, <2>3, Commits DEF WriteCommitted
<1>7. CASE WriteEnding(o)
  <2>1. CallFact(o) /\ call.at = "register"
    BY <1>7, CallInProgress DEF WriteEnding
  <2> QED BY <1>7, <2>1, AuthorityPointwise, PreparesEnd, ZenonT(60) DEF WriteEnding, CallFact, ActiveOn
<1>8. CASE WriteDetached(o)
  <2>1. CallFact(o) /\ call.at = "detached"
    BY <1>8, CallInProgress DEF WriteDetached
  <2>2. o \in EndOps
    BY <2>1, KindOfRecord DEF CallFact
  <2>3. CASE bind' = bind
    BY <1>8, <2>3, Stutters DEF WriteDetached, durable
  <2>4. CASE bind' # bind
    BY <1>8, <2>1, <2>2, <2>4, Revokes DEF WriteDetached, CallFact, MaterializeRevoked, CanRevoke
  <2> QED BY <2>3, <2>4
<1>9. CASE WriteEnded(o)
  <2>1. CallFact(o) /\ call.at = "ended"
    BY <1>9, CallInProgress DEF WriteEnded
  <2>2. o \in EndOps
    BY <2>1, KindOfRecord DEF CallFact
  <2> QED BY <1>9, <2>1, <2>2, Stutters, ProjectsEnd DEF WriteEnded, CallFact, ProjectEnd,
        Shows, durable
<1>10. CASE WriteBindingCompleted(o)
  <2>1. CallFact(o) /\ call.at = "binding_completed"
    BY <1>10, CallInProgress DEF WriteBindingCompleted
  <2>2. o \in EndOps
    BY <2>1, KindOfRecord DEF CallFact
  <2> QED BY <1>10, <2>1, <2>2, Stutters, Settles DEF WriteBindingCompleted, CallFact,
        CompleteBinding, CanCompleteBinding, durable
<1>11. CASE WriteCompleted(o)
  <2>1. CallFact(o) /\ call.at = "completed"
    BY <1>11, CallInProgress DEF WriteCompleted
  <2>2. o \in EndOps
    BY <2>1, KindOfRecord DEF CallFact
  <2>3. bind[sess[o]].st = "completed" /\ phase[o] = "kill_acknowledged" /\ EndProjected(o)
    BY <2>1 DEF CallFact
  <2> QED BY <1>11, <2>2, <2>3, Completes DEF WriteCompleted
<1> QED BY <1>1, <1>2, <1>3, <1>4, <1>5, <1>6, <1>7, <1>8, <1>9, <1>10, <1>11 DEF CallStep

(* Every call of a provisioning method keeps the durable invariant.        *)
LEMMA DurableProvisionStep ==
  ASSUME StoreInvariant, NEW o \in Ops, ProvisionStep(o)
  PROVE DurableInvariant'
<1> USE DEF StoreInvariant, Record, Bind
<1>1. CASE PrepareProvision(o)
  BY <1>1, Stutters DEF PrepareProvision
<1>2. CASE BeginOwnedCreate(o)
  BY <1>2, Creates DEF BeginOwnedCreate, DurableInvariant, RecordShape, EndShape
<1>3. CASE FailOwnedCreateBeforeEffect(o)
  BY <1>3, Cancels DEF FailOwnedCreateBeforeEffect, DurableInvariant, RecordShape, EndShape
<1>4. ASSUME NEW s \in Sessions, ObserveOwnedCandidate(o, s) PROVE DurableInvariant'
  BY <1>4, AuthorityPointwise, Observes DEF ObserveOwnedCandidate, CandidateUnused,
        DurableInvariant, RecordShape, EndShape
<1>5. CASE BeginPromotion(o)
  BY <1>5, Promotes DEF BeginPromotion, DurableInvariant, RecordShape, EndShape
<1>6. CASE FailPromotionBeforeEffect(o)
  BY <1>6, Promotes DEF FailPromotionBeforeEffect, DurableInvariant, RecordShape, EndShape
<1>7. CASE ObservePromotion(o)
  BY <1>7, Promotion DEF ObservePromotion, DurableInvariant, RecordShape, EndShape
<1>8. CASE AcquireRecoveryLease(o)
  <2>1. CASE bind' = bind
    BY <1>8, <2>1, Stutters DEF AcquireRecoveryLease, durable
  <2>2. CASE bind' # bind
    BY <1>8, <2>2, AuthorityPointwise, Activates DEF AcquireRecoveryLease,
          MaterializeActivating, CanActivate, DurableInvariant, RecordShape, EndShape
  <2> QED BY <2>1, <2>2
<1>9. CASE PublishLifecycleProjection(o)
  BY <1>9, Publishes DEF PublishLifecycleProjection, Shows, DurableInvariant, RecordShape,
        EndShape
<1>10. CASE CommitProvision(o)
  BY <1>10, Stutters, Serves DEF CommitProvision, CanCommit, durable, DurableInvariant,
        RecordShape, EndShape
<1> QED BY <1>1, <1>2, <1>3, <1>4, <1>5, <1>6, <1>7, <1>8, <1>9, <1>10 DEF ProvisionStep

(* Every call of an ending method keeps the durable invariant.             *)
LEMMA DurableEndStep ==
  ASSUME StoreInvariant, NEW o \in Ops, EndStep(o)
  PROVE DurableInvariant'
<1> USE DEF StoreInvariant, Record, Bind
<1>1. CASE PrepareEnd(o)
  BY <1>1, Stutters DEF PrepareEnd
<1>2. CASE PrepareEndAgain(o)
  <2>1. CASE bind' = bind
    BY <1>2, <2>1, Stutters DEF PrepareEndAgain, durable
  <2>2. CASE bind' # bind
    BY <1>2, <2>2, Revokes DEF PrepareEndAgain, MaterializeRevoked, CanRevoke
  <2> QED BY <2>1, <2>2
<1>3. CASE BeginKill(o)
  BY <1>3, Stutters DEF BeginKill
<1>4. CASE AuthorizeKill(o)
  BY <1>4, Kills DEF AuthorizeKill, DurableInvariant, RecordShape, ProvisionShape
<1>5. CASE FailKillBeforeEffect(o)
  <2>1. CASE phase[o] = "ending"
    BY <1>5, <2>1, Stutters DEF FailKillBeforeEffect, durable
  <2>2. CASE phase[o] = "kill_dispatching"
    <3>1. o \in EndOps
      BY <2>2 DEF DurableInvariant, RecordShape, ProvisionShape
    <3>2. Revoked(o)
      BY <2>2, <3>1 DEF DurableInvariant, RecordFacts, EndFact
    <3> QED BY <1>5, <2>2, <3>1, <3>2, Kills DEF FailKillBeforeEffect
  <2> QED BY <1>5, <2>1, <2>2 DEF FailKillBeforeEffect
<1>6. CASE AcknowledgeKill(o)
  BY <1>6, Acknowledges DEF AcknowledgeKill, DurableInvariant, RecordShape, ProvisionShape
<1>7. CASE CompleteQuarantinedEnd(o)
  <2>1. o \in EndOps
    BY <1>7 DEF CompleteQuarantinedEnd, QuarantinedIn, DurableInvariant, RecordShape,
          ProvisionShape
  <2>2. from' \in [Ops -> Phases] /\ \A p \in Ops \ {o} : from'[p] = from[p]
    BY <1>7 DEF CompleteQuarantinedEnd
  <2> QED BY <1>7, <2>1, <2>2, Acknowledges DEF CompleteQuarantinedEnd, QuarantinedIn
<1> QED BY <1>1, <1>2, <1>3, <1>4, <1>5, <1>6, <1>7 DEF EndStep

(* Every step of the recovery after a restart keeps the durable invariant. *)
LEMMA DurableRecoveryStep ==
  ASSUME StoreInvariant, NEW o \in Ops, RecoveryStep(o)
  PROVE DurableInvariant'
<1> USE DEF StoreInvariant, Record, Bind
<1>1. CASE RecoverInterrupted(o)
  BY <1>1, Quarantines DEF RecoverInterrupted, Quarantine, Interrupted, DispatchPhases
<1>2. CASE RecoverRevocation(o)
  <2>1. CASE bind' = bind
    BY <1>2, <2>1, Stutters DEF RecoverRevocation, durable
  <2>2. CASE bind' # bind
    BY <1>2, <2>2, Revokes DEF RecoverRevocation, MaterializeRevoked, CanRevoke,
          NeedsRevocation, QuarantinedIn
  <2> QED BY <2>1, <2>2
<1>3. CASE RecoverAuthority(o)
  <2>1. CASE AuthorityChanged(o)
    BY <1>3, <2>1, Quarantines DEF RecoverAuthority, Quarantine, AuthorityChanged
  <2>2. CASE ~AuthorityChanged(o)
    BY <1>3, <2>2, Stutters DEF RecoverAuthority, durable
  <2> QED BY <2>1, <2>2
<1>4. ASSUME NEW stage \in {"before", "after"}, RecoverActivating(stage, o) PROVE DurableInvariant'
  <2>1. CASE bind' = bind
    BY <1>4, <2>1, Stutters DEF RecoverActivating, durable
  <2>2. CASE bind' # bind
    BY <1>4, <2>2, AuthorityPointwise, Activates DEF RecoverActivating, MaterializeActivating,
          CanActivate, NeedsActivating
  <2> QED BY <2>1, <2>2
<1>5. CASE RecoverCommit(o)
  BY <1>5, Stutters, Commits DEF RecoverCommit, CommitInterrupted, durable, DurableInvariant,
        RecordShape, EndShape
<1>6. CASE RecoverEnded(o)
  BY <1>6, Stutters, ProjectsEnd DEF RecoverEnded, EndUnfinished, ProjectEnd, Shows, durable
<1>7. CASE RecoverBindingCompleted(o)
  <2>1. CASE bind' = bind
    BY <1>7, <2>1, Stutters DEF RecoverBindingCompleted, durable
  <2>2. CASE bind' # bind
    <3>1. phase[o] # "completed"
      <4>1. EndFact(o)
        BY <1>7 DEF RecoverBindingCompleted, EndUnfinished, DurableInvariant, RecordFacts
      <4>2. bind[sess[o]].st # "completed"
        BY <1>7 DEF RecoverBindingCompleted
      <4> QED BY <4>1, <4>2 DEF EndFact
    <3> QED BY <1>7, <2>2, <3>1, Settles DEF RecoverBindingCompleted, EndUnfinished,
          CompleteBinding, CanCompleteBinding
  <2> QED BY <2>1, <2>2
<1>8. CASE RecoverCompleted(o)
  BY <1>8, Completes DEF RecoverCompleted, EndUnfinished
<1>9. CASE RecoverNothing(o)
  BY <1>9, Stutters DEF RecoverNothing
<1> QED BY <1>1, <1>2, <1>3, <1>4, <1>5, <1>6, <1>7, <1>8, <1>9 DEF RecoveryStep

(* A method that returned has nothing to establish.                        *)
LEMMA IdleCall ==
  ASSUME call' = Idle PROVE CallFacts'
  BY DEF CallFacts, Idle

(* Neither has a step taken while no method is in progress.                *)
LEMMA OutsideCalls ==
  ASSUME StoreInvariant, UNCHANGED call, call = Idle PROVE CallFacts'
  BY DEF CallFacts, Idle

(* Each write of a method leaves what the method's next write needs.       *)
LEMMA CallsNext ==
  ASSUME StoreInvariant, NEW o \in Ops, CallStep(o) PROVE CallFacts'
<1> USE DEF StoreInvariant, Writing, Record, Bind, Continue, Return, Fault
<1>1. CASE RetireTerminalGroup(o)
  <2>1. CallFact(o) /\ call.at = "register"
    BY <1>1, CallInProgress DEF RetireTerminalGroup
  <2>2. CASE call' = Idle
    BY <2>2, IdleCall
  <2>3. CASE call' = call /\ mode' = "up"
    <3>1. PICK g \in Retirable(o) :
            /\ phase' = [p \in Ops |-> IF p \in TerminalGroup(g) THEN "retired" ELSE phase[p]]
            /\ bind' = [s \in Sessions |->
                    IF g \in EndOps /\ s = sess[g] THEN [st |-> "retired", op |-> NoOp] ELSE bind[s]]
      BY <1>1, <2>3 DEF RetireTerminalGroup
    <3>2. TerminalGroupHead(g) /\ g \in Ops
      BY DEF Retirable
    <3>3. o \notin TerminalGroup(g)
      BY <2>1, <3>2 DEF CallFact, TerminalGroup, TerminalGroupHead
    <3>4. CallFact(o)'
      BY <2>1, <2>3, <3>1, <3>3 DEF CallFact, Commanded
    <3> QED BY <1>1, <2>3, <3>4 DEF RetireTerminalGroup, CallFacts
  <2> QED BY <1>1, <2>2, <2>3 DEF RetireTerminalGroup
<1>2. CASE RefuseRegistryFull(o)
  BY <1>2, IdleCall DEF RefuseRegistryFull
<1>3. CASE WritePrepared(o)
  BY <1>3, IdleCall DEF WritePrepared
<1>4. CASE WriteActivating(o)
  BY <1>4, IdleCall DEF WriteActivating
<1>5. CASE WriteProjectionCommitted(o)
  BY <1>5, IdleCall DEF WriteProjectionCommitted
<1>6. CASE WriteCommitted(o)
  BY <1>6, IdleCall DEF WriteCommitted
<1>7. CASE WriteEnding(o)
  BY <1>7 DEF WriteEnding, CallFacts, CallFact
<1>8. CASE WriteDetached(o)
  BY <1>8, IdleCall DEF WriteDetached
<1>9. CASE WriteEnded(o)
  <2>1. CallFact(o) /\ call.at = "ended"
    BY <1>9, CallInProgress DEF WriteEnded
  <2> QED BY <1>9, <2>1, IdleCall DEF WriteEnded, CallFacts, CallFact, ProjectEnd,
        EndProjected, Shows
<1>10. CASE WriteBindingCompleted(o)
  <2>1. CallFact(o) /\ call.at = "binding_completed"
    BY <1>10, CallInProgress DEF WriteBindingCompleted
  <2>2. o \in EndOps /\ sess[o] \in Sessions
    BY <2>1, KindOfRecord DEF CallFact, DurableInvariant, RecordShape, EndShape
  <2>3. bind[sess[o]].st = "completed" => bind[sess[o]] = [st |-> "completed", op |-> o]
    <3>1. EndFact(o)
      BY <2>2 DEF DurableInvariant, RecordFacts
    <3> QED BY <2>1, <3>1 DEF CallFact, EndFact, Revoked
  <2>4. call' # Idle => call' = [op |-> o, at |-> "completed"] /\ mode' = "up"
        /\ bind'[sess[o]] = [st |-> "completed", op |-> o] /\ UNCHANGED <<phase, proj, sess>>
    BY <1>10, <2>2, <2>3 DEF WriteBindingCompleted, CompleteBinding
  <2>5. CASE call' = Idle
    BY <2>5, IdleCall
  <2>6. CASE call' # Idle
    BY <2>1, <2>4, <2>6 DEF CallFacts, CallFact, EndProjected, Shows
  <2> QED BY <2>5, <2>6
<1>11. CASE WriteCompleted(o)
  BY <1>11, IdleCall DEF WriteCompleted
<1> QED BY <1>1, <1>2, <1>3, <1>4, <1>5, <1>6, <1>7, <1>8, <1>9, <1>10, <1>11 DEF CallStep

(* Each method begins its later writes with what they need.                *)
LEMMA CallsBegin ==
  ASSUME StoreInvariant, NEW o \in Ops, ProvisionStep(o) \/ EndStep(o) \/ QuarantineOutcomeUnknown(o) PROVE CallFacts'
<1> USE DEF StoreInvariant, Ready, Record, Bind, Continue, Return, Fault
<1>1. CASE PrepareProvision(o)
  BY <1>1, QuietThread DEF PrepareProvision, CallFacts, CallFact, Commanded, durable
<1>2. CASE ObservePromotion(o)
  BY <1>2 DEF ObservePromotion, CallFacts, CallFact
<1>3. CASE AcquireRecoveryLease(o)
  BY <1>3, IdleCall, OutsideCalls DEF AcquireRecoveryLease
<1>4. CASE PublishLifecycleProjection(o)
  BY <1>4 DEF PublishLifecycleProjection, CallFacts, CallFact
<1>5. CASE CommitProvision(o)
  <2>1. sess[o] \in Sessions
    BY <1>5, KindOfRecord DEF CommitProvision, DurableInvariant, RecordShape, ProvisionShape
  <2> QED BY <1>5, <2>1, IdleCall DEF CommitProvision, CallFacts, CallFact
<1>6. CASE PrepareEnd(o)
  BY <1>6, QuietThread DEF PrepareEnd, CallFacts, CallFact, durable
<1>7. CASE PrepareEndAgain(o)
  BY <1>7, IdleCall, OutsideCalls DEF PrepareEndAgain
<1>8. CASE AcknowledgeKill(o)
  BY <1>8 DEF AcknowledgeKill, CallFacts, CallFact
<1>9. CASE CompleteQuarantinedEnd(o)
  BY <1>9 DEF CompleteQuarantinedEnd, CallFacts, CallFact
<1>10. CASE UNCHANGED call /\ call = Idle
  BY <1>10, OutsideCalls
<1> QED BY <1>1, <1>2, <1>3, <1>4, <1>5, <1>6, <1>7, <1>8, <1>9, <1>10
     DEF ProvisionStep, EndStep, BeginOwnedCreate, FailOwnedCreateBeforeEffect, ObserveOwnedCandidate,
         BeginPromotion, FailPromotionBeforeEffect, BeginKill, AuthorizeKill, FailKillBeforeEffect, QuarantineOutcomeUnknown

(* Recovery runs while no method is in progress.                           *)
LEMMA CallsRecovery ==
  ASSUME StoreInvariant, NEW o \in Ops, RecoveryStep(o) PROVE CallFacts'
<1>1. mode # "up" /\ UNCHANGED call
  BY DEF RecoveryStep, Recovering, RecoverInterrupted, RecoverRevocation, RecoverAuthority,
        RecoverActivating,
         RecoverCommit, RecoverEnded, RecoverBindingCompleted, RecoverCompleted, RecoverNothing
<1>2. call = Idle
  BY <1>1 DEF StoreInvariant, CallFacts
<1> QED BY <1>1, <1>2, OutsideCalls

(* The invariant is inductive: it survives every step of the Store, a      *)
(* crash or a failed write between any two durable writes included.        *)
LEMMA InvariantStep == StoreInvariant /\ TypeOK' /\ [StoreNext]_storeVars => StoreInvariant'
<1> SUFFICES ASSUME StoreInvariant, TypeOK', [StoreNext]_storeVars
    PROVE DurableInvariant' /\ CallFacts'
  BY DEF StoreInvariant
<1>1. ASSUME NEW o \in Ops, CallStep(o) PROVE DurableInvariant' /\ CallFacts'
  BY <1>1, DurableCallStep, CallsNext
<1>2. ASSUME NEW o \in Ops, ProvisionStep(o) PROVE DurableInvariant' /\ CallFacts'
  BY <1>2, DurableProvisionStep, CallsBegin
<1>3. ASSUME NEW o \in Ops, EndStep(o) PROVE DurableInvariant' /\ CallFacts'
  BY <1>3, DurableEndStep, CallsBegin
<1>4. ASSUME NEW o \in Ops, RecoveryStep(o) PROVE DurableInvariant' /\ CallFacts'
  BY <1>4, DurableRecoveryStep, CallsRecovery
<1>5. ASSUME NEW o \in Ops, QuarantineOutcomeUnknown(o) PROVE DurableInvariant' /\ CallFacts'
  <2>1. CallFacts'
    BY <1>5, CallsBegin
  <2>2. DurableInvariant'
    <3>1. phase[o] \in DispatchPhases
      BY <1>5 DEF QuarantineOutcomeUnknown, DispatchOf, DispatchPhases
    <3> QED BY <1>5, <3>1, Quarantines DEF StoreInvariant, QuarantineOutcomeUnknown,
          DispatchPhases, Record
  <2> QED BY <2>1, <2>2
<1>6. CASE StoreFault
  BY <1>6, IdleCall, Stutters DEF StoreFault, StoreInvariant, Fault, Return
<1>7. CASE Crash
  BY <1>7, IdleCall, Stutters DEF Crash, StoreInvariant, Return
<1>8. CASE Boot \/ FinishBefore \/ FinishAfter
  <2>1. UNCHANGED durable /\ UNCHANGED call /\ mode # "up"
    BY <1>8 DEF Boot, FinishBefore, FinishAfter
  <2>2. call = Idle
    BY <2>1 DEF StoreInvariant, CallFacts
  <2> QED BY <2>1, <2>2, OutsideCalls, Stutters DEF StoreInvariant
<1>9. ASSUME NEW t \in Threads, WorkspaceChange(t) PROVE DurableInvariant' /\ CallFacts'
  BY <1>9, Stutters DEF WorkspaceChange, durable, StoreInvariant, CallFacts, CallFact,
        Commanded, EndProjected, Shows
<1>10. CASE UNCHANGED storeVars
  BY <1>10, Stutters DEF storeVars, durable, StoreInvariant, CallFacts, CallFact, Commanded,
        EndProjected, Shows
<1> QED BY <1>1, <1>2, <1>3, <1>4, <1>5, <1>6, <1>7, <1>8, <1>9, <1>10 DEF StoreNext

(* The invariant holds of an empty Store.                                  *)
LEMMA InvariantInit == StoreInit => StoreInvariant
<1> SUFFICES ASSUME StoreInit PROVE StoreInvariant
  OBVIOUS
<1> USE DEF StoreInit, Idle, Unbound, Shows
<1>1. TypeOK
  BY DEF Reasons, Modes, Writes, LeaseKinds
<1>2. DurableInvariant
  BY DEF DurableInvariant, RecordShape, ProvisionShape, EndShape, SessionShared, BindingFacts,
        BindingFact, RecordFacts, ProvisionFact, EndFact, OneOperation, OneSession,
        OwnSession, Commanded, EndedIsQuiet
<1>3. CallFacts
  BY DEF CallFacts
<1> QED BY <1>1, <1>2, <1>3 DEF StoreInvariant

(* The invariant implies the safety properties of the Store.               *)
LEMMA InvariantImplies ==
  ASSUME StoreInvariant
  PROVE SingleAuthority /\ RevokedBeforeKill /\ EndedIsPublished /\ RetiredUnreferenced
<1> USE DEF StoreInvariant
<1>1. SingleAuthority
  <2>1. DirectoryValid
    BY DEF DurableInvariant, OneOperation, DirectoryValid
  <2>2. \A t \in Threads : \A s, r \in AuthorityOn(t) : s = r
    BY AuthorityPointwise DEF DurableInvariant, OneSession, AuthorityOn
  <2>3. \A o \in Ops : Nonterminal(o) => AuthorityOn(ThreadOf[o]) \subseteq {sess[o]}
    BY AuthorityPointwise DEF DurableInvariant, OwnSession, AuthorityOn
  <2> QED BY <2>1, <2>2, <2>3 DEF SingleAuthority
<1>2. RevokedBeforeKill
  <2>1. ASSUME NEW o \in EndOps,
               phase[o] \in PastKill \cup {"completed"} \/ QuarantinedIn(o, PastKill)
        PROVE bind[sess[o]].op = o /\ bind[sess[o]].st \in {"detached", "completed"}
    <3>1. EndFact(o)
      BY DEF DurableInvariant, RecordFacts
    <3>2. \/ bind[sess[o]] = [st |-> "detached", op |-> o]
          \/ bind[sess[o]] = [st |-> "completed", op |-> o]
      BY <2>1, <3>1 DEF EndFact, Revoked, PastKill, QuarantinedIn
    <3> QED BY <3>2
  <2> QED BY <2>1 DEF RevokedBeforeKill
<1>3. EndedIsPublished
  BY DEF DurableInvariant, RecordFacts, EndFact, EndedIsPublished
<1>4. RetiredUnreferenced
  BY DEF DurableInvariant, BindingFacts, BindingFact, RetiredUnreferenced
<1> QED BY <1>1, <1>2, <1>3, <1>4

(* The inductive step, types included.                                     *)
LEMMA StepKeepsInvariant == StoreInvariant /\ [StoreNext]_storeVars => StoreInvariant'
<1>1. StoreInvariant => TypeOK
  BY DEF StoreInvariant
<1> QED BY <1>1, TypeStep, InvariantStep

(* The inductive invariant holds in every reachable state.                 *)
THEOREM StoreInvariantHolds == StoreSpec => []StoreInvariant
<1> QED BY InvariantInit, StepKeepsInvariant, PTL DEF StoreSpec

(* The state is always well typed.                                         *)
THEOREM TypeOKHolds == StoreSpec => []TypeOK
<1>1. StoreInvariant => TypeOK
  BY DEF StoreInvariant
<1> QED BY <1>1, StoreInvariantHolds, PTL

(* One nonterminal operation and one session with authority per thread, in *)
(* every state between two writes, over crashes and recovery.              *)
THEOREM SingleAuthorityHolds == StoreSpec => []SingleAuthority
<1> QED BY InvariantImplies, StoreInvariantHolds, PTL

(* The target of a kill that may have been sent has no command authority,  *)
(* and none is ever restored to it.                                        *)
THEOREM RevokedBeforeKillHolds == StoreSpec => []RevokedBeforeKill
<1> QED BY InvariantImplies, StoreInvariantHolds, PTL

(* While a completed end is on record its thread publishes that end.       *)
THEOREM EndedIsPublishedHolds == StoreSpec => []EndedIsPublished
<1> QED BY InvariantImplies, StoreInvariantHolds, PTL

(* A session behind the retirement fence is named by no record.            *)
THEOREM RetiredUnreferencedHolds == StoreSpec => []RetiredUnreferenced
<1> QED BY InvariantImplies, StoreInvariantHolds, PTL

-----------------------------------------------------------------------------
(* What a restart relies on.  The same argument for RecoveryInvariant: one  *)
(* lemma per conjunct, one step per action, over the definitions each step  *)
(* names.                                                                   *)
HIDE DEF Ops, TypeOK, Phases, ProvisionPhases, EndPhases, PostPromotion, BindStates
HIDE DEF Stage, EarlyStages, CandidateStages, BoundStages, Recorded, Nonterminal

(* What `PublishedFact` speaks of is as it was.                             *)
Unpublished ==
    /\ UNCHANGED proj
    /\ \A s \in Sessions : bind'[s].st = "active" => bind'[s] = bind[s]
    /\ \A o \in ProvisionOps : Stage(o)' = "projection_committed" =>
          Stage(o) = "projection_committed" /\ sess'[o] = sess[o]
    /\ \A o \in EndOps : Stage(o)' \in EndPhases => Stage(o) \in EndPhases /\ sess'[o] = sess[o]

(* A step that publishes nothing keeps the snapshots.                       *)
LEMMA UnpublishedKeeps ==
  ASSUME TypeOK, Unpublished, NEW t \in Threads, PublishedFact(t)
  PROVE PublishedFact(t)'
  BY DEF Unpublished, PublishedFact, ProjectionProven, ForeignProjection, TypeOK

(* An operation in these stages is under way.                               *)
LEMMA Ongoing ==
  ASSUME TypeOK, DurableInvariant, NEW o \in Ops, Stage(o) \in {"projection_committed"} \cup EndPhases
  PROVE Nonterminal(o)
  BY OpsAssumption DEF Stage, EndPhases, ProvisionPhases, Nonterminal, Recorded,
      DurableInvariant, RecordShape,
        ProvisionShape, EndShape

(* An acknowledged end publishes itself.                                    *)
LEMMA EndPublishes ==
  ASSUME RecoveryInvariant, NEW o \in EndOps, phase[o] = "kill_acknowledged",
         proj' = [proj EXCEPT ![ThreadOf[o]] = Shows("ended", sess[o])],
         UNCHANGED <<phase, from, sess, bind>>, NEW t \in Threads
  PROVE PublishedFact(t)'
<1> USE OpsAssumption DEF Ops
<1>1. TypeOK /\ DurableInvariant /\ PublishedFact(t) BY DEF RecoveryInvariant, StoreInvariant
<1>2. CASE t # ThreadOf[o]
  BY <1>1, <1>2 DEF PublishedFact, ProjectionProven, ForeignProjection, Stage, TypeOK
<1>3. CASE t = ThreadOf[o]
  <2>1. Nonterminal(o) /\ EndFact(o) /\ Stage(o) = "kill_acknowledged"
    BY <1>1 DEF Nonterminal, Recorded, DurableInvariant, RecordFacts, Stage
  <2>2. proj'[t] = Shows("ended", sess[o]) BY <1>1, <1>3 DEF TypeOK
  <2>3. ASSUME NEW s \in Sessions, bind[s].st = "active", ThreadOf[bind[s].op] = t PROVE FALSE
    <3>1. sess[o] = s BY <1>1, <1>3, <2>1, <2>3 DEF DurableInvariant, OwnSession, Commanded
    <3> QED BY <2>1, <2>3, <3>1 DEF EndFact, Revoked
  <2>4. ASSUME NEW p \in ProvisionOps, ThreadOf[p] = t, Stage(p) = "projection_committed" PROVE FALSE
    <3>1. Nonterminal(p) BY <1>1, <2>4, Ongoing
    <3> QED BY <1>1, <1>3, <2>1, <2>4, <3>1 DEF DurableInvariant, OneOperation
  <2> QED BY <2>2, <2>3, <2>4 DEF PublishedFact, ForeignProjection, Shows, Stage
<1> QED BY <1>2, <1>3

(* In every step the published snapshots stay those of the sessions the     *)
(* records speak of: only the operation under way on a thread publishes.    *)
LEMMA PublishedStep ==
  ASSUME RecoveryInvariant, [StoreNext]_storeVars, NEW th \in Threads
  PROVE PublishedFact(th)'
<1> USE OpsAssumption DEF StoreInvariant, TypeOK, DurableInvariant, RecordShape, ProvisionShape, EndShape, Recorded, Record, Bind, Ops
<1> StoreInvariant /\ PublishedFact(th) BY DEF RecoveryInvariant
<1>1. ASSUME NEW o \in Ops, RetireTerminalGroup(o) PROVE PublishedFact(th)'
  <2>1. Unpublished
    <3>1. \A p \in Ops : phase'[p] = phase[p] \/ phase'[p] = "retired"
      BY <1>1 DEF RetireTerminalGroup
    <3>2. \A s \in Sessions : bind'[s] = bind[s] \/ bind'[s].st = "retired"
      BY <1>1 DEF RetireTerminalGroup
    <3>3. UNCHANGED <<from, sess, proj>> BY <1>1 DEF RetireTerminalGroup
    <3>4. \A p \in Ops : Stage(p)' = Stage(p) \/ Stage(p)' = "retired" BY <3>1, <3>3 DEF Stage
    <3> QED BY ONLY <3>2, <3>3, <3>4 DEF Unpublished, EndPhases, Stage, Ops
  <2> QED BY <2>1, UnpublishedKeeps
<1>2. ASSUME NEW o \in Ops, RefuseRegistryFull(o) PROVE PublishedFact(th)'
  <2>1. Unpublished
    BY <1>2 DEF Unpublished, Stage, durable, RefuseRegistryFull, QuarantinedIn, EndPhases,
        ProvisionPhases
  <2> QED BY <2>1, UnpublishedKeeps
<1>3. ASSUME NEW o \in Ops, WritePrepared(o) PROVE PublishedFact(th)'
  <2>1. Unpublished
    BY <1>3 DEF Unpublished, Stage, durable, WritePrepared, QuarantinedIn, EndPhases,
        ProvisionPhases
  <2> QED BY <2>1, UnpublishedKeeps
<1>4. ASSUME NEW o \in Ops, WriteActivating(o) PROVE PublishedFact(th)'
  <2>1. Unpublished
    BY <1>4 DEF Unpublished, Stage, durable, WriteActivating, Writing, MaterializeActivating,
        CanActivate, KeepsActivating, QuarantinedIn, EndPhases, ProvisionPhases
  <2> QED BY <2>1, UnpublishedKeeps
<1>5. ASSUME NEW o \in Ops, WriteProjectionCommitted(o) PROVE PublishedFact(th)'
  <2>1. CallFact(o) /\ call.at = "projection_committed" /\ call.op = o
    BY <1>5, CallInProgress DEF WriteProjectionCommitted, Writing
  <2>2. ProjectionProven(o) BY <2>1 DEF RecoveryInvariant, PublishingFact
  <2>3. UNCHANGED <<from, sess, bind, proj>> /\ phase' = [phase EXCEPT ![o] = "projection_committed"]
    BY <1>5 DEF WriteProjectionCommitted
  <2>4. \A p \in Ops \ {o} : phase'[p] = phase[p] BY <2>3
  <2>5. phase'[o] = "projection_committed" BY <2>3
  <2> QED BY <2>2, <2>3, <2>4, <2>5 DEF PublishedFact, ProjectionProven, ForeignProjection,
      Stage, EndPhases
<1>6. ASSUME NEW o \in Ops, WriteCommitted(o) PROVE PublishedFact(th)'
  <2>1. Unpublished
    BY <1>6 DEF Unpublished, Stage, durable, WriteCommitted, QuarantinedIn, EndPhases,
        ProvisionPhases
  <2> QED BY <2>1, UnpublishedKeeps
<1>7. ASSUME NEW o \in Ops, WriteEnding(o) PROVE PublishedFact(th)'
  <2>1. PICK s \in ActiveOn(ThreadOf[o]) : sess' = [sess EXCEPT ![o] = s] BY <1>7 DEF WriteEnding
  <2>2. UNCHANGED <<from, bind, proj>> /\ phase' = [phase EXCEPT ![o] = "ending"] /\ o \in EndOps
    BY <1>7 DEF WriteEnding
  <2>3. s \in Sessions /\ bind[s].st = "active" /\ ThreadOf[bind[s].op] = ThreadOf[o]
    BY DEF ActiveOn, BoundTo, OnThread
  <2>4. th = ThreadOf[o] => proj[th] = Shows("resident", s) BY <2>3 DEF PublishedFact
  <2>5. \A p \in Ops \ {o} : phase'[p] = phase[p] /\ sess'[p] = sess[p] BY <2>1, <2>2
  <2>6. phase'[o] = "ending" /\ sess'[o] = s BY <2>1, <2>2
  <2> QED BY ONLY PublishedFact(th), OpsAssumption, <2>2, <2>4, <2>5, <2>6
          DEF PublishedFact, ProjectionProven, ForeignProjection, Stage, Ops, Shows
<1>8. ASSUME NEW o \in Ops, WriteDetached(o) PROVE PublishedFact(th)'
  <2>1. Unpublished
    BY <1>8 DEF Unpublished, Stage, durable, WriteDetached, MaterializeRevoked, CanRevoke,
        KeepsRevoked, QuarantinedIn, EndPhases, ProvisionPhases
  <2> QED BY <2>1, UnpublishedKeeps
<1>9. ASSUME NEW o \in Ops, WriteEnded(o) PROVE PublishedFact(th)'
  <2>1. CallFact(o) /\ call.at = "ended"
    BY <1>9, CallInProgress DEF WriteEnded, Writing
  <2>2. phase[o] = "kill_acknowledged" /\ o \in EndOps BY <2>1, KindOfRecord DEF CallFact,
      EndPhases
  <2>3. UNCHANGED <<phase, from, sess, bind>> BY <1>9 DEF WriteEnded
  <2>4. proj' = proj \/ proj' = [proj EXCEPT ![ThreadOf[o]] = Shows("ended", sess[o])]
    BY <1>9 DEF WriteEnded, ProjectEnd
  <2>5. CASE proj' = proj
    BY <2>3, <2>5 DEF PublishedFact, ProjectionProven, ForeignProjection, Stage
  <2>6. CASE proj' = [proj EXCEPT ![ThreadOf[o]] = Shows("ended", sess[o])]
    BY <2>2, <2>3, <2>6, EndPublishes
  <2> QED BY <2>4, <2>5, <2>6
<1>10. ASSUME NEW o \in Ops, WriteBindingCompleted(o) PROVE PublishedFact(th)'
  <2>1. Unpublished
    BY <1>10 DEF Unpublished, Stage, durable, WriteBindingCompleted, CompleteBinding,
        CanCompleteBinding, QuarantinedIn, EndPhases, ProvisionPhases
  <2> QED BY <2>1, UnpublishedKeeps
<1>11. ASSUME NEW o \in Ops, WriteCompleted(o) PROVE PublishedFact(th)'
  <2>1. Unpublished
    BY <1>11 DEF Unpublished, Stage, durable, WriteCompleted, QuarantinedIn, EndPhases,
        ProvisionPhases
  <2> QED BY <2>1, UnpublishedKeeps
<1>12. ASSUME NEW o \in Ops, PrepareProvision(o) PROVE PublishedFact(th)'
  <2>1. Unpublished
    BY <1>12 DEF Unpublished, Stage, durable, PrepareProvision, QuarantinedIn, EndPhases,
        ProvisionPhases
  <2> QED BY <2>1, UnpublishedKeeps
<1>13. ASSUME NEW o \in Ops, BeginOwnedCreate(o) PROVE PublishedFact(th)'
  <2>1. Unpublished
    BY <1>13 DEF Unpublished, Stage, durable, BeginOwnedCreate, QuarantinedIn, EndPhases,
        ProvisionPhases
  <2> QED BY <2>1, UnpublishedKeeps
<1>14. ASSUME NEW o \in Ops, FailOwnedCreateBeforeEffect(o) PROVE PublishedFact(th)'
  <2>1. Unpublished
    BY <1>14 DEF Unpublished, Stage, durable, FailOwnedCreateBeforeEffect, QuarantinedIn,
        EndPhases, ProvisionPhases
  <2> QED BY <2>1, UnpublishedKeeps
<1>15. ASSUME NEW o \in Ops, NEW s \in Sessions, ObserveOwnedCandidate(o, s) PROVE PublishedFact(th)'
  <2>1. Unpublished
    BY <1>15 DEF Unpublished, Stage, durable, ObserveOwnedCandidate, QuarantinedIn, EndPhases,
        ProvisionPhases
  <2> QED BY <2>1, UnpublishedKeeps
<1>16. ASSUME NEW o \in Ops, BeginPromotion(o) PROVE PublishedFact(th)'
  <2>1. Unpublished
    BY <1>16 DEF Unpublished, Stage, durable, BeginPromotion, QuarantinedIn, EndPhases,
        ProvisionPhases
  <2> QED BY <2>1, UnpublishedKeeps
<1>17. ASSUME NEW o \in Ops, FailPromotionBeforeEffect(o) PROVE PublishedFact(th)'
  <2>1. Unpublished
    BY <1>17 DEF Unpublished, Stage, durable, FailPromotionBeforeEffect, QuarantinedIn,
        EndPhases, ProvisionPhases
  <2> QED BY <2>1, UnpublishedKeeps
<1>18. ASSUME NEW o \in Ops, ObservePromotion(o) PROVE PublishedFact(th)'
  <2>1. Unpublished
    BY <1>18 DEF Unpublished, Stage, durable, ObservePromotion, QuarantinedIn, EndPhases,
        ProvisionPhases
  <2> QED BY <2>1, UnpublishedKeeps
<1>19. ASSUME NEW o \in Ops, AcquireRecoveryLease(o) PROVE PublishedFact(th)'
  <2>1. Unpublished
    BY <1>19 DEF Unpublished, Stage, durable, AcquireRecoveryLease, MaterializeActivating,
        QuarantinedIn, EndPhases, ProvisionPhases
  <2> QED BY <2>1, UnpublishedKeeps
<1>20. ASSUME NEW o \in Ops, PublishLifecycleProjection(o) PROVE PublishedFact(th)'
  <2>1. UNCHANGED <<phase, from, sess, bind>> /\ phase[o] \in PostPromotion
        /\ proj' = [proj EXCEPT ![ThreadOf[o]] = Shows("resident", sess[o])]
    BY <1>20 DEF PublishLifecycleProjection
  <2>2. CASE th # ThreadOf[o]
    <3>1. proj'[th] = proj[th] BY <2>1, <2>2
    <3> QED BY <2>1, <3>1 DEF PublishedFact, ProjectionProven, ForeignProjection, Stage
  <2>3. CASE th = ThreadOf[o]
    <3>1. Nonterminal(o) /\ o \in ProvisionOps
      BY <2>1, KindOfRecord DEF Nonterminal, PostPromotion, ProvisionPhases
    <3>2. proj'[th] = Shows("resident", sess[o]) BY <2>1, <2>3
    <3>3. ASSUME NEW s \in Sessions, bind[s].st = "active", ThreadOf[bind[s].op] = th PROVE s = sess[o]
      BY <2>3, <3>1, <3>3 DEF OwnSession, Commanded
    <3>4. ASSUME NEW p \in Ops, ThreadOf[p] = th, Stage(p) \in {"projection_committed"} \cup EndPhases
          PROVE p = o
      <4>1. Nonterminal(p) BY <3>4, Ongoing
      <4> QED BY <2>3, <3>1, <3>4, <4>1 DEF OneOperation
    <3> QED BY ONLY OpsAssumption, <2>1, <3>1, <3>2, <3>3, <3>4
            DEF PublishedFact, ProjectionProven, ForeignProjection, Stage, EndPhases, Ops
  <2> QED BY <2>2, <2>3
<1>21. ASSUME NEW o \in Ops, CommitProvision(o) PROVE PublishedFact(th)'
  <2>1. UNCHANGED <<phase, from, sess, proj>> /\ ProjectionProven(o) /\ phase[o] = "projection_committed"
    BY <1>21 DEF CommitProvision
  <2>2. o \in ProvisionOps BY <2>1, KindOfRecord DEF ProvisionPhases
  <2>4. sess[o] \in Sessions BY <2>1, <2>2 DEF Stage, BoundStages
  <2>3. \A s \in Sessions : bind'[s] = bind[s] \/ (s = sess[o] /\ bind'[s].op = o)
    BY <1>21, <2>4 DEF CommitProvision
  <2> QED BY <2>1, <2>2, <2>3 DEF PublishedFact, ProjectionProven, ForeignProjection, Stage
<1>22. ASSUME NEW o \in Ops, PrepareEnd(o) PROVE PublishedFact(th)'
  <2>1. Unpublished
    BY <1>22 DEF Unpublished, Stage, durable, PrepareEnd, QuarantinedIn, EndPhases,
        ProvisionPhases
  <2> QED BY <2>1, UnpublishedKeeps
<1>23. ASSUME NEW o \in Ops, PrepareEndAgain(o) PROVE PublishedFact(th)'
  <2>1. Unpublished
    BY <1>23 DEF Unpublished, Stage, durable, PrepareEndAgain, MaterializeRevoked,
        QuarantinedIn, EndPhases, ProvisionPhases
  <2> QED BY <2>1, UnpublishedKeeps
<1>24. ASSUME NEW o \in Ops, BeginKill(o) PROVE PublishedFact(th)'
  <2>1. Unpublished
    BY <1>24 DEF Unpublished, Stage, durable, BeginKill, QuarantinedIn, EndPhases,
        ProvisionPhases
  <2> QED BY <2>1, UnpublishedKeeps
<1>25. ASSUME NEW o \in Ops, AuthorizeKill(o) PROVE PublishedFact(th)'
  <2>1. Unpublished
    BY <1>25 DEF Unpublished, Stage, durable, AuthorizeKill, QuarantinedIn, EndPhases,
        ProvisionPhases
  <2> QED BY <2>1, UnpublishedKeeps
<1>26. ASSUME NEW o \in Ops, FailKillBeforeEffect(o) PROVE PublishedFact(th)'
  <2>1. Unpublished
    <3>1. CASE phase[o] = "ending"
      BY <1>26, <3>1 DEF Unpublished, Stage, FailKillBeforeEffect
    <3>2. CASE phase[o] # "ending"
      <4>1. phase[o] = "kill_dispatching" /\ phase' = [phase EXCEPT ![o] = "ending"]
            /\ UNCHANGED <<from, sess, bind, proj>>
        BY <1>26, <3>2 DEF FailKillBeforeEffect
      <4>2. \A p \in Ops : Stage(p)' = Stage(p) \/ (p = o /\ Stage(p) = "kill_dispatching" /\ Stage(p)' = "ending")
        BY <4>1 DEF Stage
      <4> QED BY <4>1, <4>2 DEF Unpublished, EndPhases, Stage
    <3> QED BY <3>1, <3>2
  <2> QED BY <2>1, UnpublishedKeeps
<1>27. ASSUME NEW o \in Ops, AcknowledgeKill(o) PROVE PublishedFact(th)'
  <2>1. Unpublished
    BY <1>27 DEF Unpublished, Stage, durable, AcknowledgeKill, QuarantinedIn, EndPhases,
        ProvisionPhases
  <2> QED BY <2>1, UnpublishedKeeps
<1>28. ASSUME NEW o \in Ops, CompleteQuarantinedEnd(o) PROVE PublishedFact(th)'
  <2>1. Unpublished
    BY <1>28 DEF Unpublished, Stage, durable, CompleteQuarantinedEnd, QuarantinedIn,
        QuarantinedIn, EndPhases, ProvisionPhases
  <2> QED BY <2>1, UnpublishedKeeps
<1>29. ASSUME NEW o \in Ops, RecoverInterrupted(o) PROVE PublishedFact(th)'
  <2>1. Unpublished
    BY <1>29 DEF Unpublished, Stage, durable, RecoverInterrupted, Quarantine, QuarantinedIn,
        EndPhases, ProvisionPhases
  <2> QED BY <2>1, UnpublishedKeeps
<1>30. ASSUME NEW o \in Ops, RecoverRevocation(o) PROVE PublishedFact(th)'
  <2>1. Unpublished
    BY <1>30 DEF Unpublished, Stage, durable, RecoverRevocation, MaterializeRevoked,
        QuarantinedIn, EndPhases, ProvisionPhases
  <2> QED BY <2>1, UnpublishedKeeps
<1>31. ASSUME NEW o \in Ops, RecoverAuthority(o) PROVE PublishedFact(th)'
  <2>1. Unpublished
    <3>1. UNCHANGED <<sess, bind, proj>> BY <1>31 DEF RecoverAuthority
    <3>2. \A p \in Ops : Stage(p)' = Stage(p)
      BY <1>31 DEF RecoverAuthority, AuthorityChanged, Quarantine, Stage
    <3> QED BY ONLY <3>1, <3>2 DEF Unpublished, Stage, Ops
  <2> QED BY <2>1, UnpublishedKeeps
<1>32. ASSUME NEW o \in Ops, NEW stage \in {"before", "after"}, RecoverActivating(stage, o) PROVE PublishedFact(th)'
  <2>1. Unpublished
    BY <1>32 DEF Unpublished, Stage, durable, RecoverActivating, MaterializeActivating,
        QuarantinedIn, EndPhases, ProvisionPhases
  <2> QED BY <2>1, UnpublishedKeeps
<1>33. ASSUME NEW o \in Ops, RecoverCommit(o) PROVE PublishedFact(th)'
  <2>1. Unpublished
    <3>1. UNCHANGED <<sess, bind, proj, from>> BY <1>33 DEF RecoverCommit
    <3>2. \A p \in Ops : phase'[p] = phase[p] \/ phase'[p] = "committed"
      BY <1>33 DEF RecoverCommit
    <3>3. \A p \in Ops : Stage(p)' = Stage(p) \/ Stage(p)' = "committed" BY <3>1, <3>2 DEF Stage
    <3> QED BY ONLY <3>1, <3>3 DEF Unpublished, EndPhases, Stage, Ops
  <2> QED BY <2>1, UnpublishedKeeps
<1>34. ASSUME NEW o \in Ops, RecoverEnded(o) PROVE PublishedFact(th)'
  <2>1. o \in EndOps /\ phase[o] \in {"kill_acknowledged", "completed"} /\ ~EndProjected(o)
    BY <1>34 DEF RecoverEnded, EndUnfinished
  <2>2. phase[o] = "kill_acknowledged" BY <2>1 DEF RecordFacts, EndFact
  <2>3. UNCHANGED <<phase, from, sess, bind>> BY <1>34 DEF RecoverEnded
  <2>4. proj' = proj \/ proj' = [proj EXCEPT ![ThreadOf[o]] = Shows("ended", sess[o])]
    BY <1>34 DEF RecoverEnded, ProjectEnd
  <2>5. CASE proj' = proj
    BY <2>3, <2>5 DEF PublishedFact, ProjectionProven, ForeignProjection, Stage
  <2>6. CASE proj' = [proj EXCEPT ![ThreadOf[o]] = Shows("ended", sess[o])]
    BY <2>1, <2>2, <2>3, <2>6, EndPublishes
  <2> QED BY <2>4, <2>5, <2>6
<1>35. ASSUME NEW o \in Ops, RecoverBindingCompleted(o) PROVE PublishedFact(th)'
  <2>1. Unpublished
    BY <1>35 DEF Unpublished, Stage, durable, RecoverBindingCompleted, CompleteBinding,
        QuarantinedIn, EndPhases, ProvisionPhases
  <2> QED BY <2>1, UnpublishedKeeps
<1>36. ASSUME NEW o \in Ops, RecoverCompleted(o) PROVE PublishedFact(th)'
  <2>1. Unpublished
    BY <1>36 DEF Unpublished, Stage, durable, RecoverCompleted, QuarantinedIn, EndPhases,
        ProvisionPhases
  <2> QED BY <2>1, UnpublishedKeeps
<1>37. ASSUME NEW o \in Ops, RecoverNothing(o) PROVE PublishedFact(th)'
  <2>1. Unpublished
    BY <1>37 DEF Unpublished, Stage, durable, RecoverNothing, QuarantinedIn, EndPhases,
        ProvisionPhases
  <2> QED BY <2>1, UnpublishedKeeps
<1>38. ASSUME NEW o \in Ops, QuarantineOutcomeUnknown(o) PROVE PublishedFact(th)'
  <2>1. Unpublished
    BY <1>38 DEF Unpublished, Stage, durable, QuarantineOutcomeUnknown, DispatchOf,
        QuarantinedIn, EndPhases, ProvisionPhases
  <2> QED BY <2>1, UnpublishedKeeps
<1>39. ASSUME StoreFault PROVE PublishedFact(th)'
  <2>1. Unpublished
    BY <1>39 DEF Unpublished, Stage, durable, StoreFault, QuarantinedIn, EndPhases,
        ProvisionPhases
  <2> QED BY <2>1, UnpublishedKeeps
<1>40. ASSUME Crash PROVE PublishedFact(th)'
  <2>1. Unpublished
    BY <1>40 DEF Unpublished, Stage, durable, Crash, QuarantinedIn, EndPhases, ProvisionPhases
  <2> QED BY <2>1, UnpublishedKeeps
<1>41. ASSUME Boot PROVE PublishedFact(th)'
  <2>1. Unpublished
    BY <1>41 DEF Unpublished, Stage, durable, Boot, QuarantinedIn, EndPhases, ProvisionPhases
  <2> QED BY <2>1, UnpublishedKeeps
<1>42. ASSUME FinishBefore PROVE PublishedFact(th)'
  <2>1. Unpublished
    BY <1>42 DEF Unpublished, Stage, durable, FinishBefore, QuarantinedIn, EndPhases,
        ProvisionPhases
  <2> QED BY <2>1, UnpublishedKeeps
<1>43. ASSUME FinishAfter PROVE PublishedFact(th)'
  <2>1. Unpublished
    BY <1>43 DEF Unpublished, Stage, durable, FinishAfter, QuarantinedIn, EndPhases,
        ProvisionPhases
  <2> QED BY <2>1, UnpublishedKeeps
<1>44. ASSUME NEW t \in Threads, WorkspaceChange(t) PROVE PublishedFact(th)'
  <2>1. Unpublished
    BY <1>44 DEF Unpublished, Stage, durable, WorkspaceChange, QuarantinedIn, EndPhases,
        ProvisionPhases
  <2> QED BY <2>1, UnpublishedKeeps
<1>45. CASE UNCHANGED storeVars
  BY <1>45 DEF storeVars, PublishedFact, ProjectionProven, ForeignProjection, Stage
<1> QED BY <1>1, <1>2, <1>3, <1>4, <1>5, <1>6, <1>7, <1>8, <1>9, <1>10, <1>11, <1>12, <1>13,
       <1>14, <1>15, <1>16, <1>17, <1>18, <1>19, <1>20, <1>21, <1>22, <1>23, <1>24, <1>25,
       <1>26, <1>27, <1>28, <1>29, <1>30, <1>31, <1>32, <1>33, <1>34, <1>35, <1>36, <1>37,
       <1>38, <1>39, <1>40, <1>41, <1>42, <1>43, <1>44, <1>45
     DEF StoreNext, CallStep, ProvisionStep, EndStep, RecoveryStep

(* A committed provision loses its binding only to an end on record.        *)
Keeping ==
    /\ \A o \in Ops : phase'[o] = "committed" => phase[o] = "committed" /\ sess'[o] = sess[o]
    /\ \A e \in EndOps : Recorded(e) => Recorded(e)' /\ sess'[e] = sess[e]
    /\ \A s \in Sessions : bind[s].st = "active" =>
          bind'[s] = bind[s] \/ \E e \in EndOps : Recorded(e)' /\ sess'[e] = s

(* That is all a committed provision needs.                                 *)
LEMMA KeepingKeeps ==
  ASSUME TypeOK, DurableInvariant, Keeping, NEW o \in Ops, CommittedFact(o)
  PROVE CommittedFact(o)'
<1> SUFFICES ASSUME phase'[o] = "committed"
    PROVE \/ bind'[sess'[o]] = [st |-> "active", op |-> o]
          \/ \E e \in EndOps : Recorded(e)' /\ sess'[e] = sess'[o]
  BY DEF CommittedFact
<1>1. phase[o] = "committed" /\ sess'[o] = sess[o] BY DEF Keeping
<1>2. o \in ProvisionOps BY <1>1, KindOfRecord DEF ProvisionPhases
<1>3. sess[o] \in Sessions
  BY <1>1, <1>2 DEF DurableInvariant, RecordShape, ProvisionShape, Stage, BoundStages
<1>4. CASE bind[sess[o]] = [st |-> "active", op |-> o]
  BY <1>1, <1>3, <1>4 DEF Keeping
<1>5. CASE \E e \in EndOps : Recorded(e) /\ sess[e] = sess[o]
  BY <1>1, <1>5 DEF Keeping
<1> QED BY <1>1, <1>4, <1>5 DEF CommittedFact

(* Every step leaves a committed provision bound, or its end on record.     *)
LEMMA CommittedStep ==
  ASSUME RecoveryInvariant, [StoreNext]_storeVars, NEW q \in Ops
  PROVE CommittedFact(q)'
<1> USE OpsAssumption DEF StoreInvariant, TypeOK, DurableInvariant, RecordShape, ProvisionShape, EndShape, Recorded, Record, Bind, Ops
<1> StoreInvariant /\ CommittedFact(q) BY DEF RecoveryInvariant
<1>1. ASSUME NEW o \in Ops, RetireTerminalGroup(o) PROVE CommittedFact(q)'
  <2>1. CASE UNCHANGED <<phase, bind>>
    BY <1>1, <2>1 DEF RetireTerminalGroup, CommittedFact
  <2>2. CASE ~UNCHANGED <<phase, bind>>
    <3>1. PICK g \in Retirable(o) :
            /\ phase' = [p \in Ops |-> IF p \in TerminalGroup(g) THEN "retired" ELSE phase[p]]
            /\ bind' = [s \in Sessions |->
                    IF g \in EndOps /\ s = sess[g] THEN [st |-> "retired", op |-> NoOp] ELSE bind[s]]
      BY <1>1, <2>2 DEF RetireTerminalGroup
    <3>2. g \in Ops /\ phase[g] = "completed"
          /\ (g \in EndOps => bind[sess[g]] = [st |-> "completed", op |-> g])
      BY DEF Retirable, TerminalGroupHead
    <3>3. UNCHANGED sess BY <1>1 DEF RetireTerminalGroup
    <3> SUFFICES ASSUME phase'[q] = "committed"
        PROVE \/ bind'[sess[q]] = [st |-> "active", op |-> q]
              \/ \E e \in EndOps : Recorded(e)' /\ sess[e] = sess[q]
      BY <3>3 DEF CommittedFact
    <3>4. phase[q] = "committed" /\ q \notin TerminalGroup(g) BY <3>1
    <3>5. q \in ProvisionOps BY <3>4, KindOfRecord DEF ProvisionPhases
    <3>6. sess[q] \in Sessions BY <3>4, <3>5 DEF Stage, BoundStages
    <3>7. ~(g \in EndOps /\ sess[g] = sess[q]) BY <3>4, <3>5 DEF TerminalGroup
    <3>8. CASE bind[sess[q]] = [st |-> "active", op |-> q]
      BY <3>1, <3>6, <3>7, <3>8
    <3>9. ASSUME NEW e \in EndOps, Recorded(e), sess[e] = sess[q]
          PROVE Recorded(e)' /\ sess[e] = sess[q]
      <4>1. e \notin TerminalGroup(g) BY <3>7, <3>9 DEF TerminalGroup
      <4> QED BY <3>1, <3>9, <4>1
    <3> QED BY <3>4, <3>8, <3>9 DEF CommittedFact
  <2> QED BY <2>1, <2>2
<1>2. ASSUME NEW o \in Ops, RefuseRegistryFull(o) PROVE CommittedFact(q)'
  <2>1. Keeping
    BY <1>2 DEF Keeping, durable, RefuseRegistryFull, Nonterminal
  <2> QED BY <2>1, KeepingKeeps
<1>3. ASSUME NEW o \in Ops, WritePrepared(o) PROVE CommittedFact(q)'
  <2>1. Keeping
    BY <1>3 DEF Keeping, durable, WritePrepared, Nonterminal
  <2> QED BY <2>1, KeepingKeeps
<1>4. ASSUME NEW o \in Ops, WriteActivating(o) PROVE CommittedFact(q)'
  <2>1. Keeping
    BY <1>4 DEF Keeping, durable, WriteActivating, Writing, MaterializeActivating, CanActivate,
        KeepsActivating, Nonterminal
  <2> QED BY <2>1, KeepingKeeps
<1>5. ASSUME NEW o \in Ops, WriteProjectionCommitted(o) PROVE CommittedFact(q)'
  <2>1. Keeping
    BY <1>5 DEF Keeping, durable, WriteProjectionCommitted, Nonterminal
  <2> QED BY <2>1, KeepingKeeps
<1>6. ASSUME NEW o \in Ops, WriteCommitted(o) PROVE CommittedFact(q)'
  <2>1. CallFact(o) /\ call.at = "committed"
    BY <1>6, CallInProgress DEF WriteCommitted, Writing
  <2>2. bind[sess[o]] = [st |-> "active", op |-> o] BY <2>1 DEF CallFact
  <2>3. UNCHANGED <<sess, bind>> /\ phase' = [phase EXCEPT ![o] = "committed"]
    BY <1>6 DEF WriteCommitted
  <2>4. CASE q = o BY <2>2, <2>3, <2>4 DEF CommittedFact
  <2>5. CASE q # o
    <3>1. phase'[q] = phase[q] BY <2>3, <2>5
    <3>2. \A e \in EndOps : Recorded(e) => Recorded(e)' BY <2>3
    <3> QED BY <2>3, <3>1, <3>2 DEF CommittedFact
  <2> QED BY <2>4, <2>5
<1>7. ASSUME NEW o \in Ops, WriteEnding(o) PROVE CommittedFact(q)'
  <2>1. CallFact(o) /\ call.at = "register"
    BY <1>7, CallInProgress DEF WriteEnding, Writing
  <2>2. phase[o] = "none" BY <2>1 DEF CallFact
  <2>3. PICK s \in Sessions : sess' = [sess EXCEPT ![o] = s] BY <1>7 DEF WriteEnding, ActiveOn
  <2>4. phase' = [phase EXCEPT ![o] = "ending"] /\ bind' = bind BY <1>7 DEF WriteEnding
  <2>5. Keeping BY <2>2, <2>3, <2>4 DEF Keeping
  <2> QED BY <2>5, KeepingKeeps
<1>8. ASSUME NEW o \in Ops, WriteDetached(o) PROVE CommittedFact(q)'
  <2>1. UNCHANGED <<phase, from, sess>> /\ o \in Ops BY <1>8 DEF WriteDetached
  <2>2. o \in EndOps /\ Recorded(o) 
    <3>1. CallFact(o) /\ call.at = "detached"
      BY <1>8, CallInProgress DEF WriteDetached, Writing
    <3> QED BY <3>1, KindOfRecord DEF CallFact, EndPhases
  <2>3. bind' = bind \/ bind' = [bind EXCEPT ![sess[o]] = [st |-> "detached", op |-> o]]
    BY <1>8 DEF WriteDetached, MaterializeRevoked
  <2>4. Keeping
    BY <2>1, <2>2, <2>3 DEF Keeping
  <2> QED BY <2>4, KeepingKeeps
<1>9. ASSUME NEW o \in Ops, WriteEnded(o) PROVE CommittedFact(q)'
  <2>1. Keeping
    BY <1>9 DEF Keeping, durable, WriteEnded, ProjectEnd, Nonterminal
  <2> QED BY <2>1, KeepingKeeps
<1>10. ASSUME NEW o \in Ops, WriteBindingCompleted(o) PROVE CommittedFact(q)'
  <2>1. UNCHANGED <<phase, from, sess>> BY <1>10 DEF WriteBindingCompleted
  <2>2. bind' = bind \/ (bind[sess[o]].st # "active"
                         /\ bind' = [bind EXCEPT ![sess[o]] = [st |-> "completed", op |-> o]])
    BY <1>10 DEF WriteBindingCompleted, CompleteBinding, CanCompleteBinding, Revoked
  <2>3. Keeping
    BY <2>1, <2>2 DEF Keeping
  <2> QED BY <2>3, KeepingKeeps
<1>11. ASSUME NEW o \in Ops, WriteCompleted(o) PROVE CommittedFact(q)'
  <2>1. Keeping
    BY <1>11 DEF Keeping, durable, WriteCompleted, Nonterminal
  <2> QED BY <2>1, KeepingKeeps
<1>12. ASSUME NEW o \in Ops, PrepareProvision(o) PROVE CommittedFact(q)'
  <2>1. Keeping
    BY <1>12 DEF Keeping, durable, PrepareProvision, Nonterminal
  <2> QED BY <2>1, KeepingKeeps
<1>13. ASSUME NEW o \in Ops, BeginOwnedCreate(o) PROVE CommittedFact(q)'
  <2>1. Keeping
    BY <1>13 DEF Keeping, durable, BeginOwnedCreate, Nonterminal
  <2> QED BY <2>1, KeepingKeeps
<1>14. ASSUME NEW o \in Ops, FailOwnedCreateBeforeEffect(o) PROVE CommittedFact(q)'
  <2>1. Keeping
    BY <1>14 DEF Keeping, durable, FailOwnedCreateBeforeEffect, Nonterminal
  <2> QED BY <2>1, KeepingKeeps
<1>15. ASSUME NEW o \in Ops, NEW s \in Sessions, ObserveOwnedCandidate(o, s) PROVE CommittedFact(q)'
  <2>1. phase[o] = "owned_create_dispatching" /\ phase' = [phase EXCEPT ![o] = "owned_observed"]
        /\ sess' = [sess EXCEPT ![o] = s] /\ bind' = bind
    BY <1>15 DEF ObserveOwnedCandidate
  <2>2. o \in ProvisionOps BY <2>1, KindOfRecord DEF ProvisionPhases
  <2>3. Keeping BY <2>1, <2>2 DEF Keeping
  <2> QED BY <2>3, KeepingKeeps
<1>16. ASSUME NEW o \in Ops, BeginPromotion(o) PROVE CommittedFact(q)'
  <2>1. Keeping
    BY <1>16 DEF Keeping, durable, BeginPromotion, Nonterminal
  <2> QED BY <2>1, KeepingKeeps
<1>17. ASSUME NEW o \in Ops, FailPromotionBeforeEffect(o) PROVE CommittedFact(q)'
  <2>1. Keeping
    BY <1>17 DEF Keeping, durable, FailPromotionBeforeEffect, Nonterminal
  <2> QED BY <2>1, KeepingKeeps
<1>18. ASSUME NEW o \in Ops, ObservePromotion(o) PROVE CommittedFact(q)'
  <2>1. Keeping
    BY <1>18 DEF Keeping, durable, ObservePromotion, Nonterminal
  <2> QED BY <2>1, KeepingKeeps
<1>19. ASSUME NEW o \in Ops, AcquireRecoveryLease(o) PROVE CommittedFact(q)'
  <2>1. UNCHANGED <<phase, from, sess>> BY <1>19 DEF AcquireRecoveryLease
  <2>2. bind' = bind \/ (bind[sess[o]].st = "none" /\ bind' = [bind EXCEPT ![sess[o]] = [st |-> "activating", op |-> o]])
    BY <1>19 DEF AcquireRecoveryLease, MaterializeActivating, CanActivate
  <2>3. Keeping
    BY <2>1, <2>2 DEF Keeping
  <2> QED BY <2>3, KeepingKeeps
<1>20. ASSUME NEW o \in Ops, PublishLifecycleProjection(o) PROVE CommittedFact(q)'
  <2>1. Keeping
    BY <1>20 DEF Keeping, durable, PublishLifecycleProjection, Nonterminal
  <2> QED BY <2>1, KeepingKeeps
<1>21. ASSUME NEW o \in Ops, CommitProvision(o) PROVE CommittedFact(q)'
  <2>1. UNCHANGED <<phase, sess>> /\ phase[o] = "projection_committed"
    BY <1>21 DEF CommitProvision
  <2>2. o \in ProvisionOps BY <2>1, KindOfRecord DEF ProvisionPhases
  <2>3. ProvisionFact(o) BY <2>2 DEF RecordFacts
  <2>4. bind[sess[o]].st = "active" => bind[sess[o]] = [st |-> "active", op |-> o]
    BY <2>1, <2>3 DEF ProvisionFact, Stage
  <2>5. bind' = bind \/ bind' = [bind EXCEPT ![sess[o]] = [st |-> "active", op |-> o]]
    BY <1>21 DEF CommitProvision
  <2>6. Keeping BY <2>1, <2>4, <2>5 DEF Keeping
  <2> QED BY <2>6, KeepingKeeps
<1>22. ASSUME NEW o \in Ops, PrepareEnd(o) PROVE CommittedFact(q)'
  <2>1. Keeping
    BY <1>22 DEF Keeping, durable, PrepareEnd, Nonterminal
  <2> QED BY <2>1, KeepingKeeps
<1>23. ASSUME NEW o \in Ops, PrepareEndAgain(o) PROVE CommittedFact(q)'
  <2>1. Keeping
    BY <1>23 DEF Keeping, durable, PrepareEndAgain, MaterializeRevoked, Nonterminal
  <2> QED BY <2>1, KeepingKeeps
<1>24. ASSUME NEW o \in Ops, BeginKill(o) PROVE CommittedFact(q)'
  <2>1. Keeping
    BY <1>24 DEF Keeping, durable, BeginKill, Nonterminal
  <2> QED BY <2>1, KeepingKeeps
<1>25. ASSUME NEW o \in Ops, AuthorizeKill(o) PROVE CommittedFact(q)'
  <2>1. Keeping
    BY <1>25 DEF Keeping, durable, AuthorizeKill, Nonterminal
  <2> QED BY <2>1, KeepingKeeps
<1>26. ASSUME NEW o \in Ops, FailKillBeforeEffect(o) PROVE CommittedFact(q)'
  <2>1. Keeping
    BY <1>26 DEF Keeping, durable, FailKillBeforeEffect, KillLeases, Nonterminal
  <2> QED BY <2>1, KeepingKeeps
<1>27. ASSUME NEW o \in Ops, AcknowledgeKill(o) PROVE CommittedFact(q)'
  <2>1. Keeping
    BY <1>27 DEF Keeping, durable, AcknowledgeKill, Nonterminal
  <2> QED BY <2>1, KeepingKeeps
<1>28. ASSUME NEW o \in Ops, CompleteQuarantinedEnd(o) PROVE CommittedFact(q)'
  <2>1. Keeping
    BY <1>28 DEF Keeping, durable, CompleteQuarantinedEnd, QuarantinedIn, Nonterminal
  <2> QED BY <2>1, KeepingKeeps
<1>29. ASSUME NEW o \in Ops, RecoverInterrupted(o) PROVE CommittedFact(q)'
  <2>1. Keeping
    BY <1>29 DEF Keeping, durable, RecoverInterrupted, Quarantine, Nonterminal
  <2> QED BY <2>1, KeepingKeeps
<1>30. ASSUME NEW o \in Ops, RecoverRevocation(o) PROVE CommittedFact(q)'
  <2>1. UNCHANGED <<phase, from, sess>> /\ o \in Ops BY <1>30 DEF RecoverRevocation
  <2>2. o \in EndOps /\ Recorded(o) BY <1>30 DEF RecoverRevocation, NeedsRevocation,
      QuarantinedIn
  <2>3. bind' = bind \/ bind' = [bind EXCEPT ![sess[o]] = [st |-> "detached", op |-> o]]
    BY <1>30 DEF RecoverRevocation, MaterializeRevoked
  <2>4. Keeping
    BY <2>1, <2>2, <2>3 DEF Keeping
  <2> QED BY <2>4, KeepingKeeps
<1>31. ASSUME NEW o \in Ops, RecoverAuthority(o) PROVE CommittedFact(q)'
  <2>1. Keeping
    BY <1>31 DEF Keeping, durable, RecoverAuthority, Quarantine, AuthorityChanged, Nonterminal,
        Nonterminal
  <2> QED BY <2>1, KeepingKeeps
<1>32. ASSUME NEW o \in Ops, NEW stage \in {"before", "after"}, RecoverActivating(stage, o) PROVE CommittedFact(q)'
  <2>1. UNCHANGED <<phase, from, sess>> BY <1>32 DEF RecoverActivating
  <2>2. bind' = bind \/ (bind[sess[o]].st = "none" /\ bind' = [bind EXCEPT ![sess[o]] = [st |-> "activating", op |-> o]])
    BY <1>32 DEF RecoverActivating, MaterializeActivating, CanActivate
  <2>3. Keeping
    BY <2>1, <2>2 DEF Keeping
  <2> QED BY <2>3, KeepingKeeps
<1>33. ASSUME NEW o \in Ops, RecoverCommit(o) PROVE CommittedFact(q)'
  <2>1. UNCHANGED <<sess, bind>> /\ bind[sess[o]].st = "active" /\ phase[o] = "projection_committed"
    BY <1>33 DEF RecoverCommit, CommitInterrupted
  <2>2. o \in ProvisionOps BY <2>1, KindOfRecord DEF ProvisionPhases
  <2>3. bind[sess[o]] = [st |-> "active", op |-> o]
    <3>1. ProvisionFact(o) BY <2>2 DEF RecordFacts
    <3> QED BY <2>1, <3>1 DEF ProvisionFact, Stage
  <2>4. phase' = phase \/ phase' = [phase EXCEPT ![o] = "committed"]
    BY <1>33 DEF RecoverCommit
  <2>5. CASE q = o /\ phase' # phase BY <2>1, <2>3, <2>5 DEF CommittedFact
  <2>6. CASE q # o \/ phase' = phase
    <3>1. phase'[q] = phase[q] BY <2>4, <2>6
    <3>2. \A e \in EndOps : Recorded(e) => Recorded(e)' BY <2>4
    <3> QED BY <2>1, <3>1, <3>2 DEF CommittedFact
  <2> QED BY <2>5, <2>6
<1>34. ASSUME NEW o \in Ops, RecoverEnded(o) PROVE CommittedFact(q)'
  <2>1. Keeping
    BY <1>34 DEF Keeping, durable, RecoverEnded, ProjectEnd, Nonterminal
  <2> QED BY <2>1, KeepingKeeps
<1>35. ASSUME NEW o \in Ops, RecoverBindingCompleted(o) PROVE CommittedFact(q)'
  <2>1. UNCHANGED <<phase, from, sess>> BY <1>35 DEF RecoverBindingCompleted
  <2>2. bind' = bind \/ (bind[sess[o]].st # "active"
                         /\ bind' = [bind EXCEPT ![sess[o]] = [st |-> "completed", op |-> o]])
    BY <1>35 DEF RecoverBindingCompleted, CompleteBinding, CanCompleteBinding, Revoked
  <2>3. Keeping
    BY <2>1, <2>2 DEF Keeping
  <2> QED BY <2>3, KeepingKeeps
<1>36. ASSUME NEW o \in Ops, RecoverCompleted(o) PROVE CommittedFact(q)'
  <2>1. Keeping
    BY <1>36 DEF Keeping, durable, RecoverCompleted, Nonterminal
  <2> QED BY <2>1, KeepingKeeps
<1>37. ASSUME NEW o \in Ops, RecoverNothing(o) PROVE CommittedFact(q)'
  <2>1. Keeping
    BY <1>37 DEF Keeping, durable, RecoverNothing, Nonterminal
  <2> QED BY <2>1, KeepingKeeps
<1>38. ASSUME NEW o \in Ops, QuarantineOutcomeUnknown(o) PROVE CommittedFact(q)'
  <2>1. Keeping
    BY <1>38 DEF Keeping, durable, QuarantineOutcomeUnknown, DispatchOf, Nonterminal
  <2> QED BY <2>1, KeepingKeeps
<1>39. ASSUME StoreFault PROVE CommittedFact(q)'
  <2>1. Keeping
    BY <1>39 DEF Keeping, durable, StoreFault, Nonterminal
  <2> QED BY <2>1, KeepingKeeps
<1>40. ASSUME Crash PROVE CommittedFact(q)'
  <2>1. Keeping
    BY <1>40 DEF Keeping, durable, Crash, Nonterminal
  <2> QED BY <2>1, KeepingKeeps
<1>41. ASSUME Boot PROVE CommittedFact(q)'
  <2>1. Keeping
    BY <1>41 DEF Keeping, durable, Boot, Nonterminal
  <2> QED BY <2>1, KeepingKeeps
<1>42. ASSUME FinishBefore PROVE CommittedFact(q)'
  <2>1. Keeping
    BY <1>42 DEF Keeping, durable, FinishBefore, Nonterminal
  <2> QED BY <2>1, KeepingKeeps
<1>43. ASSUME FinishAfter PROVE CommittedFact(q)'
  <2>1. Keeping
    BY <1>43 DEF Keeping, durable, FinishAfter, Nonterminal
  <2> QED BY <2>1, KeepingKeeps
<1>44. ASSUME NEW t \in Threads, WorkspaceChange(t) PROVE CommittedFact(q)'
  <2>1. Keeping
    BY <1>44 DEF Keeping, durable, WorkspaceChange, Nonterminal
  <2> QED BY <2>1, KeepingKeeps
<1>45. CASE UNCHANGED storeVars
  BY <1>45 DEF storeVars, CommittedFact
<1> QED BY <1>1, <1>2, <1>3, <1>4, <1>5, <1>6, <1>7, <1>8, <1>9, <1>10, <1>11, <1>12, <1>13,
       <1>14, <1>15, <1>16, <1>17, <1>18, <1>19, <1>20, <1>21, <1>22, <1>23, <1>24, <1>25,
       <1>26, <1>27, <1>28, <1>29, <1>30, <1>31, <1>32, <1>33, <1>34, <1>35, <1>36, <1>37,
       <1>38, <1>39, <1>40, <1>41, <1>42, <1>43, <1>44, <1>45
     DEF StoreNext, CallStep, ProvisionStep, EndStep, RecoveryStep

(* Every quarantine between two mutations is for a missing workspace.       *)
LEMMA ReasonStep ==
  ASSUME RecoveryInvariant, [StoreNext]_storeVars, NEW q \in Ops
  PROVE ReasonFact(q)'
<1> USE OpsAssumption
<1> USE DEF StoreInvariant, TypeOK, DurableInvariant, RecordShape, ProvisionShape, EndShape,
           Recorded, Record, Bind, Ops, durable, ReasonFact, Nonterminal, Interrupted,
           DispatchPhases, QuarantinedIn
<1> StoreInvariant /\ ReasonFact(q) BY DEF RecoveryInvariant
<1>1. ASSUME NEW o \in Ops, RetireTerminalGroup(o) PROVE ReasonFact(q)'
  BY <1>1 DEF RetireTerminalGroup, Writing
<1>2. ASSUME NEW o \in Ops, RefuseRegistryFull(o) PROVE ReasonFact(q)'
  BY <1>2 DEF RefuseRegistryFull
<1>3. ASSUME NEW o \in Ops, WritePrepared(o) PROVE ReasonFact(q)'
  BY <1>3 DEF WritePrepared
<1>4. ASSUME NEW o \in Ops, WriteActivating(o) PROVE ReasonFact(q)'
  BY <1>4 DEF WriteActivating, Writing, MaterializeActivating, CanActivate, KeepsActivating
<1>5. ASSUME NEW o \in Ops, WriteProjectionCommitted(o) PROVE ReasonFact(q)'
  BY <1>5 DEF WriteProjectionCommitted
<1>6. ASSUME NEW o \in Ops, WriteCommitted(o) PROVE ReasonFact(q)'
  BY <1>6 DEF WriteCommitted
<1>7. ASSUME NEW o \in Ops, WriteEnding(o) PROVE ReasonFact(q)'
  BY <1>7 DEF WriteEnding
<1>8. ASSUME NEW o \in Ops, WriteDetached(o) PROVE ReasonFact(q)'
  BY <1>8 DEF WriteDetached, MaterializeRevoked, CanRevoke, KeepsRevoked
<1>9. ASSUME NEW o \in Ops, WriteEnded(o) PROVE ReasonFact(q)'
  BY <1>9 DEF WriteEnded, ProjectEnd
<1>10. ASSUME NEW o \in Ops, WriteBindingCompleted(o) PROVE ReasonFact(q)'
  BY <1>10 DEF WriteBindingCompleted, CompleteBinding, CanCompleteBinding
<1>11. ASSUME NEW o \in Ops, WriteCompleted(o) PROVE ReasonFact(q)'
  BY <1>11 DEF WriteCompleted
<1>12. ASSUME NEW o \in Ops, PrepareProvision(o) PROVE ReasonFact(q)'
  BY <1>12 DEF PrepareProvision
<1>13. ASSUME NEW o \in Ops, BeginOwnedCreate(o) PROVE ReasonFact(q)'
  BY <1>13 DEF BeginOwnedCreate
<1>14. ASSUME NEW o \in Ops, FailOwnedCreateBeforeEffect(o) PROVE ReasonFact(q)'
  BY <1>14 DEF FailOwnedCreateBeforeEffect
<1>15. ASSUME NEW o \in Ops, NEW s \in Sessions, ObserveOwnedCandidate(o, s) PROVE ReasonFact(q)'
  BY <1>15 DEF ObserveOwnedCandidate
<1>16. ASSUME NEW o \in Ops, BeginPromotion(o) PROVE ReasonFact(q)'
  BY <1>16 DEF BeginPromotion
<1>17. ASSUME NEW o \in Ops, FailPromotionBeforeEffect(o) PROVE ReasonFact(q)'
  BY <1>17 DEF FailPromotionBeforeEffect
<1>18. ASSUME NEW o \in Ops, ObservePromotion(o) PROVE ReasonFact(q)'
  BY <1>18 DEF ObservePromotion
<1>19. ASSUME NEW o \in Ops, AcquireRecoveryLease(o) PROVE ReasonFact(q)'
  BY <1>19 DEF AcquireRecoveryLease, MaterializeActivating
<1>20. ASSUME NEW o \in Ops, PublishLifecycleProjection(o) PROVE ReasonFact(q)'
  BY <1>20 DEF PublishLifecycleProjection
<1>21. ASSUME NEW o \in Ops, CommitProvision(o) PROVE ReasonFact(q)'
  BY <1>21 DEF CommitProvision
<1>22. ASSUME NEW o \in Ops, PrepareEnd(o) PROVE ReasonFact(q)'
  BY <1>22 DEF PrepareEnd
<1>23. ASSUME NEW o \in Ops, PrepareEndAgain(o) PROVE ReasonFact(q)'
  BY <1>23 DEF PrepareEndAgain, MaterializeRevoked
<1>24. ASSUME NEW o \in Ops, BeginKill(o) PROVE ReasonFact(q)'
  BY <1>24 DEF BeginKill
<1>25. ASSUME NEW o \in Ops, AuthorizeKill(o) PROVE ReasonFact(q)'
  BY <1>25 DEF AuthorizeKill
<1>26. ASSUME NEW o \in Ops, FailKillBeforeEffect(o) PROVE ReasonFact(q)'
  BY <1>26 DEF FailKillBeforeEffect, KillLeases
<1>27. ASSUME NEW o \in Ops, AcknowledgeKill(o) PROVE ReasonFact(q)'
  BY <1>27 DEF AcknowledgeKill
<1>28. ASSUME NEW o \in Ops, CompleteQuarantinedEnd(o) PROVE ReasonFact(q)'
  BY <1>28 DEF CompleteQuarantinedEnd
<1>29. ASSUME NEW o \in Ops, RecoverInterrupted(o) PROVE ReasonFact(q)'
  BY <1>29 DEF RecoverInterrupted, Quarantine
<1>30. ASSUME NEW o \in Ops, RecoverRevocation(o) PROVE ReasonFact(q)'
  BY <1>30 DEF RecoverRevocation, MaterializeRevoked
<1>31. ASSUME NEW o \in Ops, RecoverAuthority(o) PROVE ReasonFact(q)'
  BY <1>31 DEF RecoverAuthority, Quarantine, AuthorityChanged
<1>32. ASSUME NEW o \in Ops, NEW stage \in {"before", "after"}, RecoverActivating(stage, o) PROVE ReasonFact(q)'
  BY <1>32 DEF RecoverActivating, MaterializeActivating
<1>33. ASSUME NEW o \in Ops, RecoverCommit(o) PROVE ReasonFact(q)'
  BY <1>33 DEF RecoverCommit, CommitInterrupted
<1>34. ASSUME NEW o \in Ops, RecoverEnded(o) PROVE ReasonFact(q)'
  BY <1>34 DEF RecoverEnded, ProjectEnd
<1>35. ASSUME NEW o \in Ops, RecoverBindingCompleted(o) PROVE ReasonFact(q)'
  BY <1>35 DEF RecoverBindingCompleted, CompleteBinding
<1>36. ASSUME NEW o \in Ops, RecoverCompleted(o) PROVE ReasonFact(q)'
  BY <1>36 DEF RecoverCompleted
<1>37. ASSUME NEW o \in Ops, RecoverNothing(o) PROVE ReasonFact(q)'
  BY <1>37 DEF RecoverNothing
<1>38. ASSUME NEW o \in Ops, QuarantineOutcomeUnknown(o) PROVE ReasonFact(q)'
  BY <1>38 DEF QuarantineOutcomeUnknown, DispatchOf
<1>39. ASSUME StoreFault PROVE ReasonFact(q)'
  BY <1>39 DEF StoreFault
<1>40. ASSUME Crash PROVE ReasonFact(q)'
  BY <1>40 DEF Crash
<1>41. ASSUME Boot PROVE ReasonFact(q)'
  BY <1>41 DEF Boot
<1>42. ASSUME FinishBefore PROVE ReasonFact(q)'
  BY <1>42 DEF FinishBefore
<1>43. ASSUME FinishAfter PROVE ReasonFact(q)'
  BY <1>43 DEF FinishAfter
<1>44. ASSUME NEW t \in Threads, WorkspaceChange(t) PROVE ReasonFact(q)'
  BY <1>44 DEF WorkspaceChange
<1>45. CASE UNCHANGED storeVars
  BY <1>45 DEF storeVars
<1> QED BY <1>1, <1>2, <1>3, <1>4, <1>5, <1>6, <1>7, <1>8, <1>9, <1>10, <1>11, <1>12, <1>13,
       <1>14, <1>15, <1>16, <1>17, <1>18, <1>19, <1>20, <1>21, <1>22, <1>23, <1>24, <1>25,
       <1>26, <1>27, <1>28, <1>29, <1>30, <1>31, <1>32, <1>33, <1>34, <1>35, <1>36, <1>37,
       <1>38, <1>39, <1>40, <1>41, <1>42, <1>43, <1>44, <1>45
     DEF StoreNext, CallStep, ProvisionStep, EndStep, RecoveryStep

(* The publication is in place when the method comes to record it.          *)
LEMMA PublishingStep ==
  ASSUME RecoveryInvariant, [StoreNext]_storeVars
  PROVE PublishingFact'
<1> USE OpsAssumption
<1> USE DEF StoreInvariant, TypeOK, DurableInvariant, RecordShape, ProvisionShape, EndShape,
           Recorded, Record, Bind, Ops, Writing, durable, PublishingFact, ProjectionProven,
           Idle, Ready, Writing, Recovering, Continue, Return, Fault
<1> StoreInvariant /\ PublishingFact BY DEF RecoveryInvariant
<1>0. call = Idle \/ mode = "up" BY DEF CallFacts
<1>1. ASSUME NEW o \in Ops, RetireTerminalGroup(o) PROVE PublishingFact'
  BY <1>1 DEF RetireTerminalGroup
<1>2. ASSUME NEW o \in Ops, RefuseRegistryFull(o) PROVE PublishingFact'
  BY <1>2 DEF RefuseRegistryFull
<1>3. ASSUME NEW o \in Ops, WritePrepared(o) PROVE PublishingFact'
  BY <1>3 DEF WritePrepared
<1>4. ASSUME NEW o \in Ops, WriteActivating(o) PROVE PublishingFact'
  BY <1>4 DEF WriteActivating, MaterializeActivating, CanActivate, KeepsActivating
<1>5. ASSUME NEW o \in Ops, WriteProjectionCommitted(o) PROVE PublishingFact'
  BY <1>5 DEF WriteProjectionCommitted
<1>6. ASSUME NEW o \in Ops, WriteCommitted(o) PROVE PublishingFact'
  BY <1>6 DEF WriteCommitted
<1>7. ASSUME NEW o \in Ops, WriteEnding(o) PROVE PublishingFact'
  BY <1>7 DEF WriteEnding
<1>8. ASSUME NEW o \in Ops, WriteDetached(o) PROVE PublishingFact'
  BY <1>8 DEF WriteDetached, MaterializeRevoked, CanRevoke, KeepsRevoked
<1>9. ASSUME NEW o \in Ops, WriteEnded(o) PROVE PublishingFact'
  BY <1>9 DEF WriteEnded, ProjectEnd
<1>10. ASSUME NEW o \in Ops, WriteBindingCompleted(o) PROVE PublishingFact'
  BY <1>10 DEF WriteBindingCompleted, CompleteBinding, CanCompleteBinding
<1>11. ASSUME NEW o \in Ops, WriteCompleted(o) PROVE PublishingFact'
  BY <1>11 DEF WriteCompleted
<1>12. ASSUME NEW o \in Ops, PrepareProvision(o) PROVE PublishingFact'
  BY <1>12 DEF PrepareProvision
<1>13. ASSUME NEW o \in Ops, BeginOwnedCreate(o) PROVE PublishingFact'
  BY <1>13 DEF BeginOwnedCreate
<1>14. ASSUME NEW o \in Ops, FailOwnedCreateBeforeEffect(o) PROVE PublishingFact'
  BY <1>14 DEF FailOwnedCreateBeforeEffect
<1>15. ASSUME NEW o \in Ops, NEW s \in Sessions, ObserveOwnedCandidate(o, s) PROVE PublishingFact'
  BY <1>15 DEF ObserveOwnedCandidate
<1>16. ASSUME NEW o \in Ops, BeginPromotion(o) PROVE PublishingFact'
  BY <1>16 DEF BeginPromotion
<1>17. ASSUME NEW o \in Ops, FailPromotionBeforeEffect(o) PROVE PublishingFact'
  BY <1>17 DEF FailPromotionBeforeEffect
<1>18. ASSUME NEW o \in Ops, ObservePromotion(o) PROVE PublishingFact'
  BY <1>18 DEF ObservePromotion
<1>19. ASSUME NEW o \in Ops, AcquireRecoveryLease(o) PROVE PublishingFact'
  BY <1>19 DEF AcquireRecoveryLease, MaterializeActivating
<1>20. ASSUME NEW o \in Ops, PublishLifecycleProjection(o) PROVE PublishingFact'
  BY <1>20 DEF PublishLifecycleProjection
<1>21. ASSUME NEW o \in Ops, CommitProvision(o) PROVE PublishingFact'
  BY <1>21 DEF CommitProvision
<1>22. ASSUME NEW o \in Ops, PrepareEnd(o) PROVE PublishingFact'
  BY <1>22 DEF PrepareEnd
<1>23. ASSUME NEW o \in Ops, PrepareEndAgain(o) PROVE PublishingFact'
  BY <1>23 DEF PrepareEndAgain, MaterializeRevoked
<1>24. ASSUME NEW o \in Ops, BeginKill(o) PROVE PublishingFact'
  BY <1>24 DEF BeginKill
<1>25. ASSUME NEW o \in Ops, AuthorizeKill(o) PROVE PublishingFact'
  BY <1>25 DEF AuthorizeKill
<1>26. ASSUME NEW o \in Ops, FailKillBeforeEffect(o) PROVE PublishingFact'
  BY <1>26 DEF FailKillBeforeEffect, KillLeases
<1>27. ASSUME NEW o \in Ops, AcknowledgeKill(o) PROVE PublishingFact'
  BY <1>27 DEF AcknowledgeKill
<1>28. ASSUME NEW o \in Ops, CompleteQuarantinedEnd(o) PROVE PublishingFact'
  BY <1>28 DEF CompleteQuarantinedEnd, QuarantinedIn
<1>29. ASSUME NEW o \in Ops, RecoverInterrupted(o) PROVE PublishingFact'
  BY <1>29 DEF RecoverInterrupted, Quarantine
<1>30. ASSUME NEW o \in Ops, RecoverRevocation(o) PROVE PublishingFact'
  BY <1>30 DEF RecoverRevocation, MaterializeRevoked
<1>31. ASSUME NEW o \in Ops, RecoverAuthority(o) PROVE PublishingFact'
  BY <1>31 DEF RecoverAuthority, Quarantine, AuthorityChanged, Nonterminal
<1>32. ASSUME NEW o \in Ops, NEW stage \in {"before", "after"}, RecoverActivating(stage, o) PROVE PublishingFact'
  BY <1>32 DEF RecoverActivating, MaterializeActivating
<1>33. ASSUME NEW o \in Ops, RecoverCommit(o) PROVE PublishingFact'
  BY <1>33 DEF RecoverCommit, CommitInterrupted
<1>34. ASSUME NEW o \in Ops, RecoverEnded(o) PROVE PublishingFact'
  <2>1. call' = Idle
    BY <1>34, <1>0 DEF RecoverEnded, Recovering
  <2> QED BY <2>1 DEF PublishingFact, Idle
<1>35. ASSUME NEW o \in Ops, RecoverBindingCompleted(o) PROVE PublishingFact'
  BY <1>35 DEF RecoverBindingCompleted, CompleteBinding
<1>36. ASSUME NEW o \in Ops, RecoverCompleted(o) PROVE PublishingFact'
  BY <1>36 DEF RecoverCompleted
<1>37. ASSUME NEW o \in Ops, RecoverNothing(o) PROVE PublishingFact'
  BY <1>37 DEF RecoverNothing
<1>38. ASSUME NEW o \in Ops, QuarantineOutcomeUnknown(o) PROVE PublishingFact'
  BY <1>38 DEF QuarantineOutcomeUnknown, DispatchOf
<1>39. ASSUME StoreFault PROVE PublishingFact'
  BY <1>39 DEF StoreFault
<1>40. ASSUME Crash PROVE PublishingFact'
  BY <1>40 DEF Crash
<1>41. ASSUME Boot PROVE PublishingFact'
  BY <1>41 DEF Boot
<1>42. ASSUME FinishBefore PROVE PublishingFact'
  BY <1>42 DEF FinishBefore
<1>43. ASSUME FinishAfter PROVE PublishingFact'
  BY <1>43 DEF FinishAfter
<1>44. ASSUME NEW t \in Threads, WorkspaceChange(t) PROVE PublishingFact'
  BY <1>44 DEF WorkspaceChange
<1>45. CASE UNCHANGED storeVars
  BY <1>45 DEF storeVars
<1> QED BY <1>1, <1>2, <1>3, <1>4, <1>5, <1>6, <1>7, <1>8, <1>9, <1>10, <1>11, <1>12, <1>13,
       <1>14, <1>15, <1>16, <1>17, <1>18, <1>19, <1>20, <1>21, <1>22, <1>23, <1>24, <1>25,
       <1>26, <1>27, <1>28, <1>29, <1>30, <1>31, <1>32, <1>33, <1>34, <1>35, <1>36, <1>37,
       <1>38, <1>39, <1>40, <1>41, <1>42, <1>43, <1>44, <1>45
     DEF StoreNext, CallStep, ProvisionStep, EndStep, RecoveryStep

(* Nobody but the settling method meets an acknowledged end.                *)
LEMMA SettlingStep ==
  ASSUME RecoveryInvariant, [StoreNext]_storeVars
  PROVE SettlingFact'
<1> USE OpsAssumption
<1> USE DEF StoreInvariant, TypeOK, DurableInvariant, RecordShape, ProvisionShape, EndShape,
           Recorded, Record, Bind, Ops, Writing, durable, SettlingFact, Idle, Ready, Writing,
           Recovering, Continue, Return, Fault
<1> StoreInvariant /\ SettlingFact BY DEF RecoveryInvariant
<1>0. call = Idle \/ mode = "up" BY DEF CallFacts
<1>1. ASSUME NEW o \in Ops, RetireTerminalGroup(o) PROVE SettlingFact'
  BY <1>1 DEF RetireTerminalGroup
<1>2. ASSUME NEW o \in Ops, RefuseRegistryFull(o) PROVE SettlingFact'
  BY <1>2 DEF RefuseRegistryFull
<1>3. ASSUME NEW o \in Ops, WritePrepared(o) PROVE SettlingFact'
  BY <1>3 DEF WritePrepared
<1>4. ASSUME NEW o \in Ops, WriteActivating(o) PROVE SettlingFact'
  BY <1>4 DEF WriteActivating, MaterializeActivating, CanActivate, KeepsActivating
<1>5. ASSUME NEW o \in Ops, WriteProjectionCommitted(o) PROVE SettlingFact'
  BY <1>5 DEF WriteProjectionCommitted
<1>6. ASSUME NEW o \in Ops, WriteCommitted(o) PROVE SettlingFact'
  BY <1>6 DEF WriteCommitted
<1>7. ASSUME NEW o \in Ops, WriteEnding(o) PROVE SettlingFact'
  BY <1>7 DEF WriteEnding
<1>8. ASSUME NEW o \in Ops, WriteDetached(o) PROVE SettlingFact'
  BY <1>8 DEF WriteDetached, MaterializeRevoked, CanRevoke, KeepsRevoked
<1>9. ASSUME NEW o \in Ops, WriteEnded(o) PROVE SettlingFact'
  <2>1. CallFact(o) /\ call.at = "ended" /\ call.op = o /\ mode = "up"
    BY <1>9, CallInProgress DEF WriteEnded, Writing
  <2>2. o \in EndOps /\ Stage(o) \in EndPhases BY <2>1, KindOfRecord DEF CallFact, EndPhases,
      Stage
  <2>3. ~ForeignProjection(o) BY <2>2 DEF RecoveryInvariant, PublishedFact
  <2>4. UNCHANGED phase /\ (mode' = "up" => call' = [op |-> o, at |-> "binding_completed"])
    BY <1>9, <2>3 DEF WriteEnded, Continue, Fault
  <2>5. \A e \in EndOps : phase[e] = "kill_acknowledged" => e = o BY <2>1 DEF SettlingFact
  <2> QED BY <2>4, <2>5 DEF SettlingFact
<1>10. ASSUME NEW o \in Ops, WriteBindingCompleted(o) PROVE SettlingFact'
  BY <1>10 DEF WriteBindingCompleted, CompleteBinding, CanCompleteBinding
<1>11. ASSUME NEW o \in Ops, WriteCompleted(o) PROVE SettlingFact'
  BY <1>11 DEF WriteCompleted
<1>12. ASSUME NEW o \in Ops, PrepareProvision(o) PROVE SettlingFact'
  BY <1>12 DEF PrepareProvision
<1>13. ASSUME NEW o \in Ops, BeginOwnedCreate(o) PROVE SettlingFact'
  BY <1>13 DEF BeginOwnedCreate
<1>14. ASSUME NEW o \in Ops, FailOwnedCreateBeforeEffect(o) PROVE SettlingFact'
  BY <1>14 DEF FailOwnedCreateBeforeEffect
<1>15. ASSUME NEW o \in Ops, NEW s \in Sessions, ObserveOwnedCandidate(o, s) PROVE SettlingFact'
  BY <1>15 DEF ObserveOwnedCandidate
<1>16. ASSUME NEW o \in Ops, BeginPromotion(o) PROVE SettlingFact'
  BY <1>16 DEF BeginPromotion
<1>17. ASSUME NEW o \in Ops, FailPromotionBeforeEffect(o) PROVE SettlingFact'
  BY <1>17 DEF FailPromotionBeforeEffect
<1>18. ASSUME NEW o \in Ops, ObservePromotion(o) PROVE SettlingFact'
  BY <1>18 DEF ObservePromotion
<1>19. ASSUME NEW o \in Ops, AcquireRecoveryLease(o) PROVE SettlingFact'
  BY <1>19 DEF AcquireRecoveryLease, MaterializeActivating
<1>20. ASSUME NEW o \in Ops, PublishLifecycleProjection(o) PROVE SettlingFact'
  BY <1>20 DEF PublishLifecycleProjection
<1>21. ASSUME NEW o \in Ops, CommitProvision(o) PROVE SettlingFact'
  BY <1>21 DEF CommitProvision
<1>22. ASSUME NEW o \in Ops, PrepareEnd(o) PROVE SettlingFact'
  BY <1>22 DEF PrepareEnd
<1>23. ASSUME NEW o \in Ops, PrepareEndAgain(o) PROVE SettlingFact'
  BY <1>23 DEF PrepareEndAgain, MaterializeRevoked
<1>24. ASSUME NEW o \in Ops, BeginKill(o) PROVE SettlingFact'
  BY <1>24 DEF BeginKill
<1>25. ASSUME NEW o \in Ops, AuthorizeKill(o) PROVE SettlingFact'
  BY <1>25 DEF AuthorizeKill
<1>26. ASSUME NEW o \in Ops, FailKillBeforeEffect(o) PROVE SettlingFact'
  BY <1>26 DEF FailKillBeforeEffect, KillLeases
<1>27. ASSUME NEW o \in Ops, AcknowledgeKill(o) PROVE SettlingFact'
  BY <1>27 DEF AcknowledgeKill
<1>28. ASSUME NEW o \in Ops, CompleteQuarantinedEnd(o) PROVE SettlingFact'
  BY <1>28 DEF CompleteQuarantinedEnd, QuarantinedIn
<1>29. ASSUME NEW o \in Ops, RecoverInterrupted(o) PROVE SettlingFact'
  BY <1>29 DEF RecoverInterrupted, Quarantine
<1>30. ASSUME NEW o \in Ops, RecoverRevocation(o) PROVE SettlingFact'
  BY <1>30 DEF RecoverRevocation, MaterializeRevoked
<1>31. ASSUME NEW o \in Ops, RecoverAuthority(o) PROVE SettlingFact'
  BY <1>31 DEF RecoverAuthority, Quarantine, AuthorityChanged, Nonterminal
<1>32. ASSUME NEW o \in Ops, NEW stage \in {"before", "after"}, RecoverActivating(stage, o) PROVE SettlingFact'
  BY <1>32 DEF RecoverActivating, MaterializeActivating
<1>33. ASSUME NEW o \in Ops, RecoverCommit(o) PROVE SettlingFact'
  BY <1>33 DEF RecoverCommit, CommitInterrupted
<1>34. ASSUME NEW o \in Ops, RecoverEnded(o) PROVE SettlingFact'
  BY <1>34 DEF RecoverEnded, ProjectEnd
<1>35. ASSUME NEW o \in Ops, RecoverBindingCompleted(o) PROVE SettlingFact'
  BY <1>35 DEF RecoverBindingCompleted, CompleteBinding
<1>36. ASSUME NEW o \in Ops, RecoverCompleted(o) PROVE SettlingFact'
  BY <1>36 DEF RecoverCompleted
<1>37. ASSUME NEW o \in Ops, RecoverNothing(o) PROVE SettlingFact'
  BY <1>37 DEF RecoverNothing
<1>38. ASSUME NEW o \in Ops, QuarantineOutcomeUnknown(o) PROVE SettlingFact'
  BY <1>38 DEF QuarantineOutcomeUnknown, DispatchOf
<1>39. ASSUME StoreFault PROVE SettlingFact'
  BY <1>39 DEF StoreFault
<1>40. ASSUME Crash PROVE SettlingFact'
  BY <1>40 DEF Crash
<1>41. ASSUME Boot PROVE SettlingFact'
  BY <1>41 DEF Boot
<1>42. ASSUME FinishBefore PROVE SettlingFact'
  BY <1>42 DEF FinishBefore
<1>43. ASSUME FinishAfter PROVE SettlingFact'
  <2>1. \A o \in Ops : phase[o] # "kill_acknowledged"
    BY <1>43 DEF FinishAfter, RecoveryInvariant, PassFacts, Replayed
  <2> QED BY <1>43, <2>1 DEF FinishAfter, SettlingFact, durable
<1>44. ASSUME NEW t \in Threads, WorkspaceChange(t) PROVE SettlingFact'
  BY <1>44 DEF WorkspaceChange
<1>45. CASE UNCHANGED storeVars
  BY <1>45 DEF storeVars
<1> QED BY <1>1, <1>2, <1>3, <1>4, <1>5, <1>6, <1>7, <1>8, <1>9, <1>10, <1>11, <1>12, <1>13,
       <1>14, <1>15, <1>16, <1>17, <1>18, <1>19, <1>20, <1>21, <1>22, <1>23, <1>24, <1>25,
       <1>26, <1>27, <1>28, <1>29, <1>30, <1>31, <1>32, <1>33, <1>34, <1>35, <1>36, <1>37,
       <1>38, <1>39, <1>40, <1>41, <1>42, <1>43, <1>44, <1>45
     DEF StoreNext, CallStep, ProvisionStep, EndStep, RecoveryStep

(* Two records share a session only as a committed provision and its end.   *)
LEMMA SharedOnlyWithEnd ==
  ASSUME TypeOK, DurableInvariant, NEW o \in Ops, NEW p \in Ops, Recorded(o), Recorded(p), o # p,
         sess[o] = sess[p], sess[o] \in Sessions
  PROVE /\ o \in ProvisionOps => phase[o] = "committed" /\ p \in EndOps
        /\ o \in EndOps => p \in ProvisionOps /\ phase[p] = "committed"
  BY OpsAssumption DEF DurableInvariant, SessionShared, Ops

(* What the recovery passes have done stays done.                           *)
LEMMA PassStep ==
  ASSUME RecoveryInvariant, [StoreNext]_storeVars
  PROVE PassFacts'
<1> USE OpsAssumption
<1> USE DEF StoreInvariant, TypeOK, DurableInvariant, RecordShape, ProvisionShape, EndShape,
           Recorded, Record, Bind, Ops, Writing, durable, PassFacts, Rebound, Replayed, Idle,
           Ready, Writing, Recovering, Continue, Return, Fault, CommitInterrupted,
           EndUnfinished, Stage, QuarantinedIn, KeepsRevoked, Revoked
<1> StoreInvariant /\ PassFacts BY DEF RecoveryInvariant
<1>1. ASSUME NEW o \in Ops, RetireTerminalGroup(o) PROVE PassFacts'
  BY <1>1 DEF RetireTerminalGroup
<1>2. ASSUME NEW o \in Ops, RefuseRegistryFull(o) PROVE PassFacts'
  BY <1>2 DEF RefuseRegistryFull
<1>3. ASSUME NEW o \in Ops, WritePrepared(o) PROVE PassFacts'
  BY <1>3 DEF WritePrepared
<1>4. ASSUME NEW o \in Ops, WriteActivating(o) PROVE PassFacts'
  BY <1>4 DEF WriteActivating, MaterializeActivating, CanActivate, KeepsActivating
<1>5. ASSUME NEW o \in Ops, WriteProjectionCommitted(o) PROVE PassFacts'
  BY <1>5 DEF WriteProjectionCommitted
<1>6. ASSUME NEW o \in Ops, WriteCommitted(o) PROVE PassFacts'
  BY <1>6 DEF WriteCommitted
<1>7. ASSUME NEW o \in Ops, WriteEnding(o) PROVE PassFacts'
  BY <1>7 DEF WriteEnding
<1>8. ASSUME NEW o \in Ops, WriteDetached(o) PROVE PassFacts'
  BY <1>8 DEF WriteDetached, MaterializeRevoked, CanRevoke
<1>9. ASSUME NEW o \in Ops, WriteEnded(o) PROVE PassFacts'
  BY <1>9 DEF WriteEnded, ProjectEnd
<1>10. ASSUME NEW o \in Ops, WriteBindingCompleted(o) PROVE PassFacts'
  BY <1>10 DEF WriteBindingCompleted, CompleteBinding, CanCompleteBinding
<1>11. ASSUME NEW o \in Ops, WriteCompleted(o) PROVE PassFacts'
  BY <1>11 DEF WriteCompleted
<1>12. ASSUME NEW o \in Ops, PrepareProvision(o) PROVE PassFacts'
  BY <1>12 DEF PrepareProvision
<1>13. ASSUME NEW o \in Ops, BeginOwnedCreate(o) PROVE PassFacts'
  BY <1>13 DEF BeginOwnedCreate
<1>14. ASSUME NEW o \in Ops, FailOwnedCreateBeforeEffect(o) PROVE PassFacts'
  BY <1>14 DEF FailOwnedCreateBeforeEffect
<1>15. ASSUME NEW o \in Ops, NEW s \in Sessions, ObserveOwnedCandidate(o, s) PROVE PassFacts'
  BY <1>15 DEF ObserveOwnedCandidate
<1>16. ASSUME NEW o \in Ops, BeginPromotion(o) PROVE PassFacts'
  BY <1>16 DEF BeginPromotion
<1>17. ASSUME NEW o \in Ops, FailPromotionBeforeEffect(o) PROVE PassFacts'
  BY <1>17 DEF FailPromotionBeforeEffect
<1>18. ASSUME NEW o \in Ops, ObservePromotion(o) PROVE PassFacts'
  BY <1>18 DEF ObservePromotion
<1>19. ASSUME NEW o \in Ops, AcquireRecoveryLease(o) PROVE PassFacts'
  BY <1>19 DEF AcquireRecoveryLease, MaterializeActivating
<1>20. ASSUME NEW o \in Ops, PublishLifecycleProjection(o) PROVE PassFacts'
  BY <1>20 DEF PublishLifecycleProjection
<1>21. ASSUME NEW o \in Ops, CommitProvision(o) PROVE PassFacts'
  BY <1>21 DEF CommitProvision
<1>22. ASSUME NEW o \in Ops, PrepareEnd(o) PROVE PassFacts'
  BY <1>22 DEF PrepareEnd
<1>23. ASSUME NEW o \in Ops, PrepareEndAgain(o) PROVE PassFacts'
  BY <1>23 DEF PrepareEndAgain, MaterializeRevoked
<1>24. ASSUME NEW o \in Ops, BeginKill(o) PROVE PassFacts'
  BY <1>24 DEF BeginKill
<1>25. ASSUME NEW o \in Ops, AuthorizeKill(o) PROVE PassFacts'
  BY <1>25 DEF AuthorizeKill
<1>26. ASSUME NEW o \in Ops, FailKillBeforeEffect(o) PROVE PassFacts'
  BY <1>26 DEF FailKillBeforeEffect, KillLeases
<1>27. ASSUME NEW o \in Ops, AcknowledgeKill(o) PROVE PassFacts'
  BY <1>27 DEF AcknowledgeKill
<1>28. ASSUME NEW o \in Ops, CompleteQuarantinedEnd(o) PROVE PassFacts'
  BY <1>28 DEF CompleteQuarantinedEnd
<1>29. ASSUME NEW o \in Ops, RecoverInterrupted(o) PROVE PassFacts'
  BY <1>29 DEF RecoverInterrupted, Quarantine
<1>30. ASSUME NEW o \in Ops, RecoverRevocation(o) PROVE PassFacts'
  <2>1. UNCHANGED <<phase, from, sess, todo>> /\ mode = "before" /\ mode' \in {"before", "degraded"}
        /\ o \in EndOps /\ Recorded(o) /\ o \in todo
    BY <1>30 DEF RecoverRevocation, NeedsRevocation, QuarantinedIn, Recovering
  <2>2. bind' = bind \/ bind' = [bind EXCEPT ![sess[o]] = [st |-> "detached", op |-> o]]
    BY <1>30 DEF RecoverRevocation, MaterializeRevoked
  <2>3. ASSUME NEW p \in Ops \ todo PROVE Rebound(p)' \/ mode' # "before"
    <3>1. Rebound(p) BY <2>1 DEF PassFacts
    <3>2. CASE p \in EndOps /\ Stage(p) = "ending"
      <4>1. Recorded(p) /\ p # o BY <2>1, <2>3, <3>2 DEF Stage, EndPhases
      <4>2. sess[p] # sess[o] BY <2>1, <3>2, <4>1, SharedOnlyWithEnd
      <4>3. bind'[sess[p]] = bind[sess[p]] BY <2>2, <2>1, <3>2, <4>1, <4>2
      <4> QED BY <2>1, <3>1, <3>2, <4>3 DEF Rebound, Revoked
    <3>3. CASE p \in ProvisionOps /\ phase[p] \in PostPromotion
      <4>1. sess[p] \in Sessions BY <3>3 DEF PostPromotion, BoundStages, Stage
      <4>a. sess[o] \in Sessions BY <2>1 DEF RecordShape, EndShape
      <4>b. \A s \in Sessions : bind'[s] = bind[s] \/ bind'[s].st = "detached"
        BY <2>2, <4>a
      <4>c. bind[sess[p]].st # "none" BY <3>1, <3>3 DEF Rebound
      <4>2. bind'[sess[p]].st # "none" BY ONLY <4>b, <4>c, <4>1
      <4> QED BY <2>1, <3>3, <4>2 DEF Rebound
    <3> QED BY <2>1, <3>2, <3>3 DEF Rebound, Stage
  <2> QED BY <2>1, <2>3 DEF PassFacts
<1>31. ASSUME NEW o \in Ops, RecoverAuthority(o) PROVE PassFacts'
  <2>1. UNCHANGED <<sess, bind, mode>> /\ mode = "before" /\ todo' = todo \ {o}
        /\ ~NeedsRevocation(o) /\ ~NeedsActivating(o)
    BY <1>31 DEF RecoverAuthority, Recovering
  <2>2. \A p \in Ops : Stage(p)' = Stage(p) /\ (phase'[p] = phase[p] \/ phase'[p] = "quarantined")
    BY <1>31 DEF RecoverAuthority, AuthorityChanged, Quarantine, Stage
  <2>3. Rebound(o)
    BY <2>1 DEF Rebound, NeedsRevocation, NeedsActivating, KeepsActivating, KeepsRevoked,
        QuarantinedIn,
          Stage
  <2>4. ASSUME NEW p \in Ops \ todo' PROVE Rebound(p)'
    <3>1. Rebound(p) BY <2>1, <2>3, <2>4 DEF PassFacts
    <3> QED BY ONLY <2>1, <2>2, <3>1, <2>4, p \in Ops DEF Rebound, Revoked, PostPromotion, Stage
  <2> QED BY <2>1, <2>4 DEF PassFacts
<1>32. ASSUME NEW o \in Ops, NEW stage \in {"before", "after"}, RecoverActivating(stage, o) PROVE PassFacts'
  <2>1. UNCHANGED <<phase, from, sess, todo>> /\ mode = stage /\ mode' \in {stage, "degraded"}
        /\ phase[o] \in PostPromotion /\ o \in ProvisionOps
    BY <1>32 DEF RecoverActivating, Recovering, NeedsActivating
  <2>2. bind' = bind \/ (bind[sess[o]].st = "none" /\ bind' = [bind EXCEPT ![sess[o]] = [st |-> "activating", op |-> o]])
    BY <1>32 DEF RecoverActivating, MaterializeActivating, CanActivate
  <2>3. \A s \in Sessions : \/ bind'[s] = bind[s]
                            \/ bind[s].st = "none" /\ bind'[s].st = "activating"
    BY <2>2
  <2>4. \A p \in Ops : Recorded(p) /\ (p \in EndOps \/ phase[p] \in PostPromotion) => sess[p] \in Sessions
    BY DEF PostPromotion, BoundStages, Stage
  <2>5. ASSUME NEW p \in Ops, Rebound(p) PROVE Rebound(p)'
    <3>1. CASE p \in EndOps /\ Stage(p) = "ending"
      <4>1. Recorded(p) BY <3>1 DEF Stage, EndPhases
      <4>2. bind'[sess[p]] = bind[sess[p]]
        BY <2>3, <2>4, <2>5, <3>1, <4>1 DEF Rebound, Revoked
      <4> QED BY <2>1, <2>5, <3>1, <4>2 DEF Rebound, Revoked
    <3>2. CASE p \in ProvisionOps /\ phase[p] \in PostPromotion
      <4>1. Recorded(p) BY <3>2 DEF PostPromotion
      <4>2. bind'[sess[p]].st # "none"
        BY <2>3, <2>4, <2>5, <3>2, <4>1 DEF Rebound
      <4> QED BY <2>1, <3>2, <4>2 DEF Rebound
    <3> QED BY <2>1, <3>1, <3>2 DEF Rebound, Stage
  <2>6. ASSUME NEW p \in Ops, Replayed(p) PROVE Replayed(p)'
    <3>1. CASE phase[p] = "projection_committed"
      <4>1. Recorded(p) /\ phase[p] \in PostPromotion BY <3>1 DEF PostPromotion
      <4>2. bind'[sess[p]].st # "active" BY <2>3, <2>4, <2>6, <3>1, <4>1 DEF Replayed,
          CommitInterrupted
      <4> QED BY <2>1, <2>6, <3>1, <4>2 DEF Replayed, CommitInterrupted
    <3> QED BY <2>1, <2>6, <3>1 DEF Replayed, CommitInterrupted
  <2> QED BY <2>1, <2>5, <2>6 DEF PassFacts
<1>33. ASSUME NEW o \in Ops, RecoverCommit(o) PROVE PassFacts'
  BY <1>33 DEF RecoverCommit
<1>34. ASSUME NEW o \in Ops, RecoverEnded(o) PROVE PassFacts'
  BY <1>34 DEF RecoverEnded, ProjectEnd
<1>35. ASSUME NEW o \in Ops, RecoverBindingCompleted(o) PROVE PassFacts'
  <2>1. UNCHANGED <<phase, from, sess, todo>> /\ mode = "after" /\ mode' \in {"after", "degraded"}
        /\ phase[o] \in {"kill_acknowledged", "completed"} /\ o \in EndOps
    BY <1>35 DEF RecoverBindingCompleted, Recovering, EndUnfinished
  <2>2. bind' = bind \/ bind' = [bind EXCEPT ![sess[o]] = [st |-> "completed", op |-> o]]
    BY <1>35 DEF RecoverBindingCompleted, CompleteBinding
  <2>3. \A p \in Ops : Recorded(p) /\ (p \in EndOps \/ phase[p] \in PostPromotion) => sess[p] \in Sessions
    BY DEF PostPromotion, BoundStages, Stage
  <2>4. ASSUME NEW p \in Ops, Rebound(p) PROVE Rebound(p)'
    <3>1. CASE p \in EndOps /\ Stage(p) = "ending"
      <4>1. Recorded(p) /\ Recorded(o) /\ p # o BY <2>1, <3>1 DEF Stage, EndPhases
      <4>2. sess[p] # sess[o] BY <2>1, <2>3, <3>1, <4>1, SharedOnlyWithEnd
      <4>3. bind'[sess[p]] = bind[sess[p]] BY <2>2, <2>3, <3>1, <4>1, <4>2
      <4> QED BY <2>1, <2>4, <3>1, <4>3 DEF Rebound, Revoked
    <3>2. CASE p \in ProvisionOps /\ phase[p] \in PostPromotion
      <4>1. Recorded(p) BY <3>2 DEF PostPromotion
      <4>2. bind'[sess[p]].st # "none"
        BY <2>2, <2>3, <2>4, <3>2, <4>1 DEF Rebound
      <4> QED BY <2>1, <3>2, <4>2 DEF Rebound
    <3> QED BY <2>1, <3>1, <3>2 DEF Rebound, Stage
  <2>5. ASSUME NEW p \in Ops, Replayed(p) PROVE Replayed(p)'
    <3>1. CASE phase[p] = "projection_committed"
      <4>1. Recorded(p) /\ phase[p] \in PostPromotion BY <3>1 DEF PostPromotion
      <4>2. bind'[sess[p]].st # "active" BY <2>2, <2>3, <2>5, <3>1, <4>1 DEF Replayed,
          CommitInterrupted
      <4> QED BY <2>1, <2>5, <3>1, <4>2 DEF Replayed, CommitInterrupted
    <3> QED BY <2>1, <2>5, <3>1 DEF Replayed, CommitInterrupted
  <2> QED BY <2>1, <2>4, <2>5 DEF PassFacts
<1>36. ASSUME NEW o \in Ops, RecoverCompleted(o) PROVE PassFacts'
  BY <1>36 DEF RecoverCompleted
<1>37. ASSUME NEW o \in Ops, RecoverNothing(o) PROVE PassFacts'
  <2>1. UNCHANGED <<phase, from, sess, bind, mode>> /\ mode = "after" /\ todo' = todo \ {o}
        /\ ~CommitInterrupted(o) /\ ~EndUnfinished(o)
    BY <1>37 DEF RecoverNothing, Recovering, durable
  <2>2. Replayed(o)
    BY <2>1, KindOfRecord DEF Replayed, EndUnfinished, EndPhases
  <2>3. \A p \in Ops \ todo' : Replayed(p) BY <2>1, <2>2 DEF PassFacts
  <2>4. \A p \in Ops : Rebound(p) BY <2>1 DEF PassFacts
  <2> QED BY ONLY <2>1, <2>3, <2>4 DEF PassFacts, Rebound, Replayed, CommitInterrupted, Stage,
      Revoked
<1>38. ASSUME NEW o \in Ops, QuarantineOutcomeUnknown(o) PROVE PassFacts'
  BY <1>38 DEF QuarantineOutcomeUnknown, DispatchOf
<1>39. ASSUME StoreFault PROVE PassFacts'
  BY <1>39 DEF StoreFault
<1>40. ASSUME Crash PROVE PassFacts'
  BY <1>40 DEF Crash
<1>41. ASSUME Boot PROVE PassFacts'
  <2>1. UNCHANGED <<phase, from, sess, bind>> /\ mode' \in {"before", "degraded"}
        /\ todo' = {o \in Ops : Recorded(o)}
    BY <1>41 DEF Boot, durable
  <2>2. ASSUME NEW p \in Ops \ todo' PROVE Rebound(p)'
    <3>1. phase[p] \in {"none", "retired"} BY <2>1, <2>2
    <3> QED BY <2>1, <3>1 DEF Rebound, Stage, PostPromotion
  <2> QED BY <2>1, <2>2 DEF PassFacts
<1>42. ASSUME FinishBefore PROVE PassFacts'
  BY <1>42 DEF FinishBefore
<1>43. ASSUME FinishAfter PROVE PassFacts'
  BY <1>43 DEF FinishAfter
<1>44. ASSUME NEW t \in Threads, WorkspaceChange(t) PROVE PassFacts'
  BY <1>44 DEF WorkspaceChange
<1>45. CASE UNCHANGED storeVars
  BY <1>45 DEF storeVars
<1> HIDE DEF PassFacts, Rebound, Replayed, Stage, CommitInterrupted, EndUnfinished, QuarantinedIn
<1> QED BY <1>1, <1>2, <1>3, <1>4, <1>5, <1>6, <1>7, <1>8, <1>9, <1>10, <1>11, <1>12, <1>13,
       <1>14, <1>15, <1>16, <1>17, <1>18, <1>19, <1>20, <1>21, <1>22, <1>23, <1>24, <1>25,
       <1>26, <1>27, <1>28, <1>29, <1>30, <1>31, <1>32, <1>33, <1>34, <1>35, <1>36, <1>37,
       <1>38, <1>39, <1>40, <1>41, <1>42, <1>43, <1>44, <1>45
     DEF StoreNext, CallStep, ProvisionStep, EndStep, RecoveryStep

(* When a recovery that met no missing workspace is through, the            *)
(* cross-check finds nothing to object to.                                  *)
LEMMA RecoveredIsValid ==
  ASSUME RecoveryInvariant, mode = "after", todo = {}, \A t \in Threads : ws[t],
         \A o \in Ops : phase[o] = "quarantined" => reason[o] # "authority_changed"
  PROVE ValidResidentState
<1> USE OpsAssumption DEF Ops
<1>1. TypeOK /\ DurableInvariant BY DEF RecoveryInvariant, StoreInvariant
<1>2. \A o \in Ops : phase[o] = "quarantined" => from[o] \in DispatchPhases \cup {"owned_observed"}
  BY DEF RecoveryInvariant, ReasonFact
<1>3. \A o \in Ops : Rebound(o) /\ Replayed(o) BY DEF RecoveryInvariant, PassFacts
<1>4. ASSUME NEW s \in Sessions PROVE BindingRecordValid(s)
  <2>1. BindingFact(s) BY <1>1 DEF DurableInvariant, BindingFacts
  <2>2. bind[s].st \in BindStates BY <1>1 DEF TypeOK
  <2>3. CASE bind[s].st = "activating"
    BY <1>2, <2>1, <2>3 DEF BindingFact, BindingRecordValid, Stage, PostPromotion,
        DispatchPhases
  <2>4. CASE bind[s].st = "detached"
    BY <1>2, <2>1, <2>4 DEF BindingFact, BindingRecordValid, Stage, EndPhases, DispatchPhases,
        QuarantinedIn
  <2>5. CASE bind[s].st = "active"
    BY <1>2, <2>1, <2>5 DEF BindingFact, BindingRecordValid, Stage, DispatchPhases,
        WorkspaceCurrent
  <2>6. CASE bind[s].st = "completed"
    BY <1>2, <1>3, <2>1, <2>6 DEF BindingFact, BindingRecordValid, Stage, DispatchPhases,
        Replayed
  <2> QED BY <2>2, <2>3, <2>4, <2>5, <2>6 DEF BindingRecordValid, BindStates
<1>5. ASSUME NEW o \in ProvisionOps PROVE ProvisionRecordValid(o)
  <2>1. ProvisionFact(o) /\ CommittedFact(o)
    BY <1>1 DEF DurableInvariant, RecordFacts, RecoveryInvariant
  <2>2. ~QuarantinedIn(o, PostPromotion) BY <1>2 DEF QuarantinedIn, PostPromotion,
      DispatchPhases
  <2>3. phase[o] \in PostPromotion => bind[sess[o]] = [st |-> "activating", op |-> o]
    BY <1>3, <2>1 DEF ProvisionFact, Rebound, Replayed, CommitInterrupted, PostPromotion, Stage
  <2> QED BY <2>1, <2>2, <2>3 DEF ProvisionRecordValid, CommittedFact
<1>6. ASSUME NEW o \in EndOps PROVE EndRecordValid(o)
  <2>1. EndFact(o) BY <1>1 DEF DurableInvariant, RecordFacts
  <2> QED BY <1>3, <2>1 DEF EndRecordValid, EndFact, Rebound, QuarantinedIn, Stage
<1> QED BY <1>4, <1>5, <1>6 DEF ValidResidentState

(* Only a missing workspace, now or when a record was quarantined for it,   *)
(* makes a restart degrade.                                                 *)
LEMMA ServesStep ==
  ASSUME RecoveryInvariant, [StoreNext]_storeVars, mode # "degraded", mode' = "degraded"
  PROVE \/ \E t \in Threads : ~ws[t]
        \/ \E o \in Ops : phase[o] = "quarantined" /\ reason[o] = "authority_changed"
<1> USE OpsAssumption DEF Ops
<1>1. TypeOK /\ DurableInvariant BY DEF RecoveryInvariant, StoreInvariant
<1>2. ASSUME NEW o \in Ops, RecoverRevocation(o) PROVE FALSE
  <2>1. ~CanRevoke(o) /\ NeedsRevocation(o) BY <1>2 DEF RecoverRevocation
  <2>2. EndFact(o) BY <1>1, <2>1 DEF DurableInvariant, RecordFacts, NeedsRevocation
  <2> QED BY <2>1, <2>2 DEF EndFact, CanRevoke, KeepsRevoked, NeedsRevocation, QuarantinedIn,
      Stage, Revoked
<1>3. ASSUME NEW o \in Ops, NEW stage \in {"before", "after"}, RecoverActivating(stage, o) PROVE FALSE
  <2>1. ~CanActivate(o) /\ NeedsActivating(o) BY <1>3 DEF RecoverActivating
  <2>2. o \in ProvisionOps /\ phase[o] \in PostPromotion BY <2>1 DEF NeedsActivating
  <2>3. ProvisionFact(o) /\ Stage(o) = phase[o]
    BY <1>1, <2>2 DEF DurableInvariant, RecordFacts, Stage, PostPromotion
  <2>4. bind[sess[o]].st = "none"
    BY <2>1, <2>2, <2>3 DEF ProvisionFact, CanActivate, KeepsActivating, PostPromotion
  <2>5. Nonterminal(o) /\ ThreadOf[o] \in Threads BY <2>2 DEF Nonterminal, Recorded,
      PostPromotion
  <2>6. ASSUME NEW s \in Sessions, Commanded(s, ThreadOf[o]) PROVE FALSE
    <3>1. sess[o] = s BY <1>1, <2>5, <2>6 DEF DurableInvariant, OwnSession
    <3> QED BY <2>4, <2>6, <3>1 DEF Commanded
  <2>7. AuthorityOn(ThreadOf[o]) = {} BY <1>1, <2>5, <2>6, AuthorityPointwise DEF AuthorityOn
  <2> QED BY <2>1, <2>4, <2>7 DEF CanActivate
<1>4. ASSUME NEW o \in Ops, RecoverCommit(o) PROVE FALSE
  <2>1. phase[o] = "projection_committed" /\ ~ProjectionProven(o)
    BY <1>4 DEF RecoverCommit, CommitInterrupted
  <2>2. o \in ProvisionOps /\ ThreadOf[o] \in Threads BY <1>1, <2>1, KindOfRecord DEF
      ProvisionPhases
  <2>3. PublishedFact(ThreadOf[o]) BY <2>2 DEF RecoveryInvariant
  <2> QED BY <2>1, <2>2, <2>3 DEF PublishedFact, Stage
<1>5. ASSUME NEW o \in Ops, RecoverEnded(o) PROVE FALSE
  <2>1. o \in EndOps /\ phase[o] \in {"kill_acknowledged", "completed"} /\ ~EndProjected(o)
        /\ ForeignProjection(o)
    BY <1>5 DEF RecoverEnded, EndUnfinished
  <2>2. phase[o] = "kill_acknowledged" BY <1>1, <2>1 DEF DurableInvariant, RecordFacts, EndFact
  <2>3. PublishedFact(ThreadOf[o]) BY <2>1 DEF RecoveryInvariant
  <2> QED BY <2>1, <2>2, <2>3 DEF PublishedFact, Stage, EndPhases
<1>6. ASSUME NEW o \in Ops, RecoverBindingCompleted(o) PROVE FALSE
  <2>1. o \in EndOps /\ phase[o] \in {"kill_acknowledged", "completed"} /\ ~CanCompleteBinding(o)
    BY <1>6 DEF RecoverBindingCompleted, EndUnfinished
  <2>2. EndFact(o) BY <1>1, <2>1 DEF DurableInvariant, RecordFacts
  <2> QED BY <2>1, <2>2 DEF EndFact, CanCompleteBinding, Stage, Revoked
<1>7. CASE Boot
  BY <1>1, <1>7 DEF Boot, DurableInvariant, OneOperation, DirectoryValid
<1>8. CASE FinishAfter
  BY <1>8, RecoveredIsValid DEF FinishAfter
<1>9. ASSUME NEW o \in Ops, CallStep(o) PROVE FALSE
  BY <1>9 DEF CallStep, RetireTerminalGroup, RefuseRegistryFull, WritePrepared, WriteActivating,
        WriteProjectionCommitted, WriteCommitted, WriteEnding, WriteDetached, WriteEnded,
        WriteBindingCompleted, WriteCompleted, Writing, Fault
<1>10. ASSUME NEW o \in Ops, ProvisionStep(o) PROVE FALSE
  BY <1>10 DEF ProvisionStep, PrepareProvision, BeginOwnedCreate, FailOwnedCreateBeforeEffect,
        ObserveOwnedCandidate, BeginPromotion, FailPromotionBeforeEffect, ObservePromotion,
        AcquireRecoveryLease, PublishLifecycleProjection, CommitProvision, Ready, Fault
<1>11. ASSUME NEW o \in Ops, EndStep(o) \/ QuarantineOutcomeUnknown(o) PROVE FALSE
  BY <1>11 DEF EndStep, PrepareEnd, PrepareEndAgain, BeginKill, AuthorizeKill,
      FailKillBeforeEffect,
        AcknowledgeKill, CompleteQuarantinedEnd, QuarantineOutcomeUnknown, Ready, Fault
<1>12. ASSUME NEW o \in Ops,
              RecoverInterrupted(o) \/ RecoverAuthority(o) \/ RecoverCompleted(o) \/ RecoverNothing(o)
       PROVE FALSE
  BY <1>12 DEF RecoverInterrupted, RecoverAuthority, RecoverCompleted, RecoverNothing
<1>13. ASSUME StoreFault \/ Crash \/ FinishBefore \/ (\E t \in Threads : WorkspaceChange(t))
              \/ UNCHANGED storeVars
       PROVE FALSE
  BY <1>13 DEF StoreFault, Crash, FinishBefore, WorkspaceChange, Fault, storeVars
<1> QED BY <1>2, <1>3, <1>4, <1>5, <1>6, <1>7, <1>8, <1>9, <1>10, <1>11, <1>12, <1>13
     DEF StoreNext, RecoveryStep

(* RecoveryInvariant is inductive.                                          *)
LEMMA RecoveryInvariantInit == StoreInit => RecoveryInvariant
<1> SUFFICES ASSUME StoreInit PROVE RecoveryInvariant
  OBVIOUS
<1>1. StoreInvariant BY InvariantInit
<1>2. ASSUME NEW t \in Threads PROVE PublishedFact(t)
  BY OpsAssumption DEF StoreInit, PublishedFact, Unbound, Stage, EndPhases, Ops
<1>3. ASSUME NEW o \in Ops PROVE CommittedFact(o) /\ ReasonFact(o)
  BY DEF StoreInit, CommittedFact, ReasonFact
<1>4. PublishingFact /\ SettlingFact /\ PassFacts
  BY DEF StoreInit, PublishingFact, SettlingFact, PassFacts, Idle
<1> QED BY <1>1, <1>2, <1>3, <1>4 DEF RecoveryInvariant

(* No step of the Store breaks it.                                          *)
LEMMA RecoveryInvariantStep == RecoveryInvariant /\ [StoreNext]_storeVars => RecoveryInvariant'
<1> SUFFICES ASSUME RecoveryInvariant, [StoreNext]_storeVars PROVE RecoveryInvariant'
  OBVIOUS
<1>1. StoreInvariant' BY StepKeepsInvariant DEF RecoveryInvariant
<1>2. \A t \in Threads : PublishedFact(t)' BY PublishedStep
<1>3. \A o \in Ops : CommittedFact(o)' /\ ReasonFact(o)' BY CommittedStep, ReasonStep
<1>4. PublishingFact' /\ SettlingFact' /\ PassFacts' BY PublishingStep, SettlingStep, PassStep
<1> QED BY <1>1, <1>2, <1>3, <1>4 DEF RecoveryInvariant

(* The invariant a restart relies on holds in every reachable state.        *)
THEOREM RecoveryInvariantHolds == StoreSpec => []RecoveryInvariant
<1> QED BY RecoveryInvariantInit, RecoveryInvariantStep, PTL DEF StoreSpec

(* No caller finds an end between its acknowledgement and its completion.   *)
THEOREM AcknowledgedNotServedHolds == StoreSpec => []AcknowledgedNotServed
<1>1. RecoveryInvariant => AcknowledgedNotServed
  <2> SUFFICES ASSUME RecoveryInvariant, Ready, NEW o \in EndOps, phase[o] = "kill_acknowledged"
      PROVE FALSE
    BY DEF AcknowledgedNotServed
  <2> QED BY DEF RecoveryInvariant, SettlingFact, Ready, Idle
<1> QED BY <1>1, RecoveryInvariantHolds, PTL

(* However the process stopped, recovery serves again, unless a workspace   *)
(* is missing or was when an earlier recovery quarantined for it.           *)
THEOREM RecoveryServesHolds == StoreSpec => RecoveryServes
<1>1. RecoveryInvariant /\ [StoreNext]_storeVars =>
        [mode # "degraded" /\ mode' = "degraded" =>
            \/ \E t \in Threads : ~ws[t]
            \/ \E o \in Ops : phase[o] = "quarantined" /\ reason[o] = "authority_changed"]_storeVars
  BY ServesStep
<1> QED BY <1>1, RecoveryInvariantHolds, PTL DEF StoreSpec, RecoveryServes

-----------------------------------------------------------------------------
(* The lifecycle Store implements SessionAuthority: each of its steps      *)
(* changes at most one binding record, in one of five ways, and each way   *)
(* grants, revokes or ends a session, or is invisible.                     *)

USE DEF Ops, TypeOK, Phases, ProvisionPhases, EndPhases, PostPromotion, BindStates
USE DEF Stage, EarlyStages, CandidateStages, BoundStages, Recorded, Nonterminal

(* The only ways a step changes a binding record.                          *)
BindingStep ==
    \/ UNCHANGED bind
    \/ \E o \in ProvisionOps :
        /\ sess[o] \in Sessions /\ bind[sess[o]].st = "none"
        /\ bind' = [bind EXCEPT ![sess[o]] = [st |-> "activating", op |-> o]]
    \/ \E o \in ProvisionOps :
        /\ sess[o] \in Sessions /\ phase[o] = "projection_committed"
        /\ bind[sess[o]] \in {[st |-> "activating", op |-> o], [st |-> "active", op |-> o]}
        /\ bind' = [bind EXCEPT ![sess[o]] = [st |-> "active", op |-> o]]
    \/ \E o \in EndOps :
        /\ Recorded(o) /\ sess[o] \in Sessions /\ bind[sess[o]].st = "active"
        /\ bind' = [bind EXCEPT ![sess[o]] = [st |-> "detached", op |-> o]]
    \/ \E o \in EndOps :
        /\ sess[o] \in Sessions /\ bind[sess[o]] = [st |-> "detached", op |-> o]
        /\ bind' = [bind EXCEPT ![sess[o]] = [st |-> "completed", op |-> o]]
    \/ \E o \in EndOps :
        /\ sess[o] \in Sessions /\ bind[sess[o]] = [st |-> "completed", op |-> o]
        /\ bind' = [bind EXCEPT ![sess[o]] = [st |-> "retired", op |-> NoOp]]

(* Which records name a session, and the binding they can hold.            *)
LEMMA SessionOfRecord ==
  ASSUME StoreInvariant, NEW o \in Ops
  PROVE /\ o \in ProvisionOps /\ Stage(o) \in PostPromotion => sess[o] \in Sessions
        /\ o \in EndOps /\ Recorded(o) => sess[o] \in Sessions
        /\ o \in ProvisionOps /\ phase[o] = "projection_committed" /\ bind[sess[o]].st = "active" =>
              bind[sess[o]] = [st |-> "active", op |-> o]
<1> USE DEF StoreInvariant
<1>1. /\ o \in ProvisionOps /\ Stage(o) \in PostPromotion => sess[o] \in Sessions
      /\ o \in EndOps /\ Recorded(o) => sess[o] \in Sessions
  BY DEF DurableInvariant, RecordShape, ProvisionShape, EndShape
<1>2. ASSUME o \in ProvisionOps, phase[o] = "projection_committed", bind[sess[o]].st = "active"
      PROVE bind[sess[o]] = [st |-> "active", op |-> o]
  <2>1. ProvisionFact(o)
    BY <1>2 DEF DurableInvariant, RecordFacts
  <2> QED BY <1>2, <2>1 DEF ProvisionFact
<1> QED BY <1>1, <1>2

(* Every step of the Store changes the bindings in one of these ways.      *)
LEMMA StepIsBindingStep ==
  ASSUME StoreInvariant, [StoreNext]_storeVars PROVE BindingStep
<1> USE DEF Bind, Record, Writing, durable
<1>1. ASSUME NEW o \in Ops, CallStep(o) PROVE BindingStep
  <2>1. CASE RetireTerminalGroup(o)
    <3>1. SUFFICES ASSUME bind' # bind PROVE BindingStep
      BY DEF BindingStep
    <3>2. PICK g \in Retirable(o) :
            bind' = [s \in Sessions |->
                    IF g \in EndOps /\ s = sess[g] THEN [st |-> "retired", op |-> NoOp] ELSE bind[s]]
      BY <2>1, <3>1 DEF RetireTerminalGroup
    <3>3. g \in EndOps
      BY <3>1, <3>2 DEF StoreInvariant
    <3>4. Recorded(g) /\ bind[sess[g]] = [st |-> "completed", op |-> g]
      BY <3>3 DEF Retirable, TerminalGroupHead
    <3>5. sess[g] \in Sessions
      BY <3>3, <3>4, SessionOfRecord
    <3>6. bind' = [bind EXCEPT ![sess[g]] = [st |-> "retired", op |-> NoOp]]
      BY <3>2, <3>3, <3>5 DEF StoreInvariant
    <3> QED BY <3>3, <3>4, <3>5, <3>6 DEF BindingStep
  <2>2. CASE WriteActivating(o)
    <3>1. CallFact(o) /\ call.at = "activating"
      BY <2>2, CallInProgress DEF WriteActivating, StoreInvariant
    <3>2. o \in ProvisionOps /\ sess[o] \in Sessions
      BY <3>1, KindOfRecord, SessionOfRecord DEF CallFact, StoreInvariant
    <3> QED BY <2>2, <3>2 DEF WriteActivating, MaterializeActivating, CanActivate, BindingStep
  <2>3. CASE WriteDetached(o)
    <3>1. CallFact(o) /\ call.at = "detached"
      BY <2>3, CallInProgress DEF WriteDetached, StoreInvariant
    <3>2. o \in EndOps /\ Recorded(o) /\ sess[o] \in Sessions
      BY <3>1, KindOfRecord, SessionOfRecord DEF CallFact, StoreInvariant
    <3> QED BY <2>3, <3>2 DEF WriteDetached, MaterializeRevoked, CanRevoke, BindingStep
  <2>4. CASE WriteBindingCompleted(o)
    <3>1. CallFact(o) /\ call.at = "binding_completed"
      BY <2>4, CallInProgress DEF WriteBindingCompleted, StoreInvariant
    <3>2. o \in EndOps /\ Recorded(o) /\ sess[o] \in Sessions
      BY <3>1, KindOfRecord, SessionOfRecord DEF CallFact, StoreInvariant
    <3> QED BY <2>4, <3>2 DEF WriteBindingCompleted, CompleteBinding, CanCompleteBinding,
          Revoked, BindingStep
  <2> QED BY <1>1, <2>1, <2>2, <2>3, <2>4 DEF CallStep, RefuseRegistryFull, WritePrepared,
        WriteProjectionCommitted,
            WriteCommitted, WriteEnding, WriteEnded, WriteCompleted, BindingStep
<1>2. ASSUME NEW o \in Ops, ProvisionStep(o) PROVE BindingStep
  <2>1. CASE AcquireRecoveryLease(o)
    <3>1. o \in ProvisionOps /\ sess[o] \in Sessions
      BY <2>1, KindOfRecord, SessionOfRecord DEF AcquireRecoveryLease, StoreInvariant
    <3> QED BY <2>1, <3>1 DEF AcquireRecoveryLease, MaterializeActivating, CanActivate,
          BindingStep
  <2>2. CASE CommitProvision(o)
    <3>1. o \in ProvisionOps /\ sess[o] \in Sessions
      BY <2>2, KindOfRecord, SessionOfRecord DEF CommitProvision, StoreInvariant
    <3> QED BY <2>2, <3>1, SessionOfRecord DEF CommitProvision, CanCommit, BindingStep
  <2> QED BY <1>2, <2>1, <2>2 DEF ProvisionStep, PrepareProvision, BeginOwnedCreate,
        FailOwnedCreateBeforeEffect,
            ObserveOwnedCandidate, BeginPromotion, FailPromotionBeforeEffect, ObservePromotion, PublishLifecycleProjection, BindingStep
<1>3. ASSUME NEW o \in Ops, EndStep(o) PROVE BindingStep
  <2>1. CASE PrepareEndAgain(o)
    <3>1. o \in EndOps /\ Recorded(o) /\ sess[o] \in Sessions
      BY <2>1, SessionOfRecord DEF PrepareEndAgain
    <3> QED BY <2>1, <3>1 DEF PrepareEndAgain, MaterializeRevoked, CanRevoke, BindingStep
  <2> QED BY <1>3, <2>1 DEF EndStep, PrepareEnd, BeginKill, AuthorizeKill,
        FailKillBeforeEffect, AcknowledgeKill,
            CompleteQuarantinedEnd, BindingStep
<1>4. ASSUME NEW o \in Ops, RecoveryStep(o) PROVE BindingStep
  <2>1. CASE RecoverRevocation(o)
    <3>1. o \in EndOps /\ Recorded(o) /\ sess[o] \in Sessions
      BY <2>1, SessionOfRecord DEF RecoverRevocation, NeedsRevocation, QuarantinedIn
    <3> QED BY <2>1, <3>1 DEF RecoverRevocation, MaterializeRevoked, CanRevoke, BindingStep
  <2>2. ASSUME NEW stage \in {"before", "after"}, RecoverActivating(stage, o) PROVE BindingStep
    <3>1. o \in ProvisionOps /\ sess[o] \in Sessions
      BY <2>2, SessionOfRecord DEF RecoverActivating, NeedsActivating
    <3> QED BY <2>2, <3>1 DEF RecoverActivating, MaterializeActivating, CanActivate, BindingStep
  <2>3. CASE RecoverBindingCompleted(o)
    <3>1. o \in EndOps /\ Recorded(o) /\ sess[o] \in Sessions
      BY <2>3, SessionOfRecord DEF RecoverBindingCompleted, EndUnfinished
    <3> QED BY <2>3, <3>1 DEF RecoverBindingCompleted, CompleteBinding, CanCompleteBinding,
          Revoked, BindingStep
  <2> QED BY <1>4, <2>1, <2>2, <2>3 DEF RecoveryStep, RecoverInterrupted, RecoverAuthority,
        RecoverCommit, RecoverEnded,
            RecoverCompleted, RecoverNothing, BindingStep
<1> QED BY <1>1, <1>2, <1>3, <1>4 DEF StoreNext, QuarantineOutcomeUnknown, StoreFault, Crash,
      Boot, FinishBefore, FinishAfter,
          WorkspaceChange, storeVars, BindingStep

(* The refinement mapping, as functions of the binding records.            *)
StagesOf(b) == [s \in Sessions |-> StageOf[b[s].st]]
GrantsOf(b) == [t \in Threads |-> {s \in Sessions : b[s].st = "active" /\ ThreadOf[b[s].op] = t}]

(* Replacing one binding record changes the mapped state of that session   *)
(* only.                                                                   *)
LEMMA Rebind ==
  ASSUME NEW s \in Sessions, \A q \in Sessions \ {s} : bind'[q] = bind[q]
  PROVE /\ StagesOf(bind') = [StagesOf(bind) EXCEPT ![s] = StageOf[bind'[s].st]]
        /\ \A t \in Threads, q \in Sessions \ {s} : q \in GrantsOf(bind')[t] <=> q \in GrantsOf(bind)[t]
<1>1. \A q \in Sessions : StagesOf(bind')[q] = [StagesOf(bind) EXCEPT ![s] = StageOf[bind'[s].st]][q]
  BY DEF StagesOf
<1>2. StagesOf(bind') = [StagesOf(bind) EXCEPT ![s] = StageOf[bind'[s].st]]
  BY <1>1 DEF StagesOf
<1>3. \A t \in Threads, q \in Sessions \ {s} : q \in GrantsOf(bind')[t] <=> q \in GrantsOf(bind)[t]
  BY DEF GrantsOf
<1> QED BY <1>2, <1>3

(* The mapped grants are the sets of active sessions.                      *)
LEMMA Grants ==
  ASSUME StoreInvariant
  PROVE [t \in Threads |-> ActiveOn(t)] = GrantsOf(bind)
<1>1. \A s \in Sessions : bind[s].st = "active" => bind[s].op \in Ops
  BY DEF StoreInvariant, DurableInvariant, BindingFacts, BindingFact
<1>2. \A t \in Threads : ActiveOn(t) = {s \in Sessions : bind[s].st = "active" /\ ThreadOf[bind[s].op] = t}
  BY <1>1 DEF ActiveOn, BoundTo, OnThread
<1> QED BY <1>2 DEF GrantsOf

(* The same in the next state.                                             *)
LEMMA GrantsNext ==
  ASSUME StoreInvariant'
  PROVE [t \in Threads |-> ActiveOn(t)]' = GrantsOf(bind')
<1>1. \A s \in Sessions : bind'[s].st = "active" => bind'[s].op \in Ops
  BY DEF StoreInvariant, DurableInvariant, BindingFacts, BindingFact
<1>2. \A t \in Threads : ActiveOn(t)' = {s \in Sessions : bind'[s].st = "active" /\ ThreadOf[bind'[s].op] = t}
  BY <1>1 DEF ActiveOn, BoundTo, OnThread
<1> QED BY <1>2 DEF GrantsOf

(* A change of the bindings is a step of SessionAuthority, or a stutter.   *)
LEMMA AbstractStep ==
  ASSUME StoreInvariant, StoreInvariant', BindingStep
  PROVE [Authority!Next]_(Authority!authorityVars)
<1> DEFINE stage == [s \in Sessions |-> StageOf[bind[s].st]]
           grants == [t \in Threads |-> ActiveOn(t)]
<1>1. stage = StagesOf(bind) /\ stage' = StagesOf(bind')
  BY DEF StagesOf
<1>2. grants = GrantsOf(bind) /\ grants' = GrantsOf(bind')
  BY Grants, GrantsNext
<1>3. \A t \in Threads : GrantsOf(bind)[t] \subseteq Sessions /\ GrantsOf(bind')[t] \subseteq Sessions
  BY DEF GrantsOf
<1>4. /\ \A s \in Sessions : StagesOf(bind)[s] = StageOf[bind[s].st]
      /\ DOMAIN StagesOf(bind) = Sessions
      /\ StagesOf(bind) = [s \in Sessions |-> StagesOf(bind)[s]]
  BY DEF StagesOf
<1>5. \A s \in Sessions, t \in Threads :
        /\ s \in GrantsOf(bind)[t] <=> bind[s].st = "active" /\ ThreadOf[bind[s].op] = t
        /\ s \in GrantsOf(bind')[t] <=> bind'[s].st = "active" /\ ThreadOf[bind'[s].op] = t
  BY DEF GrantsOf
<1>6. ASSUME NEW s \in Sessions, bind[s].st # "active", bind'[s].st # "active",
             \A q \in Sessions \ {s} : bind'[q] = bind[q]
      PROVE grants' = grants
  <2>1. ASSUME NEW t \in Threads PROVE GrantsOf(bind')[t] = GrantsOf(bind)[t]
    <3>1. \A q \in Sessions : q \in GrantsOf(bind')[t] <=> q \in GrantsOf(bind)[t]
      BY <1>5, <1>6
    <3> QED BY <1>3, <3>1
  <2> QED BY <1>2, <2>1 DEF GrantsOf
<1>7. ASSUME NEW s \in Sessions, StageOf[bind'[s].st] = StageOf[bind[s].st],
             \A q \in Sessions \ {s} : bind'[q] = bind[q]
      PROVE stage' = stage
  BY <1>1, <1>4, <1>7, Rebind
<1>8. ASSUME stage' = stage, grants' = grants
      PROVE [Authority!Next]_(Authority!authorityVars)
  BY <1>8 DEF Authority!authorityVars
<1>15. ASSUME NEW s \in Sessions, NEW x, StageOf[bind'[s].st] = x,
              \A q \in Sessions \ {s} : bind'[q] = bind[q]
       PROVE stage' = [stage EXCEPT ![s] = x]
  BY <1>1, <1>15, Rebind
<1>9. CASE UNCHANGED bind
  BY <1>1, <1>2, <1>8, <1>9
<1>10. ASSUME NEW o \in ProvisionOps, sess[o] \in Sessions, bind[sess[o]].st = "none",
              bind' = [bind EXCEPT ![sess[o]] = [st |-> "activating", op |-> o]]
       PROVE [Authority!Next]_(Authority!authorityVars)
  <2>1. bind'[sess[o]].st = "activating" /\ \A q \in Sessions \ {sess[o]} : bind'[q] = bind[q]
    BY <1>10 DEF StoreInvariant
  <2>2. StageOf["activating"] = StageOf["none"]
    BY DEF StageOf
  <2>3. grants' = grants
    BY <1>6, <1>10, <2>1
  <2>4. stage' = stage
    BY <1>7, <1>10, <2>1, <2>2
  <2> QED BY <1>8, <2>3, <2>4
<1>11. ASSUME NEW o \in ProvisionOps, sess[o] \in Sessions, phase[o] = "projection_committed",
              bind[sess[o]] \in {[st |-> "activating", op |-> o], [st |-> "active", op |-> o]},
              bind' = [bind EXCEPT ![sess[o]] = [st |-> "active", op |-> o]]
       PROVE [Authority!Next]_(Authority!authorityVars)
  <2> DEFINE s == sess[o]
             th == ThreadOf[o]
  <2>1. CASE bind[s] = [st |-> "active", op |-> o]
    <3>1. UNCHANGED bind
      BY <1>11, <2>1 DEF StoreInvariant
    <3> QED BY <1>9, <3>1
  <2>2. CASE bind[s] = [st |-> "activating", op |-> o]
    <3>1. /\ bind'[s].st = "active" /\ bind'[s].op = o
          /\ \A q \in Sessions \ {s} : bind'[q] = bind[q]
      BY <1>11 DEF StoreInvariant
    <3>2. StageOf["active"] = "granted" /\ StageOf["activating"] = "fresh" /\ th \in Threads
      BY DEF StageOf
    <3>3. \A q \in Sessions : bind[q].st = "active" /\ ThreadOf[bind[q].op] = th => q = s
      BY <1>11 DEF StoreInvariant, DurableInvariant, OwnSession, Commanded
    <3>4. GrantsOf(bind)[th] = {}
      <4>1. \A q \in Sessions : q \notin GrantsOf(bind)[th]
        BY <1>5, <2>2, <3>2, <3>3
      <4> QED BY <1>3, <3>2, <4>1
    <3>5. GrantsOf(bind')[th] = {s}
      <4>1. \A q \in Sessions : q \in GrantsOf(bind')[th] <=> q = s
        BY <1>5, <3>1, <3>2, <3>3
      <4> QED BY <1>3, <1>11, <3>2, <4>1
    <3>6. ASSUME NEW t \in Threads, t # th PROVE GrantsOf(bind')[t] = GrantsOf(bind)[t]
      <4>1. \A q \in Sessions : q \in GrantsOf(bind')[t] <=> q \in GrantsOf(bind)[t]
        BY <1>5, <2>2, <3>1, <3>6
      <4> QED BY <1>3, <4>1
    <3>7. GrantsOf(bind') = [GrantsOf(bind) EXCEPT ![th] = {s}]
      BY <3>5, <3>6 DEF GrantsOf
    <3>8. stage' = [stage EXCEPT ![s] = "granted"]
      BY <1>11, <1>15, <3>1, <3>2
    <3>9. StagesOf(bind)[s] = "fresh"
      BY <1>4, <1>11, <2>2, <3>2
    <3>10. stage[s] = "fresh" /\ grants[th] = {}
           /\ stage' = [stage EXCEPT ![s] = "granted"] /\ grants' = [grants EXCEPT ![th] = {s}]
      BY <1>1, <1>2, <3>4, <3>7, <3>8, <3>9
    <3>11. \E t \in Threads, r \in Sessions : Authority!Grant(t, r)
      BY <1>11, <3>2, <3>10 DEF Authority!Grant
    <3> QED BY <3>11 DEF Authority!Next
  <2> QED BY <1>11, <2>1, <2>2
<1>12. ASSUME NEW o \in EndOps, Recorded(o), sess[o] \in Sessions, bind[sess[o]].st = "active",
              bind' = [bind EXCEPT ![sess[o]] = [st |-> "detached", op |-> o]]
       PROVE [Authority!Next]_(Authority!authorityVars)
  <2> DEFINE s == sess[o]
             th == ThreadOf[o]
  <2>1. bind'[s].st = "detached" /\ \A q \in Sessions \ {s} : bind'[q] = bind[q]
    BY <1>12 DEF StoreInvariant
  <2>2. StageOf["detached"] = "revoked" /\ th \in Threads
    BY DEF StageOf
  <2>3. ThreadOf[bind[s].op] = th
    <3>1. /\ bind[s].op \in ProvisionOps /\ Recorded(bind[s].op) /\ sess[bind[s].op] = s
      BY <1>12, SMTT(60) DEF StoreInvariant, DurableInvariant, BindingFacts, BindingFact
    <3> QED BY <1>12, <3>1 DEF StoreInvariant, DurableInvariant, SessionShared
  <2>4. \A q \in Sessions : bind[q].st = "active" /\ ThreadOf[bind[q].op] = th => q = s
    BY <1>12, <2>3 DEF StoreInvariant, DurableInvariant, OneSession, Commanded
  <2>5. s \in GrantsOf(bind)[th]
    BY <1>5, <1>12, <2>2, <2>3
  <2>6. GrantsOf(bind')[th] = {}
    <3>1. \A q \in Sessions : q \notin GrantsOf(bind')[th]
      BY <1>5, <2>1, <2>2, <2>4
    <3> QED BY <1>3, <2>2, <3>1
  <2>7. ASSUME NEW t \in Threads, t # th PROVE GrantsOf(bind')[t] = GrantsOf(bind)[t]
    <3>1. \A q \in Sessions : q \in GrantsOf(bind')[t] <=> q \in GrantsOf(bind)[t]
      BY <1>5, <2>1, <2>3, <2>7
    <3> QED BY <1>3, <3>1
  <2>8. GrantsOf(bind') = [GrantsOf(bind) EXCEPT ![th] = {}]
    BY <2>6, <2>7, ZenonT(60) DEF GrantsOf
  <2>9. stage' = [stage EXCEPT ![s] = "revoked"]
    BY <1>12, <1>15, <2>1, <2>2
  <2>10. s \in grants[th]
         /\ stage' = [stage EXCEPT ![s] = "revoked"] /\ grants' = [grants EXCEPT ![th] = {}]
    BY <1>1, <1>2, <2>5, <2>8, <2>9
  <2>11. \E t \in Threads, r \in Sessions : Authority!Revoke(t, r)
    BY <1>12, <2>2, <2>10 DEF Authority!Revoke
  <2> QED BY <2>11 DEF Authority!Next
<1>13. ASSUME NEW o \in EndOps, sess[o] \in Sessions, bind[sess[o]] = [st |-> "detached", op |-> o],
              bind' = [bind EXCEPT ![sess[o]] = [st |-> "completed", op |-> o]]
       PROVE [Authority!Next]_(Authority!authorityVars)
  <2> DEFINE s == sess[o]
  <2>1. bind'[s].st = "completed" /\ \A q \in Sessions \ {s} : bind'[q] = bind[q]
    BY <1>13 DEF StoreInvariant
  <2>2. StageOf["completed"] = "ended" /\ StageOf["detached"] = "revoked"
    BY DEF StageOf
  <2>3. grants' = grants
    BY <1>6, <1>13, <2>1
  <2>4. stage' = [stage EXCEPT ![s] = "ended"]
    BY <1>13, <1>15, <2>1, <2>2
  <2>5. StagesOf(bind)[s] = "revoked"
    BY <1>4, <1>13, <2>2
  <2>6. stage[s] = "revoked" /\ stage' = [stage EXCEPT ![s] = "ended"]
    BY <1>1, <2>4, <2>5
  <2>7. \E r \in Sessions : Authority!End(r)
    BY <1>13, <2>3, <2>6 DEF Authority!End
  <2> QED BY <2>7 DEF Authority!Next
<1>14. ASSUME NEW o \in EndOps, sess[o] \in Sessions, bind[sess[o]] = [st |-> "completed", op |-> o],
              bind' = [bind EXCEPT ![sess[o]] = [st |-> "retired", op |-> NoOp]]
       PROVE [Authority!Next]_(Authority!authorityVars)
  <2>1. bind'[sess[o]].st = "retired" /\ \A q \in Sessions \ {sess[o]} : bind'[q] = bind[q]
    BY <1>14 DEF StoreInvariant
  <2>2. StageOf["retired"] = StageOf["completed"]
    BY DEF StageOf
  <2>3. grants' = grants
    BY <1>6, <1>14, <2>1
  <2>4. stage' = stage
    BY <1>7, <1>14, <2>1, <2>2
  <2> QED BY <1>8, <2>3, <2>4
<1> QED BY <1>9, <1>10, <1>11, <1>12, <1>13, <1>14 DEF BindingStep

(* An empty Store maps to the initial state of SessionAuthority.           *)
LEMMA AbstractInit == StoreInit => Authority!Init
  BY DEF StoreInit, Authority!Init, Unbound, StageOf, ActiveOn

(* The Store implements SessionAuthority: a session is granted to a thread *)
(* at most once and to nobody else, is revoked before its end is settled,  *)
(* and never comes back.                                                   *)
THEOREM StoreImplementsAuthority == StoreSpec => AuthoritySpec
<1>1. StoreInvariant /\ StoreInvariant' /\ [StoreNext]_storeVars => [Authority!Next]_(Authority!authorityVars)
  BY StepIsBindingStep, AbstractStep
<1> QED BY StoreInvariantHolds, <1>1, AbstractInit, PTL DEF StoreSpec, AuthoritySpec,
      Authority!Spec
=============================================================================
