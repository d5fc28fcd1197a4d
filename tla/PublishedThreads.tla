-------------------------- MODULE PublishedThreads --------------------------
(***************************************************************************)
(* What the public projection of HostStore promises a reader: a thread     *)
(* appears with its initial state, follows one live session at a time      *)
(* forward along that session's cursor, and shows the session's end before *)
(* another takes its place.  Each change is one step; the files, the       *)
(* write-ahead records and the restarts are StoreFiles'.                   *)
(***************************************************************************)
EXTENDS Naturals

CONSTANTS Threads, Provisions, Ends, ThreadOf, Cursors, NoOp

VARIABLES
    view,   \* what each thread shows
    last,   \* the cursor of each session, and the generations it left
    over    \* sessions that never publish again

publishedVars == <<view, last, over>>

Shows(st, p, at) == [st |-> st, of |-> p, at |-> at]
NoView == Shows("none", NoOp, <<>>)
Initial == Shows("initial", NoOp, <<>>)
Unpublished == [at |-> <<>>, retired |-> {}]

PublishedInit ==
    /\ view = [t \in Threads |-> NoView]
    /\ last = [p \in Provisions |-> Unpublished]
    /\ over = {}

Appear(t) ==
    /\ view[t] = NoView
    /\ view' = [view EXCEPT ![t] = Initial]
    /\ UNCHANGED <<last, over>>

(* Only a thread that never showed a session may disappear again.          *)
Vanish(t) ==
    /\ view[t] = Initial
    /\ view' = [view EXCEPT ![t] = NoView]
    /\ UNCHANGED <<last, over>>

Forward(l, c) ==
    IF l.at = <<>> THEN TRUE
    ELSE IF c[1] = l.at[1] THEN c[2] > l.at[2] ELSE c[1] \notin l.retired

Publish(p, c) == LET t == ThreadOf[p]  l == last[p] IN
    /\ p \notin over /\ Forward(l, c)
    /\ view[t] # NoView /\ (view[t].st = "live" => view[t].of = p)
    /\ view' = [view EXCEPT ![t] = Shows("live", p, c)]
    /\ last' = [last EXCEPT ![p] = [at |-> c,
           retired |-> l.retired \cup (IF l.at = <<>> \/ l.at[1] = c[1] THEN {} ELSE {l.at[1]})]]
    /\ UNCHANGED over

End(e, p) == LET t == ThreadOf[e] IN
    /\ view[t].st = "live" /\ view[t].of = p /\ p \notin over
    /\ view' = [view EXCEPT ![t] = Shows("ended", e, view[t].at)]
    /\ over' = over \cup {p}
    /\ UNCHANGED last

(* A session that never published is given up.                             *)
GiveUp(p) ==
    /\ last[p] = Unpublished /\ over' = over \cup {p}
    /\ UNCHANGED <<view, last>>

(* The history of a session that is over may be dropped.                   *)
Forget(p) ==
    /\ p \in over /\ last' = [last EXCEPT ![p] = Unpublished]
    /\ UNCHANGED <<view, over>>

PublishedNext ==
    \/ \E t \in Threads : Appear(t) \/ Vanish(t)
    \/ \E p \in Provisions :
        \/ \E c \in Cursors : Publish(p, c)
        \/ \E e \in Ends : End(e, p)
        \/ GiveUp(p) \/ Forget(p)

PublishedSpec == PublishedInit /\ [][PublishedNext]_publishedVars
=============================================================================
