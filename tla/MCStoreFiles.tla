---------------------------- MODULE MCStoreFiles ----------------------------
(* The small instance of StoreFiles.  b1 and b4 bootstrap t1 from a local  *)
(* path; b2 bootstraps t2 through t1 and reserves p2; b3 reserves p3 on    *)
(* the thread t1 that one of them made; p1 is a plain provision on t2, and *)
(* e1 an end there, of whichever session it finds.                         *)
EXTENDS StoreFilesInvariant, TLC

CONSTANTS t1, t2, b1, b2, b3, b4, p1, p2, p3, e1

MCThreadOf == (b1 :> t1) @@ (b2 :> t2) @@ (b3 :> t1) @@ (b4 :> t1)
    @@ (p1 :> t2) @@ (p2 :> t2) @@ (p3 :> t1) @@ (e1 :> t2)
MCReserves == (b1 :> NoOp) @@ (b2 :> p2) @@ (b3 :> p3) @@ (b4 :> NoOp)
MCReferenceOf == [b \in Bootstraps |-> t1]

(* Two daemon generations.                                                 *)
MCCursors == {<<1, 1>>, <<2, 1>>}
Interchangeable == Permutations({b1, b4})
MCNoTx == [op |-> NoOp]
=============================================================================
