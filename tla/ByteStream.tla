----------------------------- MODULE ByteStream -----------------------------
(***************************************************************************)
(* What a reliable tunnel promises each reader, whatever the network and   *)
(* the relay do: the bytes it has been given are an unbroken beginning of  *)
(* what one writer wrote, in the order it was written, each byte once.     *)
(* Nothing follows once the stream has ended.                              *)
(***************************************************************************)
EXTENDS Naturals, Sequences

CONSTANTS Readers, Writers(_)  \* the writers a reader's stream may come from

VARIABLES
    written,  \* chunks each writer has written, numbered from 1
    stream,   \* what each reader has been given
    ended     \* readers whose stream is over

streamVars == <<written, stream, ended>>
AllWriters == UNION {Writers(r) : r \in Readers}

Begins(r, w) == stream[r] = [n \in 1 .. Len(stream[r]) |-> <<w, n>>]

StreamInit ==
    /\ written = [w \in AllWriters |-> 0]
    /\ stream = [r \in Readers |-> <<>>]
    /\ ended = {}

Write(w) ==
    /\ written' = [written EXCEPT ![w] = @ + 1]
    /\ UNCHANGED <<stream, ended>>

Give(r, w) ==
    /\ r \notin ended /\ Begins(r, w) /\ Len(stream[r]) < written[w]
    /\ stream' = [stream EXCEPT ![r] = Append(@, <<w, Len(@) + 1>>)]
    /\ UNCHANGED <<written, ended>>

End ==
    /\ ended' \in SUBSET Readers /\ ended \subseteq ended'
    /\ UNCHANGED <<written, stream>>

StreamNext ==
    \/ End
    \/ \E w \in AllWriters : Write(w)
    \/ \E r \in Readers : \E w \in Writers(r) : Give(r, w)

StreamSpec == StreamInit /\ [][StreamNext]_streamVars
=============================================================================
