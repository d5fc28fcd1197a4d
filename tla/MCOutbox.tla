------------------------------ MODULE MCOutbox ------------------------------
(* A prompt p and a follow-up f: of two hosts with one id, or of one host   *)
(* where they compete for the batch of a poll.                              *)
EXTENDS DesktopOutboxInvariant
CONSTANTS p, f, h1, h2

MCHostOf == [c \in Commands |-> IF c = p THEN h1 ELSE h2]
MCIdOf == [c \in Commands |-> p]

MCOneHost == [c \in Commands |-> h1]
MCOwnId == [c \in Commands |-> c]
=============================================================================
