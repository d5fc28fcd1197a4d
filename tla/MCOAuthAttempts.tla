-------------------------- MODULE MCOAuthAttempts --------------------------
(* Two sign-ins, alike, on the connections of one desktop to one host.      *)
EXTENDS OAuthInvariant, TLC
CONSTANTS a1, a2

Interchangeable == Permutations(Attempts)
=============================================================================
