------------------------- MODULE MCVerificationToken -------------------------
(* TLC instances of VerificationToken: two requests of one employee. *)
EXTENDS VerificationToken, TLC

CONSTANTS c1, c2
Either == Permutations({c1, c2})
=============================================================================
