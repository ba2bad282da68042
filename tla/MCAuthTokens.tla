----------------------------- MODULE MCAuthTokens -----------------------------
(* Small instances of AuthTokens.                                           *)
EXTENDS AuthTokens, TLC

Symmetry == Permutations(Admins)
===============================================================================
