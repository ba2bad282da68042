----------------------------- MODULE MCOAuthLogin -----------------------------
(* Small instances of OAuthLogin with the channel cache.                    *)
EXTENDS OAuthLogin, TLC

Symmetry == Permutations(Readers)
===============================================================================
