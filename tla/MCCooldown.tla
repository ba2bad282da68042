------------------------------ MODULE MCCooldown ------------------------------
(* Small instances of Cooldown.                                             *)
EXTENDS Cooldown, TLC

\* The requests are alike, and so are the enabled keys.
Symmetry == Permutations(Requests) \cup Permutations(EnabledKeys)
===============================================================================
