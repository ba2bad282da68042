------------------------------ MODULE MCDatabase ------------------------------
(* What a database shared or mirrored by several processes has to bear: the  *)
(* hybrid store's writers and crashes, or two instances with their site      *)
(* tasks and an administrator at one of them.  Site rows are written to the  *)
(* primary alone, so the two are explored one beside the other.              *)
EXTENDS HybridStore, SiteTasks, TLC

CONSTANTS c1, u1
MCOwner == u1 :> c1
Symmetry == Permutations(Writers) \cup Permutations(Tokens)

VARIABLE side   \* which of the two this behaviour is about

MCInit == Init /\ SiteInit /\ side \in {"store", "site"}
Storing == side = "store" /\ Next /\ UNCHANGED <<siteVars, side>>
Tending == side = "site" /\ SiteNext /\ UNCHANGED <<vars, side>>

MCSpec == MCInit /\ [][Storing \/ Tending]_<<vars, siteVars, side>>
===============================================================================
