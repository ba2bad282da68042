----------------------------- MODULE MCTranslation -----------------------------
(* Answers with at most two calls, three where they come one by one, two      *)
(* pieces on a channel and three items.                                     *)
EXTENDS Translation

MCCalls == <<"t1", "t2", "t3">>
===============================================================================
