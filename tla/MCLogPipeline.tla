----------------------------- MODULE MCLogPipeline ----------------------------
(* Small instances of LogPipeline.                                          *)
EXTENDS LogPipeline
===============================================================================
