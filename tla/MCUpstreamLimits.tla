--------------------------- MODULE MCUpstreamLimits ---------------------------
(* A small instance of UpstreamLimits: one channel with both limits.       *)
EXTENDS UpstreamLimits, TLC

CONSTANT c1

MCChannels       == {c1}
MCMaxConcurrency == c1 :> 1
MCRPMLimit       == c1 :> 2
===============================================================================
