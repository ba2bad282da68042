------------------------------- MODULE MCAttempt -------------------------------
(* Attempts of any protocol; the bounds are in the configuration.            *)
EXTENDS Attempt
===============================================================================
