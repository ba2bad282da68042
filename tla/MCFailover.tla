------------------------------ MODULE MCFailover ------------------------------
(* Small instances of Failover.                                             *)
EXTENDS Failover

Config(o, k, r, s, u) == [oauth |-> o, otherKeys |-> k, rescue |-> r, spare |-> s, urls |-> u]

\* An OAuth channel with two URLs; keyed channels with every switch on and off.
MCConfigs ==
    {Config(TRUE, FALSE, FALSE, FALSE, 2), Config(FALSE, FALSE, TRUE, FALSE, 1),
     Config(FALSE, TRUE, FALSE, FALSE, 2), Config(FALSE, FALSE, FALSE, TRUE, 2)}
===============================================================================
