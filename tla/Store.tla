--------------------------------- MODULE Store --------------------------------
(***************************************************************************)
(* What the primary database promises: every write is one atomic step on   *)
(* the rows, a failed one changes nothing, an identifier is issued once,   *)
(* and nothing else ever changes a row: no crash, no restart, no cache.    *)
(***************************************************************************)
EXTENDS StoreOps

VARIABLES
    rows,     \* the database
    issued    \* identifiers given out

vars == <<rows, issued>>

Init ==
    /\ rows = [r \in Rows |-> Absent]
    /\ issued = {}

Do(o) ==
    /\ ~ Fails(o, rows[o.row])
    /\ o.kind = "create" => o.row \notin issued
    /\ rows' = Apply(o, rows)
    /\ issued' = IF o.kind = "create" THEN issued \cup {o.row} ELSE issued

Next == \E o \in Ops : Do(o)

Spec == Init /\ [][Next]_vars
===============================================================================
