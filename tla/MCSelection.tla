------------------------------ MODULE MCSelection ------------------------------
(* Small instances of Selection.                                             *)
EXTENDS Selection

MCChannels == 1..4
MCPriority == <<2, 2, 2, 0>>
MCKeyCount == <<2, 1, 0, 0>>
See(o, ch, ms, ks) == [open |-> o, ch |-> ch, models |-> ms, keys |-> ks]

\* Every mix of live and cooled channels and of usable keys, ...
Sees == <<{See(TRUE, 0, <<0>>, <<0, 0>>), See(TRUE, 0, <<0>>, <<1, 0>>), See(TRUE, 1, <<0>>, <<0, 0>>)},
          {See(TRUE, 0, <<0, 1>>, <<0>>), See(TRUE, 0, <<2, 1>>, <<0>>)},
          {See(TRUE, 0, <<0>>, <<>>), See(FALSE, 0, <<0>>, <<>>)},
          {See(TRUE, 0, <<0>>, <<>>)}>>
\* ... and everything cooled, by different causes until different times.
Cooled == <<{See(TRUE, 2, <<0>>, <<0, 0>>), See(TRUE, 1, <<0>>, <<2, 3>>), See(TRUE, 0, <<0>>, <<1, 3>>)},
            {See(TRUE, 0, <<3, 1>>, <<0>>), See(TRUE, 2, <<3, 1>>, <<1>>)},
            {See(TRUE, 2, <<0>>, <<>>), See(FALSE, 0, <<0>>, <<>>)},
            {See(TRUE, 2, <<0>>, <<>>)}>>
Mixes(v) == {<<a, b, c, d>> : a \in v[1], b \in v[2], c \in v[3], d \in v[4]}
MCSnapshots == Mixes(Sees) \cup Mixes(Cooled)
MCPenalties == {<<0, 0, 0, 0>>, <<0, 1, 0, 0>>}
===============================================================================
