------------------------------ MODULE BatchMC ------------------------------
(***************************************************************************)
(* Batch with two repositories, one of them listed twice.  The first has   *)
(* three tags with every combination of three versions or none, of forks   *)
(* and of a shared commit; the second has one, two or no usable tags.      *)
(***************************************************************************)
EXTENDS Batch

CONSTANTS r1, r2

MCRepoList == <<r1, r2, r2>>

Versions == {<<1, 0, 0>>, <<1, 1, 0>>, <<2, 0, 0>>, <<>>}

\* Linear, forked at the oldest, and unrelated commits.
Graphs == {{<<3, 2>>, <<3, 1>>, <<2, 1>>}, {<<3, 2>>, <<3, 1>>}, {<<3, 1>>}, {}}

Rich ==
  [tags : {<<"t1", "t2", "t3">>},
   version : [{"t1", "t2", "t3"} -> Versions],
   sha : {[t1 |-> 1, t2 |-> 2, t3 |-> 3], [t1 |-> 1, t2 |-> 3, t3 |-> 3]},
   older : Graphs,
   recent : {{"t1", "t2"}}]

Plain(n) ==
  [tags |-> SubSeq(<<"t1", "t2", "t3">>, 1, n),
   version |-> [t1 |-> <<1, 2, 0>>, t2 |-> <<1, 1, 0>>, t3 |-> <<1, 0, 0>>],
   sha |-> [t1 |-> 1, t2 |-> 2, t3 |-> 3],
   older |-> {<<3, 2>>, <<3, 1>>, <<2, 1>>},
   recent |-> {"t1", "t2", "t3"}]

MCHistories == [r \in {r1, r2} |-> IF r = r1 THEN Rich ELSE {Plain(1), Plain(2)}]
=============================================================================
