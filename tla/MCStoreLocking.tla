--------------------------- MODULE MCStoreLocking ---------------------------
(***************************************************************************)
(* Small instances of StoreLocking for TLC: see the configurations.        *)
(***************************************************************************)
EXTENDS StoreLocking, TLC

TwoFields == <<"cpu", "gpu">>
FewBuckets == [cpu |-> {1, 4}, gpu |-> {2}]

\* A sample on a bound, one above all bounds, and one that is not set.
Wide   == [JobState |-> "R", Requested |-> [cpu |-> 4, gpu |-> Unset]]
Large  == [JobState |-> "R", Requested |-> [cpu |-> 5, gpu |-> 1]]
Queued == [JobState |-> "Q", Requested |-> [cpu |-> 1, gpu |-> 2]]

SomeInspections == {<<Wide, Queued, Large>>}

\* Nothing tells one reader from another.
ReaderSymmetry == Permutations(Readers)
=============================================================================
