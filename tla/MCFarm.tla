-------------------------------- MODULE MCFarm --------------------------------
(* Two workers; a farm of two jobs and after it one of a single job.        *)
EXTENDS Farm

TwoWorkers == {1, 2}

TwoThenOne == <<2, 1>>

=============================================================================
