----------------------------- MODULE MCSchedule -----------------------------
(***************************************************************************)
(* An instance of Schedule: forks, joins, cycles, a task that blocks       *)
(* itself, and one that is named and does not exist.                       *)
(***************************************************************************)
EXTENDS Schedule

MCBlocks  == {{}, {1}, {3, 4}, {4, 9}}
MCActuals == {<<>>, <<0, 1>>}
=============================================================================
