--------------------------- MODULE MCBoardWriters ---------------------------
(***************************************************************************)
(* An instance of BoardWriters.                                            *)
(***************************************************************************)
EXTENDS BoardWriters, TLC

CONSTANTS t1, t2, r1, r2

MCTasks == {t1, t2}
MCRuns  == {r1, r2}

\* Tasks and runs are only compared, and the order of their rows is left open.
MCSymmetry == Permutations(MCTasks) \cup Permutations(MCRuns)
=============================================================================
