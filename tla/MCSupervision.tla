----------------------------- MODULE MCSupervision -----------------------------
(* Instances of Supervision for TLC: a session that restarts its server, and    *)
(* another session.                                                             *)
EXTENDS Supervision, TLC

CONSTANTS p1, p2, p3, s1, s2, t1

\* p2 is p1's restart; p3 serves another session.
MCSessionOf == [p \in Procs |-> IF p = p3 THEN s2 ELSE s1]

\* A writer that drops the lock to launch, and one that keeps it.
MCWriters == {[task |-> t1, writes |-> TRUE, release |-> b] : b \in BOOLEAN}

\* Launches without the lock, into a reservation or into none.
MCReleasing ==
  {[task |-> t1, writes |-> TRUE, release |-> TRUE], [task |-> None, writes |-> FALSE, release |-> TRUE]}

RunSymmetry == Permutations(Runs)
=============================================================================
