---------------------------- MODULE MCVerifiedLoop ----------------------------
(***************************************************************************)
(* A loop polled by two servers of its session, one after the other, and   *)
(* by a server of another session.                                         *)
(***************************************************************************)
EXTENDS VerifiedLoop, TLC

CONSTANTS p1, p2, p3, s1, s2

MCSessionOf == p1 :> s1 @@ p2 :> s1 @@ p3 :> s2

\* Loops with and without criteria, under a write reservation and without one.
MCPlans == [criteria : BOOLEAN, readOnly : {FALSE}, mode : {"none", "write"}]
           \cup {[criteria |-> FALSE, readOnly |-> TRUE, mode |-> "write"]}

\* A read-only delegation without criteria under a read reservation.
MCReadPlan == {[criteria |-> FALSE, readOnly |-> TRUE, mode |-> "read"]}

\* A delegation with criteria and no reservation.
MCCheckedPlan == {[criteria |-> TRUE, readOnly |-> FALSE, mode |-> "none"]}
=============================================================================
