------------------------------ MODULE MCStopping ------------------------------
(***************************************************************************)
(* Instances of Stopping.                                                  *)
(***************************************************************************)
EXTENDS Stopping

CONSTANTS p1, p2

\* Two servers: both could sweep; the second one serves a supervisor, who polls it and
\* may stop the session.
MCCallers == [by : {p1, p2}, kind : {"sweep"}] \cup [by : {p2}, kind : {"poll", "stop"}]

\* One server and its polls.
MCPoll == [by : {p1}, kind : {"poll"}]

\* One server and its supervisor's stops.
MCStop == [by : {p1}, kind : {"stop"}]

\* Nothing was recorded, or no ceiling.
MCRunCaps == {None, 0}
=============================================================================
