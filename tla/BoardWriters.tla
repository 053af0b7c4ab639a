---------------------------- MODULE BoardWriters ----------------------------
(***************************************************************************)
(* The SQLite board and everyone who writes it: the sessions through Board *)
(* (claim, update, attach, note, sync), the dashboard with statements of   *)
(* its own, and the script that archives what nobody has touched.  Neither *)
(* takes the operations lock: the board is what its transactions make it.  *)
(* A session follows the board by its event log, page by page.             *)
(***************************************************************************)
EXTENDS Naturals, FiniteSets, Sequences

CONSTANTS
  Sessions,   \* the MCP sessions that own tasks
  Tasks,      \* the tasks of one project
  Statuses,   \* the statuses in use
  Runs,
  MaxEvents,  \* a bound on the log
  MaxLimit,   \* the largest event_limit asked for
  None

ASSUME NatAssumption     == {MaxEvents, MaxLimit} \subseteq Nat \ {0}
ASSUME NamesAssumption   == {"dashboard", "archive"} \cap Sessions = {} /\ None \notin Tasks \cup Runs
ASSUME StatusAssumption  ==
  /\ Statuses \subseteq {"active", "paused", "waiting", "done", "cancelled"}
  /\ {"active", "done", "cancelled"} \subseteq Statuses
ASSUME FiniteAssumption  == IsFiniteSet(Tasks)
ASSUME RowAssumption     == None \notin [status : Statuses, owner : Sessions \cup {"dashboard"},
                                         runs : Seq(Runs), age : 0..2]

VARIABLES
  row,     \* table tasks: the row of each task, None before it is claimed
  log,     \* table events; the index is the event's id
  run,     \* what each run is doing
  cursor,  \* the after_event of a session that follows the log
  got,     \* the ids of the events it was given
  web,     \* the task and the run the dashboard is about to write, with the task's row
           \* once it has read it; or None
  snap,    \* what the archive script read, None when it does not run
  todo     \* the stale tasks it has yet to archive

reader  == <<cursor, got>>
script  == <<snap, todo>>
vars    == <<row, log, run, reader, web, script>>

-----------------------------------------------------------------------------

Terminal == {"done", "cancelled"}

\* Ages: below every threshold; past the takeover's and the dashboard's; past the script's.
Row   == [status : Statuses, owner : Sessions \cup {"dashboard"}, runs : Seq(Runs), age : 0..2]
Event == [project : {"here", "elsewhere"}, task : Tasks \cup {None},
          by : Sessions \cup {"dashboard", "archive"}, says : Statuses \cup {"note"}]

Changed(t, by, status) == [project |-> "here", task |-> t, by |-> by, says |-> status]

Open(t) == row[t] # None /\ row[t].status \notin Terminal

\* settled, for the roster as it is; when it cannot be read, nothing is settled.
AllSettled(t) == \A i \in DOMAIN row[t].runs : run[row[t].runs[i]] \in {"done", "failed"}

TypeOK ==
  /\ row \in [Tasks -> Row \cup {None}]
  /\ log \in Seq(Event) /\ Len(log) <= MaxEvents
  /\ run \in [Runs -> {"none", "working", "done", "failed"}]
  /\ cursor \in 0..Len(log) /\ got \subseteq 1..Len(log)
  /\ web \in (Tasks \X Runs \X (Row \cup {None})) \cup {None}
  /\ snap = None \/ snap \in [Tasks -> Row \cup {None}]
  /\ todo \in SUBSET Tasks
  /\ \A t \in Tasks : row[t] # None =>
       \A i \in DOMAIN row[t].runs : run[row[t].runs[i]] # "none"

Init ==
  /\ row = [t \in Tasks |-> None]
  /\ log = <<>>
  /\ run = [r \in Runs |-> "none"]
  /\ cursor = 0 /\ got = {}
  /\ web = None /\ snap = None /\ todo = {}

-----------------------------------------------------------------------------
(* The world. *)

RunEnds(r) ==
  /\ run[r] = "working"
  /\ run' = [run EXCEPT ![r] = "done"] \/ run' = [run EXCEPT ![r] = "failed"]
  /\ UNCHANGED <<row, log, reader, web, script>>

\* Nobody touches the task for a while; the dashboard's statements on it are closer.
Age(t) ==
  /\ row[t] # None /\ row[t].age < 2
  /\ web # None => web[1] # t
  /\ row' = [row EXCEPT ![t].age = @ + 1]
  /\ UNCHANGED <<log, run, reader, web, script>>

-----------------------------------------------------------------------------
(* Board: every call is one transaction. *)

Claim(s, t) ==
  /\ row[t] = None /\ Len(log) < MaxEvents
  /\ row' = [row EXCEPT ![t] = [status |-> "active", owner |-> s, runs |-> <<>>, age |-> 0]]
  /\ log' = Append(log, Changed(t, s, "active"))
  /\ UNCHANGED <<run, reader, web, script>>

\* The task was active when the spawn was authorised; it need not be any more.
Attach(t, r) ==
  /\ row[t] # None /\ row[t].owner \in Sessions /\ run[r] = "none"
  /\ run' = [run EXCEPT ![r] = "working"]
  /\ row' = [row EXCEPT ![t].runs = Append(@, r), ![t].age = 0]
  /\ UNCHANGED <<log, reader, web, script>>

\* The owner, or a takeover of a task that is idle and has nothing running.
MayUpdate(s, t, status) ==
  \/ row[t].owner = s
  \/ row[t].age > 0 /\ status \in Terminal /\ AllSettled(t)

\* Mutant: the terminal rule is gone.
UpdateFinished(s, t, status) ==
  /\ row[t] # None /\ MayUpdate(s, t, status) /\ Len(log) < MaxEvents
  /\ status \in Terminal \cup {"waiting"} => AllSettled(t)
  /\ row' = [row EXCEPT ![t].status = status, ![t].age = 0]
  /\ log' = Append(log, Changed(t, row[t].owner, status))
  /\ UNCHANGED <<run, reader, web, script>>

\* update: the terminal rule, and nothing is finished or parked while its runs are not.
Update(s, t, status) ==
  /\ Open(t) /\ MayUpdate(s, t, status) /\ Len(log) < MaxEvents
  /\ status \in Terminal \cup {"waiting"} => AllSettled(t)
  /\ row' = [row EXCEPT ![t].status = status, ![t].age = 0]
  /\ log' = Append(log, Changed(t, row[t].owner, status))
  /\ UNCHANGED <<run, reader, web, script>>

\* A note may be about a task, whoever owns it and in whatever project it is posted.
Note(s, project, t) ==
  /\ Len(log) < MaxEvents
  /\ log' = Append(log, [project |-> project, task |-> t, by |-> s, says |-> "note"])
  /\ UNCHANGED <<row, run, reader, web, script>>

\* The events of the project that come after the cursor, and the first n of them.
Fresh    == {i \in cursor + 1..Len(log) : log[i].project = "here"}
First(n) == {i \in Fresh : Cardinality({j \in Fresh : j <= i}) <= n}

\* Mutant: the cursor is taken from the row that was read to see whether there are more.
SyncPastPage(limit) ==
  /\ First(limit) # {}
  /\ got' = got \cup First(limit)
  /\ cursor' \in First(limit + 1) /\ \A i \in First(limit + 1) : i <= cursor'
  /\ UNCHANGED <<row, log, run, web, script>>

\* sync: the next event_limit events in their order, and the last of them as the next cursor.
\* Without one nothing moves.
Sync(limit) ==
  /\ First(limit) # {}
  /\ got' = got \cup First(limit)
  /\ cursor' \in First(limit) /\ \A i \in First(limit) : i <= cursor'
  /\ UNCHANGED <<row, log, run, web, script>>

-----------------------------------------------------------------------------
(* The dashboard: one request at a time, with statements of its own. *)

\* Mutant: the row changes in one transaction, the event is left to another.
SetStatusSilently(t, status) ==
  /\ row[t] # None /\ web = None /\ Len(log) < MaxEvents
  /\ row' = [row EXCEPT ![t].status = status, ![t].age = 0]
  /\ UNCHANGED <<log, run, reader, web, script>>

\* update_task_status: any status, from any status.
SetStatus(t, status) ==
  /\ row[t] # None /\ web = None /\ Len(log) < MaxEvents
  /\ row' = [row EXCEPT ![t].status = status, ![t].age = 0]
  /\ log' = Append(log, Changed(t, "dashboard", status))
  /\ UNCHANGED <<run, reader, web, script>>

\* A set of tasks gets a status in one transaction, with an event for each.
Close(chosen, status) ==
  /\ chosen # {} /\ web = None /\ Len(log) + Cardinality(chosen) <= MaxEvents
  /\ row' = [t \in Tasks |-> IF t \in chosen THEN [row[t] EXCEPT !.status = status, !.age = 0]
                             ELSE row[t]]
  /\ \E order \in [1..Cardinality(chosen) -> chosen] :
       /\ \A t \in chosen : \E i \in DOMAIN order : order[i] = t
       /\ log' = log \o [i \in DOMAIN order |-> Changed(order[i], "dashboard", status)]
  /\ UNCHANGED <<run, reader, web, script>>

\* cleanup_stale_tasks: everything open that nobody has touched, whatever its runs do.
Cleanup(status) == Close({t \in Tasks : Open(t) /\ row[t].age > 0}, status)

\* reap_failed_tasks: the last run of a task decides.  LocalDelegateAdapter.check_status says
\* "failed" of a run that has failed or was stopped, and of every run when the roster cannot
\* be read or does not list it.
Reap ==
  LET working == {t \in Tasks : /\ row[t] # None /\ row[t].status = "active"
                                /\ row[t].runs # <<>>}
  IN  \E unread \in SUBSET working :
        Close(unread \cup {t \in working : run[row[t].runs[Len(row[t].runs)]] = "failed"}, "cancelled")

\* spawn_task_from_dashboard: the run is started first, then the task is claimed for it.
WebSpawn(t, r) ==
  /\ web = None /\ row[t] = None /\ run[r] = "none" /\ Len(log) < MaxEvents
  /\ run' = [run EXCEPT ![r] = "working"]
  /\ row' = [row EXCEPT ![t] = [status |-> "active", owner |-> "dashboard", runs |-> <<>>, age |-> 0]]
  /\ log' = Append(log, Changed(t, "dashboard", "active"))
  /\ web' = <<t, r, None>>
  /\ UNCHANGED <<reader, script>>

\* Then it SELECTs the row, outside of any transaction, unless that fails.
WebRead ==
  /\ web # None /\ web[3] = None
  /\ web' = [web EXCEPT ![3] = row[web[1]]] \/ web' = None
  /\ UNCHANGED <<row, log, run, reader, script>>

\* And UPDATEs it to what it read with the run in it, unless that fails; without an
\* event either.
WebWrite ==
  /\ web # None /\ web[3] # None
  /\ row' = row \/ row' = [row EXCEPT ![web[1]] = [web[3] EXCEPT !.runs = <<web[2]>>]]
  /\ web' = None
  /\ UNCHANGED <<log, run, reader, script>>

-----------------------------------------------------------------------------
(* archive_stale_sessions.py --apply: it reads every row, then rewrites the stale ones. *)

ReadAll ==
  /\ snap = None
  /\ todo' = {t \in Tasks : Open(t) /\ row[t].age = 2}
  /\ todo' # {}
  /\ snap' = row
  /\ UNCHANGED <<row, log, run, reader, web>>

\* The row becomes what was read, marked as done.
Archive(t) ==
  /\ t \in todo /\ Len(log) < MaxEvents
  /\ row' = [row EXCEPT ![t] = [snap[t] EXCEPT !.status = "done", !.age = 0]]
  /\ log' = Append(log, Changed(t, "archive", "done"))
  /\ todo' = todo \ {t}
  /\ snap' = IF todo' = {} THEN None ELSE snap
  /\ UNCHANGED <<run, reader, web>>

-----------------------------------------------------------------------------

Next ==
  \/ \E r \in Runs : RunEnds(r)
  \/ \E t \in Tasks : Age(t) \/ Archive(t)
  \/ \E s \in Sessions, t \in Tasks : Claim(s, t)
  \/ \E t \in Tasks, r \in Runs : Attach(t, r) \/ WebSpawn(t, r)
  \/ \E s \in Sessions, t \in Tasks, status \in Statuses : Update(s, t, status)
  \/ \E s \in Sessions, project \in {"here", "elsewhere"}, t \in Tasks \cup {None} :
       Note(s, project, t)
  \/ \E limit \in 1..MaxLimit : Sync(limit)
  \/ \E t \in Tasks, status \in Statuses : SetStatus(t, status)
  \/ \E status \in Terminal : Cleanup(status)
  \/ Reap \/ WebRead \/ WebWrite \/ ReadAll

Spec == Init /\ [][Next]_vars

-----------------------------------------------------------------------------
(* What the writers leave intact. *)

\* A session that follows the log from cursor to cursor has every event of its project up to
\* the cursor it holds, whoever wrote it and however short the pages were (sync: next_event).
NoEventMissed == got = {i \in 1..cursor : log[i].project = "here"}

\* Whoever has read the log knows the status of every task: no writer changes one without
\* an event, and none announces a status that the row does not have (_event and the
\* dashboard's and the script's INSERTs, in the transaction of the UPDATE).  Notes say
\* nothing of it.
EventsTellStatus ==
  \A t \in Tasks : row[t] # None =>
    \E i \in DOMAIN log :
      /\ log[i].task = t /\ log[i].says = row[t].status
      /\ \A j \in DOMAIN log : j > i => log[j].task # t \/ log[j].says = "note"

\* Only the archive script loses what others wrote.  For everyone else a task keeps its owner
\* and its runs, and one that is finished is reopened by the dashboard's user alone.
RowsSurvive ==
  [][\A t \in Tasks : row[t] # None =>
       \/ /\ row'[t].owner = row[t].owner
          /\ \A i \in DOMAIN row[t].runs : i \in DOMAIN row'[t].runs /\ row'[t].runs[i] = row[t].runs[i]
          /\ row[t].status \in Terminal /\ row'[t].status # row[t].status
               => log'[Len(log')].by = "dashboard"
       \/ log' # log /\ log'[Len(log')].by = "archive"]_vars

\* "Find active tasks whose underlying runs have failed, and mark them cancelled"
\* (reap_failed_tasks): no task is cancelled none of whose runs has failed.
\* It does not hold; the README says what happens.
ReapedHadFailed ==
  [][Reap => \A t \in Tasks : row'[t] # row[t] =>
               \E i \in DOMAIN row[t].runs : run[row[t].runs[i]] = "failed"]_vars
=============================================================================
