------------------------------ MODULE Supervision ------------------------------
(***************************************************************************)
(* The supervision core of claude-local-delegate: several stdio server     *)
(* processes share a task board (SQLite), one operations lock (flock), the *)
(* in-flight ticket file, and the native roster of background agents.      *)
(* The provenance file runs.json is NativeSpawn's.                         *)
(*                                                                         *)
(* A mutating request that spawns nothing runs from flock to unlock with   *)
(* nobody else inside, so it is one action.  A spawn is split at every     *)
(* point where another process, a crash or the clock can get in:           *)
(*                                                                         *)
(*   Admit - TakeTicket - Launch - Relock - DropTicket - Attach            *)
(*                                                                         *)
(* call[p].release says whether the request is one of SPAWN_CALLS, which   *)
(* drop the lock while `claude --bg` runs; the verified loop does not.     *)
(*                                                                         *)
(* The dashboard and the archive script write the board without the lock,  *)
(* and a message brings a settled agent back to work.  What the servers    *)
(* promise has these as its exceptions; forced, resumed and cut remember   *)
(* them.                                                                   *)
(***************************************************************************)
EXTENDS Naturals, FiniteSets

CONSTANTS
  Procs,           \* server processes; a restart is a new member of the set
  Sessions,        \* session identities ("owner" in the code)
  SessionOf,       \* the session each process serves
  Tasks,           \* the (project, task_key) pairs of the board
  Runs,            \* ids the native supervisor can hand out
  None,            \* no process, no session, no task, no run
  UpdateStatuses,  \* the statuses task_update is called with (a bound)
  SpawnRequests,   \* the spawn requests that are made (a bound)
  MaxMeddling      \* a bound on the writes without the lock and messages to settled agents

ASSUME SessionOfAssumption == SessionOf \in [Procs -> Sessions]
ASSUME NoneAssumption ==
  None \notin Procs /\ None \notin Sessions /\ None \notin Tasks /\ None \notin Runs
ASSUME StatusAssumption ==
  UpdateStatuses \subseteq {"active", "paused", "waiting", "done", "cancelled"}

\* What a spawn request asks: the reservation (task_id may be left out), whether the
\* granted tools can write, and whether the request is one of SPAWN_CALLS.
Calls == [task : Tasks \cup {None}, writes : BOOLEAN, release : BOOLEAN]
ASSUME RequestAssumption == SpawnRequests \subseteq Calls
ASSUME MeddlingAssumption == MaxMeddling \in Nat

Final == {"done", "cancelled"}
Modes == {"read", "write"}

(***************************************************************************)
(* The ways the program moves.  "unborn" and "dead" are the process's own  *)
(* life; "ready" is the stdio loop between two mutating requests.          *)
(***************************************************************************)
Spawning  == {"ticketing", "launching", "relocking", "dropping", "attaching"}
Steps     == {"unborn", "ready", "dead"} \cup Spawning
\* From the write of the ticket file to the read that removes the ticket.
Ticketed  == {"launching", "relocking", "dropping"}

VARIABLES
  status,    \* the board: the status of each task's row, "free" when it has none
  owner,     \* the session that claimed the task
  mode,      \* what the reservation is for
  runs,      \* the runs attached to the row
  idle,      \* TAKEOVER_IDLE_SECONDS have passed since updated_at
  flock,     \* who holds operations.lock
  pc,        \* where each process is in its spawn
  call,      \* the spawn request each process is serving
  seen,      \* the ticket file as the process last read it
  spawned,   \* the run id `claude --bg` printed
  tickets,   \* inflight.json: one ticket per spawning process
  aged,      \* the tickets older than TICKET_TTL
  agent,     \* the native roster
  origin,    \* what each agent was launched for (a history variable)
  looped,    \* current worker and checker ids of the open verified loops of tasks
  forced,    \* the tasks whose status was last set without the lock (a history variable)
  resumed,   \* the agents that are live by a message, having settled (a history variable)
  cut,       \* the agents no row tells of: their launch reported no id, its server died
             \* or the script took them out (a history variable)
  meddled    \* how often the board was written without the lock or an agent resumed

board   == <<status, owner, mode, runs, idle, forced, meddled>>
files   == <<tickets, aged>>
native  == <<agent, origin, resumed, cut>>
locals  == <<pc, call, seen, spawned>>
vars    == <<status, owner, mode, runs, idle, flock, pc, call, seen, spawned, tickets, aged,
             agent, origin, looped, forced, resumed, cut, meddled>>

NoCall  == [task |-> None, writes |-> FALSE, release |-> FALSE]
Origins == [by : Procs \cup {None}, task : Tasks \cup {None}, writes : BOOLEAN]

TypeOK ==
  /\ status \in [Tasks -> {"free", "active", "paused", "waiting", "done", "cancelled"}]
  /\ owner \in [Tasks -> Sessions \cup {None}]
  /\ mode \in [Tasks -> Modes]
  /\ runs \in [Tasks -> SUBSET Runs]
  /\ idle \in [Tasks -> BOOLEAN]
  /\ flock \in Procs \cup {None}
  /\ pc \in [Procs -> Steps]
  /\ call \in [Procs -> Calls]
  /\ seen \in [Procs -> SUBSET Procs]
  /\ spawned \in [Procs -> Runs \cup {None}]
  /\ tickets \subseteq Procs
  /\ aged \subseteq tickets
  /\ agent \in [Runs -> {"absent", "live", "settled", "forgotten"}]
  /\ origin \in [Runs -> Origins]
  /\ looped \subseteq Runs
  /\ forced \subseteq Tasks
  /\ resumed \cup cut \subseteq Runs
  /\ meddled \in 0..MaxMeddling

Init ==
  /\ status = [t \in Tasks |-> "free"]
  /\ owner = [t \in Tasks |-> None]
  /\ mode = [t \in Tasks |-> "read"]
  /\ runs = [t \in Tasks |-> {}]
  /\ idle = [t \in Tasks |-> FALSE]
  /\ flock = None
  /\ pc = [p \in Procs |-> "unborn"]
  /\ call = [p \in Procs |-> NoCall]
  /\ seen = [p \in Procs |-> {}]
  /\ spawned = [p \in Procs |-> None]
  /\ tickets = {}
  /\ aged = {}
  /\ agent = [r \in Runs |-> "absent"]
  /\ origin = [r \in Runs |-> [by |-> None, task |-> None, writes |-> FALSE]]
  /\ looped = {} /\ forced = {} /\ resumed = {} /\ cut = {} /\ meddled = 0

-----------------------------------------------------------------------------
(* What the handlers read. *)

Alive(p)    == pc[p] \notin {"unborn", "dead"}
Serving(p)  == pc[p] = "ready" /\ flock = None
InFlight(p) == pc[p] \in Spawning

\* The lock is held from flock to unlock, except while a SPAWN_CALL launches.
Critical(p) ==
  \/ pc[p] \in {"ticketing", "dropping", "attaching"}
  \/ pc[p] \in Spawning /\ ~call[p].release

\* Mutant: the open verified loops are not looked at.
SettledIgnoringLoops(rs) == \A r \in rs : agent[r] = "settled"

\* settled(): every run is in the roster in a terminal state, and none is the
\* current worker or checker of a verified loop still open.
Settled(rs) == \A r \in rs : agent[r] = "settled" /\ r \notin looped

\* Mutant: only a child missing from the roster is in the way.
NoChildMissing(t) == \A r \in runs[t] : agent[r] # "forgotten"

\* The reservation check of spawn(): no child is live or missing from the roster.
NoLiveChild(t) == \A r \in runs[t] : agent[r] = "settled"

\* _tickets(): what is left of the file after pruning expired tickets.
LiveTickets == tickets \ aged

\* owner_for_run(): the owner of the first row that lists the run.
RunOwners(r) == {owner[t] : t \in {u \in Tasks : r \in runs[u]}}

-----------------------------------------------------------------------------
(* Process life. *)

\* A process starts with an empty memory.  The operator never runs two live
\* servers under one session id: that is docs/COORDINATION.md's rule for setting
\* CLAUDE_LOCAL_DELEGATE_SESSION_ID, and a restart follows the old one's death.
Start(p) ==
  /\ pc[p] = "unborn"
  /\ \A q \in Procs : Alive(q) => SessionOf[q] # SessionOf[p]
  /\ pc' = [pc EXCEPT ![p] = "ready"]
  /\ UNCHANGED <<board, flock, call, seen, spawned, files, native, looped>>

\* The kernel drops the flock of a dead process; its ticket stays in the file, and an
\* agent it has launched but not attached is cut off.
Crash(p) ==
  /\ Alive(p)
  /\ pc' = [pc EXCEPT ![p] = "dead"]
  /\ flock' = IF flock = p THEN None ELSE flock
  /\ call' = [call EXCEPT ![p] = NoCall]
  /\ seen' = [seen EXCEPT ![p] = {}]
  /\ spawned' = [spawned EXCEPT ![p] = None]
  /\ cut' = cut \cup ({spawned[p]} \ {None})
  /\ UNCHANGED <<board, files, agent, origin, resumed, looped>>

-----------------------------------------------------------------------------
(* Mutating requests that spawn nothing: under the lock from end to end. *)

\* Board.claim on a key that has no row.  On a key that has one it returns the
\* existing row and changes nothing.
Claim(p, t, m) ==
  /\ Serving(p)
  /\ status[t] = "free"
  /\ status' = [status EXCEPT ![t] = "active"]
  /\ owner' = [owner EXCEPT ![t] = SessionOf[p]]
  /\ mode' = [mode EXCEPT ![t] = m]
  /\ idle' = [idle EXCEPT ![t] = FALSE]
  /\ UNCHANGED <<runs, forced, meddled, flock, locals, files, native, looped>>

\* The owner may update; another session may only release a task that has been
\* idle past the threshold and whose runs have settled.
Entitled(p, t, s) ==
  \/ owner[t] = SessionOf[p]
  \/ idle[t] /\ s \in Final /\ Settled(runs[t])

\* Mutant: a takeover makes the releasing session the owner.
UpdateMovesOwner(p, t, s) ==
  /\ Serving(p)
  /\ status[t] \notin Final \cup {"free"}
  /\ Entitled(p, t, s)
  /\ s \in Final \cup {"waiting"} => Settled(runs[t])
  /\ status' = [status EXCEPT ![t] = s]
  /\ owner' = [owner EXCEPT ![t] = SessionOf[p]]
  /\ idle' = [idle EXCEPT ![t] = FALSE]
  /\ forced' = forced \ {t}
  /\ UNCHANGED <<mode, runs, meddled, flock, locals, files, native, looped>>

\* Board.update with its runs_settled callback, in one SQLite transaction.
Update(p, t, s) ==
  /\ Serving(p)
  /\ status[t] \notin Final \cup {"free"}
  /\ Entitled(p, t, s)
  /\ s \in Final \cup {"waiting"} => Settled(runs[t])
  /\ status' = [status EXCEPT ![t] = s]
  /\ idle' = [idle EXCEPT ![t] = FALSE]
  /\ forced' = forced \ {t}
  /\ UNCHANGED <<owner, mode, runs, meddled, flock, locals, files, native, looped>>

\* stop_delegate on a run no other session owns, when the stop takes.
Stop(p, r) ==
  /\ Serving(p)
  /\ agent[r] = "live"
  /\ RunOwners(r) \subseteq {SessionOf[p]}
  /\ agent' = [agent EXCEPT ![r] = "settled"]
  /\ resumed' = resumed \ {r}
  /\ UNCHANGED <<board, flock, locals, files, origin, cut, looped>>

\* A poll that spawns nothing ends a verified loop: r is no longer current in an open
\* loop.  The loop of a task answers to the task's owner, and only while the task is
\* active and in write mode.
LeaveLoop(p, r) ==
  /\ Serving(p)
  /\ r \in looped
  /\ \A t \in Tasks : r \in runs[t] =>
       owner[t] = SessionOf[p] /\ status[t] = "active" /\ mode[t] = "write"
  /\ looped' = looped \ {r}
  /\ UNCHANGED <<board, flock, locals, files, native>>

-----------------------------------------------------------------------------
(* The spawn. *)

\* Lock, Board.authorize, the roster check, and take_ticket's read of the file.
\* A refusal (or an unreadable roster) returns an error and changes nothing.
Admit(p, c) ==
  /\ Serving(p)
  /\ c.task # None =>
       /\ status[c.task] = "active"
       /\ owner[c.task] = SessionOf[p]
       /\ c.writes => mode[c.task] = "write" /\ NoLiveChild(c.task)
  /\ flock' = p
  /\ pc' = [pc EXCEPT ![p] = "ticketing"]
  /\ call' = [call EXCEPT ![p] = c]
  /\ seen' = [seen EXCEPT ![p] = LiveTickets]
  /\ UNCHANGED <<board, spawned, files, native, looped>>

\* continue_delegate forks the session of a settled run that no other session owns.
Continue(p, r, c) ==
  /\ agent[r] = "settled"
  /\ RunOwners(r) \subseteq {SessionOf[p]}
  /\ c.release
  /\ Admit(p, c)

\* Mutant: every spawn drops the lock, the verified loop's too.
TakeTicketDropsLock(p) ==
  /\ pc[p] = "ticketing"
  /\ tickets' = seen[p] \cup {p}
  /\ aged' = aged \cap (seen[p] \ {p})
  /\ flock' = None
  /\ pc' = [pc EXCEPT ![p] = "launching"]
  /\ seen' = [seen EXCEPT ![p] = {}]
  /\ UNCHANGED <<board, call, spawned, native, looped>>

\* take_ticket writes the file; a SPAWN_CALL then drops the lock.
TakeTicket(p) ==
  /\ pc[p] = "ticketing"
  /\ tickets' = seen[p] \cup {p}
  /\ aged' = aged \cap (seen[p] \ {p})
  /\ flock' = IF call[p].release THEN None ELSE flock
  /\ pc' = [pc EXCEPT ![p] = "launching"]
  /\ seen' = [seen EXCEPT ![p] = {}]
  /\ UNCHANGED <<board, call, spawned, native, looped>>

\* An agent starts: r joins the roster on behalf of p's request.
Born(p, r) ==
  /\ agent[r] = "absent"
  /\ agent' = [agent EXCEPT ![r] = "live"]
  /\ origin' = [origin EXCEPT ![r] = [by |-> p, task |-> call[p].task,
                                      writes |-> call[p].writes]]

\* `claude --bg` prints an id.
Launch(p, r) ==
  /\ pc[p] = "launching"
  /\ Born(p, r)
  /\ spawned' = [spawned EXCEPT ![p] = r]
  /\ pc' = [pc EXCEPT ![p] = "relocking"]
  /\ UNCHANGED <<board, flock, call, seen, files, resumed, cut, looped>>

\* The launch reports an error.  An agent may be running all the same: the 120 s
\* timeout fired, or the output held no id.
LaunchFails(p) ==
  /\ pc[p] = "launching"
  /\ pc' = [pc EXCEPT ![p] = "relocking"]
  /\ \/ UNCHANGED native
     \/ \E r \in Runs : Born(p, r) /\ cut' = cut \cup {r} /\ UNCHANGED resumed
  /\ UNCHANGED <<board, flock, call, seen, spawned, files, looped>>

\* Mutant: unlocked() restores the depth without taking the lock back.
RelockWithoutLock(p) ==
  /\ pc[p] = "relocking"
  /\ flock' = flock
  /\ seen' = [seen EXCEPT ![p] = LiveTickets]
  /\ pc' = [pc EXCEPT ![p] = "dropping"]
  /\ UNCHANGED <<board, call, spawned, files, native, looped>>

\* unlocked() takes the lock back; drop_ticket reads the file.
Relock(p) ==
  /\ pc[p] = "relocking"
  /\ flock \in {None, p}
  /\ flock' = p
  /\ seen' = [seen EXCEPT ![p] = LiveTickets]
  /\ pc' = [pc EXCEPT ![p] = "dropping"]
  /\ UNCHANGED <<board, call, spawned, files, native, looped>>

DropTicket(p) ==
  /\ pc[p] = "dropping"
  /\ tickets' = seen[p] \ {p}
  /\ aged' = aged \cap (seen[p] \ {p})
  /\ seen' = [seen EXCEPT ![p] = {}]
  /\ pc' = [pc EXCEPT ![p] = "attaching"]
  /\ UNCHANGED <<board, flock, call, spawned, native, looped>>

\* Mutant: a failed launch is attached like a successful one.
AttachUnchecked(p) ==
  /\ pc[p] = "attaching"
  /\ LET t == call[p].task
     IN  IF t = None THEN UNCHANGED <<runs, idle>>
         ELSE /\ runs' = [runs EXCEPT ![t] = @ \cup {spawned[p]}]
              /\ idle' = [idle EXCEPT ![t] = FALSE]
  /\ looped' = looped
  /\ flock' = None
  /\ pc' = [pc EXCEPT ![p] = "ready"]
  /\ call' = [call EXCEPT ![p] = NoCall]
  /\ spawned' = [spawned EXCEPT ![p] = None]
  /\ UNCHANGED <<status, owner, mode, forced, meddled, seen, files, native>>

\* Mutant: the attached row is the one authorize read before the launch.
AttachStaleRow(p) ==
  /\ pc[p] = "attaching" /\ call[p].task # None /\ spawned[p] # None
  /\ status' = [status EXCEPT ![call[p].task] = "active"]
  /\ runs' = [runs EXCEPT ![call[p].task] = @ \cup {spawned[p]}]
  /\ idle' = [idle EXCEPT ![call[p].task] = FALSE]
  /\ flock' = None
  /\ pc' = [pc EXCEPT ![p] = "ready"]
  /\ call' = [call EXCEPT ![p] = NoCall]
  /\ spawned' = [spawned EXCEPT ![p] = None]
  /\ UNCHANGED <<owner, mode, forced, meddled, seen, files, native, looped>>

\* Mutant: the request returns with the lock held.
AttachKeepsLock(p) ==
  /\ pc[p] = "attaching"
  /\ UNCHANGED <<runs, idle>>
  /\ looped' = looped
  /\ flock' = flock
  /\ pc' = [pc EXCEPT ![p] = "ready"]
  /\ call' = [call EXCEPT ![p] = NoCall]
  /\ spawned' = [spawned EXCEPT ![p] = None]
  /\ UNCHANGED <<status, owner, mode, forced, meddled, seen, files, native>>

\* Board.attach, whatever the task's status is by now; a verified loop saves the new
\* id as current in place of those it is done with; locked() releases.
Attach(p) ==
  /\ pc[p] = "attaching"
  /\ LET t == call[p].task
         r == spawned[p]
     IN  /\ IF t = None \/ r = None THEN UNCHANGED <<runs, idle>>
            ELSE /\ runs' = [runs EXCEPT ![t] = @ \cup {r}]
                 /\ idle' = [idle EXCEPT ![t] = FALSE]
         /\ IF t = None \/ call[p].release THEN UNCHANGED looped
            ELSE \E gone \in SUBSET (looped \cap runs[t]) :
                   looped' = (looped \ gone) \cup ({r} \ {None})
  /\ flock' = None
  /\ pc' = [pc EXCEPT ![p] = "ready"]
  /\ call' = [call EXCEPT ![p] = NoCall]
  /\ spawned' = [spawned EXCEPT ![p] = None]
  /\ UNCHANGED <<status, owner, mode, forced, meddled, seen, files, native>>

-----------------------------------------------------------------------------
(* The clock and the native supervisor. *)

\* TAKEOVER_IDLE_SECONDS pass since the row's updated_at.
GrowIdle(t) ==
  /\ status[t] # "free" /\ ~idle[t]
  /\ idle' = [idle EXCEPT ![t] = TRUE]
  /\ UNCHANGED <<status, owner, mode, runs, forced, meddled, flock, locals, files, native, looped>>

\* TICKET_TTL passes.  It outlasts the 120 s a launch may take, not the wait for
\* the lock after it, nor the ticket of a dead process.
AgeTicket(p) ==
  /\ p \in LiveTickets
  /\ pc[p] # "launching"
  /\ aged' = aged \cup {p}
  /\ UNCHANGED <<board, flock, locals, tickets, native, looped>>

\* An agent ends.
Settle(r) ==
  /\ agent[r] = "live"
  /\ agent' = [agent EXCEPT ![r] = "settled"]
  /\ resumed' = resumed \ {r}
  /\ UNCHANGED <<board, flock, locals, files, origin, cut, looped>>

\* A native SendMessage reaches a settled agent, which works again: an expert's next
\* question ("each message resumes it").  No server takes part.
Resume(r) ==
  /\ agent[r] = "settled" /\ meddled < MaxMeddling
  /\ meddled' = meddled + 1
  /\ agent' = [agent EXCEPT ![r] = "live"]
  /\ resumed' = resumed \cup {r}
  /\ UNCHANGED <<status, owner, mode, runs, idle, forced, flock, locals, files, origin, cut, looped>>

\* The native roster drops an old entry.
Forget(r) ==
  /\ agent[r] = "settled"
  /\ agent' = [agent EXCEPT ![r] = "forgotten"]
  /\ UNCHANGED <<board, flock, locals, files, origin, resumed, cut, looped>>

-----------------------------------------------------------------------------
(* The writers of the board that take no lock and ask nobody. *)

\* A set of tasks gets a status, whatever their runs and loops do.
Overwrite(chosen, s) ==
  /\ chosen # {} /\ meddled < MaxMeddling
  /\ meddled' = meddled + 1
  /\ status' = [t \in Tasks |-> IF t \in chosen THEN s ELSE status[t]]
  /\ idle' = [t \in Tasks |-> idle[t] /\ t \notin chosen]
  /\ forced' = forced \cup chosen
  /\ UNCHANGED <<owner, mode, flock, locals, files, agent, origin, resumed, looped>>

Open(t) == status[t] \notin Final \cup {"free"}

\* The dashboard: update_task_status sets any row to anything; cleanup_stale_tasks
\* finishes what is open and older than its caller says;
\* reap_failed_tasks cancels active tasks whose last run reads as failed, which an
\* incomplete roster makes of any run.
Dashboard ==
  /\ UNCHANGED <<runs, cut>>
  /\ \/ \E t \in Tasks, s \in UpdateStatuses : status[t] # "free" /\ Overwrite({t}, s)
     \/ \E old \in SUBSET {t \in Tasks : Open(t)}, s \in Final \cap UpdateStatuses : Overwrite(old, s)
     \/ \E failed \in SUBSET {t \in Tasks : status[t] = "active" /\ runs[t] # {}} :
          Overwrite(failed, "cancelled")

\* archive_stale_sessions.py: a row that was open and stale when the script read it
\* is written back as done, without the runs attached since.
Archive(t, read) ==
  /\ status[t] # "free"
  /\ Overwrite({t}, "done")
  /\ runs' = [runs EXCEPT ![t] = read]
  /\ cut' = cut \cup (runs[t] \ read)

-----------------------------------------------------------------------------

Request(p) ==
  \/ \E t \in Tasks, m \in Modes : Claim(p, t, m)
  \/ \E t \in Tasks, s \in UpdateStatuses : Update(p, t, s)
  \/ \E r \in Runs : Stop(p, r)
  \/ \E r \in Runs : LeaveLoop(p, r)
  \/ \E c \in SpawnRequests : Admit(p, c)
  \/ \E r \in Runs, c \in SpawnRequests : Continue(p, r, c)

\* What a process does once admitted, until the request returns.
Spawn(p) ==
  \/ TakeTicket(p)
  \/ \E r \in Runs : Launch(p, r)
  \/ LaunchFails(p)
  \/ Relock(p)
  \/ DropTicket(p)
  \/ Attach(p)

Environment ==
  \/ \E t \in Tasks : GrowIdle(t)
  \/ \E p \in Procs : AgeTicket(p)
  \/ \E r \in Runs : Settle(r) \/ Resume(r) \/ Forget(r)

\* Who writes rows without the lock.
Outside == Dashboard \/ \E t \in Tasks : \E read \in SUBSET runs[t] : Archive(t, read)

Next ==
  \/ \E p \in Procs : Start(p) \/ Crash(p) \/ Request(p) \/ Spawn(p)
  \/ Environment \/ Outside

Spec == Init /\ [][Next]_vars

\* A live process goes on with the request it serves (every blocking call has a
\* timeout), and the kernel does not pass over a waiter on the flock for ever.
Fairness == \A p \in Procs : WF_vars(Spawn(p)) /\ SF_vars(Relock(p))

FairSpec == Spec /\ Fairness

-----------------------------------------------------------------------------
(* Properties. *)

\* The operations lock does what locked() and unlocked() are written for: whoever
\* is between flock and unlock holds it, however spawns, errors and crashes mix,
\* and nobody keeps it after the request (coordination_runtime.py, locked).
LockDiscipline ==
  /\ \A p \in Procs : Critical(p) => flock = p
  /\ flock # None => Critical(flock)

\* The ticket file survives its unlocked read-modify-write: a spawn whose launch is
\* running has a ticket that counts, although other processes rewrite the whole
\* file meanwhile, and no ticket outlives its spawn except that of a dead process
\* (take_ticket, drop_ticket, TICKET_TTL).
TicketsCoverLaunches ==
  \A p \in Procs :
    /\ pc[p] = "launching" => p \in LiveTickets
    /\ p \in tickets => pc[p] \in Ticketed \cup {"dead"}

\* What was launched for t, except what was cut off from its row.
Children(t) == {r \in Runs \ cut : origin[r].task = t}

\* At most one writer launched for a reservation is live, attached or not yet, across
\* restarts of the owner, launches that fail and releases by other sessions ("This
\* reservation already has live/unknown children").  The exceptions are the agents that
\* no row tells of and those a message has brought back after they had settled.
OneLiveWriter ==
  \A t \in Tasks : \A r1, r2 \in Children(t) \ resumed :
    (/\ agent[r1] = "live" /\ agent[r2] = "live"
     /\ origin[r1].writes /\ origin[r2].writes) => r1 = r2

\* An attached run was launched for this reservation by the session that owns it,
\* however long the launch took and whoever touched the task meanwhile: what
\* stop_delegate and continue_delegate decide by, through owner_for_run.
RunsAnswerToLauncher ==
  \A t \in Tasks : \A r \in runs[t] :
    /\ origin[r].task = t
    /\ origin[r].by # None /\ SessionOf[origin[r].by] = owner[t]

\* The reservation a spawn was authorized for is still active when its run is
\* attached: Board.authorize's "enclosing server lock prevents release/spawn races".
\* It does not hold; the README says what happens.
SpawnKeepsTaskActive ==
  \A p \in Procs :
    InFlight(p) /\ call[p].task # None => status[call[p].task] = "active"

\* The same for the spawns that keep the lock, those of the verified loop: no session
\* changes the status under them, and only the writers without the lock do.
HeldSpawnKeepsTaskActive ==
  \A p \in Procs :
    InFlight(p) /\ ~call[p].release /\ call[p].task # None
      => status[call[p].task] = "active" \/ call[p].task \in forced

\* What no request may do to the row of a task.
RowGrows(t) ==
  /\ runs[t] \subseteq runs'[t]
  /\ status[t] \in Final => status'[t] = status[t]

\* A task keeps its owner.  A finished one stays finished, and no step loses an attached
\* run, although a spawn attaches its run long after it read the row, and another
\* session may have finished the task in between (Board.update, Board.attach): only the
\* writers without the lock reopen tasks, and only the script takes runs.
RowsOnlyGrow ==
  [][/\ \A t \in Tasks : owner[t] # None => owner'[t] = owner[t]
     /\ Outside \/ \A t \in Tasks : RowGrows(t)]_vars

\* A task with an unfinished verified loop is finished by no session, nor does a loop
\* take up a new run in a task that a session has finished meanwhile (settled): where
\* a finished task has an open loop, its status was set without the lock.
LoopsBlockRelease ==
  \A t \in Tasks : status[t] \in Final /\ runs[t] \cap looped # {} => t \in forced

\* Every admitted spawn returns to its caller, or its process dies: the lock it has
\* to take back is not kept from it for ever (unlocked, locked).
SpawnReturns ==
  \A p \in Procs : InFlight(p) ~> pc[p] \in {"ready", "dead"}
=============================================================================
