# claude-local-delegate: models, checks and proofs

claude-local-delegate is an MCP server that hands work to background agents of a
local model. Several stdio servers, one per supervising session, run at once and
share files under one state directory. This project models what they do to each
other: the board and its event log, the lock, the spawns and their records, the verified
loop, stopping and the turn guard, waiting for results behind a roster that lags, reading
transcripts that grow, the adapter that runs `agy`, and the report that plans what is
left. TLC checks the models on small instances; TLAPS proves every safety property that
those runs check, for every size, and liveness stays with TLC.

* [The system](#the-system)
* [The models](#the-models)
* [What the runs show](#what-the-runs-show)
* [What is proved](#what-is-proved)
* [What is not modelled](#what-is-not-modelled)
* [Plan](#plan)

## The system

| component | state it keeps | operations | who else touches that state |
| --- | --- | --- | --- |
| Task board (`coordination.py`) | SQLite rows: status, owner, mode, runs, `updated_at`; an event log | `claim`, `update` (with takeover), `authorize`, `attach`, `owner_for_run`, `sync`, `note` | every server; the dashboard and the archive script, without its rules |
| Supervision (`coordination_runtime.py`) | `operations.lock`, `inflight.json`, per request: depth, held lock, current task | `locked`, `unlocked`, `spawn`, `settled`, `continue_delegate`, `handle` | every server |
| Native spawn (`server.py`) | `runs.json`, `turn_caps.json` | `_spawn_native_agent`, `_record_provenance`, `_record_turn_cap`, `_spawn_deep`, `show_agent_tree` | every server, partly with the lock dropped, and the servers within agents |
| Verified loop (`server.py`) | `verified/<vid>.json` | `delegate_verified`, `check_verified_status`, `get_verified_result` | every server of the session; `settled` reads it |
| Stopping (`server.py`) | none of its own; signals | `stop_delegate`, `_stop_escalate` | the turn guard |
| Turn guard (`server.py`) | runs already killed, the sweep lock | `_turn_guard_check`, the sweep thread | requests of the same server |
| stdio loop (`server.py`) | stdin, stdout, one thread per waiting call | `main`, `respond` | - |
| Waiting (`server.py`) | blocked episodes already recorded | `get_delegate_result`, `check_delegate_status`, `watch_delegate` | each other, on their threads |
| Transcript readers (`server.py`, `metrics.py`, `contrib/history_stats.py`) | the summary cache | `_transcript_summary`, `_repeat_streak`, `_terminal_final_text`, `transcript_stats`, `stream_transcript` | the session appends to the transcript |
| agy adapter (`agy_delegate.py`) | `agy_runs/<id>.json`, `.out`, `.err` | `spawn`, `check_status`, `get_result`, `stop` | every server and the dashboard, never with the lock |
| Dashboard actions, archive script | none; they write the board directly | status changes, cleanup, reaping, spawn; `--apply` | sessions |
| Deep tasks (`server.py`, `deep_tasks.py`) | the dossier a run writes | `deep_dive`, `context_pack`, `review_diff`, `start_expert`; `_with_deep_report` | - |
| Delegate report (`contrib/delegate_report.py`) | none | `build_schedule`, `find_cycle`, `list_schedule`, `critical_path` | - |
| Other reports, engine status, code navigation, installers, hooks | append-only files or none | - | - |

The components meet in files. A request that changes something holds
`operations.lock` from end to end, with two exceptions, and those are where the hard
behaviour is. A call in `SPAWN_CALLS` drops the lock while `claude --bg` runs (up to
120 s), so that everything it had read may be stale when it takes the lock back; and
the calls in `READ_ONLY_CALLS`, among them all of agy's but the spawn, never take it,
though some of them write. Servers die, agents outlive them, launches time out with
the agent running, and a restarted server carries on under the same session identity.

What makes each component correct:

* board: a finished task stays finished, keeps its owner and its runs; only its owner
  changes it, or another session that releases it once it is idle and settled;
* supervision: one holder of the lock at a time, one live writer per reservation, a
  ticket for every launch, a spawn returns, no session finishes a task under an open loop;
* verified loop: nothing is signed off that an independent checker has not passed, one
  round per rejection and at most `max_iterations`, no agent launched twice for one
  step, and an end in any case;
* agy: the metadata never says what is not so, a stop stops, and the end of a run is
  noticed;
* stopping and the turn guard: "stopped" is said only of what stays stopped, and a
  runaway is ended;
* native spawn: what is on record of a run is so, delegation has a bounded depth, a
  read-only run cannot write, and a record is lost only where two rewrites cross;
* stdio loop and waiting: lines are whole, no call waits for ever behind a wait, a run
  whose answer is there is not called "still working", and what is returned as the answer
  of an ended run is its last text;
* transcript readers: summaries are as fresh as the call, ends are proven, split and
  repeated entries do not inflate the ledger, cutting loses nothing that is looked for;
* dashboard and archive script: the log still tells every status, and what others wrote
  is kept, except by the script;
* dossiers: an answer fits its budget;
* delegate report: it gives up on cycles only, and its plans can be carried out.

## The models

| module | models | proofs |
| --- | --- | --- |
| `Supervision` | lock, tickets, spawn wrapper, native roster, board under the lock and those who write it without | `SupervisionProofs` |
| `BoardWriters` | the board's rows and event log, with all who write them | `BoardWritersProofs` |
| `NativeSpawn`, `Dossier` | tools, modes and lineage of spawned agents, the two files each spawn rewrites; the sizes of a deep run's answer | `NativeSpawnProofs` |
| `VerifiedLoop` | the loop's file, its polls, its agents | `VerifiedLoopProofs` |
| `LoopContract` | what the loop promises its caller, with no processes or crashes | |
| `Stopping` | one session, the callers that stop it, the turn guard and the sweep | `StoppingProofs` |
| `Serving` | one server: its loop, threads and stdout, waits, watches and status polls | `ServingProofs` |
| `Transcript` | one transcript while it grows, and its readers | `ReportProofs` |
| `AgyRuns` | one agy run, its metadata file and its callers | `AgyRunsProofs` |
| `Schedule` | the delegate report's plan, search, scheduler and critical path | `ReportProofs` |
| `MC...` | the instances TLC runs | |

How they fit: `Supervision` has a spawn from `Admit` to `Attach` and what reservations
promise of it; `NativeSpawn` has what its `Launch` may start, and the two files each launch
rewrites; `BoardWriters` has every write of a row with its event, and the transactions
which the writers without the lock really make.
`Serving` takes "the transcript proves the end" and "the guard stops the session" as
steps; `Transcript` says what such a proof is worth and `Stopping` what such a stop is.

### Supervision

A process is a stdio server; a restart is another member of `Procs` with the same
session (`SessionOf`), and only starts once the old one is dead. A request that spawns
nothing is one action (`Claim`, `Update`, `Stop`, `LeaveLoop`), because it runs from
`flock` to unlock with nobody else inside. A spawn is split wherever something can get
in between:

| action | code |
| --- | --- |
| `Admit` | lock, `authorize`, the roster and live-children checks, `take_ticket`'s read |
| `TakeTicket` | `take_ticket`'s write; a `SPAWN_CALL` then drops the lock |
| `Launch`, `LaunchFails` | `claude --bg`; it may time out with an agent running |
| `Relock` | `unlocked()` takes the lock back, `drop_ticket`'s read |
| `DropTicket` | `drop_ticket`'s write |
| `Attach` | `Board.attach`, the loop's save, the end of `locked()` |

`call[p].release` tells the calls that drop the lock from the loop's, which keep it
(the comment on `SPAWN_CALLS` says why). `looped` holds the ids that some open verified
loop has as current worker or checker: `settled()` refuses to finish their task.
`origin` is a history variable, what each agent was launched for, so that properties
can speak of agents the board does not know.

Three things happen to reservations that no server asks for or can prevent:

| action | code |
| --- | --- |
| `Dashboard` | `update_task_status` sets any row to anything; cleanup finishes what is old; `reap_failed_tasks` cancels active tasks with a run that reads as failed |
| `Archive` | `archive_stale_sessions.py` writes a row back as it read it, and as done |
| `Resume` | a native SendMessage wakes a settled agent: `start_expert`'s "each message resumes it" (`server.py:2882-2904`) |

The first two take no operations lock, look at no loop and wait for no launch. They break
what the servers promise each other, so three more history variables say where: `forced`
has the tasks whose status was last set in this way, `resumed` the agents that are live by
a message, and `cut` the agents no row tells of (the launch reported no id, the server died
before it attached, or the script wrote the row back without the run). The properties
except what these hold and nothing else. `MaxMeddling` bounds how often it happens.

Abstracted: paths and overlaps (they never block), notes and events (`BoardWriters` has
them), timestamps (to "idle past the threshold" and "older than `TICKET_TTL`"), the
agents' states (to live, settled, forgotten by the roster), and `runs.json`, of which
nothing is read back here (`NativeSpawn` has it). The dashboard's own spawns claim a row
of their own (`BoardWriters`).
`Continue` is `continue_delegate`: `Admit` of a call that drops the lock, behind two more
checks. Read-only calls take no lock and change nothing here.

### VerifiedLoop and LoopContract

One loop, its file, and the processes that poll it. A poll that launches nothing is one
locked step, one action per way `_advance_verified` can return; a poll that launches
goes through `Launch`, `Attach` and `Save`, with a crash possible between any two.
`RosterUnreadable` is `claude agents --json` failing: the agent reads as missing and
the loop fails with it. The texts are a small set, so that stagnation can and need not
happen; verdicts are PASS, FAIL or none. Which id the native supervisor hands out next
makes no difference and is fixed by `NewId`. The board row of the loop's reservation
stays active here; what can happen to it is in `Supervision`. The roster words working,
blocked and unknown are one word, since the loop waits on all three alike; `busy` is
another, for it does not wait on that one.

`LoopContract` states the promise alone: a new round answers a rejection, rounds are
bounded, an answer passes only on a verdict given in its round on that very text, a
waiver only without criteria, and there is one outcome. `VerifiedLoop` implements it
under a refinement mapping (`Contract`), checked as a property.

### Stopping

One native session and the threads that may stop it: a supervisor's `stop_delegate`
(one at a time, as it holds the operations lock), a status poll's guard and the sweep of
each server, of which the holder of `guard_sweep.lock` sweeps. They all climb the same
ladder, one action per step something can get in between:

| action | code |
| --- | --- |
| `Stop`, `Guard` | the call up to `_stop_escalate`; `Guard` is all of `_turn_guard_check` before it |
| `Look` | the roster read of `_discover_session_pids`, before a signal or after the grace period |
| `Probe` | the pid probe that follows it, and the test of what is left |
| `Signal` | `_signal_pids`; the process found may have gone, or been replaced |
| `Report` | the answer; a guard adds the run to `_TURN_GUARD_KILLED` |
| `Elect`, `Crash` | the sweep lock is taken, and freed by the death of its holder |

A process is known by its number, `inc`, in the order the session used them. It may
ignore every signal but SIGKILL, or end on it and come back within the grace period
(`returning`), as the comment on `DEFAULT_STOP_GRACE_SECONDS` describes. The transcript
is its number of turns, the length of the last run of identical calls (one call a turn)
and whether it ends with a final answer; the roster may lag behind all of it. The
roster's working, busy and unknown are one word: the guard treats them alike. All
processes belong to one user, so a signal is never refused. `sure` is a history variable:
the callers whose last look read the roster while no process was about to return from
another caller's signal.

### AgyRuns

One run; runs share no file. A client is a thread that calls the manager, in whichever
server or the dashboard. Every read and write of the metadata file is a step, and a
write is two, because `write_text` truncates the file before it writes: in between a
reader meets an empty file and its call ends in an exception nobody catches (`Raise`),
and two writers may leave a mixture that nobody can read again. `get_result` and the
polls after a spawn are `check_status` again and again. What is kept of the conversation
id is whether the record has the one agy reports, as that decides about one more write; a
SUCCESS that names no conversation (`"nameless"`) is recorded without one.

### BoardWriters

The table `tasks`, the table `events`, and five writers: sessions through `Board`, each
call one transaction; the dashboard's four routes (`SetStatus`, `Cleanup`, `Reap`, and
`WebSpawn`, which goes on with a SELECT, `WebRead`, and an UPDATE of what that returned,
`WebWrite`, with no transaction around them); and
`archive_stale_sessions.py --apply`, which reads every row first (`ReadAll`) and writes
back what it read, one stale task at a time (`Archive`). `Attach` needs no active task:
the one that was authorised may have been finished since. A note may name a task, and
says nothing of its status. There is one dashboard, whose `HTTPServer` answers one request
at a time. Ages stand for the
thresholds: nobody's, the takeover's and the dashboard's, the script's. `Reap` may
take any run for failed, as an unreadable or incomplete roster has it. A session
follows the log with `Sync`; `Fresh` and `First` are its SELECT and its LIMIT.

### NativeSpawn and Dossier

The callers are sessions and the agents they spawned, each with a server of its own. A
spawn is one action for each access to a file:

| action | code |
| --- | --- |
| `Ask` | the tool call, if the caller's own tools have it |
| `Launch`, `LaunchFails` | `claude --bg` with the flags `_spawn_native_agent` builds |
| `Stamp` | the entry: time, role, parent by the caller's token |
| `Load`, `Open`, `Write`, `Replace` | `_record_provenance`, through one temporary name for all |
| `LoadCaps`, `SaveCaps` | `_record_turn_cap`; its temporary name has the pid in it |
| `Reread` | `_spawn_deep` reads the entry back and records it again |

A file is absent, empty (opened for writing), torn or whole; an open file keeps its
identity when it is renamed, so a slow writer writes into what is `runs.json` by then.
`Callable` is what Claude Code makes of `--tools`, `--allowedTools`, `--disallowedTools`
and the mode; `FullToolset` is the environment switch that leaves `--tools` out.
`crossed` is a history variable: a rewrite of either file began while another caller was at
one of either. That is coarser than it need be: rewrites of different files do not disturb
each other.

`Dossier` does the arithmetic of `_deep_report` and `_with_deep_report` with the lengths
of the parts: every text is its length, every fixed phrase a constant, and the
assumptions say how long phrases may be in relation to the limits. `Result` is what
`get_delegate_result` returns, which puts a footer below what the budget was spent on.

### Serving

One server: `Take` is the loop of `main`, `Write` and `Flush` the two halves of a line
under `write_lock`, `Exit` the join at the end of input. `Concurrent` is `CONCURRENT_CALLS`:
waits and watches have threads of their own, which `Exit` joins; a poll is answered by the
loop. A wait goes through `Look` (the roster), `Prove` (the transcript, against the roster),
`Judge`, `LookLast` and `Fetch`; a poll through `Status`, then `Mark` and `Record` for the
ledger; a watch is `Watch`. Every read is a step, as the session goes on in between: it
narrates, blocks, ends, is stopped by the guard, is given more work, and the roster shows
any of its states with a delay or no state at all. `ready` is a history variable: the waits
whose answer was in the transcript before they began, and still is. A finished call's local
state is reset, as nobody reads it (`Forget`).

### Transcript

A transcript is a sequence of entries; a half-written line is there and does not parse.
The agent's actions produce what Claude Code writes: a response split over several
entries, several `tool_use` blocks in one response, a block that comes twice (`Again`), a
stop reason not known yet, bookkeeping in between. `made` is the number of blocks the model
made, so that the ledger's count by id (`StatsCalls`, `metrics.py:236-245`) and the
history's count of every block (`HistoryCalls`, `history_stats.py:163-165`) can be compared
with it. The readers are operators over the lines there are; only the summary, which
has a cache shared by the threads, is three actions (`Stat`, `Walk`, `Keep`). Texts are
the responses they belong to.

### Schedule

`Add` is `build_schedule`, item by item; `Enter`, `Close` and `Leave` are the recursion of
`find_cycle` with its stack and colours; `Place` is one round of `list_schedule`. The sets
the code iterates over in no fixed order are iterated over in any. Minutes are whole
numbers, keys are compared as numbers.

## What the runs show

| run | instance | checked |
| --- | --- | --- |
| `restart` | 3 servers, two of them one session before and after a restart; 1 task, 2 runs; writing spawns with and without the lock; 2 writes without the lock or messages to settled agents | `TypeOK`, `OneLiveWriter`, `RunsAnswerToLauncher`, `LoopsBlockRelease`, `HeldSpawnKeepsTaskActive`, `RowsOnlyGrow` |
| `sharing` | 2 servers of 2 sessions, 1 task, 1 run, spawns that drop the lock, 1 write without the lock or message, fairness | `LockDiscipline`, `TicketsCoverLaunches`, `SpawnReturns` |
| `verified_loop` | 3 servers of 2 sessions, one mortal; 4 agents, 2 rounds; with and without criteria, reservation, write tools; fairness | `PassIsEarned`, `NoStrayAgent`, `KeepsContract`, `LoopSettles` |
| `stop` | 2 servers that sweep, one mortal; the other one polls and stops; ceilings of 1 and 2, or none by the run's record; 3 turns, 1 comeback; fairness | `TypeOK`, `SaidIsOver`, `RunawayEnds` |
| `agy` | 2 callers, one mortal; fairness | `TypeOK`, `RecordIsEarned`, `EndIsNoticed`, `StopEndsRun` |
| `board` | 1 session and its takeover rule, the dashboard, the script; 2 tasks, 2 runs, 3 events, pages of 1 or 2 | `NoEventMissed`, `EventsTellStatus`, `RowsSurvive` |
| `native_spawn` | 1 session and the agents it spawns, 3 runs of which 2 may be on record; a capped lookup under `bypassPermissions`, an expert, an architect; the full toolset; 1 death | `LineageIsTrue`, `WorkersAreLeaves`, `ReadOnlyHolds`, `RecordedUnlessCrossed`, `TreeHidesNothing`, `ResultFits` |
| `serving` | a wait, a watch and a poll; one blocked episode, two turns; fairness | `LinesWhole`, `AnswersFitTheReads`, `CallsAnswered` |
| `transcript` | 2 threads, 2 summaries, a cache of 1; 2 calls made and up to 3 more entries | `SummaryIsFresh`, `EndIsProven`, `StatsCountOnce`, `SummaryShowsTail` |
| `schedule` | every list of up to 4 items over 4 tasks with forks, joins, cycles, unknown successors; 1 slot or 2 | `SearchDecides`, `PlanHolds`, `EtaIsBounded` |
| `unread_stop` | `stop` with a roster that may be unreadable | `GoneWhenSaid`, violated |
| `transcript_turns` | `transcript`'s agent | `TurnsAreResponses`, violated |

Bounds. One task is enough for the board under the lock: rows do not touch each other, and a
run is attached to one. Two runs let a reservation have a settled child, or one that a
message wakes, and a launch under way; two meddlings let the dashboard reopen what it, or a
session, has finished while a message wakes a child; three servers give an owner, its
restart and a rival. Two rounds let a loop be rejected, revised and given up; four agents
are two rounds, and a crash that wastes one leaves a loop that runs out of ids, which is why
deadlock is not checked (ids, servers, loops, events and calls are used up in all the
models). Three turns go one over the higher ceiling and are just enough for a repeat-call
cap of 3; one comeback is enough for a caller to signal a process that has been replaced.
Two clients are enough for every race on agy's file, which are between two writers or a
writer and a reader. `board`: two tasks are what a transaction over a set of them needs,
three events let a task be claimed, changed and archived with another session's note
between. One session is enough there, since a takeover asks only that the task be idle and
settled. `native_spawn`: three runs make a rewrite cross another's while a third trims the
list, and an architect with a worker of its own; the run has the full toolset, as what an
agent may not call then it may not call with the narrow one. `serving`: two threads and the
loop meet on the lock of stdout and in the guard; two waits do nothing more to each other.
`transcript`: a digest of 2 lines and a list of 3 calls are cut with a handful of entries.
`schedule`: four tasks are the smallest number with a fork and a join, or a cycle with a
tail. Symmetry is used over run ids, tasks, threads and tool calls, in runs without liveness
only.

Fairness. `Supervision`: a live process goes on with its request, since every blocking
call has a timeout (`claude --bg` 120 s, the roster 30 s, SQLite 15 s), and the kernel
does not pass over a waiter on the flock for ever (strong fairness of `Relock`, as the
lock may be free only now and then). `VerifiedLoop`: the owner of an open loop polls it
again and again, as the tools' texts ask for, the session's server comes back after a
crash, and the clock runs; polls are strongly fair because others hold the lock
meanwhile. No agent is assumed to end: the loop settles by its timeout. `Stopping`: a
ladder is climbed to its end and the sweep repeats (its loop catches every exception),
a server without the sweep lock tries to get it, a process that is to return does; no
poll and no stop is assumed, and no agent to end by itself. `AgyRuns`: a
call goes on, nothing in it waits, callers poll again, a dead server is started again.
`Serving`: the loop reads its next line and the threads run (weak fairness of `Take` and
of each call's `Step`: each roster read has a timeout, stdout is read); nothing is
assumed of the session, the roster or the client, and deadlines may never pass.

Two statements of the repository do not hold, each shown by a run with one property:

| run | statement | what happens |
| --- | --- | --- |
| `unread_stop` | "Success is claimed only AFTER liveness is proven gone" | a roster that cannot be read counts as one without the session (`GoneWhenSaid`) |
| `transcript_turns` | the status line's and the guard's "turns" are the model's | an entry of the transcript is counted as a turn, and a response is split over several (`TurnsAreResponses`) |

### Disagreements without a run

More of what the repository says does not hold. Where a property is named that no run
checks, the module has it as it is stated; the bounds under which TLC finds the
counterexamples are small variations of the runs above:

* `SpawnKeepsTaskActive` (`Supervision`): `authorize` says that the "enclosing server lock
  prevents release/spawn races" (`coordination.py:230`). A task can be finished by
  takeover while its spawn has the lock dropped; it does stay finished, and the loop's
  spawns, which keep the lock, are safe.
* "A run with no recorded backend was not spawned by this MCP" (`docs/COORDINATION.md:15`).
  Two launches rewrite `runs.json` and one record is lost: `RecordedUnlessCrossed`
  (`NativeSpawn`) does not hold without `~crossed`, and with it says that this is the only
  way to lose one. Caps are lost in the same way.
* `OneLiveWriter` (`Supervision`) without `resumed` or `cut`: a reservation "already has
  live/unknown children" (`coordination_runtime.py:161`) is refused another writer, but an
  expert that has settled does not count, and the next message wakes it
  (`server.py:2882-2904`); nor does a writer whose launch timed out and reported no id.
* `LoopsBlockRelease` and `HeldSpawnKeepsTaskActive` (`Supervision`) without `forced`: the
  dashboard and the archive script finish tasks under an open verified loop and under a
  launch. `settled()` (`coordination_runtime.py:119`) asks about loops so that this cannot
  happen; they do not call it.
* `LoopSettles` (`VerifiedLoop`) with a plan under a read reservation: a read-only
  `delegate_verified` starts, but every poll asks for a write reservation and is refused
  (`coordination_runtime.py:344`).
* `PassIsEarned` (`VerifiedLoop`) with `"busy"` among the words the roster has for a live
  agent: the loop does not list it (`server.py:2443`), and a worker is judged while it
  works. `verified_loop` and the theorems leave the word out.
* `FailedHasNoAnswer` (`AgyRuns`): the output is read before the pid is probed
  (`agy_delegate.py:195`), and a run that succeeds in between is recorded as failed.
* A repeat-call cap of 0 "disables the check" (`server.py:309`), but no streak is less than
  0, so that every working run that is polled or swept is stopped (`server.py:691`).
  `Runaway` (`Stopping`) has the comparison as it is; the runs use a cap of 3.
* `GoneWhenSaid` (`Stopping`) also fails with a roster that can be read: the process a caller
  finds in the roster (`server.py:2096`) may be ended by another caller's signal, before
  that look or between it and the probe of the pid (`server.py:2109`), and the session come
  back under a pid that nobody looked for. `SaidIsOver` says that this and an unreadable
  roster are the only ways.
* "DEEP_RESULT_MAX_CHARS" bounds report and message together (`server.py:2783-2798`, and the
  tests of `_with_deep_report` in `tests/test_deep.py`), but `get_delegate_result` adds a
  footer to that (`server.py:1896-1903`, `1988-1995`): `ResultsFit` (`Dossier`) holds of
  the result up to the `Footer` only.
* Tools "excluded unconditionally" from the agents (`server.py:129-131`) are not with the
  full toolset (`server.py:1118`): `Schema` (`NativeSpawn`) then has them, and an ordinary
  worker may call `Agent`. Of read-only runs `ReadOnlyHolds` holds all the same, as theirs
  are denied by name.
* The two statistics of one transcript do not agree on its tool calls: `transcript_stats`
  counts ids (`metrics.py:236-245`), since entries repeat, and `stream_transcript` every
  block (`history_stats.py:163`). They differ exactly where a block is there twice
  (`StatsCountOnce`). `_repeat_streak` counts every block too (`server.py:1410-1412`).
* `OneEventPerEpisode` (`Serving`): "ONE blocked event per blocked episode"
  (`server.py:1497`). Two threads may both find an episode unrecorded (`server.py:1798`),
  and an episode that begins and ends between two polls is not told from the next.
* `ReapedHadFailed` (`BoardWriters`): "tasks whose underlying runs have failed"
  (`dashboard.py:213`). A roster that cannot be read, or does not list the run, makes it
  a failed one (`server.py:3687`), and the task is cancelled with its run at work.
* `ArchitectsDoNotNest` (`NativeSpawn`): an architect "cannot recursively delegate to
  architects" (`server.py:987`). The architect's own tool is denied, but
  `delegate_to_local` takes the architect profile.

Four more observations follow from the models and are not claimed against any document:
an unreadable roster fails a verified loop for good while its worker works on
(`RosterUnreadable`); a guard counts a run as killed whatever became of the stop, so that
a session which comes back while its sweeper dies may never be guarded again (the
exception in `RunawayEnds`, without which TLC finds it); a loop whose owner never comes
back keeps its task from being released by anybody (`LoopsBlockRelease` with
`LeaveLoop`'s guard); and the archive script writes back rows as it read them, so that a
run attached meanwhile is lost from its row (the exception in `RowsSurvive`).

## What is proved

Every theorem holds for any sets of processes, sessions, tasks, runs and calls and any
values of the bounds, from the assumptions on constants, which TLC evaluates in the
runs.

`SupervisionProofs` assumes that every process has a session, `None` is none of them,
statuses and requests are those the tools accept. The invariants build on each other:

1. `TypeCorrect` (`TypeOK`): among others, only an id that a launch printed is attached.
2. `LockIsExclusive` (`LockDiscipline`): whoever is between `flock` and unlock holds
   the lock, and a held lock has its holder there.
3. `TicketsAreKept` (`TicketsCoverLaunches`): not inductive alone, since the file is
   rewritten from an earlier read. The strengthening says that what a process has read
   and not yet written back is still what the file says about everybody else; it holds
   because only a holder of the lock is between read and write.
4. `FlightHolds`: the invariant of a spawn under way. Its reservation belongs to its
   session, there is one live server per session, the run it launched was launched for
   that reservation and is in nobody's row yet, and no child in the row is live but by a
   message. This carries what `Admit` checked across the time without the lock: only the
   reservation's owner may spawn into it, that session has one server, and that server has
   one request at a time. A second part, `Accounted`, says where agents are: whatever was
   launched for a reservation is in its row, in the hands of a server, or cut off.
5. The board's promises then follow: `WritersAreSerialized` (`OneLiveWriter`, of agents
   attached or not yet: by `Accounted` there is nowhere else for a writer to be),
   `RunsAreOwned` (`RunsAnswerToLauncher`), `HeldSpawnsAreSafe`
   (`HeldSpawnKeepsTaskActive`), `LoopsAreKept` (`LoopsBlockRelease`), and the action
   property `RowsAreKept` (`RowsOnlyGrow`). The dashboard, the archive script and messages
   to settled agents are steps of the specification all these are about, as often as one
   likes (`MaxMeddling` is any number); what they break is excepted by name.

`VerifiedLoopProofs` proves `LoopIsTyped`, and, as long as the roster does not say `busy`
of an agent at work (`"busy" \notin LiveWords`, the disagreement above),
`ResultsAreEarned` (`PassIsEarned`), `AgentsAreWaitedFor` (`NoStrayAgent`) and
`ContractIsKept` (`KeepsContract`: the loop implements `LoopContract`, step by step under
the refinement mapping). The invariant has two layers. `Typed` adds to the types where a
poll can be in which phase. `Exact` relates the file, the roster and the poll under way:
who is current in the file was launched for this round, a checker was given the
candidate the file has, a verdict kept in the file is that checker's, and an agent nobody
waits for was cut off by a crash. `PassIsEarned` alone is not inductive, since what a
poll carries becomes the file one step later. `Keeps` then says what each step does to
the abstract state.

`AgyRunsProofs` proves, for any number of callers, `TypeCorrect` (`TypeOK`) and
`RecordsAreEarned` (`RecordIsEarned`). The invariant is about what callers hold in memory:
it may be out of date, but it is still true, because an output once parsed does not change
and an ended process stays ended; so whatever order the writes come in, what reaches the
file is true.

`StoppingProofs` proves, for any callers, ceilings and numbers of turns and comebacks,
`TypeCorrect` and `StopsAreProven` (`SaidIsOver`, whether the roster can be read or not).
The types need to know that a caller about to signal has a rung left, that one in the
middle of a ladder has a server, and that what returns is not there. What a caller has
said stays true because the only way back is a process that was to return already, and a
caller whose grace period is over has waited for those; the invariant follows what its look
found through the probe.

`NativeSpawnProofs` proves that records are true although they are lost:
`LineageHolds` is the inductive invariant (the entries in `runs.json`, in the temporary
file, and in every caller's hands are about launched runs and say what is so of them, and
tools and tokens are those the request made), and `EntriesAreTrue` (`LineageIsTrue`),
`WorkersSpawnNothing` (`WorkersAreLeaves`), `ReadOnlyRunsCannotWrite` (`ReadOnlyHolds`) and
`EveryRunIsShown` (`TreeHidesNothing`) follow from it. `EveryResultFits` is the arithmetic
of `Dossier` for any lengths, `AnswersFit` (`ResultFits`) its use; both bound what
`_with_deep_report` makes, and with the footer the whole answer. Read-only runs are kept
from editing, from `Agent` and from Serena's mutating tools; an architect among them may
still spawn local workers, which answer for themselves.
`ReturnedRunsAreRecorded` (`RecordedUnlessCrossed`) says that a record is lost in a crossing
or not at all. Its invariant, `Recording`, adds two parts to `Lineage`. `Stamps`: the
entries' times count the runs stamped so far and tell them apart, wherever an entry is
met, so that trimming by time drops a run only behind `Keep` later ones. `Tidy`: as long
as nothing has crossed, one rewriter is at work at most; what is owed of the runs that
were returned is in the file; and at each of the rewriter's steps what it has in hand, or
in the temporary file, holds all of that and its own run. It assumes of the constants that
there are finitely many runs and that caps are natural numbers.

`BoardWritersProofs` proves `LogTellsStatus` (`EventsTellStatus`), `FollowersMissNothing`
(`NoEventMissed`) and `OnlyTheScriptTakesBack` (`RowsSurvive`). Besides the types the
invariant (`Pending`) says that the row the dashboard has begun, and has read, is as it left
it, and that rows the script read are rows that exist. Most of the work is in the
transactions over a set of tasks, whose events come in any order.

`ServingProofs` proves `AnswersFitReads` (`AnswersFitTheReads`) and `LinesAreWhole`
(`LinesWhole`) for any number of waits, watches and polls. For the first, what a roster
read said to have settled has settled or was given more work since (`Dated`), and this
survives every step of the session. What it does not say: an answer may stay hidden behind
an old "blocked" in the roster, which the code does not hold against the transcript
(`server.py:1931-1940`), or behind the guard's reply; and a text that is newer than the
roster read it goes with may be of a turn that is not over. For the second, every whole
line in the stream is of a call that is done, at most one half is of the call that holds
the lock (`Stream`), and a call not yet answered is in the inbox, in the loop's hands or on
a thread the exit joins (`Owed`).

`ReportProofs` is about the two modules that compute what is reported, `Schedule` and
`Transcript`; their definitions have no names in common, so it extends both. Of `Schedule`,
for any tasks, estimates, successors, orders and slots:

* `PlansHold` (`PlanHolds`): slots are free only after all they were given has finished.
* `SearchIsRight` (`SearchDecides`): the stack is a chain of predecessors, and every set
  of tasks the search has left has one without predecessors in it (`Founded`), so that
  no cycle runs through them; a cycle found is a closed chain, and nothing on it is ever
  placed, so the scheduler stops short exactly then.
* `EtasAreBounded` (`EtaIsBounded`). About the plan (`EtaInv`): tasks are placed in an
  order, predecessors first (`Ranked`); nothing ends later than all that is placed takes
  together (`Within`); and with a slot for every task nothing waits but for its
  predecessors (`Prompt`, which needs that a slot without tasks is free from the start,
  `Spare`). About the critical path: the recursion has a result, and what it
  computes for a task is the heaviest chain that ends there, the lists it compares being
  ordered totally. The bounds of the ETA follow.

Of `Transcript`, for any transcript, readers, cache and limits, `SummariesAreFresh`
(`SummaryIsFresh`), `EndsAreProven` (`EndIsProven`), `StatisticsCountOnce`
(`StatsCountOnce`) and `SummariesShowTails` (`SummaryShowsTail`), from an invariant in four
parts. `Fresh`: whatever is cached under a size counts all whole entries of a file that
long, and a summary under way was keyed by a size the file had before it was walked; readers
that overwrite each other's cache do no harm because the size is read first. `Ended`: an end
the readers find is that of the last response, with or without the torn line, unless
somebody has spoken since. `Counted`: every response but the one under way has an entry, and
the ids of blocks are those of the calls made, so that the ledger counts as many, and a
count of blocks exceeds it where one is repeated (`BlocksAreCounted`). `SummaryShowsTail` is
about the reader alone: what it keeps while it walks is compared, entry by entry, with the
end of the transcript.

None of this uses an induction theorem of the library, as those take an operator as a
parameter. The least element of a set of counterexamples (`LeastElement`) does its work:
`UpTo` is induction over a set of numbers, `FoldsExist`, `FoldsAgree` and `FoldsRun` turn
a fold over the entries into a value after each of them, and the critical path's recursion
is unfolded along the order in which the tasks were placed.

Only model-checked is liveness (`SpawnReturns`, `LoopSettles`, `RunawayEnds`,
`EndIsNoticed`, `StopEndsRun`, `CallsAnswered`), which the prover does not handle under
fairness, and the two properties of the runs that end in a violation.

## What is not modelled

`PROJECT.json` lists every component with its status. Left out for good are parts that
keep no state others read, or only offline: the tables and averages of reports and
metrics, engine status, code navigation, installers, hooks, the dashboard's pages. Left
out of the modelled parts: the texts of prompts, briefs and profiles, the pool snapshot
(advisory), and errors of SQLite itself. Left out although the code is exposed to it:

* the reuse of a pid by another process, which the roster or an agy record may still
  name (`server.py:2109`): a signal could then reach something else;
* a server that dies between `Popen` and the first write of agy's metadata
  (`agy_delegate.py:116`) leaves a process nobody has an id for; `AgyRuns` has the step,
  but no document promises anything about it;
* the dashboard's cache of statistics (`dashboard.py:494`), the temporary file
  `check_updates.py` shares between runs, and dossier paths that only a second tells apart
  (`deep_tasks.py:36`).

## Plan

What is left, in this order:

1. In `Stopping`, pids that are reused, and the composition with `Serving`, whose guard
   is one step now.
2. The dashboard's cache and `check_updates.py`.
