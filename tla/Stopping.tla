------------------------------- MODULE Stopping -------------------------------
(***************************************************************************)
(* Stopping one background session: stop_delegate, the turn guard that     *)
(* status polls and the guard sweep run, and the ladder of signals both    *)
(* climb.  A caller is a thread of a server.  It looks the session's       *)
(* process up in the native roster, probes it, signals it, waits for a     *)
(* grace period and looks again, until there is none or no signal is left; *)
(* other callers do the same meanwhile, and a session that is asked to end *)
(* may ignore it or come back under another pid.                           *)
(*                                                                         *)
(* The session is a delegate that carries a guarded name.  A first roster  *)
(* read that fails ends a call and changes nothing: it is no step here.    *)
(***************************************************************************)
EXTENDS Naturals, Sequences

CONSTANTS
  Callers,      \* threads: [by : server, kind : "stop", "poll" or "sweep"]
  Mortal,       \* the servers that may crash (a bound)
  PollCap,      \* DEFAULT_MAX_TURNS
  SweepCap,     \* BACKGROUND_MAX_TURNS
  RunCaps,      \* what turn_caps.json may say of the run, None if nothing
  RepeatCap,    \* REPEAT_CALL_CAP
  MaxTurns,     \* a bound on the agent's turns
  Comebacks,    \* how often the session may come back
  RosterFails,  \* whether a look at the roster may fail
  None

Procs  == {c.by : c \in Callers}
Ladder == <<"SIGINT", "SIGTERM", "SIGKILL">>

ASSUME CallerAssumption == \A c \in Callers : c.kind \in {"stop", "poll", "sweep"}
ASSUME CapAssumption ==
  /\ {PollCap, SweepCap, RepeatCap, MaxTurns, Comebacks} \subseteq Nat
  /\ RunCaps \subseteq Nat \cup {None}
ASSUME FailAssumption == RosterFails \in BOOLEAN
ASSUME NoneAssumption == None \notin Nat \cup Procs

VARIABLES
  up,        \* the servers that run
  sweeper,   \* who holds guard_sweep.lock
  live,      \* the session has a live process
  inc,       \* which one it is: its pid, in the order they were used
  returning, \* a process that ended is about to be replaced
  state,     \* what the roster says of the session
  final,     \* the transcript ends with the final answer
  cap,       \* the run's entry in turn_caps.json
  turns,     \* the model turns in the transcript
  same,      \* how many identical tool calls it ends with
  pc,        \* where each caller is
  rung,      \* the next signal of its ladder
  found,     \* the process its last look found in the roster
  reported,  \* the servers with the run in _TURN_GUARD_KILLED
  sure       \* the callers whose last look, and the answer it led to, can be relied on: the
             \* roster was read, and no other caller's signal was about to bring a new
             \* process (a history variable)

servers == <<up, sweeper, reported>>
session == <<live, inc, returning, state>>
agent   == <<final, turns, same>>
climb   == <<pc, rung, found, sure>>
vars    == <<up, sweeper, live, inc, returning, state, final, cap, turns, same,
             pc, rung, found, reported, sure>>

TypeOK ==
  /\ up \subseteq Procs
  /\ sweeper \in up \cup {None}
  /\ live \in BOOLEAN /\ returning \in BOOLEAN
  /\ inc \in 0 .. Comebacks
  /\ state \in {"working", "blocked", "done"}
  /\ final \in BOOLEAN
  /\ cap \in RunCaps
  /\ turns \in 0 .. MaxTurns /\ same \in 0 .. turns
  /\ pc \in [Callers ->
               {"idle", "looking", "probing", "signalling", "grace", "stopped", "survived"}]
  /\ rung \in [Callers -> 1 .. Len(Ladder) + 1]
  /\ found \in [Callers -> 0 .. Comebacks \cup {None}]
  /\ reported \subseteq up
  /\ sure \subseteq Callers

Init ==
  /\ up = Procs
  /\ sweeper = None
  /\ live = TRUE /\ returning = FALSE
  /\ inc = 0
  /\ state = "working"
  /\ final = FALSE
  /\ cap \in RunCaps
  /\ turns = 0 /\ same = 0
  /\ pc = [c \in Callers |-> "idle"]
  /\ rung = [c \in Callers |-> 1]
  /\ found = [c \in Callers |-> None]
  /\ reported = {} /\ sure = {}

-----------------------------------------------------------------------------
(* The servers.                                                            *)

\* The kernel releases the sweep lock; what the server had reported is forgotten.
Crash(p) ==
  /\ p \in up \cap Mortal
  /\ up' = up \ {p}
  /\ sweeper' = IF sweeper = p THEN None ELSE sweeper
  /\ reported' = reported \ {p}
  /\ pc' = [c \in Callers |-> IF c.by = p THEN "idle" ELSE pc[c]]
  /\ rung' = [c \in Callers |-> IF c.by = p THEN 1 ELSE rung[c]]
  /\ found' = [c \in Callers |-> IF c.by = p THEN None ELSE found[c]]
  /\ sure' = {c \in sure : c.by # p \/ pc[c] = "idle"}
  /\ UNCHANGED <<session, agent, cap>>

\* _acquire_sweep_lock
Elect(p) ==
  /\ p \in up
  /\ sweeper = None
  /\ sweeper' = p
  /\ UNCHANGED <<up, reported, session, agent, cap, climb>>

-----------------------------------------------------------------------------
(* Whom to stop.                                                           *)

Idle(c) == c.by \in up /\ pc[c] = "idle"

Climbs(c, first) ==
  /\ pc' = [pc EXCEPT ![c] = "looking"]
  /\ rung' = [rung EXCEPT ![c] = first]
  /\ sure' = sure \ {c}
  /\ UNCHANGED found

\* stop_delegate, up to the ladder: mode interrupt begins with SIGINT, terminate with
\* SIGTERM.  The operations lock keeps stops apart.
Stop(c) ==
  /\ Idle(c) /\ c.kind = "stop"
  /\ \A d \in Callers \ {c} : d.kind = "stop" => pc[d] = "idle"
  /\ state # "done"
  /\ state = "working" => ~final          \* else the roster entry is stale
  /\ \E first \in {1, 2} : Climbs(c, first)
  /\ UNCHANGED <<servers, session, agent, cap>>

\* _repeat_streak: the calls at the end that are alike, of at least two calls.
Streak == IF turns < 2 THEN 0 ELSE same

\* The turn ceiling a guard applies; 0 is none.
Limit(c) == IF cap # None THEN cap ELSE IF c.kind = "poll" THEN PollCap ELSE SweepCap

OverLimit(c) == Limit(c) > 0 /\ turns > Limit(c)

\* Mutant: a guard that has no ceiling for the run lets it be.
RunawayIfCapped(c) == cap # None /\ OverLimit(c)

Runaway(c) == OverLimit(c) \/ Streak >= RepeatCap

\* _turn_guard_check, up to the ladder, in a poll or in a pass of the sweep.
Guard(c) ==
  /\ Idle(c) /\ c.kind \in {"poll", "sweep"}
  /\ c.kind = "sweep" => sweeper = c.by
  /\ c.by \notin reported
  /\ state = "working"                    \* or busy or unknown
  /\ Runaway(c)
  /\ Climbs(c, 2)
  /\ UNCHANGED <<servers, session, agent, cap>>

-----------------------------------------------------------------------------
(* _stop_escalate                                                          *)

\* Mutant: the grace period is not waited for.
LookAtOnce(c) ==
  /\ pc[c] \in {"looking", "grace"}
  /\ found' = [found EXCEPT ![c] = IF state # "done" THEN inc ELSE None]
  /\ sure' = IF pc[c] = "looking" /\ returning THEN sure \ {c} ELSE sure \cup {c}
  /\ pc' = [pc EXCEPT ![c] = "probing"]
  /\ UNCHANGED <<servers, session, agent, cap, rung>>

\* _discover_session_pids reads the roster: the session's process of now, unless it has
\* settled.  A roster that cannot be read has none.  A session that comes back does so
\* within the grace period; a caller's first look waits for nothing.
Look(c) ==
  /\ pc[c] = "looking" \/ (pc[c] = "grace" /\ ~returning)
  /\ \E readable \in {TRUE, ~RosterFails} :
       /\ found' = [found EXCEPT ![c] = IF readable /\ state # "done" THEN inc ELSE None]
       /\ sure' = IF readable /\ ~returning THEN sure \cup {c} ELSE sure \ {c}
  /\ pc' = [pc EXCEPT ![c] = "probing"]
  /\ UNCHANGED <<servers, session, agent, cap, rung>>

\* _is_live_pid on what the roster listed, and what the caller makes of it.
Probe(c) ==
  /\ pc[c] = "probing"
  /\ IF live /\ found[c] = inc
     THEN /\ pc' = [pc EXCEPT ![c] = IF rung[c] > Len(Ladder) THEN "survived" ELSE "signalling"]
          /\ sure' = sure \ {c}
          /\ UNCHANGED found
     ELSE /\ pc' = [pc EXCEPT ![c] = "stopped"]
          /\ found' = [found EXCEPT ![c] = None]
          /\ UNCHANGED sure
  /\ UNCHANGED <<servers, session, agent, cap, rung>>

\* What a signal does to the process it reaches.
Hit(sig) ==
  \/ /\ sig # "SIGKILL"                   \* it carries on
     /\ UNCHANGED session
  \/ /\ live' = FALSE                     \* it ends, and may be replaced
     /\ returning' \in BOOLEAN
     /\ returning' => sig # "SIGKILL" /\ inc < Comebacks
     /\ UNCHANGED <<inc, state>>

\* Mutant: one signal is counted twice.
SignalSkipsRung(c) ==
  /\ pc[c] = "signalling"
  /\ IF live /\ found[c] = inc THEN Hit(Ladder[rung[c]]) ELSE UNCHANGED session
  /\ pc' = [pc EXCEPT ![c] = "grace"]
  /\ rung' = [rung EXCEPT ![c] = @ + 2]
  /\ found' = [found EXCEPT ![c] = None]
  /\ UNCHANGED <<servers, agent, cap, sure>>

\* _signal_pids; a process that went since the probe is passed over.
Signal(c) ==
  /\ pc[c] = "signalling"
  /\ IF live /\ found[c] = inc THEN Hit(Ladder[rung[c]]) ELSE UNCHANGED session
  /\ sure' = IF live = live' THEN sure ELSE {d \in sure : pc[d] # "probing"}
  /\ pc' = [pc EXCEPT ![c] = "grace"]
  /\ rung' = [rung EXCEPT ![c] = @ + 1]
  /\ found' = [found EXCEPT ![c] = None]
  /\ UNCHANGED <<servers, agent, cap>>

\* The caller answers.  The guard does not look at what became of the stop: the run
\* counts as killed, and this server never guards it again.
Report(c) ==
  /\ pc[c] \in {"stopped", "survived"}
  /\ pc' = [pc EXCEPT ![c] = "idle"]
  /\ rung' = [rung EXCEPT ![c] = 1]
  /\ found' = [found EXCEPT ![c] = None]
  /\ reported' = IF c.kind = "stop" THEN reported ELSE reported \cup {c.by}
  /\ UNCHANGED <<up, sweeper, session, agent, cap, sure>>

-----------------------------------------------------------------------------
(* The agent and the native supervisor.                                    *)

Acts == live /\ state = "working" /\ ~final

\* A model turn with a tool call, like the last one or not.
Work ==
  /\ Acts /\ turns < MaxTurns
  /\ turns' = turns + 1
  /\ same' \in {1, same + 1}
  /\ UNCHANGED <<servers, session, cap, climb, final>>

Finish ==
  /\ Acts
  /\ final' = TRUE
  /\ UNCHANGED <<servers, session, cap, climb, turns, same>>

\* The agent asks the supervisor something, and gets its reply.
Converse ==
  /\ live /\ ~final
  /\ \/ state = "working" /\ state' = "blocked"
     \/ state = "blocked" /\ state' = "working"
  /\ UNCHANGED <<servers, live, inc, returning, agent, cap, climb>>

\* The roster notices, some time later, that the session is over.
Settle ==
  /\ state # "done" /\ ~returning
  /\ final \/ ~live
  /\ state' = "done"
  /\ UNCHANGED <<servers, live, inc, returning, agent, cap, climb>>

\* The process ends by itself.
Exit ==
  /\ live
  /\ live' = FALSE
  /\ UNCHANGED <<servers, inc, returning, state, agent, cap, climb>>

\* claude --resume: the session goes on under another pid.
ComeBack ==
  /\ returning
  /\ returning' = FALSE
  /\ live' = TRUE
  /\ inc' = inc + 1
  /\ UNCHANGED <<servers, state, agent, cap, climb>>

-----------------------------------------------------------------------------
Native == Work \/ Finish \/ Converse \/ Settle \/ Exit \/ ComeBack
Climb(c) == Look(c) \/ Probe(c) \/ Signal(c) \/ Report(c)

Next ==
  \/ \E p \in Procs : Crash(p) \/ Elect(p)
  \/ \E c \in Callers : Stop(c) \/ Guard(c) \/ Climb(c)
  \/ Native

Spec == Init /\ [][Next]_vars

\* A ladder is climbed to its end, a server without the sweep lock tries to get it and
\* the sweeper sweeps, again and again; a process that is to return does.
FairSpec ==
  /\ Spec
  /\ \A c \in Callers : WF_vars(Climb(c)) /\ WF_vars(c.kind = "sweep" /\ Guard(c))
  /\ \A p \in Procs : WF_vars(Elect(p))
  /\ WF_vars(ComeBack)

-----------------------------------------------------------------------------
(* What should hold.                                                       *)

\* "Success is claimed only AFTER liveness is proven gone" (_stop_escalate): when a
\* caller is about to say that the session is over, it has no live process, or has
\* settled.
GoneWhenSaid ==
  [][\A c \in Callers : pc[c] # "stopped" /\ pc'[c] = "stopped" => ~live \/ state = "done"]_vars

\* Over for good: no process, and none to come, or settled.
Over == (~live /\ ~returning) \/ state = "done"

\* What is left of that promise between several callers: a session that a caller has
\* said to be over stays over, whatever signals the others send and whichever servers
\* crash, unless its last look could not read the roster or met the end of a process by
\* another caller's signal.  A session that comes back within the grace
\* period of a caller's own signal is not taken for gone (_discover_session_pids).
SaidIsOver == \A c \in sure : pc[c] # "probing" => Over

\* A session over the sweep's ceiling is ended, settles or asks something, whoever else
\* stops it at the same time, and whichever server crashes on the way.  Only a session
\* that came back while a server crashed can get away: the others may have counted it
\* as killed already.
RunawayEnds ==
  LET Due == \E c \in Callers : c.kind = "sweep" /\ OverLimit(c)
  IN  live /\ state = "working" /\ Due
        ~> \/ ~live /\ ~returning
           \/ state # "working"
           \/ up # Procs /\ inc > 0
=============================================================================
