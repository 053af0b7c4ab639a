----------------------------- MODULE VerifiedLoop -----------------------------
(***************************************************************************)
(* The verified loop of server.py: work, independent check, revise.  The   *)
(* loop is a file, verified/<vid>.json, that a poll moves by at most one   *)
(* transition.  A poll runs with the operations lock held from its read of *)
(* the file to its write, the launch of the next agent included, so two    *)
(* polls never overlap; a crash can still fall between any two of          *)
(*                                                                         *)
(*   launch the agent  -  attach it to the reservation  -  save the file   *)
(*                                                                         *)
(* The board row of the loop's reservation stays active here: its other    *)
(* changes, and the loop's hold on it, are in Supervision.                 *)
(***************************************************************************)
EXTENDS Naturals, Sequences, FiniteSets, SequencesExt

CONSTANTS
  Procs,      \* server processes; a restart is a new member of the set
  SessionOf,  \* the session each process serves
  Mortal,     \* the processes that may crash (a bound)
  Runs,       \* ids the native supervisor can hand out
  Texts,      \* what a worker may answer, up to white space
  Plans,      \* what delegate_verified may be called with
  MaxIters,   \* max_iterations
  LiveWords,  \* what the roster may say of an agent that runs
  None

\* "working" stands for working, blocked and unknown, which the loop waits on.
ASSUME LiveWordsAssumption == LiveWords # {} /\ LiveWords \subseteq {"working", "busy"}
ASSUME IterAssumption == MaxIters \in Nat \ {0}
ASSUME NoneAssumption == None \notin Procs \cup Runs \cup {SessionOf[p] : p \in Procs}
ASSUME PlanAssumption ==
  Plans \subseteq [criteria : BOOLEAN,                  \* acceptance criteria, or always_verify
                   readOnly : BOOLEAN,                  \* the worker's tools cannot write
                   mode : {"none", "read", "write"}]    \* the reservation, if any

Verdicts == {"PASS", "FAIL", ""}                        \* "" is no VERDICT line at all
Words    == Texts \cup Verdicts
Open     == {"working", "checking"}
Jobs     == [by : Procs \cup {None}, kind : {"worker", "checker"}, round : 1 .. MaxIters,
             about : Words]
Rounds   == [worker : Runs, cand : Words, checker : Runs \cup {None},
             verdict : Verdicts \cup {"pending", "UNVERIFIED"}]
Loops    == [phase : Open \cup {"none", "passed", "failed"}, iter : 1 .. MaxIters,
             worker : Runs \cup {None}, checker : Runs \cup {None}, history : Seq(Rounds),
             answer : Words]

VARIABLES
  plan,      \* the arguments of delegate_verified
  opener,    \* coordination_owner, the session that opened the loop
  file,      \* verified/<vid>.json
  late,      \* timeout_seconds have passed since created_at
  attached,  \* the runs of the reservation's row
  flock,     \* who holds operations.lock
  pc,        \* where each process is in its poll
  mem,       \* the state a poll has read and changed but not saved
  fresh,     \* the role and the id of the agent a poll launches
  roster,    \* the native roster
  says,      \* the last assistant text of each agent
  job        \* what each agent was launched for (a history variable)

request == <<plan, opener>>
locals  == <<pc, mem, fresh>>
native  == <<roster, says, job>>
vars    == <<plan, opener, file, late, attached, flock, pc, mem, fresh, roster, says, job>>

NoLoop  == [phase |-> "none", iter |-> 1, worker |-> None, checker |-> None,
            history |-> <<>>, answer |-> ""]
NoAgent == [role |-> "worker", id |-> None]

TypeOK ==
  /\ plan \in Plans
  /\ opener \in {SessionOf[p] : p \in Procs} \cup {None}
  /\ file \in Loops
  /\ late \in BOOLEAN
  /\ attached \subseteq Runs
  /\ flock \in Procs \cup {None}
  /\ pc \in [Procs -> {"unborn", "ready", "launching", "attaching", "saving", "dead"}]
  /\ mem \in [Procs -> Loops]
  /\ fresh \in [Procs -> [role : {"worker", "checker"}, id : Runs \cup {None}]]
  /\ roster \in [Runs -> {"absent", "working", "busy", "done", "failed"}]
  /\ says \in [Runs -> Words]
  /\ job \in [Runs -> Jobs]

Init ==
  /\ plan \in Plans
  /\ opener = None
  /\ file = NoLoop
  /\ late = FALSE
  /\ attached = {}
  /\ flock = None
  /\ pc = [p \in Procs |-> "unborn"]
  /\ mem = [p \in Procs |-> NoLoop]
  /\ fresh = [p \in Procs |-> NoAgent]
  /\ roster = [r \in Runs |-> "absent"]
  /\ says = [r \in Runs |-> ""]
  /\ job = [r \in Runs |-> [by |-> None, kind |-> "worker", round |-> 1, about |-> ""]]

-----------------------------------------------------------------------------
(* Process life. *)

Alive(p) == pc[p] \notin {"unborn", "dead"}

\* A process starts; the operator never runs two servers under one session id.
Start(p) ==
  /\ pc[p] = "unborn"
  /\ \A q \in Procs : Alive(q) => SessionOf[q] # SessionOf[p]
  /\ pc' = [pc EXCEPT ![p] = "ready"]
  /\ UNCHANGED <<request, file, late, attached, flock, mem, fresh, native>>

\* The kernel drops the flock; what the poll had not saved is lost.
Crash(p) ==
  /\ p \in Mortal
  /\ Alive(p)
  /\ pc' = [pc EXCEPT ![p] = "dead"]
  /\ flock' = IF flock = p THEN None ELSE flock
  /\ mem' = [mem EXCEPT ![p] = NoLoop]
  /\ fresh' = [fresh EXCEPT ![p] = NoAgent]
  /\ UNCHANGED <<request, file, late, attached, native>>

-----------------------------------------------------------------------------
(* What a poll reads. *)

Live(r) == roster[r] \in LiveWords

\* handle(): a loop under a reservation answers to its session only, and while it is
\* open authorize asks for a write reservation.  A loop without one answers to all.
Allowed(p) ==
  plan.mode = "none" \/ (plan.mode = "write" /\ opener = SessionOf[p])

\* Mutant: a poll does not wait for the lock.
TurnUnlocked(p) == pc[p] = "ready" /\ file.phase \in Open /\ Allowed(p)

\* A poll of an open loop gets the lock and has its request accepted.
Turn(p) == flock = None /\ pc[p] = "ready" /\ file.phase \in Open /\ Allowed(p)

\* The agent the loop waits for.
Current == IF file.phase = "working" THEN file.worker ELSE file.checker

\* _agent_settled_state is none of working, blocked, unknown, failed, stopped, missing.
Answered(phase) ==
  file.phase = phase /\ ~late /\ roster[Current] \notin {"working", "failed"}

\* The worker's answer goes into the history of the round.
WithCandidate ==
  [file EXCEPT !.history =
     Append(@, [worker |-> file.worker, cand |-> says[file.worker], checker |-> None,
                verdict |-> "pending"])]

\* The checker's verdict goes into the round's entry.
WithVerdict ==
  [file EXCEPT !.history[Len(file.history)].verdict = says[file.checker]]

\* The same answer two rounds running.
Stagnant == file.history # <<>> /\ Last(file.history).cand = says[file.worker]

\* Mutant: a clean tree is enough to skip the checker, whatever the caller asked for.
MaySkipWhenClean == TRUE

\* _skip_verification: no criteria, and read-only tools or a clean git tree.
MaySkip == ~plan.criteria

\* The other outcome of _skip_verification: a writing worker may have changed the tree.
MayCheck == plan.criteria \/ ~plan.readOnly

Failed(loop) == [loop EXCEPT !.phase = "failed"]

-----------------------------------------------------------------------------
(* The transitions of _advance_verified that launch nothing: one locked step. *)

\* The poll saves f and returns.
Saves(p, f) ==
  /\ Turn(p)
  /\ file' = f
  /\ UNCHANGED <<request, late, attached, flock, locals, native>>

\* Mutant: the wall-clock guard is only looked at while a worker runs.
TimeOutWorking(p) == late /\ file.phase = "working" /\ Saves(p, Failed(file))

\* The wall-clock guard, whatever the phase.
TimeOut(p) == late /\ Saves(p, Failed(file))

\* The agent failed or was stopped.
AgentGone(p) == Turn(p) /\ ~late /\ roster[Current] = "failed" /\ Saves(p, Failed(file))

\* `claude agents --json` fails or times out: the agent reads as missing, and the loop
\* fails with it, whatever the agent is doing.
RosterUnreadable(p) == ~late /\ Saves(p, Failed(file))

Stagnate(p) == Answered("working") /\ Stagnant /\ Saves(p, Failed(WithCandidate))

\* Nothing objective to check: the answer passes unverified.
SkipCheck(p) ==
  /\ Answered("working") /\ ~Stagnant /\ MaySkip
  /\ Saves(p, [WithCandidate EXCEPT !.phase = "passed", !.answer = says[file.worker],
                 !.history[Len(file.history) + 1].verdict = "UNVERIFIED"])

\* Mutant: a checker that gave no verdict confirms the work.
SignOffUnlessFail(p) ==
  /\ Answered("checking") /\ says[file.checker] # "FAIL"
  /\ Saves(p, [WithVerdict EXCEPT !.phase = "passed", !.answer = Last(file.history).cand])

\* The checker said PASS: the answer it was shown is the result.
SignOff(p) ==
  /\ Answered("checking") /\ says[file.checker] = "PASS"
  /\ Saves(p, [WithVerdict EXCEPT !.phase = "passed", !.answer = Last(file.history).cand])

\* FAIL, or no verdict, in the last round.
GiveUp(p) ==
  /\ Answered("checking") /\ says[file.checker] # "PASS" /\ file.iter = MaxIters
  /\ Saves(p, Failed(WithVerdict))

-----------------------------------------------------------------------------
(* The transitions that launch an agent keep the lock across the launch. *)

Begins(p, f, role) ==
  /\ flock' = p
  /\ pc' = [pc EXCEPT ![p] = "launching"]
  /\ mem' = [mem EXCEPT ![p] = f]
  /\ fresh' = [fresh EXCEPT ![p] = [role |-> role, id |-> None]]
  /\ UNCHANGED <<file, late, attached, native>>

\* delegate_verified.  A reservation opens to its owner alone, and a writing worker
\* needs one for writing (Board.authorize).
OpenLoop(p) ==
  /\ flock = None /\ pc[p] = "ready" /\ file.phase = "none" /\ opener = None
  /\ plan.mode = "read" => plan.readOnly
  /\ opener' = SessionOf[p]
  /\ UNCHANGED plan
  /\ Begins(p, [NoLoop EXCEPT !.phase = "working"], "worker")

\* The worker is done and there is something to check.
AskChecker(p) ==
  /\ Turn(p)
  /\ Answered("working") /\ ~Stagnant /\ MayCheck
  /\ UNCHANGED request
  /\ Begins(p, WithCandidate, "checker")

\* FAIL, or no verdict, with rounds left: the next worker revises.
Revise(p) ==
  /\ Turn(p)
  /\ Answered("checking") /\ says[file.checker] # "PASS" /\ file.iter < MaxIters
  /\ UNCHANGED request
  /\ Begins(p, [WithVerdict EXCEPT !.iter = @ + 1, !.phase = "working"], "worker")

\* spawn()'s reservation check; every checker has Bash and counts as a writer.
Rivals(p) ==
  /\ plan.mode # "none"
  /\ fresh[p].role = "checker" \/ ~plan.readOnly
  /\ \E r \in attached : roster[r] \notin {"done", "failed"}

\* The next id the native supervisor hands out; which one it is makes no difference.
NewId == CHOOSE r \in Runs : roster[r] = "absent"

\* The agent starts.  A checker is told of the candidate it has to judge.
Born(p) ==
  /\ \E r \in Runs : roster[r] = "absent"
  /\ \E w \in LiveWords : roster' = [roster EXCEPT ![NewId] = w]
  /\ job' = [job EXCEPT ![NewId] =
               [by |-> p, kind |-> fresh[p].role, round |-> mem[p].iter,
                about |-> IF fresh[p].role = "checker" THEN Last(mem[p].history).cand ELSE ""]]
  /\ UNCHANGED says

Returns(p) ==
  /\ flock' = None
  /\ pc' = [pc EXCEPT ![p] = "ready"]
  /\ mem' = [mem EXCEPT ![p] = NoLoop]
  /\ fresh' = [fresh EXCEPT ![p] = NoAgent]

Launch(p) ==
  /\ pc[p] = "launching" /\ ~Rivals(p)
  /\ Born(p)
  /\ pc' = [pc EXCEPT ![p] = "attaching"]
  /\ fresh' = [fresh EXCEPT ![p].id = NewId]
  /\ UNCHANGED <<request, file, late, attached, flock, mem>>

\* The spawn is refused or fails, and the loop with it.  A launch that timed out may
\* have started an agent all the same.  A loop never opened leaves no file.
SpawnFails(p) ==
  /\ pc[p] = "launching"
  /\ \/ UNCHANGED native
     \/ ~Rivals(p) /\ Born(p)
  /\ file' = IF file.phase = "none" THEN file ELSE Failed(mem[p])
  /\ Returns(p)
  /\ UNCHANGED <<request, late, attached>>

\* Board.attach, in the spawn wrapper.
Attach(p) ==
  /\ pc[p] = "attaching"
  /\ attached' = IF plan.mode = "none" THEN attached ELSE attached \cup {fresh[p].id}
  /\ pc' = [pc EXCEPT ![p] = "saving"]
  /\ UNCHANGED <<request, file, late, flock, mem, fresh, native>>

\* _save_verified with the new agent as the current one.
Save(p) ==
  /\ pc[p] = "saving"
  /\ file' = IF fresh[p].role = "worker"
             THEN [mem[p] EXCEPT !.phase = "working", !.worker = fresh[p].id, !.checker = None]
             ELSE [mem[p] EXCEPT !.phase = "checking", !.checker = fresh[p].id,
                     !.history[Len(mem[p].history)].checker = fresh[p].id]
  /\ Returns(p)
  /\ UNCHANGED <<request, late, attached, native>>

-----------------------------------------------------------------------------
(* The clock and the agents. *)

Expire ==
  /\ file.phase \in Open /\ ~late
  /\ late' = TRUE
  /\ UNCHANGED <<request, file, attached, flock, locals, native>>

\* An agent ends its work with a last message: an answer, or a verdict.
Finish(r, w) ==
  /\ Live(r)
  /\ w \in IF job[r].kind = "worker" THEN Texts ELSE Verdicts
  /\ roster' = [roster EXCEPT ![r] = "done"]
  /\ says' = [says EXCEPT ![r] = w]
  /\ UNCHANGED <<request, file, late, attached, flock, locals, job>>

\* An agent fails, or is stopped.
Break(r) ==
  /\ Live(r)
  /\ roster' = [roster EXCEPT ![r] = "failed"]
  /\ UNCHANGED <<request, file, late, attached, flock, locals, says, job>>

-----------------------------------------------------------------------------

Poll(p) ==
  \/ TimeOut(p)
  \/ AgentGone(p)
  \/ Stagnate(p)
  \/ SkipCheck(p)
  \/ SignOff(p)
  \/ GiveUp(p)
  \/ AskChecker(p)
  \/ Revise(p)

Serve(p) ==
  \/ Launch(p)
  \/ SpawnFails(p)
  \/ Attach(p)
  \/ Save(p)

Next ==
  \/ \E p \in Procs : Start(p) \/ Crash(p) \/ OpenLoop(p) \/ Poll(p)
                       \/ RosterUnreadable(p) \/ Serve(p)
  \/ Expire
  \/ \E r \in Runs : Break(r) \/ \E w \in Words : Finish(r, w)

Spec == Init /\ [][Next]_vars

\* A supervisor polls its open loop again and again ("Poll check_verified_status"), a
\* server of its session comes back after a crash, a poll ends and the clock runs.
Fairness ==
  /\ \A p \in Procs : WF_vars(Start(p)) /\ SF_vars(Poll(p)) /\ WF_vars(Serve(p))
  /\ WF_vars(Expire)

FairSpec == Spec /\ Fairness

-----------------------------------------------------------------------------
(* Properties. *)

\* A signed-off result was earned: it is the whole answer of the worker of the last
\* round, and an independent checker that was shown that answer said PASS
\* (get_verified_result's "signed off ... by an independent local checker").
PassIsEarned ==
  LET last == Last(file.history)
  IN  file.phase = "passed" /\ last.verdict # "UNVERIFIED" =>
        /\ file.answer = says[last.worker]
        /\ job[last.checker].kind = "checker" /\ job[last.checker].about = file.answer
        /\ says[last.checker] = "PASS"

\* "Two supervisors polling one vid must not both launch a checker": an agent at work
\* is the one its loop waits for, unless its launcher is still busy with it, died
\* before it could save, or gave the loop up.
NoStrayAgent ==
  \A r \in Runs :
    LET by == job[r].by
    IN  Live(r) => \/ file.phase \in Open /\ r = Current
                   \/ fresh[by].id = r
                   \/ pc[by] = "dead"
                   \/ file.phase \in {"none", "failed"}

\* The loop as its caller sees it: signed off only on a verdict on that very answer,
\* one round per rejection, never more than max_iterations, and no second outcome.
Contract == INSTANCE LoopContract WITH
  waivable <- ~plan.criteria,
  outcome  <- CASE file.phase = "none" -> "none"
                [] file.phase \in Open -> "open"
                [] file.phase = "failed" -> "failed"
                [] OTHER -> IF Last(file.history).verdict = "UNVERIFIED"
                                THEN "unverified" ELSE "passed",
  round    <- file.iter,
  judged   <- {<<job[r].round, job[r].about, says[r]>> :
                 r \in {s \in Runs : job[s].kind = "checker" /\ roster[s] = "done"}},
  answer   <- file.answer

KeepsContract == Contract!CSpec

\* A loop whose owner keeps polling ends, by a verdict, a guard or the clock, though
\* servers crash in the middle of a poll (the runaway-loop guards).
LoopSettles == file.phase \in Open ~> file.phase \in {"passed", "failed"}

=============================================================================
