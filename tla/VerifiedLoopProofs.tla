------------------------- MODULE VerifiedLoopProofs -------------------------
(***************************************************************************)
(* Proofs about VerifiedLoop, for any servers, sessions, agents, plans and *)
(* number of rounds.  That a result is earned, that no agent strays and    *)
(* that the loop keeps its contract is proved for a roster that says       *)
(* "working" of an agent at work: with "busy" none of it holds.            *)
(***************************************************************************)
EXTENDS VerifiedLoop, TLAPS

Busy == {"launching", "attaching", "saving"}

LEMMA WordsAre == Verdicts \subseteq Words /\ Texts \subseteq Words /\ "" \in Words
BY DEF Words, Verdicts

LEMMA FirstRound == 1 \in 1..MaxIters
BY IterAssumption

-----------------------------------------------------------------------------
(* What is written into the file. *)

\* A loop's history gets a round, or a field of its last one changes.
LEMMA Appends ==
  ASSUME NEW h \in Seq(Rounds), NEW e \in Rounds
  PROVE  /\ Append(h, e) \in Seq(Rounds) /\ Append(h, e) # <<>>
         /\ Len(Append(h, e)) = Len(h) + 1 /\ Last(Append(h, e)) = e
BY DEF Last

LEMMA Changes ==
  ASSUME NEW h \in Seq(Rounds), h # <<>>, NEW e \in Rounds
  PROVE  LET g == [h EXCEPT ![Len(h)] = e]
         IN  g \in Seq(Rounds) /\ g # <<>> /\ Last(g) = e
<1> DEFINE g == [h EXCEPT ![Len(h)] = e]
<1>1. Len(h) \in 1..Len(h)
  OBVIOUS
<1>2. g \in Seq(Rounds) /\ Len(g) = Len(h) /\ g[Len(h)] = e
  BY <1>1
<1> QED
  BY <1>1, <1>2 DEF Last

LEMMA LastIsRound == ASSUME NEW h \in Seq(Rounds), h # <<>> PROVE Last(h) \in Rounds /\ Last(h) = h[Len(h)]
BY DEF Last

\* Loops f and g differ in their histories only.
Alike(f, g) ==
  /\ g \in Loops /\ g.phase = f.phase /\ g.iter = f.iter /\ g.worker = f.worker
  /\ g.checker = f.checker /\ g.answer = f.answer

LEMMA HistoryChanged ==
  ASSUME NEW f \in Loops, NEW h \in Seq(Rounds)
  PROVE  Alike(f, [f EXCEPT !.history = h]) /\ [f EXCEPT !.history = h].history = h
BY DEF Loops, Alike

LEMMA Candidate ==
  ASSUME file \in Loops, file.worker \in Runs, says \in [Runs -> Words]
  PROVE  /\ Alike(file, WithCandidate) /\ WithCandidate.history # <<>>
         /\ Len(WithCandidate.history) = Len(file.history) + 1
         /\ Last(WithCandidate.history).worker = file.worker
         /\ Last(WithCandidate.history).cand = says[file.worker]
         /\ Last(WithCandidate.history).verdict = "pending"
<1> DEFINE e == [worker |-> file.worker, cand |-> says[file.worker], checker |-> None, verdict |-> "pending"]
<1>1. e \in Rounds
  BY DEF Rounds
<1>2. file.history \in Seq(Rounds)
  BY DEF Loops
<1>3. WithCandidate = [file EXCEPT !.history = Append(file.history, e)]
  BY DEF WithCandidate
<1>4. /\ Append(file.history, e) \in Seq(Rounds) /\ Append(file.history, e) # <<>>
      /\ Len(Append(file.history, e)) = Len(file.history) + 1
      /\ Last(Append(file.history, e)) = e
  BY <1>1, <1>2, Appends
<1>5. e.worker = file.worker /\ e.cand = says[file.worker] /\ e.verdict = "pending"
  OBVIOUS
<1> HIDE DEF e
<1> QED
  BY <1>3, <1>4, <1>5, HistoryChanged

\* One field of the last round.
LEMMA LastRoundChanged ==
  ASSUME NEW f \in Loops, f.history # <<>>, NEW e \in Rounds,
         NEW g, g = [f EXCEPT !.history = [f.history EXCEPT ![Len(f.history)] = e]]
  PROVE  Alike(f, g) /\ g.history # <<>> /\ Last(g.history) = e
<1>1. f.history \in Seq(Rounds)
  BY DEF Loops
<1> DEFINE h == [f.history EXCEPT ![Len(f.history)] = e]
<1>2. h \in Seq(Rounds) /\ h # <<>> /\ Last(h) = e
  BY <1>1, Changes
<1>3. g = [f EXCEPT !.history = h]
  OBVIOUS
<1> HIDE DEF h
<1> QED
  BY <1>2, <1>3, HistoryChanged

LEMMA Verdict ==
  ASSUME file \in Loops, file.history # <<>>, says[file.checker] \in Verdicts
  PROVE  /\ Alike(file, WithVerdict) /\ WithVerdict.history # <<>>
         /\ Last(WithVerdict.history).worker = Last(file.history).worker
         /\ Last(WithVerdict.history).cand = Last(file.history).cand
         /\ Last(WithVerdict.history).checker = Last(file.history).checker
         /\ Last(WithVerdict.history).verdict = says[file.checker]
<1>1. Last(file.history) \in Rounds /\ Last(file.history) = file.history[Len(file.history)]
  BY LastIsRound DEF Loops
<1> DEFINE e == [Last(file.history) EXCEPT !.verdict = says[file.checker]]
<1>2. /\ e \in Rounds /\ e.worker = Last(file.history).worker /\ e.cand = Last(file.history).cand
      /\ e.checker = Last(file.history).checker /\ e.verdict = says[file.checker]
  BY <1>1 DEF Rounds
<1>3. WithVerdict = [file EXCEPT !.history = [file.history EXCEPT ![Len(file.history)] = e]]
  BY <1>1 DEF WithVerdict
<1> HIDE DEF e
<1> QED
  BY <1>2, <1>3, LastRoundChanged

-----------------------------------------------------------------------------
(* The types, whatever the roster's words. *)

Launched(r, kind) == r \in Runs /\ roster[r] # "absent" /\ job[r].kind = kind

\* What a poll that launches an agent has in hand.
Carries(p) ==
  /\ fresh[p].role = "checker" => mem[p].history # <<>>
  /\ pc[p] \in {"attaching", "saving"} => Launched(fresh[p].id, fresh[p].role)

Typed ==
  /\ TypeOK
  /\ file.phase = "working" => file.worker \in Runs
  /\ file.phase = "checking" => Launched(file.checker, "checker") /\ file.history # <<>>
  /\ \A p \in Procs : pc[p] \in Busy => Carries(p)
  /\ \A r \in Runs : job[r].kind = "checker" => says[r] \in Verdicts
  /\ \A r \in Runs : roster[r] = "absent" => says[r] = ""

\* One field at a time.
LEMMA PhaseSet ==
  ASSUME NEW f \in Loops, NEW phase \in Open \cup {"none", "passed", "failed"}
  PROVE  LET g == [f EXCEPT !.phase = phase]
         IN  /\ g \in Loops /\ g.phase = phase /\ g.iter = f.iter /\ g.worker = f.worker
             /\ g.checker = f.checker /\ g.answer = f.answer /\ g.history = f.history
BY DEF Loops

LEMMA IterSet ==
  ASSUME NEW f \in Loops, NEW n \in 1..MaxIters
  PROVE  LET g == [f EXCEPT !.iter = n]
         IN  /\ g \in Loops /\ g.iter = n /\ g.worker = f.worker /\ g.answer = f.answer
             /\ g.checker = f.checker /\ g.history = f.history
BY DEF Loops

LEMMA WorkerSet ==
  ASSUME NEW f \in Loops, NEW r \in Runs \cup {None}
  PROVE  LET g == [f EXCEPT !.worker = r]
         IN  /\ g \in Loops /\ g.phase = f.phase /\ g.iter = f.iter /\ g.worker = r
             /\ g.checker = f.checker /\ g.answer = f.answer /\ g.history = f.history
BY DEF Loops

LEMMA CheckerSet ==
  ASSUME NEW f \in Loops, NEW r \in Runs \cup {None}
  PROVE  LET g == [f EXCEPT !.checker = r]
         IN  /\ g \in Loops /\ g.phase = f.phase /\ g.iter = f.iter /\ g.worker = f.worker
             /\ g.checker = r /\ g.answer = f.answer /\ g.history = f.history
BY DEF Loops

LEMMA NoLoopIsLoop ==
  /\ NoLoop \in Loops /\ NoLoop.phase = "none" /\ NoLoop.iter = 1 /\ NoLoop.answer = ""
  /\ [NoLoop EXCEPT !.phase = "working"] \in Loops
  /\ [NoLoop EXCEPT !.phase = "working"].iter = 1
  /\ [NoLoop EXCEPT !.phase = "working"].answer = ""
<1>1. NoLoop \in Loops
  <2>1. <<>> \in Seq(Rounds)
    OBVIOUS
  <2> QED
    BY WordsAre, FirstRound, <2>1 DEF NoLoop, Loops
<1>2. NoLoop.phase = "none" /\ NoLoop.iter = 1 /\ NoLoop.answer = ""
  BY DEF NoLoop
<1> QED
  BY <1>1, <1>2, PhaseSet DEF Open

LEMMA FailedIs ==
  ASSUME NEW f \in Loops
  PROVE  /\ Failed(f) \in Loops /\ Failed(f).phase = "failed" /\ Failed(f).iter = f.iter
         /\ Failed(f).answer = f.answer /\ Failed(f).history = f.history
BY DEF Loops, Failed

\* What the poll that asks a checker, or a revision, has in mind.
LEMMA NextRoundIs ==
  ASSUME NEW f \in Loops, f.iter < MaxIters
  PROVE  LET g == [f EXCEPT !.iter = @ + 1, !.phase = "working"]
         IN  /\ g \in Loops /\ g.iter = f.iter + 1 /\ g.phase = "working" /\ g.answer = f.answer
<1>1. f.iter \in 1..MaxIters /\ f.iter + 1 \in 1..MaxIters
  BY IterAssumption DEF Loops
<1> DEFINE h == [f EXCEPT !.iter = f.iter + 1]
<1>2. h \in Loops /\ h.iter = f.iter + 1 /\ h.answer = f.answer
  BY <1>1, IterSet
<1>3. [f EXCEPT !.iter = @ + 1, !.phase = "working"] = [h EXCEPT !.phase = "working"]
  OBVIOUS
<1> HIDE DEF h
<1>4. /\ [h EXCEPT !.phase = "working"] \in Loops /\ [h EXCEPT !.phase = "working"].iter = h.iter
      /\ [h EXCEPT !.phase = "working"].phase = "working" /\ [h EXCEPT !.phase = "working"].answer = h.answer
  BY <1>2, PhaseSet DEF Open
<1> QED
  BY <1>2, <1>3, <1>4

\* The loop that a sign-off or a skipped check leaves.
LEMMA PassedIs ==
  ASSUME NEW f \in Loops, NEW w \in Words
  PROVE  LET g == [f EXCEPT !.phase = "passed", !.answer = w]
         IN  /\ g \in Loops /\ g.phase = "passed" /\ g.answer = w /\ g.iter = f.iter
             /\ g.history = f.history
BY DEF Loops

\* A skipped check marks the round as unverified.
LEMMA Skipped ==
  ASSUME file \in Loops, file.worker \in Runs, says \in [Runs -> Words],
         NEW g, g = [WithCandidate EXCEPT !.phase = "passed", !.answer = says[file.worker],
                       !.history[Len(file.history) + 1].verdict = "UNVERIFIED"]
  PROVE  /\ g \in Loops /\ g.phase = "passed" /\ g.answer = says[file.worker]
         /\ g.iter = file.iter /\ g.history # <<>> /\ Last(g.history).verdict = "UNVERIFIED"
<1> DEFINE h == [WithCandidate EXCEPT !.phase = "passed", !.answer = says[file.worker]]
<1>1. /\ Alike(file, WithCandidate) /\ WithCandidate.history # <<>>
      /\ Len(WithCandidate.history) = Len(file.history) + 1
  BY Candidate
<1>2. says[file.worker] \in Words
  OBVIOUS
<1>3. /\ h \in Loops /\ h.phase = "passed" /\ h.answer = says[file.worker]
      /\ h.iter = file.iter /\ h.history = WithCandidate.history
  BY <1>1, <1>2, PassedIs DEF Alike
<1>4. g = [h EXCEPT !.history[Len(h.history)].verdict = "UNVERIFIED"]
  BY <1>1, <1>3
<1> HIDE DEF h
<1>5. Last(h.history) \in Rounds /\ Last(h.history) = h.history[Len(h.history)]
  BY <1>1, <1>3, LastIsRound DEF Loops
<1> DEFINE e == [Last(h.history) EXCEPT !.verdict = "UNVERIFIED"]
<1>6. e \in Rounds /\ e.verdict = "UNVERIFIED"
  BY <1>5 DEF Rounds
<1>7. g = [h EXCEPT !.history = [h.history EXCEPT ![Len(h.history)] = e]]
  BY <1>4, <1>5
<1> HIDE DEF e
<1>8. Alike(h, g) /\ g.history # <<>> /\ Last(g.history) = e
  BY <1>1, <1>3, <1>6, <1>7, LastRoundChanged
<1> QED
  BY <1>3, <1>6, <1>8 DEF Alike

\* The file that names the new agent.
LEMMA SavedIs ==
  ASSUME TypeOK, NEW p \in Procs, Carries(p), pc[p] = "saving", Save(p)
  PROVE  /\ file' \in Loops /\ file'.iter = mem[p].iter /\ file'.answer = mem[p].answer
         /\ fresh[p].role = "worker" =>
              file'.phase = "working" /\ file'.worker = fresh[p].id
         /\ fresh[p].role = "checker" =>
              /\ file'.phase = "checking" /\ file'.checker = fresh[p].id
              /\ file'.worker = mem[p].worker /\ file'.history # <<>>
              /\ Last(file'.history).worker = Last(mem[p].history).worker
              /\ Last(file'.history).cand = Last(mem[p].history).cand
              /\ Last(file'.history).checker = fresh[p].id
<1> DEFINE f == mem[p]
           id == fresh[p].id
<1>1. f \in Loops /\ id \in Runs /\ fresh[p].role \in {"worker", "checker"}
  BY DEF TypeOK, Carries, Launched
<1>2. CASE fresh[p].role = "worker"
  <2>1. file' = [f EXCEPT !.phase = "working", !.worker = id, !.checker = None]
    BY <1>2 DEF Save
  <2> HIDE DEF f, id
  <2>2. /\ file' \in Loops /\ file'.iter = f.iter /\ file'.answer = f.answer
        /\ file'.phase = "working" /\ file'.worker = id
    <3> DEFINE g == [f EXCEPT !.phase = "working"]
               h == [g EXCEPT !.worker = id]
    <3>1. g \in Loops /\ g.phase = "working" /\ g.iter = f.iter /\ g.answer = f.answer
      BY <1>1, PhaseSet DEF Open
    <3> HIDE DEF g
    <3>2. h \in Loops /\ h.phase = "working" /\ h.iter = f.iter /\ h.answer = f.answer /\ h.worker = id
      BY <1>1, <3>1, WorkerSet
    <3>3. file' = [h EXCEPT !.checker = None]
      BY <2>1 DEF g
    <3> HIDE DEF h
    <3> QED
      BY <3>2, <3>3, CheckerSet
  <2> QED
    BY <1>2, <2>2 DEF f, id
<1>3. CASE fresh[p].role = "checker"
  <2>1. f.history # <<>>
    BY <1>3 DEF Carries
  <2> DEFINE g == [f EXCEPT !.phase = "checking", !.checker = id]
  <2>2. /\ g \in Loops /\ g.phase = "checking" /\ g.checker = id /\ g.iter = f.iter
        /\ g.worker = f.worker /\ g.answer = f.answer /\ g.history = f.history
    <3> DEFINE h == [f EXCEPT !.phase = "checking"]
    <3>1. /\ h \in Loops /\ h.phase = "checking" /\ h.iter = f.iter /\ h.worker = f.worker
          /\ h.answer = f.answer /\ h.history = f.history
      BY <1>1, PhaseSet DEF Open
    <3>2. g = [h EXCEPT !.checker = id]
      OBVIOUS
    <3> HIDE DEF g, h
    <3> QED
      BY <1>1, <3>1, <3>2, CheckerSet
  <2>3. Last(f.history) \in Rounds /\ Last(f.history) = f.history[Len(f.history)]
    BY <1>1, <2>1, LastIsRound DEF Loops
  <2> DEFINE e == [Last(f.history) EXCEPT !.checker = id]
  <2>4. e \in Rounds /\ e.worker = Last(f.history).worker /\ e.cand = Last(f.history).cand /\ e.checker = id
    BY <1>1, <2>3 DEF Rounds
  <2>5. file' = [f EXCEPT !.phase = "checking", !.checker = id, !.history[Len(f.history)].checker = id]
    BY <1>3 DEF Save
  <2>6. file' = [g EXCEPT !.history = [f.history EXCEPT ![Len(f.history)] = e]]
    BY <2>2, <2>3, <2>5
  <2> HIDE DEF g, e
  <2>7. Alike(g, file') /\ file'.history # <<>> /\ Last(file'.history) = e
    BY <2>1, <2>2, <2>4, <2>6, LastRoundChanged
  <2> QED
    BY <1>3, <2>2, <2>4, <2>7 DEF Alike
<1> QED
  BY <1>1, <1>2, <1>3

\* A poll that saves a loop that is over.
LEMMA OverTyped ==
  ASSUME Typed, NEW f, f \in Loops, f.phase \in {"passed", "failed"}, NEW p \in Procs, Saves(p, f)
  PROVE  Typed'
<1>1. file' = f /\ UNCHANGED <<request, late, attached, flock, locals, native>>
  BY DEF Saves
<1> QED
  BY <1>1 DEF Typed, TypeOK, Carries, Launched, request, locals, native

\* What the polls that end a loop save.
LEMMA EndsAre ==
  ASSUME Typed, NEW p \in Procs
  PROVE  /\ TimeOut(p) \/ RosterUnreadable(p) \/ AgentGone(p) => Saves(p, Failed(file))
         /\ Stagnate(p) => Saves(p, Failed(WithCandidate)) /\ WithCandidate \in Loops
         /\ GiveUp(p) => Saves(p, Failed(WithVerdict)) /\ WithVerdict \in Loops
         /\ SignOff(p) => \E g : /\ Saves(p, g) /\ g \in Loops /\ g.phase = "passed"
                                 /\ g.iter = file.iter /\ g.history = WithVerdict.history
                                 /\ g.answer = Last(file.history).cand
         /\ SkipCheck(p) => \E g : /\ Saves(p, g) /\ g \in Loops /\ g.phase = "passed"
                                   /\ g.iter = file.iter /\ g.history # <<>>
                                   /\ g.answer = says[file.worker]
                                   /\ Last(g.history).verdict = "UNVERIFIED"
<1>1. file \in Loops /\ says \in [Runs -> Words]
  BY DEF Typed, TypeOK
<1>2. TimeOut(p) \/ RosterUnreadable(p) \/ AgentGone(p) => Saves(p, Failed(file))
  BY DEF TimeOut, RosterUnreadable, AgentGone
<1>3. Stagnate(p) => Saves(p, Failed(WithCandidate)) /\ WithCandidate \in Loops
  BY <1>1, Candidate DEF Stagnate, Answered, Typed, Alike
<1>4. Answered("checking") => /\ file.history # <<>> /\ says[file.checker] \in Verdicts
                              /\ WithVerdict \in Loops /\ WithVerdict.iter = file.iter
  BY <1>1, Verdict DEF Answered, Typed, Launched, Alike
<1>5. GiveUp(p) => Saves(p, Failed(WithVerdict)) /\ WithVerdict \in Loops
  BY <1>4 DEF GiveUp
<1>6. ASSUME SignOff(p)
      PROVE  \E g : /\ Saves(p, g) /\ g \in Loops /\ g.phase = "passed"
                    /\ g.iter = file.iter /\ g.history = WithVerdict.history
                    /\ g.answer = Last(file.history).cand
  <2> DEFINE w == Last(file.history).cand
             g == [WithVerdict EXCEPT !.phase = "passed", !.answer = w]
  <2>1. w \in Words
    BY <1>1, <1>4, <1>6, LastIsRound DEF SignOff, Loops, Rounds
  <2>2. g \in Loops /\ g.phase = "passed" /\ g.answer = w /\ g.iter = file.iter /\ g.history = WithVerdict.history
    BY <1>4, <1>6, <2>1, PassedIs DEF SignOff
  <2>3. Saves(p, g)
    BY <1>6 DEF SignOff
  <2> HIDE DEF g
  <2> QED
    BY <2>2, <2>3
<1>7. ASSUME SkipCheck(p)
      PROVE  \E g : /\ Saves(p, g) /\ g \in Loops /\ g.phase = "passed"
                    /\ g.iter = file.iter /\ g.history # <<>>
                    /\ g.answer = says[file.worker]
                    /\ Last(g.history).verdict = "UNVERIFIED"
  <2> DEFINE g == [WithCandidate EXCEPT !.phase = "passed", !.answer = says[file.worker],
                     !.history[Len(file.history) + 1].verdict = "UNVERIFIED"]
  <2>1. Saves(p, g) /\ file.worker \in Runs
    BY <1>7 DEF SkipCheck, Answered, Typed
  <2> HIDE DEF g
  <2>2. /\ g \in Loops /\ g.phase = "passed" /\ g.answer = says[file.worker]
        /\ g.iter = file.iter /\ g.history # <<>> /\ Last(g.history).verdict = "UNVERIFIED"
    BY <1>1, <2>1, Skipped DEF g
  <2> QED
    BY <2>1, <2>2
<1> QED
  BY <1>2, <1>3, <1>5, <1>6, <1>7

Ends(p) == \/ TimeOut(p) \/ RosterUnreadable(p) \/ AgentGone(p)
           \/ Stagnate(p) \/ GiveUp(p) \/ SignOff(p) \/ SkipCheck(p)

LEMMA EndsTyped == ASSUME Typed, NEW p \in Procs, Ends(p) PROVE Typed'
<1>1. file \in Loops
  BY DEF Typed, TypeOK
<1>2. \A f \in Loops : Failed(f) \in Loops /\ Failed(f).phase = "failed"
  BY FailedIs
<1>3. PICK f : Saves(p, f) /\ f \in Loops /\ f.phase \in {"passed", "failed"}
  BY <1>1, <1>2, EndsAre DEF Ends
<1> QED
  BY <1>3, OverTyped

\* A poll that starts to launch an agent.
LEMMA BeginsTyped ==
  ASSUME Typed, NEW p \in Procs, NEW f \in Loops, NEW role \in {"worker", "checker"},
         role = "checker" => f.history # <<>>, plan' = plan, opener' \in {opener, SessionOf[p]},
         Begins(p, f, role)
  PROVE  Typed'
<1>1. /\ flock' = p /\ pc' = [pc EXCEPT ![p] = "launching"] /\ mem' = [mem EXCEPT ![p] = f]
      /\ fresh' = [fresh EXCEPT ![p] = [role |-> role, id |-> None]]
      /\ UNCHANGED <<file, late, attached, native>>
  BY DEF Begins
<1>2. TypeOK'
  BY <1>1 DEF Typed, TypeOK, native
<1>3. ASSUME NEW q \in Procs, pc'[q] \in Busy PROVE Carries(q)'
  BY <1>1, <1>3 DEF Typed, TypeOK, Carries, Launched, native, Busy
<1> QED
  BY <1>1, <1>2, <1>3 DEF Typed, Launched, native

BeginsPoll(p) == OpenLoop(p) \/ AskChecker(p) \/ Revise(p)

\* Which loop and which role that is.
LEMMA BeginningsAre ==
  ASSUME Typed, NEW p \in Procs, BeginsPoll(p)
  PROVE  \E f \in Loops, role \in {"worker", "checker"} :
           /\ Begins(p, f, role) /\ flock = None /\ plan' = plan /\ opener' \in {opener, SessionOf[p]}
           /\ pc[p] = "ready"
           /\ \/ /\ OpenLoop(p) /\ opener' = SessionOf[p] /\ role = "worker" /\ file.phase = "none" /\ opener = None
                 /\ f.iter = 1 /\ f.answer = ""
              \/ /\ AskChecker(p) /\ opener' = opener /\ role = "checker" /\ f = WithCandidate /\ f.history # <<>>
                 /\ Answered("working")
              \/ /\ Revise(p) /\ opener' = opener /\ role = "worker" /\ Answered("checking") /\ file.iter < MaxIters
                 /\ says[file.checker] # "PASS" /\ f.iter = file.iter + 1 /\ f.answer = file.answer
<1>0. file \in Loops /\ says \in [Runs -> Words]
  BY DEF Typed, TypeOK
<1>1. CASE OpenLoop(p)
  BY <1>1, NoLoopIsLoop DEF OpenLoop
<1>2. CASE AskChecker(p)
  <2>1. file.worker \in Runs
    BY <1>2 DEF AskChecker, Answered, Typed
  <2>2. WithCandidate \in Loops /\ WithCandidate.history # <<>>
    BY <1>0, <2>1, Candidate DEF Alike
  <2> QED
    BY <1>2, <2>2 DEF AskChecker, Turn, request
<1>3. CASE Revise(p)
  <2>1. /\ WithVerdict \in Loops /\ WithVerdict.iter = file.iter /\ WithVerdict.answer = file.answer
        /\ file.iter < MaxIters
    BY <1>0, <1>3, Verdict DEF Revise, Answered, Typed, Launched, Alike
  <2> DEFINE f == [WithVerdict EXCEPT !.iter = @ + 1, !.phase = "working"]
  <2>2. f \in Loops /\ f.iter = file.iter + 1 /\ f.answer = file.answer
    BY <2>1, NextRoundIs
  <2>3. Begins(p, f, "worker")
    BY <1>3 DEF Revise
  <2> HIDE DEF f
  <2> QED
    BY <1>3, <2>2, <2>3 DEF Revise, Turn, request
<1> QED
  BY <1>1, <1>2, <1>3 DEF BeginsPoll

\* An agent is born: an id of nobody becomes one at work, of the role the poll asked for.
LEMMA BornIs ==
  ASSUME Typed, NEW p \in Procs, pc[p] = "launching", Born(p)
  PROVE  /\ NewId \in Runs /\ roster[NewId] = "absent" /\ says' = says
         /\ roster' \in [Runs -> {"absent", "working", "busy", "done", "failed"}]
         /\ roster'[NewId] \in LiveWords
         /\ \A r \in Runs \ {NewId} : roster'[r] = roster[r] /\ job'[r] = job[r]
         /\ job' \in [Runs -> Jobs]
         /\ job'[NewId].by = p /\ job'[NewId].kind = fresh[p].role /\ job'[NewId].round = mem[p].iter
         /\ fresh[p].role = "checker" => job'[NewId].about = Last(mem[p].history).cand
         /\ fresh[p].role = "checker" => says[NewId] \in Verdicts
<1> DEFINE id == NewId
           about == IF fresh[p].role = "checker" THEN Last(mem[p].history).cand ELSE ""
           made == [by |-> p, kind |-> fresh[p].role, round |-> mem[p].iter, about |-> about]
<1>1. id \in Runs /\ roster[id] = "absent"
  BY DEF Born, NewId
<1>2. /\ roster \in [Runs -> {"absent", "working", "busy", "done", "failed"}]
      /\ job \in [Runs -> Jobs] /\ mem[p] \in Loops /\ fresh[p].role \in {"worker", "checker"}
  BY DEF Typed, TypeOK
<1>3. about \in Words
  <2>1. fresh[p].role = "checker" => mem[p].history # <<>>
    BY DEF Typed, Carries, Busy
  <2> QED
    BY <1>2, <2>1, LastIsRound, WordsAre DEF Loops, Rounds
<1>4. /\ made \in Jobs /\ made.by = p /\ made.kind = fresh[p].role /\ made.round = mem[p].iter
      /\ made.about = about
  BY <1>2, <1>3 DEF Jobs, Loops
<1>5. PICK w \in LiveWords : roster' = [roster EXCEPT ![id] = w]
  BY DEF Born
<1>6. job' = [job EXCEPT ![id] = made] /\ says' = says
  BY DEF Born
<1> HIDE DEF id, made
<1>7. w \in {"working", "busy"}
  BY LiveWordsAssumption
<1>8. says[id] = ""
  BY <1>1 DEF Typed
<1> QED
  BY <1>1, <1>2, <1>4, <1>5, <1>6, <1>7, <1>8 DEF id, Verdicts

LEMMA BornTyped ==
  ASSUME Typed, NEW p \in Procs, pc[p] = "launching", Born(p), NEW id, id = NewId,
         NEW role, role = fresh[p].role
  PROVE  /\ \A r, kind : Launched(r, kind) => Launched(r, kind)'
         /\ Launched(id, role)'
         /\ \A r \in Runs : job'[r].kind = "checker" => says'[r] \in Verdicts
         /\ \A r \in Runs : roster'[r] = "absent" => says'[r] = ""
<1>1. /\ id \in Runs /\ roster[id] = "absent" /\ says' = says
      /\ roster'[id] \in LiveWords
      /\ \A r \in Runs \ {id} : roster'[r] = roster[r] /\ job'[r] = job[r]
      /\ job'[id].kind = role /\ (role = "checker" => says[id] \in Verdicts)
  BY BornIs
<1>2. roster'[id] # "absent"
  BY <1>1, LiveWordsAssumption
<1> QED
  BY <1>1, <1>2 DEF Launched, Typed

\* A poll that is back carries nothing; the others are where they were.
LEMMA ReturnsTyped ==
  ASSUME Typed, NEW p \in Procs, Returns(p), \A r, kind : Launched(r, kind) => Launched(r, kind)'
  PROVE  /\ flock' \in Procs \cup {None} /\ mem' \in [Procs -> Loops]
         /\ pc' \in [Procs -> {"unborn", "ready", "launching", "attaching", "saving", "dead"}]
         /\ fresh' \in [Procs -> [role : {"worker", "checker"}, id : Runs \cup {None}]]
         /\ \A q \in Procs : pc'[q] \in Busy => Carries(q)'
<1>1. NoLoop \in Loops /\ NoAgent \in [role : {"worker", "checker"}, id : Runs \cup {None}]
  BY NoLoopIsLoop DEF NoAgent
<1>2. /\ flock' = None /\ pc' = [pc EXCEPT ![p] = "ready"] /\ mem' = [mem EXCEPT ![p] = NoLoop]
      /\ fresh' = [fresh EXCEPT ![p] = NoAgent]
  BY DEF Returns
<1>3. /\ mem \in [Procs -> Loops]
      /\ pc \in [Procs -> {"unborn", "ready", "launching", "attaching", "saving", "dead"}]
      /\ fresh \in [Procs -> [role : {"worker", "checker"}, id : Runs \cup {None}]]
  BY DEF Typed, TypeOK
<1>4. ASSUME NEW q \in Procs, pc'[q] \in Busy PROVE Carries(q)'
  <2>1. /\ q # p /\ pc'[q] = pc[q] /\ mem'[q] = mem[q] /\ fresh'[q] = fresh[q]
    BY <1>2, <1>3, <1>4 DEF Busy
  <2>2. Carries(q)
    BY <1>4, <2>1 DEF Typed
  <2>3. Launched(fresh[q].id, fresh[q].role) => Launched(fresh[q].id, fresh[q].role)'
    <3>1. PICK id, role : id = fresh[q].id /\ role = fresh[q].role
      OBVIOUS
    <3>2. Launched(id, role) => Launched(id, role)'
      OBVIOUS
    <3> QED
      BY <2>1, <3>1, <3>2 DEF Launched
  <2> QED
    BY <2>1, <2>2, <2>3 DEF Carries, Launched
<1> QED
  BY <1>1, <1>2, <1>3, <1>4

LEMMA ServeTyped == ASSUME Typed, NEW p \in Procs, Serve(p) PROVE Typed'
<1>0. /\ TypeOK /\ pc \in [Procs -> {"unborn", "ready", "launching", "attaching", "saving", "dead"}]
      /\ fresh \in [Procs -> [role : {"worker", "checker"}, id : Runs \cup {None}]]
  BY DEF Typed, TypeOK
<1>1. CASE Launch(p)
  <2>1. pc[p] = "launching" /\ Born(p)
    BY <1>1 DEF Launch
  <2>2. PICK id, role : id = NewId /\ role = fresh[p].role
    OBVIOUS
  <2>3. /\ \A r, kind : Launched(r, kind) => Launched(r, kind)'
        /\ Launched(id, role)'
        /\ \A r \in Runs : job'[r].kind = "checker" => says'[r] \in Verdicts
        /\ \A r \in Runs : roster'[r] = "absent" => says'[r] = ""
    BY <2>1, <2>2, BornTyped
  <2>4. /\ pc' = [pc EXCEPT ![p] = "attaching"] /\ fresh' = [fresh EXCEPT ![p].id = id]
        /\ UNCHANGED <<plan, opener, file, late, attached, flock, mem>> /\ id \in Runs
        /\ says' = says /\ job' \in [Runs -> Jobs]
        /\ roster' \in [Runs -> {"absent", "working", "busy", "done", "failed"}]
    BY <1>1, <2>1, <2>2, BornIs DEF Launch, request
  <2>5. /\ fresh' \in [Procs -> [role : {"worker", "checker"}, id : Runs \cup {None}]]
        /\ fresh'[p].role = role /\ fresh'[p].id = id /\ \A q \in Procs \ {p} : fresh'[q] = fresh[q]
    BY <1>0, <2>2, <2>4
  <2>6. TypeOK'
    BY <1>0, <2>4, <2>5 DEF TypeOK
  <2>7. ASSUME NEW q \in Procs, pc'[q] \in Busy PROVE Carries(q)'
    <3>1. CASE q = p
      <4>1. fresh[p].role = "checker" => mem[p].history # <<>>
        BY <2>1 DEF Typed, Carries, Busy
      <4> QED
        BY <2>2, <2>3, <2>4, <2>5, <3>1, <4>1 DEF Carries, Launched
    <3>2. CASE q # p
      <4>1. pc'[q] = pc[q] /\ fresh'[q] = fresh[q] /\ mem'[q] = mem[q] /\ Carries(q)
        BY <1>0, <2>4, <2>5, <2>7, <3>2 DEF Typed
      <4>2. PICK i, kind : i = fresh[q].id /\ kind = fresh[q].role /\ (Launched(i, kind) => Launched(i, kind)')
        BY <2>3
      <4> QED
        BY <4>1, <4>2 DEF Carries, Launched
    <3> QED
      BY <3>1, <3>2
  <2>8. file'.phase = "checking" => Launched(file.checker, "checker")' /\ file'.history # <<>>
    <3>1. PICK i : i = file.checker /\ (Launched(i, "checker") => Launched(i, "checker")')
      BY <2>3
    <3> QED
      BY <2>4, <3>1 DEF Typed, Launched
  <2> QED
    BY <2>3, <2>4, <2>6, <2>7, <2>8 DEF Typed
<1>2. CASE SpawnFails(p)
  <2>1. /\ pc[p] = "launching" /\ Returns(p) /\ UNCHANGED <<plan, opener, late, attached>>
        /\ file' = IF file.phase = "none" THEN file ELSE Failed(mem[p])
        /\ (UNCHANGED native) \/ Born(p)
    BY <1>2 DEF SpawnFails, request
  <2>2. /\ \A r, kind : Launched(r, kind) => Launched(r, kind)'
        /\ \A r \in Runs : job'[r].kind = "checker" => says'[r] \in Verdicts
        /\ \A r \in Runs : roster'[r] = "absent" => says'[r] = ""
        /\ says' \in [Runs -> Words] /\ job' \in [Runs -> Jobs]
        /\ roster' \in [Runs -> {"absent", "working", "busy", "done", "failed"}]
    <3>1. CASE UNCHANGED native
      BY <3>1 DEF native, Typed, TypeOK, Launched
    <3>2. CASE Born(p)
      BY <1>0, <2>1, <3>2, BornTyped, BornIs DEF TypeOK
    <3> QED
      BY <2>1, <3>1, <3>2
  <2>3. file' \in Loops /\ file'.phase \in {"none", "failed"}
    BY <1>0, <2>1, FailedIs DEF TypeOK
  <2>4. TypeOK'
    BY <1>0, <2>1, <2>2, <2>3, ReturnsTyped DEF TypeOK
  <2> QED
    BY <2>1, <2>2, <2>3, <2>4, ReturnsTyped DEF Typed
<1>3. CASE Attach(p)
  <2>1. /\ pc[p] = "attaching" /\ pc' = [pc EXCEPT ![p] = "saving"]
        /\ attached' = (IF plan.mode = "none" THEN attached ELSE attached \cup {fresh[p].id})
        /\ UNCHANGED <<plan, opener, file, late, flock, mem, fresh, roster, says, job>>
    BY <1>3 DEF Attach, request, native
  <2>2. Carries(p) /\ fresh[p].id \in Runs
    BY <2>1 DEF Typed, Carries, Launched, Busy
  <2>3. TypeOK'
    BY <1>0, <2>1, <2>2 DEF TypeOK
  <2>4. ASSUME NEW q \in Procs, pc'[q] \in Busy PROVE Carries(q)'
    BY <1>0, <2>1, <2>2, <2>4 DEF Typed, Carries, Launched, Busy
  <2> QED
    BY <2>1, <2>3, <2>4 DEF Typed, Launched
<1>4. CASE Save(p)
  <2>1. pc[p] = "saving" /\ Returns(p) /\ UNCHANGED <<plan, opener, late, attached, roster, says, job>>
    BY <1>4 DEF Save, request, native
  <2>2. Carries(p) /\ fresh[p].role \in {"worker", "checker"}
    BY <1>0, <2>1 DEF Typed, Busy
  <2>3. /\ file' \in Loops
        /\ fresh[p].role = "worker" => file'.phase = "working" /\ file'.worker = fresh[p].id
        /\ fresh[p].role = "checker" =>
             file'.phase = "checking" /\ file'.checker = fresh[p].id /\ file'.history # <<>>
    BY <1>0, <1>4, <2>1, <2>2, SavedIs
  <2>4. Launched(fresh[p].id, fresh[p].role)
    BY <2>1, <2>2 DEF Carries
  <2>5. \A r, kind : Launched(r, kind) => Launched(r, kind)'
    BY <2>1 DEF Launched
  <2>6. TypeOK'
    BY <1>0, <2>1, <2>3, <2>5, ReturnsTyped DEF TypeOK
  <2>7. /\ file'.phase = "working" => file'.worker \in Runs
        /\ file'.phase = "checking" => Launched(file.checker, "checker")' /\ file'.history # <<>>
    BY <2>1, <2>2, <2>3, <2>4 DEF Launched
  <2> QED
    BY <2>1, <2>5, <2>6, <2>7, ReturnsTyped DEF Typed
<1> QED
  BY <1>1, <1>2, <1>3, <1>4 DEF Serve

\* The clock, the agents and the processes.
LEMMA OthersTyped ==
  ASSUME Typed,
         \/ \E p \in Procs : Start(p) \/ Crash(p)
         \/ Expire \/ (\E r \in Runs : Break(r) \/ \E w \in Words : Finish(r, w))
         \/ UNCHANGED vars
  PROVE  Typed'
<1>0. TypeOK
  BY DEF Typed
<1>1. ASSUME NEW p \in Procs, Start(p) PROVE Typed'
  <2>1. /\ pc' = [pc EXCEPT ![p] = "ready"]
        /\ UNCHANGED <<plan, opener, file, late, attached, flock, mem, fresh, roster, says, job>>
    BY <1>1 DEF Start, request, native
  <2>2. TypeOK'
    BY <1>0, <2>1 DEF TypeOK
  <2>3. ASSUME NEW q \in Procs, pc'[q] \in Busy PROVE Carries(q)'
    BY <1>0, <2>1, <2>3 DEF Typed, TypeOK, Carries, Launched, Busy
  <2> QED
    BY <2>1, <2>2, <2>3 DEF Typed, Launched
<1>2. ASSUME NEW p \in Procs, Crash(p) PROVE Typed'
  <2>1. /\ pc' = [pc EXCEPT ![p] = "dead"] /\ mem' = [mem EXCEPT ![p] = NoLoop]
        /\ fresh' = [fresh EXCEPT ![p] = NoAgent] /\ flock' \in {None, flock}
        /\ UNCHANGED <<plan, opener, file, late, attached, roster, says, job>>
    BY <1>2 DEF Crash, request, native
  <2>2. NoLoop \in Loops /\ NoAgent \in [role : {"worker", "checker"}, id : Runs \cup {None}]
    BY NoLoopIsLoop DEF NoAgent
  <2>3. TypeOK'
    BY <1>0, <2>1, <2>2 DEF TypeOK
  <2>4. ASSUME NEW q \in Procs, pc'[q] \in Busy PROVE Carries(q)'
    BY <1>0, <2>1, <2>4 DEF Typed, TypeOK, Carries, Launched, Busy
  <2> QED
    BY <2>1, <2>3, <2>4 DEF Typed, Launched
<1>3. CASE Expire
  <2>1. late' = TRUE /\ UNCHANGED <<plan, opener, file, attached, flock, pc, mem, fresh, roster, says, job>>
    BY <1>3 DEF Expire, request, locals, native
  <2> QED
    BY <1>0, <2>1 DEF Typed, TypeOK, Carries, Launched
<1>4. ASSUME NEW r \in Runs, Break(r) PROVE Typed'
  <2>1. /\ roster' = [roster EXCEPT ![r] = "failed"]
        /\ UNCHANGED <<plan, opener, file, late, attached, flock, pc, mem, fresh, says, job>>
    BY <1>4 DEF Break, request, locals
  <2>2. \A i, kind : Launched(i, kind) => Launched(i, kind)'
    BY <1>0, <2>1 DEF TypeOK, Launched
  <2>3. ASSUME NEW q \in Procs, pc'[q] \in Busy PROVE Carries(q)'
    BY <1>0, <2>1, <2>3 DEF Typed, TypeOK, Carries, Launched
  <2>4. TypeOK'
    BY <1>0, <2>1 DEF TypeOK
  <2> QED
    BY <1>0, <2>1, <2>3, <2>4 DEF Typed, TypeOK, Launched
<1>5. ASSUME NEW r \in Runs, NEW w \in Words, Finish(r, w) PROVE Typed'
  <2>1. /\ roster' = [roster EXCEPT ![r] = "done"] /\ says' = [says EXCEPT ![r] = w]
        /\ UNCHANGED <<plan, opener, file, late, attached, flock, pc, mem, fresh, job>>
        /\ job[r].kind = "checker" => w \in Verdicts
    BY <1>5 DEF Finish, request, locals
  <2>2. TypeOK'
    BY <1>0, <2>1 DEF TypeOK
  <2>3. ASSUME NEW q \in Procs, pc'[q] \in Busy PROVE Carries(q)'
    BY <1>0, <2>1, <2>3 DEF Typed, TypeOK, Carries, Launched
  <2> QED
    BY <1>0, <2>1, <2>2, <2>3 DEF Typed, TypeOK, Launched
<1>6. CASE UNCHANGED vars
  BY <1>6 DEF vars, Typed, TypeOK, Carries, Launched
<1> QED
  BY <1>1, <1>2, <1>3, <1>4, <1>5, <1>6

\* Which kinds of step there are.
LEMMA StepsAre ==
  ASSUME [Next]_vars
  PROVE  \/ \E p \in Procs : Ends(p) \/ BeginsPoll(p) \/ Serve(p)
         \/ \E p \in Procs : Start(p) \/ Crash(p)
         \/ Expire \/ (\E r \in Runs : Break(r) \/ \E w \in Words : Finish(r, w))
         \/ UNCHANGED vars
BY DEF Next, Poll, Ends, BeginsPoll

LEMMA TypedKept == Typed /\ [Next]_vars => Typed'
<1> SUFFICES ASSUME Typed, [Next]_vars PROVE Typed'
  OBVIOUS
<1>1. ASSUME NEW p \in Procs, BeginsPoll(p) PROVE Typed'
  <2>1. PICK f \in Loops, role \in {"worker", "checker"} :
          /\ Begins(p, f, role) /\ plan' = plan /\ opener' \in {opener, SessionOf[p]}
          /\ role = "checker" => f.history # <<>>
    BY <1>1, BeginningsAre
  <2> QED
    BY <2>1, BeginsTyped
<1>2. ASSUME NEW p \in Procs, Ends(p) PROVE Typed'
  BY <1>2, EndsTyped
<1>3. ASSUME NEW p \in Procs, Serve(p) PROVE Typed'
  BY <1>3, ServeTyped
<1> QED
  BY <1>1, <1>2, <1>3, StepsAre, OthersTyped

LEMMA TypedAtFirst == Init => Typed
<1> SUFFICES ASSUME Init PROVE Typed
  OBVIOUS
<1> DEFINE first == [by |-> None, kind |-> "worker", round |-> 1, about |-> ""]
<1>1. NoLoop \in Loops /\ NoLoop.phase = "none" /\ NoAgent \in [role : {"worker", "checker"}, id : Runs \cup {None}]
  BY NoLoopIsLoop DEF NoAgent
<1>2. first \in Jobs /\ first.kind = "worker"
  BY WordsAre, FirstRound DEF Jobs
<1> HIDE DEF first
<1>3. job = [r \in Runs |-> first]
  BY DEF Init, first
<1>4. TypeOK
  BY <1>1, <1>2, <1>3, WordsAre DEF Init, TypeOK
<1> QED
  BY <1>1, <1>2, <1>3, <1>4 DEF Init, Typed, Busy

\* TypeOK: the loop's file, what the polls carry and what agents say keep their
\* types, the last round of a checked loop included.
THEOREM LoopIsTyped == Spec => []TypeOK
<1>1. Typed => TypeOK
  BY DEF Typed
<1> QED
  BY <1>1, TypedAtFirst, TypedKept, PTL DEF Spec

-----------------------------------------------------------------------------
(* What the loop's file says of its agents, when the roster calls an agent *)
(* at work "working".                                                       *)

Ended(r) == r \in Runs /\ roster[r] = "done"

\* A busy poll has the lock, and an agent in hand from its launch to the save.
Locked ==
  \A p \in Procs : /\ pc[p] \in Busy => flock = p
                   /\ fresh[p].id # None => pc[p] \in {"attaching", "saving"}

\* Nothing has happened before the loop is opened.
Opening ==
  opener = None => /\ file.phase = "none"
                   /\ \A r \in Runs : roster[r] = "absent"
                   /\ \A p \in Procs : pc[p] \notin Busy

FirstIsEmpty == file.phase = "none" => file.iter = 1 /\ file.answer = ""

\* A checker judges the whole answer of the worker of the round, and no other.
CheckerIsTold ==
  LET last == Last(file.history)
  IN  file.phase = "checking" =>
        /\ Ended(last.worker) /\ last.cand = says[last.worker] /\ last.checker = file.checker
        /\ job[file.checker].about = last.cand /\ job[file.checker].round = file.iter

\* A result rests on agents that have said their last word.
Earned ==
  LET last == Last(file.history)
  IN  file.phase = "passed" /\ last.verdict # "UNVERIFIED" =>
        /\ Ended(last.worker) /\ file.answer = says[last.worker]
        /\ Ended(last.checker) /\ says[last.checker] = "PASS"
        /\ job[last.checker].kind = "checker" /\ job[last.checker].about = file.answer

\* The file a busy poll read is the file it will write.
Resumes(p) ==
  /\ fresh[p].role = "checker" =>
       /\ file.phase = "working" /\ Ended(file.worker) /\ mem[p].iter = file.iter
       /\ Last(mem[p].history).worker = file.worker
       /\ Last(mem[p].history).cand = says[file.worker]
  /\ fresh[p].role = "worker" =>
       \/ /\ file.phase = "none" /\ mem[p].iter = 1
          /\ \A r \in Runs : roster[r] = "working" => r = fresh[p].id
       \/ /\ file.phase = "checking" /\ Ended(file.checker) /\ says[file.checker] # "PASS"
          /\ mem[p].iter = file.iter + 1
  /\ mem[p].answer = file.answer
  /\ pc[p] \in {"attaching", "saving"} =>
       LET launched == job[fresh[p].id]
       IN  /\ launched.by = p /\ launched.round = mem[p].iter
           /\ fresh[p].role = "checker" => launched.about = Last(mem[p].history).cand

Exact ==
  /\ Typed
  /\ \A r \in Runs : roster[r] # "busy"
  /\ \A r \in Runs : roster[r] # "absent" => job[r].by \in Procs
  /\ Locked /\ Opening /\ FirstIsEmpty /\ CheckerIsTold /\ Earned
  /\ file.phase = "working" => Launched(file.worker, "worker")
  /\ \A p \in Procs : pc[p] \in Busy => Resumes(p)
  /\ NoStrayAgent

LEMMA ExactlyWorking ==
  ASSUME "busy" \notin LiveWords PROVE LiveWords = {"working"} /\ \A r : Live(r) <=> roster[r] = "working"
BY LiveWordsAssumption DEF Live

\* The agent a poll finds with an answer has ended.
LEMMA AnsweredEnded ==
  ASSUME Exact, NEW phase \in Open, Answered(phase)
  PROVE  Ended(Current) /\ Current = IF phase = "working" THEN file.worker ELSE file.checker
<1>1. Current \in Runs /\ roster[Current] # "absent" /\ roster[Current] \notin {"busy", "working", "failed"}
  BY DEF Answered, Current, Exact, Typed, Launched, Open
<1>2. roster[Current] = "done"
  BY <1>1 DEF Exact, Typed, TypeOK
<1> QED
  BY <1>1, <1>2 DEF Ended, Current, Answered

\* Agents that were launched stay so, and those that ended say what they said.
Stable ==
  \A r \in Runs : /\ roster[r] # "absent" => roster'[r] # "absent" /\ job'[r] = job[r]
                  /\ roster[r] = "done" => roster'[r] = "done" /\ says'[r] = says[r]

LEMMA FileFrame ==
  ASSUME Exact, Stable, file' = file
  PROVE  /\ FirstIsEmpty' /\ CheckerIsTold' /\ Earned'
         /\ file'.phase = "working" => Launched(file.worker, "worker")'
<1>1. FirstIsEmpty'
  BY DEF Exact, FirstIsEmpty
<1>2. CheckerIsTold'
  BY DEF Exact, Typed, Launched, CheckerIsTold, Stable, Ended, Last
<1>3. Earned'
  BY DEF Exact, Earned, Stable, Ended, Last
<1>4. file'.phase = "working" => Launched(file.worker, "worker")'
  BY DEF Exact, Stable, Launched
<1> QED
  BY <1>1, <1>2, <1>3, <1>4

\* A poll of another process, or one whose step leaves what it carries alone.
LEMMA ResumesFrame ==
  ASSUME Exact, Stable, file' = file, NEW p \in Procs, pc[p] \in Busy,
         mem'[p] = mem[p], fresh'[p] = fresh[p], pc'[p] \in {"attaching", "saving"} => pc[p] \in {"attaching", "saving"},
         \A r \in Runs : roster'[r] = "working" => roster[r] = "working"
  PROVE  Resumes(p)'
<1>1. Resumes(p) /\ Carries(p)
  BY DEF Exact, Typed
<1>2. pc[p] \in {"attaching", "saving"} => fresh[p].id \in Runs /\ roster[fresh[p].id] # "absent"
  BY <1>1 DEF Carries, Launched
<1> QED
  BY <1>1, <1>2 DEF Resumes, Stable, Ended, Last

\* A poll has the lock to itself.
LEMMA TurnIsAlone ==
  ASSUME Exact, NEW p \in Procs, Turn(p) \/ OpenLoop(p)
  PROVE  /\ \A q \in Procs : pc[q] \notin Busy /\ fresh[q].id = None
         /\ Turn(p) => opener # None
<1>1. flock = None
  BY DEF Turn, OpenLoop
<1>2. \A q \in Procs : pc[q] \notin Busy
  BY <1>1, NoneAssumption DEF Exact, Locked
<1> QED
  BY <1>2 DEF Exact, Locked, Opening, Busy, Turn, Open

LEMMA OverExact ==
  ASSUME Exact, Typed', NEW p \in Procs, NEW f, Saves(p, f), f.phase \in {"passed", "failed"},
         Earned', NoStrayAgent'
  PROVE  Exact'
<1>1. file' = f /\ UNCHANGED <<plan, opener, late, attached, flock, pc, mem, fresh, roster, says, job>> /\ Turn(p)
  BY DEF Saves, request, locals, native
<1>2. opener # None /\ \A q \in Procs : pc[q] \notin Busy
  BY <1>1, TurnIsAlone
<1>3. Locked' /\ Opening' /\ FirstIsEmpty' /\ CheckerIsTold'
  BY <1>1, <1>2 DEF Exact, Locked, Opening, FirstIsEmpty, CheckerIsTold
<1> QED
  BY <1>1, <1>2, <1>3 DEF Exact

\* The agent that is answered, or passed, is not at work: the others are as they were.
LEMMA OverNoStray ==
  ASSUME Exact, "busy" \notin LiveWords, NEW p \in Procs, NEW f, Saves(p, f),
         f.phase = "failed" \/ Ended(Current)
  PROVE  NoStrayAgent'
<1>1. file' = f /\ UNCHANGED <<pc, mem, fresh, roster, says, job>> /\ Turn(p)
  BY DEF Saves, locals, native
<1>2. CASE f.phase = "failed"
  BY <1>1, <1>2 DEF NoStrayAgent
<1>3. CASE Ended(Current)
  <2>1. \A r \in Runs : Live(r) => r # Current
    BY <1>3, ExactlyWorking DEF Ended
  <2>2. file.phase \in Open
    BY <1>1 DEF Turn
  <2>3. \A r \in Runs : Live(r) => fresh[job[r].by].id = r \/ pc[job[r].by] = "dead"
    BY <2>1, <2>2 DEF Exact, NoStrayAgent, Open
  <2> QED
    BY <1>1, <2>3 DEF NoStrayAgent, Live
<1> QED
  BY <1>2, <1>3

LEMMA EndsExact ==
  ASSUME Exact, "busy" \notin LiveWords, NEW p \in Procs, Ends(p)
  PROVE  Exact'
<1>0. Typed /\ Typed' /\ file \in Loops
  BY EndsTyped DEF Exact, Typed, TypeOK
<1>1. ASSUME NEW f, f \in Loops, Saves(p, Failed(f)) PROVE Exact'
  <2>1. Failed(f).phase = "failed" /\ file' = Failed(f)
    BY <1>1, FailedIs DEF Saves
  <2>2. Earned' /\ NoStrayAgent'
    BY <1>1, <2>1, OverNoStray DEF Earned
  <2> QED
    BY <1>0, <1>1, <2>1, <2>2, OverExact
<1>2. CASE SignOff(p)
  <2>1. PICK g : /\ Saves(p, g) /\ g \in Loops /\ g.phase = "passed"
                 /\ g.iter = file.iter /\ g.history = WithVerdict.history
                 /\ g.answer = Last(file.history).cand
    BY <1>0, <1>2, EndsAre
  <2>2. Answered("checking") /\ says[file.checker] = "PASS"
    BY <1>2 DEF SignOff
  <2>3. Ended(Current) /\ Current = file.checker /\ file.phase = "checking"
    BY <2>2, AnsweredEnded DEF Open, Answered
  <2>4. /\ Last(WithVerdict.history).worker = Last(file.history).worker
        /\ Last(WithVerdict.history).checker = Last(file.history).checker
    BY <1>0, <2>2, <2>3, Verdict DEF Typed, Verdicts
  <2>5. file' = g /\ UNCHANGED <<roster, says, job>>
    BY <2>1 DEF Saves, native
  <2>6. job[file.checker].kind = "checker"
    BY <1>0, <2>3 DEF Typed, Launched
  <2>7. CheckerIsTold
    BY DEF Exact
  <2>8. Last(g.history).worker = Last(file.history).worker /\ Last(g.history).checker = file.checker
    BY <2>1, <2>3, <2>4, <2>7 DEF CheckerIsTold
  <2>9. Earned'
    BY <2>1, <2>2, <2>3, <2>5, <2>6, <2>7, <2>8 DEF Earned, CheckerIsTold, Ended
  <2> QED
    BY <1>0, <2>1, <2>3, <2>9, OverExact, OverNoStray
<1>3. CASE SkipCheck(p)
  <2>1. PICK g : /\ Saves(p, g) /\ g \in Loops /\ g.phase = "passed"
                 /\ Last(g.history).verdict = "UNVERIFIED"
    BY <1>0, <1>3, EndsAre
  <2>2. Ended(Current)
    BY <1>3, AnsweredEnded DEF SkipCheck, Open
  <2>3. Earned'
    BY <2>1 DEF Earned, Saves
  <2> QED
    BY <1>0, <2>1, <2>2, <2>3, OverExact, OverNoStray
<1> QED
  BY <1>0, <1>1, <1>2, <1>3, EndsAre DEF Ends

LEMMA BeginsExact ==
  ASSUME Exact, Typed', "busy" \notin LiveWords, NEW p \in Procs, BeginsPoll(p)
  PROVE  Exact'
<1>0. /\ Typed /\ file \in Loops /\ says \in [Runs -> Words]
      /\ pc \in [Procs -> {"unborn", "ready", "launching", "attaching", "saving", "dead"}]
      /\ mem \in [Procs -> Loops]
      /\ fresh \in [Procs -> [role : {"worker", "checker"}, id : Runs \cup {None}]]
  BY DEF Exact, Typed, TypeOK
<1>1. PICK f \in Loops, role \in {"worker", "checker"} :
        /\ Begins(p, f, role) /\ opener' \in {opener, SessionOf[p]} /\ pc[p] = "ready"
        /\ \/ /\ OpenLoop(p) /\ opener' = SessionOf[p] /\ role = "worker" /\ file.phase = "none" /\ opener = None
              /\ f.iter = 1 /\ f.answer = ""
           \/ /\ AskChecker(p) /\ opener' = opener /\ role = "checker" /\ f = WithCandidate
              /\ Answered("working")
           \/ /\ Revise(p) /\ opener' = opener /\ role = "worker" /\ Answered("checking")
              /\ says[file.checker] # "PASS" /\ f.iter = file.iter + 1 /\ f.answer = file.answer
  BY <1>0, BeginningsAre
<1>2. /\ flock' = p /\ pc' = [pc EXCEPT ![p] = "launching"] /\ mem' = [mem EXCEPT ![p] = f]
      /\ fresh' = [fresh EXCEPT ![p] = [role |-> role, id |-> None]]
      /\ UNCHANGED <<file, late, attached, roster, says, job>>
  BY <1>1 DEF Begins, native
<1>3. /\ pc'[p] = "launching" /\ mem'[p] = f /\ fresh'[p].role = role /\ fresh'[p].id = None
      /\ \A q \in Procs \ {p} : pc'[q] = pc[q] /\ fresh'[q] = fresh[q]
  BY <1>0, <1>2
<1>4. \A q \in Procs : pc[q] \notin Busy /\ fresh[q].id = None
  BY <1>1, TurnIsAlone DEF BeginsPoll, AskChecker, Revise
<1>5. Stable
  BY <1>2 DEF Stable
<1>6. Locked'
  BY <1>2, <1>3, <1>4 DEF Locked
<1>7. opener' # None
  BY <1>1, TurnIsAlone, NoneAssumption DEF AskChecker, Revise
<1>8. Resumes(p)'
  <2>1. CASE role = "checker"
    <3>1. f = WithCandidate /\ Answered("working")
      BY <1>1, <2>1
    <3>2. Ended(file.worker) /\ file.phase = "working"
      BY <3>1, AnsweredEnded DEF Answered, Open
    <3>3. /\ f.iter = file.iter /\ f.answer = file.answer
          /\ Last(f.history).worker = file.worker /\ Last(f.history).cand = says[file.worker]
      BY <1>0, <3>1, <3>2, Candidate DEF Alike, Ended
    <3> QED
      BY <1>2, <1>3, <2>1, <3>2, <3>3 DEF Resumes, Ended, Last
  <2>2. CASE role = "worker" /\ file.phase = "none"
    <3>1. f.iter = 1 /\ f.answer = "" /\ opener = None
      BY <1>1, <2>2 DEF Answered
    <3>2. file.answer = "" /\ \A r \in Runs : roster[r] = "absent"
      BY <2>2, <3>1 DEF Exact, Opening, FirstIsEmpty
    <3> QED
      BY <1>2, <1>3, <2>2, <3>1, <3>2 DEF Resumes
  <2>3. CASE role = "worker" /\ file.phase # "none"
    <3>1. /\ Answered("checking") /\ says[file.checker] # "PASS" /\ f.iter = file.iter + 1
          /\ f.answer = file.answer
      BY <1>1, <2>3
    <3>2. Ended(file.checker) /\ file.phase = "checking"
      BY <3>1, AnsweredEnded DEF Answered, Open
    <3> QED
      BY <1>2, <1>3, <2>3, <3>1, <3>2 DEF Resumes, Ended
  <2> QED
    BY <2>1, <2>2, <2>3
<1>9. NoStrayAgent'
  <2>1. \A r \in Runs : roster[r] = "working" => job[r].by \in Procs
    BY DEF Exact
  <2>2. None \notin Runs
    BY NoneAssumption
  <2>3. \A r \in Runs : Live(r) => fresh[job[r].by].id # r
    BY <1>4, <2>1, <2>2, ExactlyWorking
  <2>4. \A r \in Runs : pc[job[r].by] = "dead" /\ Live(r) => pc'[job[r].by] = "dead"
    BY <1>1, <1>3, <2>1, ExactlyWorking
  <2> QED
    BY <1>2, <2>3, <2>4 DEF Exact, NoStrayAgent, Live, Current
<1>10. FirstIsEmpty' /\ CheckerIsTold' /\ Earned' /\ (file'.phase = "working" => Launched(file.worker, "worker")')
  BY <1>2, <1>5, FileFrame
<1>11. \A q \in Procs : pc'[q] \in Busy => Resumes(q)'
  BY <1>3, <1>4, <1>8
<1> QED
  BY <1>2, <1>6, <1>7, <1>9, <1>10, <1>11 DEF Exact, Opening, Launched

\* A poll that serves has the lock, and the loop is open or being opened.
LEMMA ServerIsAlone ==
  ASSUME Exact, NEW p \in Procs, Serve(p)
  PROVE  /\ pc[p] \in Busy /\ flock = p /\ Resumes(p) /\ Carries(p) /\ opener # None
         /\ \A q \in Procs : q # p => pc[q] \notin Busy /\ fresh[q].id = None
<1>1. pc[p] \in Busy
  BY DEF Serve, Launch, SpawnFails, Attach, Save, Busy
<1> QED
  BY <1>1 DEF Exact, Typed, Locked, Opening, Busy

LEMMA BornStable ==
  ASSUME Exact, "busy" \notin LiveWords, NEW p \in Procs, pc[p] = "launching", Born(p)
  PROVE  /\ Stable /\ NewId \in Runs
         /\ \A r \in Runs : roster'[r] # "busy"
         /\ \A r \in Runs : roster'[r] # "absent" => job'[r].by \in Procs
         /\ \A r \in Runs : roster'[r] = "working" => roster[r] = "working" \/ r = NewId
<1>1. Typed
  BY DEF Exact
<1>2. /\ NewId \in Runs /\ roster[NewId] = "absent" /\ says' = says
      /\ roster'[NewId] \in LiveWords /\ job'[NewId].by = p
      /\ \A r \in Runs \ {NewId} : roster'[r] = roster[r] /\ job'[r] = job[r]
  BY <1>1, BornIs
<1>3. roster'[NewId] = "working"
  BY <1>2, ExactlyWorking
<1> QED
  BY <1>2, <1>3 DEF Stable, Exact

LEMMA LaunchExact ==
  ASSUME Exact, Typed', "busy" \notin LiveWords, NEW p \in Procs, Launch(p)
  PROVE  Exact'
<1>0. /\ Typed /\ pc \in [Procs -> {"unborn", "ready", "launching", "attaching", "saving", "dead"}]
      /\ fresh \in [Procs -> [role : {"worker", "checker"}, id : Runs \cup {None}]]
  BY DEF Exact, Typed, TypeOK
<1>1. pc[p] = "launching" /\ Born(p)
  BY DEF Launch
<1>2. PICK id : id = NewId
  OBVIOUS
<1>3. /\ pc' = [pc EXCEPT ![p] = "attaching"] /\ fresh' = [fresh EXCEPT ![p].id = id]
      /\ UNCHANGED <<plan, opener, file, late, attached, flock, mem>>
  BY <1>2 DEF Launch, request
<1>4. /\ pc'[p] = "attaching" /\ fresh'[p].id = id /\ fresh'[p].role = fresh[p].role
      /\ \A q \in Procs \ {p} : pc'[q] = pc[q] /\ fresh'[q] = fresh[q]
  BY <1>0, <1>3
<1>5. /\ Stable /\ id \in Runs
      /\ \A r \in Runs : roster'[r] # "busy"
      /\ \A r \in Runs : roster'[r] # "absent" => job'[r].by \in Procs
      /\ \A r \in Runs : roster'[r] = "working" => roster[r] = "working" \/ r = id
  BY <1>1, <1>2, BornStable
<1>6. /\ roster[id] = "absent" /\ says' = says /\ roster'[id] \in LiveWords
      /\ \A r \in Runs \ {id} : roster'[r] = roster[r] /\ job'[r] = job[r]
      /\ job'[id].by = p /\ job'[id].round = mem[p].iter
      /\ fresh[p].role = "checker" => job'[id].about = Last(mem[p].history).cand
  BY <1>0, <1>1, <1>2, BornIs
<1>7. /\ flock = p /\ Resumes(p) /\ opener # None
      /\ \A q \in Procs : q # p => pc[q] \notin Busy /\ fresh[q].id = None
  BY ServerIsAlone DEF Serve
<1>8. fresh[p].id = None
  BY <1>1 DEF Exact, Locked
<1>9. Locked'
  BY <1>3, <1>4, <1>7 DEF Locked
<1>10. Resumes(p)'
  <2>1. fresh[p].role = "checker" =>
          /\ file.phase = "working" /\ Ended(file.worker)' /\ mem[p].iter = file.iter
          /\ Last(mem[p].history).worker = file.worker
          /\ Last(mem[p].history).cand = says[file.worker]
    BY <1>3, <1>5, <1>7 DEF Resumes, Stable, Ended
  <2>2. fresh[p].role = "worker" =>
          \/ /\ file.phase = "none" /\ mem[p].iter = 1
             /\ \A r \in Runs : roster'[r] = "working" => r = id
          \/ /\ file.phase = "checking" /\ Ended(file.checker)' /\ says[file.checker] # "PASS"
             /\ mem[p].iter = file.iter + 1
    <3>1. CASE file.phase = "none" /\ fresh[p].role = "worker"
      <4>1. \A r \in Runs : roster[r] = "working" => r = None
        BY <1>7, <1>8, <3>1 DEF Resumes
      <4>2. None \notin Runs
        BY NoneAssumption
      <4> QED
        BY <1>5, <1>7, <3>1, <4>1, <4>2 DEF Resumes
    <3>2. CASE file.phase # "none"
      BY <1>3, <1>5, <1>7, <3>2 DEF Resumes, Stable, Ended
    <3> QED
      BY <3>1, <3>2
  <2>3. mem[p].answer = file.answer
    BY <1>7 DEF Resumes
  <2> QED
    BY <1>3, <1>4, <1>6, <2>1, <2>2, <2>3 DEF Resumes, Last
<1>11. NoStrayAgent'
  <2>1. ASSUME NEW r \in Runs, roster'[r] = "working"
        PROVE  \/ file'.phase \in Open /\ r = Current
               \/ fresh'[job'[r].by].id = r
               \/ pc'[job'[r].by] = "dead"
               \/ file'.phase \in {"none", "failed"}
    <3>1. CASE r = id
      BY <1>4, <1>6, <3>1
    <3>2. CASE r # id
      <4>1. Live(r) /\ job'[r] = job[r] /\ job[r].by \in Procs
        BY <1>5, <1>6, <2>1, <3>2, ExactlyWorking DEF Exact
      <4>2. None \notin Runs
        BY NoneAssumption
      <4>3. fresh[job[r].by].id # r
        BY <1>7, <1>8, <4>1, <4>2
      <4>4. pc[job[r].by] = "dead" => pc'[job[r].by] = "dead"
        BY <1>1, <1>4, <4>1
      <4> QED
        BY <1>3, <4>1, <4>3, <4>4 DEF Exact, NoStrayAgent
    <3> QED
      BY <3>1, <3>2
  <2> QED
    BY <1>3, <2>1, ExactlyWorking DEF NoStrayAgent, Live, Current
<1>12. FirstIsEmpty' /\ CheckerIsTold' /\ Earned' /\ (file'.phase = "working" => Launched(file.worker, "worker")')
  BY <1>3, <1>5, FileFrame
<1>13. \A q \in Procs : pc'[q] \in Busy => Resumes(q)'
  BY <1>4, <1>7, <1>10
<1> QED
  BY <1>3, <1>5, <1>7, <1>9, <1>11, <1>12, <1>13 DEF Exact, Opening, Launched

\* A poll that has returned: everybody is back.
LEMMA ReturnsExact ==
  ASSUME Exact, NEW p \in Procs, Serve(p), Returns(p), opener' = opener
  PROVE  /\ Locked' /\ Opening' /\ \A q \in Procs : pc'[q] \notin Busy
         /\ \A q \in Procs : pc[q] = "dead" => pc'[q] = "dead"
<1>1. /\ pc \in [Procs -> {"unborn", "ready", "launching", "attaching", "saving", "dead"}]
      /\ fresh \in [Procs -> [role : {"worker", "checker"}, id : Runs \cup {None}]]
  BY DEF Exact, Typed, TypeOK
<1>2. /\ pc' = [pc EXCEPT ![p] = "ready"] /\ fresh' = [fresh EXCEPT ![p] = NoAgent] /\ NoAgent.id = None
  BY DEF Returns, NoAgent
<1>3. /\ pc[p] \in Busy /\ opener # None
      /\ \A q \in Procs : q # p => pc[q] \notin Busy /\ fresh[q].id = None
  BY ServerIsAlone
<1> QED
  BY <1>1, <1>2, <1>3 DEF Locked, Opening, Busy

LEMMA SpawnFailsExact ==
  ASSUME Exact, Typed', "busy" \notin LiveWords, NEW p \in Procs, SpawnFails(p)
  PROVE  Exact'
<1>1. /\ pc[p] = "launching" /\ Returns(p) /\ opener' = opener
      /\ file' = IF file.phase = "none" THEN file ELSE Failed(mem[p])
      /\ (UNCHANGED native) \/ Born(p)
  BY DEF SpawnFails, request
<1>2. /\ Stable /\ \A r \in Runs : roster'[r] # "busy"
      /\ \A r \in Runs : roster'[r] # "absent" => job'[r].by \in Procs
  BY <1>1, BornStable DEF native, Stable, Exact
<1>3. Locked' /\ Opening' /\ \A q \in Procs : pc'[q] \notin Busy
  BY <1>1, ReturnsExact DEF Serve
<1>4. file'.phase \in {"none", "failed"}
  BY <1>1, FailedIs DEF Exact, Typed, TypeOK
<1>5. FirstIsEmpty' /\ CheckerIsTold' /\ Earned'
  <2>1. CASE file.phase = "none"
    BY <1>1, <1>2, <2>1, FileFrame
  <2>2. CASE file.phase # "none"
    <3>1. file'.phase = "failed"
      BY <1>1, <2>2, FailedIs DEF Exact, Typed, TypeOK
    <3> QED
      BY <3>1 DEF FirstIsEmpty, CheckerIsTold, Earned
  <2> QED
    BY <2>1, <2>2
<1>6. NoStrayAgent'
  BY <1>4 DEF NoStrayAgent
<1> QED
  BY <1>2, <1>3, <1>4, <1>5, <1>6 DEF Exact

LEMMA AttachExact ==
  ASSUME Exact, Typed', NEW p \in Procs, Attach(p)
  PROVE  Exact'
<1>0. pc \in [Procs -> {"unborn", "ready", "launching", "attaching", "saving", "dead"}]
  BY DEF Exact, Typed, TypeOK
<1>1. /\ pc[p] = "attaching" /\ pc' = [pc EXCEPT ![p] = "saving"]
      /\ UNCHANGED <<plan, opener, file, late, flock, mem, fresh, roster, says, job>>
  BY DEF Attach, request, native
<1>2. Stable /\ \A r \in Runs : roster'[r] = "working" => roster[r] = "working"
  BY <1>1 DEF Stable
<1>3. Locked' /\ Opening'
  BY <1>0, <1>1 DEF Exact, Locked, Opening, Busy
<1>4. \A q \in Procs : pc'[q] \in Busy => Resumes(q)'
  BY <1>0, <1>1, <1>2, ResumesFrame DEF Busy
<1>5. FirstIsEmpty' /\ CheckerIsTold' /\ Earned' /\ (file'.phase = "working" => Launched(file.worker, "worker")')
  BY <1>1, <1>2, FileFrame
<1>6. \A r \in Runs : pc[job[r].by] = "dead" => pc'[job[r].by] = "dead"
  BY <1>0, <1>1
<1>7. NoStrayAgent'
  BY <1>1, <1>6 DEF Exact, NoStrayAgent, Live, Current
<1> QED
  BY <1>1, <1>3, <1>4, <1>5, <1>7 DEF Exact, Launched

LEMMA SaveExact ==
  ASSUME Exact, Typed', "busy" \notin LiveWords, NEW p \in Procs, Save(p)
  PROVE  Exact'
<1>0. /\ TypeOK /\ fresh[p].role \in {"worker", "checker"}
      /\ fresh \in [Procs -> [role : {"worker", "checker"}, id : Runs \cup {None}]]
  BY DEF Exact, Typed, TypeOK
<1>1. pc[p] = "saving" /\ Returns(p) /\ UNCHANGED <<plan, opener, late, attached, roster, says, job>>
  BY DEF Save, request, native
<1>2. /\ pc[p] \in Busy /\ Resumes(p) /\ Carries(p)
      /\ \A q \in Procs : q # p => pc[q] \notin Busy /\ fresh[q].id = None
  BY ServerIsAlone DEF Serve
<1>3. PICK id : id = fresh[p].id /\ Launched(id, fresh[p].role)
  BY <1>1, <1>2 DEF Carries
<1>4. /\ Locked' /\ Opening' /\ \A q \in Procs : pc'[q] \notin Busy
      /\ \A q \in Procs : pc[q] = "dead" => pc'[q] = "dead"
  BY <1>1, ReturnsExact DEF Serve
<1>5. file'.iter = mem[p].iter /\ file'.answer = mem[p].answer
  BY <1>0, <1>1, <1>2, SavedIs
<1>6. CASE fresh[p].role = "worker"
  <2>1. file'.phase = "working" /\ file'.worker = id
    BY <1>0, <1>1, <1>2, <1>3, <1>6, SavedIs
  <2>2. (file'.phase = "working" => Launched(file.worker, "worker")')
    BY <1>1, <1>3, <1>6, <2>1 DEF Launched
  <2>3. ASSUME NEW r \in Runs, roster[r] = "working"
        PROVE  r = id \/ pc[job[r].by] = "dead"
    <3>1. CASE file.phase = "none"
      BY <1>2, <1>3, <1>6, <2>3, <3>1 DEF Resumes
    <3>2. CASE file.phase = "checking"
      <4>1. Live(r) /\ job[r].by \in Procs /\ roster[file.checker] = "done"
        BY <1>2, <1>6, <2>3, <3>2, ExactlyWorking DEF Exact, Resumes, Ended
      <4>2. fresh[job[r].by].id = r \/ pc[job[r].by] = "dead"
        BY <2>3, <3>2, <4>1 DEF Exact, NoStrayAgent, Current, Open
      <4>3. None \notin Runs
        BY NoneAssumption
      <4> QED
        BY <1>2, <1>3, <4>1, <4>2, <4>3
    <3> QED
      BY <1>2, <1>6, <3>1, <3>2 DEF Resumes
  <2>4. NoStrayAgent'
    BY <1>1, <1>4, <2>1, <2>3, ExactlyWorking DEF NoStrayAgent, Live, Current, Open, Exact
  <2>5. FirstIsEmpty' /\ CheckerIsTold' /\ Earned'
    BY <2>1 DEF FirstIsEmpty, CheckerIsTold, Earned
  <2> QED
    BY <1>1, <1>4, <2>1, <2>2, <2>4, <2>5 DEF Exact
<1>7. CASE fresh[p].role = "checker"
  <2>1. /\ file'.phase = "checking" /\ file'.checker = id
        /\ Last(file'.history).worker = Last(mem[p].history).worker
        /\ Last(file'.history).cand = Last(mem[p].history).cand
        /\ Last(file'.history).checker = id
    BY <1>0, <1>1, <1>2, <1>3, <1>7, SavedIs
  <2>2. /\ file.phase = "working" /\ Ended(file.worker)
        /\ Last(mem[p].history).worker = file.worker
        /\ Last(mem[p].history).cand = says[file.worker]
        /\ job[id].round = mem[p].iter /\ job[id].about = Last(mem[p].history).cand
    BY <1>1, <1>2, <1>3, <1>7 DEF Resumes
  <2>3. CheckerIsTold'
    BY <1>1, <1>5, <2>1, <2>2 DEF CheckerIsTold, Ended, Last
  <2>4. ASSUME NEW r \in Runs, roster[r] = "working"
        PROVE  r = id \/ pc[job[r].by] = "dead"
    <3>1. Live(r) /\ job[r].by \in Procs /\ roster[file.worker] = "done"
      BY <2>2, <2>4, ExactlyWorking DEF Exact, Ended
    <3>2. fresh[job[r].by].id = r \/ pc[job[r].by] = "dead"
      BY <2>2, <2>4, <3>1 DEF Exact, NoStrayAgent, Current, Open
    <3>3. None \notin Runs
      BY NoneAssumption
    <3> QED
      BY <1>2, <1>3, <3>1, <3>2, <3>3
  <2>5. NoStrayAgent'
    BY <1>1, <1>4, <2>1, <2>4, ExactlyWorking DEF NoStrayAgent, Live, Current, Open, Exact
  <2>6. FirstIsEmpty' /\ Earned'
    BY <2>1 DEF FirstIsEmpty, Earned
  <2> QED
    BY <1>1, <1>4, <2>1, <2>3, <2>5, <2>6 DEF Exact
<1> QED
  BY <1>0, <1>6, <1>7

\* The clock, the agents and the processes.
LEMMA StartExact == ASSUME Exact, Typed', NEW p \in Procs, Start(p) PROVE Exact'
<1>0. pc \in [Procs -> {"unborn", "ready", "launching", "attaching", "saving", "dead"}]
  BY DEF Exact, Typed, TypeOK
<1>1. /\ pc[p] = "unborn" /\ pc' = [pc EXCEPT ![p] = "ready"]
      /\ UNCHANGED <<plan, opener, file, late, attached, flock, mem, fresh, roster, says, job>>
  BY DEF Start, request, native
<1>2. Stable /\ \A r \in Runs : roster'[r] = "working" => roster[r] = "working"
  BY <1>1 DEF Stable
<1>3. Locked' /\ Opening'
  BY <1>0, <1>1 DEF Exact, Locked, Opening, Busy
<1>4. \A q \in Procs : pc'[q] \in Busy => Resumes(q)'
  BY <1>0, <1>1, <1>2, ResumesFrame DEF Busy
<1>5. FirstIsEmpty' /\ CheckerIsTold' /\ Earned' /\ (file'.phase = "working" => Launched(file.worker, "worker")')
  BY <1>1, <1>2, FileFrame
<1>6. \A r \in Runs : pc[job[r].by] = "dead" => pc'[job[r].by] = "dead"
  BY <1>0, <1>1
<1>7. NoStrayAgent'
  BY <1>1, <1>6 DEF Exact, NoStrayAgent, Live, Current
<1> QED
  BY <1>1, <1>3, <1>4, <1>5, <1>7 DEF Exact, Launched

\* An agent whose launcher dies has a dead launcher.
LEMMA CrashExact == ASSUME Exact, Typed', "busy" \notin LiveWords, NEW p \in Procs, Crash(p) PROVE Exact'
<1>0. /\ pc \in [Procs -> {"unborn", "ready", "launching", "attaching", "saving", "dead"}]
      /\ fresh \in [Procs -> [role : {"worker", "checker"}, id : Runs \cup {None}]]
      /\ mem \in [Procs -> Loops]
  BY DEF Exact, Typed, TypeOK
<1>1. /\ pc' = [pc EXCEPT ![p] = "dead"] /\ fresh' = [fresh EXCEPT ![p] = NoAgent] /\ NoAgent.id = None
      /\ mem' = [mem EXCEPT ![p] = NoLoop] /\ flock' = IF flock = p THEN None ELSE flock
      /\ UNCHANGED <<plan, opener, file, late, attached, roster, says, job>>
  BY DEF Crash, request, native, NoAgent
<1>2. Stable /\ \A r \in Runs : roster'[r] = "working" => roster[r] = "working"
  BY <1>1 DEF Stable
<1>3. Locked' /\ Opening'
  BY <1>0, <1>1 DEF Exact, Locked, Opening, Busy
<1>4. ASSUME NEW q \in Procs, pc'[q] \in Busy PROVE Resumes(q)'
  <2>1. q # p /\ pc'[q] = pc[q] /\ mem'[q] = mem[q] /\ fresh'[q] = fresh[q]
    BY <1>0, <1>1, <1>4 DEF Busy
  <2> QED
    BY <1>1, <1>2, <1>4, <2>1, ResumesFrame
<1>5. FirstIsEmpty' /\ CheckerIsTold' /\ Earned' /\ (file'.phase = "working" => Launched(file.worker, "worker")')
  BY <1>1, <1>2, FileFrame
<1>6. \A r \in Runs : /\ pc[job[r].by] = "dead" => pc'[job[r].by] = "dead"
                      /\ job[r].by = p => pc'[job[r].by] = "dead"
                      /\ job[r].by # p => fresh'[job[r].by] = fresh[job[r].by]
  <2>1. \A b : pc[b] = "dead" => pc'[b] = "dead"
    BY <1>0, <1>1
  <2>2. pc'[p] = "dead"
    BY <1>0, <1>1
  <2> QED
    BY <1>0, <1>1, <2>1, <2>2
<1>7. NoStrayAgent'
  BY <1>1, <1>6 DEF Exact, NoStrayAgent, Live, Current
<1> QED
  BY <1>1, <1>3, <1>4, <1>5, <1>7 DEF Exact, Launched

\* An agent that ends, or breaks, was at work.
LEMMA AgentExact ==
  ASSUME Exact, Typed', "busy" \notin LiveWords, NEW r \in Runs,
         Break(r) \/ \E w \in Words : Finish(r, w)
  PROVE  Exact'
<1>0. /\ roster \in [Runs -> {"absent", "working", "busy", "done", "failed"}] /\ says \in [Runs -> Words]
  BY DEF Exact, Typed, TypeOK
<1>1. /\ roster[r] = "working" /\ UNCHANGED <<plan, opener, file, late, attached, flock, pc, mem, fresh, job>>
      /\ \E ended \in {"done", "failed"} : roster' = [roster EXCEPT ![r] = ended]
      /\ \A q \in Runs : q # r => says'[q] = says[q]
  BY <1>0, ExactlyWorking DEF Break, Finish, request, locals
<1>2. /\ roster'[r] \in {"done", "failed"} /\ \A q \in Runs : q # r => roster'[q] = roster[q] /\ says'[q] = says[q]
  BY <1>0, <1>1
<1>3. Stable /\ \A q \in Runs : roster'[q] = "working" => roster[q] = "working"
  BY <1>1, <1>2 DEF Stable
<1>4. Locked' /\ Opening'
  BY <1>1, <1>2 DEF Exact, Locked, Opening
<1>5. \A q \in Procs : pc'[q] \in Busy => Resumes(q)'
  BY <1>1, <1>3, ResumesFrame
<1>6. FirstIsEmpty' /\ CheckerIsTold' /\ Earned' /\ (file'.phase = "working" => Launched(file.worker, "worker")')
  BY <1>1, <1>3, FileFrame
<1>7. NoStrayAgent'
  BY <1>1, <1>3, ExactlyWorking DEF Exact, NoStrayAgent, Live, Current
<1>8. \A q \in Runs : roster'[q] # "busy" /\ (roster'[q] # "absent" => job'[q].by \in Procs)
  BY <1>1, <1>2 DEF Exact
<1> QED
  BY <1>1, <1>4, <1>5, <1>6, <1>7, <1>8 DEF Exact, Launched

LEMMA ExactKept ==
  ASSUME "busy" \notin LiveWords
  PROVE  Exact /\ [Next]_vars => Exact'
<1> SUFFICES ASSUME Exact, [Next]_vars PROVE Exact'
  OBVIOUS
<1>0. Typed'
  BY TypedKept DEF Exact
<1>1. ASSUME NEW p \in Procs, Ends(p) PROVE Exact'
  BY <1>1, EndsExact
<1>2. ASSUME NEW p \in Procs, BeginsPoll(p) PROVE Exact'
  BY <1>0, <1>2, BeginsExact
<1>3. ASSUME NEW p \in Procs, Serve(p) PROVE Exact'
  BY <1>0, <1>3, LaunchExact, SpawnFailsExact, AttachExact, SaveExact DEF Serve
<1>4. ASSUME NEW p \in Procs, Start(p) \/ Crash(p) PROVE Exact'
  BY <1>0, <1>4, StartExact, CrashExact
<1>5. ASSUME NEW r \in Runs, Break(r) \/ \E w \in Words : Finish(r, w) PROVE Exact'
  BY <1>0, <1>5, AgentExact
<1>6. CASE Expire \/ UNCHANGED vars
  <2>1. UNCHANGED <<plan, opener, file, attached, flock, pc, mem, fresh, roster, says, job>>
    BY <1>6 DEF Expire, vars, request, locals, native
  <2>2. Stable /\ \A q \in Runs : roster'[q] = "working" => roster[q] = "working"
    BY <2>1 DEF Stable
  <2>3. FirstIsEmpty' /\ CheckerIsTold' /\ Earned' /\ (file'.phase = "working" => Launched(file.worker, "worker")')
    BY <2>1, <2>2, FileFrame
  <2>4. \A q \in Procs : pc'[q] \in Busy => Resumes(q)'
    BY <2>1, <2>2, ResumesFrame
  <2> QED
    BY <1>0, <2>1, <2>3, <2>4 DEF Exact, Locked, Opening, NoStrayAgent, Live, Current, Launched
<1> QED
  BY <1>1, <1>2, <1>3, <1>4, <1>5, <1>6, StepsAre

LEMMA ExactAtFirst == Init => Exact
<1> SUFFICES ASSUME Init PROVE Exact
  OBVIOUS
<1>1. Typed
  BY TypedAtFirst
<1>2. NoLoop.phase = "none" /\ NoLoop.iter = 1 /\ NoLoop.answer = "" /\ NoAgent.id = None
  BY DEF NoLoop, NoAgent
<1>3. /\ file = NoLoop /\ \A r \in Runs : roster[r] = "absent"
      /\ \A p \in Procs : pc[p] = "unborn" /\ fresh[p] = NoAgent
  BY DEF Init
<1>4. Locked /\ Opening /\ FirstIsEmpty /\ CheckerIsTold /\ Earned /\ NoStrayAgent
  BY <1>2, <1>3 DEF Locked, Opening, FirstIsEmpty, CheckerIsTold, Earned, NoStrayAgent, Busy
<1> QED
  BY <1>1, <1>2, <1>3, <1>4 DEF Exact, Busy

\* PassIsEarned: a signed-off result is the whole answer of the last round's worker,
\* and an independent checker that was shown that answer said PASS.
THEOREM ResultsAreEarned ==
  ASSUME "busy" \notin LiveWords
  PROVE  Spec => []PassIsEarned
<1>1. Exact => PassIsEarned
  BY DEF Exact, Earned, PassIsEarned
<1> QED
  BY <1>1, ExactAtFirst, ExactKept, PTL DEF Spec

\* NoStrayAgent: no agent works for a loop that does not wait for it, but those a
\* crash or a failure has cut off.
THEOREM AgentsAreWaitedFor ==
  ASSUME "busy" \notin LiveWords
  PROVE  Spec => []NoStrayAgent
<1>1. Exact => NoStrayAgent
  BY DEF Exact
<1> QED
  BY <1>1, ExactAtFirst, ExactKept, PTL DEF Spec

-----------------------------------------------------------------------------
(* The loop keeps its contract. *)

Outcome == CASE file.phase = "none" -> "none"
             [] file.phase \in Open -> "open"
             [] file.phase = "failed" -> "failed"
             [] OTHER -> IF Last(file.history).verdict = "UNVERIFIED" THEN "unverified" ELSE "passed"

Reporters == {s \in Runs : job[s].kind = "checker" /\ roster[s] = "done"}
Judged    == {<<job[r].round, job[r].about, says[r]>> : r \in Reporters}

\* The loop's variables, as the contract sees them.
LEMMA ContractReads == Contract!cvars = <<~plan.criteria, Outcome, file.iter, Judged, file.answer>>
BY DEF Contract!cvars, Outcome, Judged, Reporters

\* A step of the contract, in terms of the loop.
Keeps ==
  \/ Outcome = "none" /\ Outcome' = "open" /\ UNCHANGED <<file.iter, Judged, file.answer>>
  \/ /\ \E i \in 1..MaxIters, text \in Words, verdict \in Words : Judged' = Judged \cup {<<i, text, verdict>>}
     /\ UNCHANGED <<Outcome, file.iter, file.answer>>
  \/ /\ Outcome = "open" /\ file.iter < MaxIters /\ file'.iter = file.iter + 1
     /\ \E j \in Judged : j[1] = file.iter /\ j[3] # "PASS"
     /\ UNCHANGED <<Outcome, Judged, file.answer>>
  \/ /\ Outcome = "open" /\ Outcome' = "passed" /\ file'.answer \in Words
     /\ <<file.iter, file'.answer, "PASS">> \in Judged
     /\ UNCHANGED <<file.iter, Judged>>
  \/ /\ Outcome = "open" /\ Outcome' = "unverified" /\ ~plan.criteria /\ file'.answer \in Words
     /\ UNCHANGED <<file.iter, Judged>>
  \/ /\ Outcome = "open" /\ Outcome' = "failed"
     /\ file'.iter \in {file.iter, file.iter + 1} /\ file'.iter <= MaxIters
     /\ UNCHANGED <<Judged, file.answer>>
  \/ UNCHANGED <<Outcome, file.iter, Judged, file.answer>>

LEMMA KeepsIsStep == ASSUME Keeps, plan' = plan PROVE [Contract!CNext]_(Contract!cvars)
<1>1. CASE Outcome = "none" /\ Outcome' = "open" /\ UNCHANGED <<file.iter, Judged, file.answer>>
  <2>1. Contract!Opens
    BY <1>1 DEF Contract!Opens, Outcome, Judged, Reporters
  <2> QED
    BY <2>1 DEF Contract!CNext
<1>2. CASE /\ \E i \in 1..MaxIters, text \in Words, verdict \in Words : Judged' = Judged \cup {<<i, text, verdict>>}
           /\ UNCHANGED <<Outcome, file.iter, file.answer>>
  <2>1. PICK i \in 1..MaxIters, text \in Words, verdict \in Words : Judged' = Judged \cup {<<i, text, verdict>>}
    BY <1>2
  <2>2. Contract!Judges(i, text, verdict)
    BY <1>2, <2>1 DEF Contract!Judges, Outcome, Judged, Reporters
  <2> QED
    BY <2>2 DEF Contract!CNext
<1>3. CASE /\ Outcome = "open" /\ file.iter < MaxIters /\ file'.iter = file.iter + 1
           /\ \E j \in Judged : j[1] = file.iter /\ j[3] # "PASS"
           /\ UNCHANGED <<Outcome, Judged, file.answer>>
  <2>1. Contract!NextRound
    BY <1>3 DEF Contract!NextRound, Outcome, Judged, Reporters
  <2> QED
    BY <2>1 DEF Contract!CNext
<1>4. CASE /\ Outcome = "open" /\ Outcome' = "passed" /\ file'.answer \in Words
           /\ <<file.iter, file'.answer, "PASS">> \in Judged
           /\ UNCHANGED <<file.iter, Judged>>
  <2>1. PICK text \in Words : text = file'.answer
    BY <1>4
  <2>2. Contract!Passes(text)
    BY <1>4, <2>1 DEF Contract!Passes, Outcome, Judged, Reporters
  <2> QED
    BY <2>2 DEF Contract!CNext
<1>5. CASE /\ Outcome = "open" /\ Outcome' = "unverified" /\ ~plan.criteria /\ file'.answer \in Words
           /\ UNCHANGED <<file.iter, Judged>>
  <2>1. PICK text \in Words : text = file'.answer
    BY <1>5
  <2>2. Contract!Waives(text)
    BY <1>5, <2>1 DEF Contract!Waives, Outcome, Judged, Reporters
  <2> QED
    BY <2>2 DEF Contract!CNext
<1>6. CASE /\ Outcome = "open" /\ Outcome' = "failed"
           /\ file'.iter \in {file.iter, file.iter + 1} /\ file'.iter <= MaxIters
           /\ UNCHANGED <<Judged, file.answer>>
  <2>1. Contract!Fails
    BY <1>6 DEF Contract!Fails, Outcome, Judged, Reporters
  <2> QED
    BY <2>1 DEF Contract!CNext
<1>7. CASE UNCHANGED <<Outcome, file.iter, Judged, file.answer>>
  BY <1>7, ContractReads DEF Contract!cvars, Outcome, Judged, Reporters
<1> QED
  BY <1>1, <1>2, <1>3, <1>4, <1>5, <1>6, <1>7 DEF Keeps

LEMMA JudgedFrame ==
  ASSUME \A r \in Runs : /\ (job'[r].kind = "checker" /\ roster'[r] = "done") <=> r \in Reporters
                         /\ r \in Reporters => says'[r] = says[r] /\ job'[r] = job[r]
  PROVE  Judged' = Judged
<1>1. Reporters' = Reporters
  BY DEF Reporters
<1>2. \A r \in Reporters : says'[r] = says[r] /\ job'[r] = job[r]
  BY DEF Reporters
<1> QED
  BY <1>1, <1>2 DEF Judged

LEMMA OpenIs == file.phase \in Open => Outcome = "open"
BY DEF Outcome, Open

LEMMA EndsKeeps ==
  ASSUME Exact, "busy" \notin LiveWords, NEW p \in Procs, Ends(p)
  PROVE  Keeps /\ plan' = plan
<1>0. Typed /\ file \in Loops /\ says \in [Runs -> Words]
  BY DEF Exact, Typed, TypeOK
<1>1. /\ \A f : Saves(p, f) => /\ file' = f /\ Turn(p)
                               /\ UNCHANGED <<plan, opener, late, attached, flock, pc, mem, fresh, roster, says, job>>
      /\ \E f : Saves(p, f)
  BY <1>0, EndsAre DEF Saves, request, locals, native, Ends
<1>2. /\ file.phase \in Open /\ Outcome = "open" /\ UNCHANGED <<plan, roster, says, job>> /\ Judged' = Judged
  BY <1>1, OpenIs DEF Turn, Judged, Reporters
<1>3. ASSUME NEW f, f \in Loops, f.iter = file.iter, f.answer = file.answer, Saves(p, Failed(f)) PROVE Keeps
  <2>1. file' = Failed(f) /\ file'.phase = "failed" /\ file'.iter = file.iter /\ file'.answer = file.answer
    BY <1>1, <1>3, FailedIs
  <2>2. Outcome' = "failed"
    BY <2>1 DEF Outcome, Open
  <2>3. file.iter <= MaxIters
    BY <1>0, IterAssumption DEF Loops
  <2> QED
    BY <1>2, <2>1, <2>2, <2>3 DEF Keeps
<1>4. CASE TimeOut(p) \/ RosterUnreadable(p) \/ AgentGone(p)
  BY <1>0, <1>2, <1>3, <1>4, EndsAre
<1>5. CASE Stagnate(p)
  <2>1. file.worker \in Runs
    BY <1>0, <1>5 DEF Stagnate, Answered, Typed
  <2> QED
    BY <1>0, <1>2, <1>3, <1>5, <2>1, EndsAre, Candidate DEF Alike
<1>6. CASE GiveUp(p)
  <2>1. file.history # <<>> /\ says[file.checker] \in Verdicts
    BY <1>0, <1>6 DEF GiveUp, Answered, Typed, Launched
  <2> QED
    BY <1>0, <1>2, <1>3, <1>6, <2>1, EndsAre, Verdict DEF Alike
<1>7. CASE SignOff(p)
  <2>1. PICK g : /\ Saves(p, g) /\ g \in Loops /\ g.phase = "passed"
                 /\ g.iter = file.iter /\ g.history = WithVerdict.history
                 /\ g.answer = Last(file.history).cand
    BY <1>0, <1>7, EndsAre
  <2>2. Answered("checking") /\ says[file.checker] = "PASS"
    BY <1>7 DEF SignOff
  <2>3. Ended(file.checker) /\ file.phase = "checking" /\ job[file.checker].kind = "checker"
    BY <1>0, <2>2, AnsweredEnded DEF Open, Answered, Typed, Launched
  <2>4. Last(WithVerdict.history).verdict = "PASS"
    BY <1>0, <2>2, <2>3, Verdict DEF Typed, Verdicts
  <2>5. file' = g
    BY <1>1, <2>1
  <2>6. Outcome' = "passed"
    BY <2>1, <2>4, <2>5 DEF Outcome, Open, Last
  <2>7. job[file.checker].about = Last(file.history).cand /\ job[file.checker].round = file.iter
    BY <2>3 DEF Exact, CheckerIsTold
  <2>8. <<file.iter, g.answer, "PASS">> \in Judged
    BY <2>1, <2>2, <2>3, <2>7 DEF Judged, Reporters, Ended
  <2>9. g.answer \in Words
    BY <2>1 DEF Loops
  <2> QED
    BY <1>2, <2>1, <2>5, <2>6, <2>8, <2>9 DEF Keeps
<1>8. CASE SkipCheck(p)
  <2>1. PICK g : /\ Saves(p, g) /\ g \in Loops /\ g.phase = "passed" /\ g.iter = file.iter
                 /\ Last(g.history).verdict = "UNVERIFIED"
    BY <1>0, <1>8, EndsAre
  <2>2. file' = g
    BY <1>1, <2>1
  <2>3. Outcome' = "unverified"
    BY <2>1, <2>2 DEF Outcome, Open, Last
  <2>4. ~plan.criteria
    BY <1>8 DEF SkipCheck, MaySkip
  <2>5. g.answer \in Words
    BY <2>1 DEF Loops
  <2> QED
    BY <1>2, <2>1, <2>2, <2>3, <2>4, <2>5 DEF Keeps
<1> QED
  BY <1>2, <1>4, <1>5, <1>6, <1>7, <1>8 DEF Ends

LEMMA BornJudged ==
  ASSUME Exact, "busy" \notin LiveWords, NEW p \in Procs, pc[p] = "launching", Born(p)
  PROVE  Judged' = Judged
<1>1. /\ roster[NewId] = "absent" /\ says' = says /\ roster'[NewId] \in LiveWords
      /\ \A r \in Runs \ {NewId} : roster'[r] = roster[r] /\ job'[r] = job[r]
  BY BornIs DEF Exact
<1>2. roster'[NewId] # "done"
  BY <1>1, LiveWordsAssumption
<1> QED
  BY <1>1, <1>2, JudgedFrame DEF Reporters

LEMMA ServeKeeps ==
  ASSUME Exact, "busy" \notin LiveWords, NEW p \in Procs, Serve(p)
  PROVE  Keeps /\ plan' = plan
<1>0. /\ TypeOK /\ file \in Loops /\ mem[p] \in Loops /\ fresh[p].role \in {"worker", "checker"}
  BY DEF Exact, Typed, TypeOK
<1>1. Resumes(p) /\ Carries(p)
  BY ServerIsAlone
<1>2. CASE Launch(p)
  <2>1. pc[p] = "launching" /\ Born(p) /\ UNCHANGED <<plan, file>>
    BY <1>2 DEF Launch, request
  <2>2. Judged' = Judged
    BY <2>1, BornJudged
  <2> QED
    BY <2>1, <2>2 DEF Keeps, Outcome, Last
<1>3. CASE SpawnFails(p)
  <2>1. /\ pc[p] = "launching" /\ plan' = plan /\ ((UNCHANGED native) \/ Born(p))
        /\ file' = IF file.phase = "none" THEN file ELSE Failed(mem[p])
    BY <1>3 DEF SpawnFails, request
  <2>2. Judged' = Judged
    BY <2>1, BornJudged DEF native, Judged, Reporters
  <2>3. CASE file.phase = "none"
    BY <2>1, <2>2, <2>3 DEF Keeps, Outcome, Last
  <2>4. CASE file.phase # "none"
    <3>1. /\ file'.phase = "failed" /\ file'.iter = mem[p].iter /\ file'.answer = mem[p].answer
      BY <1>0, <2>1, <2>4, FailedIs
    <3>2. /\ file.phase \in Open /\ mem[p].iter \in {file.iter, file.iter + 1} /\ mem[p].answer = file.answer
      BY <1>0, <1>1, <2>4 DEF Resumes, Open
    <3>3. mem[p].iter <= MaxIters
      BY <1>0, IterAssumption DEF Loops
    <3>4. Outcome = "open" /\ Outcome' = "failed"
      BY <3>1, <3>2, OpenIs DEF Outcome, Open
    <3> QED
      BY <2>1, <2>2, <3>1, <3>2, <3>3, <3>4 DEF Keeps
  <2> QED
    BY <2>1, <2>3, <2>4
<1>4. CASE Attach(p)
  <2>1. UNCHANGED <<plan, file, roster, says, job>>
    BY <1>4 DEF Attach, request, native
  <2> QED
    BY <2>1 DEF Keeps, Outcome, Judged, Reporters, Last
<1>5. CASE Save(p)
  <2>1. pc[p] = "saving" /\ UNCHANGED <<plan, roster, says, job>>
    BY <1>5 DEF Save, request, native
  <2>2. Judged' = Judged
    BY <2>1 DEF Judged, Reporters
  <2>3. /\ file'.iter = mem[p].iter /\ file'.answer = mem[p].answer /\ file' \in Loops
        /\ fresh[p].role = "worker" => file'.phase = "working"
        /\ fresh[p].role = "checker" => file'.phase = "checking"
    BY <1>0, <1>1, <1>5, <2>1, SavedIs
  <2>4. Outcome' = "open"
    BY <1>0, <2>3 DEF Outcome, Open
  <2>5. mem[p].answer = file.answer
    BY <1>1 DEF Resumes
  <2>6. CASE file.phase = "none"
    <3>1. mem[p].iter = 1 /\ file.iter = 1
      BY <1>0, <1>1, <2>6 DEF Resumes, Exact, FirstIsEmpty
    <3> QED
      BY <2>1, <2>2, <2>3, <2>4, <2>5, <2>6, <3>1 DEF Keeps, Outcome
  <2>7. CASE fresh[p].role = "checker"
    <3>1. file.phase = "working" /\ mem[p].iter = file.iter
      BY <1>1, <2>7 DEF Resumes
    <3>2. Outcome = "open"
      BY <3>1, OpenIs DEF Open
    <3> QED
      BY <2>1, <2>2, <2>3, <2>4, <2>5, <3>1, <3>2 DEF Keeps
  <2>8. CASE fresh[p].role = "worker" /\ file.phase # "none"
    <3>1. /\ file.phase = "checking" /\ Ended(file.checker) /\ says[file.checker] # "PASS"
          /\ mem[p].iter = file.iter + 1
      BY <1>1, <2>8 DEF Resumes
    <3>2. Outcome = "open"
      BY <3>1, OpenIs DEF Open
    <3>3. job[file.checker].kind = "checker" /\ job[file.checker].round = file.iter
      BY <3>1 DEF Exact, Typed, Launched, CheckerIsTold
    <3>4. PICK j : j = <<job[file.checker].round, job[file.checker].about, says[file.checker]>>
      OBVIOUS
    <3>5. j \in Judged /\ j[1] = file.iter /\ j[3] # "PASS"
      BY <3>1, <3>3, <3>4 DEF Judged, Reporters, Ended
    <3>6. file.iter < MaxIters
      BY <1>0, <3>1, IterAssumption DEF Loops
    <3> QED
      BY <2>1, <2>2, <2>3, <2>4, <2>5, <3>1, <3>2, <3>5, <3>6 DEF Keeps
  <2> QED
    BY <1>0, <2>1, <2>6, <2>7, <2>8
<1> QED
  BY <1>2, <1>3, <1>4, <1>5 DEF Serve

\* The other steps change nothing of it, but a checker's last word.
LEMMA OthersKeep ==
  ASSUME Exact, "busy" \notin LiveWords,
         \/ \E p \in Procs : BeginsPoll(p) \/ Start(p) \/ Crash(p)
         \/ Expire \/ (\E r \in Runs : Break(r) \/ \E w \in Words : Finish(r, w))
         \/ UNCHANGED vars
  PROVE  Keeps /\ plan' = plan
<1>0. /\ TypeOK /\ roster \in [Runs -> {"absent", "working", "busy", "done", "failed"}]
      /\ says \in [Runs -> Words] /\ job \in [Runs -> Jobs]
  BY DEF Exact, Typed, TypeOK
<1>1. CASE UNCHANGED <<plan, file, roster, says, job>>
  BY <1>1 DEF Keeps, Outcome, Judged, Reporters, Last
<1>2. ASSUME NEW p \in Procs, BeginsPoll(p) PROVE UNCHANGED <<plan, file, roster, says, job>>
  BY <1>2 DEF BeginsPoll, OpenLoop, AskChecker, Revise, Begins, request, native
<1>3. ASSUME NEW p \in Procs, Start(p) \/ Crash(p) PROVE UNCHANGED <<plan, file, roster, says, job>>
  BY <1>3 DEF Start, Crash, request, native
<1>4. Expire \/ UNCHANGED vars => UNCHANGED <<plan, file, roster, says, job>>
  BY DEF Expire, request, native, vars
<1>5. ASSUME NEW r \in Runs, Break(r) PROVE Keeps /\ plan' = plan
  <2>1. roster[r] = "working" /\ roster' = [roster EXCEPT ![r] = "failed"] /\ UNCHANGED <<plan, file, says, job>>
    BY <1>5, ExactlyWorking DEF Break, request
  <2>2. Judged' = Judged
    BY <1>0, <2>1, JudgedFrame DEF Reporters
  <2> QED
    BY <2>1, <2>2 DEF Keeps, Outcome, Last
<1>6. ASSUME NEW r \in Runs, NEW w \in Words, Finish(r, w) PROVE Keeps /\ plan' = plan
  <2>1. /\ roster[r] = "working" /\ roster' = [roster EXCEPT ![r] = "done"] /\ says' = [says EXCEPT ![r] = w]
        /\ UNCHANGED <<plan, file, job>>
    BY <1>6, ExactlyWorking DEF Finish, request
  <2>2. CASE job[r].kind # "checker"
    <3>1. Judged' = Judged
      BY <1>0, <2>1, <2>2, JudgedFrame DEF Reporters
    <3> QED
      BY <2>1, <3>1 DEF Keeps, Outcome, Last
  <2>3. CASE job[r].kind = "checker"
    <3> DEFINE n == job[r].round
               text == job[r].about
    <3>1. n \in 1..MaxIters /\ text \in Words
      BY <1>0 DEF Jobs
    <3>2. Reporters' = Reporters \cup {r} /\ r \notin Reporters
      BY <1>0, <2>1, <2>3 DEF Reporters
    <3>3. \A q \in Reporters : <<job[q].round, job[q].about, says[q]>>' = <<job[q].round, job[q].about, says[q]>>
      BY <1>0, <2>1, <3>2 DEF Reporters
    <3>4. <<job[r].round, job[r].about, says[r]>>' = <<n, text, w>>
      BY <1>0, <2>1
    <3>5. Judged' = Judged \cup {<<n, text, w>>}
      BY <3>2, <3>3, <3>4 DEF Judged
    <3> HIDE DEF n, text
    <3> QED
      BY <2>1, <3>1, <3>5 DEF Keeps, Outcome, Last
  <2> QED
    BY <2>2, <2>3
<1> QED
  BY <1>1, <1>2, <1>3, <1>4, <1>5, <1>6

\* KeepsContract: rounds follow only rejections, an answer is signed off on a verdict
\* about that answer, and an outcome is final.
THEOREM ContractIsKept ==
  ASSUME "busy" \notin LiveWords
  PROVE  Spec => KeepsContract
<1>1. Init => Contract!CInit
  <2> SUFFICES ASSUME Init PROVE Contract!CInit
    OBVIOUS
  <2>1. file.phase = "none" /\ file.iter = 1 /\ file.answer = "" /\ plan \in Plans
    BY DEF Init, NoLoop
  <2>2. Judged = {}
    BY DEF Init, Judged, Reporters
  <2>3. Outcome = "none"
    BY <2>1 DEF Outcome, Open
  <2>4. (~plan.criteria) \in BOOLEAN
    OBVIOUS
  <2> QED
    BY <2>1, <2>2, <2>3, <2>4 DEF Contract!CInit, Outcome, Judged, Reporters
<1>2. Exact /\ [Next]_vars => [Contract!CNext]_(Contract!cvars)
  <2> SUFFICES ASSUME Exact, [Next]_vars PROVE [Contract!CNext]_(Contract!cvars)
    OBVIOUS
  <2>1. Keeps /\ plan' = plan
    BY StepsAre, EndsKeeps, ServeKeeps, OthersKeep
  <2> QED
    BY <2>1, KeepsIsStep
<1> QED
  BY <1>1, <1>2, ExactAtFirst, ExactKept, PTL DEF Spec, KeepsContract, Contract!CSpec

=============================================================================
