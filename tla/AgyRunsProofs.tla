----------------------------- MODULE AgyRunsProofs -----------------------------
(***************************************************************************)
(* What is proved of AgyRuns for any number of clients: the types, and     *)
(* that no race between polls and stops writes a record that is not so.    *)
(***************************************************************************)
EXTENDS AgyRuns, TLAPS

\* Busy: between the read of the metadata (or Popen) and the end of the call.
Busy(c) == pc[c] \notin {"idle", "dead"}

\* A call that has parsed a SUCCESS and corrected the conversation id.
Corrected(c) ==
  \/ pc[c] = "probing"
  \/ pc[c] \in {"storing", "filling"} /\ ~last[c]

\* What a client holds is as true as what the file says: an output, once parsed, does
\* not change, and a process that has ended stays so.
ClientInv(c) ==
  /\ Earned(mem[c])
  /\ got[c] # "nothing" => got[c] = out
  /\ Corrected(c) /\ got[c] = "success" => mem[c].linked
  /\ Busy(c) => proc # "none"

RunInv ==
  /\ TypeOK
  /\ shared => proc # "none"
  /\ RecordIsEarned
  /\ \A c \in Clients : ClientInv(c)

LEMMA NoRecordHolds == NoRecord \in Records
BY DEF NoRecord, Records, Ended

\* A conversation id is put on a record.
LEMMA LinkedHolds ==
  ASSUME NEW r \in Records, NEW l \in BOOLEAN
  PROVE  [r EXCEPT !.linked = l] \in Records
BY DEF Records

\* A record is marked as stopped.
LEMMA StoppedHolds ==
  ASSUME NEW r \in Records PROVE [r EXCEPT !.status = "stopped"] \in Records
BY DEF Records, Ended

\* A settled run gets a record of its outcome.
LEMMA OutcomeHolds ==
  ASSUME NEW l \in BOOLEAN, NEW s \in Ended PROVE [status |-> s, linked |-> l] \in Records
BY DEF Records

LEMMA LinkedIsBoolean == ASSUME NEW r \in Records PROVE r.linked \in BOOLEAN
BY DEF Records

\* Every variable keeps its type, whatever the calls do.
THEOREM TypeCorrect == Spec => []TypeOK
<1>1. Init => TypeOK
  BY NoRecordHolds DEF Init, TypeOK, Outputs, Answers, Steps, Files
<1>2. TypeOK /\ [Next]_vars => TypeOK'
  <2> SUFFICES ASSUME TypeOK, [Next]_vars PROVE TypeOK'
    OBVIOUS
  <2> USE DEF TypeOK, Outputs, Answers, Steps, Files
  <2>1. ASSUME NEW c \in Clients, Crash(c) \/ Restart(c) PROVE TypeOK'
    BY <2>1, NoRecordHolds DEF Crash, Restart, Ends, record
  <2>2. ASSUME NEW c \in Clients, Spawn(c) PROVE TypeOK'
    BY <2>2, NoRecordHolds DEF Spawn, Stores, record
  <2>3. ASSUME NEW c \in Clients, CheckStatus(c) \/ Stop(c) PROVE TypeOK'
    BY <2>3, NoRecordHolds DEF CheckStatus, Check, Raise, Stop, Ends, record
  <2>4. ASSUME NEW c \in Clients, Truncate(c) PROVE TypeOK'
    BY <2>4, NoRecordHolds DEF Truncate
  <2>5. ASSUME NEW c \in Clients, Fill(c) PROVE TypeOK'
    <3>1. file' \in Files /\ meta' \in Records /\ shared' \in BOOLEAN /\ UNCHANGED <<proc, out>>
      BY <2>5, NoRecordHolds DEF Fill
    <3>2. CASE last[c]
      <4>1. Ends(c, "idle")
        BY <2>5, <3>2 DEF Fill
      <4> QED
        BY <3>1, <4>1, NoRecordHolds DEF Ends
    <3>3. CASE ~last[c]
      <4>1. pc' = [pc EXCEPT ![c] = "probing"] /\ UNCHANGED <<mem, got, last>>
        BY <2>5, <3>3 DEF Fill
      <4> QED
        BY <3>1, <4>1
    <3> QED
      BY <3>2, <3>3
  <2>6. ASSUME NEW c \in Clients, Parse(c) \/ Known(c) PROVE TypeOK'
    BY <2>6, NoRecordHolds DEF Parse, Known, Ends, record
  <2>7. ASSUME NEW c \in Clients, Correct(c) PROVE TypeOK'
    <3>1. [mem[c] EXCEPT !.linked = TRUE] \in Records
      BY LinkedHolds
    <3>2. QED
      BY <2>7, <3>1 DEF Correct, Stores, record
  <2>8. ASSUME NEW c \in Clients, Progress(c) PROVE TypeOK'
    <3>1. PICK l \in {mem[c].linked, TRUE} : Stores(c, [mem[c] EXCEPT !.linked = l], TRUE)
      BY <2>8 DEF Progress
    <3>2. [mem[c] EXCEPT !.linked = l] \in Records
      BY LinkedHolds, LinkedIsBoolean
    <3>3. QED
      BY <2>8, <3>1, <3>2 DEF Progress, Stores, record
  <2>9. ASSUME NEW c \in Clients, Settle(c) PROVE TypeOK'
    <3> DEFINE s == IF got[c] \in Answers THEN "completed" ELSE "failed"
    <3>1. PICK l \in {mem[c].linked, TRUE} : Stores(c, [status |-> s, linked |-> l], TRUE)
      BY <2>9 DEF Settle
    <3>2. [status |-> s, linked |-> l] \in Records
      BY OutcomeHolds, LinkedIsBoolean DEF Ended
    <3>3. QED
      BY <2>9, <3>1, <3>2 DEF Settle, Stores, record
  <2>10. ASSUME NEW c \in Clients, Terminate(c) PROVE TypeOK'
    BY <2>10 DEF Terminate, record
  <2>11. ASSUME NEW c \in Clients, Kill(c) PROVE TypeOK'
    <3>1. [mem[c] EXCEPT !.status = "stopped"] \in Records
      BY StoppedHolds
    <3>2. QED
      BY <2>11, <3>1 DEF Kill, Stores, record
  <2>12. CASE Answer \/ Exit
    BY <2>12 DEF Answer, Exit, record, locals
  <2>13. CASE UNCHANGED vars
    BY <2>13 DEF vars
  <2>14. QED
    BY <2>1, <2>2, <2>3, <2>4, <2>5, <2>6, <2>7, <2>8, <2>9, <2>10, <2>11, <2>12, <2>13
    DEF Next, Call, Continue
<1>3. QED
  BY <1>1, <1>2, PTL DEF Spec

\* What is true of a run stays true of it.
LEMMA EarnedStays ==
  ASSUME NEW r \in Records, TypeOK, Earned(r),
         out # "nothing" => out' = out, proc = "exited" => proc' = "exited"
  PROVE  /\ r.status = "completed" => out' \in Answers /\ (out' = "success" => r.linked)
         /\ r.status = "failed" => out' = "error" \/ proc' = "exited"
         /\ r.status = "stopped" => proc' = "exited"
BY DEF Earned, TypeOK, Outputs, Answers

\* No step takes an output back or brings a process to life again.
LEMMA RunGoesOn ==
  ASSUME TypeOK, [Next]_vars
  PROVE  /\ out # "nothing" => out' = out
         /\ proc = "exited" => proc' = "exited"
         /\ proc # "none" => proc' # "none"
<1> USE DEF TypeOK
<1>1. ASSUME NEW c \in Clients, Spawn(c)
      PROVE  proc = "none" /\ proc' = "running" /\ out' = out
  BY <1>1 DEF Spawn
<1>2. ASSUME NEW c \in Clients, Crash(c) \/ Restart(c) \/ CheckStatus(c) \/ Stop(c)
      PROVE  proc' = proc /\ out' = out
  BY <1>2 DEF Crash, Restart, CheckStatus, Check, Raise, Stop
<1>3. ASSUME NEW c \in Clients, Continue(c)
      PROVE  proc' \in {proc, "exited"} /\ out' = out
  BY <1>3 DEF Continue, Truncate, Fill, Parse, Correct, Known, Progress, Settle,
              Terminate, Kill
<1>4. CASE Answer
  BY <1>4 DEF Answer
<1>5. CASE Exit
  BY <1>5 DEF Exit
<1>6. CASE UNCHANGED vars
  BY <1>6 DEF vars
<1>7. QED
  BY <1>1, <1>2, <1>3, <1>4, <1>5, <1>6 DEF Next, Call

\* A client that does nothing keeps its invariant.
LEMMA Bystander ==
  ASSUME RunInv, [Next]_vars, NEW d \in Clients,
         pc'[d] = pc[d], mem'[d] = mem[d], got'[d] = got[d], last'[d] = last[d]
  PROVE  ClientInv(d)'
<1>1. TypeOK /\ ClientInv(d) /\ mem[d] \in Records
  BY DEF RunInv, TypeOK
<1>2. /\ out # "nothing" => out' = out
      /\ proc = "exited" => proc' = "exited"
      /\ proc # "none" => proc' # "none"
  BY <1>1, RunGoesOn
<1>3. Earned(mem[d])'
  BY <1>1, <1>2, EarnedStays DEF Earned, ClientInv
<1>4. QED
  BY <1>1, <1>2, <1>3 DEF ClientInv, Corrected, Busy

\* A client whose call ends holds nothing that could be wrong.
LEMMA CallEnds ==
  ASSUME TypeOK, NEW c \in Clients, NEW step \in {"idle", "dead"}, Ends(c, step)
  PROVE  ClientInv(c)'
BY DEF TypeOK, Ends, ClientInv, Earned, Corrected, Busy, NoRecord

\* Each step keeps the invariant of the client that takes it.
LEMMA ActorStep ==
  ASSUME RunInv, [Next]_vars, NEW c \in Clients,
         \/ Crash(c) \/ Restart(c) \/ Spawn(c) \/ CheckStatus(c) \/ Stop(c) \/ Continue(c)
  PROVE  ClientInv(c)'
<1> USE DEF TypeOK
<1>1. TypeOK /\ ClientInv(c) /\ mem[c] \in Records
  BY DEF RunInv
<1>2. /\ out # "nothing" => out' = out
      /\ proc = "exited" => proc' = "exited"
      /\ proc # "none" => proc' # "none"
  BY <1>1, RunGoesOn
<1>3. CASE Crash(c) \/ Restart(c) \/ Raise(c) \/ Known(c)
  BY <1>1, <1>3, CallEnds DEF Crash, Restart, Raise, Known
<1>4. CASE Spawn(c)
  BY <1>1, <1>4 DEF Spawn, Stores, ClientInv, Earned, Corrected, Busy, NoRecord
<1>5. CASE Check(c) \/ Stop(c)
  BY <1>1, <1>5 DEF Check, Stop, record, RunInv, RecordIsEarned, ClientInv, Earned, Corrected, Busy
<1>6. CASE Truncate(c)
  BY <1>1, <1>6 DEF Truncate, ClientInv, Earned, Corrected, Busy
<1>7. CASE Fill(c)
  <2>1. CASE last[c]
    BY <1>1, <1>7, <2>1, CallEnds DEF Fill
  <2>2. CASE ~last[c]
    BY <1>1, <1>7, <2>2 DEF Fill, ClientInv, Earned, Corrected, Busy
  <2>3. QED
    BY <2>1, <2>2
<1>8. CASE Parse(c)
  BY <1>1, <1>8 DEF Parse, record, ClientInv, Earned, Corrected, Busy
<1>9. CASE Correct(c)
  <2>1. /\ mem'[c].status = mem[c].status
        /\ mem'[c].linked
    BY <1>1, <1>9 DEF Correct, Stores, Records
  <2>2. QED
    BY <1>1, <1>9, <2>1 DEF Correct, Stores, record, ClientInv, Earned, Corrected, Busy
<1>10. CASE Progress(c)
  <2>1. mem'[c].status = "running"
    BY <1>1, <1>10 DEF Progress, Stores, Records
  <2>2. QED
    BY <1>1, <1>10, <2>1 DEF Progress, Stores, record, ClientInv, Earned, Corrected, Busy
<1>11. CASE Settle(c)
  <2>1. /\ mem'[c].status = IF got[c] \in Answers THEN "completed" ELSE "failed"
        /\ mem[c].linked => mem'[c].linked
    <3> DEFINE s == IF got[c] \in Answers THEN "completed" ELSE "failed"
    <3>1. PICK l \in {mem[c].linked, TRUE} : Stores(c, [status |-> s, linked |-> l], TRUE)
      BY <1>11 DEF Settle
    <3>2. mem'[c] = [status |-> s, linked |-> l]
      BY <1>1, <3>1 DEF Stores
    <3>3. mem[c].linked => l
      BY <1>1, LinkedIsBoolean
    <3>4. QED
      BY <3>2, <3>3
  <2>2. got[c] \in Answers => out = got[c] /\ (out = "success" => mem'[c].linked)
    BY <1>1, <1>11, <2>1 DEF Settle, ClientInv, Corrected, Answers
  <2>3. got[c] \notin Answers => out = "error" \/ proc = "exited"
    BY <1>1, <1>11 DEF Settle, Finished, ClientInv, Busy, Outputs, Answers
  <2>4. Earned(mem[c])'
    BY <1>11, <2>1, <2>2, <2>3 DEF Settle, record, Earned
  <2>5. QED
    BY <1>1, <1>11, <2>4 DEF Settle, Stores, record, ClientInv, Corrected, Busy
<1>12. CASE Terminate(c)
  BY <1>1, <1>12 DEF Terminate, record, ClientInv, Earned, Corrected, Busy
<1>13. CASE Kill(c)
  <2>1. mem'[c].status = "stopped"
    BY <1>1, <1>13 DEF Kill, Stores, Records
  <2>2. QED
    BY <1>1, <1>13, <2>1 DEF Kill, Stores, record, ClientInv, Earned, Corrected, Busy
<1>14. QED
  BY <1>3, <1>4, <1>5, <1>6, <1>7, <1>8, <1>9, <1>10, <1>11, <1>12, <1>13
  DEF CheckStatus, Continue

\* The other clients are not touched by a step.
LEMMA OthersKeep ==
  ASSUME TypeOK, NEW c \in Clients, NEW d \in Clients \ {c},
         \/ Crash(c) \/ Restart(c) \/ Spawn(c) \/ CheckStatus(c) \/ Stop(c) \/ Continue(c)
  PROVE  pc'[d] = pc[d] /\ mem'[d] = mem[d] /\ got'[d] = got[d] /\ last'[d] = last[d]
<1> USE DEF TypeOK
<1>1. CASE Crash(c) \/ Restart(c) \/ Raise(c) \/ Known(c)
  BY <1>1 DEF Crash, Restart, Raise, Known, Ends
<1>2. CASE Spawn(c) \/ Correct(c) \/ Kill(c)
  BY <1>2 DEF Spawn, Correct, Kill, Stores
<1>3. CASE Progress(c) \/ Settle(c)
  BY <1>3 DEF Progress, Settle, Stores
<1>4. CASE Check(c) \/ Stop(c) \/ Parse(c) \/ Terminate(c) \/ Truncate(c)
  BY <1>4 DEF Check, Stop, Parse, Terminate, Truncate
<1>5. CASE Fill(c)
  BY <1>5 DEF Fill, Ends
<1>6. QED
  BY <1>1, <1>2, <1>3, <1>4, <1>5 DEF CheckStatus, Continue

\* The file says only what is so: what is written to it was earned by its writer.
LEMMA FileStep == RunInv /\ [Next]_vars => RecordIsEarned'
<1> SUFFICES ASSUME RunInv, [Next]_vars PROVE RecordIsEarned'
  OBVIOUS
<1>1. TypeOK /\ meta \in Records
  BY DEF RunInv, TypeOK
<1>2. /\ out # "nothing" => out' = out
      /\ proc = "exited" => proc' = "exited"
  BY <1>1, RunGoesOn
<1>3. ASSUME UNCHANGED record PROVE RecordIsEarned'
  BY <1>1, <1>2, <1>3, EarnedStays DEF record, RunInv, RecordIsEarned, Earned
<1>4. ASSUME NEW c \in Clients, Truncate(c) PROVE RecordIsEarned'
  BY <1>4 DEF Truncate, RecordIsEarned
<1>5. ASSUME NEW c \in Clients, Fill(c) PROVE RecordIsEarned'
  BY <1>5 DEF Fill, RunInv, ClientInv, RecordIsEarned, Earned
<1>6. ASSUME NEW c \in Clients,
             Crash(c) \/ Restart(c) \/ Spawn(c) \/ CheckStatus(c) \/ Stop(c)
      PROVE  UNCHANGED record
  BY <1>6 DEF Crash, Restart, Spawn, CheckStatus, Check, Raise, Stop
<1>7. ASSUME NEW c \in Clients, Continue(c), ~Truncate(c), ~Fill(c)
      PROVE  UNCHANGED record
  BY <1>7 DEF Continue, Parse, Correct, Known, Progress, Settle, Terminate, Kill
<1>8. CASE Answer \/ Exit \/ UNCHANGED vars
  BY <1>3, <1>8 DEF Answer, Exit, vars, record
<1>9. QED
  BY <1>3, <1>4, <1>5, <1>6, <1>7, <1>8 DEF Next, Call

\* The run id is known only of a run that was started.
LEMMA SharedStep == RunInv /\ [Next]_vars => (shared => proc # "none")'
<1> SUFFICES ASSUME RunInv, [Next]_vars PROVE (shared => proc # "none")'
  OBVIOUS
<1>1. TypeOK /\ (proc # "none" => proc' # "none")
  BY RunGoesOn DEF RunInv
<1>2. ASSUME NEW c \in Clients, Fill(c) PROVE proc # "none"
  BY <1>2 DEF Fill, RunInv, ClientInv, Busy
<1>3. ASSUME NEW c \in Clients,
             Crash(c) \/ Restart(c) \/ Spawn(c) \/ CheckStatus(c) \/ Stop(c)
      PROVE  shared' = shared
  BY <1>3 DEF Crash, Restart, Spawn, CheckStatus, Check, Raise, Stop, record
<1>4. ASSUME NEW c \in Clients, Continue(c), ~Fill(c) PROVE shared' = shared
  BY <1>4 DEF Continue, Truncate, Parse, Correct, Known, Progress, Settle, Terminate, Kill,
              record
<1>5. ASSUME Answer \/ Exit \/ UNCHANGED vars PROVE shared' = shared
  BY <1>5 DEF Answer, Exit, vars, record
<1>6. QED
  BY <1>1, <1>2, <1>3, <1>4, <1>5 DEF Next, Call, RunInv

\* The inductive invariant: the clients hold nothing but the truth of the run.
LEMMA RunStep == RunInv /\ TypeOK' /\ [Next]_vars => RunInv'
<1> SUFFICES ASSUME RunInv, TypeOK', [Next]_vars PROVE RunInv'
  OBVIOUS
<1>1. ASSUME NEW d \in Clients PROVE ClientInv(d)'
  <2>1. ASSUME NEW c \in Clients,
               Crash(c) \/ Restart(c) \/ Spawn(c) \/ CheckStatus(c) \/ Stop(c) \/ Continue(c)
        PROVE  ClientInv(d)'
    <3>1. CASE c = d
      BY <2>1, <3>1, ActorStep
    <3>2. CASE c # d
      BY <2>1, <3>2, OthersKeep, Bystander DEF RunInv
    <3>3. QED
      BY <3>1, <3>2
  <2>2. CASE Answer \/ Exit \/ UNCHANGED vars
    BY <2>2, Bystander DEF Answer, Exit, vars, locals
  <2>3. QED
    BY <2>1, <2>2 DEF Next, Call
<1>2. QED
  BY <1>1, FileStep, SharedStep DEF RunInv

\* Whatever polls and stops race to write it, the metadata file never says of a run
\* what is not so: the record of a completed run is backed by agy's SUCCESS, that of a
\* failed one by an error or its end, and a stopped run has ended (check_status, stop).
THEOREM RecordsAreEarned == Spec => []RecordIsEarned
<1>1. Init => RunInv
  <2>1. Init => TypeOK
    BY NoRecordHolds DEF Init, TypeOK, Outputs, Answers, Steps, Files
  <2>2. QED
    BY <2>1 DEF Init, RunInv, RecordIsEarned, ClientInv, Earned, Corrected, Busy, NoRecord
<1>2. TypeOK' /\ RunInv /\ [Next]_vars => RunInv'
  BY RunStep
<1>3. Spec => []TypeOK
  BY TypeCorrect
<1>4. RunInv => RecordIsEarned
  BY DEF RunInv
<1>5. QED
  BY <1>1, <1>2, <1>3, <1>4, PTL DEF Spec

=============================================================================
