--------------------------- MODULE SupervisionProofs ---------------------------
(***************************************************************************)
(* What holds of the supervision core for any number of processes,         *)
(* sessions, tasks and runs.  Each section proves one invariant from those *)
(* before it: types, the lock, the ticket file, the flight of a spawn, and *)
(* then the board's promises.                                              *)
(***************************************************************************)
EXTENDS Supervision, TLAPS

-----------------------------------------------------------------------------
(* Types. *)

LEMMA TypeStep == TypeOK /\ [Next]_vars => TypeOK'
<1> SUFFICES ASSUME TypeOK, [Next]_vars PROVE TypeOK'
  OBVIOUS
<1> USE DEF TypeOK
<1>1. ASSUME NEW p \in Procs, Start(p) PROVE TypeOK'
  BY <1>1 DEF Start, board, files, native, Steps, Spawning
<1>2. ASSUME NEW p \in Procs, Crash(p) PROVE TypeOK'
  BY <1>2 DEF Crash, board, files, native, Steps, Spawning, Calls, NoCall
<1>3. ASSUME NEW p \in Procs, NEW t \in Tasks, NEW m \in Modes, Claim(p, t, m) PROVE TypeOK'
  BY <1>3, SessionOfAssumption DEF Claim, files, native, locals
<1>4. ASSUME NEW p \in Procs, NEW t \in Tasks, NEW s \in UpdateStatuses, Update(p, t, s)
      PROVE TypeOK'
  BY <1>4, StatusAssumption DEF Update, files, native, locals
<1>5. ASSUME NEW p \in Procs, NEW r \in Runs, Stop(p, r) PROVE TypeOK'
  BY <1>5 DEF Stop, board, files, locals
<1>6. ASSUME NEW p \in Procs, NEW r \in Runs, LeaveLoop(p, r) PROVE TypeOK'
  BY <1>6 DEF LeaveLoop, board, files, locals, native
<1>7. ASSUME NEW p \in Procs, NEW c \in SpawnRequests, Admit(p, c) PROVE TypeOK'
  BY <1>7, RequestAssumption DEF Admit, board, files, native, Steps, Spawning, LiveTickets
<1>8. ASSUME NEW p \in Procs, TakeTicket(p) PROVE TypeOK'
  BY <1>8 DEF TakeTicket, board, native, Steps, Spawning
<1>9. ASSUME NEW p \in Procs, NEW r \in Runs, Launch(p, r) PROVE TypeOK'
  BY <1>9 DEF Launch, Born, board, files, Steps, Spawning, Origins, Calls
<1>10. ASSUME NEW p \in Procs, LaunchFails(p) PROVE TypeOK'
  <2>1. CASE UNCHANGED native
    BY <1>10, <2>1 DEF LaunchFails, native, board, files, Steps, Spawning
  <2>2. ASSUME NEW r \in Runs, Born(p, r), cut' = cut \cup {r}, UNCHANGED resumed
        PROVE TypeOK'
    BY <1>10, <2>2 DEF LaunchFails, Born, board, files, Steps, Spawning, Origins, Calls
  <2> QED
    BY <1>10, <2>1, <2>2 DEF LaunchFails
<1>11. ASSUME NEW r \in Runs, Resume(r) PROVE TypeOK'
  BY <1>11, MeddlingAssumption DEF Resume, files, locals
<1>12. ASSUME NEW p \in Procs, Relock(p) PROVE TypeOK'
  BY <1>12 DEF Relock, board, files, native, Steps, Spawning, LiveTickets
<1>13. ASSUME NEW p \in Procs, DropTicket(p) PROVE TypeOK'
  BY <1>13 DEF DropTicket, board, native, Steps, Spawning
<1>14. ASSUME NEW p \in Procs, Attach(p) PROVE TypeOK'
  <2> DEFINE t == call[p].task
  <2>1. runs' \in [Tasks -> SUBSET Runs] /\ idle' \in [Tasks -> BOOLEAN]
    <3>1. CASE t = None \/ spawned[p] = None
      BY <1>14, <3>1 DEF Attach
    <3>2. CASE ~(t = None \/ spawned[p] = None)
      <4>1. t \in Tasks /\ spawned[p] \in Runs
        BY <3>2 DEF Calls
      <4>2. runs' = [runs EXCEPT ![t] = @ \cup {spawned[p]}] /\ idle' = [idle EXCEPT ![t] = FALSE]
        BY <1>14, <3>2 DEF Attach
      <4> QED
        BY <4>1, <4>2
    <3> QED
      BY <3>1, <3>2
  <2>2. looped' \subseteq Runs
    BY <1>14 DEF Attach
  <2> QED
    BY <1>14, <2>1, <2>2 DEF Attach, files, native, Steps, Spawning, Calls, NoCall
<1>15. ASSUME NEW t \in Tasks, GrowIdle(t) PROVE TypeOK'
  BY <1>15 DEF GrowIdle, files, native, locals
<1>16. ASSUME NEW p \in Procs, AgeTicket(p) PROVE TypeOK'
  BY <1>16 DEF AgeTicket, board, native, locals, LiveTickets
<1>17. ASSUME NEW r \in Runs, Settle(r) PROVE TypeOK'
  BY <1>17 DEF Settle, board, files, locals
<1>18. ASSUME NEW r \in Runs, Forget(r) PROVE TypeOK'
  BY <1>18 DEF Forget, board, files, locals
<1>19. ASSUME Dashboard PROVE TypeOK'
  <2>1. PICK chosen \in SUBSET Tasks, s \in UpdateStatuses \cup {"cancelled"} : Overwrite(chosen, s)
    BY <1>19 DEF Dashboard
  <2>2. UNCHANGED <<runs, cut>>
    BY <1>19 DEF Dashboard
  <2> QED
    BY <2>1, <2>2, StatusAssumption, MeddlingAssumption DEF Overwrite, files, locals
<1>20. ASSUME NEW t \in Tasks, NEW read \in SUBSET runs[t], Archive(t, read) PROVE TypeOK'
  BY <1>20, MeddlingAssumption DEF Archive, Overwrite, Final, files, locals
<1>21. CASE UNCHANGED vars
  BY <1>21 DEF vars
<1> QED
  BY <1>1, <1>2, <1>3, <1>4, <1>5, <1>6, <1>7, <1>8, <1>9, <1>10, <1>11, <1>12, <1>13,
     <1>14, <1>15, <1>16, <1>17, <1>18, <1>19, <1>20, <1>21
  DEF Next, Request, Continue, Spawn, Environment, Outside

\* The lock, the ticket file, the board's rows, the requests under way and the native
\* roster keep the shapes the code gives them: among others, only an id that
\* `claude --bg` printed is ever attached (Board.attach behind `if run_id`).
THEOREM TypeCorrect == Spec => []TypeOK
<1>1. Init => TypeOK
  BY NoneAssumption, MeddlingAssumption DEF Init, TypeOK, Modes, Steps, Spawning, Calls, NoCall, Origins
<1> QED
  BY <1>1, TypeStep, PTL DEF Spec

-----------------------------------------------------------------------------
(* The operations lock. *)

LEMMA LockStep == TypeOK /\ LockDiscipline /\ [Next]_vars => LockDiscipline'
<1> SUFFICES ASSUME TypeOK, LockDiscipline, [Next]_vars PROVE LockDiscipline'
  OBVIOUS
<1> USE NoneAssumption DEF TypeOK, LockDiscipline, Critical, Steps, Spawning
<1>1. ASSUME NEW p \in Procs, Start(p) PROVE LockDiscipline'
  BY <1>1 DEF Start, Alive
<1>2. ASSUME NEW p \in Procs, Crash(p) PROVE LockDiscipline'
  BY <1>2 DEF Crash, Alive, NoCall
<1>3. ASSUME NEW p \in Procs, NEW t \in Tasks, NEW m \in Modes, Claim(p, t, m) PROVE LockDiscipline'
  BY <1>3 DEF Claim, Serving, locals
<1>4. ASSUME NEW p \in Procs, NEW t \in Tasks, NEW s \in UpdateStatuses, Update(p, t, s) PROVE LockDiscipline'
  BY <1>4 DEF Update, Serving, locals
<1>5. ASSUME NEW p \in Procs, NEW r \in Runs, Stop(p, r) PROVE LockDiscipline'
  BY <1>5 DEF Stop, locals
<1>6. ASSUME NEW p \in Procs, NEW r \in Runs, LeaveLoop(p, r) PROVE LockDiscipline'
  BY <1>6 DEF LeaveLoop, locals
<1>7. ASSUME NEW p \in Procs, NEW c \in SpawnRequests, Admit(p, c) PROVE LockDiscipline'
  BY <1>7 DEF Admit, Serving
<1>8. ASSUME NEW p \in Procs, TakeTicket(p) PROVE LockDiscipline'
  BY <1>8 DEF TakeTicket
<1>9. ASSUME NEW p \in Procs, NEW r \in Runs, Launch(p, r) PROVE LockDiscipline'
  BY <1>9 DEF Launch
<1>10. ASSUME NEW p \in Procs, LaunchFails(p) PROVE LockDiscipline'
  BY <1>10 DEF LaunchFails
<1>11. ASSUME NEW r \in Runs, Resume(r) PROVE LockDiscipline'
  BY <1>11 DEF Resume, files, locals
<1>12. ASSUME NEW p \in Procs, Relock(p) PROVE LockDiscipline'
  BY <1>12 DEF Relock
<1>13. ASSUME NEW p \in Procs, DropTicket(p) PROVE LockDiscipline'
  BY <1>13 DEF DropTicket
<1>14. ASSUME NEW p \in Procs, Attach(p) PROVE LockDiscipline'
  BY <1>14 DEF Attach, NoCall
<1>15. ASSUME NEW t \in Tasks, GrowIdle(t) PROVE LockDiscipline'
  BY <1>15 DEF GrowIdle, locals
<1>16. ASSUME NEW p \in Procs, AgeTicket(p) PROVE LockDiscipline'
  BY <1>16 DEF AgeTicket, locals
<1>17. ASSUME NEW r \in Runs, Settle(r) PROVE LockDiscipline'
  BY <1>17 DEF Settle, locals
<1>18. ASSUME NEW r \in Runs, Forget(r) PROVE LockDiscipline'
  BY <1>18 DEF Forget, locals
<1>19. ASSUME Dashboard PROVE LockDiscipline'
  BY <1>19, StatusAssumption DEF Dashboard, Overwrite, Open, Final, files, locals
<1>20. ASSUME NEW t \in Tasks, NEW read \in SUBSET runs[t], Archive(t, read) PROVE LockDiscipline'
  BY <1>20 DEF Archive, Overwrite, Final, files, locals
<1>21. CASE UNCHANGED vars
  BY <1>21 DEF vars
<1> QED
  BY <1>1, <1>2, <1>3, <1>4, <1>5, <1>6, <1>7, <1>8, <1>9, <1>10, <1>11, <1>12, <1>13,
     <1>14, <1>15, <1>16, <1>17, <1>18, <1>19, <1>20, <1>21
  DEF Next, Request, Continue, Spawn, Environment, Outside

\* Whoever is between flock and unlock holds the operations lock, and it is held by
\* nobody else: never by a process that has returned or died (locked, unlocked).
THEOREM LockIsExclusive == Spec => []LockDiscipline
<1>1. Init => LockDiscipline
  BY DEF Init, LockDiscipline, Critical, Spawning
<1> QED
  BY <1>1, LockStep, TypeCorrect, PTL DEF Spec

-----------------------------------------------------------------------------
(* The ticket file. *)

\* What a process holds in memory between its read and its write of the file is as
\* good as the file: it lists every launch, and only spawns and dead processes.
SeenIsCurrent ==
  \A p \in Procs : pc[p] \in {"ticketing", "dropping"} =>
    \A q \in Procs :
      /\ pc[q] = "launching" => q \in seen[p]
      /\ q \in seen[p] => pc[q] \in Ticketed \cup {"dead"}

TicketInv == TicketsCoverLaunches /\ SeenIsCurrent

LEMMA TicketStep == TypeOK /\ LockDiscipline /\ TicketInv /\ [Next]_vars => TicketInv'
<1> SUFFICES ASSUME TypeOK, LockDiscipline, TicketInv, [Next]_vars PROVE TicketInv'
  OBVIOUS
<1> USE NoneAssumption
    DEF TypeOK, LockDiscipline, Critical, Steps, Spawning, TicketInv,
        TicketsCoverLaunches, SeenIsCurrent, LiveTickets, Ticketed
<1>1. ASSUME NEW p \in Procs, Start(p) PROVE TicketInv'
  BY <1>1 DEF Start, Alive, files
<1>2. ASSUME NEW p \in Procs, Crash(p) PROVE TicketInv'
  BY <1>2 DEF Crash, Alive, files
<1>3. ASSUME NEW p \in Procs, NEW t \in Tasks, NEW m \in Modes, Claim(p, t, m) PROVE TicketInv'
  BY <1>3 DEF Claim, Serving, locals, files
<1>4. ASSUME NEW p \in Procs, NEW t \in Tasks, NEW s \in UpdateStatuses, Update(p, t, s) PROVE TicketInv'
  BY <1>4 DEF Update, Serving, locals, files
<1>5. ASSUME NEW p \in Procs, NEW r \in Runs, Stop(p, r) PROVE TicketInv'
  BY <1>5 DEF Stop, locals, files
<1>6. ASSUME NEW p \in Procs, NEW r \in Runs, LeaveLoop(p, r) PROVE TicketInv'
  BY <1>6 DEF LeaveLoop, locals, files
<1>7. ASSUME NEW p \in Procs, NEW c \in SpawnRequests, Admit(p, c) PROVE TicketInv'
  BY <1>7 DEF Admit, Serving, files
<1>8. ASSUME NEW p \in Procs, TakeTicket(p) PROVE TicketInv'
  BY <1>8 DEF TakeTicket
<1>9. ASSUME NEW p \in Procs, NEW r \in Runs, Launch(p, r) PROVE TicketInv'
  BY <1>9 DEF Launch, files
<1>10. ASSUME NEW p \in Procs, LaunchFails(p) PROVE TicketInv'
  BY <1>10 DEF LaunchFails, files
<1>11. ASSUME NEW r \in Runs, Resume(r) PROVE TicketInv'
  BY <1>11 DEF Resume, files, locals
<1>12. ASSUME NEW p \in Procs, Relock(p) PROVE TicketInv'
  BY <1>12 DEF Relock, files
<1>13. ASSUME NEW p \in Procs, DropTicket(p) PROVE TicketInv'
  BY <1>13 DEF DropTicket
<1>14. ASSUME NEW p \in Procs, Attach(p) PROVE TicketInv'
  BY <1>14 DEF Attach, files
<1>15. ASSUME NEW t \in Tasks, GrowIdle(t) PROVE TicketInv'
  BY <1>15 DEF GrowIdle, locals, files
<1>16. ASSUME NEW p \in Procs, AgeTicket(p) PROVE TicketInv'
  BY <1>16 DEF AgeTicket, locals
<1>17. ASSUME NEW r \in Runs, Settle(r) PROVE TicketInv'
  BY <1>17 DEF Settle, locals, files
<1>18. ASSUME NEW r \in Runs, Forget(r) PROVE TicketInv'
  BY <1>18 DEF Forget, locals, files
<1>19. ASSUME Dashboard PROVE TicketInv'
  BY <1>19, StatusAssumption DEF Dashboard, Overwrite, Open, Final, files, locals
<1>20. ASSUME NEW t \in Tasks, NEW read \in SUBSET runs[t], Archive(t, read) PROVE TicketInv'
  BY <1>20 DEF Archive, Overwrite, Final, files, locals
<1>21. CASE UNCHANGED vars
  BY <1>21 DEF vars
<1> QED
  BY <1>1, <1>2, <1>3, <1>4, <1>5, <1>6, <1>7, <1>8, <1>9, <1>10, <1>11, <1>12, <1>13,
     <1>14, <1>15, <1>16, <1>17, <1>18, <1>19, <1>20, <1>21
  DEF Next, Request, Continue, Spawn, Environment, Outside

\* While `claude --bg` runs its spawn has a ticket that counts, and only spawns and
\* dead processes have one, although the whole file is rewritten each time
\* (take_ticket, drop_ticket): the writers are serialized by the lock.
THEOREM TicketsAreKept == Spec => []TicketsCoverLaunches
<1>1. Init => TicketInv
  BY DEF Init, TicketInv, TicketsCoverLaunches, SeenIsCurrent
<1>2. TicketInv => TicketsCoverLaunches
  BY DEF TicketInv
<1> QED
  BY <1>1, <1>2, TicketStep, TypeCorrect, LockIsExclusive, PTL DEF Spec

-----------------------------------------------------------------------------
(* The flight of a spawn. *)

\* A session has one live server (Start's guard, kept by every step).
OneServer ==
  \A p, q \in Procs : Alive(p) /\ Alive(q) /\ SessionOf[p] = SessionOf[q] => p = q

\* A key without a row has no owner and no runs.
FreeRows == \A t \in Tasks : status[t] = "free" => owner[t] = None /\ runs[t] = {}

\* The reservation of a spawn in flight belongs to the process's session.
FlightOwner ==
  \A p \in Procs : InFlight(p) /\ call[p].task # None =>
    status[call[p].task] # "free" /\ owner[call[p].task] = SessionOf[p]

\* A launched id waiting to be attached is the run launched for this very request,
\* and no row lists it yet.
FlightRun ==
  \A p \in Procs :
    spawned[p] # None =>
         /\ pc[p] \in {"relocking", "dropping", "attaching"}
         /\ agent[spawned[p]] # "absent"
         /\ origin[spawned[p]].by = p
         /\ origin[spawned[p]].task = call[p].task
         /\ origin[spawned[p]].writes = call[p].writes
         /\ spawned[p] \notin looped
         /\ \A t \in Tasks : spawned[p] \notin runs[t]

\* What a writing spawn was admitted on stays true until it attaches its run, but for
\* the settled children that a message wakes meanwhile.
NoRival ==
  \A p \in Procs : InFlight(p) /\ call[p].task # None /\ call[p].writes =>
    \A r \in runs[call[p].task] : agent[r] = "live" => r \in resumed

\* Of what was launched for a reservation, each is in its row, on its way there in the
\* hands of a server, or cut off.
Accounted ==
  \A r \in Runs : agent[r] # "absent" /\ origin[r].task # None =>
    r \in cut \/ r \in runs[origin[r].task] \/ \E p \in Procs : spawned[p] = r

\* The part of OneLiveWriter that a row shows.
AttachedWriters ==
  \A t \in Tasks : \A r1, r2 \in runs[t] \ resumed :
    (/\ agent[r1] = "live" /\ agent[r2] = "live"
     /\ origin[r1].writes /\ origin[r2].writes) => r1 = r2

\* Attached runs and the current runs of loops have started.
Started ==
  /\ \A t \in Tasks : \A r \in runs[t] : agent[r] # "absent"
  /\ \A r \in looped : agent[r] # "absent"

Flight ==
  OneServer /\ FreeRows /\ FlightOwner /\ FlightRun /\ NoRival /\ Started
    /\ Accounted /\ RunsAnswerToLauncher /\ AttachedWriters

LEMMA FlightStep == TypeOK /\ Flight /\ [Next]_vars => Flight'
<1> SUFFICES ASSUME TypeOK, Flight, [Next]_vars PROVE Flight'
  OBVIOUS
<1> USE NoneAssumption, SessionOfAssumption
    DEF TypeOK, Flight, OneServer, FreeRows, FlightOwner, FlightRun, NoRival,
        Started, Accounted, RunsAnswerToLauncher, AttachedWriters, InFlight, Alive, Steps, Spawning,
        Calls, Origins
<1>1. ASSUME NEW p \in Procs, Start(p) PROVE Flight'
  BY <1>1 DEF Start, board, native
<1>2. ASSUME NEW p \in Procs, Crash(p) PROVE Flight'
  <2>1. Accounted'
    <3>1. ASSUME NEW r \in Runs, NEW q \in Procs, spawned[q] = r
          PROVE  r \in cut' \/ spawned'[q] = r
      BY <1>2, <3>1 DEF Crash
    <3>2. UNCHANGED <<agent, origin, runs>> /\ cut \subseteq cut'
      BY <1>2 DEF Crash, board
    <3> QED
      BY <3>1, <3>2
  <2>2. OneServer' /\ FreeRows' /\ FlightOwner'
    BY <1>2 DEF Crash, board, NoCall
  <2>4. FlightRun'
    <3>1. ASSUME NEW q \in Procs, q # p
          PROVE  spawned'[q] = spawned[q] /\ pc'[q] = pc[q] /\ call'[q] = call[q]
      BY <1>2, <3>1 DEF Crash
    <3>2. spawned'[p] = None /\ UNCHANGED <<agent, origin, runs, looped>>
      BY <1>2 DEF Crash, board
    <3> QED
      BY <3>1, <3>2
  <2>3. NoRival' /\ Started' /\ RunsAnswerToLauncher' /\ AttachedWriters'
    BY <1>2 DEF Crash, board, NoCall
  <2> QED
    BY <2>1, <2>2, <2>3, <2>4
<1>3. ASSUME NEW p \in Procs, NEW t \in Tasks, NEW m \in Modes, Claim(p, t, m) PROVE Flight'
  BY <1>3 DEF Claim, Serving, locals, native
<1>4. ASSUME NEW p \in Procs, NEW t \in Tasks, NEW s \in UpdateStatuses, Update(p, t, s) PROVE Flight'
  BY <1>4, StatusAssumption DEF Update, Serving, locals, native, Final
<1>5. ASSUME NEW p \in Procs, NEW r \in Runs, Stop(p, r) PROVE Flight'
  BY <1>5 DEF Stop, locals, board
<1>6. ASSUME NEW p \in Procs, NEW r \in Runs, LeaveLoop(p, r) PROVE Flight'
  BY <1>6 DEF LeaveLoop, locals, board, native
<1>7. ASSUME NEW p \in Procs, NEW c \in SpawnRequests, Admit(p, c) PROVE Flight'
  BY <1>7, RequestAssumption DEF Admit, Serving, board, native, NoLiveChild
<1>8. ASSUME NEW p \in Procs, TakeTicket(p) PROVE Flight'
  BY <1>8 DEF TakeTicket, board, native
<1>9. ASSUME NEW p \in Procs, NEW r \in Runs, Launch(p, r) PROVE Flight'
  <2>1. spawned[p] = None /\ agent[r] = "absent"
    BY <1>9 DEF Launch, Born
  <2>2. /\ UNCHANGED <<board, call, resumed, cut, looped>>
        /\ agent' = [agent EXCEPT ![r] = "live"]
        /\ origin' = [origin EXCEPT ![r] = [by |-> p, task |-> call[p].task, writes |-> call[p].writes]]
        /\ spawned' = [spawned EXCEPT ![p] = r]
        /\ pc[p] = "launching" /\ pc' = [pc EXCEPT ![p] = "relocking"]
    BY <1>9 DEF Launch, Born
  <2> USE DEF board
  <2>3. Accounted'
    <3>1. ASSUME NEW q \in Runs, NEW o \in Procs, q # r, spawned[o] = q PROVE spawned'[o] = q
      BY <2>1, <2>2, <3>1
    <3>2. spawned'[p] = r
      BY <2>2
    <3> QED
      BY <2>2, <3>1, <3>2
  <2>4. OneServer' /\ FreeRows' /\ FlightOwner'
    BY <2>2
  <2>5. FlightRun'
    BY <2>1, <2>2
  <2>6. NoRival' /\ Started' /\ RunsAnswerToLauncher' /\ AttachedWriters'
    BY <2>1, <2>2
  <2> QED
    BY <2>3, <2>4, <2>5, <2>6
<1>10. ASSUME NEW p \in Procs, LaunchFails(p) PROVE Flight'
  <2>1. CASE UNCHANGED native
    BY <1>10, <2>1 DEF LaunchFails, board, native
  <2>2. ASSUME NEW r \in Runs, Born(p, r), cut' = cut \cup {r}, UNCHANGED resumed
        PROVE Flight'
    BY <1>10, <2>2 DEF LaunchFails, Born, board
  <2> QED
    BY <1>10, <2>1, <2>2 DEF LaunchFails
<1>11. ASSUME NEW r \in Runs, Resume(r) PROVE Flight'
  BY <1>11 DEF Resume, files, locals
<1>12. ASSUME NEW p \in Procs, Relock(p) PROVE Flight'
  BY <1>12 DEF Relock, board, native
<1>13. ASSUME NEW p \in Procs, DropTicket(p) PROVE Flight'
  BY <1>13 DEF DropTicket, board, native
<1>14. ASSUME NEW p \in Procs, Attach(p) PROVE Flight'
  <2> DEFINE t == call[p].task
             r == spawned[p]
  <2>1. /\ status' = status /\ owner' = owner /\ agent' = agent /\ origin' = origin
        /\ resumed' = resumed /\ cut' = cut
        /\ pc' = [pc EXCEPT ![p] = "ready"]
        /\ call' = [call EXCEPT ![p] = NoCall]
        /\ spawned' = [spawned EXCEPT ![p] = None]
        /\ pc[p] = "attaching"
    BY <1>14 DEF Attach, native
  <2>2. CASE t = None \/ r = None
    <3>1. runs' = runs /\ looped' \subseteq looped
      BY <1>14, <2>2 DEF Attach
    <3>2. OneServer' /\ FreeRows' /\ FlightOwner'
      BY <2>1, <3>1 DEF NoCall
    <3>3. FlightRun'
      <4>1. ASSUME NEW q \in Procs, q # p
            PROVE  spawned'[q] = spawned[q] /\ pc'[q] = pc[q] /\ call'[q] = call[q]
        BY <2>1, <4>1
      <4>2. spawned'[p] = None
        BY <2>1
      <4> QED
        BY <2>1, <3>1, <4>1, <4>2
    <3>4. NoRival' /\ Started' /\ RunsAnswerToLauncher' /\ AttachedWriters'
      BY <2>1, <3>1 DEF NoCall
    <3>5. Accounted'
      <4>1. ASSUME NEW q \in Runs, spawned[p] = q PROVE origin[q].task = None
        BY <2>2, <4>1
      <4>2. ASSUME NEW o \in Procs, o # p PROVE spawned'[o] = spawned[o]
        BY <2>1, <4>2
      <4> QED
        BY <2>1, <3>1, <4>1, <4>2
    <3> QED
      BY <3>2, <3>3, <3>4, <3>5
  <2>3. CASE t # None /\ r # None
    <3>1. t \in Tasks /\ r \in Runs
      BY <2>3
    <3>2. runs' = [runs EXCEPT ![t] = @ \cup {r}] /\ looped' \subseteq looped \cup {r}
      BY <1>14, <2>3 DEF Attach
    <3>3. ASSUME NEW q \in Procs, q # p, InFlight(q), call[q].task # None
          PROVE  call[q].task # t
      <4>1. Alive(p) /\ InFlight(p) /\ Alive(q)
        BY <2>1, <3>3
      <4>2. SessionOf[p] # SessionOf[q]
        BY <3>3, <4>1
      <4> QED
        BY <2>3, <3>3, <4>1, <4>2
    <3>4. ASSUME NEW q \in Procs, q # p, spawned[q] # None PROVE spawned[q] # r
      BY <2>3, <3>4
    <3>5. OneServer' /\ FreeRows' /\ FlightOwner'
      BY <2>1, <3>1, <3>2 DEF NoCall
    <3>6. FlightRun'
      <4>1. ASSUME NEW q \in Procs, q # p
            PROVE  spawned'[q] = spawned[q] /\ pc'[q] = pc[q] /\ call'[q] = call[q]
        BY <2>1, <4>1
      <4>2. spawned'[p] = None
        BY <2>1
      <4> QED
        BY <2>1, <3>1, <3>2, <3>4, <4>1, <4>2
    <3>7. NoRival'
      BY <2>1, <3>1, <3>2, <3>3 DEF NoCall
    <3>8. Started' /\ RunsAnswerToLauncher'
      BY <2>1, <2>3, <3>1, <3>2
    <3>9. AttachedWriters'
      BY <2>1, <2>3, <3>1, <3>2
    <3>10. Accounted'
      <4>1. origin[r].task = t /\ r \in runs'[t]
        BY <2>3, <3>1, <3>2
      <4>2. ASSUME NEW o \in Procs, o # p PROVE spawned'[o] = spawned[o]
        BY <2>1, <4>2
      <4>3. \A u \in Tasks : runs[u] \subseteq runs'[u]
        BY <3>1, <3>2
      <4> QED
        BY <2>1, <4>1, <4>2, <4>3
    <3> QED
      BY <3>5, <3>6, <3>7, <3>8, <3>9, <3>10
  <2> QED
    BY <2>2, <2>3
<1>15. ASSUME NEW t \in Tasks, GrowIdle(t) PROVE Flight'
  BY <1>15 DEF GrowIdle, locals, native
<1>16. ASSUME NEW p \in Procs, AgeTicket(p) PROVE Flight'
  BY <1>16 DEF AgeTicket, locals, board, native
<1>17. ASSUME NEW r \in Runs, Settle(r) PROVE Flight'
  BY <1>17 DEF Settle, locals, board
<1>18. ASSUME NEW r \in Runs, Forget(r) PROVE Flight'
  BY <1>18 DEF Forget, locals, board
<1>19. ASSUME Dashboard PROVE Flight'
  BY <1>19, StatusAssumption DEF Dashboard, Overwrite, Open, Final, files, locals
<1>20. ASSUME NEW t \in Tasks, NEW read \in SUBSET runs[t], Archive(t, read) PROVE Flight'
  BY <1>20 DEF Archive, Overwrite, Final, files, locals
<1>21. CASE UNCHANGED vars
  BY <1>21 DEF vars
<1> QED
  BY <1>1, <1>2, <1>3, <1>4, <1>5, <1>6, <1>7, <1>8, <1>9, <1>10, <1>11, <1>12, <1>13,
     <1>14, <1>15, <1>16, <1>17, <1>18, <1>19, <1>20, <1>21
  DEF Next, Request, Continue, Spawn, Environment, Outside

\* Whoever else touches the board, the dashboard and the archive script included, the
\* reservation of a spawn in flight is its session's, its run is new, no child starts
\* work beside it except by a message, and every agent launched for a reservation is
\* in its row, in a server's hands or cut off.
THEOREM FlightHolds == Spec => []Flight
<1>1. Init => Flight
  BY DEF Init, Flight, OneServer, FreeRows, FlightOwner, FlightRun, NoRival, Started,
     Accounted, RunsAnswerToLauncher, AttachedWriters, InFlight, Alive, Spawning
<1> QED
  BY <1>1, FlightStep, TypeCorrect, PTL DEF Spec

\* Two writers launched for one reservation are never live together, attached or not
\* yet, however many servers, restarts, failed launches, takeovers and writes without
\* the lock there are, unless one was cut off or came back by a message (spawn's
\* roster check).
THEOREM WritersAreSerialized == Spec => []OneLiveWriter
<1>1. TypeOK /\ Flight => OneLiveWriter
  <2> SUFFICES ASSUME TypeOK, Flight, NEW t \in Tasks,
                      NEW r1 \in Children(t) \ resumed, NEW r2 \in Children(t) \ resumed,
                      agent[r1] = "live", agent[r2] = "live",
                      origin[r1].writes, origin[r2].writes
               PROVE  r1 = r2
    BY DEF OneLiveWriter
  <2> USE NoneAssumption DEF TypeOK, Flight
  <2>1. ASSUME NEW r \in Children(t), agent[r] = "live"
        PROVE  r \in runs[t] \/ \E p \in Procs : spawned[p] = r
    BY <2>1 DEF Accounted, Children
  \* A server with a live writer in hand: the row shows no other at work.
  <2>2. ASSUME NEW p \in Procs, NEW r \in Children(t), spawned[p] = r, origin[r].writes
        PROVE  /\ InFlight(p) /\ call[p].task = t
               /\ \A q \in runs[t] : agent[q] = "live" => q \in resumed
    BY <2>2 DEF Children, FlightRun, NoRival, InFlight, Spawning
  <2>3. CASE r1 \in runs[t] /\ r2 \in runs[t]
    BY <2>3 DEF AttachedWriters
  <2>4. ASSUME NEW p \in Procs, NEW q \in Procs, spawned[p] = r1, spawned[q] = r2 PROVE r1 = r2
    <3>1. InFlight(p) /\ call[p].task = t /\ InFlight(q) /\ call[q].task = t
      BY <2>2, <2>4
    <3>2. owner[t] = SessionOf[p] /\ owner[t] = SessionOf[q]
      BY <3>1 DEF FlightOwner
    <3>3. p = q
      BY <3>1, <3>2 DEF OneServer, Alive, InFlight, Spawning
    <3> QED
      BY <2>4, <3>3
  <2> QED
    BY <2>1, <2>2, <2>3, <2>4
<1> QED
  BY <1>1, TypeCorrect, FlightHolds, PTL

\* A row lists only runs its owner's session launched for it (owner_for_run, attach).
THEOREM RunsAreOwned == Spec => []RunsAnswerToLauncher
<1>1. Flight => RunsAnswerToLauncher
  BY DEF Flight
<1> QED
  BY <1>1, FlightHolds, PTL

-----------------------------------------------------------------------------
(* The board's promises. *)

LEMMA HeldStep ==
  TypeOK /\ LockDiscipline /\ HeldSpawnKeepsTaskActive /\ [Next]_vars => HeldSpawnKeepsTaskActive'
<1> SUFFICES ASSUME TypeOK, LockDiscipline, HeldSpawnKeepsTaskActive, [Next]_vars
             PROVE  HeldSpawnKeepsTaskActive'
  OBVIOUS
<1> USE NoneAssumption
    DEF TypeOK, LockDiscipline, Critical, HeldSpawnKeepsTaskActive, InFlight, Steps,
        Spawning, Calls
<1>1. ASSUME NEW p \in Procs, Start(p) PROVE HeldSpawnKeepsTaskActive'
  BY <1>1 DEF Start, board
<1>2. ASSUME NEW p \in Procs, Crash(p) PROVE HeldSpawnKeepsTaskActive'
  BY <1>2 DEF Crash, board, NoCall
<1>3. ASSUME NEW p \in Procs, NEW t \in Tasks, NEW m \in Modes, Claim(p, t, m) PROVE HeldSpawnKeepsTaskActive'
  BY <1>3 DEF Claim, Serving, locals
<1>4. ASSUME NEW p \in Procs, NEW t \in Tasks, NEW s \in UpdateStatuses, Update(p, t, s) PROVE HeldSpawnKeepsTaskActive'
  BY <1>4 DEF Update, Serving, locals
<1>5. ASSUME NEW p \in Procs, NEW r \in Runs, Stop(p, r) PROVE HeldSpawnKeepsTaskActive'
  BY <1>5 DEF Stop, board, locals
<1>6. ASSUME NEW p \in Procs, NEW r \in Runs, LeaveLoop(p, r) PROVE HeldSpawnKeepsTaskActive'
  BY <1>6 DEF LeaveLoop, board, locals
<1>7. ASSUME NEW p \in Procs, NEW c \in SpawnRequests, Admit(p, c) PROVE HeldSpawnKeepsTaskActive'
  BY <1>7, RequestAssumption DEF Admit, board
<1>8. ASSUME NEW p \in Procs, TakeTicket(p) PROVE HeldSpawnKeepsTaskActive'
  BY <1>8 DEF TakeTicket, board
<1>9. ASSUME NEW p \in Procs, NEW r \in Runs, Launch(p, r) PROVE HeldSpawnKeepsTaskActive'
  BY <1>9 DEF Launch, board
<1>10. ASSUME NEW p \in Procs, LaunchFails(p) PROVE HeldSpawnKeepsTaskActive'
  BY <1>10 DEF LaunchFails, board
<1>11. ASSUME NEW r \in Runs, Resume(r) PROVE HeldSpawnKeepsTaskActive'
  BY <1>11 DEF Resume, files, locals
<1>12. ASSUME NEW p \in Procs, Relock(p) PROVE HeldSpawnKeepsTaskActive'
  BY <1>12 DEF Relock, board
<1>13. ASSUME NEW p \in Procs, DropTicket(p) PROVE HeldSpawnKeepsTaskActive'
  BY <1>13 DEF DropTicket, board
<1>14. ASSUME NEW p \in Procs, Attach(p) PROVE HeldSpawnKeepsTaskActive'
  BY <1>14 DEF Attach, NoCall
<1>15. ASSUME NEW t \in Tasks, GrowIdle(t) PROVE HeldSpawnKeepsTaskActive'
  BY <1>15 DEF GrowIdle, locals
<1>16. ASSUME NEW p \in Procs, AgeTicket(p) PROVE HeldSpawnKeepsTaskActive'
  BY <1>16 DEF AgeTicket, board, locals
<1>17. ASSUME NEW r \in Runs, Settle(r) PROVE HeldSpawnKeepsTaskActive'
  BY <1>17 DEF Settle, board, locals
<1>18. ASSUME NEW r \in Runs, Forget(r) PROVE HeldSpawnKeepsTaskActive'
  BY <1>18 DEF Forget, board, locals
<1>19. ASSUME Dashboard PROVE HeldSpawnKeepsTaskActive'
  BY <1>19, StatusAssumption DEF Dashboard, Overwrite, Open, Final, files, locals
<1>20. ASSUME NEW t \in Tasks, NEW read \in SUBSET runs[t], Archive(t, read) PROVE HeldSpawnKeepsTaskActive'
  BY <1>20 DEF Archive, Overwrite, Final, files, locals
<1>21. CASE UNCHANGED vars
  BY <1>21 DEF vars
<1> QED
  BY <1>1, <1>2, <1>3, <1>4, <1>5, <1>6, <1>7, <1>8, <1>9, <1>10, <1>11, <1>12, <1>13,
     <1>14, <1>15, <1>16, <1>17, <1>18, <1>19, <1>20, <1>21
  DEF Next, Request, Continue, Spawn, Environment, Outside

\* A spawn that keeps the lock, as the verified loop's do, attaches its run to a
\* reservation that is still active, unless the dashboard or the archive script has
\* set it meanwhile: authorize's promise, as far as it holds.
THEOREM HeldSpawnsAreSafe == Spec => []HeldSpawnKeepsTaskActive
<1>1. Init => HeldSpawnKeepsTaskActive
  BY DEF Init, HeldSpawnKeepsTaskActive, InFlight, Spawning
<1> QED
  BY <1>1, HeldStep, TypeCorrect, LockIsExclusive, PTL DEF Spec

LEMMA LoopStep ==
  TypeOK /\ Flight /\ HeldSpawnKeepsTaskActive /\ LoopsBlockRelease /\ [Next]_vars
    => LoopsBlockRelease'
<1> SUFFICES ASSUME TypeOK, Flight, HeldSpawnKeepsTaskActive, LoopsBlockRelease, [Next]_vars
             PROVE  LoopsBlockRelease'
  OBVIOUS
<1> USE NoneAssumption DEF TypeOK, LoopsBlockRelease
<1>1. ASSUME NEW p \in Procs, Start(p) PROVE LoopsBlockRelease'
  BY <1>1 DEF Start, board
<1>2. ASSUME NEW p \in Procs, Crash(p) PROVE LoopsBlockRelease'
  BY <1>2 DEF Crash, board
<1>3. ASSUME NEW p \in Procs, NEW t \in Tasks, NEW m \in Modes, Claim(p, t, m) PROVE LoopsBlockRelease'
  BY <1>3 DEF Claim, Final
<1>4. ASSUME NEW p \in Procs, NEW t \in Tasks, NEW s \in UpdateStatuses, Update(p, t, s) PROVE LoopsBlockRelease'
  BY <1>4, StatusAssumption DEF Update, Settled, Final
<1>5. ASSUME NEW p \in Procs, NEW r \in Runs, Stop(p, r) PROVE LoopsBlockRelease'
  BY <1>5 DEF Stop, board
<1>6. ASSUME NEW p \in Procs, NEW r \in Runs, LeaveLoop(p, r) PROVE LoopsBlockRelease'
  BY <1>6 DEF LeaveLoop, board
<1>7. ASSUME NEW p \in Procs, NEW c \in SpawnRequests, Admit(p, c) PROVE LoopsBlockRelease'
  BY <1>7 DEF Admit, board
<1>8. ASSUME NEW p \in Procs, TakeTicket(p) PROVE LoopsBlockRelease'
  BY <1>8 DEF TakeTicket, board
<1>9. ASSUME NEW p \in Procs, NEW r \in Runs, Launch(p, r) PROVE LoopsBlockRelease'
  BY <1>9 DEF Launch, board
<1>10. ASSUME NEW p \in Procs, LaunchFails(p) PROVE LoopsBlockRelease'
  BY <1>10 DEF LaunchFails, board
<1>11. ASSUME NEW r \in Runs, Resume(r) PROVE LoopsBlockRelease'
  BY <1>11 DEF Resume, files, locals
<1>12. ASSUME NEW p \in Procs, Relock(p) PROVE LoopsBlockRelease'
  BY <1>12 DEF Relock, board
<1>13. ASSUME NEW p \in Procs, DropTicket(p) PROVE LoopsBlockRelease'
  BY <1>13 DEF DropTicket, board
<1>14. ASSUME NEW p \in Procs, Attach(p) PROVE LoopsBlockRelease'
  <2> DEFINE t == call[p].task
             r == spawned[p]
  <2>1. status' = status /\ forced' = forced /\ InFlight(p)
    BY <1>14 DEF Attach, InFlight, Spawning
  <2>2. ASSUME NEW u \in Tasks, status[u] \in Final PROVE runs'[u] \cap looped' = {} \/ u \in forced'
    <3>1. CASE t = None \/ r = None
      <4>1. runs' = runs /\ looped' \subseteq looped
        BY <1>14, <3>1 DEF Attach
      <4> QED
        BY <2>1, <2>2, <4>1
    <3>2. CASE t # None /\ r # None /\ call[p].release
      <4>1. t \in Tasks /\ r \in Runs /\ r \notin looped
        BY <3>2 DEF Flight, FlightRun, Calls
      <4>2. looped' = looped /\ runs' = [runs EXCEPT ![t] = @ \cup {r}]
        BY <1>14, <3>2 DEF Attach
      <4> QED
        BY <2>1, <2>2, <4>1, <4>2
    <3>3. CASE t # None /\ r # None /\ ~call[p].release
      <4>1. t \in Tasks /\ r \in Runs /\ \A v \in Tasks : r \notin runs[v]
        BY <3>3 DEF Flight, FlightRun, Calls
      <4>2. looped' \subseteq looped \cup {r} /\ runs' = [runs EXCEPT ![t] = @ \cup {r}]
        BY <1>14, <3>3 DEF Attach
      <4>3. u # t \/ u \in forced
        BY <2>1, <2>2, <3>3 DEF HeldSpawnKeepsTaskActive, Final
      <4> QED
        BY <2>1, <2>2, <4>1, <4>2, <4>3
    <3> QED
      BY <3>1, <3>2, <3>3
  <2> QED
    BY <2>1, <2>2
<1>15. ASSUME NEW t \in Tasks, GrowIdle(t) PROVE LoopsBlockRelease'
  BY <1>15 DEF GrowIdle
<1>16. ASSUME NEW p \in Procs, AgeTicket(p) PROVE LoopsBlockRelease'
  BY <1>16 DEF AgeTicket, board
<1>17. ASSUME NEW r \in Runs, Settle(r) PROVE LoopsBlockRelease'
  BY <1>17 DEF Settle, board
<1>18. ASSUME NEW r \in Runs, Forget(r) PROVE LoopsBlockRelease'
  BY <1>18 DEF Forget, board
<1>19. ASSUME Dashboard PROVE LoopsBlockRelease'
  BY <1>19, StatusAssumption DEF Dashboard, Overwrite, Open, Final, files, locals
<1>20. ASSUME NEW t \in Tasks, NEW read \in SUBSET runs[t], Archive(t, read) PROVE LoopsBlockRelease'
  BY <1>20 DEF Archive, Overwrite, Final, files, locals
<1>21. CASE UNCHANGED vars
  BY <1>21 DEF vars
<1> QED
  BY <1>1, <1>2, <1>3, <1>4, <1>5, <1>6, <1>7, <1>8, <1>9, <1>10, <1>11, <1>12, <1>13,
     <1>14, <1>15, <1>16, <1>17, <1>18, <1>19, <1>20, <1>21
  DEF Next, Request, Continue, Spawn, Environment, Outside

\* Where a finished task has an open verified loop, its status was set without the lock:
\* no session finishes a task under a loop (settled), nor starts one in a finished task.
THEOREM LoopsAreKept == Spec => []LoopsBlockRelease
<1>1. Init => LoopsBlockRelease
  BY DEF Init, LoopsBlockRelease
<1> QED
  BY <1>1, LoopStep, TypeCorrect, FlightHolds, HeldSpawnsAreSafe, PTL DEF Spec

\* What RowsOnlyGrow says of one task.
RowKept(u) == (owner[u] # None => owner'[u] = owner[u]) /\ (Outside \/ RowGrows(u))

LEMMA RowStep == TypeOK /\ FreeRows /\ [Next]_vars => \A u \in Tasks : RowKept(u)
<1> SUFFICES ASSUME TypeOK, FreeRows, [Next]_vars, NEW u \in Tasks PROVE RowKept(u)
  OBVIOUS
<1> USE NoneAssumption DEF TypeOK, FreeRows, RowKept, RowGrows
<1>1. ASSUME NEW p \in Procs, Start(p) PROVE RowKept(u)
  BY <1>1 DEF Start, board
<1>2. ASSUME NEW p \in Procs, Crash(p) PROVE RowKept(u)
  BY <1>2 DEF Crash, board
<1>3. ASSUME NEW p \in Procs, NEW t \in Tasks, NEW m \in Modes, Claim(p, t, m) PROVE RowKept(u)
  BY <1>3 DEF Claim, Final
<1>4. ASSUME NEW p \in Procs, NEW t \in Tasks, NEW s \in UpdateStatuses, Update(p, t, s) PROVE RowKept(u)
  BY <1>4 DEF Update, Final
<1>5. ASSUME NEW p \in Procs, NEW r \in Runs, Stop(p, r) PROVE RowKept(u)
  BY <1>5 DEF Stop, board
<1>6. ASSUME NEW p \in Procs, NEW r \in Runs, LeaveLoop(p, r) PROVE RowKept(u)
  BY <1>6 DEF LeaveLoop, board
<1>7. ASSUME NEW p \in Procs, NEW c \in SpawnRequests, Admit(p, c) PROVE RowKept(u)
  BY <1>7 DEF Admit, board
<1>8. ASSUME NEW p \in Procs, TakeTicket(p) PROVE RowKept(u)
  BY <1>8 DEF TakeTicket, board
<1>9. ASSUME NEW p \in Procs, NEW r \in Runs, Launch(p, r) PROVE RowKept(u)
  BY <1>9 DEF Launch, board
<1>10. ASSUME NEW p \in Procs, LaunchFails(p) PROVE RowKept(u)
  BY <1>10 DEF LaunchFails, board
<1>11. ASSUME NEW r \in Runs, Resume(r) PROVE RowKept(u)
  BY <1>11 DEF Resume, files, locals
<1>12. ASSUME NEW p \in Procs, Relock(p) PROVE RowKept(u)
  BY <1>12 DEF Relock, board
<1>13. ASSUME NEW p \in Procs, DropTicket(p) PROVE RowKept(u)
  BY <1>13 DEF DropTicket, board
<1>14. ASSUME NEW p \in Procs, Attach(p) PROVE RowKept(u)
  <2> DEFINE t == call[p].task
  <2>1. status' = status /\ owner' = owner
    BY <1>14 DEF Attach
  <2>2. CASE t = None \/ spawned[p] = None
    BY <1>14, <2>1, <2>2 DEF Attach
  <2>3. CASE t # None /\ spawned[p] # None
    BY <1>14, <2>1, <2>3 DEF Attach, Calls
  <2> QED
    BY <2>2, <2>3
<1>15. ASSUME NEW t \in Tasks, GrowIdle(t) PROVE RowKept(u)
  BY <1>15 DEF GrowIdle
<1>16. ASSUME NEW p \in Procs, AgeTicket(p) PROVE RowKept(u)
  BY <1>16 DEF AgeTicket, board
<1>17. ASSUME NEW r \in Runs, Settle(r) PROVE RowKept(u)
  BY <1>17 DEF Settle, board
<1>18. ASSUME NEW r \in Runs, Forget(r) PROVE RowKept(u)
  BY <1>18 DEF Forget, board
<1>19. ASSUME Dashboard PROVE RowKept(u)
  BY <1>19 DEF Dashboard, Overwrite, Outside
<1>20. ASSUME NEW t \in Tasks, NEW read \in SUBSET runs[t], Archive(t, read) PROVE RowKept(u)
  BY <1>20 DEF Archive, Overwrite, Outside
<1>21. CASE UNCHANGED vars
  BY <1>21 DEF vars
<1> QED
  BY <1>1, <1>2, <1>3, <1>4, <1>5, <1>6, <1>7, <1>8, <1>9, <1>10, <1>11, <1>12, <1>13,
     <1>14, <1>15, <1>16, <1>17, <1>18, <1>19, <1>20, <1>21
  DEF Next, Request, Continue, Spawn, Environment, Outside

\* A task is never given away; only the writers without the lock reopen a finished one,
\* and only they lose an attached run, under any interleaving with the servers
\* (Board.update, Board.attach).
THEOREM RowsAreKept == Spec => RowsOnlyGrow
<1>1. TypeOK /\ Flight /\ [Next]_vars =>
        [/\ \A t \in Tasks : owner[t] # None => owner'[t] = owner[t]
         /\ Outside \/ \A t \in Tasks : RowGrows(t)]_vars
  BY RowStep DEF Flight, RowKept
<1> QED
  BY <1>1, TypeCorrect, FlightHolds, PTL DEF Spec, RowsOnlyGrow

=============================================================================
