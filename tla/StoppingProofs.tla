---------------------------- MODULE StoppingProofs ----------------------------
(***************************************************************************)
(* What is proved of Stopping for any callers, ceilings and bounds, the    *)
(* roster being readable or not: the types, and that a session said to be  *)
(* over stays over.                                                        *)
(***************************************************************************)
EXTENDS Stopping, TLAPS

\* What a caller has in hand: a signal left to send, and a server that runs.
CallerInv(c) ==
  /\ pc[c] = "signalling" => rung[c] <= Len(Ladder)
  /\ pc[c] # "idle" => c.by \in up

Inv ==
  /\ TypeOK
  /\ returning => ~live /\ inc < Comebacks
  /\ \A c \in Callers : CallerInv(c)

LEMMA LadderLength == Len(Ladder) = 3
BY DEF Ladder

LEMMA CallersHaveServers == ASSUME NEW c \in Callers PROVE c.by \in Procs
BY DEF Procs

\* A signal leaves the session well formed.
LEMMA HitHolds ==
  ASSUME Inv, live, NEW sig \in {"SIGINT", "SIGTERM", "SIGKILL"}, Hit(sig)
  PROVE  /\ live' \in BOOLEAN /\ returning' \in BOOLEAN
         /\ inc' \in 0 .. Comebacks /\ state' \in {"working", "blocked", "done"}
         /\ returning' => ~live' /\ inc' < Comebacks
<1>1. CASE UNCHANGED session
  BY <1>1 DEF Inv, TypeOK, session
<1>2. CASE ~UNCHANGED session
  <2>1. live' = FALSE /\ returning' \in BOOLEAN /\ inc' = inc /\ state' = state
    BY <1>2 DEF Hit
  <2>2. returning' => inc < Comebacks
    BY <1>2 DEF Hit
  <2>3. QED
    BY <2>1, <2>2 DEF Inv, TypeOK
<1>3. QED
  BY <1>1, <1>2

LEMMA CapsAreNumbers ==
  /\ PollCap \in Nat /\ SweepCap \in Nat /\ RepeatCap \in Nat
  /\ MaxTurns \in Nat /\ Comebacks \in Nat
BY CapAssumption

LEMMA InvHolds == Spec => []Inv
<1> USE CapsAreNumbers, NoneAssumption, LadderLength
<1>1. Init => Inv
  <2> SUFFICES ASSUME Init PROVE Inv
    OBVIOUS
  <2>1. /\ up \subseteq Procs /\ sweeper \in up \cup {None} /\ reported \subseteq up
        /\ inc \in 0 .. Comebacks /\ cap \in RunCaps
        /\ turns \in 0 .. MaxTurns /\ same \in 0 .. turns
    BY DEF Init
  <2>2. /\ pc \in [Callers -> {"idle", "looking", "probing", "signalling", "grace",
                             "stopped", "survived"}]
        /\ rung \in [Callers -> 1 .. Len(Ladder) + 1]
    BY DEF Init
  <2>3. found \in [Callers -> 0 .. Comebacks \cup {None}]
    BY DEF Init
  <2>4. TypeOK
    BY <2>1, <2>2, <2>3 DEF Init, TypeOK
  <2>5. \A c \in Callers : CallerInv(c)
    BY CallersHaveServers DEF Init, CallerInv
  <2>6. QED
    BY <2>4, <2>5 DEF Init, Inv
<1>2. Inv /\ [Next]_vars => Inv'
  <2> SUFFICES ASSUME Inv, [Next]_vars PROVE Inv'
    OBVIOUS
  <2> USE DEF Inv, CallerInv, TypeOK
  <2>1. ASSUME NEW p \in Procs, Crash(p) PROVE Inv'
    BY <2>1 DEF Crash, session, agent
  <2>2. ASSUME NEW p \in Procs, Elect(p) PROVE Inv'
    BY <2>2 DEF Elect, session, agent, climb
  <2>3. ASSUME NEW c \in Callers, Stop(c) \/ Guard(c) PROVE Inv'
    BY <2>3 DEF Stop, Guard, Climbs, Idle, servers, session, agent
  <2>4. ASSUME NEW c \in Callers, Look(c) \/ Probe(c) PROVE Inv'
    BY <2>4 DEF Look, Probe, servers, session, agent
  <2>5. ASSUME NEW c \in Callers, Signal(c) PROVE Inv'
    <3>1. Ladder[rung[c]] \in {"SIGINT", "SIGTERM", "SIGKILL"}
      BY <2>5 DEF Signal, Ladder
    <3>2. /\ live' \in BOOLEAN /\ returning' \in BOOLEAN
          /\ inc' \in 0 .. Comebacks /\ state' \in {"working", "blocked", "done"}
          /\ returning' => ~live' /\ inc' < Comebacks
      <4>1. CASE live /\ found[c] = inc
        BY <2>5, <3>1, <4>1, HitHolds DEF Signal
      <4>2. CASE ~(live /\ found[c] = inc)
        BY <2>5, <4>2 DEF Signal, session
      <4>3. QED
        BY <4>1, <4>2
    <3>3. QED
      BY <2>5, <3>2 DEF Signal, servers, agent
  <2>6. ASSUME NEW c \in Callers, Report(c) PROVE Inv'
    BY <2>6, CallersHaveServers DEF Report, session, agent
  <2>7. CASE Work
    <3>1. UNCHANGED <<servers, session, cap, climb, final>>
      BY <2>7 DEF Work
    <3>2. turns' \in 0 .. MaxTurns /\ same' \in 0 .. turns'
      BY <2>7 DEF Work
    <3>3. QED
      BY <3>1, <3>2 DEF servers, session, climb
  <2>8. CASE Finish \/ Converse \/ Settle \/ Exit
    <3>1. CASE Finish
      BY <3>1 DEF Finish, Acts, servers, session, climb
    <3>2. CASE Converse
      BY <3>2 DEF Converse, servers, agent, climb
    <3>3. CASE Settle
      BY <3>3 DEF Settle, servers, agent, climb
    <3>4. CASE Exit
      BY <3>4 DEF Exit, servers, agent, climb
    <3>5. QED
      BY <2>8, <3>1, <3>2, <3>3, <3>4
  <2>9. CASE ComeBack
    <3>1. inc' \in 0 .. Comebacks
      BY <2>9 DEF ComeBack
    <3>2. live' \in BOOLEAN /\ returning' = FALSE /\ UNCHANGED <<servers, state, agent, cap, climb>>
      BY <2>9 DEF ComeBack
    <3>3. QED
      BY <3>1, <3>2 DEF servers, agent, climb
  <2>10. CASE UNCHANGED vars
    BY <2>10 DEF vars
  <2>11. QED
    BY <2>1, <2>2, <2>3, <2>4, <2>5, <2>6, <2>7, <2>8, <2>9, <2>10
    DEF Next, Climb, Native
<1>3. QED
  BY <1>1, <1>2, PTL DEF Spec

\* Every variable keeps its type: a ladder has three rungs, the turns stay in bounds, a
\* crashed server neither sweeps nor remembers.
THEOREM TypeCorrect == Spec => []TypeOK
<1>1. Inv => TypeOK
  BY DEF Inv
<1>2. QED
  BY <1>1, InvHolds, PTL

-----------------------------------------------------------------------------
(* Stops.                                                                  *)

\* Between a look that can be relied on and the probe, the roster's entry stays good: the
\* session has settled, or lives as the process the entry names, or is over.
LookInv ==
  \A c \in sure : pc[c] = "probing" => Over \/ (live /\ found[c] = inc)

SureInv == LookInv /\ SaidIsOver

\* What is over stays so: nothing but a signal to a live process brings another.
LEMMA OverStays ==
  ASSUME Inv, Over, [Next]_vars PROVE Over'
<1> USE DEF Inv, Over
<1>1. ASSUME NEW c \in Callers, Signal(c) PROVE Over'
  <2>1. CASE live /\ found[c] = inc
    BY <1>1, <2>1 DEF Signal, Hit, session
  <2>2. CASE ~(live /\ found[c] = inc)
    BY <1>1, <2>2 DEF Signal, session
  <2>3. QED
    BY <2>1, <2>2
<1>2. CASE \E c \in Callers : Stop(c) \/ Guard(c) \/ Look(c) \/ Probe(c) \/ Report(c)
  BY <1>2 DEF Stop, Guard, Climbs, Look, Probe, Report, session
<1>3. CASE \E p \in Procs : Crash(p) \/ Elect(p)
  BY <1>3 DEF Crash, Elect, session
<1>4. CASE Native
  BY <1>4 DEF Native, Work, Finish, Converse, Settle, Exit, ComeBack, Acts, session
<1>5. CASE UNCHANGED vars
  BY <1>5 DEF vars
<1>6. QED
  BY <1>1, <1>2, <1>3, <1>4, <1>5 DEF Next, Climb

LEMMA SureStep ==
  ASSUME Inv, SureInv, [Next]_vars PROVE SureInv'
<1> USE DEF Inv, SureInv, LookInv, SaidIsOver
<1>2. ASSUME NEW p \in Procs, Crash(p) PROVE SureInv'
  <2>1. sure' \subseteq sure /\ Over' = Over /\ UNCHANGED <<live, inc>>
    BY <1>2 DEF Crash, session, Over
  <2>2. ASSUME NEW c \in sure'
        PROVE  \/ pc'[c] = pc[c] /\ found'[c] = found[c]
               \/ pc[c] = "idle" /\ pc'[c] = "idle"
    <3>1. c \in Callers /\ (c.by # p \/ pc[c] = "idle")
      BY <1>2 DEF Crash, TypeOK
    <3>2. /\ pc'[c] = IF c.by = p THEN "idle" ELSE pc[c]
          /\ found'[c] = IF c.by = p THEN None ELSE found[c]
      BY <1>2, <3>1 DEF Crash
    <3>3. QED
      BY <3>1, <3>2
  <2>3. QED
    BY <2>1, <2>2
<1>3. ASSUME NEW p \in Procs, Elect(p) PROVE SureInv'
  BY <1>3 DEF Elect, climb, session, Over
<1>4. ASSUME NEW c \in Callers, Stop(c) \/ Guard(c) PROVE SureInv'
  <2>1. sure' = sure \ {c} /\ UNCHANGED <<found, session>> /\ pc' = [pc EXCEPT ![c] = "looking"]
    BY <1>4 DEF Stop, Guard, Climbs
  <2>2. QED
    BY <2>1 DEF TypeOK, session, Over
<1>5. ASSUME NEW c \in Callers, Look(c) PROVE SureInv'
  <2>1. /\ UNCHANGED session /\ pc' = [pc EXCEPT ![c] = "probing"]
        /\ sure' \subseteq sure \cup {c}
        /\ c \in sure' => ~returning /\ found' = [found EXCEPT ![c] = IF state # "done" THEN inc ELSE None]
        /\ \A d \in Callers \ {c} : found'[d] = found[d]
    BY <1>5 DEF Look, TypeOK
  <2>2. QED
    BY <2>1 DEF TypeOK, session, Over
<1>6. ASSUME NEW c \in Callers, Probe(c) PROVE SureInv'
  <2>1. UNCHANGED session /\ sure' \subseteq sure /\ pc[c] = "probing" /\ pc'[c] # "probing"
        /\ \A d \in Callers \ {c} : found'[d] = found[d] /\ pc'[d] = pc[d]
    BY <1>6 DEF Probe, TypeOK
  <2>2. c \in sure' => c \in sure /\ ~(live /\ found[c] = inc)
    BY <1>6 DEF Probe
  <2>3. QED
    BY <2>1, <2>2 DEF TypeOK, session, Over
<1>7. ASSUME NEW c \in Callers, Signal(c) PROVE SureInv'
  <2>1. sure' \subseteq sure /\ pc[c] = "signalling" /\ pc'[c] # "probing"
        /\ \A d \in Callers \ {c} : found'[d] = found[d] /\ pc'[d] = pc[d]
    BY <1>7 DEF Signal, TypeOK
  <2>2. CASE live' = live
    <3>1. UNCHANGED session
      <4>1. CASE live /\ found[c] = inc
        BY <1>7, <2>2, <4>1 DEF Signal, Hit
      <4>2. QED
        BY <1>7, <4>1 DEF Signal
    <3>2. QED
      BY <2>1, <3>1 DEF session, Over, TypeOK
  <2>3. CASE live' # live
    <3>1. \A d \in sure' : pc[d] # "probing"
      BY <1>7, <2>3 DEF Signal
    <3>2. QED
      BY <2>1, <3>1, OverStays DEF TypeOK
  <2>4. QED
    BY <2>2, <2>3
<1>8. ASSUME NEW c \in Callers, Report(c) PROVE SureInv'
  <2>1. /\ UNCHANGED <<session, sure>> /\ pc[c] \in {"stopped", "survived"}
        /\ pc' = [pc EXCEPT ![c] = "idle"] /\ found' = [found EXCEPT ![c] = None]
    BY <1>8 DEF Report
  <2>2. QED
    BY <2>1 DEF TypeOK, session, Over
<1>9. CASE Native
  <2>1. UNCHANGED climb
    BY <1>9 DEF Native, Work, Finish, Converse, Settle, Exit, ComeBack
  <2>2. (live' /\ inc' = inc) \/ Over' \/ ~live
    BY <1>9 DEF Native, Work, Finish, Converse, Settle, Exit, ComeBack, session, Over
  <2>3. QED
    BY <2>1, <2>2, OverStays DEF climb
<1>10. CASE UNCHANGED vars
  BY <1>10 DEF vars, Over
<1>11. QED
  BY <1>2, <1>3, <1>4, <1>5, <1>6, <1>7, <1>8, <1>9, <1>10 DEF Next, Climb

\* For any number of callers, crashes and comebacks, and whether the roster can be read
\* or not: a caller whose last look was a look at the roster, not overtaken by the end of
\* a process at another's hands, says that the session is over only if it stays over.
THEOREM StopsAreProven == Spec => []SaidIsOver
<1>1. Init => SureInv
  BY DEF Init, SureInv, LookInv, SaidIsOver
<1>2. Inv /\ SureInv /\ [Next]_vars => SureInv'
  BY SureStep
<1>3. SureInv => SaidIsOver
  BY DEF SureInv
<1>4. QED
  BY <1>1, <1>2, <1>3, InvHolds, PTL DEF Spec
=============================================================================
