--------------------------- MODULE ReportProofs ---------------------------
(***************************************************************************)
(* Proofs about the two modules that compute what is reported: Schedule,   *)
(* whose plan can be carried out, whose search for cycles decides and      *)
(* whose ETA is bounded, whatever the tasks, their estimates, their order  *)
(* and the slots; and Transcript, whose readers' answers are true of the   *)
(* session, whatever it writes and whoever reads meanwhile.  In this       *)
(* order: the plan, the search; the transcript, folds over it; the         *)
(* critical path.                                                          *)
(***************************************************************************)
EXTENDS Schedule, Transcript, FiniteSetTheorems, SequenceTheorems, TLAPS

-----------------------------------------------------------------------------
(* Schedule: the plan. *)

\* Nothing is placed before the search has ended, and a slot is free only once all that
\* was placed on it has finished.
Inv ==
  /\ TypeOK
  /\ phase \in {"read", "search"} => plan = <<>>
  /\ \A k \in Placed : plan[k].finish <= free[plan[k].slot]
  /\ PlanHolds

LEMMA MinutesAreNat ==
  ASSUME NEW e \in Estimates, actual \in Actuals
  PROVE  Minutes(e) \in Nat
<1>1. CASE e > 0 \/ actual = <<>>
  BY <1>1, MinutesAssumption DEF Minutes
<1>2. CASE ~(e > 0) /\ actual # <<>>
  <2>1. actual \in Seq(Nat) /\ Len(actual) \in Nat /\ Len(actual) # 0
    BY <1>2, MinutesAssumption
  <2>2. (Len(actual) + 1) \div 2 \in 1..Len(actual)
    BY <2>1
  <2>3. \A i \in 1..Len(actual) : actual[i] \in Nat
    BY <2>1
  <2>4. P50(actual) \in Nat
    BY <2>2, <2>3 DEF P50
  <2> QED
    BY <1>2, <2>4 DEF Minutes
<1> QED
  BY <1>1, <1>2, MinutesAssumption

LEMMA SlotsAre == pool \in Pools => Slots \subseteq Nat /\ 1 \in Slots
BY PoolsAssumption DEF Slots

LEMMA InitInv == Init => Inv
<1> SUFFICES ASSUME Init PROVE Inv
  OBVIOUS
<1>1. /\ est = <<>> /\ plan = <<>> /\ color = <<>> /\ stack = <<>> /\ cycle = <<>>
      /\ edge = {} /\ phase = "read" /\ items = 0 /\ actual \in Actuals /\ pool \in Pools
  BY DEF Init
<1>2. Tasks = {} /\ Placed = {}
  BY <1>1 DEF Tasks, Placed
<1>3. /\ est \in [Tasks -> Nat] /\ color \in [Tasks -> {"white", "gray", "black"}]
      /\ plan \in [Placed -> [start : Nat, finish : Nat, slot : Slots]]
  BY <1>1, <1>2
<1>4. free \in [Slots -> Nat]
  BY DEF Init
<1>5. items \in 0..MaxItems
  BY <1>1, KeysAssumption
<1>6. TypeOK
  BY <1>1, <1>2, <1>3, <1>4, <1>5 DEF TypeOK
<1> QED
  BY <1>1, <1>2, <1>6 DEF Inv, PlanHolds

\* Items come before anything is placed.
LEMMA AddKeeps ==
  ASSUME Inv, NEW k \in Keys, NEW e \in Estimates, NEW blocks \in Blocks, Add(k, e, blocks)
  PROVE  Inv'
<1>1. /\ phase = "read" /\ phase' = phase /\ actual' = actual /\ pool' = pool
      /\ stack' = stack /\ cycle' = cycle /\ free' = free /\ plan' = plan
      /\ items < MaxItems /\ items' = items + 1 /\ edge' = edge \cup ({k} \X blocks)
      /\ est' = [j \in Tasks \cup {k} |-> IF j = k THEN Minutes(e) ELSE est[j]]
      /\ color' = [j \in Tasks \cup {k} |-> "white"]
  BY DEF Add, placed
<1>2. Minutes(e) \in Nat
  BY MinutesAreNat DEF Inv, TypeOK
<1>3. Tasks' = Tasks \cup {k} /\ Tasks' \subseteq Keys
  BY <1>1 DEF Tasks, Inv, TypeOK
<1>4. est' \in [Tasks' -> Nat] /\ color' \in [Tasks' -> {"white", "gray", "black"}]
  BY <1>1, <1>2, <1>3 DEF Inv, TypeOK
<1>5. edge' \subseteq Keys \X Nat
  <2>1. blocks \subseteq Nat
    BY BlocksAssumption
  <2> QED
    BY <1>1, <2>1 DEF Inv, TypeOK
<1>6. stack' \in Seq(Tasks') /\ cycle' \in Seq(Tasks')
  BY <1>1, <1>3 DEF Inv, TypeOK
<1>7. plan' = <<>> /\ Placed' = {} /\ Slots' = Slots
  BY <1>1 DEF Inv, Placed, Slots
<1>8. items' \in 0..MaxItems
  BY <1>1, KeysAssumption DEF Inv, TypeOK
<1>9. TypeOK'
  BY <1>1, <1>3, <1>4, <1>5, <1>6, <1>7, <1>8 DEF Inv, TypeOK
<1> QED
  BY <1>7, <1>9 DEF Inv, PlanHolds

\* The search and the changes of phase leave the tasks and the plan alone.
LEMMA SearchKeeps ==
  ASSUME Inv, Read \/ Leave \/ Searched \/ Finish \/ UNCHANGED vars
                \/ \E k \in Tasks : Enter(k) \/ Close(k)
  PROVE  Inv'
<1>1. UNCHANGED <<input, placed>>
  BY DEF Read, Leave, Searched, Finish, Enter, Close, vars, input, placed
<1>2. /\ Tasks' = Tasks /\ Placed' = Placed /\ Slots' = Slots
      /\ \A k : Preds(k)' = Preds(k)
  BY <1>1 DEF Tasks, Placed, Slots, Preds, input, placed
<1>3. /\ phase' \in {"read", "search", "place", "done"}
      /\ phase' \in {"read", "search"} => phase \in {"read", "search"}
  BY DEF Read, Leave, Searched, Finish, Enter, Close, vars, Inv, TypeOK
<1>4. /\ color \in [Tasks -> {"white", "gray", "black"}]
      /\ stack \in Seq(Tasks) /\ cycle \in Seq(Tasks)
  BY DEF Inv, TypeOK
<1> DEFINE Typed == /\ color' \in [Tasks -> {"white", "gray", "black"}]
                    /\ stack' \in Seq(Tasks) /\ cycle' \in Seq(Tasks)
<1>5. Typed
  <2>1. CASE UNCHANGED search
    BY <1>4, <2>1 DEF search
  <2>2. ASSUME NEW k \in Tasks, Enter(k) PROVE Typed
    BY <1>4, <2>2 DEF Enter
  <2>3. ASSUME NEW v \in Tasks, Close(v) PROVE Typed
    <3>1. PICK i \in DOMAIN stack : cycle' = SubSeq(stack, i, Len(stack))
      BY <2>3 DEF Close
    <3>2. SubSeq(stack, i, Len(stack)) \in Seq(Tasks)
      BY <1>4, <3>1
    <3> QED
      BY <1>4, <2>3, <3>1, <3>2 DEF Close
  <2>4. CASE Leave
    <3>1. stack # <<>> /\ stack \in Seq(Tasks)
      BY <1>4, <2>4 DEF Leave
    <3>2. SubSeq(stack, 1, Len(stack) - 1) \in Seq(Tasks)
      BY <3>1
    <3> QED
      BY <1>4, <2>4, <3>2 DEF Leave
  <2>5. (Read \/ Searched \/ Finish \/ UNCHANGED vars) => UNCHANGED search
    BY DEF Read, Searched, Finish, vars, search
  <2> QED
    BY <2>1, <2>2, <2>3, <2>4, <2>5
<1>6. TypeOK'
  BY <1>1, <1>2, <1>3, <1>5 DEF Inv, TypeOK, input, placed
<1>7. PlanHolds'
  BY <1>1, <1>2 DEF Inv, PlanHolds, input, placed
<1> QED
  BY <1>1, <1>2, <1>3, <1>6, <1>7 DEF Inv, placed

LEMMA LaterIs ==
  ASSUME NEW a \in Nat, NEW b \in Nat
  PROVE  Later(a, b) \in Nat /\ a <= Later(a, b) /\ b <= Later(a, b)
BY DEF Later

\* A task is placed behind its predecessors and behind what its slot had.
LEMMA PlaceKeeps == ASSUME Inv, NEW k \in Tasks, Place(k) PROVE Inv'
<1>1. PICK t \in {0} \cup {plan[p].finish : p \in Preds(k)}, i \in Slots :
        /\ PredFinish(k, t)
        /\ LET start == Later(free[i], t)
               slot  == [start |-> start, finish |-> start + est[k], slot |-> i]
           IN  /\ free' = [free EXCEPT ![i] = slot.finish]
               /\ plan' = [j \in Placed \cup {k} |-> IF j = k THEN slot ELSE plan[j]]
  BY DEF Place
<1>2. UNCHANGED <<phase, input, search>> /\ phase = "place" /\ k \notin Placed /\ Preds(k) \subseteq Placed
  BY DEF Place, Ready
<1>3. /\ est \in [Tasks -> Nat] /\ free \in [Slots -> Nat] /\ Placed \subseteq Tasks
      /\ plan \in [Placed -> [start : Nat, finish : Nat, slot : Slots]]
  BY DEF Inv, TypeOK
<1> DEFINE start  == Later(free[i], t)
           finish == start + est[k]
           slot   == [start |-> start, finish |-> finish, slot |-> i]
<1>4. t \in Nat
  BY <1>1, <1>2, <1>3
<1>5. start \in Nat /\ free[i] <= start /\ t <= start
  BY <1>3, <1>4, LaterIs
<1> HIDE DEF start
<1>6. finish \in Nat /\ start <= finish
  BY <1>3, <1>5
<1>7. free' = [free EXCEPT ![i] = finish] /\ plan' = [j \in Placed \cup {k} |-> IF j = k THEN slot ELSE plan[j]]
  BY <1>1 DEF start
<1> HIDE DEF finish
<1>8. slot \in [start : Nat, finish : Nat, slot : Slots] /\ slot.start = start /\ slot.finish = finish /\ slot.slot = i
  BY <1>5, <1>6
<1> HIDE DEF slot
<1>9. /\ Placed' = Placed \cup {k} /\ plan'[k] = slot /\ \A j \in Placed : plan'[j] = plan[j]
      /\ Slots' = Slots /\ Tasks' = Tasks /\ est' = est /\ \A j : Preds(j)' = Preds(j)
  BY <1>2, <1>7 DEF Placed, Slots, Tasks, Preds, input
<1>10. \A j \in Placed : plan[j].slot \in Slots /\ plan[j].finish \in Nat /\ plan[j].start \in Nat
  BY <1>3
<1>11. TypeOK'
  <2>1. plan' \in [Placed' -> [start : Nat, finish : Nat, slot : Slots]]
    BY <1>3, <1>7, <1>8, <1>9
  <2>2. free' \in [Slots -> Nat] /\ Placed' \subseteq Tasks
    BY <1>3, <1>6, <1>7, <1>9
  <2> QED
    BY <1>2, <1>9, <2>1, <2>2 DEF Inv, TypeOK, input, search
<1>12. ASSUME NEW j \in Placed' PROVE plan'[j].finish <= free'[plan'[j].slot]
  <2>1. CASE j = k
    BY <1>3, <1>6, <1>7, <1>8, <1>9, <2>1
  <2>2. CASE j # k
    <3>1. j \in Placed /\ plan'[j] = plan[j] /\ plan[j].finish <= free[plan[j].slot]
      BY <1>9, <2>2 DEF Inv
    <3>2. CASE plan[j].slot = i
      <4>1. plan[j].finish <= finish
        BY <1>3, <1>5, <1>6, <1>10, <3>1, <3>2
      <4> QED
        BY <1>3, <1>7, <3>1, <3>2, <4>1
    <3>3. CASE plan[j].slot # i
      BY <1>3, <1>7, <1>10, <3>1, <3>3
    <3> QED
      BY <3>2, <3>3
  <2> QED
    BY <2>1, <2>2
<1>13. ASSUME NEW j \in Placed' PROVE plan'[j].finish = plan'[j].start + est[j]
  <2>1. CASE j = k
    BY <1>8, <1>9, <2>1 DEF finish
  <2>2. CASE j # k
    BY <1>9, <2>2 DEF Inv, PlanHolds
  <2> QED
    BY <2>1, <2>2
<1>14. ASSUME NEW j \in Placed', NEW p \in Preds(j) PROVE p \in Placed' /\ plan'[p].finish <= plan'[j].start
  <2>1. CASE j = k
    <3>1. p \in Placed /\ plan[p].finish <= t
      BY <1>1, <1>2, <1>14, <2>1 DEF PredFinish
    <3> QED
      BY <1>4, <1>5, <1>8, <1>9, <1>10, <2>1, <3>1
  <2>2. CASE j # k
    BY <1>9, <1>14, <2>2 DEF Inv, PlanHolds
  <2> QED
    BY <2>1, <2>2
<1>15. ASSUME NEW j \in Placed, plan[j].slot = i PROVE plan[j].finish <= start
  BY <1>3, <1>5, <1>10, <1>15 DEF Inv
<1>16. ASSUME NEW u \in Placed', NEW v \in Placed' \ {u}, plan'[v].slot = plan'[u].slot
       PROVE  plan'[v].finish <= plan'[u].start \/ plan'[u].finish <= plan'[v].start
  <2>1. CASE u = k
    BY <1>8, <1>9, <1>15, <1>16, <2>1
  <2>2. CASE v = k
    BY <1>8, <1>9, <1>15, <1>16, <2>2
  <2>3. CASE u # k /\ v # k
    BY <1>9, <1>16, <2>3 DEF Inv, PlanHolds
  <2> QED
    BY <2>1, <2>2, <2>3
<1>17. PlanHolds'
  BY <1>9, <1>13, <1>14, <1>16 DEF PlanHolds
<1> QED
  BY <1>2, <1>11, <1>12, <1>17 DEF Inv

\* A plan that is printed can be carried out: every task starts after its predecessors
\* have finished, and two on one slot do not overlap (list_schedule).
THEOREM PlansHold == Spec => []PlanHolds
<1>1. ASSUME Inv, [Next]_vars PROVE Inv'
  BY <1>1, AddKeeps, SearchKeeps, PlaceKeeps DEF Next
<1>2. Inv => PlanHolds
  BY DEF Inv
<1> QED
  BY InitInv, <1>1, <1>2, PTL DEF Spec

-----------------------------------------------------------------------------
(* The search. *)

Black == {k \in Tasks : color[k] = "black"}

\* No chain of predecessors within the black tasks goes round: every set of them has one
\* with no predecessor in it.
Founded ==
  /\ \A k \in Black : Preds(k) \subseteq Black
  /\ \A s \in SUBSET Black : s # {} => \E k \in s : Preds(k) \cap s = {}

Linked(s) == \A i \in 1..Len(s) - 1 : s[i + 1] \in Preds(s[i])

\* The stack is a chain, the cycle a closed one of which nothing is placed, and the tasks
\* are all black once the search has ended without a cycle.
SearchInv ==
  /\ phase = "read" => stack = <<>> /\ cycle = <<>> /\ Black = {}
  /\ Founded
  /\ Linked(stack)
  /\ cycle # <<>> => /\ Linked(cycle) /\ cycle[1] \in Preds(cycle[Len(cycle)])
                     /\ \A i \in 1..Len(cycle) : cycle[i] \notin Placed
  /\ phase \in {"place", "done"} /\ cycle = <<>> => Black = Tasks
  /\ phase = "done" => Ready = {}

LEMMA InitSearch == Init => SearchInv
<1> SUFFICES ASSUME Init PROVE SearchInv
  OBVIOUS
<1>1. phase = "read" /\ stack = <<>> /\ cycle = <<>> /\ est = <<>>
  BY DEF Init
<1>2. Black = {} /\ Len(stack) = 0
  BY <1>1 DEF Black, Tasks
<1> QED
  BY <1>1, <1>2 DEF SearchInv, Founded, Linked

\* The items are read before the search.
LEMMA AddKeepsSearch ==
  ASSUME Inv, SearchInv, NEW k \in Keys, NEW e \in Estimates, NEW blocks \in Blocks, Add(k, e, blocks)
  PROVE  SearchInv'
<1>1. /\ phase = "read" /\ phase' = phase /\ stack' = stack /\ cycle' = cycle
      /\ est' = [j \in Tasks \cup {k} |-> IF j = k THEN Minutes(e) ELSE est[j]]
      /\ color' = [j \in Tasks \cup {k} |-> "white"]
  BY DEF Add
<1>2. stack' = <<>> /\ cycle' = <<>> /\ Len(stack') = 0
  BY <1>1 DEF SearchInv
<1>3. Tasks' = Tasks \cup {k} /\ Black' = {}
  BY <1>1 DEF Tasks, Black
<1> QED
  BY <1>1, <1>2, <1>3 DEF SearchInv, Founded, Linked

\* What a step leaves alone when the tasks, their predecessors and their colors stay.
LEMMA SameColors ==
  ASSUME UNCHANGED <<est, edge>>
  PROVE  /\ Tasks' = Tasks /\ \A k : Preds(k)' = Preds(k)
         /\ UNCHANGED color => Black' = Black /\ (Founded => Founded')
         /\ UNCHANGED stack => (Linked(stack) => Linked(stack)')
         /\ UNCHANGED cycle => (Linked(cycle) => Linked(cycle)')
<1>1. Tasks' = Tasks /\ \A k : Preds(k)' = Preds(k)
  BY DEF Tasks, Preds
<1>2. ASSUME UNCHANGED color PROVE Black' = Black
  BY <1>1, <1>2 DEF Black
<1> QED
  BY <1>1, <1>2 DEF Founded, Linked

LEMMA EnterKeepsSearch ==
  ASSUME Inv, SearchInv, NEW k \in Tasks, Enter(k)
  PROVE  SearchInv'
<1>1. /\ phase = "search" /\ phase' = phase /\ cycle = <<>> /\ cycle' = cycle /\ UNCHANGED <<est, edge>>
      /\ color[k] = "white" /\ color' = [color EXCEPT ![k] = "gray"]
      /\ stack' = Append(stack, k) /\ (stack # <<>> => k \in Preds(Top))
  BY DEF Enter, input
<1>2. color \in [Tasks -> {"white", "gray", "black"}] /\ stack \in Seq(Tasks)
  BY DEF Inv, TypeOK
<1>3. Tasks' = Tasks /\ \A j : Preds(j)' = Preds(j)
  BY <1>1, SameColors
<1>4. Black' = Black
  BY <1>1, <1>2, <1>3 DEF Black
<1>5. Founded'
  BY <1>3, <1>4 DEF SearchInv, Founded
<1>6. ASSUME NEW i \in 1..Len(stack') - 1 PROVE stack'[i + 1] \in Preds(stack'[i])
  <2>1. Len(stack') = Len(stack) + 1 /\ Len(stack) \in Nat /\ stack'[i] = stack[i]
    BY <1>1, <1>2, <1>6
  <2>2. CASE i = Len(stack)
    BY <1>1, <1>2, <2>1, <2>2 DEF Top
  <2>3. CASE i # Len(stack)
    <3>1. i \in 1..Len(stack) - 1 /\ stack'[i + 1] = stack[i + 1]
      BY <1>1, <1>2, <2>1, <2>3
    <3> QED
      BY <2>1, <3>1 DEF SearchInv, Linked
  <2> QED
    BY <2>2, <2>3
<1>7. Linked(stack)'
  BY <1>3, <1>6 DEF Linked
<1> QED
  BY <1>1, <1>5, <1>7 DEF SearchInv

\* Every link of the stack's end is a link of the stack; the search precedes the placing.
LEMMA CloseKeepsSearch ==
  ASSUME Inv, SearchInv, NEW v \in Tasks, Close(v)
  PROVE  SearchInv'
<1>1. /\ phase = "search" /\ UNCHANGED <<phase, est, edge, color, stack, plan>>
      /\ stack # <<>> /\ v \in Preds(Top)
  BY DEF Close, input, placed
<1>2. PICK i \in DOMAIN stack : stack[i] = v /\ cycle' = SubSeq(stack, i, Len(stack))
  BY DEF Close
<1>3. stack \in Seq(Tasks) /\ Len(stack) \in Nat /\ i \in 1..Len(stack)
  BY <1>2 DEF Inv, TypeOK
<1>4. /\ Len(cycle') = Len(stack) - i + 1
      /\ \A j \in 1..Len(stack) - i + 1 : cycle'[j] = stack[i + j - 1]
  BY <1>2, <1>3
<1>5. /\ Tasks' = Tasks /\ (\A k : Preds(k)' = Preds(k)) /\ Black' = Black
      /\ Founded' /\ Linked(stack)'
  BY <1>1, SameColors DEF SearchInv
<1>6. ASSUME NEW j \in 1..Len(cycle') - 1 PROVE cycle'[j + 1] \in Preds(cycle'[j])
  <2>1. i + j - 1 \in 1..Len(stack) - 1 /\ j \in 1..Len(stack) - i + 1 /\ j + 1 \in 1..Len(stack) - i + 1
    BY <1>3, <1>4
  <2>2. cycle'[j] = stack[i + j - 1] /\ cycle'[j + 1] = stack[(i + j - 1) + 1]
    BY <1>3, <1>4, <2>1
  <2> QED
    BY <2>1, <2>2 DEF SearchInv, Linked
<1>7. cycle'[1] = v /\ cycle'[Len(cycle')] = Top
  <2>1. 1 \in 1..Len(stack) - i + 1 /\ Len(stack) - i + 1 \in 1..Len(stack) - i + 1
    BY <1>3
  <2>2. i + 1 - 1 = i /\ i + (Len(stack) - i + 1) - 1 = Len(stack)
    BY <1>3
  <2>3. cycle'[1] = stack[i] /\ cycle'[Len(stack) - i + 1] = stack[Len(stack)]
    BY <1>4, <2>1, <2>2
  <2> QED
    BY <1>2, <1>4, <2>3 DEF Top
<1>8. Placed' = {}
  BY <1>1 DEF Inv, Placed
<1> QED
  BY <1>1, <1>5, <1>6, <1>7, <1>8 DEF SearchInv, Linked

\* A task turns black when its predecessors are: no set gets a way round through it.
LEMMA LeaveKeepsSearch ==
  ASSUME Inv, SearchInv, Leave
  PROVE  SearchInv'
<1>1. /\ phase = "search" /\ UNCHANGED <<phase, est, edge, cycle>> /\ cycle = <<>> /\ stack # <<>>
      /\ \A v \in Preds(Top) : color[v] = "black"
      /\ color' = [color EXCEPT ![Top] = "black"]
      /\ stack' = SubSeq(stack, 1, Len(stack) - 1)
  BY DEF Leave, input
<1>2. color \in [Tasks -> {"white", "gray", "black"}] /\ stack \in Seq(Tasks) /\ Len(stack) \in Nat
  BY DEF Inv, TypeOK
<1>3. Top \in Tasks /\ Len(stack) > 0
  BY <1>1, <1>2 DEF Top
<1>4. Tasks' = Tasks /\ \A j : Preds(j)' = Preds(j)
  BY <1>1, SameColors
<1>5. Black' = Black \cup {Top} /\ Preds(Top) \subseteq Black
  BY <1>1, <1>2, <1>3, <1>4 DEF Black, Preds
<1>6. \A k \in Black' : Preds(k) \subseteq Black'
  BY <1>5 DEF SearchInv, Founded
<1>7. ASSUME NEW s \in SUBSET Black', s # {} PROVE \E k \in s : Preds(k) \cap s = {}
  <2>1. CASE s \subseteq Black
    BY <1>7, <2>1 DEF SearchInv, Founded
  <2>2. CASE ~(s \subseteq Black)
    <3>1. Top \in s /\ Top \notin Black /\ s \ {Top} \subseteq Black
      BY <1>5, <2>2
    <3>2. CASE s \ {Top} = {}
      BY <1>5, <3>1, <3>2
    <3>3. CASE s \ {Top} # {}
      <4>1. PICK k \in s \ {Top} : Preds(k) \cap (s \ {Top}) = {}
        BY <3>1, <3>3 DEF SearchInv, Founded
      <4>2. Top \notin Preds(k)
        BY <3>1 DEF SearchInv, Founded
      <4> QED
        BY <4>1, <4>2
    <3> QED
      BY <3>2, <3>3
  <2> QED
    BY <2>1, <2>2
<1>8. Founded'
  BY <1>4, <1>6, <1>7 DEF Founded
<1>9. Len(stack') = Len(stack) - 1 /\ \A i \in 1..Len(stack) - 1 : stack'[i] = stack[i]
  <2>1. Len(stack) - 1 \in Nat /\ 1 \in 1..Len(stack)
    BY <1>2, <1>3
  <2>2. PICK n \in Nat : n = Len(stack) - 1
    BY <2>1
  <2>3. stack' = SubSeq(stack, 1, n) /\ n \in 0..Len(stack)
    BY <1>1, <1>2, <2>2
  <2>4. stack' = [i \in 1..n |-> stack[i]]
    BY <1>2, <2>3
  <2>5. Len(stack') = n
    BY <2>3, <1>2
  <2> QED
    BY <2>2, <2>4, <2>5
<1>10. Linked(stack)'
  BY <1>2, <1>4, <1>9 DEF SearchInv, Linked
<1> QED
  BY <1>1, <1>8, <1>10 DEF SearchInv

LEMMA PhaseKeepsSearch ==
  ASSUME Inv, SearchInv, Read \/ Searched \/ Finish \/ UNCHANGED vars
  PROVE  SearchInv'
<1>1. UNCHANGED <<est, edge, color, stack, cycle, plan>>
  BY DEF Read, Searched, Finish, vars, input, search, placed
<1>2. /\ Tasks' = Tasks /\ (\A k : Preds(k)' = Preds(k)) /\ Black' = Black /\ Founded'
      /\ Linked(stack)' /\ (Linked(cycle) => Linked(cycle)')
  BY <1>1, SameColors DEF SearchInv
<1>3. Placed' = Placed /\ Ready' = Ready
  BY <1>1, <1>2 DEF Placed, Ready
<1>4. CASE Searched
  <2>1. phase' = "place" /\ (cycle = <<>> => Black = Tasks)
    BY <1>4 DEF Searched, Black
  <2> QED
    BY <1>1, <1>2, <1>3, <2>1 DEF SearchInv
<1>5. CASE Read
  <2>1. phase' = "search"
    BY <1>5 DEF Read
  <2> QED
    BY <1>1, <1>2, <1>3, <2>1 DEF SearchInv
<1>6. CASE Finish
  <2>1. phase = "place" /\ phase' = "done" /\ Ready = {}
    BY <1>6 DEF Finish
  <2> QED
    BY <1>1, <1>2, <1>3, <2>1 DEF SearchInv
<1>7. CASE UNCHANGED vars
  <2>1. phase' = phase
    BY <1>7 DEF vars
  <2> QED
    BY <1>1, <1>2, <1>3, <2>1 DEF SearchInv
<1> QED
  BY <1>4, <1>5, <1>6, <1>7

\* A task of the cycle is never ready: the next one in it would have to be placed.
LEMMA PlaceKeepsSearch ==
  ASSUME Inv, SearchInv, NEW k \in Tasks, Place(k)
  PROVE  SearchInv'
<1>1. phase = "place" /\ UNCHANGED <<phase, est, edge, color, stack, cycle>> /\ k \in Ready
  BY DEF Place, input, search
<1>2. Placed' = Placed \cup {k}
  BY DEF Place, Placed
<1>3. /\ Tasks' = Tasks /\ (\A j : Preds(j)' = Preds(j)) /\ Black' = Black /\ Founded'
      /\ Linked(stack)' /\ (Linked(cycle) => Linked(cycle)')
  BY <1>1, SameColors DEF SearchInv
<1>4. ASSUME cycle # <<>>, NEW i \in 1..Len(cycle) PROVE cycle[i] # k
  <2>1. cycle \in Seq(Tasks) /\ Len(cycle) \in Nat
    BY DEF Inv, TypeOK
  <2>2. PICK j \in 1..Len(cycle) : cycle[j] \in Preds(cycle[i])
    <3>1. CASE i = Len(cycle)
      BY <1>4, <2>1, <3>1 DEF SearchInv
    <3>2. CASE i # Len(cycle)
      <4>1. i \in 1..Len(cycle) - 1 /\ i + 1 \in 1..Len(cycle)
        BY <2>1, <3>2
      <4> QED
        BY <1>4, <4>1 DEF SearchInv, Linked
    <3> QED
      BY <3>1, <3>2
  <2> QED
    BY <1>1, <1>4, <2>2 DEF SearchInv, Ready
<1> QED
  BY <1>1, <1>2, <1>3, <1>4 DEF SearchInv

\* A cycle that is reported is one, and the scheduler gives up exactly when there is one
\* (find_cycle, list_schedule).
THEOREM SearchIsRight == Spec => []SearchDecides
<1>1. ASSUME Inv, SearchInv, [Next]_vars PROVE Inv' /\ SearchInv'
  <2>1. Inv'
    BY <1>1, AddKeeps, SearchKeeps, PlaceKeeps DEF Next
  <2>2. SearchInv'
    BY <1>1, AddKeepsSearch, EnterKeepsSearch, CloseKeepsSearch, LeaveKeepsSearch,
       PhaseKeepsSearch, PlaceKeepsSearch DEF Next
  <2> QED
    BY <2>1, <2>2
<1>2. ASSUME Inv, SearchInv PROVE SearchDecides
  <2>1. ASSUME phase = "done", cycle = <<>> PROVE Placed = Tasks
    <3>1. Black = Tasks /\ Ready = {} /\ Placed \subseteq Tasks
      BY <1>2, <2>1 DEF SearchInv, Inv, TypeOK
    <3>2. ASSUME Tasks \ Placed # {} PROVE FALSE
      <4>1. PICK k \in Tasks \ Placed : Preds(k) \cap (Tasks \ Placed) = {}
        BY <1>2, <3>1, <3>2 DEF SearchInv, Founded
      <4>2. Preds(k) \subseteq Placed
        BY <4>1 DEF Preds
      <4> QED
        BY <3>1, <4>2 DEF Ready
    <3> QED
      BY <3>1, <3>2
  <2>2. ASSUME cycle # <<>> PROVE Placed # Tasks
    <3>1. cycle \in Seq(Tasks) /\ 1 \in 1..Len(cycle)
      BY <1>2, <2>2 DEF Inv, TypeOK
    <3>2. cycle[1] \in Tasks /\ cycle[1] \notin Placed
      BY <1>2, <2>2, <3>1 DEF SearchInv
    <3> QED
      BY <3>2
  <2> QED
    BY <1>2, <2>1, <2>2 DEF SearchDecides, SearchInv, Linked
<1> QED
  BY InitInv, InitSearch, <1>1, <1>2, PTL DEF Spec

-----------------------------------------------------------------------------
(* Transcript: greatest elements, and what a reader makes of one more line. *)

LEMMA LeastElement ==
  ASSUME NEW T \in SUBSET Nat, T # {}
  PROVE  \E n \in T : \A m \in T : n <= m
<1>1. PICK n \in T : \A m \in T : ~(<<m, n>> \in OpToRel(<, Nat))
  BY NatLessThanWellFounded, WFMin, Zenon
<1>2. \A m \in T : <<m, n>> \in OpToRel(<, Nat) <=> m < n
  BY Zenon DEF OpToRel
<1>3. \A m \in T : ~(m < n)
  BY <1>1, <1>2, Zenon
<1> QED
  BY <1>3

LEMMA GreatestElement ==
  ASSUME NEW n \in Nat, NEW t \in SUBSET (1..n), t # {}
  PROVE  /\ Max(t) \in t
         /\ \A x \in t : x <= Max(t)
<1> DEFINE T == {n - x : x \in t}
<1>1. T \in SUBSET Nat /\ T # {}
  <2>1. \A x \in t : n - x \in Nat
    OBVIOUS
  <2> QED
    BY <2>1
<1>2. PICK m \in T : \A k \in T : m <= k
  BY <1>1, LeastElement
<1>3. \E x \in t : \A y \in t : x >= y
  BY <1>2
<1> QED
  BY <1>3 DEF Max

LEMMA MaxIs ==
  ASSUME NEW t \in SUBSET Nat, NEW x \in t, \A y \in t : y <= x
  PROVE  Max(t) = x
<1>1. \E m \in t : \A y \in t : m >= y
  OBVIOUS
<1>2. Max(t) \in t /\ \A y \in t : Max(t) >= y
  BY <1>1 DEF Max
<1>3. Max(t) \in Nat /\ x \in Nat /\ Max(t) >= x /\ Max(t) <= x
  BY <1>2
<1> QED
  BY <1>3

\* The entries are those before a line is appended, and the new one.
LEMMA OneMore ==
  ASSUME NEW s \in Seq(Entry), NEW e \in Entry
  PROVE  LET t == Append(s, e)
         IN  /\ t \in Seq(Entry) /\ t # <<>> /\ Len(t) = Len(s) + 1
             /\ DOMAIN t = DOMAIN s \cup {Len(s) + 1}
             /\ \A i \in DOMAIN s : t[i] = s[i]
             /\ Last(t) = e /\ t[Len(s) + 1] = e
             /\ Front(t) = s
<1>1. /\ Append(s, e) \in Seq(Entry) /\ Append(s, e) # <<>> /\ Len(Append(s, e)) = Len(s) + 1
      /\ \A i \in 1..Len(s) : Append(s, e)[i] = s[i]
      /\ Append(s, e)[Len(s) + 1] = e
  BY AppendProperties
<1>2. Len(s) \in Nat /\ DOMAIN s = 1..Len(s) /\ DOMAIN Append(s, e) = 1..Len(s) + 1
  BY <1>1, LenProperties
<1>3. Front(Append(s, e)) = s
  <2>1. Front(Append(s, e)) = SubSeq(Append(s, e), 1, Len(s))
    BY <1>1, <1>2 DEF Front
  <2>2. /\ SubSeq(Append(s, e), 1, Len(s)) \in Seq(Entry)
        /\ Len(SubSeq(Append(s, e), 1, Len(s))) = Len(s)
        /\ \A i \in 1..Len(s) : SubSeq(Append(s, e), 1, Len(s))[i] = s[i]
    <3>1. \A i \in 1..Len(s) : Append(s, e)[i] \in Entry
      BY <1>1, <1>2, ElementOfSeq
    <3> QED
      BY <1>1, <1>2, <3>1, SubSeqProperties
  <2> QED
    BY <1>2, <2>1, <2>2, SeqEqual
<1> QED
  BY <1>1, <1>2, <1>3 DEF Last

\* A line that is no part of the conversation changes nothing about how it ends.
LEMMA NotesDoNotTalk ==
  ASSUME NEW s \in Seq(Entry), NEW e \in Entry, e.kind = "meta"
  PROVE  TerminalFinal(Append(s, e)) = TerminalFinal(s)
<1> DEFINE t == Append(s, e)
<1>1. /\ DOMAIN t = DOMAIN s \cup {Len(s) + 1} /\ t[Len(s) + 1] = e
      /\ \A i \in DOMAIN s : t[i] = s[i]
      /\ DOMAIN s = 1..Len(s) /\ Len(s) \in Nat
  BY OneMore, LenProperties
<1> HIDE DEF t
<1>2. Talk(t) = Talk(s)
  BY <1>1 DEF Talk
<1>3. Talk(s) # {} => Max(Talk(s)) \in DOMAIN s
  BY <1>1, GreatestElement DEF Talk
<1> QED
  BY <1>1, <1>2, <1>3 DEF TerminalFinal, t

LEMMA TalkIsLast ==
  ASSUME NEW s \in Seq(Entry), NEW e \in Entry, e.kind # "meta"
  PROVE  TerminalFinal(Append(s, e)) = IF Concludes(e) THEN e.id ELSE None
<1> DEFINE t == Append(s, e)
<1>1. /\ DOMAIN t = DOMAIN s \cup {Len(s) + 1} /\ t[Len(s) + 1] = e
      /\ DOMAIN s = 1..Len(s) /\ Len(s) \in Nat
  BY OneMore, LenProperties
<1> HIDE DEF t
<1>2. Len(s) + 1 \in Talk(t)
  BY <1>1 DEF Talk, Entry, Kinds
<1>3. Max(Talk(t)) = Len(s) + 1
  <2>1. Talk(t) \in SUBSET (1..Len(s) + 1)
    BY <1>1 DEF Talk
  <2> QED
    BY <1>1, <1>2, <2>1, MaxIs
<1> QED
  BY <1>1, <1>2, <1>3 DEF TerminalFinal, t

\* The text that ends the conversation is the last there is.
LEMMA FinalIsLastText ==
  ASSUME NEW s \in Seq(Entry), TerminalFinal(s) # None
  PROVE  TerminalFinal(s) = LastText(s)
<1>1. Talk(s) # {} /\ Concludes(s[Max(Talk(s))]) /\ TerminalFinal(s) = s[Max(Talk(s))].id
  BY DEF TerminalFinal
<1>2. Len(s) \in Nat /\ Talk(s) \in SUBSET (1..Len(s)) /\ Said(s) \in SUBSET Talk(s)
  BY LenProperties DEF Talk, Said
<1>3. Max(Talk(s)) \in Talk(s) /\ \A i \in Talk(s) : i <= Max(Talk(s))
  BY <1>1, <1>2, GreatestElement
<1>4. Max(Talk(s)) \in Said(s)
  BY <1>1, <1>3 DEF Talk, Said, Concludes
<1>5. Max(Said(s)) = Max(Talk(s))
  BY <1>2, <1>3, <1>4, MaxIs
<1> QED
  BY <1>1, <1>4, <1>5 DEF LastText

Ids(s)   == {e.id : e \in {f \in ToSet(s) : f.kind = "assistant"}}
Calling(s) == {s[i].use : i \in Asking(s)}

LEMMA OneMoreId ==
  ASSUME NEW s \in Seq(Entry), NEW e \in Entry
  PROVE  /\ Ids(Append(s, e)) = Ids(s) \cup (IF e.kind = "assistant" THEN {e.id} ELSE {})
         /\ Calling(Append(s, e)) = Calling(s) \cup (IF "tool_use" \in e.blocks THEN {e.use} ELSE {})
<1> DEFINE t == Append(s, e)
<1>1. /\ DOMAIN t = DOMAIN s \cup {Len(s) + 1} /\ t[Len(s) + 1] = e
      /\ \A i \in DOMAIN s : t[i] = s[i]
  BY OneMore
<1> HIDE DEF t
<1>2. ToSet(t) = ToSet(s) \cup {e}
  BY <1>1 DEF ToSet
<1>3. Ids(t) = Ids(s) \cup (IF e.kind = "assistant" THEN {e.id} ELSE {})
  BY <1>2 DEF Ids
<1>4. Asking(t) = Asking(s) \cup (IF "tool_use" \in e.blocks THEN {Len(s) + 1} ELSE {})
  BY <1>1 DEF Asking
<1>5. Calling(t) = Calling(s) \cup (IF "tool_use" \in e.blocks THEN {e.use} ELSE {})
  BY <1>1, <1>4 DEF Calling, Asking
<1> QED
  BY <1>3, <1>5 DEF t

-----------------------------------------------------------------------------
(* The session and its readers. *)

SessionTyped ==
  /\ log \in Seq(Entry) /\ log # <<>> /\ torn \in BOOLEAN
  /\ resp \in Nat /\ ends \in Stops \cup {None} /\ over \in BOOLEAN
  /\ made \in Nat /\ asked \in BOOLEAN

\* A summary under way was keyed by a size the file had before it was walked.
Fresh ==
  /\ \A size \in DOMAIN cache : size \in Nat /\ cache[size] \in Nat /\ cache[size] >= WholeAt(size)
  /\ key \in [Readers -> Nat] /\ got \in [Readers -> Nat] /\ pc \in [Readers -> {"idle", "keyed", "walked"}]
  /\ \A r \in Readers :
       /\ pc[r] \in {"keyed", "walked"} => key[r] <= Size
       /\ pc[r] = "walked" => got[r] >= WholeAt(key[r])

\* What ends the whole transcript ends the turn; what ends it without its torn line did so
\* until somebody spoke.
Ended ==
  /\ over => ends = None
  /\ TerminalFinal(log) # None => TerminalFinal(log) = resp /\ over
  /\ torn /\ TerminalFinal(Front(log)) # None =>
       TerminalFinal(Front(log)) = resp /\ (over \/ Last(log).kind = "user")

\* Every response but the one under way has an entry, and it, too, once it has asked for a
\* tool; every call has a block.
Counted ==
  /\ Calling(log) = 1..made /\ (asked => resp \in Ids(log))
  /\ Ids(log) \subseteq 1..resp /\ 1..resp - 1 \subseteq Ids(log)
  /\ ends = None => Ids(log) = 1..resp
  /\ ends # None => resp \in 1..resp

SessionInv == SessionTyped /\ Fresh /\ Ended /\ Counted

LEMMA LenIsNat == \A s \in Seq(Entry) : Len(s) \in Nat /\ (s # <<>> => Len(s) > 0)
BY LenProperties, EmptySeq

LEMMA SizeIsNat == SessionTyped => Size \in Nat
BY LenIsNat DEF SessionTyped, Size

LEMMA WriteGrows ==
  ASSUME SessionTyped, NEW e \in Entry, Write(e)
  PROVE  /\ log' = Append(log, e) /\ log' \in Seq(Entry) /\ log' # <<>> /\ torn' \in BOOLEAN /\ ~torn
         /\ Size' \in Nat /\ Size \in Nat /\ Size' >= Size
         /\ Front(log') = log /\ Last(log') = e
<1>1. log \in Seq(Entry) /\ log' = Append(log, e) /\ ~torn /\ torn' \in BOOLEAN
  BY DEF SessionTyped, Write
<1>2. /\ log' \in Seq(Entry) /\ log' # <<>> /\ Len(log') = Len(log) + 1
      /\ Front(log') = log /\ Last(log') = e
  BY <1>1, OneMore
<1>3. Len(log) \in Nat
  BY <1>1, LenIsNat
<1> QED
  BY <1>1, <1>2, <1>3 DEF Size

LEMMA FreshStays ==
  ASSUME Fresh, UNCHANGED readers, Size \in Nat, Size' \in Nat, Size' >= Size
  PROVE  Fresh'
BY DEF Fresh, readers, WholeAt

\* The end of the conversation and the counts after one more line.
LEMMA WriteEnds ==
  ASSUME SessionInv, NEW e \in Entry, Write(e), resp' = resp,
         over' => ends' = None,
         IF Concludes(e) THEN over' /\ e.id = resp
         ELSE e.kind = "meta" => over' = over,
         over => over' \/ e.kind = "user"
  PROVE  Ended'
<1>1. /\ log \in Seq(Entry) /\ log' = Append(log, e) /\ ~torn
      /\ Front(log') = log /\ Last(log') = e
  BY WriteGrows DEF SessionInv, SessionTyped
<1>2. TerminalFinal(log) # None => TerminalFinal(log) = resp /\ over
  BY DEF SessionInv, Ended
<1>3. TerminalFinal(log') # None => TerminalFinal(log') = resp /\ over'
  <2>1. CASE e.kind = "meta"
    <3>1. TerminalFinal(log') = TerminalFinal(log)
      BY <1>1, <2>1, NotesDoNotTalk
    <3>2. ~Concludes(e)
      BY <2>1 DEF Concludes
    <3> QED
      BY <1>2, <2>1, <3>1, <3>2
  <2>2. CASE e.kind # "meta"
    BY <1>1, <2>2, TalkIsLast
  <2> QED
    BY <2>1, <2>2
<1> QED
  BY <1>1, <1>2, <1>3 DEF Ended

LEMMA SaysIsEntry ==
  ASSUME NEW id \in Nat, NEW blocks \in SUBSET BlockKinds, NEW call \in Calls \cup {None},
         NEW use \in Nat, NEW stop \in Stops \cup {None}
  PROVE  /\ Says(id, blocks, call, use, stop) \in Entry
         /\ Says(id, blocks, call, use, stop).kind = "assistant"
         /\ Says(id, blocks, call, use, stop).id = id
         /\ Says(id, blocks, call, use, stop).blocks = blocks
         /\ Says(id, blocks, call, use, stop).stop = stop
         /\ Says(id, blocks, call, use, stop).use = use
BY DEF Says, Entry, Kinds

LEMMA FromIsEntry ==
  ASSUME NEW user \in Kinds, NEW blocks \in SUBSET BlockKinds
  PROVE  /\ From(user, blocks) \in Entry
         /\ From(user, blocks).kind = user
         /\ From(user, blocks).blocks = blocks
BY DEF From, Entry

LEMMA InitSession == SessionInit => SessionInv
<1> SUFFICES ASSUME SessionInit PROVE SessionInv
  OBVIOUS
<1>1. PICK past \in [1..Past -> Calls] :
        log = [i \in 1..2 * Past + 1 |->
                IF i = 1 THEN From("user", {"text"})
                ELSE IF i % 2 = 0
                     THEN Says(i \div 2, {"tool_use"}, past[i \div 2], i \div 2, "tool_use")
                ELSE From("user", {"tool_result"})]
  BY DEF SessionInit
<1>2. PICK n \in Nat : n = 2 * Past + 1 /\ Past \in Nat
  BY NatAssumption
<1>3. ASSUME NEW i \in 1..n
      PROVE  /\ log[i] \in Entry
             /\ i % 2 = 0 => /\ i \div 2 \in 1..Past /\ log[i].kind = "assistant"
                             /\ log[i].id = i \div 2 /\ log[i].blocks = {"tool_use"}
                             /\ log[i].use = i \div 2
             /\ i % 2 # 0 => log[i].kind = "user" /\ "tool_use" \notin log[i].blocks
  <2>1. CASE i % 2 = 0
    <3>1. log[i] = Says(i \div 2, {"tool_use"}, past[i \div 2], i \div 2, "tool_use")
      BY <1>1, <1>2, <2>1
    <3>2. i \div 2 \in 1..Past /\ i \div 2 \in Nat
      BY <1>2, <2>1
    <3>3. past[i \div 2] \in Calls \cup {None} /\ {"tool_use"} \in SUBSET BlockKinds /\ "tool_use" \in Stops \cup {None}
      BY <3>2 DEF BlockKinds, Stops
    <3>4. PICK k \in Nat : k = i \div 2
      BY <3>2
    <3>5. log[i] = Says(k, {"tool_use"}, past[k], k, "tool_use")
      BY <3>1, <3>4
    <3>6. /\ log[i] \in Entry /\ log[i].kind = "assistant" /\ log[i].id = k
          /\ log[i].blocks = {"tool_use"} /\ log[i].use = k
      BY <3>3, <3>4, <3>5, SaysIsEntry
    <3> QED
      BY <2>1, <3>2, <3>4, <3>6
  <2>2. CASE i % 2 # 0
    <3>1. log[i] = From("user", {"text"}) \/ log[i] = From("user", {"tool_result"})
      BY <1>1, <1>2, <2>2
    <3>2. {"text"} \in SUBSET BlockKinds /\ {"tool_result"} \in SUBSET BlockKinds /\ "user" \in Kinds
      BY DEF BlockKinds, Kinds
    <3> QED
      BY <2>2, <3>1, <3>2, FromIsEntry
  <2> QED
    BY <2>1, <2>2
<1>4. DOMAIN log = 1..n /\ log \in Seq(Entry) /\ log # <<>> /\ Len(log) = n
  <2>1. log = [i \in 1..n |-> log[i]]
    BY <1>1, <1>2
  <2>2. log \in [1..n -> Entry]
    BY <1>3, <2>1
  <2>3. log \in Seq(Entry) /\ Len(log) = n
    BY <2>2, LenProperties
  <2> QED
    BY <1>2, <2>1, <2>3, EmptySeq, LenIsNat
<1>5. SessionTyped
  BY <1>2, <1>4, NatAssumption DEF SessionInit, SessionTyped
<1>6. Fresh
  BY DEF SessionInit, Fresh
<1>7. TerminalFinal(log) = None
  <2>1. n \in Talk(log) /\ log[n].kind = "user"
    <3>1. n \in 1..n /\ n % 2 # 0
      BY <1>2
    <3> QED
      BY <1>3, <1>4, <3>1 DEF Talk
  <2>2. Max(Talk(log)) = n
    <3>1. Talk(log) \in SUBSET (1..n)
      BY <1>4 DEF Talk
    <3> QED
      BY <1>2, <2>1, <3>1, MaxIs
  <2> QED
    BY <2>1, <2>2 DEF TerminalFinal, Concludes
<1>8. Ids(log) = 1..Past /\ Calling(log) = 1..Past
  <2>1. ASSUME NEW x \in 1..Past
        PROVE  2 * x \in 1..n /\ (2 * x) % 2 = 0 /\ (2 * x) \div 2 = x
    BY <1>2
  <2>2. \A f : f \in ToSet(log) <=> \E i \in 1..n : f = log[i]
    BY <1>4 DEF ToSet
  <2>3. \A x \in 1..Past : \E i \in 1..n : /\ log[i].id = x /\ log[i].kind = "assistant"
                                           /\ log[i].use = x /\ "tool_use" \in log[i].blocks
    BY <1>3, <2>1
  <2>4. Ids(log) = 1..Past
    BY <1>3, <2>2, <2>3 DEF Ids
  <2>5. Calling(log) = 1..Past
    BY <1>3, <1>4, <2>3 DEF Calling, Asking
  <2> QED
    BY <2>4, <2>5
<1>9. Ended
  BY <1>7 DEF SessionInit, Ended
<1>10. Counted
  <2>1. made = Past /\ resp = Past /\ ends = None /\ ~asked
    BY DEF SessionInit
  <2>2. 1..Past - 1 \subseteq 1..Past
    BY <1>2
  <2> QED
    BY <1>8, <2>1, <2>2 DEF Counted
<1> QED
  BY <1>5, <1>6, <1>9, <1>10 DEF SessionInv

\* What a line changes about the counts.
LEMMA WriteCounts ==
  ASSUME SessionInv, NEW e \in Entry, Write(e)
  PROVE  /\ Ids(log') = Ids(log) \cup (IF e.kind = "assistant" THEN {e.id} ELSE {})
         /\ Calling(log') = Calling(log) \cup (IF "tool_use" \in e.blocks THEN {e.use} ELSE {})
BY WriteGrows, OneMoreId DEF SessionInv, SessionTyped

\* A line of someone other than the agent.
LEMMA OthersWrite ==
  ASSUME SessionInv, WriteRest \/ Result \/ Resume \/ Note
  PROVE  SessionInv'
<1> USE DEF SessionInv
<1>1. CASE WriteRest
  <2>1. /\ torn /\ torn' = FALSE /\ UNCHANGED <<log, resp, ends, made, asked, over>> /\ UNCHANGED readers
        /\ Len(log) \in Nat /\ Len(log) > 0
    BY <1>1, LenIsNat DEF WriteRest, SessionTyped, agent
  <2>2. Size' \in Nat /\ Size \in Nat /\ Size' >= Size
    BY <2>1 DEF Size
  <2>3. Fresh'
    BY <2>1, <2>2, FreshStays
  <2>4. SessionTyped' /\ Ended' /\ Counted'
    <3>1. Ids(log') = Ids(log) /\ Calling(log') = Calling(log)
      BY <2>1
    <3>2. Counted'
      BY <2>1, <3>1 DEF Counted
    <3>3. SessionTyped'
      BY <2>1 DEF SessionTyped
    <3>4. Ended'
      <4>1. TerminalFinal(log') = TerminalFinal(log)
        BY <2>1
      <4> QED
        BY <2>1, <4>1 DEF Ended
    <3> QED
      BY <3>2, <3>3, <3>4
  <2> QED
    BY <2>3, <2>4
<1>2. ASSUME NEW e \in Entry, Write(e), e.kind # "assistant", "tool_use" \notin e.blocks, UNCHANGED readers,
             resp' = resp, made' = made, asked' = asked, over' \in BOOLEAN, ends' \in Stops \cup {None},
             ends' # None => ends # None, ends' = None => ends = None \/ asked,
             over' => ends' = None, e.kind = "meta" => over' = over, over => over' \/ e.kind = "user"
      PROVE  SessionInv'
  <2>1. SessionTyped'
    BY <1>2, WriteGrows DEF SessionTyped
  <2>2. Fresh'
    BY <1>2, WriteGrows, FreshStays
  <2>3. Ended'
    <3>1. ~Concludes(e)
      BY <1>2 DEF Concludes
    <3> QED
      BY <1>2, <3>1, WriteEnds
  <2>4. Ids(log') = Ids(log) /\ Calling(log') = Calling(log)
    BY <1>2, WriteCounts
  <2>5. Counted'
    <3>1. ends' = None => Ids(log) = 1..resp
      <4>1. asked => 1..resp \subseteq (1..resp - 1) \cup {resp}
        BY DEF Counted, SessionTyped
      <4> QED
        BY <1>2, <4>1 DEF Counted
    <3> QED
      BY <1>2, <2>4, <3>1 DEF Counted
  <2> QED
    BY <2>1, <2>2, <2>3, <2>5
<1>3. CASE Result
  <2>1. From("user", {"tool_result"}) \in Entry
    BY FromIsEntry DEF Kinds, BlockKinds
  <2>2. /\ From("user", {"tool_result"}).kind = "user"
        /\ From("user", {"tool_result"}).blocks = {"tool_result"}
    BY DEF From
  <2>3. /\ asked /\ ends' = None /\ UNCHANGED <<resp, made, asked, over>> /\ UNCHANGED readers
        /\ Write(From("user", {"tool_result"}))
    BY <1>3 DEF Result
  <2> QED
    BY <1>2, <2>1, <2>2, <2>3 DEF SessionTyped
<1>4. CASE Resume
  <2>1. From("user", {"text"}) \in Entry
    BY FromIsEntry DEF Kinds, BlockKinds
  <2>2. From("user", {"text"}).kind = "user" /\ From("user", {"text"}).blocks = {"text"}
    BY DEF From
  <2>3. /\ ~over' /\ UNCHANGED <<resp, made, asked, ends>> /\ UNCHANGED readers
        /\ over' \in BOOLEAN /\ Write(From("user", {"text"}))
    BY <1>4 DEF Resume
  <2> QED
    BY <1>2, <2>1, <2>2, <2>3 DEF SessionTyped
<1>5. CASE Note
  <2>1. From("meta", {}) \in Entry
    BY FromIsEntry DEF Kinds, BlockKinds
  <2>2. From("meta", {}).kind = "meta" /\ From("meta", {}).blocks = {}
    BY DEF From
  <2>3. UNCHANGED <<resp, made, asked, ends, over>> /\ UNCHANGED readers /\ Write(From("meta", {}))
    BY <1>5 DEF Note, agent
  <2> QED
    BY <1>2, <2>1, <2>2, <2>3 DEF SessionTyped, Ended
<1> QED
  BY <1>1, <1>3, <1>4, <1>5

\* The agent begins a response, or writes a line of one.
LEMMA AgentWrites ==
  ASSUME SessionInv,
         \/ \E how \in Stops : Respond(how)
         \/ \E blocks \in SUBSET BlockKinds, stop \in Stops \cup {None} : Narrate(blocks, stop)
         \/ \E blocks \in SUBSET BlockKinds, call \in Calls : Call(blocks, call)
         \/ Again
         \/ \E blocks \in SUBSET BlockKinds : EndTurn(blocks)
  PROVE  SessionInv'
<1> USE DEF SessionInv
<1>1. ASSUME NEW how \in Stops, Respond(how) PROVE SessionInv'
  <2>1. /\ ends = None /\ ~over /\ ~torn /\ resp' = resp + 1 /\ ends' = how
        /\ asked' = FALSE /\ UNCHANGED <<log, torn, made, over>> /\ UNCHANGED readers
    BY <1>1 DEF Respond
  <2>2. Size' = Size /\ Size \in Nat
    BY <2>1, SizeIsNat DEF Size
  <2>3. Fresh'
    BY <2>1, <2>2, FreshStays
  <2>4. SessionTyped'
    <3>1. asked' \in BOOLEAN
      BY <2>1
    <3> QED
      BY <2>1, <3>1 DEF SessionTyped
  <2>5. how # None
    BY NoneAssumption DEF Stops
  <2>6. Ended'
    BY <2>1 DEF Ended
  <2>7. Counted'
    BY <2>1, <2>5 DEF Counted, SessionTyped
  <2> QED
    BY <2>3, <2>4, <2>6, <2>7
<1>2. ASSUME NEW blocks \in SUBSET BlockKinds, NEW call \in Calls \cup {None}, NEW use \in Nat,
             NEW stop \in Stops \cup {None}, Write(Says(resp, blocks, call, use, stop)), UNCHANGED readers, resp' = resp, ends # None,
             over' \in BOOLEAN, ends' \in {ends, None}, over' => ends' = None,
             made' \in Nat, 1..made' = (1..made) \cup (IF "tool_use" \in blocks THEN {use} ELSE {}),
             asked' \in BOOLEAN,
             stop = "end_turn" /\ "tool_use" \notin blocks /\ "text" \in blocks => over'
      PROVE  SessionInv'
  <2> DEFINE e == Says(resp, blocks, call, use, stop)
  <2>1. /\ e \in Entry /\ e.kind = "assistant" /\ e.id = resp /\ e.blocks = blocks /\ e.stop = stop
        /\ e.use = use
    <3>1. resp \in Nat
      BY DEF SessionTyped
    <3> QED
      BY <3>1, SaysIsEntry
  <2> HIDE DEF e
  <2>2. Write(e)
    BY <1>2 DEF e
  <2>3. SessionTyped'
    BY <1>2, <2>1, <2>2, WriteGrows DEF SessionTyped
  <2>4. Fresh'
    BY <1>2, <2>1, <2>2, WriteGrows, FreshStays
  <2>5. ~over
    BY <1>2 DEF Ended
  <2>6. Concludes(e) <=> stop = "end_turn" /\ "tool_use" \notin blocks /\ "text" \in blocks
    BY <2>1 DEF Concludes
  <2>7. Ended'
    BY <1>2, <2>1, <2>2, <2>5, <2>6, WriteEnds
  <2>8. /\ Ids(log') = Ids(log) \cup {resp}
        /\ Calling(log') = Calling(log) \cup (IF "tool_use" \in blocks THEN {use} ELSE {})
    BY <2>1, <2>2, WriteCounts
  <2>9. resp \in 1..resp /\ 1..resp = (1..resp - 1) \cup {resp}
    BY <1>2 DEF Counted, SessionTyped
  <2>10. Ids(log') = 1..resp
    BY <2>8, <2>9 DEF Counted
  <2>11. Calling(log') = 1..made' /\ resp' \in Ids(log')
    BY <1>2, <2>8 DEF Counted
  <2>12. Counted'
    BY <1>2, <2>9, <2>10, <2>11 DEF Counted
  <2> QED
    BY <2>3, <2>4, <2>7, <2>12
<1>3. ASSUME NEW blocks \in SUBSET BlockKinds, NEW stop \in Stops \cup {None}, Narrate(blocks, stop)
      PROVE  SessionInv'
  <2>1. /\ ends # None /\ blocks \in {{"thinking"}, {"text"}} /\ (ends = "end_turn" => blocks = {"thinking"})
        /\ stop \in {ends, None} /\ Write(Says(resp, blocks, None, 0, stop))
        /\ UNCHANGED <<resp, ends, made, asked, over>> /\ UNCHANGED readers
    BY <1>3 DEF Narrate, agent
  <2>2. ~(stop = "end_turn" /\ "tool_use" \notin blocks /\ "text" \in blocks) /\ "tool_use" \notin blocks
    BY <2>1, NoneAssumption
  <2>3. over' \in BOOLEAN /\ (over' => ends' = None) /\ made' \in Nat /\ asked' \in BOOLEAN
    BY <2>1 DEF SessionTyped, Ended
  <2> QED
    BY <1>2, <2>1, <2>2, <2>3
<1>4. ASSUME NEW blocks \in SUBSET BlockKinds, NEW call \in Calls, Call(blocks, call)
      PROVE  SessionInv'
  <2>1. /\ ends = "tool_use" /\ "tool_use" \in blocks
        /\ Write(Says(resp, blocks, call, made + 1, "tool_use"))
        /\ UNCHANGED <<resp, ends, over>> /\ UNCHANGED readers /\ made' = made + 1 /\ asked' = TRUE
    BY <1>4 DEF Call
  <2>3. made + 1 \in Nat /\ 1..made + 1 = (1..made) \cup {made + 1}
    BY DEF SessionTyped
  <2>2. ends # None /\ "tool_use" \in Stops \cup {None} /\ over' \in BOOLEAN /\ (over' => ends' = None)
    BY <2>1, NoneAssumption DEF Stops, SessionTyped, Ended
  <2> QED
    BY <1>2, <2>1, <2>2, <2>3
<1>6. CASE Again
  <2>1. PICK i \in Asking(log) : /\ log[i].use = made
                                 /\ Write(Says(resp, {"tool_use"}, log[i].call, made, "tool_use"))
    BY <1>6 DEF Again
  <2>2. ends = "tool_use" /\ UNCHANGED <<resp, ends, made, asked, over>> /\ UNCHANGED readers
    BY <1>6 DEF Again, agent
  <2>3. log[i].call \in Calls \cup {None} /\ made \in Nat /\ 1..made = (1..made) \cup {made}
    <3>1. made \in 1..made
      BY <2>1 DEF Counted, Calling
    <3>2. log[i] \in Entry
      BY LenProperties, ElementOfSeq DEF Asking, SessionTyped
    <3> QED
      BY <3>1, <3>2 DEF Entry, SessionTyped
  <2>4. /\ ends # None /\ "tool_use" \in Stops \cup {None} /\ {"tool_use"} \in SUBSET BlockKinds
        /\ over' \in BOOLEAN /\ (over' => ends' = None) /\ made' \in Nat /\ asked' \in BOOLEAN
    BY <2>2, NoneAssumption DEF Stops, BlockKinds, SessionTyped, Ended
  <2> QED
    BY <1>2, <2>1, <2>2, <2>3, <2>4
<1>5. ASSUME NEW blocks \in SUBSET BlockKinds, EndTurn(blocks) PROVE SessionInv'
  <2>1. /\ ends = "end_turn" /\ "tool_use" \notin blocks /\ Write(Says(resp, blocks, None, 0, "end_turn"))
        /\ UNCHANGED <<resp, made, asked>> /\ UNCHANGED readers /\ ends' = None /\ over' = TRUE
    BY <1>5 DEF EndTurn
  <2>2. ends # None /\ "end_turn" \in Stops \cup {None} /\ made' \in Nat /\ asked' \in BOOLEAN
    BY <2>1, NoneAssumption DEF Stops, SessionTyped
  <2> QED
    BY <1>2, <2>1, <2>2
<1> QED
  BY <1>1, <1>3, <1>4, <1>5, <1>6

\* The readers write nothing.
LEMMA ReadersRead ==
  ASSUME SessionInv, NEW r \in Readers, Stat(r) \/ Walk(r) \/ Keep(r)
  PROVE  SessionInv'
<1> USE DEF SessionInv
<1>0. /\ UNCHANGED <<log, torn, resp, ends, made, asked, over>>
      /\ Size' = Size /\ Size \in Nat
      /\ SessionTyped' /\ Ended' /\ Counted'
  <2>1. UNCHANGED <<log, torn, resp, ends, made, asked, over>>
    BY DEF Stat, Walk, Keep, agent
  <2> QED
    BY <2>1, SizeIsNat DEF Size, SessionTyped, Ended, Counted
<1>1. CASE Stat(r)
  BY <1>0, <1>1 DEF Stat, Fresh
<1>2. CASE Walk(r)
  <2>1. Len(Lines) \in Nat /\ Len(Lines) = WholeAt(Size)
    <3>1. Len(log) \in Nat /\ Len(log) > 0 /\ torn \in BOOLEAN
      BY LenIsNat DEF SessionTyped
    <3>2. Len(Front(log)) = Len(log) - 1
      <4>1. PICK n \in Nat : n = Len(log) - 1
        BY <3>1
      <4>2. \A i \in 1..n : log[i] \in Entry
        BY <3>1, <4>1, ElementOfSeq DEF SessionTyped
      <4>3. Len(SubSeq(log, 1, n)) = n
        BY <4>2, SubSeqProperties
      <4> QED
        BY <4>1, <4>3 DEF Front
    <3> QED
      BY <3>1, <3>2 DEF Lines, Size, WholeAt
  <2>2. key[r] <= Size /\ pc[r] = "keyed"
    BY <1>2 DEF Walk, Fresh
  <2>3. WholeAt(key[r]) <= WholeAt(Size)
    BY <1>0, <2>2 DEF WholeAt, Fresh
  <2>4. cache' = cache \/ cache' = <<>>
    BY <1>2 DEF Walk
  <2> QED
    BY <1>0, <1>2, <2>1, <2>2, <2>3, <2>4 DEF Walk, Fresh
<1>3. CASE Keep(r)
  <2>1. DOMAIN cache' = DOMAIN cache \cup {key[r]}
    BY <1>3 DEF Keep
  <2>2. \A size \in DOMAIN cache' : cache'[size] = IF size = key[r] THEN got[r] ELSE cache[size]
    BY <1>3 DEF Keep
  <2>3. \A size \in DOMAIN cache' : size \in Nat /\ cache'[size] \in Nat /\ cache'[size] >= WholeAt(size)
    BY <1>3, <2>1, <2>2 DEF Keep, Fresh
  <2> QED
    BY <1>0, <1>3, <2>3 DEF Keep, Fresh
<1> QED
  BY <1>1, <1>2, <1>3

LEMMA SessionInvHolds == SessionSpec => []SessionInv
<1>1. ASSUME SessionInv, [SessionNext]_sessionVars PROVE SessionInv'
  <2>1. CASE UNCHANGED sessionVars
    BY <1>1, <2>1 DEF sessionVars, SessionInv, SessionTyped, Fresh, Ended, Counted, Size
  <2> QED
    BY <1>1, <2>1, OthersWrite, AgentWrites, ReadersRead DEF SessionNext
<1> QED
  BY InitSession, <1>1, PTL DEF SessionSpec

LEMMA LinesAreEntries == ASSUME SessionTyped PROVE Lines \in Seq(Entry)
<1>1. log \in Seq(Entry) /\ log # <<>> /\ Len(log) \in Nat
  BY LenIsNat DEF SessionTyped
<1>2. \A i \in 1..Len(log) - 1 : log[i] \in Entry
  BY <1>1, ElementOfSeq
<1>3. Front(log) \in Seq(Entry)
  BY <1>1, <1>2, SubSeqProperties DEF Front
<1> QED
  BY <1>1, <1>3 DEF Lines

\* A summary is never older than the call that gets it, whatever the threads store and in
\* which order (_transcript_summary's cache, keyed by a stat that precedes the walk).
THEOREM SummariesAreFresh == SessionSpec => []SummaryIsFresh
<1>1. SessionInv => SummaryIsFresh
  BY DEF SessionInv, Fresh, SummaryIsFresh
<1> QED
  BY SessionInvHolds, <1>1, PTL

\* A transcript that is read as ended has ended: with the agent's last text, and with nobody
\* speaking since but in a line still being written (_terminal_final_text).
THEOREM EndsAreProven == SessionSpec => []EndIsProven
<1>1. ASSUME SessionInv PROVE EndIsProven
  <2>1. torn \in BOOLEAN /\ Lines \in Seq(Entry)
    BY <1>1, LinesAreEntries DEF SessionInv, SessionTyped
  <2>3. TerminalFinal(Lines) # None => TerminalFinal(Lines) = LastText(Lines)
    BY <2>1, FinalIsLastText
  <2>4. CASE torn
    BY <1>1, <2>3, <2>4 DEF SessionInv, Ended, EndIsProven, Lines
  <2>5. CASE ~torn
    BY <1>1, <2>3, <2>5 DEF SessionInv, Ended, EndIsProven, Lines
  <2> QED
    BY <2>1, <2>4, <2>5
<1> QED
  BY SessionInvHolds, <1>1, PTL

-----------------------------------------------------------------------------
(* Folds over a transcript, line by line. *)

\* Two computations over the lines are one if they start and go on alike.
Alike(f, w, n) ==
  /\ f[{}] = w[{}]
  /\ \A t \in SUBSET (1..n) : t # {} /\ f[t \ {Max(t)}] = w[t \ {Max(t)}] => f[t] = w[t]

LEMMA FoldsAgree ==
  ASSUME NEW n \in Nat, NEW f, NEW w, Alike(f, w, n)
  PROVE  \A t \in SUBSET (1..n) : f[t] = w[t]
<1> DEFINE T == {k \in 0..n : \E t \in SUBSET (1..k) : f[t] # w[t]}
<1>1. SUFFICES ASSUME T # {} PROVE FALSE
  <2>1. \A t \in SUBSET (1..n) : f[t] # w[t] => n \in T
    OBVIOUS
  <2> QED
    BY <1>1, <2>1
<1>2. T \in SUBSET Nat
  OBVIOUS
<1>3. PICK k \in T : \A m \in T : k <= m
  BY <1>1, <1>2, LeastElement
<1>4. PICK t \in SUBSET (1..k) : f[t] # w[t]
  BY <1>3
<1>5. k \in 0..n /\ t # {} /\ t \in SUBSET (1..n)
  BY <1>3, <1>4 DEF Alike
<1>6. Max(t) \in t /\ \A x \in t : x <= Max(t)
  BY <1>4, <1>5, GreatestElement
<1>7. PICK m \in 1..k : m = Max(t)
  BY <1>4, <1>6
<1>8. t \ {m} \in SUBSET (1..m - 1) /\ m - 1 \in 0..n /\ m - 1 < k
  <2>1. \A x \in t \ {m} : x \in 1..k /\ x <= m /\ x # m
    BY <1>4, <1>6, <1>7
  <2>2. \A x \in t \ {m} : x \in 1..m - 1
    BY <1>7, <2>1
  <2>3. t \ {m} \in SUBSET (1..m - 1)
    BY <2>2
  <2>4. m - 1 \in 0..n /\ m - 1 < k
    BY <1>5, <1>7
  <2> QED
    BY <2>3, <2>4
<1>9. m - 1 \notin T
  BY <1>3, <1>5, <1>8
<1>10. f[t \ {m}] = w[t \ {m}]
  BY <1>8, <1>9
<1> QED
  BY <1>4, <1>5, <1>7, <1>10 DEF Alike

\* stream_transcript's responses, as the fold computes them.
CountFold(iter, s) ==
  iter = [t \in SUBSET DOMAIN s |->
           IF t = {} THEN {}
           ELSE IF s[Max(t)].kind = "assistant" THEN iter[t \ {Max(t)}] \cup {s[Max(t)].id}
           ELSE iter[t \ {Max(t)}]]

LEMMA CountUnfolds ==
  ASSUME NEW s
  PROVE  HistoryTurns(s) = Cardinality((CHOOSE iter : CountFold(iter, s))[DOMAIN s])
BY DEF HistoryTurns, FoldLeft, MapThenFoldSet, CountFold

LEMMA HistoryCountsResponses ==
  ASSUME NEW s \in Seq(Entry)
  PROVE  HistoryTurns(s) = ApiCalls(s)
<1> DEFINE in(t) == {s[i].id : i \in {j \in t : s[j].kind = "assistant"}}
           w     == [t \in SUBSET DOMAIN s |-> in(t)]
           iter  == CHOOSE g : CountFold(g, s)
<1>1. PICK n \in Nat : DOMAIN s = 1..n
  BY LenIsNat, LenProperties
<1>2. \A t \in SUBSET (1..n) : t # {} => Max(t) \in t /\ t \ {Max(t)} \in SUBSET (1..n)
  BY GreatestElement
<1>3. CountFold(w, s)
  <2>1. ASSUME NEW t \in SUBSET (1..n), t # {}
        PROVE  in(t) = IF s[Max(t)].kind = "assistant" THEN in(t \ {Max(t)}) \cup {s[Max(t)].id}
                       ELSE in(t \ {Max(t)})
    <3>1. Max(t) \in t
      BY <1>2, <2>1
    <3>2. {j \in t : s[j].kind = "assistant"} =
            {j \in t \ {Max(t)} : s[j].kind = "assistant"}
              \cup (IF s[Max(t)].kind = "assistant" THEN {Max(t)} ELSE {})
      BY <3>1
    <3> QED
      BY <3>2
  <2>2. in({}) = {}
    OBVIOUS
  <2>3. \A t \in SUBSET (1..n) : w[t] = in(t)
    BY <1>1
  <2> HIDE DEF in
  <2>4. \A t \in SUBSET (1..n) : t # {} => w[t \ {Max(t)}] = in(t \ {Max(t)})
    BY <1>2, <2>3
  <2>5. w = [t \in SUBSET (1..n) |-> in(t)]
    BY <1>1
  <2> HIDE DEF w
  <2> QED
    BY <1>1, <2>1, <2>2, <2>4, <2>5 DEF CountFold
<1>4. CountFold(iter, s)
  BY <1>3
<1> HIDE DEF w, iter
<1>5. iter[DOMAIN s] = w[DOMAIN s]
  <2>1. iter[{}] = w[{}]
    BY <1>1, <1>3, <1>4 DEF CountFold
  <2>2. ASSUME NEW t \in SUBSET (1..n), t # {}, iter[t \ {Max(t)}] = w[t \ {Max(t)}] PROVE iter[t] = w[t]
    <3>1. \A g : CountFold(g, s) =>
            g[t] = IF s[Max(t)].kind = "assistant" THEN g[t \ {Max(t)}] \cup {s[Max(t)].id}
                   ELSE g[t \ {Max(t)}]
      BY <1>1, <2>2 DEF CountFold
    <3> QED
      BY <1>3, <1>4, <2>2, <3>1
  <2>3. Alike(iter, w, n)
    BY <2>1, <2>2 DEF Alike
  <2>4. \A t \in SUBSET (1..n) : iter[t] = w[t]
    BY <2>3, FoldsAgree
  <2> QED
    BY <1>1, <2>4
<1>6. HistoryTurns(s) = Cardinality(iter[DOMAIN s])
  BY CountUnfolds DEF iter
<1>7. w[DOMAIN s] = {e.id : e \in {f \in ToSet(s) : f.kind = "assistant"}}
  BY DEF w, ToSet
<1> QED
  BY <1>5, <1>6, <1>7 DEF ApiCalls

HearFold(iter, s) ==
  iter = [t \in SUBSET DOMAIN s |->
           IF t = {} THEN None
           ELSE IF s[Max(t)].kind = "assistant" /\ "text" \in s[Max(t)].blocks THEN s[Max(t)].id
           ELSE iter[t \ {Max(t)}]]

LEMMA HearUnfolds ==
  ASSUME NEW s
  PROVE  HistoryFinal(s) = (CHOOSE iter : HearFold(iter, s))[DOMAIN s]
BY DEF HistoryFinal, FoldLeft, MapThenFoldSet, HearFold

LEMMA HistoryHearsLastText ==
  ASSUME NEW s \in Seq(Entry)
  PROVE  HistoryFinal(s) = LastText(s)
<1> DEFINE in(t) == IF t \cap Said(s) = {} THEN None ELSE s[Max(t \cap Said(s))].id
           w     == [t \in SUBSET DOMAIN s |-> in(t)]
           iter  == CHOOSE g : HearFold(g, s)
<1>1. PICK n \in Nat : DOMAIN s = 1..n
  BY LenIsNat, LenProperties
<1>2. \A t \in SUBSET (1..n) : t # {} => /\ Max(t) \in t /\ (\A x \in t : x <= Max(t))
                                         /\ t \ {Max(t)} \in SUBSET (1..n)
  BY GreatestElement
<1>3. HearFold(w, s)
  <2>1. ASSUME NEW t \in SUBSET (1..n), t # {}
        PROVE  in(t) = IF s[Max(t)].kind = "assistant" /\ "text" \in s[Max(t)].blocks THEN s[Max(t)].id
                       ELSE in(t \ {Max(t)})
    <3>1. Max(t) \in t /\ (\A x \in t : x <= Max(t)) /\ t \in SUBSET Nat
      BY <1>2, <2>1
    <3>2. Max(t) \in Said(s) <=> s[Max(t)].kind = "assistant" /\ "text" \in s[Max(t)].blocks
      BY <1>1, <2>1, <3>1 DEF Said
    <3>3. CASE Max(t) \in Said(s)
      <4>1. Max(t \cap Said(s)) = Max(t)
        BY <3>1, <3>3, MaxIs
      <4> QED
        BY <3>1, <3>2, <3>3, <4>1
    <3>4. CASE Max(t) \notin Said(s)
      <4>1. t \cap Said(s) = (t \ {Max(t)}) \cap Said(s)
        BY <3>4
      <4> QED
        BY <3>2, <3>4, <4>1
    <3> QED
      BY <3>3, <3>4
  <2>2. in({}) = None
    OBVIOUS
  <2>3. \A t \in SUBSET (1..n) : w[t] = in(t)
    BY <1>1
  <2> HIDE DEF in
  <2>4. \A t \in SUBSET (1..n) : t # {} => w[t \ {Max(t)}] = in(t \ {Max(t)})
    BY <1>2, <2>3
  <2>5. w = [t \in SUBSET (1..n) |-> in(t)]
    BY <1>1
  <2> HIDE DEF w
  <2> QED
    BY <1>1, <2>1, <2>2, <2>4, <2>5 DEF HearFold
<1>4. HearFold(iter, s)
  BY <1>3
<1> HIDE DEF w, iter
<1>5. iter[DOMAIN s] = w[DOMAIN s]
  <2>1. iter[{}] = w[{}]
    BY <1>1, <1>3, <1>4 DEF HearFold
  <2>2. ASSUME NEW t \in SUBSET (1..n), t # {}, iter[t \ {Max(t)}] = w[t \ {Max(t)}] PROVE iter[t] = w[t]
    <3>1. \A g : HearFold(g, s) =>
            g[t] = IF s[Max(t)].kind = "assistant" /\ "text" \in s[Max(t)].blocks THEN s[Max(t)].id
                   ELSE g[t \ {Max(t)}]
      BY <1>1, <2>2 DEF HearFold
    <3> QED
      BY <1>3, <1>4, <2>2, <3>1
  <2>3. Alike(iter, w, n)
    BY <2>1, <2>2 DEF Alike
  <2>4. \A t \in SUBSET (1..n) : iter[t] = w[t]
    BY <2>3, FoldsAgree
  <2> QED
    BY <1>1, <2>4
<1>6. HistoryFinal(s) = iter[DOMAIN s]
  BY HearUnfolds DEF iter
<1>7. w[DOMAIN s] = LastText(s)
  <2>1. DOMAIN s \cap Said(s) = Said(s)
    BY DEF Said
  <2> QED
    BY <2>1 DEF w, LastText
<1> QED
  BY <1>5, <1>6, <1>7

\* Numbering the lines of a block anew can only lose some of them, and does where two of
\* them share a block.
LEMMA BlocksAreCounted ==
  ASSUME NEW s \in Seq(Entry)
  PROVE  /\ StatsCalls(s) \in Nat /\ HistoryCalls(s) \in Nat /\ StatsCalls(s) <= HistoryCalls(s)
         /\ StatsCalls(s) = HistoryCalls(s) <=> ~Repeated(s)
<1> DEFINE A == Asking(s)
           B == {s[i].use : i \in A}
           g == [i \in A |-> s[i].use]
<1>1. IsFiniteSet(A)
  <2>1. PICK n \in Nat : DOMAIN s = 1..n
    BY LenIsNat, LenProperties
  <2> QED
    BY <2>1, FS_Interval, FS_Subset DEF Asking
<1>2. StatsCalls(s) = Cardinality(B) /\ HistoryCalls(s) = Cardinality(A)
  BY DEF StatsCalls, HistoryCalls
<1>3. Repeated(s) <=> \E i, j \in A : i # j /\ s[i].use = s[j].use
  BY DEF Repeated
<1> HIDE DEF A
<1>4. g \in Surjection(A, B)
  BY DEF Surjection
<1>5. IsFiniteSet(B) /\ Cardinality(B) <= Cardinality(A) /\ Cardinality(A) \in Nat /\ Cardinality(B) \in Nat
  BY <1>1, <1>4, FS_Surjection, FS_CardinalityType
<1>6. ASSUME ~Repeated(s) PROVE Cardinality(A) = Cardinality(B)
  <2>1. g \in Injection(A, B)
    BY <1>3, <1>6 DEF Injection, IsInjective
  <2> QED
    BY <1>5, <2>1, FS_Injection
<1>7. ASSUME Repeated(s) PROVE Cardinality(B) < Cardinality(A)
  <2>1. PICK i \in A, j \in A : i # j /\ s[i].use = s[j].use
    BY <1>3, <1>7
  <2>2. IsFiniteSet(A \ {i}) /\ Cardinality(A \ {i}) = Cardinality(A) - 1
    BY <1>1, FS_RemoveElement
  <2>3. [k \in A \ {i} |-> s[k].use] \in Surjection(A \ {i}, B)
    <3>1. \A b \in B : \E k \in A \ {i} : s[k].use = b
      BY <2>1
    <3> QED
      BY <3>1 DEF Surjection
  <2>4. Cardinality(B) <= Cardinality(A \ {i})
    BY <2>2, <2>3, FS_Surjection
  <2> QED
    BY <1>5, <2>2, <2>4
<1> QED
  BY <1>2, <1>5, <1>6, <1>7

\* Split and repeated entries do not inflate the ledger, which counts every response and every
\* call once; the history counts the same responses and hears the same last text, and counts
\* more calls exactly where a block is there twice (transcript_stats, stream_transcript).
THEOREM StatisticsCountOnce == SessionSpec => []StatsCountOnce
<1>1. ASSUME SessionInv PROVE StatsCountOnce
  <2>1. Lines \in Seq(Entry) /\ log \in Seq(Entry)
    BY <1>1, LinesAreEntries DEF SessionInv, SessionTyped
  <2>2. LastText(Lines) = HistoryFinal(Lines) /\ HistoryTurns(log) = ApiCalls(log)
    BY <2>1, HistoryCountsResponses, HistoryHearsLastText
  <2>3. ASSUME ends = None PROVE ApiCalls(log) = resp
    <3>1. Ids(log) = 1..resp /\ resp \in Nat
      BY <1>1, <2>3 DEF SessionInv, SessionTyped, Counted
    <3>2. Cardinality(1..resp) = resp
      BY <3>1, FS_Interval
    <3> QED
      BY <3>1, <3>2 DEF Ids, ApiCalls
  <2>4. StatsCalls(log) = made
    <3>1. Calling(log) = 1..made /\ made \in Nat
      BY <1>1 DEF SessionInv, SessionTyped, Counted
    <3>2. Cardinality(1..made) = made
      BY <3>1, FS_Interval
    <3> QED
      BY <3>1, <3>2 DEF Calling, StatsCalls
  <2>5. /\ StatsCalls(Lines) <= HistoryCalls(Lines)
        /\ StatsCalls(Lines) = HistoryCalls(Lines) <=> ~Repeated(Lines)
    BY <2>1, BlocksAreCounted
  <2> QED
    BY <2>2, <2>3, <2>4, <2>5 DEF StatsCountOnce
<1> QED
  BY SessionInvHolds, <1>1, PTL

\* One step of a computation whose results are in A, the whole of it over n lines, and its
\* results after each of the first lines.
Steps(g, A, n) == g \in [A \X (1..n) -> A]

Computes(f, a, g, A, n) ==
  /\ f \in [SUBSET (1..n) -> A]
  /\ \A t \in SUBSET (1..n) : f[t] = IF t = {} THEN a ELSE g[<<f[t \ {Max(t)}], Max(t)>>]

Passes(d, a, g, A, n) ==
  /\ d \in [0..n -> A] /\ d[0] = a
  /\ \A k \in 1..n : d[k] = g[<<d[k - 1], k>>]

\* A computation over the first lines can go on with any line, so there is one over all.
LEMMA FoldsExist ==
  ASSUME NEW n \in Nat, NEW A, NEW a \in A, NEW g, Steps(g, A, n)
  PROVE  \E f : Computes(f, a, g, A, n)
<1> USE DEF Steps, Computes
<1> DEFINE Runs(f, k) == Computes(f, a, g, A, k)
           T == {k \in 0..n : ~\E f : Runs(f, k)}
<1>1. SUFFICES ASSUME T # {} PROVE FALSE
  <2>1. n \in T \/ \E f : Runs(f, n)
    <3> HIDE DEF Runs
    <3> QED
      OBVIOUS
  <2> HIDE DEF T
  <2> QED
    BY <1>1, <2>1
<1>2. T \in SUBSET Nat
  OBVIOUS
<1>3. PICK k \in T : \A m \in T : k <= m
  <2> HIDE DEF T
  <2> QED
    BY <1>1, <1>2, LeastElement
<1>4. k \in 0..n /\ ~\E f : Runs(f, k)
  OBVIOUS
<1>5. k # 0
  <2>1. ASSUME k = 0 PROVE Runs([t \in SUBSET (1..k) |-> a], k)
    BY <2>1
  <2> HIDE DEF Runs
  <2> QED
    BY <1>4, <2>1
<1>6. PICK p \in 0..n : p + 1 = k /\ p \notin T
  <2> HIDE DEF T
  <2>1. k - 1 \in 0..n /\ ~(k <= k - 1) /\ (k - 1) + 1 = k
    BY <1>4, <1>5
  <2>2. k - 1 \notin T
    BY <1>3, <2>1
  <2> QED
    BY <2>1, <2>2
<1>7. PICK f : Runs(f, p)
  BY <1>6
<1> HIDE DEF T
<1> DEFINE h == [t \in SUBSET (1..k) |-> IF k \in t THEN g[<<f[t \ {k}], k>>] ELSE f[t]]
<1>8. \A t \in SUBSET (1..k) : /\ k \in t => t \ {k} \in SUBSET (1..p)
                              /\ k \notin t => t \in SUBSET (1..p)
  <2>1. 1..k = (1..p) \cup {k}
    BY <1>4, <1>6
  <2> QED
    BY <2>1
<1>9. k \in 1..n
  BY <1>4, <1>5
<1>10. \A t \in SUBSET (1..p) : f[t] \in A
  BY <1>7
<1>11. \A x \in A, i \in 1..n : g[<<x, i>>] \in A
  OBVIOUS
<1>12. \A t \in SUBSET (1..k) : h[t] \in A
  BY <1>8, <1>9, <1>10, <1>11
<1>13. ASSUME NEW t \in SUBSET (1..k)
       PROVE  h[t] = IF t = {} THEN a ELSE g[<<h[t \ {Max(t)}], Max(t)>>]
  <2>1. CASE k \in t
    <3>1. Max(t) = k
      <4>1. t \in SUBSET Nat /\ \A x \in t : x <= k
        BY <1>4
      <4> QED
        BY <2>1, <4>1, MaxIs
    <3>2. h[t \ {k}] = f[t \ {k}]
      OBVIOUS
    <3> QED
      BY <2>1, <3>1, <3>2
  <2>2. CASE k \notin t
    <3>1. h[t] = f[t] /\ t \in SUBSET (1..p)
      BY <1>8, <2>2
    <3>2. ASSUME t # {} PROVE h[t \ {Max(t)}] = f[t \ {Max(t)}]
      <4>1. t \ {Max(t)} \in SUBSET (1..k) /\ k \notin t \ {Max(t)}
        BY <2>2
      <4> QED
        BY <4>1
    <3>3. f[t] = IF t = {} THEN a ELSE g[<<f[t \ {Max(t)}], Max(t)>>]
      BY <1>7, <3>1
    <3> QED
      BY <3>1, <3>2, <3>3
  <2> QED
    BY <2>1, <2>2
<1>14. h \in [SUBSET (1..k) -> A]
  BY <1>12
<1>15. Runs(h, k)
  <2> HIDE DEF h
  <2> QED
    BY <1>13, <1>14
<1> HIDE DEF Runs
<1> QED
  BY <1>4, <1>15

\* Line by line: what such a computation has after each of the first lines.
LEMMA FoldsRun ==
  ASSUME NEW n \in Nat, NEW A, NEW a \in A, NEW g, Steps(g, A, n), NEW f, Computes(f, a, g, A, n)
  PROVE  \E d : Passes(d, a, g, A, n) /\ d[n] = f[1..n]
<1> USE DEF Steps, Computes, Passes
<1> DEFINE d == [k \in 0..n |-> f[1..k]]
<1>1. \A k \in 0..n : 1..k \in SUBSET (1..n)
  OBVIOUS
<1>2. d \in [0..n -> A]
  BY <1>1
<1>3. d[0] = a /\ d[n] = f[1..n]
  <2>1. 1..0 = {} /\ {} \in SUBSET (1..n) /\ 0 \in 0..n /\ n \in 0..n
    OBVIOUS
  <2> QED
    BY <2>1
<1>4. ASSUME NEW k \in 1..n PROVE d[k] = g[<<d[k - 1], k>>]
  <2>1. k \in 1..k /\ 1..k # {} /\ (1..k) \ {k} = 1..k - 1 /\ k - 1 \in 0..n /\ k \in 0..n
    OBVIOUS
  <2>2. Max(1..k) = k
    <3>1. 1..k \in SUBSET Nat /\ \A x \in 1..k : x <= k
      OBVIOUS
    <3> QED
      BY <2>1, <3>1, MaxIs
  <2>3. f[1..k] = g[<<f[1..k - 1], k>>]
    BY <1>1, <2>1, <2>2
  <2> QED
    BY <2>1, <2>3
<1> HIDE DEF d
<1> QED
  BY <1>2, <1>3, <1>4

Told == Seq(Nat \X {"text", "tool_use"})

LEMMA NarrationIsTold == ASSUME NEW e \in Entry PROVE Narration(e) \in Told
<1> DEFINE Of(block) == IF e.kind = "assistant" /\ block \in e.blocks THEN <<<<e.id, block>>>> ELSE <<>>
<1>1. ASSUME NEW block \in {"text", "tool_use"} PROVE Of(block) \in Told
  <2>1. <<e.id, block>> \in Nat \X {"text", "tool_use"}
    BY DEF Entry
  <2>2. <<<<e.id, block>>>> \in Told /\ <<>> \in Told
    BY <2>1, EmptySeq DEF Told
  <2> QED
    BY <2>2
<1>2. Narration(e) = Of("text") \o Of("tool_use")
  BY DEF Narration
<1> HIDE DEF Of
<1>3. Of("text") \in Told /\ Of("tool_use") \in Told
  BY <1>1
<1> QED
  BY <1>2, <1>3, ConcatProperties DEF Told

\* The last n of a list, or all of it.
LEMMA LastOfIs ==
  ASSUME NEW S, NEW x \in Seq(S), NEW n \in Nat
  PROVE  /\ LastOf(x, n) \in Seq(S)
         /\ Len(LastOf(x, n)) = IF Len(x) > n THEN n ELSE Len(x)
         /\ \A i \in 1..Len(LastOf(x, n)) : LastOf(x, n)[i] = x[Len(x) - Len(LastOf(x, n)) + i]
<1>1. PICK m \in Nat : m = Len(x)
  BY LenProperties
<1>2. PICK b \in 1..m + 1 : b = IF m > n THEN m - n + 1 ELSE 1
  <2>1. (IF m > n THEN m - n + 1 ELSE 1) \in 1..m + 1
    BY <1>1
  <2> QED
    BY <2>1
<1>3. LastOf(x, n) = SubSeq(x, b, m)
  BY <1>1, <1>2 DEF LastOf
<1>4. \A i \in b..m : x[i] \in S
  BY <1>1, <1>2, ElementOfSeq
<1>5. /\ SubSeq(x, b, m) \in Seq(S)
      /\ Len(SubSeq(x, b, m)) = IF b <= m THEN m - b + 1 ELSE 0
      /\ \A i \in 1..m - b + 1 : SubSeq(x, b, m)[i] = x[b + i - 1]
  <2>1. b \in Int /\ m \in Int
    BY <1>1, <1>2
  <2> QED
    BY <1>4, <2>1, SubSeqProperties
<1>6. Len(SubSeq(x, b, m)) = m - b + 1 /\ m - b + 1 = IF m > n THEN n ELSE m
  <2>1. m - b + 1 = (IF m > n THEN n ELSE m) /\ (b <= m \/ m - b + 1 = 0)
    BY <1>1, <1>2
  <2> QED
    BY <1>5, <2>1
<1>7. \A i \in 1..m - b + 1 : b + i - 1 = m - (m - b + 1) + i
  BY <1>1, <1>2
<1>8. PICK l \in 0..m : l = m - b + 1
  BY <1>1, <1>2
<1>9. LastOf(x, n) \in Seq(S) /\ Len(LastOf(x, n)) = l /\ l = IF m > n THEN n ELSE m
  BY <1>3, <1>5, <1>6, <1>8
<1>10. ASSUME NEW i \in 1..l PROVE LastOf(x, n)[i] = x[m - l + i]
  <2>1. i \in 1..m - b + 1 /\ b + i - 1 = m - l + i
    BY <1>1, <1>2, <1>8
  <2> QED
    BY <1>3, <1>5, <2>1
<1> QED
  BY <1>1, <1>9, <1>10

Cut(all) == IF Len(all) > 2 * DigestKeep THEN LastOf(all, DigestKeep) ELSE all

LEMMA CutIsTold == \A all \in Told : Cut(all) \in Told
BY LastOfIs, NatAssumption DEF Cut, Told

DigestFold(iter, s) ==
  iter = [t \in SUBSET DOMAIN s |->
           IF t = {} THEN <<>> ELSE Cut(iter[t \ {Max(t)}] \o Narration(s[Max(t)]))]

TellFold(iter, s) ==
  iter = [t \in SUBSET DOMAIN s |->
           IF t = {} THEN <<>> ELSE iter[t \ {Max(t)}] \o Narration(s[Max(t)])]

LEMMA DigestUnfolds ==
  ASSUME NEW s
  PROVE  Digest(s) = LastOf((CHOOSE iter : DigestFold(iter, s))[DOMAIN s], DigestKeep)
BY DEF Digest, FoldLeft, MapThenFoldSet, DigestFold, Cut

LEMMA NarrativeUnfolds ==
  ASSUME NEW s
  PROVE  Narrative(s) = (CHOOSE iter : TellFold(iter, s))[DOMAIN s]
BY DEF Narrative, FoldLeft, MapThenFoldSet, TellFold

\* The kept narration a against the whole narration b: its end, and enough of it.
EndOf(a, b) ==
  /\ Len(a) <= Len(b)
  /\ \A i \in 1..Len(a) : a[i] = b[Len(b) - Len(a) + i]
  /\ Len(a) >= DigestKeep \/ Len(a) = Len(b)

LEMMA EndGrows ==
  ASSUME NEW S, NEW a \in Seq(S), NEW b \in Seq(S), NEW c \in Seq(S), EndOf(a, b)
  PROVE  EndOf(a \o c, b \o c)
<1>1. PICK k \in Nat, m \in Nat, l \in Nat : k = Len(a) /\ m = Len(b) /\ l = Len(c)
  BY LenProperties
<1>2. /\ Len(a \o c) = k + l /\ Len(b \o c) = m + l
      /\ \A i \in 1..k + l : (a \o c)[i] = IF i <= k THEN a[i] ELSE c[i - k]
      /\ \A i \in 1..m + l : (b \o c)[i] = IF i <= m THEN b[i] ELSE c[i - m]
  BY <1>1, ConcatProperties
<1>3. k <= m /\ (k >= DigestKeep \/ k = m) /\ \A i \in 1..k : a[i] = b[m - k + i]
  BY <1>1 DEF EndOf
<1>4. ASSUME NEW i \in 1..k + l PROVE (a \o c)[i] = (b \o c)[(m + l) - (k + l) + i]
  <2>1. PICK j \in 1..m + l : j = (m + l) - (k + l) + i /\ j = m - k + i
    BY <1>3
  <2>2. CASE i <= k
    <3>1. i \in 1..k /\ j <= m
      BY <1>3, <2>1, <2>2
    <3> QED
      BY <1>2, <1>3, <2>1, <2>2, <3>1
  <2>3. CASE ~(i <= k)
    <3>1. ~(j <= m) /\ j - m = i - k
      BY <1>3, <2>1, <2>3
    <3> QED
      BY <1>2, <2>1, <2>3, <3>1
  <2> QED
    BY <2>2, <2>3
<1>5. k + l <= m + l /\ (k + l >= DigestKeep \/ k + l = m + l)
  BY <1>3, NatAssumption
<1> QED
  BY <1>2, <1>4, <1>5 DEF EndOf

LEMMA EndIsCut ==
  ASSUME NEW S, NEW a \in Seq(S), NEW b \in Seq(S), EndOf(a, b)
  PROVE  EndOf(LastOf(a, DigestKeep), b)
<1>1. PICK k \in Nat, m \in Nat : k = Len(a) /\ m = Len(b)
  BY LenProperties
<1>2. DigestKeep \in Nat \ {0}
  BY NatAssumption
<1>3. PICK l \in Nat : l = IF k > DigestKeep THEN DigestKeep ELSE k
  BY <1>2
<1> DEFINE x == LastOf(a, DigestKeep)
<1>4. Len(x) = l /\ \A i \in 1..l : x[i] = a[k - l + i]
  <2>1. /\ Len(x) = IF Len(a) > DigestKeep THEN DigestKeep ELSE Len(a)
        /\ \A i \in 1..Len(x) : x[i] = a[Len(a) - Len(x) + i]
    BY <1>2, LastOfIs
  <2> HIDE DEF x
  <2> QED
    BY <1>1, <1>3, <2>1
<1> HIDE DEF x
<1>5. k <= m /\ (k >= DigestKeep \/ k = m) /\ \A i \in 1..k : a[i] = b[m - k + i]
  BY <1>1 DEF EndOf
<1>6. ASSUME NEW i \in 1..l PROVE x[i] = b[m - l + i]
  <2>1. PICK j \in 1..k : j = k - l + i /\ m - k + j = m - l + i
    BY <1>2, <1>3, <1>5
  <2> QED
    BY <1>4, <1>5, <2>1
<1>7. l <= m /\ (l >= DigestKeep \/ l = m)
  BY <1>2, <1>3, <1>5
<1>8. EndOf(x, b)
  BY <1>1, <1>4, <1>6, <1>7 DEF EndOf
<1> QED
  BY <1>8 DEF x

LEMMA EndShowsEnd ==
  ASSUME NEW S, NEW a \in Seq(S), NEW b \in Seq(S), EndOf(a, b)
  PROVE  LastOf(a, DigestKeep) = LastOf(b, DigestKeep)
<1>1. DigestKeep \in Nat \ {0}
  BY NatAssumption
<1> DEFINE x == LastOf(a, DigestKeep)
           y == LastOf(b, DigestKeep)
<1>2. EndOf(x, b)
  BY EndIsCut
<1>3. PICK k \in Nat, m \in Nat : k = Len(a) /\ m = Len(b)
  BY LenProperties
<1>4. k <= m /\ (k >= DigestKeep \/ k = m)
  BY <1>3 DEF EndOf
<1>5. /\ x \in Seq(S) /\ Len(x) = IF k > DigestKeep THEN DigestKeep ELSE k
      /\ y \in Seq(S) /\ Len(y) = (IF m > DigestKeep THEN DigestKeep ELSE m)
      /\ \A i \in 1..Len(y) : y[i] = b[m - Len(y) + i]
  BY <1>1, <1>3, LastOfIs
<1> HIDE DEF x, y
<1>6. Len(x) = Len(y)
  BY <1>1, <1>3, <1>4, <1>5
<1>7. \A i \in 1..Len(x) : x[i] = y[i]
  BY <1>2, <1>3, <1>5, <1>6 DEF EndOf
<1>8. x = y
  BY <1>5, <1>6, <1>7, SeqEqual
<1> QED
  BY <1>8 DEF x, y

\* The narration that is kept while it is read ends like all that is narrated.
Kept(d, w, tell, n) ==
  /\ d \in [0..n -> Told] /\ w \in [0..n -> Told] /\ tell \in [1..n -> Told]
  /\ d[0] = <<>> /\ w[0] = <<>>
  /\ \A k \in 1..n : d[k] = Cut(d[k - 1] \o tell[k]) /\ w[k] = w[k - 1] \o tell[k]

LEMMA KeptIsEnd ==
  ASSUME NEW n \in Nat, NEW d, NEW w, NEW tell, Kept(d, w, tell, n)
  PROVE  EndOf(d[n], w[n])
<1> USE DEF Kept
<1> DEFINE T == {k \in 0..n : ~EndOf(d[k], w[k])}
<1>1. SUFFICES ASSUME T # {} PROVE FALSE
  <2>1. n \in T \/ EndOf(d[n], w[n])
    OBVIOUS
  <2> HIDE DEF T
  <2> QED
    BY <1>1, <2>1
<1>2. T \in SUBSET Nat
  OBVIOUS
<1>3. PICK k \in T : \A m \in T : k <= m
  <2> HIDE DEF T
  <2> QED
    BY <1>1, <1>2, LeastElement
<1>4. k \in 0..n /\ ~EndOf(d[k], w[k])
  OBVIOUS
<1>5. EndOf(<<>>, <<>>)
  <2>1. Len(<<>>) = 0
    BY EmptySeq
  <2> QED
    BY <2>1 DEF EndOf
<1>6. k \in 1..n
  BY <1>4, <1>5
<1>7. k - 1 \in 0..n /\ ~(k <= k - 1)
  BY <1>6
<1>8. EndOf(d[k - 1], w[k - 1])
  BY <1>3, <1>7
<1> DEFINE a == d[k - 1] \o tell[k]
           b == w[k - 1] \o tell[k]
<1>9. d[k - 1] \in Told /\ w[k - 1] \in Told /\ tell[k] \in Told
  BY <1>6, <1>7
<1>10. EndOf(a, b) /\ a \in Told /\ b \in Told
  BY <1>8, <1>9, EndGrows, ConcatProperties DEF Told
<1>11. d[k] = Cut(a) /\ w[k] = b
  BY <1>6
<1> HIDE DEF a, b, T
<1>12. EndOf(Cut(a), b)
  BY <1>10, EndIsCut DEF Cut, Told
<1> QED
  BY <1>4, <1>11, <1>12

LEMMA DigestShowsEnd ==
  ASSUME NEW s \in Seq(Entry)
  PROVE  Digest(s) = LastOf(Narrative(s), DigestKeep)
<1>1. PICK n \in Nat : DOMAIN s = 1..n
  BY LenIsNat, LenProperties
<1> DEFINE tell  == [i \in 1..n |-> Narration(s[i])]
           keep  == [p \in Told \X (1..n) |-> Cut(p[1] \o tell[p[2]])]
           all   == [p \in Told \X (1..n) |-> p[1] \o tell[p[2]]]
           kept  == CHOOSE g : DigestFold(g, s)
           whole == CHOOSE g : TellFold(g, s)
<1>2. tell \in [1..n -> Told]
  <2>1. \A i \in 1..n : s[i] \in Entry
    BY <1>1, LenProperties, ElementOfSeq
  <2> QED
    BY <2>1, NarrationIsTold
<1>3. \A i \in 1..n : tell[i] = Narration(s[i])
  OBVIOUS
<1>4. \A x \in Told, i \in 1..n : x \o tell[i] \in Told
  <2> HIDE DEF tell
  <2> QED
    BY <1>2, ConcatProperties DEF Told
<1> HIDE DEF tell
<1>5. keep \in [Told \X (1..n) -> Told] /\ \A x \in Told, i \in 1..n : keep[<<x, i>>] = Cut(x \o tell[i])
  BY <1>4, CutIsTold
<1>6. all \in [Told \X (1..n) -> Told] /\ \A x \in Told, i \in 1..n : all[<<x, i>>] = x \o tell[i]
  BY <1>4
<1>7. <<>> \in Told
  BY EmptySeq DEF Told
<1>8. \A t \in SUBSET (1..n) : t # {} => Max(t) \in 1..n /\ t \ {Max(t)} \in SUBSET (1..n)
  BY GreatestElement
<1> HIDE DEF keep, all
<1>9. PICK f : Computes(f, <<>>, keep, Told, n)
  <2>1. Steps(keep, Told, n)
    BY <1>5 DEF Steps
  <2> QED
    BY <1>7, <2>1, FoldsExist
<1>10. PICK g : Computes(g, <<>>, all, Told, n)
  <2>1. Steps(all, Told, n)
    BY <1>6 DEF Steps
  <2> QED
    BY <1>7, <2>1, FoldsExist
<1>11. kept[1..n] = f[1..n]
  <2>1. \A t \in SUBSET (1..n) : f[t] = IF t = {} THEN <<>> ELSE Cut(f[t \ {Max(t)}] \o Narration(s[Max(t)]))
    BY <1>3, <1>5, <1>8, <1>9 DEF Computes
  <2>2. f = [t \in SUBSET (1..n) |-> f[t]]
    BY <1>9 DEF Computes
  <2>3. DigestFold(f, s)
    BY <1>1, <2>1, <2>2 DEF DigestFold
  <2>4. DigestFold(kept, s)
    BY <2>3
  <2> HIDE DEF kept
  <2>5. \A t \in SUBSET (1..n) :
          kept[t] = IF t = {} THEN <<>> ELSE Cut(kept[t \ {Max(t)}] \o Narration(s[Max(t)]))
    BY <1>1, <2>4 DEF DigestFold
  <2>6. Alike(kept, f, n)
    BY <2>1, <2>5 DEF Alike
  <2> QED
    BY <2>6, FoldsAgree
<1>12. whole[1..n] = g[1..n]
  <2>1. \A t \in SUBSET (1..n) : g[t] = IF t = {} THEN <<>> ELSE g[t \ {Max(t)}] \o Narration(s[Max(t)])
    BY <1>3, <1>6, <1>8, <1>10 DEF Computes
  <2>2. g = [t \in SUBSET (1..n) |-> g[t]]
    BY <1>10 DEF Computes
  <2>3. TellFold(g, s)
    BY <1>1, <2>1, <2>2 DEF TellFold
  <2>4. TellFold(whole, s)
    BY <2>3
  <2> HIDE DEF whole
  <2>5. \A t \in SUBSET (1..n) :
          whole[t] = IF t = {} THEN <<>> ELSE whole[t \ {Max(t)}] \o Narration(s[Max(t)])
    BY <1>1, <2>4 DEF TellFold
  <2>6. Alike(whole, g, n)
    BY <2>1, <2>5 DEF Alike
  <2> QED
    BY <2>6, FoldsAgree
<1>13. PICK d : Passes(d, <<>>, keep, Told, n) /\ d[n] = f[1..n]
  <2>1. Steps(keep, Told, n)
    BY <1>5 DEF Steps
  <2> QED
    BY <1>7, <1>9, <2>1, FoldsRun
<1>14. PICK w : Passes(w, <<>>, all, Told, n) /\ w[n] = g[1..n]
  <2>1. Steps(all, Told, n)
    BY <1>6 DEF Steps
  <2> QED
    BY <1>7, <1>10, <2>1, FoldsRun
<1>15. EndOf(d[n], w[n]) /\ d[n] \in Told /\ w[n] \in Told
  <2>1. \A k \in 1..n : k - 1 \in 0..n
    OBVIOUS
  <2>2. \A k \in 1..n : d[k] = Cut(d[k - 1] \o tell[k])
    BY <1>5, <1>13, <2>1 DEF Passes
  <2>3. \A k \in 1..n : w[k] = w[k - 1] \o tell[k]
    BY <1>6, <1>14, <2>1 DEF Passes
  <2>4. Kept(d, w, tell, n)
    BY <1>2, <1>13, <1>14, <2>2, <2>3 DEF Kept, Passes
  <2> QED
    BY <1>13, <1>14, <2>4, KeptIsEnd DEF Passes
<1> HIDE DEF kept, whole
<1>16. LastOf(d[n], DigestKeep) = LastOf(w[n], DigestKeep)
  BY <1>15, EndShowsEnd DEF Told
<1>17. Digest(s) = LastOf(kept[1..n], DigestKeep) /\ Narrative(s) = whole[1..n]
  BY <1>1, DigestUnfolds, NarrativeUnfolds DEF kept, whole
<1> QED
  BY <1>11, <1>12, <1>13, <1>14, <1>16, <1>17

\* The calls of a list that are alike at its end: so many, or as many as the cap asks for.
AllAlike(x, cap) == Len(x) >= cap /\ \A j \in Len(x) - cap + 1..Len(x) : x[j] = Last(x)

LEMMA StreakCounts ==
  ASSUME NEW S, NEW x \in Seq(S), NEW cap \in Nat, cap >= 2
  PROVE  RepeatStreak(x) >= cap <=> AllAlike(x, cap)
<1>1. PICK l \in Nat : l = Len(x)
  BY LenProperties
<1> DEFINE differ == {i \in 1..l : x[i] # Last(x)}
<1>2. RepeatStreak(x) = IF l < 2 THEN 0 ELSE l - (IF differ = {} THEN 0 ELSE Max(differ))
  BY <1>1 DEF RepeatStreak
<1>3. AllAlike(x, cap) <=> l >= cap /\ \A j \in l - cap + 1..l : j \notin differ
  <2>1. l >= cap => \A j \in l - cap + 1..l : j \in 1..l
    OBVIOUS
  <2> QED
    BY <1>1, <2>1 DEF AllAlike
<1>4. differ # {} => Max(differ) \in differ /\ \A i \in differ : i <= Max(differ)
  <2>1. differ \in SUBSET (1..l)
    OBVIOUS
  <2> HIDE DEF differ
  <2> QED
    BY <2>1, GreatestElement
<1>5. differ \in SUBSET (1..l)
  OBVIOUS
<1> HIDE DEF differ
<1>6. CASE l < 2
  BY <1>2, <1>3, <1>6
<1>7. CASE l >= 2 /\ differ = {}
  BY <1>2, <1>3, <1>7
<1>8. CASE l >= 2 /\ differ # {}
  <2>1. PICK q \in 1..l : q = Max(differ)
    BY <1>4, <1>5, <1>8
  <2>2. q \in differ /\ \A i \in differ : i <= q
    BY <1>4, <1>8, <2>1
  <2>3. RepeatStreak(x) >= cap <=> q <= l - cap
    BY <1>2, <1>8, <2>1
  <2>4. q <= l - cap => l >= cap /\ \A j \in l - cap + 1..l : ~(j <= q)
    OBVIOUS
  <2>5. ~(q <= l - cap) => q \in l - cap + 1..l
    OBVIOUS
  <2> QED
    BY <1>3, <2>2, <2>3, <2>4, <2>5
<1> QED
  BY <1>6, <1>7, <1>8

LEMMA StreakSurvives ==
  ASSUME NEW S, NEW calls \in Seq(S), NEW cap \in 2..CallsKeep
  PROVE  RepeatStreak(LastOf(calls, CallsKeep)) >= cap
           <=> Len(calls) >= cap /\ \A c \in ToSet(LastOf(calls, cap)) : c = Last(calls)
<1>1. PICK m \in Nat : m = Len(calls)
  BY LenProperties
<1>2. CallsKeep \in Nat /\ cap \in Nat /\ cap >= 2 /\ cap <= CallsKeep
  BY NatAssumption
<1> DEFINE x == LastOf(calls, CallsKeep)
           y == LastOf(calls, cap)
<1>3. PICK l \in Nat : l = IF m > CallsKeep THEN CallsKeep ELSE m
  BY <1>2
<1>4. x \in Seq(S) /\ Len(x) = l /\ \A i \in 1..l : x[i] = calls[m - l + i]
  <2>1. /\ x \in Seq(S)
        /\ Len(x) = IF Len(calls) > CallsKeep THEN CallsKeep ELSE Len(calls)
        /\ \A i \in 1..Len(x) : x[i] = calls[Len(calls) - Len(x) + i]
    BY <1>2, LastOfIs
  <2> HIDE DEF x
  <2> QED
    BY <1>1, <1>3, <2>1
<1>5. /\ y \in Seq(S) /\ Len(y) = (IF m > cap THEN cap ELSE m)
      /\ \A i \in 1..Len(y) : y[i] = calls[m - Len(y) + i]
  BY <1>1, <1>2, LastOfIs
<1> HIDE DEF x, y
<1>6. RepeatStreak(x) >= cap <=> AllAlike(x, cap)
  BY <1>2, <1>4, StreakCounts
<1>7. CASE m < cap
  <2>1. l < cap
    BY <1>2, <1>3, <1>7
  <2> QED
    BY <1>1, <1>2, <1>4, <1>6, <1>7, <2>1 DEF AllAlike, x
<1>8. CASE m >= cap
  <2>1. l >= cap /\ l >= 1 /\ m >= l /\ Len(y) = cap
    BY <1>2, <1>3, <1>5, <1>8
  <2>2. Last(x) = Last(calls)
    <3>1. x[l] = calls[m - l + l] /\ m - l + l = m
      BY <1>4, <2>1
    <3> QED
      BY <1>1, <1>4, <3>1 DEF Last
  <2>3. ToSet(y) = {y[i] : i \in 1..cap}
    <3>1. DOMAIN y = 1..cap
      BY <1>5, <2>1, LenProperties
    <3> QED
      BY <3>1 DEF ToSet
  <2>4. \A i \in 1..cap : y[i] = x[l - cap + i]
    <3> TAKE i \in 1..cap
    <3>1. y[i] = calls[m - cap + i]
      BY <1>5, <2>1
    <3>2. PICK j \in 1..l : j = l - cap + i /\ m - l + j = m - cap + i
      BY <1>2, <2>1
    <3> QED
      BY <1>4, <3>1, <3>2
  <2>5. ASSUME AllAlike(x, cap), NEW i \in 1..cap PROVE y[i] = Last(calls)
    <3>1. PICK j \in l - cap + 1..l : j = l - cap + i
      BY <1>2, <2>1
    <3> QED
      BY <1>4, <2>2, <2>4, <2>5, <3>1 DEF AllAlike
  <2>6. ASSUME \A i \in 1..cap : y[i] = Last(calls), NEW j \in l - cap + 1..l PROVE x[j] = Last(calls)
    <3>1. PICK i \in 1..cap : j = l - cap + i
      <4>1. j - (l - cap) \in 1..cap /\ j = l - cap + (j - (l - cap))
        BY <1>2, <2>1
      <4> QED
        BY <4>1
    <3> QED
      BY <2>4, <2>6, <3>1
  <2>7. AllAlike(x, cap) <=> \A i \in 1..cap : y[i] = Last(calls)
    BY <1>4, <2>1, <2>2, <2>5, <2>6 DEF AllAlike
  <2> QED
    BY <1>1, <1>6, <1>8, <2>3, <2>7 DEF x, y
<1> QED
  BY <1>1, <1>2, <1>7, <1>8

CallFold(iter, s) ==
  iter = [t \in SUBSET DOMAIN s |->
           IF t = {} THEN <<>>
           ELSE IF "tool_use" \in s[Max(t)].blocks THEN Append(iter[t \ {Max(t)}], s[Max(t)].call)
           ELSE iter[t \ {Max(t)}]]

LEMMA CallsUnfold ==
  ASSUME NEW s
  PROVE  ToolCalls(s) = (CHOOSE iter : CallFold(iter, s))[DOMAIN s]
BY DEF ToolCalls, FoldLeft, MapThenFoldSet, CallFold

LEMMA CallsAreCalls ==
  ASSUME NEW s \in Seq(Entry)
  PROVE  ToolCalls(s) \in Seq(Calls \cup {None})
<1>1. PICK n \in Nat : DOMAIN s = 1..n
  BY LenIsNat, LenProperties
<1> DEFINE A    == Seq(Calls \cup {None})
           next(x, i) == IF "tool_use" \in s[i].blocks THEN Append(x, s[i].call) ELSE x
           add  == [p \in A \X (1..n) |-> next(p[1], p[2])]
           iter == CHOOSE g : CallFold(g, s)
<1>2. \A x \in A, i \in 1..n : next(x, i) \in A
  <2>1. \A i \in 1..n : s[i].call \in Calls \cup {None}
    <3>1. \A i \in 1..n : s[i] \in Entry
      BY <1>1, LenProperties, ElementOfSeq
    <3> QED
      BY <3>1 DEF Entry
  <2> QED
    BY <2>1, AppendProperties
<1>3. <<>> \in A
  BY EmptySeq
<1> HIDE DEF A
<1>4. \A x, i : next(x, i) = IF "tool_use" \in s[i].blocks THEN Append(x, s[i].call) ELSE x
  OBVIOUS
<1> HIDE DEF next
<1>5. add \in [A \X (1..n) -> A] /\ \A x \in A, i \in 1..n : add[<<x, i>>] = next(x, i)
  BY <1>2
<1>6. \A t \in SUBSET (1..n) : t # {} => Max(t) \in 1..n /\ t \ {Max(t)} \in SUBSET (1..n)
  BY GreatestElement
<1> HIDE DEF add
<1>7. PICK f : Computes(f, <<>>, add, A, n)
  <2>1. Steps(add, A, n)
    BY <1>5 DEF Steps
  <2> QED
    BY <1>3, <2>1, FoldsExist
<1>8. \A t \in SUBSET (1..n) : f[t] = IF t = {} THEN <<>> ELSE next(f[t \ {Max(t)}], Max(t))
  BY <1>5, <1>6, <1>7 DEF Computes
<1>9. CallFold(f, s)
  <2>1. f = [t \in SUBSET (1..n) |-> f[t]]
    BY <1>7 DEF Computes
  <2> QED
    BY <1>1, <1>4, <1>8, <2>1 DEF CallFold
<1>10. CallFold(iter, s)
  BY <1>9
<1> HIDE DEF iter
<1>11. \A t \in SUBSET (1..n) : iter[t] = IF t = {} THEN <<>> ELSE next(iter[t \ {Max(t)}], Max(t))
  BY <1>1, <1>4, <1>10 DEF CallFold
<1>12. Alike(iter, f, n)
  BY <1>8, <1>11 DEF Alike
<1>13. iter[1..n] = f[1..n]
  BY <1>12, FoldsAgree
<1>14. f[1..n] \in A
  BY <1>7 DEF Computes
<1> QED
  BY <1>1, <1>13, <1>14, CallsUnfold DEF A, iter

\* Bounding what is kept while a transcript is read loses nothing that is shown in the end, and
\* nothing the guard looks for (_transcript_summary's digest and tool_calls, _repeat_streak).
THEOREM SummariesShowTails == SessionSpec => []SummaryShowsTail
<1>1. ASSUME SessionInv PROVE SummaryShowsTail
  <2>1. Lines \in Seq(Entry)
    BY <1>1, LinesAreEntries DEF SessionInv
  <2>2. DigestIsTail
    BY <2>1, DigestShowsEnd DEF DigestIsTail
  <2>3. StreakIsSeen
    BY <2>1, CallsAreCalls, StreakSurvives DEF StreakIsSeen
  <2> QED
    BY <2>2, <2>3 DEF SummaryShowsTail
<1> QED
  BY SessionInvHolds, <1>1, PTL

-----------------------------------------------------------------------------
(* Schedule: the critical path and the ETA. *)

\* Induction up to a number, over the numbers of which something is so.
LEMMA UpTo ==
  ASSUME NEW n \in Nat, NEW T, 0 \in T, \A k \in 1..n : k - 1 \in T => k \in T
  PROVE  \A k \in 0..n : k \in T
<1> DEFINE B == {k \in 0..n : k \notin T}
<1>1. SUFFICES ASSUME B # {} PROVE FALSE
  OBVIOUS
<1>2. B \in SUBSET Nat
  OBVIOUS
<1>3. PICK k \in B : \A m \in B : k <= m
  <2> HIDE DEF B
  <2> QED
    BY <1>1, <1>2, LeastElement
<1>4. k \in 1..n /\ k - 1 \in 0..n /\ ~(k <= k - 1)
  OBVIOUS
<1> QED
  BY <1>3, <1>4

\* A total of Nats, from the first on.
Totals(f, c, n) ==
  /\ f \in [0..n -> Nat] /\ f[0] = 0
  /\ \A k \in 1..n : f[k] = f[k - 1] + est[c[k]]

UpToFold(f, c) == f = [i \in 0..Len(c) |-> IF i = 0 THEN 0 ELSE f[i - 1] + est[c[i]]]

LEMMA SumUnfolds == ASSUME NEW c PROVE Weight(c) = (CHOOSE f : UpToFold(f, c))[Len(c)]
BY DEF Weight, UpToFold

LEMMA FunctionsAreSeqs ==
  ASSUME NEW S, NEW n \in Nat, NEW c \in [1..n -> S]
  PROVE  c \in Seq(S) /\ Len(c) = n
OBVIOUS

LEMMA TotalsAreSums ==
  ASSUME NEW n \in Nat, NEW c \in [1..n -> Tasks], NEW f, Totals(f, c, n)
  PROVE  Weight(c) = f[n]
<1>1. Len(c) = n
  BY FunctionsAreSeqs
<1>2. UpToFold(f, c)
  <2>1. f = [i \in 0..n |-> f[i]]
    BY DEF Totals
  <2>2. \A i \in 0..n : f[i] = IF i = 0 THEN 0 ELSE f[i - 1] + est[c[i]]
    BY DEF Totals
  <2> QED
    BY <1>1, <2>1, <2>2 DEF UpToFold
<1> DEFINE g == CHOOSE h : UpToFold(h, c)
<1>3. UpToFold(g, c)
  BY <1>2
<1> HIDE DEF g
<1>4. \A i \in 0..n : g[i] = IF i = 0 THEN 0 ELSE g[i - 1] + est[c[i]]
  BY <1>1, <1>3 DEF UpToFold
<1> DEFINE T == {k \in 0..n : g[k] = f[k]}
<1>5. 0 \in T
  BY <1>4 DEF Totals
<1>6. ASSUME NEW k \in 1..n, k - 1 \in T PROVE k \in T
  <2>1. k \in 0..n /\ k - 1 \in 0..n /\ k # 0 /\ g[k - 1] = f[k - 1]
    BY <1>6
  <2>2. g[k] = g[k - 1] + est[c[k]] /\ f[k] = f[k - 1] + est[c[k]]
    BY <1>4, <2>1 DEF Totals
  <2> QED
    BY <2>1, <2>2
<1>7. n \in T
  <2> HIDE DEF T
  <2>1. \A k \in 0..n : k \in T
    BY <1>5, <1>6, UpTo
  <2> QED
    BY <2>1
<1> QED
  BY <1>1, <1>7, SumUnfolds DEF g

LEMMA TotalsExist ==
  ASSUME est \in [Tasks -> Nat], NEW n \in Nat, NEW c \in [1..n -> Tasks]
  PROVE  \E f : Totals(f, c, n)
<1> DEFINE add == [p \in Nat \X (1..n) |-> p[1] + est[c[p[2]]]]
<1>1. \A x \in Nat, i \in 1..n : x + est[c[i]] \in Nat
  OBVIOUS
<1>2. add \in [Nat \X (1..n) -> Nat] /\ \A x \in Nat, i \in 1..n : add[<<x, i>>] = x + est[c[i]]
  BY <1>1
<1> HIDE DEF add
<1>3. Steps(add, Nat, n)
  BY <1>2 DEF Steps
<1>4. 0 \in Nat
  OBVIOUS
<1>5. PICK h : Computes(h, 0, add, Nat, n)
  BY <1>3, <1>4, FoldsExist
<1>6. PICK d : Passes(d, 0, add, Nat, n)
  BY <1>3, <1>4, <1>5, FoldsRun
<1>7. \A k \in 1..n : d[k - 1] \in Nat /\ d[k] = d[k - 1] + est[c[k]]
  <2> TAKE k \in 1..n
  <2>1. k - 1 \in 0..n /\ d \in [0..n -> Nat] /\ d[k] = add[<<d[k - 1], k>>]
    BY <1>6 DEF Passes
  <2>2. d[k - 1] \in Nat
    BY <2>1
  <2> QED
    BY <1>2, <2>1, <2>2
<1> QED
  BY <1>6, <1>7 DEF Passes, Totals

LEMMA SumIsNat ==
  ASSUME est \in [Tasks -> Nat], NEW n \in Nat, NEW c \in [1..n -> Tasks]
  PROVE  Weight(c) \in Nat
<1>1. PICK f : Totals(f, c, n)
  BY TotalsExist
<1>2. Weight(c) = f[n]
  BY <1>1, TotalsAreSums
<1> QED
  BY <1>1, <1>2 DEF Totals

LEMMA Longer ==
  ASSUME NEW S, NEW n \in Nat, NEW c \in [1..n -> S], NEW u \in S
  PROVE  /\ Append(c, u) \in [1..n + 1 -> S]
         /\ \A i \in 1..n : Append(c, u)[i] = c[i]
         /\ Append(c, u)[n + 1] = u
<1>1. c \in Seq(S) /\ Len(c) = n
  BY FunctionsAreSeqs
<1> QED
  <2>1. /\ Append(c, u) \in Seq(S) /\ Len(Append(c, u)) = n + 1
        /\ \A i \in 1..n : Append(c, u)[i] = c[i]
        /\ Append(c, u)[n + 1] = u
    BY <1>1, AppendProperties
  <2> QED
    BY <2>1, LenProperties

LEMMA SumOfLonger ==
  ASSUME est \in [Tasks -> Nat], NEW n \in Nat, NEW c \in [1..n -> Tasks], NEW u \in Tasks
  PROVE  Weight(Append(c, u)) = Weight(c) + est[u]
<1>1. PICK f : Totals(f, c, n)
  BY TotalsExist
<1> DEFINE g == [k \in 0..n + 1 |-> IF k <= n THEN f[k] ELSE f[n] + est[u]]
<1>2. f \in [0..n -> Nat] /\ f[0] = 0 /\ \A k \in 1..n : f[k] = f[k - 1] + est[c[k]]
  BY <1>1 DEF Totals
<1>3. Weight(c) = f[n]
  BY <1>1, TotalsAreSums
<1>4. Totals(g, Append(c, u), n + 1)
  <2>1. g \in [0..n + 1 -> Nat] /\ g[0] = 0
    BY <1>2
  <2>2. ASSUME NEW k \in 1..n + 1 PROVE g[k] = g[k - 1] + est[Append(c, u)[k]]
    <3>1. CASE k <= n
      <4>1. g[k] = f[k] /\ g[k - 1] = f[k - 1] /\ k \in 1..n
        BY <3>1
      <4> QED
        BY <1>2, <4>1, Longer
    <3>2. CASE k = n + 1
      <4>1. g[k] = f[n] + est[u] /\ g[k - 1] = f[n]
        BY <3>2
      <4> QED
        BY <3>2, <4>1, Longer
    <3> QED
      BY <3>1, <3>2
  <2> HIDE DEF g
  <2> QED
    BY <2>1, <2>2 DEF Totals
<1>5. g[n + 1] = f[n] + est[u]
  OBVIOUS
<1> HIDE DEF g
<1>6. Weight(Append(c, u)) = g[n + 1]
  <2>1. Append(c, u) \in [1..n + 1 -> Tasks]
    BY Longer
  <2>2. n + 1 \in Nat
    OBVIOUS
  <2> QED
    BY <1>4, <2>1, <2>2, TotalsAreSums
<1> QED
  BY <1>3, <1>5, <1>6

\* When every task takes time, what goes on is heavier.
LEMMA SumOfMore ==
  ASSUME est \in [Tasks -> Nat], \A k \in Tasks : est[k] > 0,
         NEW m \in Nat, NEW n \in Nat, m < n,
         NEW c \in [1..m -> Tasks], NEW d \in [1..n -> Tasks], \A i \in 1..m : c[i] = d[i]
  PROVE  Weight(c) < Weight(d)
<1>1. PICK f : Totals(f, d, n)
  BY TotalsExist
<1>2. f \in [0..n -> Nat] /\ f[0] = 0 /\ \A k \in 1..n : f[k] = f[k - 1] + est[d[k]]
  BY <1>1 DEF Totals
<1>3. Weight(d) = f[n]
  BY <1>1, TotalsAreSums
<1> DEFINE g == [k \in 0..m |-> f[k]]
<1>4. Totals(g, c, m)
  <2>1. g \in [0..m -> Nat] /\ g[0] = 0
    BY <1>2
  <2>2. \A k \in 1..m : g[k] = g[k - 1] + est[c[k]]
    BY <1>2
  <2> HIDE DEF g
  <2> QED
    BY <2>1, <2>2 DEF Totals
<1>5. g[m] = f[m]
  OBVIOUS
<1> HIDE DEF g
<1>6. Weight(c) = f[m]
  BY <1>4, <1>5, TotalsAreSums
<1> DEFINE T == {k \in 0..n : k > m => f[m] < f[k]}
<1>7. 0 \in T
  OBVIOUS
<1>8. ASSUME NEW k \in 1..n, k - 1 \in T PROVE k \in T
  <2>1. f[k] = f[k - 1] + est[d[k]] /\ est[d[k]] \in Nat /\ est[d[k]] > 0 /\ f[k - 1] \in Nat /\ f[k] \in Nat /\ f[m] \in Nat
    BY <1>2
  <2>2. CASE k <= m
    BY <2>2
  <2>3. CASE k = m + 1
    BY <2>1, <2>3
  <2>4. CASE k > m + 1
    BY <1>8, <2>1, <2>4
  <2> QED
    BY <2>2, <2>3, <2>4
<1>9. n \in T
  <2> HIDE DEF T
  <2>1. \A k \in 0..n : k \in T
    BY <1>7, <1>8, UpTo
  <2> QED
    BY <2>1
<1> QED
  BY <1>3, <1>6, <1>9

-----------------------------------------------------------------------------
(* The order of chains. *)

Pad(p, i) == IF i \in 1..Len(p) THEN p[i] + 1 ELSE 0

LEMMA PadIs == ASSUME NEW p \in Seq(Nat), NEW i \in Nat \ {0} PROVE Pad(p, i) \in Nat
BY LenProperties DEF Pad

\* The order of lists is that of the first place where they differ, an end coming first.
LEMMA LexIs ==
  ASSUME NEW p \in Seq(Nat), NEW q \in Seq(Nat)
  PROVE  Lexicographic(p, q) <=> \E i \in Nat \ {0} : /\ \A j \in 1..i - 1 : Pad(p, j) = Pad(q, j)
                                                      /\ Pad(p, i) < Pad(q, i)
<1>1. PICK m \in Nat, n \in Nat : m = Len(p) /\ n = Len(q) /\ DOMAIN p = 1..m /\ DOMAIN q = 1..n
  BY LenProperties
<1>2. (\A i \in 1..m : p[i] \in Nat) /\ (\A i \in 1..n : q[i] \in Nat)
  BY <1>1, ElementOfSeq
<1>3. ASSUME Lexicographic(p, q)
      PROVE  \E i \in Nat \ {0} : /\ \A j \in 1..i - 1 : Pad(p, j) = Pad(q, j)
                                  /\ Pad(p, i) < Pad(q, i)
  <2>1. PICK i \in 1..n : /\ \A j \in 1..i - 1 : j \in 1..m /\ p[j] = q[j]
                          /\ i = m + 1 \/ (i \in 1..m /\ p[i] < q[i])
    BY <1>1, <1>3 DEF Lexicographic
  <2>2. \A j \in 1..i - 1 : Pad(p, j) = Pad(q, j)
    BY <1>1, <2>1 DEF Pad
  <2>3. Pad(p, i) < Pad(q, i)
    BY <1>1, <1>2, <2>1 DEF Pad
  <2> QED
    BY <2>2, <2>3
<1>4. ASSUME NEW i \in Nat \ {0}, \A j \in 1..i - 1 : Pad(p, j) = Pad(q, j), Pad(p, i) < Pad(q, i)
      PROVE  Lexicographic(p, q)
  <2>1. i \in 1..n
    BY <1>1, <1>2, <1>4, PadIs DEF Pad
  <2>2. ASSUME NEW j \in 1..i - 1 PROVE j \in 1..m /\ p[j] = q[j]
    <3>1. j \in 1..n /\ Pad(p, j) = Pad(q, j) /\ Pad(q, j) = q[j] + 1 /\ q[j] \in Nat
      BY <1>1, <1>2, <1>4, <2>1 DEF Pad
    <3>2. j \in 1..m
      BY <1>1, <3>1 DEF Pad
    <3>3. Pad(p, j) = p[j] + 1 /\ p[j] \in Nat
      BY <1>1, <1>2, <3>2 DEF Pad
    <3> QED
      BY <3>1, <3>2, <3>3
  <2>3. i \in 1..m \/ i = m + 1
    <3>1. i > m + 1 => m + 1 \in 1..i - 1 /\ m + 1 \notin 1..m
      BY <2>1
    <3> QED
      BY <2>1, <2>2, <3>1
  <2>4. ASSUME i \in 1..m PROVE p[i] < q[i]
    <3>1. Pad(p, i) = p[i] + 1 /\ Pad(q, i) = q[i] + 1 /\ p[i] \in Nat /\ q[i] \in Nat
      BY <1>1, <1>2, <2>1, <2>4 DEF Pad
    <3> QED
      BY <1>4, <3>1
  <2> QED
    BY <1>1, <2>1, <2>2, <2>3, <2>4 DEF Lexicographic
<1> QED
  BY <1>3, <1>4

LEMMA LexTransitive ==
  ASSUME NEW p \in Seq(Nat), NEW q \in Seq(Nat), NEW r \in Seq(Nat),
         Lexicographic(p, q), Lexicographic(q, r)
  PROVE  Lexicographic(p, r)
<1>1. PICK i \in Nat \ {0} : (\A j \in 1..i - 1 : Pad(p, j) = Pad(q, j)) /\ Pad(p, i) < Pad(q, i)
  BY LexIs
<1>2. PICK k \in Nat \ {0} : (\A j \in 1..k - 1 : Pad(q, j) = Pad(r, j)) /\ Pad(q, k) < Pad(r, k)
  BY LexIs
<1>3. PICK m \in Nat \ {0} : m = IF i <= k THEN i ELSE k
  OBVIOUS
<1>4. \A j \in 1..m - 1 : j \in 1..i - 1 /\ j \in 1..k - 1
  BY <1>3
<1>5. \A j \in 1..m - 1 : Pad(p, j) = Pad(r, j)
  BY <1>1, <1>2, <1>4
<1>6. Pad(p, m) < Pad(r, m)
  <2>1. \A j \in {i, k} : Pad(p, j) \in Nat /\ Pad(q, j) \in Nat /\ Pad(r, j) \in Nat
    BY PadIs
  <2>2. i < k => i \in 1..k - 1
    OBVIOUS
  <2>3. k < i => k \in 1..i - 1
    OBVIOUS
  <2> QED
    BY <1>1, <1>2, <1>3, <2>1, <2>2, <2>3
<1> QED
  BY <1>5, <1>6, LexIs

LEMMA LexIrreflexive == ASSUME NEW p \in Seq(Nat) PROVE ~Lexicographic(p, p)
BY LexIs, PadIs

LEMMA LexTotal ==
  ASSUME NEW p \in Seq(Nat), NEW q \in Seq(Nat), p # q
  PROVE  Lexicographic(p, q) \/ Lexicographic(q, p)
<1>1. PICK m \in Nat, n \in Nat : m = Len(p) /\ n = Len(q)
  BY LenProperties
<1>2. (\A i \in 1..m : p[i] \in Nat) /\ (\A i \in 1..n : q[i] \in Nat)
  BY <1>1, ElementOfSeq
<1> DEFINE D == {i \in Nat \ {0} : Pad(p, i) # Pad(q, i)}
<1>3. D # {}
  <2>1. ASSUME D = {} PROVE FALSE
    <3>1. \A i \in Nat \ {0} : Pad(p, i) = Pad(q, i)
      BY <2>1
    <3>2. m = n
      <4>1. m < n => m + 1 \in 1..n /\ m + 1 \notin 1..m /\ m + 1 \in Nat \ {0}
        OBVIOUS
      <4>2. n < m => n + 1 \in 1..m /\ n + 1 \notin 1..n /\ n + 1 \in Nat \ {0}
        OBVIOUS
      <4> QED
        BY <1>1, <1>2, <3>1, <4>1, <4>2 DEF Pad
    <3>3. \A i \in 1..m : p[i] = q[i]
      <4> TAKE i \in 1..m
      <4>1. Pad(p, i) = p[i] + 1 /\ Pad(q, i) = q[i] + 1 /\ Pad(p, i) = Pad(q, i)
        BY <1>1, <3>1, <3>2 DEF Pad
      <4> QED
        BY <1>2, <3>2, <4>1
    <3> QED
      BY <1>1, <3>2, <3>3, SeqEqual
  <2> QED
    BY <2>1
<1>4. D \in SUBSET Nat
  OBVIOUS
<1>5. PICK i \in D : \A j \in D : i <= j
  <2> HIDE DEF D
  <2> QED
    BY <1>3, <1>4, LeastElement
<1>6. \A j \in 1..i - 1 : j \in Nat \ {0} /\ ~(i <= j)
  OBVIOUS
<1>7. \A j \in 1..i - 1 : Pad(p, j) = Pad(q, j)
  BY <1>5, <1>6
<1>8. i \in Nat \ {0} /\ Pad(p, i) # Pad(q, i)
  OBVIOUS
<1>9. Pad(p, i) < Pad(q, i) \/ Pad(q, i) < Pad(p, i)
  BY <1>8, PadIs
<1>10. \A j \in 1..i - 1 : Pad(q, j) = Pad(p, j)
  BY <1>7
<1> HIDE DEF D
<1> QED
  BY <1>7, <1>8, <1>9, <1>10, LexIs

\* The heavier of two chains comes first, of equals the first in the order of lists.
Better(x, y) == x.sum > y.sum \/ (x.sum = y.sum /\ Lexicographic(x.path, y.path))

Rated == [sum : Nat, path : Seq(Nat)]

LEMMA BetterIsAnOrder ==
  /\ \A x \in Rated : ~Better(x, x)
  /\ \A x \in Rated, y \in Rated : x # y => Better(x, y) \/ Better(y, x)
  /\ \A x \in Rated, y \in Rated, z \in Rated : Better(x, y) /\ Better(y, z) => Better(x, z)
<1>1. ASSUME NEW x \in Rated PROVE ~Better(x, x)
  BY LexIrreflexive DEF Better, Rated
<1>2. ASSUME NEW x \in Rated, NEW y \in Rated, x # y PROVE Better(x, y) \/ Better(y, x)
  <2>1. x.sum \in Nat /\ y.sum \in Nat /\ x.path \in Seq(Nat) /\ y.path \in Seq(Nat)
    BY DEF Rated
  <2>2. x.sum # y.sum \/ x.path # y.path
    BY <1>2 DEF Rated
  <2>3. x.path # y.path => Lexicographic(x.path, y.path) \/ Lexicographic(y.path, x.path)
    BY <2>1, LexTotal
  <2> QED
    BY <2>1, <2>2, <2>3 DEF Better
<1>3. ASSUME NEW x \in Rated, NEW y \in Rated, NEW z \in Rated, Better(x, y), Better(y, z) PROVE Better(x, z)
  <2>1. /\ x.sum \in Nat /\ y.sum \in Nat /\ z.sum \in Nat
        /\ x.path \in Seq(Nat) /\ y.path \in Seq(Nat) /\ z.path \in Seq(Nat)
    BY DEF Rated
  <2>2. Lexicographic(x.path, y.path) /\ Lexicographic(y.path, z.path) => Lexicographic(x.path, z.path)
    BY <2>1, LexTransitive
  <2> QED
    BY <1>3, <2>1, <2>2 DEF Better
<1> QED
  BY <1>1, <1>2, <1>3

\* Of any number of them one is the best.
LEMMA BestIs ==
  ASSUME NEW X \in SUBSET Rated, IsFiniteSet(X), X # {}
  PROVE  Best(X) \in X /\ \A y \in X \ {Best(X)} : Better(Best(X), y)
<1> DEFINE HasBest(Y) == \E x \in Y : \A y \in Y \ {x} : Better(x, y)
           T == {Cardinality(Y) : Y \in {Z \in SUBSET X : Z # {} /\ ~HasBest(Z)}}
<1>1. HasBest(X)
  <2>1. SUFFICES ASSUME T # {} PROVE FALSE
    OBVIOUS
  <2>2. T \in SUBSET Nat
    BY FS_Subset, FS_CardinalityType
  <2>3. PICK k \in T : \A m \in T : k <= m
    <3> HIDE DEF T
    <3> QED
      BY <2>1, <2>2, LeastElement
  <2>4. PICK Y \in SUBSET X : Y # {} /\ ~HasBest(Y) /\ k = Cardinality(Y)
    OBVIOUS
  <2>5. PICK y : y \in Y
    BY <2>4
  <2>6. /\ IsFiniteSet(Y \ {y}) /\ k \in Nat /\ Cardinality(Y \ {y}) = k - 1 /\ Y \ {y} \in SUBSET X
    BY <2>4, <2>5, FS_Subset, FS_RemoveElement, FS_CardinalityType
  <2>7. Y \ {y} # {}
    <3>1. ASSUME Y \ {y} = {} PROVE HasBest(Y)
      <4>1. \A z \in Y \ {y} : Better(y, z)
        BY <3>1
      <4> QED
        BY <2>5, <4>1
    <3> HIDE DEF HasBest
    <3> QED
      BY <2>4, <3>1
  <2>8. HasBest(Y \ {y})
    <3>1. ASSUME ~HasBest(Y \ {y}) PROVE FALSE
      <4>1. Cardinality(Y \ {y}) \in T
        <5> HIDE DEF HasBest
        <5> QED
          BY <2>6, <2>7, <3>1
      <4> HIDE DEF T
      <4> QED
        BY <2>3, <2>6, <4>1
    <3> QED
      BY <3>1
  <2>9. PICK x \in Y \ {y} : \A z \in (Y \ {y}) \ {x} : Better(x, z)
    BY <2>8
  <2>10. x \in Rated /\ y \in Rated /\ x # y /\ \A z \in Y : z \in Rated
    BY <2>4, <2>5, <2>9
  <2>11. CASE Better(x, y)
    <3>1. \A z \in Y \ {x} : Better(x, z)
      BY <2>9, <2>11
    <3> HIDE DEF T
    <3> QED
      BY <2>4, <2>9, <3>1
  <2>12. CASE Better(y, x)
    <3>1. \A z \in Y \ {y} : Better(y, z)
      BY <2>9, <2>10, <2>12, BetterIsAnOrder
    <3> HIDE DEF T
    <3> QED
      BY <2>4, <2>5, <3>1
  <2> QED
    BY <2>10, <2>11, <2>12, BetterIsAnOrder
<1>2. Best(X) = CHOOSE x \in X : \A y \in X \ {x} : Better(x, y)
  BY DEF Best, Better
<1> HIDE DEF T
<1> QED
  BY <1>1, <1>2

-----------------------------------------------------------------------------
(* The heaviest chain that ends in each task. *)

LEMMA ImagesAreFinite == ASSUME NEW S, IsFiniteSet(S), NEW f PROVE IsFiniteSet({f[x] : x \in S})
<1> DEFINE T == {f[x] : x \in S}
           g == [x \in S |-> f[x]]
<1>1. g \in Surjection(S, T)
  BY DEF Surjection
<1> HIDE DEF g, T
<1>2. IsFiniteSet(T)
  BY <1>1, FS_Surjection
<1> QED
  BY <1>2 DEF T

\* Every task comes after its predecessors in some order.
RankedBy(r) ==
  /\ r \in [Tasks -> 1..Cardinality(Tasks)]
  /\ \A k \in Tasks : \A p \in Preds(k) : p \in Tasks /\ r[p] < r[k]

\* What CriticalPath computes of the tasks before u.
PathTo(cp, u) ==
  IF Preds(u) = {} THEN [sum |-> est[u], path |-> <<u>>]
  ELSE LET best == Best({cp[v] : v \in Preds(u)})
       IN  [sum |-> best.sum + est[u], path |-> Append(best.path, u)]

Paths(cp) == cp = [u \in Tasks |-> PathTo(cp, u)]

LEMMA CriticalPathUnfolds == CriticalPath = Best({(CHOOSE cp : Paths(cp))[u] : u \in Tasks})
BY DEF CriticalPath, Paths, PathTo

LEMMA PathsExist ==
  ASSUME Cardinality(Tasks) \in Nat, NEW r, RankedBy(r)
  PROVE  \E cp : Paths(cp)
<1>1. PICK n \in Nat : n = Cardinality(Tasks)
  OBVIOUS
<1>2. /\ r \in [Tasks -> 1..n]
      /\ \A k \in Tasks : \A p \in Preds(k) : p \in Tasks /\ r[p] < r[k]
  BY <1>1 DEF RankedBy
<1> DEFINE Right(f, k) == f = [u \in Tasks |-> f[u]] /\ \A u \in Tasks : r[u] <= k => f[u] = PathTo(f, u)
           T == {k \in 0..n : \E f : Right(f, k)}
<1>3. 0 \in T
  <2>1. Right([u \in Tasks |-> 0], 0)
    BY <1>2
  <2> HIDE DEF Right
  <2> QED
    BY <2>1
<1>4. ASSUME NEW k \in 1..n, k - 1 \in T PROVE k \in T
  <2>1. PICK f : Right(f, k - 1)
    BY <1>4
  <2> DEFINE g == [u \in Tasks |-> IF r[u] = k THEN PathTo(f, u) ELSE f[u]]
  <2>2. ASSUME NEW u \in Tasks, r[u] <= k PROVE g[u] = PathTo(g, u)
    <3>1. \A v \in Preds(u) : g[v] = f[v]
      BY <1>2, <2>2
    <3> HIDE DEF g
    <3>2. {g[v] : v \in Preds(u)} = {f[v] : v \in Preds(u)}
      BY <3>1
    <3>3. PathTo(g, u) = PathTo(f, u)
      BY <3>2 DEF PathTo
    <3>4. r[u] # k => r[u] <= k - 1
      BY <1>2, <2>2
    <3>5. r[u] # k => f[u] = PathTo(f, u)
      BY <2>1, <3>4
    <3>6. g[u] = IF r[u] = k THEN PathTo(f, u) ELSE f[u]
      BY DEF g
    <3> QED
      BY <3>3, <3>5, <3>6
  <2>3. g = [u \in Tasks |-> g[u]]
    OBVIOUS
  <2> HIDE DEF g
  <2>4. Right(g, k)
    BY <2>2, <2>3
  <2> HIDE DEF Right
  <2> QED
    BY <2>4
<1>5. n \in T
  <2> HIDE DEF T
  <2>1. \A k \in 0..n : k \in T
    BY <1>3, <1>4, UpTo
  <2> QED
    BY <2>1
<1>6. PICK f : Right(f, n)
  BY <1>5
<1>7. \A u \in Tasks : f[u] = PathTo(f, u)
  BY <1>2, <1>6
<1>8. f = [u \in Tasks |-> PathTo(f, u)]
  BY <1>6, <1>7
<1> HIDE DEF Right
<1> QED
  BY <1>8 DEF Paths

\* A chain of m tasks that ends in u.
ChainTo(c, m, u) ==
  /\ c \in [1..m -> Tasks] /\ Preds(c[1]) = {} /\ c[m] = u
  /\ \A i \in 1..m - 1 : c[i] \in Preds(c[i + 1])

Rating(c) == [sum |-> Weight(c), path |-> c]

\* Not lighter than c, and not behind c when every task takes time.
AtLeast(x, c) ==
  /\ x.sum >= Weight(c)
  /\ (\A k \in Tasks : est[k] > 0) => x = Rating(c) \/ Better(x, Rating(c))

Heaviest(x, u, most) ==
  /\ \E m \in 1..most : ChainTo(x.path, m, u)
  /\ x = Rating(x.path)
  /\ \A m \in Nat \ {0} : \A c : ChainTo(c, m, u) => AtLeast(x, c)

LEMMA RatingsAreRated ==
  ASSUME est \in [Tasks -> Nat], Tasks \subseteq Nat, NEW m \in Nat, NEW c \in [1..m -> Tasks]
  PROVE  Rating(c) \in Rated
<1>1. Weight(c) \in Nat
  BY SumIsNat
<1>2. c \in Seq(Nat)
  BY FunctionsAreSeqs, SeqMonotonic
<1> QED
  BY <1>1, <1>2 DEF Rating, Rated

LEMMA LexLonger ==
  ASSUME est \in [Tasks -> Nat], Tasks \subseteq Nat, \A k \in Tasks : est[k] > 0,
         NEW m \in Nat, NEW n \in Nat, NEW p \in [1..m -> Tasks], NEW q \in [1..n -> Tasks], NEW u \in Tasks,
         Weight(p) = Weight(q), Lexicographic(p, q)
  PROVE  Lexicographic(Append(p, u), Append(q, u))
<1>1. Len(p) = m /\ Len(q) = n /\ DOMAIN p = 1..m
  BY FunctionsAreSeqs
<1>2. PICK i \in 1..n : /\ \A j \in 1..i - 1 : j \in 1..m /\ p[j] = q[j]
                        /\ i = m + 1 \/ (i \in 1..m /\ p[i] < q[i])
  BY <1>1 DEF Lexicographic
<1>3. i # m + 1
  <2>1. ASSUME i = m + 1 PROVE FALSE
    <3>1. m < n /\ \A j \in 1..m : p[j] = q[j]
      BY <1>2, <2>1
    <3>2. Weight(p) < Weight(q)
      BY <3>1, SumOfMore
    <3>3. Weight(p) \in Nat
      BY SumIsNat
    <3> QED
      BY <3>2, <3>3
  <2> QED
    BY <2>1
<1> DEFINE pu == Append(p, u)
           qu == Append(q, u)
<1>4. pu \in [1..m + 1 -> Tasks] /\ \A j \in 1..m : pu[j] = p[j]
  <2>1. pu \in [1..m + 1 -> Tasks]
    BY Longer
  <2>2. \A j \in 1..m : pu[j] = p[j]
    BY Longer
  <2> QED
    BY <2>1, <2>2
<1>5. qu \in [1..n + 1 -> Tasks] /\ \A j \in 1..n : qu[j] = q[j]
  <2>1. qu \in [1..n + 1 -> Tasks]
    BY Longer
  <2>2. \A j \in 1..n : qu[j] = q[j]
    BY Longer
  <2> QED
    BY <2>1, <2>2
<1> HIDE DEF pu, qu
<1>6. Len(qu) = n + 1 /\ DOMAIN pu = 1..m + 1
  <2>1. n + 1 \in Nat
    OBVIOUS
  <2> QED
    BY <1>4, <1>5, <2>1, FunctionsAreSeqs
<1>7. i \in 1..n + 1 /\ i \in 1..m + 1 /\ pu[i] < qu[i]
  BY <1>2, <1>3, <1>4, <1>5
<1>8. \A j \in 1..i - 1 : j \in 1..m + 1 /\ pu[j] = qu[j]
  BY <1>2, <1>4, <1>5
<1>9. Lexicographic(pu, qu)
  BY <1>6, <1>7, <1>8 DEF Lexicographic
<1> QED
  BY <1>9 DEF pu, qu

\* Everything is planned: the tasks are finite in number, each takes some minutes, and comes
\* after its predecessors.
Planned(r) ==
  /\ Tasks \subseteq Nat /\ IsFiniteSet(Tasks) /\ Tasks # {}
  /\ est \in [Tasks -> Nat]
  /\ RankedBy(r)

LEMMA PredsAreFinite == ASSUME IsFiniteSet(Tasks) PROVE \A u : IsFiniteSet(Preds(u)) /\ Preds(u) \subseteq Tasks
<1>1. \A u : Preds(u) \in SUBSET Tasks
  BY DEF Preds
<1> QED
  BY <1>1, FS_Subset

\* A task with nothing before it is the only chain to itself.
LEMMA FirstIsHeaviest ==
  ASSUME NEW r, Planned(r), NEW u \in Tasks, Preds(u) = {}
  PROVE  Heaviest([sum |-> est[u], path |-> <<u>>], u, r[u])
<1> DEFINE one == <<u>>
           f   == [k \in 0..1 |-> IF k = 0 THEN 0 ELSE est[u]]
<1>1. one \in [1..1 -> Tasks] /\ one[1] = u
  OBVIOUS
<1>2. est[u] \in Nat /\ r[u] \in Nat /\ 1 \in 1..r[u]
  BY DEF Planned, RankedBy
<1>3. Totals(f, one, 1)
  BY <1>1, <1>2 DEF Totals
<1>4. f[1] = est[u]
  OBVIOUS
<1>5. \A c \in [1..1 -> Tasks] : c[1] = u => c = one
  <2> TAKE c \in [1..1 -> Tasks]
  <2>1. c = [i \in 1..1 |-> c[i]] /\ one = [i \in 1..1 |-> one[i]]
    BY <1>1
  <2> HIDE DEF one
  <2>2. ASSUME c[1] = u PROVE \A i \in 1..1 : c[i] = one[i]
    BY <1>1, <2>2
  <2> QED
    BY <2>1, <2>2
<1> HIDE DEF one, f
<1>6. Weight(one) = est[u]
  BY <1>1, <1>3, <1>4, TotalsAreSums
<1>7. ChainTo(one, 1, u)
  BY <1>1 DEF ChainTo
<1>8. ASSUME NEW m \in Nat \ {0}, NEW c, ChainTo(c, m, u) PROVE c = one
  <2>1. m = 1
    <3>1. m # 1 => m - 1 \in 1..m - 1 /\ m - 1 + 1 = m
      OBVIOUS
    <3> QED
      BY <1>8, <3>1 DEF ChainTo
  <2> QED
    BY <1>5, <1>8, <2>1 DEF ChainTo
<1> DEFINE x == [sum |-> est[u], path |-> one]
<1>9. x = Rating(one) /\ x.path = one
  BY <1>6 DEF Rating
<1>10. x.sum >= Weight(one)
  BY <1>2, <1>6
<1> HIDE DEF x
<1>11. Heaviest(x, u, r[u])
  BY <1>2, <1>7, <1>8, <1>9, <1>10 DEF Heaviest, AtLeast
<1> QED
  BY <1>11 DEF x, one

\* A chain to a task with predecessors goes through one of them.
LEMMA ChainsGoThrough ==
  ASSUME NEW r, Planned(r), NEW u \in Tasks, Preds(u) # {}, NEW m \in Nat \ {0}, NEW c, ChainTo(c, m, u)
  PROVE  /\ m > 1
         /\ \E v \in Preds(u) : \E d : ChainTo(d, m - 1, v) /\ c = Append(d, u)
<1>1. c \in [1..m -> Tasks] /\ Preds(c[1]) = {} /\ c[m] = u /\ \A i \in 1..m - 1 : c[i] \in Preds(c[i + 1])
  BY DEF ChainTo
<1>2. m > 1
  BY <1>1
<1> DEFINE d == [i \in 1..m - 1 |-> c[i]]
<1>3. m - 1 \in Nat /\ m - 1 \in 1..m - 1 /\ m - 1 + 1 = m
  BY <1>2
<1>4. d \in [1..m - 1 -> Tasks] /\ (\A i \in 1..m - 1 : d[i] = c[i])
  BY <1>1
<1> HIDE DEF d
<1>5. c[m - 1] \in Preds(u)
  BY <1>1, <1>3
<1>6. ChainTo(d, m - 1, c[m - 1])
  <2>1. \A i \in 1..m - 1 - 1 : i \in 1..m - 1 /\ i + 1 \in 1..m - 1
    OBVIOUS
  <2>2. 1 \in 1..m - 1
    BY <1>2
  <2> QED
    BY <1>1, <1>3, <1>4, <2>1, <2>2 DEF ChainTo
<1>7. c = Append(d, u)
  <2> DEFINE e == Append(d, u)
  <2>1. e \in [1..m - 1 + 1 -> Tasks]
    BY <1>3, <1>4, Longer
  <2>2. \A i \in 1..m - 1 : e[i] = d[i]
    BY <1>3, <1>4, Longer
  <2>3. e[m - 1 + 1] = u
    BY <1>3, <1>4, Longer
  <2> HIDE DEF e
  <2>4. \A i \in 1..m : e[i] = c[i]
    <3> TAKE i \in 1..m
    <3>1. i \in 1..m - 1 \/ i = m
      OBVIOUS
    <3> QED
      BY <1>1, <1>3, <1>4, <2>2, <2>3, <3>1
  <2>5. e = [i \in 1..m |-> e[i]] /\ c = [i \in 1..m |-> c[i]]
    BY <1>1, <1>3, <2>1
  <2>6. c = e
    BY <2>4, <2>5
  <2> QED
    BY <2>6 DEF e
<1> QED
  BY <1>2, <1>5, <1>6, <1>7

\* Going on from the best of the heaviest chains to its predecessors gives the heaviest.
LEMMA NextIsHeaviest ==
  ASSUME NEW r, Planned(r), NEW u \in Tasks, Preds(u) # {}, NEW cp,
         \A v \in Preds(u) : Heaviest(cp[v], v, r[v])
  PROVE  LET best == Best({cp[v] : v \in Preds(u)})
         IN  Heaviest([sum |-> best.sum + est[u], path |-> Append(best.path, u)], u, r[u])
<1>1. /\ Tasks \subseteq Nat /\ IsFiniteSet(Tasks) /\ est \in [Tasks -> Nat]
      /\ r \in [Tasks -> 1..Cardinality(Tasks)] /\ \A p \in Preds(u) : p \in Tasks /\ r[p] < r[u]
      /\ r[u] \in Nat /\ est[u] \in Nat /\ \A v \in Tasks : r[v] \in Nat
  <2>1. Cardinality(Tasks) \in Nat
    BY FS_CardinalityType DEF Planned
  <2> QED
    BY <2>1 DEF Planned, RankedBy
<1> DEFINE X == {cp[v] : v \in Preds(u)}
           b == Best(X)
           x == [sum |-> b.sum + est[u], path |-> Append(b.path, u)]
<1>2. \A v \in Preds(u) : cp[v] \in Rated
  <2> TAKE v \in Preds(u)
  <2>1. PICK m \in 1..r[v] : ChainTo(cp[v].path, m, v) /\ cp[v] = Rating(cp[v].path)
    BY DEF Heaviest
  <2>2. m \in Nat /\ cp[v].path \in [1..m -> Tasks]
    BY <1>1, <2>1 DEF ChainTo
  <2> QED
    BY <1>1, <2>1, <2>2, RatingsAreRated
<1>3. b \in X /\ \A y \in X \ {b} : Better(b, y)
  <2>1. IsFiniteSet(X)
    BY <1>1, PredsAreFinite, ImagesAreFinite
  <2>2. X \in SUBSET Rated /\ X # {}
    BY <1>2
  <2> HIDE DEF X
  <2> QED
    BY <2>1, <2>2, BestIs
<1> HIDE DEF b
<1>4. PICK w \in Preds(u) : b = cp[w]
  BY <1>3
<1>5. PICK m \in 1..r[w] : ChainTo(b.path, m, w) /\ b = Rating(b.path)
  BY <1>4 DEF Heaviest
<1>6. m \in Nat /\ b.path \in [1..m -> Tasks] /\ w \in Tasks /\ m + 1 \in 1..r[u] /\ b \in Rated /\ b.sum = Weight(b.path)
  <2>1. m \in Nat /\ w \in Tasks /\ b \in Rated /\ b.path \in [1..m -> Tasks]
    BY <1>1, <1>2, <1>4, <1>5 DEF ChainTo
  <2>2. m + 1 \in 1..r[u]
    <3>1. r[w] \in Nat /\ r[w] < r[u] /\ r[u] \in Nat /\ m \in 1..r[w]
      BY <1>1, <1>4, <1>5
    <3> QED
      BY <3>1
  <2>3. b.sum = Weight(b.path)
    <3>1. Rating(b.path).sum = Weight(b.path)
      BY DEF Rating
    <3> QED
      BY <1>5, <3>1
  <2> QED
    BY <2>1, <2>2, <2>3
<1>7. ChainTo(x.path, m + 1, u)
  <2> DEFINE c == Append(b.path, u)
  <2>1. c \in [1..m + 1 -> Tasks]
    BY <1>6, Longer
  <2>2. \A i \in 1..m : c[i] = b.path[i]
    BY <1>6, Longer
  <2>3. c[m + 1] = u
    BY <1>6, Longer
  <2>4. x.path = c
    OBVIOUS
  <2> HIDE DEF c, x
  <2>5. \A i \in 1..m : i = m \/ (i \in 1..m - 1 /\ i + 1 \in 1..m)
    BY <1>6
  <2>6. 1 \in 1..m /\ m + 1 - 1 = m
    BY <1>5, <1>6
  <2>7. \A i \in 1..m : c[i] \in Preds(c[i + 1])
    BY <1>5, <2>2, <2>3, <2>5 DEF ChainTo
  <2>8. Preds(c[1]) = {}
    BY <1>5, <2>2, <2>6 DEF ChainTo
  <2> QED
    BY <2>1, <2>3, <2>4, <2>6, <2>7, <2>8 DEF ChainTo
<1>8. x = Rating(x.path)
  <2>1. Weight(Append(b.path, u)) = b.sum + est[u]
    BY <1>1, <1>6, SumOfLonger
  <2> QED
    BY <2>1 DEF Rating
<1>9. ASSUME NEW n \in Nat \ {0}, NEW c, ChainTo(c, n, u) PROVE AtLeast(x, c)
  <2>1. n > 1 /\ \E v \in Preds(u) : \E d : ChainTo(d, n - 1, v) /\ c = Append(d, u)
    BY <1>9, ChainsGoThrough
  <2>2. PICK v \in Preds(u) : \E d : ChainTo(d, n - 1, v) /\ c = Append(d, u)
    BY <2>1
  <2>3. PICK d : ChainTo(d, n - 1, v) /\ c = Append(d, u)
    BY <2>2
  <2>4. n - 1 \in Nat \ {0} /\ d \in [1..n - 1 -> Tasks]
    BY <2>1, <2>3 DEF ChainTo
  <2>5. AtLeast(cp[v], d)
    BY <2>3, <2>4 DEF Heaviest
  <2>6. cp[v] \in X /\ cp[v] \in Rated /\ Rating(d) \in Rated
    BY <1>1, <1>2, <2>4, RatingsAreRated
  <2>7. b = cp[v] \/ Better(b, cp[v])
    BY <1>3, <2>6
  <2>8. Weight(c) = Weight(d) + est[u] /\ Weight(d) \in Nat
    BY <1>1, <2>3, <2>4, SumOfLonger, SumIsNat
  <2>9. b.sum \in Nat /\ cp[v].sum \in Nat /\ b.sum >= cp[v].sum /\ cp[v].sum >= Weight(d)
    BY <1>6, <2>5, <2>6, <2>7 DEF Better, Rated, AtLeast
  <2>10. x.sum = b.sum + est[u]
    OBVIOUS
  <2>11. x.sum >= Weight(c)
    BY <1>1, <2>8, <2>9, <2>10
  <2>12. ASSUME \A k \in Tasks : est[k] > 0 PROVE x = Rating(c) \/ Better(x, Rating(c))
    <3>1. b = Rating(d) \/ Better(b, Rating(d))
      BY <1>6, <2>5, <2>6, <2>7, <2>12, BetterIsAnOrder DEF AtLeast
    <3>2. CASE b = Rating(d)
      BY <2>3, <2>8, <3>2 DEF Rating
    <3>3. CASE Better(b, Rating(d))
      <4>1. b.sum > Weight(d) \/ (b.sum = Weight(d) /\ Lexicographic(b.path, d))
        BY <3>3 DEF Better, Rating
      <4>2. CASE b.sum > Weight(d)
        <5>1. x.sum > Weight(c)
          BY <1>1, <2>8, <2>9, <2>10, <4>2
        <5> HIDE DEF x
        <5> QED
          BY <5>1 DEF Better, Rating
      <4>3. CASE b.sum = Weight(d) /\ Lexicographic(b.path, d)
        <5>1. Lexicographic(Append(b.path, u), Append(d, u))
          BY <1>1, <1>6, <2>4, <2>12, <4>3, LexLonger
        <5>2. x.sum = Weight(c) /\ Lexicographic(x.path, c)
          BY <2>3, <2>8, <2>10, <4>3, <5>1
        <5> HIDE DEF x
        <5> QED
          BY <5>2 DEF Better, Rating
      <4> QED
        BY <4>1, <4>2, <4>3
    <3> QED
      BY <3>1, <3>2, <3>3
  <2> HIDE DEF x
  <2> QED
    BY <2>11, <2>12 DEF AtLeast
<1> HIDE DEF x
<1>10. Heaviest(x, u, r[u])
  BY <1>6, <1>7, <1>8, <1>9 DEF Heaviest
<1> QED
  BY <1>10 DEF x, b, X

LEMMA PathsAreHeaviest ==
  ASSUME NEW r, Planned(r), NEW cp, Paths(cp)
  PROVE  \A u \in Tasks : Heaviest(cp[u], u, r[u])
<1> DEFINE T == {r[u] : u \in {v \in Tasks : ~Heaviest(cp[v], v, r[v])}}
<1>1. SUFFICES ASSUME T # {} PROVE FALSE
  OBVIOUS
<1>2. r \in [Tasks -> 1..Cardinality(Tasks)] /\ \A u \in Tasks : \A p \in Preds(u) : p \in Tasks /\ r[p] < r[u]
  BY DEF Planned, RankedBy
<1>3. T \in SUBSET Nat
  BY <1>2
<1>4. PICK k \in T : \A m \in T : k <= m
  <2> HIDE DEF T
  <2> QED
    BY <1>1, <1>3, LeastElement
<1>5. PICK u \in Tasks : k = r[u] /\ ~Heaviest(cp[u], u, r[u])
  OBVIOUS
<1>6. ASSUME NEW v \in Preds(u) PROVE Heaviest(cp[v], v, r[v])
  <2>1. v \in Tasks /\ r[v] < k /\ r[v] \in Nat /\ k \in Nat
    BY <1>2, <1>5
  <2>2. r[v] \notin T
    <3> HIDE DEF T
    <3> QED
      BY <1>4, <2>1
  <2> QED
    BY <2>1, <2>2
<1> HIDE DEF T
<1>7. cp[u] = PathTo(cp, u)
  BY DEF Paths
<1>8. CASE Preds(u) = {}
  BY <1>5, <1>7, <1>8, FirstIsHeaviest DEF PathTo
<1>9. CASE Preds(u) # {}
  <2> DEFINE best == Best({cp[v] : v \in Preds(u)})
             x == [sum |-> best.sum + est[u], path |-> Append(best.path, u)]
  <2>1. Heaviest(x, u, r[u])
    BY <1>6, <1>9, NextIsHeaviest
  <2>2. cp[u] = x
    BY <1>7, <1>9 DEF PathTo
  <2> HIDE DEF x
  <2> QED
    BY <1>5, <2>1, <2>2
<1> QED
  BY <1>8, <1>9

LEMMA PathsAreRated ==
  ASSUME NEW r, Planned(r), NEW u \in Tasks, NEW x, Heaviest(x, u, r[u])
  PROVE  x \in Rated
<1>1. PICK m \in 1..r[u] : ChainTo(x.path, m, u) /\ x = Rating(x.path)
  BY DEF Heaviest
<1>2. r[u] \in Nat
  BY DEF Planned, RankedBy
<1>3. m \in Nat /\ x.path \in [1..m -> Tasks] /\ Tasks \subseteq Nat /\ est \in [Tasks -> Nat]
  BY <1>1, <1>2 DEF ChainTo, Planned
<1> QED
  BY <1>1, <1>3, RatingsAreRated

\* The path that is reported is the heaviest chain to some task, and not lighter than those to
\* the others.
LEMMA CriticalPathIs ==
  ASSUME NEW r, Planned(r)
  PROVE  \E cp : /\ \A u \in Tasks : Heaviest(cp[u], u, r[u])
                 /\ Paths(cp)
                 /\ CriticalPath \in {cp[u] : u \in Tasks}
                 /\ \A u \in Tasks : CriticalPath = cp[u] \/ Better(CriticalPath, cp[u])
<1> DEFINE cp == CHOOSE f : Paths(f)
           X  == {cp[u] : u \in Tasks}
<1>1. IsFiniteSet(Tasks) /\ Cardinality(Tasks) \in Nat /\ Tasks # {} /\ RankedBy(r)
  BY FS_CardinalityType DEF Planned
<1>2. Paths(cp)
  BY <1>1, PathsExist
<1>3. CriticalPath = Best(X)
  BY CriticalPathUnfolds
<1> HIDE DEF cp
<1>4. \A u \in Tasks : Heaviest(cp[u], u, r[u])
  BY <1>2, PathsAreHeaviest
<1>5. X \in SUBSET Rated /\ X # {}
  BY <1>1, <1>4, PathsAreRated
<1>6. IsFiniteSet(X)
  BY <1>1, ImagesAreFinite
<1>7. \A u \in Tasks : cp[u] \in X
  OBVIOUS
<1> HIDE DEF X
<1>8. Best(X) \in X /\ \A y \in X \ {Best(X)} : Better(Best(X), y)
  BY <1>5, <1>6, BestIs
<1>9. \A u \in Tasks : CriticalPath = cp[u] \/ Better(CriticalPath, cp[u])
  BY <1>3, <1>7, <1>8
<1>10. CriticalPath \in X
  BY <1>3, <1>8
<1> QED
  BY <1>2, <1>4, <1>9, <1>10 DEF X

LEMMA ChainsAre ==
  ASSUME NEW c, Cardinality(Tasks) \in Nat
  PROVE  c \in Chains <=> \E m \in 1..Cardinality(Tasks) : \E u \in Tasks : ChainTo(c, m, u)
<1>1. PICK n \in Nat : n = Cardinality(Tasks)
  OBVIOUS
<1>2. ASSUME c \in Chains PROVE \E m \in 1..n : \E u \in Tasks : ChainTo(c, m, u)
  <2>1. PICK m \in 1..n : c \in [1..m -> Tasks]
    BY <1>1, <1>2 DEF Chains
  <2>2. Len(c) = m /\ m \in 1..m
    BY <2>1, FunctionsAreSeqs
  <2>3. Preds(c[1]) = {} /\ \A i \in 1..m - 1 : c[i] \in Preds(c[i + 1])
    BY <1>2, <2>2 DEF Chains
  <2>4. ChainTo(c, m, c[m]) /\ c[m] \in Tasks
    BY <2>1, <2>2, <2>3 DEF ChainTo
  <2> QED
    BY <2>4
<1>3. ASSUME NEW m \in 1..n, NEW u \in Tasks, ChainTo(c, m, u) PROVE c \in Chains
  <2>1. c \in [1..m -> Tasks] /\ m \in Nat
    BY <1>3 DEF ChainTo
  <2>2. Len(c) = m
    BY <2>1, FunctionsAreSeqs
  <2>3. c \in UNION {[1..k -> Tasks] : k \in 1..n}
    BY <2>1
  <2> QED
    BY <1>1, <1>3, <2>2, <2>3 DEF Chains, ChainTo
<1> QED
  BY <1>1, <1>2, <1>3

LEMMA ChainsAreFinite == ASSUME IsFiniteSet(Tasks) PROVE IsFiniteSet(Chains)
<1>1. PICK n \in Nat : n = Cardinality(Tasks)
  BY FS_CardinalityType
<1> DEFINE P == (1..n) \X Tasks
           g == [c \in Chains |-> {<<i, c[i]>> : i \in DOMAIN c}]
<1>2. IsFiniteSet(SUBSET P)
  <2>1. IsFiniteSet(1..n)
    BY FS_Interval
  <2>2. IsFiniteSet(P)
    BY <2>1, FS_Product
  <2> QED
    BY <2>2, FS_SUBSET
<1>3. \A c \in Chains : \E m \in 1..n : c \in [1..m -> Tasks]
  BY <1>1 DEF Chains
<1>4. \A c \in Chains : g[c] \in SUBSET P
  BY <1>3
<1>5. ASSUME NEW c \in Chains, NEW d \in Chains, g[c] = g[d] PROVE c = d
  <2>1. {<<i, c[i]>> : i \in DOMAIN c} = {<<i, d[i]>> : i \in DOMAIN d}
    BY <1>5
  <2>2. \A i \in DOMAIN c : i \in DOMAIN d /\ c[i] = d[i]
    <3> TAKE i \in DOMAIN c
    <3>1. <<i, c[i]>> \in {<<j, d[j]>> : j \in DOMAIN d}
      BY <2>1
    <3> QED
      BY <3>1
  <2>3. \A i \in DOMAIN d : i \in DOMAIN c
    <3> TAKE i \in DOMAIN d
    <3>1. <<i, d[i]>> \in {<<j, c[j]>> : j \in DOMAIN c}
      BY <2>1
    <3> QED
      BY <3>1
  <2>4. DOMAIN c = DOMAIN d
    BY <2>2, <2>3
  <2>5. c = [i \in DOMAIN c |-> c[i]] /\ d = [i \in DOMAIN d |-> d[i]]
    BY <1>3
  <2> QED
    BY <2>2, <2>4, <2>5
<1>6. g \in Injection(Chains, SUBSET P)
  <2>1. g \in [Chains -> SUBSET P] /\ DOMAIN g = Chains
    BY <1>4
  <2> HIDE DEF g
  <2> QED
    BY <1>5, <2>1 DEF Injection, IsInjective
<1> HIDE DEF g, P
<1> QED
  BY <1>2, <1>6, FS_Injection

\* It is one of the chains, of the greatest weight, and the first of them when all take time.
LEMMA CriticalPathIsFirst ==
  ASSUME NEW r, Planned(r)
  PROVE  /\ CriticalPath.path \in Chains /\ CriticalPath.sum = Weight(CriticalPath.path)
         /\ LET first == Best({[sum |-> Weight(c), path |-> c] : c \in Chains})
            IN  /\ CriticalPath.sum = first.sum
                /\ (\A k \in Tasks : est[k] > 0) => CriticalPath.path = first.path
<1>1. /\ Tasks \subseteq Nat /\ IsFiniteSet(Tasks) /\ est \in [Tasks -> Nat]
      /\ r \in [Tasks -> 1..Cardinality(Tasks)] /\ Cardinality(Tasks) \in Nat
  BY FS_CardinalityType DEF Planned, RankedBy
<1>2. PICK cp : /\ \A u \in Tasks : Heaviest(cp[u], u, r[u])
                /\ CriticalPath \in {cp[u] : u \in Tasks}
                /\ \A u \in Tasks : CriticalPath = cp[u] \/ Better(CriticalPath, cp[u])
  BY CriticalPathIs
<1> DEFINE critical == CriticalPath
           X == {Rating(c) : c \in Chains}
           first == Best(X)
<1>3. \A u \in Tasks : critical = cp[u] \/ Better(critical, cp[u])
  BY <1>2
<1>4. PICK w \in Tasks : critical = cp[w] /\ Heaviest(critical, w, r[w])
  BY <1>2
<1> HIDE DEF critical
<1>5. PICK m \in 1..r[w] : ChainTo(critical.path, m, w) /\ critical = Rating(critical.path)
  BY <1>4 DEF Heaviest
<1>6. critical \in Rated /\ \A u \in Tasks : cp[u] \in Rated
  BY <1>2, <1>4, PathsAreRated
<1>7. m \in 1..Cardinality(Tasks)
  BY <1>1, <1>5
<1>8. critical.path \in Chains
  BY <1>1, <1>5, <1>7, ChainsAre
<1>9. critical.sum = Weight(critical.path)
  <2>1. Rating(critical.path).sum = Weight(critical.path)
    BY DEF Rating
  <2> QED
    BY <1>5, <2>1
<1>10. \A c \in Chains : Rating(c) \in Rated
  <2> TAKE c \in Chains
  <2>1. PICK k \in 1..Cardinality(Tasks), u \in Tasks : ChainTo(c, k, u)
    BY <1>1, ChainsAre
  <2>2. k \in Nat /\ c \in [1..k -> Tasks]
    BY <1>1, <2>1 DEF ChainTo
  <2> QED
    BY <1>1, <2>2, RatingsAreRated
<1>11. IsFiniteSet(X)
  <2> DEFINE f == [c \in Chains |-> Rating(c)]
  <2>1. IsFiniteSet({f[c] : c \in Chains})
    BY <1>1, ChainsAreFinite, ImagesAreFinite
  <2>2. {f[c] : c \in Chains} = X
    OBVIOUS
  <2> QED
    BY <2>1, <2>2
<1>12. X \in SUBSET Rated /\ critical \in X
  BY <1>5, <1>8, <1>10
<1>13. \A x \in X : \E c \in Chains : x = Rating(c)
  OBVIOUS
<1> HIDE DEF X
<1>14. first \in X /\ \A x \in X \ {first} : Better(first, x)
  <2>1. X # {}
    BY <1>12
  <2> QED
    BY <1>11, <1>12, <2>1, BestIs
<1> HIDE DEF first
<1>15. PICK c \in Chains : first = Rating(c)
  BY <1>13, <1>14
<1>16. PICK k \in 1..Cardinality(Tasks), u \in Tasks : ChainTo(c, k, u)
  BY <1>1, <1>15, ChainsAre
<1>17. AtLeast(cp[u], c)
  <2>1. k \in Nat \ {0}
    BY <1>1
  <2> QED
    BY <1>2, <1>16, <2>1 DEF Heaviest
<1>18. /\ first \in Rated /\ (first = critical \/ Better(first, critical))
       /\ first.sum = Weight(c) /\ first.sum \in Nat /\ cp[u].sum \in Nat /\ critical.sum \in Nat
  BY <1>6, <1>10, <1>12, <1>14, <1>15 DEF Rating, Rated
<1>19. critical.sum = first.sum
  <2>1. first.sum >= critical.sum
    BY <1>18 DEF Better
  <2>2. critical.sum >= cp[u].sum
    BY <1>3, <1>18 DEF Better
  <2>3. cp[u].sum >= first.sum
    BY <1>17, <1>18 DEF AtLeast
  <2> QED
    BY <1>18, <2>1, <2>2, <2>3
<1>20. ASSUME \A j \in Tasks : est[j] > 0 PROVE critical = first
  <2>1. cp[u] = first \/ Better(cp[u], first)
    BY <1>15, <1>17, <1>20 DEF AtLeast
  <2>2. critical = first \/ Better(critical, first)
    BY <1>3, <1>6, <1>18, <2>1, BetterIsAnOrder
  <2> QED
    BY <1>6, <1>18, <2>2, BetterIsAnOrder
<1>21. first = Best({[sum |-> Weight(d), path |-> d] : d \in Chains})
  BY DEF first, X, Rating
<1> QED
  BY <1>8, <1>9, <1>19, <1>20, <1>21 DEF critical

-----------------------------------------------------------------------------
(* What all tasks take, one after the other. *)

\* What each set of tasks takes.
Adds(s) ==
  /\ s \in [SUBSET Tasks -> Nat] /\ s[{}] = 0
  /\ \A T \in SUBSET Tasks : \A x \in Tasks \ T : s[T \cup {x}] = s[T] + est[x]

Lists(c) == c \in [1..Cardinality(Tasks) -> Tasks] /\ {c[i] : i \in DOMAIN c} = Tasks

LEMMA ListExists == ASSUME IsFiniteSet(Tasks) PROVE \E c : Lists(c)
<1>1. PICK c : c \in Bijection(1..Cardinality(Tasks), Tasks)
  BY FS_CardinalityType DEF ExistsBijection
<1>2. c \in [1..Cardinality(Tasks) -> Tasks] /\ \A t \in Tasks : \E i \in 1..Cardinality(Tasks) : c[i] = t
  BY <1>1 DEF Bijection, Injection, Surjection
<1> QED
  BY <1>2 DEF Lists

LEMMA ListsRepeatNothing ==
  ASSUME IsFiniteSet(Tasks), NEW c, Lists(c)
  PROVE  \A i \in 1..Cardinality(Tasks), j \in 1..Cardinality(Tasks) : c[i] = c[j] => i = j
<1>1. PICK n \in Nat : n = Cardinality(Tasks)
  BY FS_CardinalityType
<1>2. IsFiniteSet(1..n) /\ Cardinality(1..n) = n
  BY FS_Interval
<1>3. c \in Surjection(1..n, Tasks)
  <2>1. c \in [1..n -> Tasks] /\ DOMAIN c = 1..n /\ {c[i] : i \in DOMAIN c} = Tasks
    BY <1>1 DEF Lists
  <2> QED
    BY <2>1 DEF Surjection
<1>4. c \in Injection(1..n, Tasks)
  BY <1>1, <1>2, <1>3, FS_SurjSameCardinalityImpliesInj
<1>5. DOMAIN c = 1..n
  BY <1>1 DEF Lists
<1> QED
  BY <1>1, <1>4, <1>5 DEF Injection, IsInjective

LEMMA AddsExist == ASSUME IsFiniteSet(Tasks), est \in [Tasks -> Nat] PROVE \E s : Adds(s)
<1>1. PICK n \in Nat : n = Cardinality(Tasks)
  BY FS_CardinalityType
<1>2. PICK c : Lists(c)
  BY ListExists
<1>3. c \in [1..n -> Tasks] /\ {c[i] : i \in 1..n} = Tasks
  BY <1>1, <1>2 DEF Lists
<1>4. \A i \in 1..n, j \in 1..n : c[i] = c[j] => i = j
  BY <1>1, <1>2, ListsRepeatNothing
<1> DEFINE Some(k) == {c[i] : i \in 1..k}
           Part(s, k) == /\ s \in [SUBSET Some(k) -> Nat] /\ s[{}] = 0
                         /\ \A t \in SUBSET Some(k) : \A x \in Some(k) \ t : s[t \cup {x}] = s[t] + est[x]
           T == {k \in 0..n : \E s : Part(s, k)}
<1>5. 0 \in T
  <2>1. Some(0) = {}
    OBVIOUS
  <2> HIDE DEF Some
  <2>2. Part([t \in SUBSET Some(0) |-> 0], 0)
    BY <2>1
  <2> HIDE DEF Part
  <2> QED
    BY <2>2
<1>6. ASSUME NEW k \in 1..n, k - 1 \in T PROVE k \in T
  <2>1. PICK s : Part(s, k - 1)
    BY <1>6
  <2>2. Some(k) = Some(k - 1) \cup {c[k]} /\ c[k] \notin Some(k - 1) /\ c[k] \in Tasks
    <3>1. \A i \in 1..k : i = k \/ i \in 1..k - 1
      OBVIOUS
    <3>2. \A i \in 1..k - 1 : i \in 1..n /\ i # k
      OBVIOUS
    <3>3. \A i \in 1..k - 1 : i \in 1..k
      OBVIOUS
    <3> QED
      BY <1>3, <1>4, <3>1, <3>2, <3>3
  <2>3. Some(k - 1) \subseteq Tasks
    BY <1>3
  <2> HIDE DEF Some
  <2> DEFINE g == [t \in SUBSET Some(k) |-> IF c[k] \in t THEN s[t \ {c[k]}] + est[c[k]] ELSE s[t]]
  <2>4. \A t \in SUBSET Some(k) : t \ {c[k]} \in SUBSET Some(k - 1) /\ (c[k] \notin t => t \in SUBSET Some(k - 1))
    BY <2>2
  <2>5. g \in [SUBSET Some(k) -> Nat]
    <3>1. \A t \in SUBSET Some(k - 1) : s[t] \in Nat
      BY <2>1
    <3>2. est[c[k]] \in Nat
      BY <2>2
    <3>3. \A t \in SUBSET Some(k) : (IF c[k] \in t THEN s[t \ {c[k]}] + est[c[k]] ELSE s[t]) \in Nat
      BY <2>4, <3>1, <3>2
    <3> QED
      BY <3>3
  <2>6. g[{}] = 0
    BY <2>1
  <2>7. ASSUME NEW t \in SUBSET Some(k), NEW x \in Some(k) \ t PROVE g[t \cup {x}] = g[t] + est[x]
    <3>1. t \cup {x} \in SUBSET Some(k)
      BY <2>7
    <3>2. CASE x = c[k]
      <4>1. (t \cup {x}) \ {x} = t
        BY <2>7
      <4> QED
        BY <2>7, <3>1, <3>2, <4>1
    <3>3. CASE x # c[k] /\ c[k] \in t
      <4>1. (t \cup {x}) \ {c[k]} = (t \ {c[k]}) \cup {x}
        BY <3>3
      <4>2. t \ {c[k]} \in SUBSET Some(k - 1) /\ x \in Some(k - 1) \ (t \ {c[k]})
        BY <2>2, <2>4, <2>7, <3>3
      <4>3. s[(t \ {c[k]}) \cup {x}] = s[t \ {c[k]}] + est[x]
        BY <2>1, <4>2
      <4>4. g[t \cup {x}] = s[(t \ {c[k]}) \cup {x}] + est[c[k]] /\ g[t] = s[t \ {c[k]}] + est[c[k]]
        BY <3>1, <3>3, <4>1
      <4>5. s[t \ {c[k]}] \in Nat /\ est[x] \in Nat /\ est[c[k]] \in Nat
        BY <2>1, <2>2, <2>3, <4>2
      <4> HIDE DEF g
      <4> QED
        BY <4>3, <4>4, <4>5
    <3>4. CASE x # c[k] /\ c[k] \notin t
      <4>1. t \in SUBSET Some(k - 1) /\ x \in Some(k - 1) \ t
        BY <2>2, <2>4, <2>7, <3>4
      <4>2. s[t \cup {x}] = s[t] + est[x]
        BY <2>1, <4>1
      <4> QED
        BY <3>1, <3>4, <4>2
    <3> QED
      BY <3>2, <3>3, <3>4
  <2> HIDE DEF g
  <2>8. Part(g, k)
    BY <2>5, <2>6, <2>7
  <2> HIDE DEF Part
  <2> QED
    BY <2>8
<1>7. n \in T
  <2> HIDE DEF T
  <2>1. \A k \in 0..n : k \in T
    BY <1>5, <1>6, UpTo
  <2> QED
    BY <2>1
<1>8. PICK s : Part(s, n)
  BY <1>7
<1>9. Some(n) = Tasks
  BY <1>3
<1> HIDE DEF Some, T
<1>10. s \in [SUBSET Tasks -> Nat] /\ s[{}] = 0
  BY <1>8, <1>9
<1>11. \A t \in SUBSET Tasks : \A x \in Tasks \ t : s[t \cup {x}] = s[t] + est[x]
  BY <1>8, <1>9
<1> QED
  BY <1>10, <1>11 DEF Adds

LEMMA ListsTakeAll ==
  ASSUME IsFiniteSet(Tasks), NEW s, Adds(s), NEW c, Lists(c)
  PROVE  Weight(c) = s[Tasks]
<1>1. PICK n \in Nat : n = Cardinality(Tasks)
  BY FS_CardinalityType
<1>2. c \in [1..n -> Tasks] /\ {c[i] : i \in 1..n} = Tasks
  BY <1>1 DEF Lists
<1>3. \A i \in 1..n, j \in 1..n : c[i] = c[j] => i = j
  BY <1>1, ListsRepeatNothing
<1> DEFINE Some(k) == {c[i] : i \in 1..k}
           f == [k \in 0..n |-> s[Some(k)]]
<1>4. \A k \in 0..n : Some(k) \in SUBSET Tasks
  BY <1>2
<1>5. Some(0) = {} /\ Some(n) = Tasks
  BY <1>2
<1>6. ASSUME NEW k \in 1..n PROVE Some(k) = Some(k - 1) \cup {c[k]} /\ c[k] \notin Some(k - 1)
  <2>1. \A i \in 1..k : i = k \/ i \in 1..k - 1
    OBVIOUS
  <2>2. \A i \in 1..k - 1 : i \in 1..n /\ i # k /\ i \in 1..k
    OBVIOUS
  <2> QED
    BY <1>2, <1>3, <2>1, <2>2
<1> HIDE DEF Some
<1>7. f \in [0..n -> Nat] /\ f[0] = 0
  BY <1>4, <1>5 DEF Adds
<1>8. ASSUME NEW k \in 1..n PROVE f[k] = f[k - 1] + est[c[k]]
  <2>1. Some(k - 1) \in SUBSET Tasks /\ c[k] \in Tasks \ Some(k - 1) /\ k - 1 \in 0..n /\ k \in 0..n
    BY <1>2, <1>4, <1>6
  <2>2. s[Some(k)] = s[Some(k - 1)] + est[c[k]]
    BY <1>6, <2>1 DEF Adds
  <2> QED
    BY <2>1, <2>2
<1>9. f[n] = s[Tasks]
  BY <1>5
<1> HIDE DEF f
<1>10. Totals(f, c, n)
  BY <1>7, <1>8 DEF Totals
<1> QED
  BY <1>2, <1>9, <1>10, TotalsAreSums

-----------------------------------------------------------------------------
(* The scheduler. *)

\* Tasks are placed in an order, each behind its predecessors.
Ranked ==
  \E r \in [Placed -> 1..Cardinality(Placed)] :
    \A k \in Placed : \A p \in Preds(k) : p \in Placed /\ r[p] < r[k]

\* Some slot is always at work: nothing ends later than all that is placed takes together.
Within ==
  \A s : Adds(s) => /\ \A k \in Placed : plan[k].finish <= s[Placed]
                    /\ \A i \in Slots : free[i] <= s[Placed]

Spare == \A i \in Slots : (\A k \in Placed : plan[k].slot # i) => free[i] = 0

\* With a slot for every task, a task waits for its predecessors only.
Prompt ==
  Cardinality(Tasks) <= Cardinality(Slots) =>
    \A k \in Placed : IF Preds(k) = {} THEN plan[k].start = 0
                      ELSE \E p \in Preds(k) : plan[k].start = plan[p].finish

EtaInv ==
  /\ phase # "read" => Tasks # {}
  /\ Ranked
  /\ Within
  /\ Spare
  /\ Prompt

LEMMA InitEta == Init => EtaInv
<1> SUFFICES ASSUME Init PROVE EtaInv
  OBVIOUS
<1>1. /\ phase = "read" /\ Placed = {} /\ \A i \in Slots : free[i] = 0
  BY DEF Init, Placed
<1>2. Ranked
  <2>1. [k \in {} |-> 0] \in [Placed -> 1..Cardinality(Placed)]
    BY <1>1
  <2> QED
    BY <1>1, <2>1 DEF Ranked
<1>3. Within
  BY <1>1 DEF Within, Adds
<1> QED
  BY <1>1, <1>2, <1>3 DEF EtaInv, Spare, Prompt

LEMMA AddKeepsEta ==
  ASSUME Inv, EtaInv, NEW k \in Keys, NEW e \in Estimates, NEW blocks \in Blocks, Add(k, e, blocks)
  PROVE  EtaInv'
<1>1. /\ phase = "read" /\ phase' = phase /\ pool' = pool /\ free' = free /\ plan' = plan
  BY DEF Add, placed
<1>2. Placed = {} /\ Placed' = {} /\ Slots' = Slots
  BY <1>1 DEF Inv, Placed, Slots
<1>3. \A i \in Slots : free[i] = 0
  BY <1>2 DEF EtaInv, Spare
<1>4. Ranked'
  <2>1. [j \in {} |-> 0] \in [Placed' -> 1..Cardinality(Placed')]
    BY <1>2
  <2> QED
    BY <1>2, <2>1 DEF Ranked
<1>5. Within'
  BY <1>1, <1>2, <1>3 DEF Within, Adds
<1> QED
  BY <1>1, <1>2, <1>3, <1>4, <1>5 DEF EtaInv, Spare, Prompt

LEMMA SearchKeepsEta ==
  ASSUME Inv, EtaInv, Read \/ Leave \/ Searched \/ Finish \/ UNCHANGED vars
                        \/ \E k \in Tasks : Enter(k) \/ Close(k)
  PROVE  EtaInv'
<1>1. UNCHANGED <<input, placed>>
  BY DEF Read, Leave, Searched, Finish, Enter, Close, vars, input, placed
<1>2. /\ Tasks' = Tasks /\ Placed' = Placed /\ Slots' = Slots
      /\ plan' = plan /\ free' = free /\ est' = est
      /\ \A k : Preds(k)' = Preds(k)
  BY <1>1 DEF Tasks, Placed, Slots, Preds, input, placed
<1>3. phase' # "read" => Tasks # {}
  BY DEF Read, Leave, Searched, Finish, Enter, Close, vars, EtaInv
<1>4. Ranked'
  BY <1>2 DEF EtaInv, Ranked
<1>5. Within'
  <2>1. \A s : Adds(s)' => Adds(s)
    BY <1>2 DEF Adds
  <2> QED
    BY <1>2, <2>1 DEF EtaInv, Within
<1>6. Spare' /\ Prompt'
  BY <1>2 DEF EtaInv, Spare, Prompt
<1> QED
  BY <1>2, <1>3, <1>4, <1>5, <1>6 DEF EtaInv

LEMMA PlaceKeepsEta == ASSUME Inv, EtaInv, NEW k \in Tasks, Place(k) PROVE EtaInv'
<1>1. PICK t \in {0} \cup {plan[p].finish : p \in Preds(k)}, i \in Slots :
        /\ PredFinish(k, t)
        /\ \A j \in Slots : Earlier(free, i, j, t)
        /\ LET start == Later(free[i], t)
               slot  == [start |-> start, finish |-> start + est[k], slot |-> i]
           IN  /\ free' = [free EXCEPT ![i] = slot.finish]
               /\ plan' = [j \in Placed \cup {k} |-> IF j = k THEN slot ELSE plan[j]]
  BY DEF Place
<1>2. UNCHANGED <<phase, input, search>> /\ phase = "place" /\ k \notin Placed /\ Preds(k) \subseteq Placed
  BY DEF Place, Ready
<1>3. /\ est \in [Tasks -> Nat] /\ free \in [Slots -> Nat] /\ Placed \subseteq Tasks
      /\ plan \in [Placed -> [start : Nat, finish : Nat, slot : Slots]]
      /\ Tasks \subseteq Keys /\ pool \in Pools
  BY DEF Inv, TypeOK
<1> DEFINE start  == Later(free[i], t)
           finish == start + est[k]
           slot   == [start |-> start, finish |-> finish, slot |-> i]
<1>4. t \in Nat
  BY <1>1, <1>2, <1>3
<1>5. start \in Nat /\ free[i] \in Nat /\ start = IF free[i] < t THEN t ELSE free[i]
  BY <1>3, <1>4 DEF Later
<1>6. free' = [free EXCEPT ![i] = finish] /\ plan' = [j \in Placed \cup {k} |-> IF j = k THEN slot ELSE plan[j]]
  BY <1>1
<1>7. slot.start = start /\ slot.finish = finish /\ slot.slot = i
  OBVIOUS
<1> HIDE DEF start, slot
<1>8. /\ Placed' = Placed \cup {k} /\ plan'[k] = slot /\ \A j \in Placed : plan'[j] = plan[j]
      /\ Slots' = Slots /\ Tasks' = Tasks /\ est' = est /\ \A j : Preds(j)' = Preds(j)
  BY <1>2, <1>6 DEF Placed, Slots, Tasks, Preds, input
<1>9. /\ IsFiniteSet(Tasks) /\ Cardinality(Tasks) \in Nat /\ IsFiniteSet(Placed) /\ Cardinality(Placed) \in Nat
      /\ Cardinality(Placed') = Cardinality(Placed) + 1
  <2>1. IsFiniteSet(Tasks)
    BY <1>3, KeysAssumption, FS_Subset
  <2>2. IsFiniteSet(Placed)
    BY <1>3, <2>1, FS_Subset
  <2> QED
    BY <1>2, <1>8, <2>1, <2>2, FS_AddElement, FS_CardinalityType
<1>10. Ranked'
  <2>1. PICK r \in [Placed -> 1..Cardinality(Placed)] :
          \A j \in Placed : \A p \in Preds(j) : p \in Placed /\ r[p] < r[j]
    BY DEF EtaInv, Ranked
  <2> DEFINE q == [j \in Placed \cup {k} |-> IF j = k THEN Cardinality(Placed) + 1 ELSE r[j]]
  <2>2. q \in [Placed' -> 1..Cardinality(Placed')]
    BY <1>8, <1>9
  <2>3. ASSUME NEW j \in Placed', NEW p \in Preds(j)' PROVE p \in Placed' /\ q[p] < q[j]
    <3>1. p \in Preds(j)
      BY <1>8, <2>3
    <3>2. CASE j = k
      <4>1. p \in Placed /\ p # k
        BY <1>2, <3>1, <3>2
      <4> QED
        BY <1>8, <1>9, <3>2, <4>1
    <3>3. CASE j # k
      <4>1. j \in Placed
        BY <1>8, <3>3
      <4>2. p \in Placed /\ r[p] < r[j] /\ p # k
        BY <1>2, <2>1, <3>1, <4>1
      <4> QED
        BY <1>8, <3>3, <4>1, <4>2
    <3> QED
      BY <3>2, <3>3
  <2> HIDE DEF q
  <2> QED
    BY <2>2, <2>3 DEF Ranked
<1>11. Within'
  <2>1. ASSUME NEW s, Adds(s)
        PROVE  /\ \A j \in Placed' : plan'[j].finish <= s[Placed']
               /\ \A j \in Slots : free'[j] <= s[Placed']
    <3>1. s[Placed'] = s[Placed] + est[k] /\ s[Placed] \in Nat /\ est[k] \in Nat
      BY <1>2, <1>3, <1>8, <2>1 DEF Adds
    <3>2. /\ \A j \in Placed : plan[j].finish <= s[Placed] /\ plan[j].finish \in Nat
          /\ \A j \in Slots : free[j] <= s[Placed] /\ free[j] \in Nat
      BY <1>3, <2>1 DEF EtaInv, Within
    <3>3. t <= s[Placed]
      BY <1>2, <3>1, <3>2
    <3>4. finish <= s[Placed'] /\ finish \in Nat
      BY <1>5, <3>1, <3>2, <3>3
    <3> HIDE DEF finish
    <3>5. \A j \in Placed' : plan'[j].finish <= s[Placed']
      BY <1>7, <1>8, <3>1, <3>2, <3>4
    <3>6. \A j \in Slots : free'[j] <= s[Placed']
      BY <1>3, <1>6, <3>1, <3>2, <3>4
    <3> QED
      BY <3>5, <3>6
  <2>2. \A s : Adds(s)' => Adds(s)
    BY <1>8 DEF Adds
  <2> QED
    BY <1>8, <2>1, <2>2 DEF Within
<1> HIDE DEF finish
<1>12. Spare'
  <2>1. ASSUME NEW j \in Slots, \A u \in Placed' : plan'[u].slot # j PROVE free'[j] = 0
    <3>1. j # i
      BY <1>7, <1>8, <2>1
    <3>2. \A u \in Placed : plan[u].slot # j
      BY <1>8, <2>1
    <3>3. free'[j] = free[j]
      BY <1>3, <1>6, <3>1
    <3> QED
      BY <3>2, <3>3 DEF EtaInv, Spare
  <2> QED
    BY <1>8, <2>1 DEF Spare
<1>13. ASSUME Cardinality(Tasks) <= Cardinality(Slots) PROVE start = t
  <2> DEFINE f == [u \in Placed |-> plan[u].slot]
             used == {plan[u].slot : u \in Placed}
  <2>1. f \in Surjection(Placed, used)
    BY DEF Surjection
  <2>2. IsFiniteSet(used) /\ Cardinality(used) <= Cardinality(Placed) /\ Cardinality(used) \in Nat
    <3> HIDE DEF f, used
    <3> QED
      BY <1>9, <2>1, FS_Surjection, FS_CardinalityType
  <2>3. Cardinality(Placed) < Cardinality(Tasks)
    <3>1. Placed' \in SUBSET Tasks
      BY <1>3, <1>8
    <3>2. Cardinality(Placed') <= Cardinality(Tasks)
      BY <1>9, <3>1, FS_Subset
    <3> QED
      BY <1>9, <3>2
  <2>4. Cardinality(Slots) \in Nat
    <3>1. PICK n \in Nat : Slots = 1..n
      BY <1>3, PoolsAssumption DEF Slots
    <3> QED
      BY <3>1, FS_Interval, FS_CardinalityType
  <2>5. used \subseteq Slots
    BY <1>3
  <2>6. used # Slots
    BY <1>9, <1>13, <2>2, <2>3, <2>4
  <2>7. PICK j \in Slots : j \notin used
    BY <2>5, <2>6
  <2>8. free[j] = 0
    BY <2>7 DEF EtaInv, Spare
  <2>9. Earlier(free, i, j, t)
    BY <1>1
  <2> QED
    BY <1>4, <1>5, <2>8, <2>9 DEF Earlier, Later
<1>14. Prompt'
  <2>1. ASSUME Cardinality(Tasks) <= Cardinality(Slots), NEW j \in Placed'
        PROVE  IF Preds(j) = {} THEN plan'[j].start = 0
               ELSE \E p \in Preds(j) : plan'[j].start = plan'[p].finish
    <3>1. CASE j = k
      <4>1. plan'[j].start = t
        BY <1>7, <1>8, <1>13, <2>1, <3>1
      <4>2. IF Preds(k) = {} THEN t = 0 ELSE \E p \in Preds(k) : plan[p].finish = t
        BY <1>1 DEF PredFinish
      <4> QED
        BY <1>2, <1>8, <3>1, <4>1, <4>2
    <3>2. CASE j # k
      <4>1. j \in Placed /\ plan'[j] = plan[j]
        BY <1>8, <3>2
      <4>2. IF Preds(j) = {} THEN plan[j].start = 0 ELSE \E p \in Preds(j) : plan[j].start = plan[p].finish
        BY <2>1, <4>1 DEF EtaInv, Prompt
      <4>3. \A p \in Preds(j) : plan'[p] = plan[p]
        BY <1>8, <4>1 DEF Inv, PlanHolds
      <4> QED
        BY <4>1, <4>2, <4>3
    <3> QED
      BY <3>1, <3>2
  <2> QED
    BY <1>8, <2>1 DEF Prompt
<1> QED
  BY <1>2, <1>8, <1>10, <1>11, <1>12, <1>14 DEF EtaInv

-----------------------------------------------------------------------------
(* The report. *)

\* The path to a task goes on from that to one of its predecessors, of which none is heavier.
LEMMA PathGoesOn ==
  ASSUME NEW r, Planned(r), NEW cp, Paths(cp), NEW u \in Tasks, Preds(u) # {}
  PROVE  \E w \in Preds(u) : /\ cp[u].sum = cp[w].sum + est[u]
                             /\ \A v \in Preds(u) : cp[v].sum <= cp[w].sum
<1>1. IsFiniteSet(Tasks) /\ \A v \in Preds(u) : v \in Tasks
  BY DEF Planned, Preds
<1> DEFINE X == {cp[v] : v \in Preds(u)}
           b == Best(X)
<1>2. \A v \in Preds(u) : cp[v] \in Rated
  BY <1>1, PathsAreHeaviest, PathsAreRated
<1>3. b \in X /\ \A y \in X \ {b} : Better(b, y)
  <2>1. IsFiniteSet(X)
    BY <1>1, PredsAreFinite, ImagesAreFinite
  <2>2. X \in SUBSET Rated /\ X # {}
    BY <1>2
  <2> HIDE DEF X
  <2> QED
    BY <2>1, <2>2, BestIs
<1>4. cp[u].sum = b.sum + est[u]
  <2>1. cp[u] = PathTo(cp, u)
    BY DEF Paths
  <2> QED
    BY <2>1 DEF PathTo
<1> HIDE DEF b
<1>5. PICK w \in Preds(u) : b = cp[w]
  BY <1>3
<1>6. ASSUME NEW v \in Preds(u) PROVE cp[v].sum <= b.sum
  <2>1. cp[v] = b \/ Better(b, cp[v])
    BY <1>3
  <2>2. cp[v].sum \in Nat /\ b.sum \in Nat
    BY <1>2, <1>5 DEF Rated
  <2> QED
    BY <2>1, <2>2 DEF Better
<1> QED
  BY <1>4, <1>5, <1>6

LEMMA PathStarts ==
  ASSUME NEW cp, Paths(cp), NEW u \in Tasks, Preds(u) = {}
  PROVE  cp[u].sum = est[u]
<1>1. cp[u] = PathTo(cp, u)
  BY DEF Paths
<1> QED
  BY <1>1 DEF PathTo

\* The plan of a task ends with the weight of the path to it, or later where it waits for a slot.
LEMMA PathsFit ==
  ASSUME Inv, Placed = Tasks, NEW r, Planned(r), NEW cp, Paths(cp),
         NEW prompt \in BOOLEAN,
         prompt => \A k \in Placed : IF Preds(k) = {} THEN plan[k].start = 0
                                     ELSE \E p \in Preds(k) : plan[k].start = plan[p].finish
  PROVE  \A u \in Tasks : /\ cp[u].sum <= plan[u].finish
                          /\ prompt => cp[u].sum = plan[u].finish
<1> DEFINE Fits(u) == cp[u].sum <= plan[u].finish /\ (prompt => cp[u].sum = plan[u].finish)
           T == {r[u] : u \in {v \in Tasks : ~Fits(v)}}
<1>1. SUFFICES ASSUME T # {} PROVE FALSE
  OBVIOUS
<1>2. r \in [Tasks -> 1..Cardinality(Tasks)] /\ \A u \in Tasks : \A p \in Preds(u) : p \in Tasks /\ r[p] < r[u]
  BY DEF Planned, RankedBy
<1>3. T \in SUBSET Nat
  <2> HIDE DEF Fits
  <2> QED
    BY <1>2
<1>4. PICK k \in T : \A m \in T : k <= m
  <2> HIDE DEF T
  <2> QED
    BY <1>1, <1>3, LeastElement
<1>5. PICK u \in Tasks : k = r[u] /\ ~Fits(u)
  <2> HIDE DEF Fits
  <2> QED
    OBVIOUS
<1>6. ASSUME NEW v \in Preds(u) PROVE Fits(v)
  <2>1. v \in Tasks /\ r[v] < k /\ r[v] \in Nat /\ k \in Nat
    BY <1>2, <1>5
  <2>2. r[v] \notin T
    <3> HIDE DEF T
    <3> QED
      BY <1>4, <2>1
  <2> HIDE DEF Fits
  <2> QED
    BY <2>1, <2>2
<1> HIDE DEF T
<1>7. /\ plan[u].finish = plan[u].start + est[u]
      /\ \A p \in Preds(u) : p \in Placed /\ plan[p].finish <= plan[u].start
  BY DEF Inv, PlanHolds
<1>8. /\ \A v \in Tasks : plan[v].start \in Nat /\ plan[v].finish \in Nat /\ est[v] \in Nat
      /\ \A v \in Tasks : cp[v].sum \in Nat
  <2>1. \A v \in Tasks : plan[v].start \in Nat /\ plan[v].finish \in Nat /\ est[v] \in Nat
    BY DEF Inv, TypeOK
  <2>2. \A v \in Tasks : cp[v] \in Rated
    BY PathsAreHeaviest, PathsAreRated
  <2> QED
    BY <2>1, <2>2 DEF Rated
<1>9. CASE Preds(u) = {}
  <2>1. cp[u].sum = est[u]
    BY <1>9, PathStarts
  <2>2. prompt => plan[u].start = 0
    BY <1>9
  <2>3. Fits(u)
    BY <1>7, <1>8, <2>1, <2>2
  <2> HIDE DEF Fits
  <2> QED
    BY <1>5, <2>3
<1>10. CASE Preds(u) # {}
  <2>1. PICK w \in Preds(u) : cp[u].sum = cp[w].sum + est[u] /\ \A v \in Preds(u) : cp[v].sum <= cp[w].sum
    BY <1>10, PathGoesOn
  <2>2. w \in Tasks /\ cp[w].sum <= plan[w].finish /\ plan[w].finish <= plan[u].start
    BY <1>2, <1>6, <1>7
  <2>3. cp[u].sum <= plan[u].finish
    BY <1>7, <1>8, <2>1, <2>2
  <2>4. ASSUME prompt PROVE cp[u].sum = plan[u].finish
    <3>1. PICK p \in Preds(u) : plan[u].start = plan[p].finish
      BY <1>10, <2>4
    <3>2. p \in Tasks /\ cp[p].sum = plan[p].finish /\ cp[p].sum <= cp[w].sum
      BY <1>2, <1>6, <2>1, <2>4
    <3> QED
      BY <1>7, <1>8, <2>1, <2>2, <2>3, <3>1, <3>2
  <2>5. Fits(u)
    BY <2>3, <2>4
  <2> HIDE DEF Fits
  <2> QED
    BY <1>5, <2>5
<1> QED
  BY <1>9, <1>10

LEMMA MakespanIs ==
  ASSUME Tasks # {}, Placed = Tasks, \A k \in Tasks : plan[k].finish \in Nat,
         NEW n \in Nat, \A k \in Tasks : plan[k].finish <= n
  PROVE  /\ \E k \in Tasks : Makespan = plan[k].finish
         /\ \A k \in Tasks : plan[k].finish <= Makespan
<1> DEFINE T == {n - plan[k].finish : k \in Tasks}
<1>1. T \in SUBSET Nat
  <2>1. \A k \in Tasks : n - plan[k].finish \in Nat
    OBVIOUS
  <2> QED
    BY <2>1
<1>2. PICK m \in T : \A i \in T : m <= i
  <2>1. T # {}
    OBVIOUS
  <2> HIDE DEF T
  <2> QED
    BY <1>1, <2>1, LeastElement
<1>3. PICK w \in Tasks : m = n - plan[w].finish
  OBVIOUS
<1>4. \A k \in Tasks : plan[k].finish <= plan[w].finish
  <2> TAKE k \in Tasks
  <2>1. n - plan[w].finish <= n - plan[k].finish
    BY <1>2, <1>3
  <2> QED
    BY <2>1
<1>5. \E t \in {plan[k].finish : k \in Placed} : \A k \in Placed : plan[k].finish <= t
  BY <1>4
<1>6. Makespan \in {plan[k].finish : k \in Placed} /\ \A k \in Placed : plan[k].finish <= Makespan
  BY <1>5 DEF Makespan
<1> QED
  BY <1>6

LEMMA ReportIsBounded == ASSUME Inv, EtaInv PROVE EtaIsBounded
<1>1. SUFFICES ASSUME Reported
      PROVE  /\ CriticalPath.path \in Chains /\ CriticalPath.sum = Weight(CriticalPath.path)
             /\ LET first == Best({[sum |-> Weight(c), path |-> c] : c \in Chains})
                IN  /\ CriticalPath.sum = first.sum
                    /\ (\A k \in Tasks : est[k] > 0) => CriticalPath.path = first.path
             /\ CriticalPath.sum <= Makespan
             /\ Makespan <= Weight(CHOOSE c \in [1..Cardinality(Tasks) -> Tasks] : {c[i] : i \in DOMAIN c} = Tasks)
             /\ Cardinality(Tasks) <= Cardinality(Slots) => Makespan = CriticalPath.sum
  BY DEF EtaIsBounded
<1>2. phase = "done" /\ Placed = Tasks /\ Tasks # {}
  BY <1>1 DEF Reported, EtaInv
<1>3. /\ est \in [Tasks -> Nat] /\ Tasks \subseteq Nat /\ IsFiniteSet(Tasks)
      /\ \A k \in Tasks : plan[k].finish \in Nat
  <2>1. Tasks \subseteq Keys
    BY DEF Inv, TypeOK
  <2> QED
    BY <1>2, <2>1, KeysAssumption, FS_Subset DEF Inv, TypeOK
<1>4. PICK r : Planned(r)
  <2>1. PICK r \in [Placed -> 1..Cardinality(Placed)] :
          \A k \in Placed : \A p \in Preds(k) : p \in Placed /\ r[p] < r[k]
    BY DEF EtaInv, Ranked
  <2> QED
    BY <1>2, <1>3, <2>1 DEF Planned, RankedBy
<1>5. PICK cp : /\ Paths(cp) /\ \A u \in Tasks : Heaviest(cp[u], u, r[u])
                /\ CriticalPath \in {cp[u] : u \in Tasks}
                /\ \A u \in Tasks : CriticalPath = cp[u] \/ Better(CriticalPath, cp[u])
  BY <1>4, CriticalPathIs
<1>6. PICK prompt \in BOOLEAN : prompt <=> Cardinality(Tasks) <= Cardinality(Slots)
  OBVIOUS
<1>7. \A u \in Tasks : cp[u].sum <= plan[u].finish /\ (prompt => cp[u].sum = plan[u].finish)
  <2>1. prompt => \A k \in Placed : IF Preds(k) = {} THEN plan[k].start = 0
                                    ELSE \E p \in Preds(k) : plan[k].start = plan[p].finish
    BY <1>6 DEF EtaInv, Prompt
  <2> QED
    BY <1>2, <1>4, <1>5, <2>1, PathsFit
<1>8. PICK s : Adds(s)
  BY <1>3, AddsExist
<1>9. \A k \in Tasks : plan[k].finish <= s[Tasks]
  BY <1>2, <1>8 DEF EtaInv, Within
<1>10. s[Tasks] \in Nat
  BY <1>8 DEF Adds
<1>11. PICK w \in Tasks : Makespan = plan[w].finish
  BY <1>2, <1>3, <1>9, <1>10, MakespanIs
<1>12. \A k \in Tasks : plan[k].finish <= Makespan
  BY <1>2, <1>3, <1>9, <1>10, MakespanIs
<1>13. PICK v \in Tasks : CriticalPath = cp[v]
  BY <1>5
<1>14. CriticalPath.sum \in Nat /\ \A u \in Tasks : cp[u].sum \in Nat /\ cp[u].sum <= CriticalPath.sum
  <2>1. \A u \in Tasks : cp[u] \in Rated
    BY <1>4, <1>5, PathsAreRated
  <2>2. CriticalPath.sum \in Nat /\ \A u \in Tasks : cp[u].sum \in Nat
    BY <1>13, <2>1 DEF Rated
  <2>3. \A u \in Tasks : CriticalPath = cp[u] \/ CriticalPath.sum > cp[u].sum \/ CriticalPath.sum = cp[u].sum
    BY <1>5 DEF Better
  <2>4. ASSUME NEW u \in Tasks PROVE cp[u].sum <= CriticalPath.sum
    <3>1. CriticalPath = cp[u] => CriticalPath.sum = cp[u].sum
      OBVIOUS
    <3> QED
      BY <2>2, <2>3, <3>1
  <2> QED
    BY <2>2, <2>4
<1>15. CriticalPath.sum <= Makespan
  BY <1>3, <1>7, <1>11, <1>12, <1>13, <1>14
<1>16. Makespan <= Weight(CHOOSE c \in [1..Cardinality(Tasks) -> Tasks] : {c[i] : i \in DOMAIN c} = Tasks)
  <2> DEFINE c == CHOOSE d \in [1..Cardinality(Tasks) -> Tasks] : {d[i] : i \in DOMAIN d} = Tasks
  <2>1. \E d \in [1..Cardinality(Tasks) -> Tasks] : {d[i] : i \in DOMAIN d} = Tasks
    BY <1>3, ListExists DEF Lists
  <2>2. Lists(c)
    BY <2>1 DEF Lists
  <2> HIDE DEF c
  <2>3. Weight(c) = s[Tasks]
    BY <1>3, <1>8, <2>2, ListsTakeAll
  <2>4. Makespan <= Weight(c)
    BY <1>9, <1>11, <2>3
  <2> QED
    BY <2>4 DEF c
<1>17. ASSUME prompt PROVE Makespan = CriticalPath.sum
  <2>1. Makespan = cp[w].sum
    BY <1>7, <1>11, <1>17
  <2> QED
    BY <1>14, <1>15, <2>1
<1>18. /\ CriticalPath.path \in Chains /\ CriticalPath.sum = Weight(CriticalPath.path)
       /\ LET first == Best({[sum |-> Weight(c), path |-> c] : c \in Chains})
          IN  /\ CriticalPath.sum = first.sum
              /\ (\A k \in Tasks : est[k] > 0) => CriticalPath.path = first.path
  BY <1>4, CriticalPathIsFirst
<1> QED
  BY <1>6, <1>15, <1>16, <1>17, <1>18

\* The report's critical path is a heaviest chain of tasks, the first of them when every task takes
\* time, and its ETA lies between the weight of that path and that of all tasks in a row; it is the
\* former when there is a slot for every task (critical_path, list_schedule).
THEOREM EtasAreBounded == Spec => []EtaIsBounded
<1>1. ASSUME Inv, EtaInv, [Next]_vars PROVE Inv' /\ EtaInv'
  BY <1>1, AddKeeps, SearchKeeps, PlaceKeeps, AddKeepsEta, SearchKeepsEta, PlaceKeepsEta DEF Next
<1> QED
  BY InitInv, InitEta, <1>1, ReportIsBounded, PTL DEF Spec
=============================================================================
