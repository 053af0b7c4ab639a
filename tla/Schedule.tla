------------------------------ MODULE Schedule ------------------------------
(***************************************************************************)
(* delegate_report.py --schedule: the pending runs of the ledger and the   *)
(* tasks of a plan become tasks with estimates and predecessors, a depth-  *)
(* first search looks for a cycle among them, and a greedy list scheduler  *)
(* places them on the slots of the pool.                                   *)
(***************************************************************************)
EXTENDS Naturals, FiniteSets, Sequences

CONSTANTS
  Keys,      \* the keys of tasks, compared as numbers
  Estimates, \* the est_minutes given; 0 for none that counts
  Blocks,    \* what an item lists as its successors; they need not be keys of the plan
  Actuals,   \* the minutes the rated runs took, in ascending order
  Pools,
  Fallback,
  MaxItems   \* a bound on the items read

ASSUME KeysAssumption    == Keys \subseteq Nat /\ IsFiniteSet(Keys) /\ MaxItems \in Nat
ASSUME MinutesAssumption == /\ Estimates \subseteq Nat /\ Fallback \in Nat \ {0}
                            /\ Actuals \subseteq Seq(Nat)
ASSUME PoolsAssumption   == Pools \subseteq Nat
ASSUME BlocksAssumption  == Blocks \subseteq SUBSET Nat

VARIABLES
  phase,   \* "read" the items, "search" for a cycle, "place" the tasks, "done"
  actual,  \* the minutes of the rated runs
  pool,
  est,     \* the estimate of each task, a function whose domain are the tasks
  items,   \* how many were read
  edge,    \* the pairs <<p, k>> of which p must finish before k starts
  color,   \* the search's mark of each task
  stack,   \* the tasks it is in
  cycle,   \* the cycle it found, or <<>>
  free,    \* when each slot becomes free
  plan     \* where each placed task goes: its start, its finish and its slot

input  == <<actual, pool, est, items, edge>>
search == <<color, stack, cycle>>
placed == <<free, plan>>
vars   == <<phase, input, search, placed>>

-----------------------------------------------------------------------------

Tasks    == DOMAIN est
Preds(k) == {p \in Tasks : <<p, k>> \in edge}
Placed   == DOMAIN plan
Slots    == 1..(IF pool = 0 THEN 1 ELSE pool)

\* Nearest rank: the ceiling of half the length, counted from one.
P50(values) == values[(Len(values) + 1) \div 2]

Minutes(e) == IF e > 0 THEN e ELSE IF actual = <<>> THEN Fallback ELSE P50(actual)

TypeOK ==
  /\ phase \in {"read", "search", "place", "done"}
  /\ actual \in Actuals /\ pool \in Pools
  /\ Tasks \subseteq Keys /\ est \in [Tasks -> Nat]
  /\ items \in 0..MaxItems /\ edge \subseteq Keys \X Nat
  /\ color \in [Tasks -> {"white", "gray", "black"}]
  /\ stack \in Seq(Tasks) /\ cycle \in Seq(Tasks)
  /\ free \in [Slots -> Nat]
  /\ Placed \subseteq Tasks
  /\ plan \in [Placed -> [start : Nat, finish : Nat, slot : Slots]]

Init ==
  /\ phase = "read"
  /\ actual \in Actuals /\ pool \in Pools
  /\ est = <<>> /\ items = 0 /\ edge = {}
  /\ color = <<>> /\ stack = <<>> /\ cycle = <<>>
  /\ free = [i \in Slots |-> 0] /\ plan = <<>>

-----------------------------------------------------------------------------
(* build_schedule *)

\* A pending run or an item of the plan; of two with one key the later one's estimate counts,
\* and the successors of both.
Add(k, e, blocks) ==
  /\ phase = "read" /\ items < MaxItems
  /\ items' = items + 1
  /\ est' = [j \in Tasks \cup {k} |-> IF j = k THEN Minutes(e) ELSE est[j]]
  /\ edge' = edge \cup ({k} \X blocks)
  /\ color' = [j \in Tasks \cup {k} |-> "white"]
  /\ UNCHANGED <<phase, actual, pool, stack, cycle, placed>>

\* Without a task there is nothing to schedule.
Read ==
  /\ phase = "read" /\ Tasks # {}
  /\ phase' = "search"
  /\ UNCHANGED <<input, search, placed>>

-----------------------------------------------------------------------------
(* find_cycle: recursive in the code, with the sets iterated in any order. *)

Top == stack[Len(stack)]

Enter(k) ==
  /\ phase = "search" /\ cycle = <<>> /\ color[k] = "white"
  /\ stack # <<>> => k \in Preds(Top)
  /\ color' = [color EXCEPT ![k] = "gray"]
  /\ stack' = Append(stack, k)
  /\ UNCHANGED <<phase, input, cycle, placed>>

\* A predecessor that the search is in closes a cycle: the stack from there on.
Close(v) ==
  /\ phase = "search" /\ cycle = <<>> /\ stack # <<>>
  /\ v \in Preds(Top) /\ color[v] = "gray"
  /\ \E i \in DOMAIN stack : stack[i] = v /\ cycle' = SubSeq(stack, i, Len(stack))
  /\ UNCHANGED <<phase, input, color, stack, placed>>

\* Mutant: a predecessor that the search is in is passed over.
LeaveGray ==
  /\ phase = "search" /\ cycle = <<>> /\ stack # <<>>
  /\ \A v \in Preds(Top) : color[v] # "white"
  /\ color' = [color EXCEPT ![Top] = "black"]
  /\ stack' = SubSeq(stack, 1, Len(stack) - 1)
  /\ UNCHANGED <<phase, input, cycle, placed>>

Leave ==
  /\ phase = "search" /\ cycle = <<>> /\ stack # <<>>
  /\ \A v \in Preds(Top) : color[v] = "black"
  /\ color' = [color EXCEPT ![Top] = "black"]
  /\ stack' = SubSeq(stack, 1, Len(stack) - 1)
  /\ UNCHANGED <<phase, input, cycle, placed>>

Searched ==
  /\ phase = "search"
  /\ cycle = <<>> => \A k \in Tasks : color[k] = "black"
  /\ phase' = "place"
  /\ UNCHANGED <<input, search, placed>>

-----------------------------------------------------------------------------
(* list_schedule *)

\* Tasks not placed whose predecessors all are: finished or not, they are ready.
Ready == {k \in Tasks \ Placed : Preds(k) \subseteq Placed}

Before(j, k) == est[j] > est[k] \/ (est[j] = est[k] /\ j < k)

\* Mutant: any predecessor's finish will do.
PredFinishAny(k, t) ==
  IF Preds(k) = {} THEN t = 0 ELSE \E p \in Preds(k) : plan[p].finish = t

\* The latest finish among the predecessors: a bound from below that one of them meets.
PredFinish(k, t) ==
  /\ \A p \in Preds(k) : plan[p].finish <= t
  /\ IF Preds(k) = {} THEN t = 0 ELSE \E p \in Preds(k) : plan[p].finish = t

Later(a, b) == IF a < b THEN b ELSE a

\* Slot i can start a task that is ready at t before slot j can, or is the lower of the two.
Earlier(times, i, j, t) ==
  \/ Later(times[i], t) < Later(times[j], t)
  \/ Later(times[i], t) = Later(times[j], t) /\ i <= j

\* The longest of the ready tasks goes to the slot where it can start first, the lowest of them.
Place(k) ==
  /\ phase = "place"
  /\ k \in Ready /\ \A j \in Ready \ {k} : Before(k, j)
  /\ \E t \in {0} \cup {plan[p].finish : p \in Preds(k)}, i \in Slots :
       /\ PredFinish(k, t)
       /\ \A j \in Slots : Earlier(free, i, j, t)
       /\ LET start == Later(free[i], t)
              slot  == [start |-> start, finish |-> start + est[k], slot |-> i]
          IN  /\ free' = [free EXCEPT ![i] = slot.finish]
              /\ plan' = [j \in Placed \cup {k} |-> IF j = k THEN slot ELSE plan[j]]
  /\ UNCHANGED <<phase, input, search>>

Finish ==
  /\ phase = "place" /\ Ready = {}
  /\ phase' = "done"
  /\ UNCHANGED <<input, search, placed>>

Next ==
  \/ \E k \in Keys, e \in Estimates, blocks \in Blocks : Add(k, e, blocks)
  \/ Read
  \/ \E k \in Tasks : Enter(k) \/ Close(k) \/ Place(k)
  \/ Leave \/ Searched \/ Finish

Spec == Init /\ [][Next]_vars

-----------------------------------------------------------------------------
(* What it reports. *)

Makespan == CHOOSE t \in {plan[k].finish : k \in Placed} : \A k \in Placed : plan[k].finish <= t

Lexicographic(p, q) ==
  \E i \in 1..Len(q) :
    /\ \A j \in 1..i - 1 : j \in DOMAIN p /\ p[j] = q[j]
    /\ i = Len(p) + 1 \/ (i \in DOMAIN p /\ p[i] < q[i])

Best(chains) ==
  CHOOSE x \in chains : \A y \in chains \ {x} :
    x.sum > y.sum \/ (x.sum = y.sum /\ Lexicographic(x.path, y.path))

\* Mutant: the first predecessor's chain is taken for the heaviest.
CriticalPathFirst ==
  LET cp[u \in Tasks] ==
        IF Preds(u) = {} THEN [sum |-> est[u], path |-> <<u>>]
        ELSE LET first == cp[CHOOSE v \in Preds(u) : \A w \in Preds(u) : v <= w]
             IN  [sum |-> first.sum + est[u], path |-> Append(first.path, u)]
  IN  Best({cp[u] : u \in Tasks})

\* The heaviest chain that ends in each task, and the heaviest of all.
CriticalPath ==
  LET cp[u \in Tasks] ==
        IF Preds(u) = {} THEN [sum |-> est[u], path |-> <<u>>]
        ELSE LET best == Best({cp[v] : v \in Preds(u)})
             IN  [sum |-> best.sum + est[u], path |-> Append(best.path, u)]
  IN  Best({cp[u] : u \in Tasks})

Reported == phase = "done" /\ Placed = Tasks

-----------------------------------------------------------------------------

\* A cycle that is reported is one, and there is one to report whenever the scheduler gives
\* up: main joins the keys of the cycle on `cyc or sched is None` (find_cycle, list_schedule).
SearchDecides ==
  /\ cycle # <<>> => /\ \A i \in 1..Len(cycle) - 1 : cycle[i + 1] \in Preds(cycle[i])
                     /\ cycle[1] \in Preds(cycle[Len(cycle)])
  /\ phase = "done" => (cycle = <<>> <=> Placed = Tasks)

\* The plan can be carried out: every task starts after its predecessors have finished, and
\* two that share a slot do not overlap (list_schedule: slot_times, pred_finish).
PlanHolds ==
  \A k \in Placed :
    /\ plan[k].finish = plan[k].start + est[k]
    /\ \A p \in Preds(k) : p \in Placed /\ plan[p].finish <= plan[k].start
    /\ \A j \in Placed \ {k} :
         plan[j].slot = plan[k].slot =>
           plan[j].finish <= plan[k].start \/ plan[k].finish <= plan[j].start

\* The chains of tasks that start where nothing has to be waited for.
Chains ==
  {c \in UNION {[1..n -> Tasks] : n \in 1..Cardinality(Tasks)} :
     Preds(c[1]) = {} /\ \A i \in 1..Len(c) - 1 : c[i] \in Preds(c[i + 1])}

Weight(c) == LET upTo[i \in 0..Len(c)] == IF i = 0 THEN 0 ELSE upTo[i - 1] + est[c[i]]
          IN  upTo[Len(c)]

\* The critical path is one of the heaviest chains, the first of them when every task takes
\* time ("ties: lexicographic"), and the ETA lies between its weight and that of all tasks one
\* after the other; with a slot for every task it is the former.
EtaIsBounded ==
  Reported =>
    /\ CriticalPath.path \in Chains /\ CriticalPath.sum = Weight(CriticalPath.path)
    /\ LET first == Best({[sum |-> Weight(c), path |-> c] : c \in Chains})
       IN  /\ CriticalPath.sum = first.sum
           /\ (\A k \in Tasks : est[k] > 0) => CriticalPath.path = first.path
    /\ CriticalPath.sum <= Makespan
    /\ Makespan <= Weight(CHOOSE c \in [1..Cardinality(Tasks) -> Tasks] : {c[i] : i \in DOMAIN c} = Tasks)
    /\ Cardinality(Tasks) <= Cardinality(Slots) => Makespan = CriticalPath.sum
=============================================================================
