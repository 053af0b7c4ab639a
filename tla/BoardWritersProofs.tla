------------------------- MODULE BoardWritersProofs -------------------------
(***************************************************************************)
(* Proofs about BoardWriters, for any sessions, tasks, runs and bounds:    *)
(* the log tells every status, a follower of it misses nothing, and only   *)
(* the archive script takes anything back.                                 *)
(***************************************************************************)
EXTENDS BoardWriters, FiniteSetTheorems, TLAPS

\* What TypeOK says of a row's runs.
Started(runs) == \A i \in DOMAIN runs : run[runs[i]] # "none"

\* What the two writers that take more than one transaction have in hand: the
\* dashboard's row is as it left it, and the script's are rows that exist.
Pending ==
  /\ web # None => LET mine == row[web[1]]
                   IN  /\ mine # None /\ mine.owner = "dashboard" /\ mine.runs = <<>> /\ mine.age = 0
                       /\ run[web[2]] # "none" /\ web[1] \notin todo
                       /\ web[3] \in {None, mine}
  /\ \A t \in todo : /\ snap \in [Tasks -> Row \cup {None}]
                     /\ snap[t] \in Row /\ Started(snap[t].runs)
                     /\ row[t] # None

Safe == TypeOK /\ Pending

-----------------------------------------------------------------------------
(* Rows and events. *)

LEMMA Bounds == MaxEvents \in Nat /\ MaxLimit \in Nat
BY NatAssumption

LEMMA StatusesAre ==
  /\ {"active", "done", "cancelled"} \subseteq Statuses /\ Terminal \subseteq Statuses
BY StatusAssumption DEF Terminal

Becomes(r, status, age) == [r EXCEPT !.status = status, !.age = age]
Attached(r, s) == [r EXCEPT !.runs = s, !.age = 0]

\* A row that gets a status or an age keeps its owner and its runs.
LEMMA RowEdited ==
  ASSUME NEW r \in Row, NEW status \in Statuses, NEW age \in 0..2
  PROVE  /\ Becomes(r, status, age) \in Row
         /\ Becomes(r, status, age).status = status /\ Becomes(r, status, age).age = age
         /\ Becomes(r, status, age).owner = r.owner /\ Becomes(r, status, age).runs = r.runs
BY DEF Row, Becomes

LEMMA RowAttached ==
  ASSUME NEW r \in Row, NEW s \in Seq(Runs)
  PROVE  /\ Attached(r, s) \in Row
         /\ Attached(r, s).status = r.status
         /\ Attached(r, s).owner = r.owner /\ Attached(r, s).runs = s
<1> DEFINE one == [r EXCEPT !.runs = s]
<1>1. one \in Row /\ one.runs = s /\ one.status = r.status /\ one.owner = r.owner
  BY DEF Row
<1>2. Attached(r, s) = [one EXCEPT !.age = 0]
  BY DEF Attached
<1> HIDE DEF one
<1> QED
  BY <1>1, <1>2 DEF Row

LEMMA EventIs ==
  ASSUME NEW t \in Tasks, NEW status \in Statuses, NEW by \in Sessions \cup {"dashboard", "archive"}
  PROVE  /\ Changed(t, by, status) \in Event
         /\ Changed(t, by, status).task = t /\ Changed(t, by, status).says = status
         /\ Changed(t, by, status).by = by
BY DEF Changed, Event

\* An event more in the log.
LEMMA Appended ==
  ASSUME log \in Seq(Event), Len(log) < MaxEvents, NEW e \in Event, log' = Append(log, e)
  PROVE  /\ log' \in Seq(Event) /\ Len(log') = Len(log) + 1 /\ Len(log') <= MaxEvents
         /\ \A i \in 1..Len(log) : log'[i] = log[i]
         /\ log'[Len(log')] = e
BY Bounds

\* A set of tasks in some order: one event each.
LEMMA Closed ==
  ASSUME TypeOK, NEW chosen \in SUBSET Tasks, NEW status \in Statuses, Close(chosen, status)
  PROVE  /\ log' \in Seq(Event) /\ Len(log') <= MaxEvents /\ Len(log) < Len(log')
         /\ \A i \in 1..Len(log) : log'[i] = log[i]
         /\ \A i \in Len(log) + 1..Len(log') :
              \E t \in chosen : log'[i] = Changed(t, "dashboard", status)
         /\ \A t \in chosen : \E i \in Len(log) + 1..Len(log') :
              /\ log'[i] = Changed(t, "dashboard", status)
              /\ \A j \in Len(log) + 1..Len(log') : j # i => log'[j].task # t
<1> DEFINE n == Cardinality(chosen)
<1>1. IsFiniteSet(chosen) /\ n \in Nat /\ n > 0
  <2>1. IsFiniteSet(chosen)
    BY FiniteAssumption, FS_Subset
  <2>2. chosen # {}
    BY DEF Close
  <2>3. n \in Nat /\ n # 0
    BY <2>1, <2>2, FS_CardinalityType, FS_EmptySet
  <2> QED
    BY <2>1, <2>3
<1> HIDE DEF n
<1>2. PICK order \in [1..n -> chosen] :
        /\ \A t \in chosen : \E i \in DOMAIN order : order[i] = t
        /\ log' = log \o [i \in DOMAIN order |-> Changed(order[i], "dashboard", status)]
  BY DEF Close, n
<1>3. \A i, j \in 1..n : order[i] = order[j] => i = j
  <2>1. IsFiniteSet(1..n) /\ Cardinality(1..n) = n
    BY <1>1, FS_Interval
  <2>2. order \in Surjection(1..n, chosen)
    BY <1>2 DEF Surjection
  <2>3. order \in Injection(1..n, chosen)
    BY <2>1, <2>2, FS_SurjSameCardinalityImpliesInj DEF n
  <2> QED
    BY <2>3 DEF Injection, IsInjective
<1> DEFINE tail == [i \in 1..n |-> Changed(order[i], "dashboard", status)]
<1>4. tail \in Seq(Event) /\ Len(tail) = n
  <2>1. \A i \in 1..n : tail[i] \in Event
    BY <1>2, EventIs
  <2> QED
    BY <1>1, <2>1
<1>5. log' = log \o tail
  BY <1>2
<1>6. \A i \in 1..n : tail[i] = Changed(order[i], "dashboard", status)
  OBVIOUS
<1> HIDE DEF tail
<1>7. log \in Seq(Event) /\ Len(log) \in Nat /\ Len(log) + n <= MaxEvents
  <2>1. log \in Seq(Event)
    BY DEF TypeOK
  <2>2. Len(log) + n <= MaxEvents
    BY DEF Close, n
  <2> QED
    BY <2>1, <2>2
<1>8. /\ log' \in Seq(Event) /\ Len(log') = Len(log) + n
      /\ \A i \in 1..Len(log) : log'[i] = log[i]
      /\ \A i \in Len(log) + 1..Len(log') : log'[i] = tail[i - Len(log)] /\ i - Len(log) \in 1..n
  <2>1. Len(log') = Len(log) + n /\ log' \in Seq(Event)
    <3>1. \A u, v \in Seq(Event) : u \o v \in Seq(Event) /\ Len(u \o v) = Len(u) + Len(v)
      OBVIOUS
    <3>2. log \o tail \in Seq(Event) /\ Len(log \o tail) = Len(log) + Len(tail)
      BY <1>4, <1>7, <3>1
    <3> QED
      BY <1>4, <1>5, <3>2
  <2>2. ASSUME NEW i \in 1..Len(log) PROVE log'[i] = log[i]
    <3>1. Len(tail) \in Nat /\ i \in 1..Len(log) + Len(tail)
      BY <1>1, <1>4, <1>7
    <3>2. (log \o tail)[i] = log[i]
      BY <1>4, <1>7, <3>1
    <3> QED
      BY <1>5, <3>2
  <2>3. ASSUME NEW i \in Len(log) + 1..Len(log')
        PROVE  log'[i] = tail[i - Len(log)] /\ i - Len(log) \in 1..n
    <3>1. i \in Nat /\ i > Len(log) /\ i <= Len(log) + n
      BY <1>1, <1>7, <2>1
    <3> QED
      BY <1>1, <1>4, <1>5, <1>7, <3>1
  <2> QED
    BY <2>1, <2>2, <2>3
<1>9. ASSUME NEW i \in Len(log) + 1..Len(log')
      PROVE  \E t \in chosen : log'[i] = Changed(t, "dashboard", status)
  <2>1. i - Len(log) \in 1..n /\ log'[i] = tail[i - Len(log)]
    BY <1>8
  <2>2. order[i - Len(log)] \in chosen
    BY <1>2, <2>1
  <2> QED
    BY <1>6, <2>1, <2>2
<1>10. ASSUME NEW t \in chosen
       PROVE  \E i \in Len(log) + 1..Len(log') :
                /\ log'[i] = Changed(t, "dashboard", status)
                /\ \A j \in Len(log) + 1..Len(log') : j # i => log'[j].task # t
  <2>1. PICK k \in 1..n : order[k] = t
    BY <1>2
  <2>2. Len(log) + k \in Len(log) + 1..Len(log') /\ Len(log) + k - Len(log) = k
    BY <1>1, <1>7, <1>8
  <2>3. log'[Len(log) + k] = Changed(t, "dashboard", status)
    BY <1>6, <1>8, <2>1, <2>2
  <2>4. ASSUME NEW j \in Len(log) + 1..Len(log'), j # Len(log) + k PROVE log'[j].task # t
    <3>1. j - Len(log) \in 1..n /\ j - Len(log) # k
      BY <1>7, <1>8, <2>4
    <3>2. order[j - Len(log)] # t /\ order[j - Len(log)] \in Tasks
      BY <1>2, <1>3, <2>1, <3>1
    <3>3. log'[j] = Changed(order[j - Len(log)], "dashboard", status)
      BY <1>6, <1>8, <3>1
    <3> QED
      BY <3>2, <3>3, EventIs
  <2> QED
    BY <2>2, <2>3, <2>4
<1>11. Len(log') <= MaxEvents /\ Len(log) < Len(log')
  BY <1>1, <1>7, <1>8, Bounds
<1> QED
  BY <1>8, <1>9, <1>10, <1>11

\* A row where only its status and age have changed.
Edited(t) ==
  /\ row'[t] \in Row
  /\ row'[t].owner = row[t].owner /\ row'[t].runs = row[t].runs

LEMMA OneEdited ==
  ASSUME TypeOK, NEW t \in Tasks, row[t] # None, NEW status \in Statuses,
         row' = [row EXCEPT ![t].status = status, ![t].age = 0]
  PROVE  /\ row' \in [Tasks -> Row \cup {None}]
         /\ Edited(t) /\ row'[t].status = status /\ row'[t].age = 0
         /\ \A u \in Tasks \ {t} : row'[u] = row[u]
<1>1. row[t] \in Row /\ DOMAIN row = Tasks
  BY DEF TypeOK
<1> DEFINE new == Becomes(row[t], status, 0)
<1>2. row' = [row EXCEPT ![t] = new]
  BY <1>1 DEF Becomes
<1>3. /\ new \in Row /\ new.status = status /\ new.age = 0
      /\ new.owner = row[t].owner /\ new.runs = row[t].runs
  BY <1>1, RowEdited
<1> HIDE DEF new
<1> QED
  <2>1. row'[t] = new /\ row' \in [Tasks -> Row \cup {None}]
    <3>1. row \in [Tasks -> Row \cup {None}]
      BY DEF TypeOK
    <3> HIDE DEF new
    <3> QED
      BY <1>2, <1>3, <3>1
  <2>2. \A u \in Tasks \ {t} : row'[u] = row[u]
    BY <1>1, <1>2
  <2> QED
    BY <1>3, <2>1, <2>2 DEF Edited

LEMMA OneAged ==
  ASSUME TypeOK, NEW t \in Tasks, Age(t)
  PROVE  /\ row' \in [Tasks -> Row \cup {None}]
         /\ Edited(t) /\ row'[t].status = row[t].status
         /\ \A u \in Tasks \ {t} : row'[u] = row[u]
<1>1. row[t] \in Row /\ DOMAIN row = Tasks /\ row[t].age \in 0..1 /\ row[t].status \in Statuses
  BY DEF TypeOK, Age, Row
<1> DEFINE age == row[t].age + 1
           new == Becomes(row[t], row[t].status, age)
<1>2. age \in 0..2
  BY <1>1
<1> HIDE DEF age
<1>3. /\ new \in Row /\ new.status = row[t].status
      /\ new.owner = row[t].owner /\ new.runs = row[t].runs
  BY <1>1, <1>2, RowEdited
<1>4. new = [row[t] EXCEPT !.age = age]
  BY <1>1 DEF Row, Becomes
<1>5. row' = [row EXCEPT ![t] = new]
  BY <1>1, <1>4 DEF Age, age
<1> HIDE DEF new
<1> QED
  BY <1>1, <1>3, <1>5 DEF Edited, TypeOK

LEMMA OneAttached ==
  ASSUME TypeOK, NEW t \in Tasks, NEW r \in Runs, Attach(t, r)
  PROVE  /\ row' \in [Tasks -> Row \cup {None}]
         /\ row'[t] \in Row /\ row'[t].owner = row[t].owner /\ row'[t].status = row[t].status
         /\ row'[t].runs = Append(row[t].runs, r)
         /\ \A u \in Tasks \ {t} : row'[u] = row[u]
<1>1. row[t] \in Row /\ DOMAIN row = Tasks
  BY DEF TypeOK, Attach
<1>2. Append(row[t].runs, r) \in Seq(Runs)
  BY <1>1 DEF Row
<1> DEFINE new == Attached(row[t], Append(row[t].runs, r))
<1>3. /\ new \in Row /\ new.status = row[t].status
      /\ new.owner = row[t].owner /\ new.runs = Append(row[t].runs, r)
  BY <1>1, <1>2, RowAttached
<1>4. row' = [row EXCEPT ![t] = new]
  BY <1>1 DEF Attach, Attached
<1> HIDE DEF new
<1> QED
  BY <1>1, <1>3, <1>4 DEF TypeOK

LEMMA ManyEdited ==
  ASSUME TypeOK, NEW chosen \in SUBSET Tasks, \A t \in chosen : row[t] # None,
         NEW status \in Statuses, Close(chosen, status)
  PROVE  /\ row' \in [Tasks -> Row \cup {None}]
         /\ \A t \in chosen : Edited(t) /\ row'[t].status = status /\ row'[t].age = 0
         /\ \A u \in Tasks \ chosen : row'[u] = row[u]
<1> DEFINE new(t) == Becomes(row[t], status, 0)
<1>1. \A t \in chosen : row[t] \in Row
  BY DEF TypeOK
<1>2. \A t \in chosen :
        /\ new(t) \in Row /\ new(t).status = status /\ new(t).age = 0
        /\ new(t).owner = row[t].owner /\ new(t).runs = row[t].runs
  BY <1>1, RowEdited
<1>3. row' = [t \in Tasks |-> IF t \in chosen THEN new(t) ELSE row[t]]
  BY DEF Close, Becomes
<1> HIDE DEF new
<1> QED
  BY <1>2, <1>3 DEF Edited, TypeOK

\* The row the script writes: what it read, as done.
LEMMA OneArchived ==
  ASSUME TypeOK, Pending, NEW t \in Tasks, Archive(t)
  PROVE  /\ row' \in [Tasks -> Row \cup {None}]
         /\ snap[t] \in Row /\ row[t] # None
         /\ row'[t] \in Row /\ row'[t].status = "done" /\ row'[t].runs = snap[t].runs
         /\ \A u \in Tasks \ {t} : row'[u] = row[u]
<1>1. snap[t] \in Row /\ row[t] # None
  BY DEF Archive, TypeOK, Pending
<1>2. DOMAIN row = Tasks
  BY DEF TypeOK
<1> DEFINE new == Becomes(snap[t], "done", 0)
<1>3. new \in Row /\ new.status = "done" /\ new.runs = snap[t].runs
  <2>1. "done" \in Statuses /\ 0 \in 0..2
    BY StatusesAre
  <2> QED
    BY <1>1, <2>1, RowEdited
<1>4. row' = [row EXCEPT ![t] = new]
  BY DEF Archive, Becomes
<1> HIDE DEF new
<1> QED
  BY <1>1, <1>2, <1>3, <1>4 DEF TypeOK

LEMMA NoneIsNoRow == None \notin Row
BY RowAssumption DEF Row

-----------------------------------------------------------------------------
(* Safe is inductive. *)

\* Run states only leave "none".
LEMMA StayStarted ==
  ASSUME NEW runs \in Seq(Runs), Started(runs), \A r \in Runs : run[r] # "none" => run'[r] # "none"
  PROVE  \A i \in DOMAIN runs : run'[runs[i]] # "none"
<1> SUFFICES ASSUME NEW i \in DOMAIN runs PROVE run'[runs[i]] # "none"
  OBVIOUS
<1>1. runs[i] \in Runs
  OBVIOUS
<1> QED
  BY <1>1 DEF Started

LEMMA RowsStayStarted ==
  ASSUME Safe, \A r \in Runs : run[r] # "none" => run'[r] # "none"
  PROVE  /\ \A t \in Tasks : row[t] # None => \A i \in DOMAIN row[t].runs : run'[row[t].runs[i]] # "none"
         /\ \A t \in todo : \A i \in DOMAIN snap[t].runs : run'[snap[t].runs[i]] # "none"
         /\ web # None => run'[web[2]] # "none"
<1>1. ASSUME NEW t \in Tasks, row[t] # None PROVE row[t].runs \in Seq(Runs) /\ Started(row[t].runs)
  BY <1>1 DEF Safe, TypeOK, Row, Started
<1>2. ASSUME NEW t \in todo PROVE snap[t].runs \in Seq(Runs) /\ Started(snap[t].runs)
  BY <1>2 DEF Safe, Pending, Row
<1>3. web # None => web[2] \in Runs /\ run[web[2]] # "none"
  BY DEF Safe, TypeOK, Pending
<1> QED
  BY <1>1, <1>2, <1>3, StayStarted

LEMMA RunEndsSafe == ASSUME Safe, NEW r \in Runs, RunEnds(r) PROVE Safe'
<1>1. /\ run' \in [Runs -> {"none", "working", "done", "failed"}]
      /\ \A x \in Runs : run[x] # "none" => run'[x] # "none"
  BY DEF Safe, TypeOK, RunEnds
<1>2. UNCHANGED <<row, log, reader, web, script>>
  BY DEF RunEnds
<1>3. TypeOK'
  BY <1>1, <1>2, RowsStayStarted DEF Safe, TypeOK, reader, script
<1>4. Pending'
  BY <1>1, <1>2, RowsStayStarted DEF Safe, Pending, Started, reader, script
<1> QED
  BY <1>3, <1>4 DEF Safe

\* Rows that get a status, or age, by anyone.
LEMMA EditsSafe ==
  ASSUME Safe, NEW chosen \in SUBSET Tasks, row' \in [Tasks -> Row \cup {None}],
         \A t \in chosen : row[t] # None /\ Edited(t),
         \A t \in Tasks \ chosen : row'[t] = row[t],
         web # None => web[1] \notin chosen,
         log' \in Seq(Event), Len(log') <= MaxEvents, Len(log) <= Len(log'),
         UNCHANGED <<run, reader, web, script>>
  PROVE  Safe'
<1>1. \A t \in Tasks : row'[t] # None => /\ row[t] # None /\ row'[t].runs = row[t].runs
                                         /\ row'[t].owner = row[t].owner
  BY NoneIsNoRow DEF Edited
<1>2. \A t \in Tasks : row[t] # None => row'[t] # None
  BY NoneIsNoRow DEF Edited
<1>3. TypeOK'
  <2>1. cursor' \in 0..Len(log') /\ got' \subseteq 1..Len(log')
    BY DEF Safe, TypeOK, reader
  <2>2. \A t \in Tasks : row'[t] # None => \A i \in DOMAIN row'[t].runs : run'[row'[t].runs[i]] # "none"
    BY <1>1 DEF Safe, TypeOK
  <2> QED
    BY <2>1, <2>2 DEF Safe, TypeOK, reader, script
<1>4. Pending'
  <2>1. ASSUME web # None PROVE row'[web[1]] = row[web[1]]
    BY <2>1 DEF Safe, TypeOK
  <2> QED
    BY <1>2, <2>1 DEF Safe, TypeOK, Pending, Started, script
<1> QED
  BY <1>3, <1>4 DEF Safe

LEMMA AgeSafe == ASSUME Safe, NEW t \in Tasks, Age(t) PROVE Safe'
<1>1. /\ row' \in [Tasks -> Row \cup {None}] /\ Edited(t) /\ row[t] # None
      /\ \A u \in Tasks \ {t} : row'[u] = row[u]
  BY OneAged DEF Safe, Age
<1>2. web # None => web[1] # t
  BY DEF Age
<1>3. log' = log /\ log \in Seq(Event) /\ Len(log) <= MaxEvents /\ Len(log) \in Nat
  BY DEF Safe, TypeOK, Age
<1>4. UNCHANGED <<run, reader, web, script>>
  BY DEF Age
<1> QED
  <2> DEFINE chosen == {t}
  <2>1. /\ chosen \in SUBSET Tasks
        /\ \A u \in chosen : row[u] # None /\ Edited(u)
        /\ \A u \in Tasks \ chosen : row'[u] = row[u]
        /\ web # None => web[1] \notin chosen
    BY <1>1, <1>2
  <2> HIDE DEF chosen
  <2> QED
    BY <1>1, <1>3, <1>4, <2>1, EditsSafe

LEMMA StatusSafe ==
  ASSUME Safe, NEW t \in Tasks, NEW status \in Statuses,
         SetStatus(t, status) \/ \E s \in Sessions : Update(s, t, status)
  PROVE  Safe'
<1>1. /\ row[t] # None /\ Len(log) < MaxEvents
      /\ row' = [row EXCEPT ![t].status = status, ![t].age = 0]
      /\ UNCHANGED <<run, reader, web, script>>
  BY DEF Update, SetStatus, Open
<1>2. \E by \in Sessions \cup {"dashboard", "archive"} : log' = Append(log, Changed(t, by, status))
  <2>1. row[t].owner \in Sessions \cup {"dashboard", "archive"}
    BY <1>1 DEF Safe, TypeOK, Row
  <2> QED
    BY <2>1 DEF Update, SetStatus
<1>3. log' \in Seq(Event) /\ Len(log') <= MaxEvents /\ Len(log) <= Len(log')
  <2>1. log \in Seq(Event)
    BY DEF Safe, TypeOK
  <2>2. PICK e \in Event : log' = Append(log, e)
    BY <1>2, EventIs
  <2>3. Len(log') = Len(log) + 1 /\ log' \in Seq(Event) /\ Len(log') <= MaxEvents
    BY <1>1, <2>1, <2>2, Appended
  <2> QED
    BY <2>1, <2>3
<1>4. /\ row' \in [Tasks -> Row \cup {None}] /\ Edited(t) /\ row'[t].age = 0
      /\ \A u \in Tasks \ {t} : row'[u] = row[u]
  BY <1>1, OneEdited DEF Safe
<1> QED
  <2> DEFINE chosen == {t}
  <2>1. /\ chosen \in SUBSET Tasks
        /\ \A u \in chosen : row[u] # None /\ Edited(u) /\ row'[u].age = 0
        /\ \A u \in Tasks \ chosen : row'[u] = row[u]
    BY <1>1, <1>4
  <2>2. web # None => web[1] \notin chosen
    <3>1. SUFFICES ASSUME web # None PROVE web[1] # t
      OBVIOUS
    <3>2. /\ row[web[1]] \in Row /\ row[web[1]].owner = "dashboard" /\ row[web[1]].age = 0
      BY <3>1 DEF Safe, TypeOK, Pending
    <3>3. CASE \E s \in Sessions : Update(s, t, status)
      BY <3>2, <3>3, NamesAssumption DEF Update, MayUpdate
    <3>4. CASE SetStatus(t, status)
      BY <3>1, <3>4 DEF SetStatus
    <3> QED
      BY <3>3, <3>4
  <2> HIDE DEF chosen
  <2> QED
    BY <1>1, <1>3, <1>4, <2>1, <2>2, EditsSafe

LEMMA CloseSafe ==
  ASSUME Safe, NEW chosen \in SUBSET Tasks, \A t \in chosen : row[t] # None,
         NEW status \in Statuses, Close(chosen, status)
  PROVE  Safe'
<1>1. /\ row' \in [Tasks -> Row \cup {None}]
      /\ \A t \in chosen : Edited(t) /\ row'[t].age = 0
      /\ \A u \in Tasks \ chosen : row'[u] = row[u]
  BY ManyEdited DEF Safe
<1>2. log' \in Seq(Event) /\ Len(log') <= MaxEvents /\ Len(log) <= Len(log')
  <2>1. log' \in Seq(Event) /\ Len(log') <= MaxEvents /\ Len(log) < Len(log')
    BY Closed DEF Safe
  <2>2. Len(log) \in Nat /\ Len(log') \in Nat
    BY <2>1 DEF Safe, TypeOK
  <2> QED
    BY <2>1, <2>2
<1>3. UNCHANGED <<run, reader, web, script>> /\ web = None
  BY DEF Close
<1> QED
  BY <1>1, <1>2, <1>3, EditsSafe

\* A row that is written anew for a task that has one, or had none.
LEMMA NewRowSafe ==
  ASSUME Safe, NEW t \in Tasks, row' \in [Tasks -> Row \cup {None}], row'[t] \in Row,
         \A u \in Tasks \ {t} : row'[u] = row[u],
         run' \in [Runs -> {"none", "working", "done", "failed"}],
         \A r \in Runs : run[r] # "none" => run'[r] # "none",
         \A i \in DOMAIN row'[t].runs : run'[row'[t].runs[i]] # "none",
         web # None /\ web' = web => web[1] # t,
         web' = web \/ web' = None,
         log' \in Seq(Event), Len(log') <= MaxEvents, Len(log) <= Len(log'),
         todo' \subseteq todo, snap' = snap \/ (snap' = None /\ todo' = {}), UNCHANGED reader
  PROVE  Safe'
<1>1. row'[t] # None
  BY NoneIsNoRow
<1>2. TypeOK'
  <2>1. cursor' \in 0..Len(log') /\ got' \subseteq 1..Len(log')
    BY DEF Safe, TypeOK, reader
  <2>2. \A u \in Tasks : row'[u] # None => \A i \in DOMAIN row'[u].runs : run'[row'[u].runs[i]] # "none"
    BY RowsStayStarted
  <2>3. /\ web' \in (Tasks \X Runs \X (Row \cup {None})) \cup {None} /\ todo' \in SUBSET Tasks
        /\ snap' = None \/ snap' \in [Tasks -> Row \cup {None}]
    BY DEF Safe, TypeOK
  <2> QED
    BY <2>1, <2>2, <2>3 DEF TypeOK
<1>3. Pending'
  <2>1. ASSUME web' # None PROVE /\ row'[web'[1]] # None /\ row'[web'[1]].owner = "dashboard"
                                 /\ row'[web'[1]].runs = <<>> /\ row'[web'[1]].age = 0
                                 /\ run'[web'[2]] # "none" /\ web'[1] \notin todo'
                                 /\ web'[3] \in {None, row'[web'[1]]}
    <3>1. web' = web /\ web # None /\ web[1] \in Tasks \ {t}
      BY <2>1 DEF Safe, TypeOK
    <3>2. row'[web[1]] = row[web[1]]
      BY <3>1
    <3> QED
      BY <3>1, <3>2, RowsStayStarted DEF Safe, Pending
  <2>2. ASSUME NEW u \in todo' PROVE /\ snap' \in [Tasks -> Row \cup {None}]
                                     /\ snap'[u] \in Row /\ Started(snap[u].runs)'
                                     /\ row'[u] # None
    <3>1. u \in todo /\ u \in Tasks /\ snap' = snap
      BY <2>2 DEF Safe, TypeOK
    <3>2. /\ snap \in [Tasks -> Row \cup {None}] /\ snap[u] \in Row /\ row[u] # None
          /\ \A i \in DOMAIN snap[u].runs : run'[snap[u].runs[i]] # "none"
      BY <3>1, RowsStayStarted DEF Safe, Pending
    <3>3. row'[u] # None
      BY <1>1, <3>1, <3>2
    <3> QED
      BY <3>1, <3>2, <3>3 DEF Started
  <2> QED
    BY <2>1, <2>2 DEF Pending
<1> QED
  BY <1>2, <1>3 DEF Safe

LEMMA ClaimSafe == ASSUME Safe, NEW s \in Sessions, NEW t \in Tasks, Claim(s, t) PROVE Safe'
<1> DEFINE new == [status |-> "active", owner |-> s, runs |-> <<>>, age |-> 0]
<1>1. new \in Row /\ new.runs = <<>>
  BY StatusesAre DEF Row
<1>2. row \in [Tasks -> Row \cup {None}] /\ row' = [row EXCEPT ![t] = new] /\ row[t] = None
  BY DEF Claim, Safe, TypeOK
<1>3. log' = Append(log, Changed(t, s, "active")) /\ Len(log) < MaxEvents /\ log \in Seq(Event)
  BY DEF Claim, Safe, TypeOK
<1>4. log' \in Seq(Event) /\ Len(log') <= MaxEvents /\ Len(log) <= Len(log')
  BY <1>3, EventIs, StatusesAre, Appended
<1>5. UNCHANGED <<run, reader, web, script>> /\ run \in [Runs -> {"none", "working", "done", "failed"}]
  BY DEF Claim, Safe, TypeOK
<1>6. web # None => web[1] # t
  BY <1>2 DEF Safe, Pending
<1> HIDE DEF new
<1>7. row' \in [Tasks -> Row \cup {None}] /\ row'[t] = new /\ \A u \in Tasks \ {t} : row'[u] = row[u]
  BY <1>1, <1>2
<1>8. \A i \in DOMAIN row'[t].runs : run'[row'[t].runs[i]] # "none"
  BY <1>1, <1>7
<1> QED
  BY <1>1, <1>4, <1>5, <1>6, <1>7, <1>8, NewRowSafe DEF script

LEMMA AttachSafe == ASSUME Safe, NEW t \in Tasks, NEW r \in Runs, Attach(t, r) PROVE Safe'
<1>1. /\ row' \in [Tasks -> Row \cup {None}] /\ row'[t] \in Row
      /\ row'[t].runs = Append(row[t].runs, r) /\ \A u \in Tasks \ {t} : row'[u] = row[u]
  BY OneAttached DEF Safe
<1>2. /\ run \in [Runs -> {"none", "working", "done", "failed"}]
      /\ run' = [run EXCEPT ![r] = "working"]
      /\ UNCHANGED <<log, reader, web, script>> /\ row[t] # None /\ row[t].owner \in Sessions
  BY DEF Attach, Safe, TypeOK
<1>3. row[t].runs \in Seq(Runs) /\ Started(row[t].runs)
  BY <1>2 DEF Safe, TypeOK, Row, Started
<1>4. ASSUME NEW i \in DOMAIN row'[t].runs PROVE run'[row'[t].runs[i]] # "none"
  <2> DEFINE runs == row[t].runs
  <2>1. i \in 1..Len(runs) + 1 /\ runs \in Seq(Runs) /\ row'[t].runs = Append(runs, r)
    BY <1>1, <1>3
  <2>2. CASE i = Len(runs) + 1
    BY <1>2, <2>1, <2>2
  <2>3. CASE i # Len(runs) + 1
    <3>1. i \in DOMAIN runs /\ Append(runs, r)[i] = runs[i] /\ runs[i] \in Runs
      BY <2>1, <2>3
    <3> QED
      BY <1>2, <1>3, <2>1, <3>1 DEF Started
  <2> QED
    BY <2>2, <2>3
<1>5. web # None => web[1] # t
  BY <1>2, NamesAssumption DEF Safe, Pending
<1>6. log' \in Seq(Event) /\ Len(log') <= MaxEvents /\ Len(log) <= Len(log')
  BY <1>2 DEF Safe, TypeOK
<1> QED
  BY <1>1, <1>2, <1>4, <1>5, <1>6, NewRowSafe DEF script

LEMMA WebWriteSafe == ASSUME Safe, WebWrite PROVE Safe'
<1> DEFINE t == web[1]
<1>1. /\ web # None /\ t \in Tasks /\ web[2] \in Runs /\ web' = None /\ row[t] # None
      /\ UNCHANGED <<log, run, reader, script>> /\ run[web[2]] # "none"
      /\ web[3] = row[web[1]]
  BY DEF WebWrite, Safe, TypeOK, Pending
<1>2. /\ row \in [Tasks -> Row \cup {None}] /\ row[t] \in Row
      /\ run \in [Runs -> {"none", "working", "done", "failed"}]
      /\ log \in Seq(Event) /\ Len(log) <= MaxEvents
  BY <1>1 DEF Safe, TypeOK
<1>3. CASE row' = row
  BY <1>1, <1>3 DEF Safe, TypeOK, Pending, Started, reader, script
<1>4. CASE row' = [row EXCEPT ![web[1]] = [web[3] EXCEPT !.runs = <<web[2]>>]]
  <2> DEFINE runs == <<web[2]>>
             new  == [row[t] EXCEPT !.runs = runs]
  <2>1. runs \in Seq(Runs)
    BY <1>1
  <2> HIDE DEF runs
  <2>2. new \in Row /\ new.runs = runs
    BY <1>2, <2>1 DEF Row
  <2>3. row' = [row EXCEPT ![t] = new]
    BY <1>1, <1>4 DEF runs
  <2> HIDE DEF new, t
  <2>4. /\ row' \in [Tasks -> Row \cup {None}] /\ row'[t] = new
        /\ \A u \in Tasks \ {t} : row'[u] = row[u]
    BY <1>1, <1>2, <2>2, <2>3
  <2>5. \A i \in DOMAIN row'[t].runs : run'[row'[t].runs[i]] # "none"
    BY <1>1, <2>2, <2>4 DEF runs
  <2> QED
    BY <1>1, <1>2, <2>2, <2>4, <2>5, NewRowSafe DEF script
<1> QED
  BY <1>3, <1>4 DEF WebWrite

LEMMA WebReadSafe == ASSUME Safe, WebRead PROVE Safe'
<1>1. /\ web # None /\ web \in Tasks \X Runs \X (Row \cup {None})
      /\ UNCHANGED <<row, log, run, reader, script>>
      /\ web' = None \/ web' = [web EXCEPT ![3] = row[web[1]]]
  BY DEF WebRead, Safe, TypeOK
<1>2. row[web[1]] \in Row
  BY <1>1 DEF Safe, TypeOK, Pending
<1>3. web' # None => /\ web' \in Tasks \X Runs \X (Row \cup {None})
                     /\ web'[1] = web[1] /\ web'[2] = web[2] /\ web'[3] = row[web[1]]
  BY <1>1, <1>2
<1>4. TypeOK'
  BY <1>1, <1>3 DEF Safe, TypeOK, reader, script
<1>5. Pending'
  BY <1>1, <1>3 DEF Safe, Pending, Started, script
<1> QED
  BY <1>4, <1>5 DEF Safe

LEMMA ArchiveSafe == ASSUME Safe, NEW t \in Tasks, Archive(t) PROVE Safe'
<1>1. /\ row' \in [Tasks -> Row \cup {None}] /\ row'[t] \in Row /\ row'[t].runs = snap[t].runs
      /\ \A u \in Tasks \ {t} : row'[u] = row[u]
  BY OneArchived DEF Safe
<1>2. /\ t \in todo /\ todo' = todo \ {t} /\ snap' = (IF todo' = {} THEN None ELSE snap)
      /\ UNCHANGED <<run, reader, web>> /\ run \in [Runs -> {"none", "working", "done", "failed"}]
  BY DEF Archive, Safe, TypeOK
<1>3. \A i \in DOMAIN row'[t].runs : run'[row'[t].runs[i]] # "none"
  BY <1>1, <1>2 DEF Safe, Pending, Started
<1>4. web # None => web[1] # t
  BY <1>2 DEF Safe, Pending
<1>5. log' \in Seq(Event) /\ Len(log') <= MaxEvents /\ Len(log) <= Len(log')
  <2>1. log' = Append(log, Changed(t, "archive", "done")) /\ Len(log) < MaxEvents /\ log \in Seq(Event)
    BY DEF Archive, Safe, TypeOK
  <2> QED
    BY <2>1, EventIs, StatusesAre, Appended
<1> QED
  BY <1>1, <1>2, <1>3, <1>4, <1>5, NewRowSafe

LEMMA WebSpawnSafe == ASSUME Safe, NEW t \in Tasks, NEW r \in Runs, WebSpawn(t, r) PROVE Safe'
<1> DEFINE new == [status |-> "active", owner |-> "dashboard", runs |-> <<>>, age |-> 0]
<1>1. new \in Row /\ new.runs = <<>> /\ new.owner = "dashboard" /\ new.age = 0
  BY StatusesAre DEF Row
<1>2. /\ web = None /\ row[t] = None /\ row' = [row EXCEPT ![t] = new] /\ web' = <<t, r, None>>
      /\ run' = [run EXCEPT ![r] = "working"] /\ UNCHANGED <<reader, script>>
  BY DEF WebSpawn
<1>3. /\ row \in [Tasks -> Row \cup {None}] /\ run \in [Runs -> {"none", "working", "done", "failed"}]
      /\ todo \subseteq Tasks
  BY DEF Safe, TypeOK
<1>4. log' \in Seq(Event) /\ Len(log') <= MaxEvents /\ Len(log) <= Len(log')
  <2>1. log' = Append(log, Changed(t, "dashboard", "active")) /\ Len(log) < MaxEvents /\ log \in Seq(Event)
    BY DEF WebSpawn, Safe, TypeOK
  <2> QED
    BY <2>1, EventIs, StatusesAre, Appended
<1> HIDE DEF new
<1>5. /\ row' \in [Tasks -> Row \cup {None}] /\ row'[t] = new /\ row'[t] # None
      /\ \A u \in Tasks \ {t} : row'[u] = row[u]
  BY <1>1, <1>2, <1>3, NoneIsNoRow
<1>6. /\ run' \in [Runs -> {"none", "working", "done", "failed"}] /\ run'[r] # "none"
      /\ \A x \in Runs : run[x] # "none" => run'[x] # "none"
  BY <1>2, <1>3
<1>7. TypeOK'
  <2>1. cursor' \in 0..Len(log') /\ got' \subseteq 1..Len(log')
    BY <1>2, <1>4 DEF Safe, TypeOK, reader
  <2>2. \A u \in Tasks : row'[u] # None => \A i \in DOMAIN row'[u].runs : run'[row'[u].runs[i]] # "none"
    BY <1>1, <1>5, <1>6, RowsStayStarted
  <2>3. web' \in (Tasks \X Runs \X (Row \cup {None})) \cup {None}
    BY <1>2
  <2> QED
    BY <1>2, <1>4, <1>5, <1>6, <2>1, <2>2, <2>3 DEF Safe, TypeOK, script
<1>8. Pending'
  <2>1. t \notin todo
    BY <1>2 DEF Safe, Pending
  <2>2. web'[1] = t /\ web'[2] = r /\ web'[3] = None
    BY <1>2
  <2>3. \A u \in todo : row'[u] = row[u]
    BY <1>3, <1>5, <2>1
  <2> QED
    BY <1>1, <1>2, <1>5, <1>6, <2>1, <2>2, <2>3, RowsStayStarted DEF Safe, Pending, Started, script
<1> QED
  BY <1>7, <1>8 DEF Safe

\* Steps that leave the rows alone.
LEMMA QuietSafe ==
  ASSUME Safe,
         \/ \E s \in Sessions, project \in {"here", "elsewhere"}, t \in Tasks \cup {None} :
              Note(s, project, t)
         \/ \E limit \in 1..MaxLimit : Sync(limit)
         \/ ReadAll
         \/ UNCHANGED vars
  PROVE  Safe'
<1>1. ASSUME NEW s \in Sessions, NEW project \in {"here", "elsewhere"}, NEW t \in Tasks \cup {None},
             Note(s, project, t)
      PROVE  Safe'
  <2> DEFINE e == [project |-> project, task |-> t, by |-> s, says |-> "note"]
  <2>1. e \in Event
    BY DEF Event
  <2>2. log' = Append(log, e) /\ Len(log) < MaxEvents /\ log \in Seq(Event)
    BY <1>1 DEF Note, Safe, TypeOK
  <2> HIDE DEF e
  <2>3. log' \in Seq(Event) /\ Len(log') <= MaxEvents /\ Len(log') = Len(log) + 1
    BY <2>1, <2>2, Appended
  <2>4. UNCHANGED <<row, run, reader, web, script>>
    BY <1>1 DEF Note
  <2>5. TypeOK'
    BY <2>2, <2>3, <2>4 DEF Safe, TypeOK, reader, script
  <2> QED
    BY <2>4, <2>5 DEF Safe, Pending, Started, reader, script
<1>2. ASSUME NEW limit \in 1..MaxLimit, Sync(limit) PROVE Safe'
  <2>1. First(limit) \subseteq 1..Len(log) /\ log \in Seq(Event)
    BY DEF First, Fresh, Safe, TypeOK
  <2>2. UNCHANGED <<row, log, run, web, script>>
    BY <1>2 DEF Sync
  <2>3. cursor' \in First(limit) /\ got' = got \cup First(limit)
    BY <1>2 DEF Sync
  <2>4. TypeOK'
    <3>1. cursor' \in 0..Len(log) /\ got' \subseteq 1..Len(log)
      <4>1. got \subseteq 1..Len(log)
        BY DEF Safe, TypeOK
      <4>2. cursor' \in 1..Len(log) /\ Len(log) \in Nat
        BY <2>1, <2>3
      <4> QED
        <5>1. got' \subseteq 1..Len(log)
          BY <2>1, <2>3, <4>1
        <5> QED
          BY <4>2, <5>1
    <3> QED
      BY <2>2, <3>1 DEF Safe, TypeOK, script
  <2> QED
    BY <2>2, <2>4 DEF Safe, Pending, Started, script
<1>3. CASE ReadAll
  <2>1. /\ todo' = {t \in Tasks : Open(t) /\ row[t].age = 2} /\ snap' = row
        /\ UNCHANGED <<row, log, run, reader, web>>
    BY <1>3 DEF ReadAll
  <2>2. row \in [Tasks -> Row \cup {None}]
    BY DEF Safe, TypeOK
  <2>3. \A t \in todo' : t \in Tasks /\ row[t] # None /\ row[t] \in Row /\ row[t].age = 2
    BY <2>1, <2>2 DEF Open
  <2>4. TypeOK'
    BY <2>1, <2>2, <2>3 DEF Safe, TypeOK, reader
  <2>5. \A t \in todo' : Started(row[t].runs)
    BY <2>3 DEF Safe, TypeOK, Started
  <2>6. web # None => web[1] \notin todo'
    BY <2>3 DEF Safe, Pending
  <2> QED
    BY <2>1, <2>2, <2>3, <2>4, <2>5, <2>6 DEF Safe, Pending, Started
<1>4. CASE UNCHANGED vars
  BY <1>4 DEF Safe, TypeOK, Pending, Started, vars, reader, script
<1> QED
  BY <1>1, <1>2, <1>3, <1>4

\* Reap closes tasks that have rows.
LEMMA ReapCloses ==
  ASSUME Reap
  PROVE  \E chosen \in SUBSET Tasks : (\A t \in chosen : row[t] # None) /\ Close(chosen, "cancelled")
<1> DEFINE working == {t \in Tasks : row[t] # None /\ row[t].status = "active" /\ row[t].runs # <<>>}
           failed  == {t \in working : run[row[t].runs[Len(row[t].runs)]] = "failed"}
<1>1. PICK unread \in SUBSET working : Close(unread \cup failed, "cancelled")
  BY DEF Reap
<1>2. unread \cup failed \in SUBSET Tasks /\ \A t \in unread \cup failed : row[t] # None
  OBVIOUS
<1> QED
  BY <1>1, <1>2

LEMMA CleanupCloses ==
  ASSUME NEW status \in Terminal, Cleanup(status)
  PROVE  \E chosen \in SUBSET Tasks : (\A t \in chosen : row[t] # None) /\ Close(chosen, status)
BY DEF Cleanup, Open

LEMMA SafeHolds == Spec => []Safe
<1>1. Init => Safe
  BY Bounds DEF Init, Safe, TypeOK, Pending
<1>2. ASSUME Safe, [Next]_vars PROVE Safe'
  <2>1. CASE \E r \in Runs : RunEnds(r)
    BY <1>2, <2>1, RunEndsSafe
  <2>2. CASE \E t \in Tasks : Age(t) \/ Archive(t)
    BY <1>2, <2>2, AgeSafe, ArchiveSafe
  <2>3. CASE \E s \in Sessions, t \in Tasks : Claim(s, t)
    BY <1>2, <2>3, ClaimSafe
  <2>4. CASE \E t \in Tasks, r \in Runs : Attach(t, r) \/ WebSpawn(t, r)
    BY <1>2, <2>4, AttachSafe, WebSpawnSafe
  <2>5. CASE \E s \in Sessions, t \in Tasks, status \in Statuses : Update(s, t, status)
    BY <1>2, <2>5, StatusSafe
  <2>6. CASE \E t \in Tasks, status \in Statuses : SetStatus(t, status)
    BY <1>2, <2>6, StatusSafe
  <2>7. CASE Reap \/ \E status \in Terminal : Cleanup(status)
    BY <1>2, <2>7, ReapCloses, CleanupCloses, CloseSafe, StatusesAre DEF Terminal
  <2>8. CASE WebRead \/ WebWrite
    BY <1>2, <2>8, WebReadSafe, WebWriteSafe
  <2> QED
    BY <1>2, <2>1, <2>2, <2>3, <2>4, <2>5, <2>6, <2>7, <2>8, QuietSafe DEF Next
<1> QED
  BY <1>1, <1>2, PTL DEF Spec

-----------------------------------------------------------------------------
(* Following the log. *)

\* A longer log, with the same beginning, changes nothing for who has not read on.
LEMMA LongerLog ==
  ASSUME Safe, NoEventMissed, UNCHANGED reader, \A i \in 1..Len(log) : log'[i] = log[i]
  PROVE  NoEventMissed'
<1>1. cursor \in 0..Len(log) /\ Len(log) \in Nat
  BY DEF Safe, TypeOK
<1>2. \A i \in 1..cursor : i \in 1..Len(log)
  BY <1>1
<1> QED
  BY <1>2 DEF NoEventMissed, reader

\* A page is all there is up to its last event.
LEMMA PageIsWhole ==
  ASSUME Safe, NEW limit \in Nat, NEW last \in First(limit), \A i \in First(limit) : i <= last
  PROVE  First(limit) = {i \in cursor + 1..last : log[i].project = "here"}
<1>1. cursor \in Nat /\ Len(log) \in Nat
  BY DEF Safe, TypeOK
<1>2. last \in Fresh /\ last \in cursor + 1..Len(log) /\ Cardinality({j \in Fresh : j <= last}) <= limit
  BY DEF First, Fresh
<1>3. ASSUME NEW i \in cursor + 1..last, log[i].project = "here" PROVE i \in First(limit)
  <2>1. i \in Fresh /\ i <= last
    BY <1>1, <1>2, <1>3 DEF Fresh
  <2> DEFINE upTo(k) == {j \in Fresh : j <= k}
  <2>2. IsFiniteSet(upTo(last))
    <3>1. upTo(last) \in SUBSET (cursor + 1..Len(log)) /\ IsFiniteSet(cursor + 1..Len(log))
      <4>1. Fresh \subseteq cursor + 1..Len(log)
        BY DEF Fresh
      <4>2. cursor + 1 \in Int /\ Len(log) \in Int
        BY <1>1
      <4> QED
        BY <4>1, <4>2, FS_Interval
    <3> QED
      BY <3>1, FS_Subset
  <2>3. upTo(i) \in SUBSET upTo(last)
    <3>1. \A j \in Fresh : j \in Nat
      BY <1>1 DEF Fresh
    <3> QED
      <4>1. i \in Nat /\ last \in Nat
        BY <1>2, <2>1, <3>1
      <4>2. \A j \in Fresh : j <= i => j <= last
        BY <2>1, <3>1, <4>1
      <4> QED
        BY <4>2
  <2> HIDE DEF upTo
  <2>4. Cardinality(upTo(i)) <= Cardinality(upTo(last))
    BY <2>2, <2>3, FS_Subset
  <2>5. Cardinality(upTo(i)) \in Nat /\ Cardinality(upTo(last)) \in Nat
    BY <2>2, <2>3, FS_Subset, FS_CardinalityType
  <2>6. Cardinality(upTo(i)) <= limit
    BY <1>2, <2>4, <2>5 DEF upTo
  <2> QED
    BY <2>1, <2>6 DEF First, upTo
<1>4. ASSUME NEW i \in First(limit) PROVE i \in cursor + 1..last /\ log[i].project = "here"
  BY <1>1, <1>2, <1>4 DEF First, Fresh
<1> QED
  BY <1>3, <1>4

LEMMA SyncMissesNothing ==
  ASSUME Safe, NoEventMissed, NEW limit \in 1..MaxLimit, Sync(limit)
  PROVE  NoEventMissed'
<1>1. /\ got' = got \cup First(limit) /\ cursor' \in First(limit)
      /\ \A i \in First(limit) : i <= cursor'
      /\ log' = log
  BY DEF Sync
<1>2. limit \in Nat
  BY Bounds
<1>3. First(limit) = {i \in cursor + 1..cursor' : log[i].project = "here"}
  BY <1>1, <1>2, PageIsWhole
<1>4. cursor \in Nat /\ cursor' \in Nat /\ cursor < cursor'
  <2>1. cursor \in Nat /\ Len(log) \in Nat
    BY DEF Safe, TypeOK
  <2>2. cursor' \in cursor + 1..Len(log)
    BY <1>1 DEF First, Fresh
  <2> QED
    BY <2>1, <2>2
<1>5. {i \in 1..cursor' : log[i].project = "here"} =
        {i \in 1..cursor : log[i].project = "here"} \cup {i \in cursor + 1..cursor' : log[i].project = "here"}
  BY <1>4
<1> QED
  BY <1>1, <1>3, <1>5 DEF NoEventMissed

-----------------------------------------------------------------------------
(* The log and the rows. *)

\* What every writer's step does to the log.
LogGrows == \A i \in 1..Len(log) : log'[i] = log[i]

\* An event that says nothing of a task's status.
Silent(e, t) == e.task # t \/ e.says = "note"

\* A task's last word in the log.
Tells(t, i) ==
  /\ i \in 1..Len(log) /\ log[i].task = t /\ log[i].says = row[t].status
  /\ \A j \in 1..Len(log) : j > i => Silent(log[j], t)

LEMMA TellsAll ==
  ASSUME log \in Seq(Event)
  PROVE  EventsTellStatus <=> \A t \in Tasks : row[t] # None => \E i : Tells(t, i)
BY DEF EventsTellStatus, Tells, Silent

\* One event more: a note, of another task, or a task's new status.
LEMMA OneMore ==
  ASSUME Safe, Safe', EventsTellStatus, NEW e \in Event, Len(log) < MaxEvents, log' = Append(log, e),
         \A t \in Tasks : row'[t] # None =>
           \/ e.task = t /\ e.says = row'[t].status
           \/ Silent(e, t) /\ row[t] # None /\ row'[t].status = row[t].status
  PROVE  LogGrows /\ EventsTellStatus'
<1>1. log \in Seq(Event) /\ log' \in Seq(Event)
  BY DEF Safe, TypeOK
<1>2. /\ Len(log') = Len(log) + 1 /\ log'[Len(log')] = e /\ Len(log) \in Nat
      /\ \A i \in 1..Len(log) : log'[i] = log[i]
  BY <1>1, Appended
<1>3. ASSUME NEW t \in Tasks, row'[t] # None PROVE \E i : Tells(t, i)'
  <2>1. CASE e.task = t /\ e.says = row'[t].status
    <3>0. PICK n : n = Len(log) + 1
      OBVIOUS
    <3>1. Tells(t, n)'
      <4>1. n \in 1..Len(log') /\ log'[n] = e
        BY <1>2, <3>0
      <4>2. \A j \in 1..Len(log') : ~(j > n)
        BY <1>2, <3>0
      <4> QED
        BY <2>1, <4>1, <4>2 DEF Tells
    <3> QED
      BY <3>1
  <2>2. CASE Silent(e, t) /\ row[t] # None /\ row'[t].status = row[t].status
    <3>1. PICK i : Tells(t, i)
      BY <1>1, <2>2, TellsAll
    <3>2. ASSUME NEW j \in 1..Len(log'), j > i PROVE Silent(log'[j], t)
      <4>1. CASE j \in 1..Len(log)
        BY <1>2, <3>1, <3>2, <4>1 DEF Tells
      <4>2. CASE j = Len(log')
        BY <1>2, <2>2, <4>2
      <4> QED
        BY <1>2, <4>1, <4>2
    <3>3. i \in 1..Len(log) /\ i \in 1..Len(log')
      BY <1>2, <3>1 DEF Tells
    <3>4. Tells(t, i)'
      BY <1>2, <2>2, <3>1, <3>2, <3>3 DEF Tells
    <3> QED
      BY <3>4
  <2> QED
    BY <1>3, <2>1, <2>2
<1>4. EventsTellStatus'
  BY <1>1, <1>3 DEF EventsTellStatus, Tells, Silent
<1> QED
  BY <1>2, <1>4 DEF LogGrows

\* A set of tasks got one status, and an event each.
LEMMA ManyMore ==
  ASSUME Safe, Safe', EventsTellStatus, NEW chosen \in SUBSET Tasks, \A t \in chosen : row[t] # None,
         NEW status \in Statuses, Close(chosen, status)
  PROVE  LogGrows /\ EventsTellStatus'
<1>1. log \in Seq(Event) /\ log' \in Seq(Event) /\ Len(log) \in Nat /\ Len(log') \in Nat
  BY DEF Safe, TypeOK
<1>2. /\ Len(log) < Len(log')
      /\ \A i \in 1..Len(log) : log'[i] = log[i]
      /\ \A i \in Len(log) + 1..Len(log') : \E t \in chosen : log'[i] = Changed(t, "dashboard", status)
      /\ \A t \in chosen : \E i \in Len(log) + 1..Len(log') :
           /\ log'[i] = Changed(t, "dashboard", status)
           /\ \A j \in Len(log) + 1..Len(log') : j # i => log'[j].task # t
  BY Closed DEF Safe
<1>3. /\ \A t \in chosen : row'[t].status = status
      /\ \A t \in Tasks \ chosen : row'[t] = row[t]
  BY ManyEdited DEF Safe
<1>4. ASSUME NEW t \in Tasks, row'[t] # None PROVE \E i : Tells(t, i)'
  <2>1. CASE t \in chosen
    <3>1. PICK i \in Len(log) + 1..Len(log') :
            /\ log'[i] = Changed(t, "dashboard", status)
            /\ \A j \in Len(log) + 1..Len(log') : j # i => log'[j].task # t
      BY <1>2, <2>1
    <3>2. i \in 1..Len(log') /\ \A j \in 1..Len(log') : j > i => j \in Len(log) + 1..Len(log') /\ j # i
      BY <1>1
    <3>3. Changed(t, "dashboard", status).task = t /\ Changed(t, "dashboard", status).says = status
      BY EventIs
    <3>4. Tells(t, i)'
      BY <1>3, <2>1, <3>1, <3>2, <3>3 DEF Tells, Silent
    <3> QED
      BY <3>4
  <2>2. CASE t \notin chosen
    <3>1. row[t] # None /\ row'[t] = row[t]
      BY <1>3, <1>4, <2>2
    <3>2. PICK i : Tells(t, i)
      BY <1>1, <3>1, TellsAll
    <3>3. ASSUME NEW j \in 1..Len(log'), j > i PROVE Silent(log'[j], t)
      <4>1. CASE j \in 1..Len(log)
        BY <1>2, <3>2, <3>3, <4>1 DEF Tells
      <4>2. CASE j \in Len(log) + 1..Len(log')
        BY <1>2, <2>2, <4>2, EventIs DEF Silent
      <4> QED
        BY <1>1, <4>1, <4>2
    <3>4. i \in 1..Len(log') /\ i \in 1..Len(log)
      BY <1>1, <1>2, <3>2 DEF Tells
    <3>5. Tells(t, i)'
      BY <1>2, <3>1, <3>2, <3>3, <3>4 DEF Tells
    <3> QED
      BY <3>5
  <2> QED
    BY <2>1, <2>2
<1>5. EventsTellStatus'
  BY <1>1, <1>4 DEF EventsTellStatus, Tells, Silent
<1> QED
  BY <1>2, <1>5 DEF LogGrows

\* No event, no change of status.
LEMMA NoMore ==
  ASSUME Safe, EventsTellStatus, log' = log,
         \A t \in Tasks : row'[t] # None => row[t] # None /\ row'[t].status = row[t].status
  PROVE  LogGrows /\ EventsTellStatus'
BY DEF EventsTellStatus, LogGrows

LEMMA StepTells ==
  ASSUME Safe, Safe', EventsTellStatus, [Next]_vars
  PROVE  LogGrows /\ EventsTellStatus'
<1>0. row \in [Tasks -> Row \cup {None}] /\ log \in Seq(Event)
  BY DEF Safe, TypeOK
<1>1. ASSUME NEW r \in Runs, RunEnds(r) PROVE LogGrows /\ EventsTellStatus'
  BY <1>1, NoMore DEF RunEnds
<1>2. ASSUME NEW t \in Tasks, Age(t) PROVE LogGrows /\ EventsTellStatus'
  <2>1. log' = log /\ row[t] # None
    BY <1>2 DEF Age
  <2> QED
    BY <1>2, <2>1, OneAged, NoMore DEF Safe
<1>3. ASSUME NEW t \in Tasks, Archive(t) PROVE LogGrows /\ EventsTellStatus'
  <2>1. /\ row'[t].status = "done" /\ row[t] # None
        /\ \A u \in Tasks \ {t} : row'[u] = row[u]
    BY <1>3, OneArchived DEF Safe
  <2>2. log' = Append(log, Changed(t, "archive", "done")) /\ Len(log) < MaxEvents
    BY <1>3 DEF Archive
  <2>3. /\ Changed(t, "archive", "done") \in Event /\ Changed(t, "archive", "done").task = t
        /\ Changed(t, "archive", "done").says = "done"
    BY EventIs, StatusesAre
  <2> QED
    BY <2>1, <2>2, <2>3, OneMore DEF Silent
<1>4. ASSUME NEW s \in Sessions, NEW t \in Tasks, Claim(s, t) PROVE LogGrows /\ EventsTellStatus'
  <2>1. /\ row'[t].status = "active"
        /\ \A u \in Tasks \ {t} : row'[u] = row[u]
    BY <1>0, <1>4 DEF Claim
  <2>2. log' = Append(log, Changed(t, s, "active")) /\ Len(log) < MaxEvents
    BY <1>4 DEF Claim
  <2>3. /\ Changed(t, s, "active") \in Event /\ Changed(t, s, "active").task = t
        /\ Changed(t, s, "active").says = "active"
    BY EventIs, StatusesAre
  <2> QED
    BY <2>1, <2>2, <2>3, OneMore DEF Silent
<1>5. ASSUME NEW t \in Tasks, NEW r \in Runs, Attach(t, r) PROVE LogGrows /\ EventsTellStatus'
  <2>1. log' = log /\ row[t] # None
    BY <1>5 DEF Attach
  <2> QED
    BY <1>5, <2>1, OneAttached, NoMore DEF Safe
<1>6. ASSUME NEW t \in Tasks, NEW r \in Runs, WebSpawn(t, r) PROVE LogGrows /\ EventsTellStatus'
  <2>1. /\ row'[t].status = "active"
        /\ \A u \in Tasks \ {t} : row'[u] = row[u]
    BY <1>0, <1>6 DEF WebSpawn
  <2>2. log' = Append(log, Changed(t, "dashboard", "active")) /\ Len(log) < MaxEvents
    BY <1>6 DEF WebSpawn
  <2>3. /\ Changed(t, "dashboard", "active") \in Event /\ Changed(t, "dashboard", "active").task = t
        /\ Changed(t, "dashboard", "active").says = "active"
    BY EventIs, StatusesAre
  <2> QED
    BY <2>1, <2>2, <2>3, OneMore DEF Silent
<1>7. ASSUME NEW t \in Tasks, NEW status \in Statuses,
             SetStatus(t, status) \/ \E s \in Sessions : Update(s, t, status)
      PROVE  LogGrows /\ EventsTellStatus'
  <2>1. /\ row[t] # None /\ Len(log) < MaxEvents
        /\ row' = [row EXCEPT ![t].status = status, ![t].age = 0]
    BY <1>7 DEF Update, SetStatus, Open
  <2>2. PICK by \in Sessions \cup {"dashboard", "archive"} : log' = Append(log, Changed(t, by, status))
    <3>1. row[t].owner \in Sessions \cup {"dashboard", "archive"}
      BY <1>0, <2>1 DEF Row
    <3> QED
      BY <1>7, <3>1 DEF Update, SetStatus
  <2>3. row'[t].status = status /\ \A u \in Tasks \ {t} : row'[u] = row[u]
    BY <2>1, OneEdited DEF Safe
  <2>4. /\ Changed(t, by, status) \in Event /\ Changed(t, by, status).task = t
        /\ Changed(t, by, status).says = status
    BY EventIs
  <2> QED
    BY <2>1, <2>2, <2>3, <2>4, OneMore DEF Silent
<1>8. ASSUME NEW s \in Sessions, NEW project \in {"here", "elsewhere"}, NEW t \in Tasks \cup {None},
             Note(s, project, t)
      PROVE  LogGrows /\ EventsTellStatus'
  <2> DEFINE e == [project |-> project, task |-> t, by |-> s, says |-> "note"]
  <2>1. e \in Event /\ e.says = "note"
    BY DEF Event
  <2>2. log' = Append(log, e) /\ Len(log) < MaxEvents /\ row' = row
    BY <1>8 DEF Note
  <2>3. \A u \in Tasks : Silent(e, u)
    BY <2>1 DEF Silent
  <2> HIDE DEF e
  <2> QED
    BY <2>1, <2>2, <2>3, OneMore DEF Silent
<1>9. CASE (\E limit \in 1..MaxLimit : Sync(limit)) \/ ReadAll \/ WebRead \/ UNCHANGED vars
  BY <1>9, NoMore DEF Sync, ReadAll, WebRead, vars
<1>10. CASE Reap \/ \E status \in Terminal : Cleanup(status)
  BY <1>10, ReapCloses, CleanupCloses, ManyMore, StatusesAre DEF Terminal
<1>11. CASE WebWrite
  <2>1. log' = log /\ web # None /\ web[1] \in Tasks /\ web[3] = row[web[1]]
    BY <1>11 DEF WebWrite, Safe, TypeOK, Pending
  <2>2. row[web[1]] \in Row /\ row[web[1]] # None
    BY <1>0, <2>1 DEF Safe, Pending
  <2>3. row' = row \/ row' = [row EXCEPT ![web[1]] = [web[3] EXCEPT !.runs = <<web[2]>>]]
    BY <1>11 DEF WebWrite
  <2>4. \A t \in Tasks : row'[t] # None => row[t] # None /\ row'[t].status = row[t].status
    <3>1. CASE row' = row
      BY <3>1
    <3>2. CASE row' = [row EXCEPT ![web[1]] = [web[3] EXCEPT !.runs = <<web[2]>>]]
      <4>1. row'[web[1]].status = row[web[1]].status
        BY <1>0, <2>1, <2>2, <3>2 DEF Row
      <4>2. \A t \in Tasks \ {web[1]} : row'[t] = row[t]
        BY <1>0, <3>2
      <4> QED
        BY <2>2, <4>1, <4>2
    <3> QED
      BY <2>3, <3>1, <3>2
  <2> QED
    BY <2>1, <2>4, NoMore
<1> QED
  BY <1>1, <1>2, <1>3, <1>4, <1>5, <1>6, <1>7, <1>8, <1>9, <1>10, <1>11 DEF Next

-----------------------------------------------------------------------------
(* The theorems. *)

\* Whatever the sessions, the dashboard and the script do to the board, its log tells the
\* status of every task (the writers' INSERT INTO events beside their UPDATE tasks).
THEOREM LogTellsStatus == Spec => []EventsTellStatus
<1>1. Init => EventsTellStatus
  BY DEF Init, EventsTellStatus
<1>2. ASSUME Safe, Safe', EventsTellStatus, [Next]_vars PROVE EventsTellStatus'
  BY <1>2, StepTells
<1> QED
  BY <1>1, <1>2, SafeHolds, PTL DEF Spec

\* A session that syncs from cursor to cursor misses nothing of its project, for any
\* event_limit and any other writers (Board.sync).
THEOREM FollowersMissNothing == Spec => []NoEventMissed
<1>1. Init => NoEventMissed
  BY DEF Init, NoEventMissed
<1>2. ASSUME Safe, Safe', EventsTellStatus, NoEventMissed, [Next]_vars PROVE NoEventMissed'
  <2>1. CASE \E limit \in 1..MaxLimit : Sync(limit)
    BY <1>2, <2>1, SyncMissesNothing
  <2>2. CASE UNCHANGED reader
    BY <1>2, <2>2, StepTells, LongerLog DEF LogGrows
  <2>3. (\E limit \in 1..MaxLimit : Sync(limit)) \/ UNCHANGED reader
    BY <1>2 DEF Next, RunEnds, Age, Archive, Claim, Attach, WebSpawn, Update, Note, SetStatus,
                Cleanup, Reap, Close, WebRead, WebWrite, ReadAll, vars, reader
  <2> QED
    BY <2>1, <2>2, <2>3
<1> QED
  BY <1>1, <1>2, SafeHolds, LogTellsStatus, PTL DEF Spec

\* What RowsSurvive asks of a step, for one task.
Survives(t) ==
  \/ /\ row'[t].owner = row[t].owner
     /\ \A i \in DOMAIN row[t].runs : i \in DOMAIN row'[t].runs /\ row'[t].runs[i] = row[t].runs[i]
     /\ row[t].status \in Terminal /\ row'[t].status # row[t].status
          => log'[Len(log')].by = "dashboard"
  \/ log' # log /\ log'[Len(log')].by = "archive"

\* The dashboard's row has no runs before it writes one.
LEMMA WebWriteAdds == ASSUME Safe, WebWrite, NEW t \in Tasks, row[t] # None PROVE Survives(t)
<1>1. /\ row \in [Tasks -> Row \cup {None}] /\ web # None /\ web[1] \in Tasks
      /\ row[web[1]].runs = <<>> /\ row[web[1]] \in Row /\ web[3] = row[web[1]]
  BY DEF Safe, TypeOK, Pending, WebWrite
<1>2. CASE row' = row
  BY <1>2 DEF Survives
<1>3. CASE row' = [row EXCEPT ![web[1]] = [web[3] EXCEPT !.runs = <<web[2]>>]]
  <2>1. CASE t = web[1]
    <3>1. row'[t].owner = row[t].owner /\ row'[t].status = row[t].status
      BY <1>1, <1>3, <2>1 DEF Row
    <3>2. DOMAIN row[t].runs = {}
      BY <1>1, <2>1
    <3> QED
      BY <3>1, <3>2 DEF Survives
  <2>2. CASE t # web[1]
    BY <1>1, <1>3, <2>2 DEF Survives
  <2> QED
    BY <2>1, <2>2
<1> QED
  BY <1>2, <1>3 DEF WebWrite

LEMMA AttachAdds ==
  ASSUME Safe, NEW u \in Tasks, NEW r \in Runs, Attach(u, r), NEW t \in Tasks, row[t] # None
  PROVE  Survives(t)
<1>1. /\ row'[u].owner = row[u].owner /\ row'[u].status = row[u].status
      /\ row'[u].runs = Append(row[u].runs, r)
      /\ \A x \in Tasks \ {u} : row'[x] = row[x]
  BY OneAttached DEF Safe
<1>2. CASE t = u
  <2>1. row[u].runs \in Seq(Runs)
    BY <1>2 DEF Safe, TypeOK, Row
  <2> DEFINE runs == row[u].runs
  <2>2. \A i \in DOMAIN runs : i \in DOMAIN Append(runs, r) /\ Append(runs, r)[i] = runs[i]
    BY <2>1
  <2> QED
    BY <1>1, <1>2, <2>2 DEF Survives
<1>3. CASE t # u
  BY <1>1, <1>3 DEF Survives
<1> QED
  BY <1>2, <1>3

LEMMA CloseKeeps ==
  ASSUME Safe, NEW chosen \in SUBSET Tasks, \A t \in chosen : row[t] # None,
         NEW status \in Statuses, Close(chosen, status), NEW t \in Tasks, row[t] # None
  PROVE  Survives(t)
<1>1. /\ \A x \in chosen : Edited(x)
      /\ \A x \in Tasks \ chosen : row'[x] = row[x]
  BY ManyEdited DEF Safe
<1>2. log'[Len(log')].by = "dashboard"
  <2>1. /\ Len(log) < Len(log') /\ Len(log) \in Nat /\ log' \in Seq(Event)
        /\ \A i \in Len(log) + 1..Len(log') :
              \E x \in chosen : log'[i] = Changed(x, "dashboard", status)
    BY Closed DEF Safe, TypeOK
  <2>2. Len(log') \in Len(log) + 1..Len(log')
    BY <2>1
  <2> QED
    BY <2>1, <2>2, EventIs
<1> QED
  BY <1>1, <1>2 DEF Survives, Edited

LEMMA StatusKeeps ==
  ASSUME Safe, NEW u \in Tasks, NEW status \in Statuses, NEW t \in Tasks, row[t] # None,
         SetStatus(u, status) \/ \E s \in Sessions : Update(s, u, status)
  PROVE  Survives(t)
<1>1. /\ row[u] # None /\ Len(log) < MaxEvents /\ log \in Seq(Event)
      /\ row' = [row EXCEPT ![u].status = status, ![u].age = 0]
  BY DEF Update, SetStatus, Open, Safe, TypeOK
<1>2. Edited(u) /\ \A x \in Tasks \ {u} : row'[x] = row[x]
  BY <1>1, OneEdited DEF Safe
<1>3. CASE SetStatus(u, status)
  <2>1. log' = Append(log, Changed(u, "dashboard", status))
    BY <1>3 DEF SetStatus
  <2>2. log'[Len(log')].by = "dashboard"
    BY <1>1, <2>1, EventIs, Appended
  <2> QED
    BY <1>2, <2>2 DEF Survives, Edited
<1>4. CASE \E s \in Sessions : Update(s, u, status)
  <2>1. row[u].status \notin Terminal
    BY <1>4 DEF Update, Open
  <2> QED
    BY <1>2, <2>1 DEF Survives, Edited
<1> QED
  BY <1>3, <1>4

LEMMA StepKeeps == ASSUME Safe, Next, NEW t \in Tasks, row[t] # None PROVE Survives(t)
<1>1. CASE row' = row
  BY <1>1 DEF Survives
<1>2. ASSUME NEW u \in Tasks, Age(u) PROVE Survives(t)
  BY <1>2, OneAged DEF Survives, Edited, Safe
<1>3. ASSUME NEW u \in Tasks, Archive(u) PROVE Survives(t)
  <2>1. log' = Append(log, Changed(u, "archive", "done")) /\ Len(log) < MaxEvents /\ log \in Seq(Event)
    BY <1>3 DEF Archive, Safe, TypeOK
  <2>2. log'[Len(log')].by = "archive" /\ Len(log') = Len(log) + 1
    BY <2>1, EventIs, StatusesAre, Appended
  <2>3. log' # log
    BY <2>1, <2>2
  <2> QED
    BY <2>2, <2>3 DEF Survives
<1>4. ASSUME NEW u \in Tasks,
             (\E s \in Sessions : Claim(s, u)) \/ \E r \in Runs : WebSpawn(u, r)
      PROVE  Survives(t)
  <2>1. row[u] = None /\ \A x \in Tasks \ {u} : row'[x] = row[x]
    BY <1>4 DEF Claim, WebSpawn, Safe, TypeOK
  <2> QED
    BY <2>1 DEF Survives
<1>5. CASE Reap \/ \E status \in Terminal : Cleanup(status)
  BY <1>5, ReapCloses, CleanupCloses, CloseKeeps, StatusesAre DEF Terminal
<1>6. ASSUME NEW u \in Tasks, NEW status \in Statuses,
             SetStatus(u, status) \/ \E s \in Sessions : Update(s, u, status)
      PROVE  Survives(t)
  BY <1>6, StatusKeeps
<1>7. ASSUME NEW u \in Tasks, NEW r \in Runs, Attach(u, r) PROVE Survives(t)
  BY <1>7, AttachAdds
<1>8. CASE WebWrite
  BY <1>8, WebWriteAdds
<1>9. \/ row' = row
      \/ \E u \in Tasks : Age(u) \/ Archive(u)
      \/ \E u \in Tasks, s \in Sessions : Claim(s, u)
      \/ \E u \in Tasks, r \in Runs : WebSpawn(u, r) \/ Attach(u, r)
      \/ Reap \/ WebWrite \/ \E status \in Terminal : Cleanup(status)
      \/ \E u \in Tasks, status \in Statuses :
           SetStatus(u, status) \/ \E s \in Sessions : Update(s, u, status)
  BY DEF Next, RunEnds, Note, Sync, WebRead, ReadAll
<1> QED
  <2>1. CASE \E u \in Tasks : Age(u) \/ Archive(u)
    BY <1>2, <1>3, <2>1
  <2>2. CASE \E u \in Tasks, s \in Sessions : Claim(s, u)
    BY <1>4, <2>2
  <2>3. CASE \E u \in Tasks, r \in Runs : WebSpawn(u, r) \/ Attach(u, r)
    BY <1>4, <1>7, <2>3
  <2>4. CASE \E u \in Tasks, status \in Statuses :
               SetStatus(u, status) \/ \E s \in Sessions : Update(s, u, status)
    BY <1>6, <2>4
  <2> QED
    BY <1>1, <1>5, <1>8, <1>9, <2>1, <2>2, <2>3, <2>4

\* Of all who write the board only archive_stale_sessions.py takes anything back: an owner,
\* an attached run, or the end of a task that the dashboard's user does not reopen.
THEOREM OnlyTheScriptTakesBack == Spec => RowsSurvive
<1>1. ASSUME Safe, [Next]_vars
      PROVE  [\A t \in Tasks : row[t] # None => Survives(t)]_vars
  BY <1>1, StepKeeps
<1>2. ASSUME Safe, [Next]_vars
      PROVE  [\A t \in Tasks : row[t] # None =>
       \/ /\ row'[t].owner = row[t].owner
          /\ \A i \in DOMAIN row[t].runs : i \in DOMAIN row'[t].runs /\ row'[t].runs[i] = row[t].runs[i]
          /\ row[t].status \in Terminal /\ row'[t].status # row[t].status
               => log'[Len(log')].by = "dashboard"
       \/ log' # log /\ log'[Len(log')].by = "archive"]_vars
  BY <1>1, <1>2 DEF Survives
<1> QED
  BY <1>2, SafeHolds, PTL DEF Spec, RowsSurvive

=============================================================================
