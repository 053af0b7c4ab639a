-------------------------- MODULE NativeSpawnProofs --------------------------
(***************************************************************************)
(* Proofs about NativeSpawn and Dossier.                                   *)
(***************************************************************************)
EXTENDS NativeSpawn, FiniteSetTheorems, TLAPS

(* The dossier. *)

LEMMA Lengths ==
  /\ ReportMax \in Nat /\ Extra \in Nat /\ IndexMax \in Nat /\ Reserve \in Nat
  /\ MoreNote \in Nat /\ Header \in Nat /\ Frame \in Nat /\ Notice \in Nat
  /\ Separator \in Nat /\ CutNote \in Nat /\ Footer \in Nat /\ MaxText \in Nat
BY LengthAssumption

\* What is returned of a dossier leaves room for the separator and for the note of a
\* cut message.
LEMMA ReportLeavesRoom ==
  ASSUME NEW length \in Nat, NEW headings \in Nat, NEW more \in BOOLEAN
  PROVE  /\ Report(length, headings, more) \in Nat
         /\ Report(length, headings, more) + Separator + CutNote <= ResultMax
<1> USE Lengths, RoomAssumption DEF ResultMax
<1> DEFINE index == Index(headings, more)
<1>1. index \in Nat /\ index <= IndexMax + MoreNote
  BY DEF Index, Least
<1>2. CASE length = 0
  BY <1>2 DEF Report
<1>3. CASE length # 0 /\ length <= ReportMax
  BY <1>3 DEF Report
<1>4. CASE length # 0 /\ ~(length <= ReportMax)
  <2> HIDE DEF index
  <2>1. HeadLen(index) \in Nat
    BY <1>1 DEF HeadLen, Left
  <2>2. Frame + HeadLen(index) + index <= Frame + ReportMax + MoreNote
    BY <1>1 DEF HeadLen, Left
  <2>3. Report(length, headings, more) = Frame + HeadLen(index) + index
    BY <1>4 DEF Report, index
  <2> QED
    BY <1>1, <2>1, <2>2, <2>3
<1> QED
  BY <1>2, <1>3, <1>4

\* The end of the final message fits what the report leaves.
LEMMA MessageFits ==
  ASSUME NEW report \in Nat, NEW body \in Nat, report + Separator + CutNote <= ResultMax
  PROVE  /\ WithReport(report, body) <= ResultMax
         /\ Result(report, body) <= ResultMax + Footer
<1> USE Lengths DEF ResultMax
<1> DEFINE room == Left(ResultMax, report + Separator)
<1>1. room \in Nat /\ CutNote <= room /\ report + Separator + room = ResultMax
  BY DEF Left
<1>2. Message(report, body) <= room /\ Message(report, body) \in Nat
  <2> HIDE DEF room
  <2>1. CASE body <= room
    BY <1>1, <2>1 DEF Message, room
  <2>2. CASE ~(body <= room)
    <3>1. Message(report, body) = CutNote + Least(body, Left(room, CutNote))
      BY <2>2 DEF Message, room
    <3>2. Left(room, CutNote) = room - CutNote /\ room - CutNote \in Nat
      BY <1>1 DEF Left
    <3> QED
      BY <1>1, <3>1, <3>2 DEF Least
  <2> QED
    BY <2>1, <2>2
<1> HIDE DEF room
<1> QED
  BY <1>1, <1>2 DEF Result, WithReport

\* Dossier and final message are within DEEP_RESULT_MAX_CHARS, whatever the lengths of the
\* dossier, of its headings and of the final message, and wherever the limits are set
\* (_deep_report, _with_deep_report); the answer is longer by its footer and by nothing else.
THEOREM EveryResultFits ==
  ASSUME NEW length \in Nat, NEW headings \in Nat, NEW body \in Nat, NEW more \in BOOLEAN
  PROVE  LET report == Report(length, headings, more)
         IN  /\ WithReport(report, body) <= ResultMax
             /\ Result(report, body) <= ResultMax + Footer
BY ReportLeavesRoom, MessageFits

-----------------------------------------------------------------------------
(* The invariant. *)

Agent == [by : Callers, request : Requests, token : Runs \cup {None}, tools : SUBSET Tools, at : Nat]

AnEntry == [run : Runs, role : {"worker", "architect", None}, parent : Runs \cup {"supervisor"},
            token : Runs \cup {None}, at : Nat, report : BOOLEAN]

\* Who is in a position to spawn at all.
Spawner(c) == c \in Sessions \/ (c \in DOMAIN native /\ Role(native[c].request) = "architect")

\* An agent is what its request makes of it, and its launcher could spawn.
Sound(r) ==
  /\ native[r] \in Agent
  /\ native[r].tools = Callable(native[r].request)
  /\ Role(native[r].request) = "architect" => native[r].token = r
  /\ Spawner(native[r].by)

Agents == DOMAIN native \subseteq Runs /\ \A r \in DOMAIN native : Sound(r)

\* An entry is true of its run; one without a role is a deep run's, and bare.
Good(e) ==
  /\ e \in AnEntry
  /\ e.run \in DOMAIN native
  /\ e.role \in {None, Role(native[e.run].request)}
  /\ e.parent \in {"supervisor", native[e.run].by}
  /\ e.token \in {None, e.run}
  /\ e.report => native[e.run].request.tool \in DeepTools
  /\ e.role = None => native[e.run].request.tool \in DeepTools

Steps == {"idle", "launch", "stamp", "load", "open", "write", "replace", "cap", "save cap", "report"}

Fields == {"at", "request", "run", "entry", "seen", "fd"}

\* A call under way is a spawner's, for a run it launched, and what it carries between two
\* accesses to a file is true.
Carries(c) ==
  /\ DOMAIN call[c] = Fields
  /\ call[c].at \in Steps
  /\ call[c].at # "idle" => call[c].request \in Requests /\ Spawner(c)
  /\ call[c].at \notin {"idle", "launch"} =>
       /\ call[c].run \in DOMAIN native
       /\ native[call[c].run].by = c
       /\ native[call[c].run].request = call[c].request
  /\ call[c].at \in {"load", "open"} => Good(call[c].entry)
  /\ call[c].at \in {"open", "write"} => \A e \in call[c].seen : Good(e)
  /\ call[c].at = "report" => call[c].request.tool \in DeepTools

Callings == DOMAIN call = Callers /\ \A c \in Callers : Carries(c)

Files == (\A e \in runs.entries : Good(e)) /\ (\A e \in tmp.entries : Good(e))

Lineage == Agents /\ Callings /\ Files

-----------------------------------------------------------------------------

LEMMA RoleHolds == \A q : Role(q) \in {"worker", "architect"}
BY DEF Role

\* A worker's tools hold nothing that spawns.
LEMMA WorkersCannotSpawn ==
  ASSUME NEW q \in Requests, Role(q) # "architect", NEW tool \in ServerTools
  PROVE  tool \notin Callable(q)
BY DEF Callable, Denied, Recursive

LEMMA CallableIsTools == \A q \in Requests : Callable(q) \in SUBSET Tools
BY RequestAssumption DEF Callable, Schema, Request, Tools

LEMMA OnlySpawnersCall ==
  ASSUME Agents, NEW c \in Callers, NEW q \in Requests, MayCall(c, q.tool)
  PROVE  Spawner(c)
<1>1. q.tool \in ServerTools
  BY RequestAssumption DEF Request, ServerTools
<1>2. CASE c \in Sessions
  BY <1>2 DEF Spawner
<1>3. CASE c \in DOMAIN native /\ q.tool \in native[c].tools
  <2>1. native[c].request \in Requests /\ native[c].tools = Callable(native[c].request)
    BY <1>3 DEF Agents, Sound, Agent
  <2> QED
    BY <1>1, <1>3, <2>1, WorkersCannotSpawn DEF Spawner
<1> QED
  BY <1>2, <1>3 DEF MayCall

LEMMA NowIsNat == Agents => Now \in Nat /\ Now > 0
<1> SUFFICES ASSUME Agents PROVE Now \in Nat /\ Now > 0
  OBVIOUS
<1> DEFINE stamped == {r \in DOMAIN native : native[r].at > 0}
<1>1. stamped \subseteq Runs
  BY DEF Agents
<1>2. Cardinality(stamped) \in Nat
  BY <1>1, KeepAssumption, FS_Subset, FS_CardinalityType
<1> QED
  BY <1>2 DEF Now

\* The agents there are keep what matters of them.
Grows ==
  \A r \in DOMAIN native :
    /\ r \in DOMAIN native'
    /\ native'[r].by = native[r].by
    /\ native'[r].request = native[r].request

LEMMA GoodStays == ASSUME Grows, NEW e, Good(e) PROVE Good(e)'
BY DEF Grows, Good

LEMMA SpawnersStay == ASSUME Grows, NEW c, Spawner(c) PROVE Spawner(c)'
BY DEF Grows, Spawner

\* What an action leaves alone stays true as the agents grow.
LEMMA BystanderCarries ==
  ASSUME Grows, NEW d \in Callers, Carries(d), call'[d] = call[d]
  PROVE  Carries(d)'
<1>1. Good(call[d].entry) => Good(call[d].entry)'
  BY GoodStays
<1>2. \A e : Good(e) => Good(e)'
  BY GoodStays
<1>3. Spawner(d) => Spawner(d)'
  BY SpawnersStay
<1> QED
  BY <1>1, <1>2, <1>3 DEF Carries, Grows

LEMMA FilesStay == ASSUME Grows, Files, runs' = runs, tmp' = tmp PROVE Files'
<1>1. \A e : Good(e) => Good(e)'
  BY GoodStays
<1> QED
  BY <1>1 DEF Files

LEMMA NothingGrows == ASSUME native' = native PROVE Grows /\ (Agents => Agents')
BY DEF Grows, Agents, Sound, Spawner

\* One call moves, the agents and the files do not.
LEMMA CallMoves ==
  ASSUME Lineage, NEW c \in Callers, NEW s, Go(c, s), UNCHANGED <<native, runs, tmp>>, Carries(c)'
  PROVE  Lineage'
<1>1. Grows /\ Agents'
  BY NothingGrows DEF Lineage
<1>2. Files'
  BY <1>1, FilesStay DEF Lineage
<1>3. ASSUME NEW d \in Callers PROVE Carries(d)'
  BY <1>1, <1>3, BystanderCarries DEF Lineage, Callings, Go
<1>4. DOMAIN call' = Callers
  BY DEF Go, Lineage, Callings
<1> QED
  BY <1>1, <1>2, <1>3, <1>4 DEF Lineage, Callings

\* A call that ends carries nothing.
LEMMA IdleCarries ==
  ASSUME NEW c \in Callers, Go(c, Idle), DOMAIN call = Callers
  PROVE  Carries(c)'
BY DEF Go, Idle, Carries, Steps, Fields

LEMMA BirthIsSound ==
  ASSUME Lineage, NEW c \in Callers, call[c].at = "launch", NEW r \in Runs, Born(c, r)
  PROVE  /\ Grows /\ Agents'
         /\ r \in DOMAIN native' /\ native'[r].by = c /\ native'[r].request = call[c].request
<1> DEFINE q == call[c].request
           agent == [by |-> c, request |-> q, token |-> Token(c, q, r), tools |-> Callable(q), at |-> 0]
<1>1. q \in Requests /\ Spawner(c)
  BY DEF Lineage, Callings, Carries
<1>2. r \notin DOMAIN native /\ DOMAIN native' = DOMAIN native \cup {r}
  BY DEF Born
<1>3. native'[r] = agent /\ \A x \in DOMAIN native : native'[x] = native[x]
  BY <1>2 DEF Born
<1>4. Grows
  BY <1>2, <1>3 DEF Grows
<1>5. TokenOf(c) \in Runs \cup {None}
  BY <1>1 DEF TokenOf, Spawner, Lineage, Agents, Sound, Agent
<1>6. agent \in Agent
  BY <1>1, <1>5, CallableIsTools DEF Agent, Token
<1>7. Spawner(c)'
  BY <1>1, <1>4, SpawnersStay
<1>8. Sound(r)'
  BY <1>3, <1>6, <1>7 DEF Sound, Token
<1>9. ASSUME NEW x \in DOMAIN native PROVE Sound(x)'
  BY <1>3, <1>4, SpawnersStay DEF Sound, Lineage, Agents
<1> QED
  BY <1>2, <1>3, <1>4, <1>8, <1>9 DEF Agents, Lineage

-----------------------------------------------------------------------------
(* The steps. *)

\* The entry a server writes of a run it launched: the parent it looks up is the run's
\* launcher, or unknown.
LEMMA FullIsGood ==
  ASSUME Lineage, NEW c \in Callers, call[c].at = "stamp"
  PROVE  Good(Full(c, call[c].run))
<1> DEFINE r == call[c].run
<1>1. /\ Spawner(c) /\ r \in DOMAIN native /\ native[r].by = c
      /\ r \in Runs /\ native[r].request \in Requests
  BY DEF Lineage, Callings, Carries, Agents, Sound, Agent
<1>2. TokenOf(c) = IF c \in Sessions THEN None ELSE c
  BY <1>1, NameAssumption DEF TokenOf, Spawner, Lineage, Agents, Sound
<1>3. c \in Sessions \/ c \in Runs
  BY DEF Callers
<1>4. \A e \in runs.entries : e.token \in {None, e.run}
  BY DEF Lineage, Files, Good
<1>5. ParentOf(TokenOf(c)) \in {"supervisor", c} /\ ParentOf(TokenOf(c)) \in Runs \cup {"supervisor"}
  BY <1>2, <1>3, <1>4 DEF ParentOf, Loaded
<1>6. Now \in Nat
  BY NowIsNat DEF Lineage
<1>7. Role(native[r].request) \in {"worker", "architect"} /\ Role(native[r].request) # None
  BY RoleHolds, NameAssumption
<1> HIDE DEF r
<1> QED
  BY <1>1, <1>5, <1>6, <1>7 DEF Full, Good, AnEntry, r

LEMMA ReportedIsGood ==
  ASSUME Lineage, NEW c \in Callers, call[c].at = "report"
  PROVE  Good(Reported(call[c].run))
<1> DEFINE r == call[c].run
           found == {e \in Loaded(runs) : e.run = r}
<1>1. r \in DOMAIN native /\ r \in Runs /\ native[r].request.tool \in DeepTools
  BY DEF Lineage, Callings, Carries, Agents
<1>2. Good(Bare(r)) /\ Bare(r).run = r
  BY <1>1 DEF Bare, Good, AnEntry
<1>3. \A e \in found : Good(e) /\ e.run = r
  BY DEF Lineage, Files, Loaded
<1>4. PICK e : Good(e) /\ e.run = r /\ Reported(r) = [e EXCEPT !.report = TRUE]
  <2>1. CASE found = {}
    BY <1>2, <2>1 DEF Reported
  <2>2. CASE found # {}
    BY <1>3, <2>2 DEF Reported
  <2> QED
    BY <2>1, <2>2
<1>5. e \in AnEntry
  BY <1>4 DEF Good
<1>6. LET f == [e EXCEPT !.report = TRUE]
      IN  /\ f \in AnEntry /\ f.run = e.run /\ f.role = e.role
          /\ f.parent = e.parent /\ f.token = e.token
  BY <1>5 DEF AnEntry
<1> QED
  BY <1>1, <1>4, <1>6 DEF Good

LEMMA SpawnStep ==
  ASSUME Lineage, NEW c \in Callers,
         \/ \E q \in Requests : Ask(c, q)
         \/ \E r \in Runs : Launch(c, r)
         \/ LaunchFails(c) \/ Stamp(c) \/ Reread(c)
  PROVE  Lineage'
<1> USE DEF Fields, Steps
<1>0. /\ DOMAIN call = Callers /\ Carries(c) /\ DOMAIN call[c] = Fields
      /\ Agents /\ Files
  BY DEF Lineage, Callings, Carries
<1>1. ASSUME NEW q \in Requests, Ask(c, q) PROVE Lineage'
  <2>1. Spawner(c)
    BY <1>0, <1>1, OnlySpawnersCall DEF Ask
  <2>2. Carries(c)'
    BY <1>0, <1>1, <2>1 DEF Ask, Go, Idle, Carries, Spawner
  <2> QED
    BY <1>1, <2>2, CallMoves DEF Ask
<1>2. ASSUME NEW r \in Runs, Launch(c, r) PROVE Lineage'
  <2>1. /\ Grows /\ Agents'
        /\ r \in DOMAIN native' /\ native'[r].by = c /\ native'[r].request = call[c].request
    BY <1>2, BirthIsSound DEF Launch
  <2>2. Carries(c)'
    BY <1>0, <1>2, <2>1, SpawnersStay DEF Launch, Go, Carries
  <2>3. ASSUME NEW d \in Callers \ {c} PROVE Carries(d)'
    BY <1>2, <2>1, BystanderCarries DEF Launch, Go, Lineage, Callings
  <2>4. Files' /\ DOMAIN call' = Callers
    BY <1>0, <1>2, <2>1, FilesStay DEF Launch, Go
  <2> QED
    BY <2>1, <2>2, <2>3, <2>4 DEF Lineage, Callings
<1>3. CASE LaunchFails(c)
  <2>1. Grows /\ Agents'
    BY <1>0, <1>3, BirthIsSound, NothingGrows DEF LaunchFails
  <2>2. Carries(c)'
    BY <1>0, <1>3, IdleCarries DEF LaunchFails
  <2>3. ASSUME NEW d \in Callers \ {c} PROVE Carries(d)'
    BY <1>3, <2>1, BystanderCarries DEF LaunchFails, Go, Lineage, Callings
  <2>4. Files' /\ DOMAIN call' = Callers
    BY <1>0, <1>3, <2>1, FilesStay DEF LaunchFails, Go
  <2> QED
    BY <2>1, <2>2, <2>3, <2>4 DEF Lineage, Callings
<1>4. CASE Stamp(c)
  <2> DEFINE r == call[c].run
  <2>1. r \in DOMAIN native /\ native[r] \in Agent
    BY <1>4 DEF Stamp, Lineage, Callings, Carries, Agents, Sound
  <2>2. Now \in Nat
    BY <1>0, NowIsNat
  <2>3. /\ DOMAIN native' = DOMAIN native
        /\ \A x \in DOMAIN native \ {r} : native'[x] = native[x]
        /\ native'[r] = [native[r] EXCEPT !.at = Now]
    BY <1>4, <2>1 DEF Stamp
  <2>4. /\ native'[r] \in Agent /\ native'[r].by = native[r].by
        /\ native'[r].request = native[r].request
        /\ native'[r].token = native[r].token /\ native'[r].tools = native[r].tools
    BY <2>1, <2>2, <2>3 DEF Agent
  <2>5. Grows
    BY <2>3, <2>4 DEF Grows
  <2>6. Agents'
    <3>1. ASSUME NEW x \in DOMAIN native PROVE Sound(x)'
      <4>1. /\ native[x] \in Agent /\ native[x].tools = Callable(native[x].request)
            /\ Role(native[x].request) = "architect" => native[x].token = x
            /\ Spawner(native[x].by)
        BY <1>0 DEF Agents, Sound
      <4>2. Spawner(native[x].by)'
        <5>1. native'[x].by = native[x].by
          BY <2>5 DEF Grows
        <5>2. PICK y : y = native[x].by
          OBVIOUS
        <5>3. Spawner(y)'
          BY <2>5, <4>1, <5>2, SpawnersStay
        <5> QED
          BY <5>1, <5>2, <5>3
      <4> QED
        BY <2>3, <2>4, <4>1, <4>2 DEF Sound
    <3> QED
      BY <1>0, <2>3, <3>1 DEF Agents
  <2>7. PICK e : e = Full(c, r) /\ Good(e) /\ Good(e)'
    BY <1>4, <2>5, FullIsGood, GoodStays DEF Stamp
  <2>8. Carries(c)'
    <3>1. call'[c] = [call[c] EXCEPT !.at = "load", !.entry = e]
      BY <1>0, <1>4, <2>7 DEF Stamp, Go
    <3>2. /\ call[c].request \in Requests /\ Spawner(c)'
          /\ native[r].by = c /\ native[r].request = call[c].request
      BY <1>0, <1>4, <2>5, SpawnersStay DEF Stamp, Carries
    <3> QED
      BY <1>0, <2>1, <2>3, <2>4, <2>7, <3>1, <3>2 DEF Carries
  <2>9. ASSUME NEW d \in Callers \ {c} PROVE Carries(d)'
    BY <1>4, <2>5, BystanderCarries DEF Stamp, Go, Lineage, Callings
  <2>10. Files' /\ DOMAIN call' = Callers
    BY <1>0, <1>4, <2>5, FilesStay DEF Stamp, Go
  <2> QED
    BY <2>6, <2>8, <2>9, <2>10 DEF Lineage, Callings
<1>5. CASE Reread(c)
  <2>1. PICK e : e = Reported(call[c].run) /\ Good(e)
    BY <1>5, ReportedIsGood DEF Reread
  <2>2. call'[c] = [call[c] EXCEPT !.at = "load", !.entry = e] /\ native' = native
    BY <1>0, <1>5, <2>1 DEF Reread, Go
  <2>3. Good(e)' /\ (Spawner(c) => Spawner(c)')
    BY <2>1, <2>2, NothingGrows, GoodStays, SpawnersStay
  <2>4. Carries(c)'
    BY <1>0, <1>5, <2>2, <2>3 DEF Reread, Carries
  <2> QED
    BY <1>5, <2>4, CallMoves DEF Reread
<1> QED
  BY <1>1, <1>2, <1>3, <1>4, <1>5

\* What one access to a file leaves of the calls, when the agents stay: the caller's
\* record and, of the others, where their open file has gone.
LEMMA AccessKeepsCalls ==
  ASSUME Lineage, NEW c \in Callers, native' = native, DOMAIN call' = Callers, Carries(c)',
         \A d \in Callers \ {c} :
           \/ call'[d] = call[d]
           \/ \E fd : call'[d] = [call[d] EXCEPT !.fd = fd],
         \A e \in runs'.entries : Good(e), \A e \in tmp'.entries : Good(e)
  PROVE  Lineage'
<1>1. Grows /\ Agents'
  BY NothingGrows DEF Lineage
<1>2. Files'
  BY <1>1, GoodStays DEF Files
<1>3. ASSUME NEW d \in Callers \ {c} PROVE Carries(d)'
  <2>1. CASE call'[d] = call[d]
    BY <1>1, <2>1, BystanderCarries DEF Lineage, Callings
  <2>2. ASSUME NEW fd, call'[d] = [call[d] EXCEPT !.fd = fd] PROVE Carries(d)'
    <3>1. Carries(d) /\ DOMAIN call[d] = Fields
      BY DEF Lineage, Callings, Carries
    <3>2. DOMAIN call'[d] = Fields /\ \A f \in Fields \ {"fd"} : call'[d][f] = call[d][f]
      BY <2>2, <3>1
    <3>3. /\ call'[d].at = call[d].at /\ call'[d].request = call[d].request
          /\ call'[d].run = call[d].run /\ call'[d].entry = call[d].entry
          /\ call'[d].seen = call[d].seen
      BY <3>2 DEF Fields
    <3>4. \A e : Good(e) => Good(e)'
      BY <1>1, GoodStays
    <3>5. Spawner(d) => Spawner(d)'
      BY <1>1, SpawnersStay
    <3> QED
      BY <3>1, <3>2, <3>3, <3>4, <3>5 DEF Carries
  <2> QED
    BY <2>1, <2>2
<1> QED
  BY <1>1, <1>2, <1>3 DEF Lineage, Callings

LEMMA FileStep ==
  ASSUME Lineage, NEW c \in Callers,
         Load(c) \/ Open(c) \/ Write(c) \/ Replace(c) \/ LoadCaps(c) \/ SaveCaps(c) \/ Die(c)
  PROVE  Lineage'
<1> USE DEF Fields, Steps
<1>0. /\ DOMAIN call = Callers /\ Carries(c) /\ DOMAIN call[c] = Fields /\ Agents /\ Files
      /\ \A e \in runs.entries : Good(e)
      /\ \A e \in tmp.entries : Good(e)
  BY DEF Lineage, Callings, Carries, Files
<1>1. native' = native
  BY DEF Load, Open, Write, Replace, LoadCaps, SaveCaps, Die
<1>2. (\A e : Good(e) => Good(e)') /\ (Spawner(c) => Spawner(c)')
  BY <1>1, NothingGrows, GoodStays, SpawnersStay
<1>3. CASE Load(c)
  <2>1. Carries(c)'
    BY <1>0, <1>1, <1>2, <1>3 DEF Load, Go, Carries, Loaded
  <2> QED
    BY <1>3, <2>1, CallMoves DEF Load
<1>4. CASE Open(c)
  <2>1. PICK k : /\ k \in SUBSET ({x \in call[c].seen : x.run # call[c].entry.run} \cup {call[c].entry})
                 /\ call' = [call EXCEPT ![c] = [call[c] EXCEPT !.at = "write", !.seen = k, !.fd = "tmp"]]
    BY <1>4 DEF Open, Newest, Go
  <2>2. \A e \in k : Good(e)
    BY <1>0, <1>4, <2>1 DEF Open, Carries
  <2>3. Carries(c)'
    BY <1>0, <1>1, <1>2, <1>4, <2>1, <2>2 DEF Open, Carries
  <2>4. runs' = runs /\ tmp'.entries = {}
    BY <1>4 DEF Open, Empty
  <2> QED
    BY <1>0, <1>1, <2>1, <2>3, <2>4, AccessKeepsCalls
<1>5. CASE Write(c)
  <2>1. Carries(c)'
    BY <1>0, <1>1, <1>2, <1>5 DEF Write, Go, Carries
  <2>2. \A e \in call[c].seen : Good(e)
    BY <1>0, <1>5 DEF Write, Carries
  <2>3. \A f, g : g \in Written(f, Json(call[c].seen)) => \A e \in g.entries : Good(e)
    BY <2>2 DEF Written, Json, Torn
  <2>4. (\A e \in tmp'.entries : Good(e)) /\ (\A e \in runs'.entries : Good(e))
    BY <1>0, <1>5, <2>3 DEF Write
  <2>5. DOMAIN call' = Callers /\ \A d \in Callers \ {c} : call'[d] = call[d]
    BY <1>0, <1>5 DEF Write, Go
  <2> QED
    BY <1>1, <2>1, <2>4, <2>5, AccessKeepsCalls
<1>6. CASE Replace(c)
  <2> DEFINE next == AfterReplace(call[c])
  <2>1. /\ DOMAIN call' = Callers /\ call'[c] = next
        /\ \A d \in Callers \ {c} :
             \/ call'[d] = call[d]
             \/ \E fd : call'[d] = [call[d] EXCEPT !.fd = fd]
    <3> HIDE DEF next
    <3> QED
      BY <1>0, <1>6 DEF Replace, Go, next
  <2>2. Carries(c)'
    <3>1. CASE next = Idle
      BY <2>1, <3>1 DEF Idle, Carries
    <3>2. CASE next = [call[c] EXCEPT !.at = "cap"]
      BY <1>0, <1>1, <1>2, <1>6, <2>1, <3>2 DEF Replace, Carries
    <3> QED
      BY <3>1, <3>2 DEF AfterReplace
  <2>3. (\A e \in tmp'.entries : Good(e)) /\ (\A e \in runs'.entries : Good(e))
    BY <1>0, <1>6 DEF Replace, Absent
  <2> QED
    BY <1>1, <2>1, <2>2, <2>3, AccessKeepsCalls
<1>7. CASE LoadCaps(c)
  <2>1. Carries(c)'
    BY <1>0, <1>1, <1>2, <1>7 DEF LoadCaps, Go, Carries
  <2> QED
    BY <1>7, <2>1, CallMoves DEF LoadCaps
<1>8. CASE SaveCaps(c)
  <2>1. CASE call[c].request.tool \in DeepTools
    <3>1. call'[c] = [call[c] EXCEPT !.at = "report", !.seen = {}]
      BY <1>0, <1>8, <2>1 DEF SaveCaps, Go
    <3> QED
      BY <1>0, <1>1, <1>2, <1>8, <2>1, <3>1, CallMoves DEF SaveCaps, Carries
  <2>2. CASE call[c].request.tool \notin DeepTools
    BY <1>0, <1>8, <2>2, IdleCarries, CallMoves DEF SaveCaps
  <2> QED
    BY <2>1, <2>2
<1>9. CASE Die(c)
  BY <1>0, <1>9, IdleCarries, CallMoves DEF Die
<1> QED
  BY <1>3, <1>4, <1>5, <1>6, <1>7, <1>8, <1>9

LEMMA InitLineage == Init => Lineage
<1> SUFFICES ASSUME Init PROVE Lineage
  OBVIOUS
<1>1. DOMAIN native = {} /\ runs.entries = {} /\ tmp.entries = {}
  BY DEF Init, Absent
<1>2. Agents /\ Files
  BY <1>1 DEF Agents, Files
<1>3. Callings
  BY DEF Init, Callings, Carries, Idle, Steps, Fields
<1> QED
  BY <1>2, <1>3 DEF Lineage

LEMMA StutterKeepsLineage == ASSUME Lineage, UNCHANGED vars PROVE Lineage'
BY DEF vars, Lineage, Agents, Sound, Spawner, Callings, Carries, Files, Good

\* The invariant behind the theorems: agents are what their requests make of them, and
\* what a call carries from one access to a file to the next stays true of its run.
THEOREM LineageHolds == Spec => []Lineage
<1>1. ASSUME Lineage, [Next]_vars PROVE Lineage'
  BY <1>1, SpawnStep, FileStep, StutterKeepsLineage DEF Next
<1> QED
  BY InitLineage, <1>1, PTL DEF Spec

-----------------------------------------------------------------------------
(* What follows from it. *)

\* runs.json never says of a run what is not so, however many servers rewrite it and
\* wherever they die (_record_provenance, _parent_run_id, _spawn_deep).
THEOREM EntriesAreTrue == Spec => []LineageIsTrue
<1>1. Lineage => LineageIsTrue
  BY DEF Lineage, Files, Good, LineageIsTrue, Launcher
<1> QED
  BY <1>1, LineageHolds, PTL

\* Only sessions and architects have spawned anything, whatever a caller allows, denies
\* or sets as the mode (the denylist of _spawn_local).
THEOREM WorkersSpawnNothing == Spec => []WorkersAreLeaves
<1>1. Lineage => WorkersAreLeaves
  BY NameAssumption DEF Lineage, Agents, Sound, Spawner, WorkersAreLeaves, Launcher
<1> QED
  BY <1>1, LineageHolds, PTL

\* An agent spawned as read-only has neither Edit nor Agent nor a mutating Serena tool, in any
\* mode and with either toolset (_spawn_native_agent's read-only branch).
THEOREM ReadOnlyRunsCannotWrite == Spec => []ReadOnlyHolds
<1>1. ASSUME NEW q \in Requests, IsReadOnly(q)
      PROVE  Callable(q) \cap {"Edit", "Agent", "serena"} = {}
  BY <1>1 DEF IsReadOnly, ReadOnlyTools, Callable, Schema, Denied, Mutating, Builtins, DelegationBlocked
<1>2. Lineage => ReadOnlyHolds
  BY <1>1 DEF Lineage, Agents, Sound, Agent, ReadOnlyHolds
<1> QED
  BY <1>2, LineageHolds, PTL

LEMMA DeepRunsAreWorkers ==
  ASSUME NEW q \in Requests, q.tool \in DeepTools
  PROVE  Role(q) = "worker"
<1>1. q = Deep(q.tool, q.cap)
  BY RequestAssumption
<1>2. Deep(q.tool, q.cap).profile = "think"
  BY DEF Deep
<1>3. q.profile = "think"
  BY <1>1, <1>2
<1>4. q.tool # "architect" /\ q.tool # "local"
  BY DEF DeepTools
<1> QED
  BY <1>3, <1>4 DEF Role

\* show_agent_tree shows every run on record: what hangs below a parent that is not an
\* architect cannot be, as only architects have tokens to be found by.
THEOREM EveryRunIsShown == Spec => []TreeHidesNothing
<1>1. ASSUME Lineage, NEW e \in runs.entries, e.role # "architect", NEW p \in runs.entries, e.parent = p.run
      PROVE  p.role = "architect"
  <2>1. /\ p.run \in Runs /\ p.run \in DOMAIN native
        /\ p.role \in {None, Role(native[p.run].request)}
        /\ p.role = None => native[p.run].request.tool \in DeepTools
    BY <1>1 DEF Lineage, Files, Good, AnEntry
  <2>2. e.run \in DOMAIN native /\ native[e.run].by = p.run
    BY <1>1, <2>1, NameAssumption DEF Lineage, Files, Good, Callers
  <2>3. Role(native[p.run].request) = "architect"
    BY <1>1, <2>1, <2>2, NameAssumption DEF Lineage, Agents, Sound, Spawner
  <2>4. native[p.run].request.tool \notin DeepTools
    <3>1. native[p.run].request \in Requests
      BY <1>1, <2>1 DEF Lineage, Agents, Sound, Agent
    <3>2. \A q \in Requests : q.tool \in DeepTools => Role(q) = "worker"
      BY DeepRunsAreWorkers
    <3> QED
      BY <2>3, <3>1, <3>2
  <2> QED
    BY <2>1, <2>3, <2>4
<1>2. Lineage => TreeHidesNothing
  <2> SUFFICES ASSUME Lineage PROVE Tree(runs.entries) = runs.entries
    BY DEF TreeHidesNothing, Loaded
  <2>1. ASSUME NEW e \in Children(runs.entries) PROVE e.parent \in Parents(Architects(runs.entries))
    <3>1. e \in runs.entries /\ e.role # "architect"
      BY DEF Children, Architects
    <3>2. PICK p \in runs.entries : e.parent = p.run
      BY DEF Children, Parents
    <3>3. p.role = "architect"
      BY <1>1, <2>1, <3>1, <3>2
    <3> QED
      BY <3>2, <3>3 DEF Parents, Architects
  <2>2. Children(runs.entries) \subseteq runs.entries /\ Architects(runs.entries) \subseteq runs.entries
    BY DEF Children, Architects
  <2> QED
    BY <2>1, <2>2 DEF Tree
<1> QED
  BY <1>2, LineageHolds, PTL

\* What is returned of a deep run is within the budget of one tool result, its footer aside.
THEOREM AnswersFit == Spec => []ResultFits
<1>1. ResultsFit
  <2>1. 0..MaxText \subseteq Nat
    BY Lengths
  <2> QED
    BY <2>1, EveryResultFits DEF ResultsFit
<1>2. ResultFits
  BY <1>1 DEF ResultFits
<1> QED
  BY <1>2, PTL

-----------------------------------------------------------------------------
(* What is returned is on record. *)

Stamped == {r \in DOMAIN native : native[r].at > 0}

Later(r) == {x \in DOMAIN native : native[x].at > native[r].at}

Shown(es, r, b) ==
  \E e \in es : /\ e.run = r /\ e.role = Role(native[r].request)
                /\ e.report = b /\ e.at = native[r].at

Kept(es, r, b) == Shown(es, r, b) \/ Cardinality(Later(r)) >= Keep

CapKept(r) == Cap(native[r].request) # None => <<r, Cap(native[r].request)>> \in caps

\* The runs that runs.json has to show, with a report or without: those returned, and those
\* between their first entry and the next.
Owed(r, b) ==
  \/ r \in told /\ b = (native[r].request.tool \in DeepTools)
  \/ b = FALSE /\ \E c \in Callers : call[c].run = r /\ call[c].at \in {"cap", "save cap", "report"}

\* One entry for each run, stamped as its run is, or not at all.
Ok(es) ==
  /\ IsFiniteSet(es)
  /\ \A e, f \in es : e.run = f.run => e = f
  /\ \A e \in es : e.run \in Stamped /\ e.at \in {0, native[e.run].at}

HasRun(c)   == call[c].at \notin {"idle", "launch"}
HasEntry(c) == call[c].at \in {"load", "open", "write", "replace"}

StampOf(c) ==
  /\ HasRun(c) => call[c].run \notin told /\ (call[c].run \in Stamped <=> call[c].at # "stamp")
  /\ call[c].at \in {"open", "write"} => Ok(call[c].seen)
  /\ HasEntry(c) => /\ call[c].entry.run = call[c].run /\ call[c].entry.report \in BOOLEAN
                    /\ call[c].entry.report => call[c].request.tool \in DeepTools
  /\ call[c].at \in {"load", "open"} => call[c].entry.at \in {0, native[call[c].run].at}

\* Stamps tell the runs apart.
Clock ==
  /\ \A r \in DOMAIN native : native[r].at \in 0..Cardinality(Stamped)
  /\ \A x, y \in Stamped : native[x].at = native[y].at => x = y

Stamps ==
  /\ Clock
  /\ told \subseteq Stamped
  /\ Ok(runs.entries) /\ Ok(tmp.entries)
  /\ \A c \in Callers : StampOf(c)

\* What c writes shows its own run and all others that are owed.
Holds(c, es) ==
  /\ Kept(es, call[c].run, call[c].entry.report)
  /\ \A r \in Runs \ {call[c].run}, b \in BOOLEAN : Owed(r, b) => Kept(es, r, b)

Loading(c) ==
  /\ call[c].at \in {"load", "open"} => Kept({call[c].entry}, call[c].run, call[c].entry.report)
  /\ call[c].at = "report" \/ (HasEntry(c) /\ call[c].entry.report) => CapKept(call[c].run)

Saving(c) ==
  /\ call[c].at = "open" => call[c].seen = runs.entries
  /\ call[c].at = "write" => call[c].fd = "tmp" /\ tmp = Empty /\ Holds(c, call[c].seen)
  /\ call[c].at = "replace" => tmp.is = "json" /\ Holds(c, tmp.entries)
  /\ call[c].at = "save cap" => call[c].seen = caps

\* While no two rewrites have overlapped, the one that is under way has all there is.
Tidy ==
  ~crossed =>
    /\ \A c, d \in Callers : Rewriting(c) /\ Rewriting(d) => c = d
    /\ \A r \in Runs, b \in BOOLEAN : Owed(r, b) => Kept(runs.entries, r, b)
    /\ \A r \in told : CapKept(r)
    /\ \A c \in Callers : Loading(c) /\ Saving(c)

Recording == Lineage /\ Stamps /\ Tidy

LEMMA FiniteRuns == \A s \in SUBSET Runs : IsFiniteSet(s) /\ Cardinality(s) \in Nat
BY KeepAssumption, FS_Subset, FS_CardinalityType

LEMMA StampedFinite ==
  ASSUME Agents
  PROVE  /\ IsFiniteSet(Stamped) /\ Cardinality(Stamped) \in Nat
         /\ \A r : IsFiniteSet(Later(r)) /\ Cardinality(Later(r)) \in Nat
<1>1. Stamped \in SUBSET Runs /\ \A r : Later(r) \in SUBSET Runs
  BY DEF Stamped, Later, Agents
<1> QED
  BY <1>1, FiniteRuns

\* What is shown of a run with a stamp is shown, or later runs have it replaced, as the
\* agents grow.
Ages ==
  /\ Grows
  /\ \A r \in Stamped : native'[r].at = native[r].at

LEMMA KeptStays ==
  ASSUME Agents, Agents', Stamps, Ages, NEW es, NEW r \in Stamped, NEW b, Kept(es, r, b)
  PROVE  Kept(es, r, b)'
<1>1. native'[r].at = native[r].at /\ native'[r].request = native[r].request /\ r \in DOMAIN native
  BY DEF Ages, Grows, Stamped
<1>2. CASE Shown(es, r, b)
  BY <1>1, <1>2 DEF Shown, Kept
<1>3. CASE Cardinality(Later(r)) >= Keep
  <2>1. \A x \in Later(r) : x \in Stamped
    BY StampedFinite DEF Later, Stamped, Stamps, Clock
  <2>2. Later(r) \in SUBSET Later(r)'
    BY <1>1, <2>1 DEF Later, Ages, Grows
  <2>3. IsFiniteSet(Later(r)') /\ Cardinality(Later(r)') \in Nat /\ Cardinality(Later(r)) \in Nat
    <3>1. Later(r)' \in SUBSET Runs
      BY DEF Later, Agents
    <3> QED
      BY <3>1, StampedFinite, FiniteRuns
  <2>4. Cardinality(Later(r)) <= Cardinality(Later(r)')
    BY <2>2, <2>3, FS_Subset
  <2> QED
    BY <1>3, <2>3, <2>4, KeepAssumption DEF Kept
<1> QED
  BY <1>2, <1>3 DEF Kept

LEMMA OkStays == ASSUME Ages, NEW es, Ok(es) PROVE Ok(es)'
BY DEF Ages, Grows, Ok, Stamped

LEMMA OkSubset == ASSUME NEW es, Ok(es), NEW k \in SUBSET es PROVE Ok(k)
<1>1. IsFiniteSet(k)
  BY FS_Subset DEF Ok
<1> QED
  BY <1>1 DEF Ok

\* A run's entry takes the place of the one it had.
LEMMA OkInsert ==
  ASSUME NEW es, Ok(es), NEW e, e.run \in Stamped, e.at \in {0, native[e.run].at}
  PROVE  Ok({x \in es : x.run # e.run} \cup {e})
<1>1. {x \in es : x.run # e.run} \in SUBSET es
  OBVIOUS
<1>2. IsFiniteSet({x \in es : x.run # e.run} \cup {e})
  BY <1>1, FS_Subset, FS_AddElement DEF Ok
<1> QED
  BY <1>2 DEF Ok

\* Cutting the file to its newest entries drops a run only for Keep later ones.
LEMMA CutKeeps ==
  ASSUME Agents, Stamps, NEW es, Ok(es), NEW k \in Newest(es), NEW r \in Stamped, NEW b, Shown(es, r, b)
  PROVE  Kept(k, r, b)
<1>1. PICK e \in es : /\ e.run = r /\ e.role = Role(native[r].request)
                      /\ e.report = b /\ e.at = native[r].at
  BY DEF Shown
<1>2. CASE e \in k
  BY <1>1, <1>2 DEF Kept, Shown
<1>3. CASE e \notin k
  <2>1. /\ k \in SUBSET es /\ Cardinality(k) = (IF Cardinality(es) <= Keep THEN Cardinality(es) ELSE Keep)
        /\ \A y \in k : e.at <= y.at
    BY <1>1, <1>3 DEF Newest
  <2>2. IsFiniteSet(es) /\ k # es
    BY <1>1, <1>3 DEF Ok
  <2>3. Cardinality(k) = Keep
    BY <2>1, <2>2, FS_Subset
  <2>4. ASSUME NEW y \in k PROVE y.run \in Later(r)
    <3>1. y \in es /\ y # e /\ e.at <= y.at
      BY <1>3, <2>1
    <3>2. y.run # r /\ y.run \in Stamped /\ y.at \in {0, native[y.run].at}
      BY <1>1, <3>1 DEF Ok
    <3>3. native[r].at > 0 /\ native[r].at \in Nat /\ native[y.run].at \in Nat /\ y.run \in DOMAIN native
      BY <3>2, StampedFinite DEF Stamped, Stamps, Clock
    <3>4. y.at = native[y.run].at /\ native[r].at <= native[y.run].at
      BY <1>1, <3>1, <3>2, <3>3
    <3>5. native[r].at # native[y.run].at
      BY <3>2 DEF Stamps, Clock
    <3> QED
      BY <3>3, <3>4, <3>5 DEF Later
  <2> DEFINE f == [y \in k |-> y.run]
  <2>5. f \in [k -> Later(r)]
    BY <2>4
  <2>6. \A x, y \in k : f[x] = f[y] => x = y
    BY <2>1 DEF Ok
  <2>7. f \in Injection(k, Later(r))
    BY <2>5, <2>6 DEF Injection, IsInjective
  <2>8. Cardinality(k) <= Cardinality(Later(r))
    BY <2>7, StampedFinite, FS_Injection
  <2> QED
    BY <2>3, <2>8, StampedFinite, KeepAssumption DEF Kept
<1> QED
  BY <1>2, <1>3

\* A deep run always has a cap.
LEMMA DeepRunsAreCapped ==
  ASSUME NEW q \in Requests, q.tool \in DeepTools
  PROVE  Cap(q) # None
<1>1. Role(q) = "worker"
  BY DeepRunsAreWorkers
<1>2. q.cap \in Nat \cup {None} /\ None \notin Nat
  BY RequestAssumption DEF Request
<1> QED
  BY <1>1, <1>2, CapAssumption DEF Cap

LEMMA OwedIsStamped ==
  ASSUME Recording, NEW r, NEW b, Owed(r, b)
  PROVE  r \in Stamped
BY DEF Recording, Stamps, StampOf, HasRun, Owed

SameCall(d) ==
  /\ call'[d].at = call[d].at /\ call'[d].run = call[d].run /\ call'[d].request = call[d].request
  /\ call'[d].entry = call[d].entry /\ call'[d].seen = call[d].seen

LEMMA BystanderStamp ==
  ASSUME Stamps, Ages, NEW d \in Callers, SameCall(d),
         HasRun(d) => /\ call[d].run \notin told'
                      /\ call[d].run \in Stamped' <=> call[d].run \in Stamped
  PROVE  StampOf(d)'
<1>1. StampOf(d)
  BY DEF Stamps
<1>2. \A es : Ok(es) => Ok(es)'
  BY OkStays
<1>3. call[d].run \in Stamped => native'[call[d].run].at = native[call[d].run].at
  BY DEF Ages
<1> QED
  BY <1>1, <1>2, <1>3 DEF StampOf, SameCall, HasRun, HasEntry

LEMMA BystanderLoading ==
  ASSUME Recording, Agents', Ages, NEW d \in Callers, SameCall(d), Loading(d),
         \A x : <<call[d].run, x>> \in caps => <<call[d].run, x>> \in caps'
  PROVE  Loading(d)'
<1>1. /\ Agents /\ Stamps /\ StampOf(d)
      /\ HasRun(d) => call[d].run \in DOMAIN native
  BY DEF Recording, Lineage, Callings, Carries, Stamps, HasRun
<1>2. CASE ~HasRun(d)
  BY <1>2 DEF Loading, SameCall, HasRun, HasEntry
<1>3. CASE HasRun(d)
  <2>1. CapKept(call[d].run) => CapKept(call[d].run)'
    BY <1>1, <1>3 DEF CapKept, Ages, Grows, SameCall
  <2>2. ASSUME call[d].at \in {"load", "open"}
        PROVE  Kept({call[d].entry}, call[d].run, call[d].entry.report)'
    <3>1. Kept({call[d].entry}, call[d].run, call[d].entry.report) /\ call[d].run \in Stamped
      BY <1>1, <1>3, <2>2 DEF Loading, StampOf
    <3>2. \A es, r, b : r \in Stamped /\ Kept(es, r, b) => Kept(es, r, b)'
      BY <1>1, KeptStays
    <3>3. call'[d].entry = call[d].entry /\ call'[d].run = call[d].run
      BY DEF SameCall
    <3> QED
      BY <3>1, <3>2, <3>3
  <2> QED
    BY <2>1, <2>2 DEF Loading, SameCall, HasEntry
<1> QED
  BY <1>2, <1>3

\* A step of c that writes no file leaves the others as they are.
LEMMA FilesRest ==
  ASSUME Recording, Agents', Clock', Ages, NEW c \in Callers,
         UNCHANGED <<runs, tmp, caps, told>>,
         \A d \in Callers \ {c} : call'[d] = call[d],
         \A d \in Callers \ {c} : HasRun(d) => (call[d].run \in Stamped' <=> call[d].run \in Stamped),
         \A r, b : Owed(r, b)' => Owed(r, b),
         StampOf(c)',
         ~crossed' => /\ ~crossed /\ Loading(c)' /\ Saving(c)'
                      /\ Rewriting(c)' => Rewriting(c) \/ \A d \in Callers \ {c} : ~Rewriting(d)
  PROVE  Stamps' /\ Tidy'
<1>1. Agents /\ Stamps
  BY DEF Recording, Lineage
<1>2. \A es : Ok(es) => Ok(es)'
  BY OkStays
<1>3. told' \subseteq Stamped'
  BY <1>1 DEF Stamps, Stamped, Ages, Grows
<1>4. ASSUME NEW d \in Callers \ {c} PROVE SameCall(d) /\ StampOf(d)'
  <2>1. SameCall(d)
    BY DEF SameCall
  <2>2. HasRun(d) => call[d].run \notin told'
    BY <1>1 DEF Stamps, StampOf
  <2> QED
    BY <1>1, <2>1, <2>2, BystanderStamp
<1>5. Stamps'
  BY <1>1, <1>2, <1>3, <1>4 DEF Stamps
<1>6. ASSUME ~crossed' PROVE Tidy'
  <2>1. Tidy /\ ~crossed
    BY <1>6 DEF Recording
  <2>2. \A r, b, es : Owed(r, b) /\ Kept(es, r, b) => Kept(es, r, b)'
    BY <1>1, KeptStays, OwedIsStamped
  <2>3. \A r \in Runs, b \in BOOLEAN : Owed(r, b)' => Kept(runs.entries, r, b)'
    BY <2>1, <2>2 DEF Tidy
  <2>4. \A r \in told' : CapKept(r)'
    BY <1>1, <2>1 DEF Tidy, CapKept, Stamps, Stamped, Ages, Grows
  <2>5. ASSUME NEW d \in Callers \ {c} PROVE Loading(d)' /\ Saving(d)'
    <3>1. Loading(d) /\ Saving(d) /\ call'[d] = call[d]
      BY <2>1, <2>5 DEF Tidy
    <3>2. Loading(d)'
      BY <1>4, <3>1, BystanderLoading
    <3>3. call[d].at \in {"write", "replace"} => call[d].run \in Stamped
      BY <1>1 DEF Stamps, StampOf, HasRun
    <3>4. \A r, b, es : r \in Stamped /\ Kept(es, r, b) => Kept(es, r, b)'
      BY <1>1, KeptStays
    <3>5. \A es : call[d].run \in Stamped /\ Holds(d, es) => Holds(d, es)'
      BY <2>2, <3>1, <3>4 DEF Holds
    <3>6. Saving(d)'
      BY <3>1, <3>3, <3>5 DEF Saving
    <3> QED
      BY <3>2, <3>6
  <2>6. \A d, e \in Callers : Rewriting(d)' /\ Rewriting(e)' => d = e
    <3>1. \A d \in Callers \ {c} : Rewriting(d)' => Rewriting(d)
      BY DEF Rewriting
    <3>2. \A d, e \in Callers : Rewriting(d) /\ Rewriting(e) => d = e
      BY <2>1 DEF Tidy
    <3> QED
      BY <1>6, <3>1, <3>2
  <2> QED
    BY <1>6, <2>3, <2>4, <2>5, <2>6 DEF Tidy
<1> QED
  BY <1>5, <1>6 DEF Tidy

LEMMA NativeRests ==
  ASSUME native' = native
  PROVE  /\ Ages /\ Stamped' = Stamped /\ (Clock => Clock')
         /\ \A es, r, b : Kept(es, r, b) => Kept(es, r, b)'
<1>1. Stamped' = Stamped /\ \A r : Later(r)' = Later(r)
  BY DEF Stamped, Later
<1> QED
  BY <1>1, NothingGrows DEF Ages, Clock, Kept, Shown

LEMMA BirthIsUnstamped ==
  ASSUME Recording, NEW c \in Callers, NEW r \in Runs, Born(c, r), Grows
  PROVE  Ages /\ Clock' /\ Stamped' = Stamped
<1>1. /\ r \notin DOMAIN native /\ DOMAIN native' = DOMAIN native \cup {r}
      /\ native'[r].at = 0 /\ \A x \in DOMAIN native : native'[x] = native[x]
  BY DEF Born
<1>2. Stamped' = Stamped
  BY <1>1 DEF Stamped
<1>3. Cardinality(Stamped) \in Nat
  BY StampedFinite DEF Recording, Lineage
<1>4. Ages
  BY <1>1 DEF Ages, Stamped
<1>5. Clock
  BY DEF Recording, Stamps
<1>6. \A x \in Stamped : x \in DOMAIN native /\ native'[x] = native[x]
  BY <1>1 DEF Stamped
<1>7. \A x \in DOMAIN native' : native'[x].at \in 0..Cardinality(Stamped)
  BY <1>1, <1>3, <1>5 DEF Clock
<1> QED
  BY <1>2, <1>4, <1>5, <1>6, <1>7 DEF Clock

LEMMA OwedShrinks ==
  ASSUME Recording, Grows, told' = told, NEW c \in Callers,
         \A d \in Callers \ {c} : call'[d] = call[d],
         call'[c].at \in {"cap", "save cap", "report"} =>
           call[c].at \in {"cap", "save cap", "report"} /\ call'[c].run = call[c].run
  PROVE  \A r, b : Owed(r, b)' => Owed(r, b)
<1>1. told \subseteq DOMAIN native
  BY DEF Recording, Stamps, Stamped
<1> QED
  BY <1>1 DEF Owed, Grows

\* The stamp is later than all there are.
LEMMA StampIsLast ==
  ASSUME Recording, NEW r \in DOMAIN native, r \notin Stamped,
         native' = [native EXCEPT ![r].at = Now]
  PROVE  /\ Ages /\ Clock' /\ Stamped' = Stamped \cup {r}
         /\ native'[r].at = Now /\ native'[r].request = native[r].request
<1>1. Now = 1 + Cardinality(Stamped) /\ Cardinality(Stamped) \in Nat /\ IsFiniteSet(Stamped)
  BY StampedFinite DEF Now, Stamped, Recording, Lineage
<1>2. native[r] \in Agent
  BY DEF Recording, Lineage, Agents, Sound
<1>3. /\ DOMAIN native' = DOMAIN native
      /\ \A x \in DOMAIN native \ {r} : native'[x] = native[x]
      /\ native'[r] = [native[r] EXCEPT !.at = Now]
  BY <1>1
<1>4. native'[r].at = Now /\ native'[r].request = native[r].request /\ native'[r].by = native[r].by
  BY <1>2, <1>3 DEF Agent
<1>5. Stamped' = Stamped \cup {r}
  <2>1. native'[r].at > 0
    BY <1>1, <1>4
  <2> QED
    BY <1>3, <2>1 DEF Stamped
<1>6. Cardinality(Stamped') = Cardinality(Stamped) + 1
  BY <1>1, <1>5, FS_AddElement
<1>7. \A x \in DOMAIN native : native[x].at \in 0..Cardinality(Stamped)
  BY DEF Recording, Stamps, Clock
<1>8. Ages
  BY <1>3, <1>4 DEF Ages, Grows, Stamped
<1>9. \A x \in DOMAIN native' : native'[x].at \in 0..Cardinality(Stamped')
  BY <1>1, <1>3, <1>4, <1>6, <1>7
<1>10. ASSUME NEW x \in Stamped', NEW y \in Stamped', native'[x].at = native'[y].at PROVE x = y
  <2>1. \A z \in Stamped \ {r} : native'[z].at = native[z].at /\ native[z].at # Now
    BY <1>1, <1>3, <1>7 DEF Stamped
  <2> QED
    BY <1>4, <1>5, <1>10, <2>1 DEF Recording, Stamps, Clock
<1> QED
  BY <1>4, <1>5, <1>8, <1>9, <1>10 DEF Clock

LEMMA RunsDiffer ==
  ASSUME Lineage, NEW c \in Callers, NEW d \in Callers \ {c}, HasRun(c), HasRun(d)
  PROVE  call[c].run # call[d].run
BY DEF Lineage, Callings, Carries, HasRun

\* A call that ends owes nothing more.
LEMMA IdleRecords ==
  ASSUME NEW c \in Callers, call'[c] = Idle
  PROVE  StampOf(c)' /\ Loading(c)' /\ Saving(c)' /\ ~Rewriting(c)'
BY DEF Idle, StampOf, Loading, Saving, Rewriting, HasRun, HasEntry

\* The second entry of a run keeps what the first says.
LEMMA ReportedKeeps ==
  ASSUME Recording, NEW c \in Callers, call[c].at = "report"
  PROVE  LET e == Reported(call[c].run)
         IN  /\ e.run = call[c].run /\ e.report = TRUE /\ e.at \in {0, native[call[c].run].at}
             /\ ~crossed => Kept({e}, call[c].run, TRUE) /\ CapKept(call[c].run)
<1> DEFINE r == call[c].run
           found == {e \in runs.entries : e.run = r}
<1>1. /\ \A e \in runs.entries : e \in AnEntry
      /\ Ok(runs.entries)
  BY DEF Recording, Lineage, Files, Good, Stamps
<1>2. Reported(r) = [(IF found = {} THEN Bare(r) ELSE CHOOSE e \in found : TRUE) EXCEPT !.report = TRUE]
  BY DEF Reported, Loaded
<1>3. ASSUME ~crossed PROVE Kept(runs.entries, r, FALSE) /\ CapKept(r)
  <2>1. Owed(r, FALSE)
    BY DEF Owed
  <2>2. r \in Runs
    BY OwedIsStamped, <2>1 DEF Recording, Lineage, Agents, Stamped
  <2>3. FALSE \in BOOLEAN /\ Loading(c)
    BY <1>3 DEF Recording, Tidy
  <2> QED
    BY <1>3, <2>1, <2>2, <2>3 DEF Recording, Tidy, Loading
<1>4. CASE found = {}
  <2>1. Reported(r) = [run |-> r, role |-> None, parent |-> "supervisor", token |-> None,
                       at |-> 0, report |-> TRUE]
    BY <1>2, <1>4 DEF Bare
  <2>2. ~Shown(runs.entries, r, FALSE)
    BY <1>4 DEF Shown
  <2>3. Reported(r).run = r /\ Reported(r).report = TRUE /\ Reported(r).at = 0
    BY <2>1
  <2>4. ~crossed => Kept({Reported(r)}, r, TRUE) /\ CapKept(r)
    BY <1>3, <2>2 DEF Kept
  <2> QED
    BY <2>3, <2>4
<1>5. CASE found # {}
  <2>1. PICK f \in runs.entries : f.run = r /\ f = CHOOSE e \in found : TRUE
    BY <1>5
  <2>2. Reported(r) = [f EXCEPT !.report = TRUE] /\ f \in AnEntry
    BY <1>1, <1>2, <1>5, <2>1
  <2>3. /\ Reported(r).run = r /\ Reported(r).report = TRUE
        /\ Reported(r).at = f.at /\ Reported(r).role = f.role
    BY <2>1, <2>2 DEF AnEntry
  <2>4. f.at \in {0, native[r].at}
    BY <1>1, <2>1 DEF Ok
  <2>5. ASSUME Shown(runs.entries, r, FALSE) PROVE Shown({Reported(r)}, r, TRUE)
    <3>1. f.role = Role(native[r].request) /\ f.at = native[r].at
      BY <1>1, <2>1, <2>5 DEF Shown, Ok
    <3> QED
      BY <2>3, <3>1 DEF Shown
  <2> QED
    BY <1>3, <2>3, <2>4, <2>5 DEF Kept
<1> QED
  BY <1>4, <1>5

LEMMA SpawnRecords ==
  ASSUME Recording, Lineage', NEW c \in Callers,
         \/ \E q \in Requests : Ask(c, q)
         \/ \E r \in Runs : Launch(c, r)
         \/ LaunchFails(c) \/ Stamp(c) \/ Reread(c)
  PROVE  Stamps' /\ Tidy'
<1> USE DEF Fields
<1>0. /\ DOMAIN call = Callers /\ Carries(c) /\ DOMAIN call[c] = Fields /\ Lineage
      /\ Agents /\ Agents' /\ Stamps /\ Clock /\ StampOf(c)
  BY DEF Recording, Lineage, Callings, Carries, Stamps
<1>1. ASSUME NEW q \in Requests, Ask(c, q) PROVE Stamps' /\ Tidy'
  <2>1. /\ UNCHANGED <<native, runs, tmp, caps, told, crossed>> /\ call[c].at = "idle"
        /\ call'[c] = [Idle EXCEPT !.at = "launch", !.request = q]
        /\ \A d \in Callers \ {c} : call'[d] = call[d]
    BY <1>0, <1>1 DEF Ask, Go
  <2>2. call'[c].at = "launch"
    BY <2>1 DEF Idle
  <2>3. StampOf(c)' /\ Loading(c)' /\ Saving(c)' /\ ~Rewriting(c)'
    BY <2>2 DEF StampOf, Loading, Saving, Rewriting, HasRun, HasEntry
  <2>4. \A r, b : Owed(r, b)' => Owed(r, b)
    BY <2>1, <2>2, NothingGrows, OwedShrinks
  <2> QED
    BY <1>0, <2>1, <2>3, <2>4, NativeRests, FilesRest
<1>2. ASSUME NEW r \in Runs, Launch(c, r) PROVE Stamps' /\ Tidy'
  <2>1. /\ UNCHANGED <<runs, tmp, caps, told, crossed>> /\ call[c].at = "launch" /\ Born(c, r)
        /\ call'[c] = [call[c] EXCEPT !.at = "stamp", !.run = r]
        /\ \A d \in Callers \ {c} : call'[d] = call[d]
    BY <1>0, <1>2 DEF Launch, Go
  <2>2. call'[c].at = "stamp" /\ call'[c].run = r
    BY <1>0, <2>1
  <2>3. Grows
    BY <1>0, <2>1, BirthIsSound
  <2>4. Ages /\ Clock' /\ Stamped' = Stamped
    BY <2>1, <2>3, BirthIsUnstamped
  <2>5. r \notin Stamped /\ r \notin told
    BY <1>0, <2>1 DEF Born, Stamped, Stamps
  <2>6. StampOf(c)' /\ Loading(c)' /\ Saving(c)' /\ ~Rewriting(c)'
    BY <2>1, <2>2, <2>4, <2>5 DEF StampOf, Loading, Saving, Rewriting, HasRun, HasEntry
  <2>7. \A x, b : Owed(x, b)' => Owed(x, b)
    BY <2>1, <2>2, <2>3, OwedShrinks
  <2> QED
    BY <1>0, <2>1, <2>4, <2>6, <2>7, FilesRest
<1>3. CASE LaunchFails(c)
  <2>1. /\ UNCHANGED <<runs, tmp, caps, told, crossed>> /\ call[c].at = "launch" /\ call'[c] = Idle
        /\ \A d \in Callers \ {c} : call'[d] = call[d]
    BY <1>0, <1>3 DEF LaunchFails, Go
  <2>2. Grows /\ Ages /\ Clock' /\ Stamped' = Stamped
    <3>1. CASE native' = native
      BY <1>0, <3>1, NothingGrows, NativeRests
    <3>2. ASSUME NEW r \in Runs, Born(c, r) PROVE Grows /\ Ages /\ Clock' /\ Stamped' = Stamped
      BY <1>0, <2>1, <3>2, BirthIsSound, BirthIsUnstamped
    <3> QED
      BY <1>3, <3>1, <3>2 DEF LaunchFails
  <2>3. StampOf(c)' /\ Loading(c)' /\ Saving(c)' /\ ~Rewriting(c)'
    BY <2>1, IdleRecords
  <2>4. \A r, b : Owed(r, b)' => Owed(r, b)
    <3>1. call'[c].at = "idle"
      BY <2>1 DEF Idle
    <3> QED
      BY <2>1, <2>2, <3>1, OwedShrinks
  <2> QED
    BY <1>0, <2>1, <2>2, <2>3, <2>4, FilesRest
<1>4. CASE Stamp(c)
  <2> DEFINE r == call[c].run
             e == Full(c, r)
  <2>1. /\ UNCHANGED <<runs, tmp, caps, told, crossed>> /\ call[c].at = "stamp"
        /\ native' = [native EXCEPT ![r].at = Now]
        /\ call'[c] = [call[c] EXCEPT !.at = "load", !.entry = e]
        /\ \A d \in Callers \ {c} : call'[d] = call[d]
    BY <1>0, <1>4 DEF Stamp, Go
  <2>2. /\ call'[c].at = "load" /\ call'[c].run = r /\ call'[c].entry = e
        /\ call'[c].request = call[c].request
    BY <1>0, <2>1
  <2>3. r \in DOMAIN native /\ r \notin Stamped /\ r \notin told
    BY <1>0, <2>1 DEF Carries, StampOf, HasRun
  <2>4. /\ Ages /\ Clock' /\ Stamped' = Stamped \cup {r}
        /\ native'[r].at = Now /\ native'[r].request = native[r].request
    BY <2>1, <2>3, StampIsLast
  <2>5. e.run = r /\ e.role = Role(native[r].request) /\ e.at = Now /\ e.report = FALSE
    BY DEF Full
  <2>6. StampOf(c)'
    BY <2>1, <2>2, <2>3, <2>4, <2>5 DEF StampOf, HasRun, HasEntry
  <2>7. Loading(c)' /\ Saving(c)' /\ ~Rewriting(c)'
    BY <2>2, <2>4, <2>5 DEF Loading, Saving, Rewriting, HasEntry, Kept, Shown
  <2>8. \A d \in Callers \ {c} : HasRun(d) => (call[d].run \in Stamped' <=> call[d].run \in Stamped)
    BY <1>0, <2>1, <2>4, RunsDiffer DEF HasRun
  <2>9. \A x, b : Owed(x, b)' => Owed(x, b)
    BY <2>1, <2>2, <2>4, OwedShrinks DEF Ages
  <2> QED
    BY <1>0, <2>1, <2>4, <2>6, <2>7, <2>8, <2>9, FilesRest
<1>5. CASE Reread(c)
  <2> DEFINE r == call[c].run
             e == Reported(r)
  <2>1. /\ UNCHANGED <<native, runs, tmp, caps, told, crossed>> /\ call[c].at = "report"
        /\ call'[c] = [call[c] EXCEPT !.at = "load", !.entry = e]
        /\ \A d \in Callers \ {c} : call'[d] = call[d]
    BY <1>0, <1>5 DEF Reread, Go
  <2>2. /\ call'[c].at = "load" /\ call'[c].run = r /\ call'[c].entry = e
        /\ call'[c].request = call[c].request
    BY <1>0, <2>1
  <2>3. /\ e.run = r /\ e.report = TRUE /\ e.at \in {0, native[r].at}
        /\ ~crossed => Kept({e}, r, TRUE) /\ CapKept(r)
    BY <2>1, ReportedKeeps
  <2>4. call[c].request.tool \in DeepTools /\ r \in Stamped /\ r \notin told
    BY <1>0, <2>1 DEF Carries, StampOf, HasRun
  <2>5. Ages /\ Clock' /\ Stamped' = Stamped /\ \A es, x, b : Kept(es, x, b) => Kept(es, x, b)'
    BY <1>0, <2>1, NativeRests
  <2>6. StampOf(c)'
    BY <2>1, <2>2, <2>3, <2>4, <2>5 DEF StampOf, HasRun, HasEntry
  <2>7. CapKept(r) => CapKept(r)'
    BY <2>1 DEF CapKept
  <2>8. ~crossed => Loading(c)' /\ Saving(c)' /\ ~Rewriting(c)'
    BY <2>2, <2>3, <2>5, <2>7 DEF Loading, Saving, Rewriting, HasEntry
  <2>9. \A x, b : Owed(x, b)' => Owed(x, b)
    BY <2>1, <2>2, <2>5, OwedShrinks DEF Ages
  <2>10. ~crossed' => ~crossed
    BY <2>1
  <2> QED
    BY <1>0, <2>1, <2>5, <2>6, <2>8, <2>9, <2>10, FilesRest
<1> QED
  BY <1>1, <1>2, <1>3, <1>4, <1>5

\* A step of c's rewrite: unless rewrites have crossed, the others are not in one.
LEMMA FilesMove ==
  ASSUME Recording, native' = native, crossed' = crossed, NEW c \in Callers, Rewriting(c),
         \A d \in Callers \ {c} : SameCall(d),
         told' \subseteq told \cup {call[c].run},
         Ok(runs'.entries), Ok(tmp'.entries), StampOf(c)',
         ~crossed =>
           /\ \A r \in Runs \ {call[c].run} : \A x : <<r, x>> \in caps => <<r, x>> \in caps'
           /\ \A r \in Runs, b \in BOOLEAN : Owed(r, b)' => Kept(runs'.entries, r, b)
           /\ \A r \in told' : r = call[c].run => CapKept(r)'
           /\ Loading(c)' /\ Saving(c)'
  PROVE  Stamps' /\ Tidy'
<1>1. /\ Lineage /\ Agents /\ Agents' /\ Stamps /\ StampOf(c) /\ Clock /\ HasRun(c)
      /\ call[c].run \in Stamped
  BY NothingGrows DEF Recording, Lineage, Stamps, Rewriting, HasRun, StampOf
<1>2. /\ Ages /\ Stamped' = Stamped /\ Clock'
      /\ \A es, r, b : Kept(es, r, b) => Kept(es, r, b)'
  BY <1>1, NativeRests
<1>3. \A es : Ok(es) => Ok(es)'
  BY <1>2, OkStays
<1>4. ASSUME NEW d \in Callers \ {c}, HasRun(d)
      PROVE  call[d].run \notin told' /\ call[d].run \in Runs \ {call[c].run}
  <2>1. call[d].run # call[c].run
    BY <1>1, <1>4, RunsDiffer
  <2>2. call[d].run \notin told /\ call[d].run \in DOMAIN native
    BY <1>1, <1>4 DEF Stamps, StampOf, Lineage, Callings, Carries, HasRun
  <2> QED
    BY <1>1, <2>1, <2>2 DEF Agents
<1>5. \A d \in Callers \ {c} : StampOf(d)'
  BY <1>1, <1>2, <1>4, BystanderStamp
<1>6. told' \subseteq Stamped'
  BY <1>1, <1>2 DEF Stamps
<1>7. Stamps'
  BY <1>2, <1>3, <1>5, <1>6 DEF Stamps
<1>8. ASSUME ~crossed' PROVE Tidy'
  <2>1. ~crossed /\ Tidy
    BY <1>8 DEF Recording
  <2>2. \A d \in Callers \ {c} : ~Rewriting(d) /\ ~Rewriting(d)'
    BY <2>1 DEF Tidy, Rewriting, SameCall
  <2>3. ASSUME NEW d \in Callers \ {c} PROVE Loading(d)' /\ Saving(d)'
    <3>1. Loading(d)
      BY <2>1 DEF Tidy
    <3>2. Loading(d)'
      <4>1. CASE HasRun(d)
        BY <1>1, <1>2, <1>4, <2>1, <3>1, <4>1, BystanderLoading
      <4>2. CASE ~HasRun(d)
        BY <4>2 DEF Loading, SameCall, HasRun, HasEntry
      <4> QED
        BY <4>1, <4>2
    <3>3. Saving(d)'
      BY <2>2 DEF Saving, Rewriting
    <3> QED
      BY <3>2, <3>3
  <2>4. \A r \in Runs, b \in BOOLEAN : Owed(r, b)' => Kept(runs.entries, r, b)'
    BY <1>2, <2>1
  <2>5. ASSUME NEW r \in told' PROVE CapKept(r)'
    <3>1. CASE r = call[c].run
      BY <2>1, <2>5, <3>1 DEF CapKept
    <3>2. CASE r # call[c].run
      <4>1. r \in told /\ r \in Runs \ {call[c].run} /\ CapKept(r)
        BY <1>1, <2>1, <2>5, <3>2 DEF Tidy, Stamps, Stamped, Agents
      <4> QED
        BY <2>1, <4>1 DEF CapKept
    <3> QED
      BY <3>1, <3>2
  <2> QED
    BY <2>1, <2>2, <2>3, <2>4, <2>5 DEF Tidy
<1> QED
  BY <1>7, <1>8 DEF Tidy

LEMMA LoadRecords ==
  ASSUME Recording, NEW c \in Callers, Load(c) \/ LoadCaps(c) \/ Die(c)
  PROVE  Stamps' /\ Tidy'
<1> USE DEF Fields
<1>0. /\ DOMAIN call = Callers /\ DOMAIN call[c] = Fields /\ Lineage
      /\ Agents /\ Agents' /\ Stamps /\ Clock /\ StampOf(c)
      /\ UNCHANGED <<native, runs, tmp, caps, told>>
      /\ \A d \in Callers \ {c} : call'[d] = call[d]
  BY NothingGrows DEF Recording, Lineage, Callings, Carries, Stamps, Load, LoadCaps, Die, Go
<1>1. Ages /\ Clock' /\ Stamped' = Stamped /\ \A es, x, b : Kept(es, x, b) => Kept(es, x, b)'
  BY <1>0, NativeRests
<1>2. Grows /\ (\A es : Ok(es) => Ok(es)') /\ \A r : CapKept(r) => CapKept(r)'
  BY <1>0, <1>1, OkStays DEF Ages, CapKept
<1>3. ~crossed => Loading(c)
  BY DEF Recording, Tidy
<1>4. CASE Load(c)
  <2>1. /\ call[c].at = "load" /\ crossed' = (crossed \/ Others(c))
        /\ call'[c] = [call[c] EXCEPT !.at = "open", !.seen = runs.entries]
    BY <1>0, <1>4 DEF Load, Go, Loaded
  <2>2. /\ call'[c].at = "open" /\ call'[c].run = call[c].run /\ call'[c].entry = call[c].entry
        /\ call'[c].request = call[c].request /\ call'[c].seen = runs.entries
    BY <1>0, <2>1
  <2>3. StampOf(c)'
    BY <1>0, <1>1, <1>2, <2>1, <2>2 DEF StampOf, HasRun, HasEntry, Stamps
  <2>4. ~crossed => Loading(c)' /\ Saving(c)'
    BY <1>0, <1>1, <1>2, <1>3, <2>1, <2>2 DEF Loading, Saving, HasEntry
  <2>5. \A r, b : Owed(r, b)' => Owed(r, b)
    BY <1>0, <1>2, <2>2, OwedShrinks
  <2>6. ~crossed' => ~crossed /\ \A d \in Callers \ {c} : ~Rewriting(d)
    BY <2>1 DEF Others
  <2> QED
    BY <1>0, <1>1, <2>3, <2>4, <2>5, <2>6, FilesRest
<1>5. CASE LoadCaps(c)
  <2>1. /\ call[c].at = "cap" /\ crossed' = (crossed \/ Others(c))
        /\ call'[c] = [call[c] EXCEPT !.at = "save cap", !.seen = caps]
    BY <1>0, <1>5 DEF LoadCaps, Go
  <2>2. /\ call'[c].at = "save cap" /\ call'[c].run = call[c].run /\ call'[c].entry = call[c].entry
        /\ call'[c].request = call[c].request /\ call'[c].seen = caps
    BY <1>0, <2>1
  <2>3. StampOf(c)'
    BY <1>0, <1>1, <2>1, <2>2 DEF StampOf, HasRun, HasEntry
  <2>4. ~crossed => Loading(c)' /\ Saving(c)'
    BY <1>0, <2>2 DEF Loading, Saving, HasEntry
  <2>5. \A r, b : Owed(r, b)' => Owed(r, b)
    BY <1>0, <1>2, <2>1, <2>2, OwedShrinks
  <2>6. ~crossed' => ~crossed /\ \A d \in Callers \ {c} : ~Rewriting(d)
    BY <2>1 DEF Others
  <2> QED
    BY <1>0, <1>1, <2>3, <2>4, <2>5, <2>6, FilesRest
<1>6. CASE Die(c)
  <2>1. call'[c] = Idle /\ crossed' = crossed
    BY <1>0, <1>6 DEF Die, Go
  <2>2. StampOf(c)' /\ Loading(c)' /\ Saving(c)' /\ ~Rewriting(c)'
    BY <2>1, IdleRecords
  <2>3. call'[c].at = "idle"
    BY <2>1 DEF Idle
  <2>4. \A r, b : Owed(r, b)' => Owed(r, b)
    BY <1>0, <1>2, <2>3, OwedShrinks
  <2> QED
    BY <1>0, <1>1, <2>1, <2>2, <2>4, FilesRest
<1> QED
  BY <1>4, <1>5, <1>6

LEMMA OpenRecords ==
  ASSUME Recording, NEW c \in Callers, Open(c)
  PROVE  Stamps' /\ Tidy'
<1> USE DEF Fields
<1> DEFINE e  == call[c].entry
           es == {x \in call[c].seen : x.run # e.run} \cup {e}
<1>0. /\ DOMAIN call = Callers /\ DOMAIN call[c] = Fields /\ Agents /\ Stamps /\ StampOf(c)
      /\ call[c].at = "open" /\ UNCHANGED <<native, runs, caps, told, crossed>> /\ tmp' = Empty
  BY DEF Recording, Lineage, Callings, Carries, Stamps, Open
<1>1. PICK k \in Newest(es) :
        call' = [call EXCEPT ![c] = [call[c] EXCEPT !.at = "write", !.seen = k, !.fd = "tmp"]]
  BY DEF Open, Go
<1>2. /\ call'[c].at = "write" /\ call'[c].run = call[c].run /\ call'[c].entry = e
      /\ call'[c].request = call[c].request /\ call'[c].seen = k /\ call'[c].fd = "tmp"
      /\ \A d \in Callers \ {c} : call'[d] = call[d]
  BY <1>0, <1>1
<1>3. /\ call[c].run \in Stamped /\ call[c].run \notin told /\ Ok(call[c].seen)
      /\ e.run = call[c].run /\ e.at \in {0, native[e.run].at}
  BY <1>0 DEF StampOf, HasRun, HasEntry
<1>4. Ok(es)
  BY <1>3, OkInsert
<1>5. k \in SUBSET es
  BY DEF Newest
<1>6. Ok(k) /\ Ok({})
  BY <1>4, <1>5, OkSubset
<1>7. (\A x : Ok(x) => Ok(x)') /\ Stamped' = Stamped /\ \A x, r, b : Kept(x, r, b) => Kept(x, r, b)'
  BY <1>0, NativeRests, OkStays
<1>8. /\ \A d \in Callers \ {c} : SameCall(d)
      /\ Rewriting(c) /\ tmp'.entries = {} /\ runs' = runs
  BY <1>0, <1>2 DEF SameCall, Rewriting, Empty
<1>9. StampOf(c)'
  BY <1>0, <1>2, <1>3, <1>6, <1>7 DEF StampOf, HasRun, HasEntry
<1>10. Grows
  BY <1>0, NothingGrows
<1>11. \A r, b : Owed(r, b)' => Owed(r, b)
  BY <1>0, <1>2, <1>10, OwedShrinks
<1>12. ASSUME ~crossed
       PROVE  /\ \A r \in Runs, b \in BOOLEAN : Owed(r, b)' => Kept(runs'.entries, r, b)
              /\ Loading(c)' /\ Saving(c)'
  <2>1. /\ \A r \in Runs, b \in BOOLEAN : Owed(r, b) => Kept(runs.entries, r, b)
        /\ Loading(c) /\ Saving(c) /\ call[c].seen = runs.entries
    BY <1>0, <1>12 DEF Recording, Tidy, Saving
  <2>2. ASSUME NEW r \in Stamped, NEW b, Kept(es, r, b) PROVE Kept(k, r, b)
    BY <1>0, <1>4, <2>2, CutKeeps DEF Kept
  <2>3. Kept(k, call[c].run, e.report)
    <3>1. Kept({e}, call[c].run, e.report)
      BY <1>0, <2>1 DEF Loading
    <3>2. Kept(es, call[c].run, e.report)
      BY <3>1 DEF Kept, Shown
    <3> QED
      BY <1>3, <2>2, <3>2
  <2>4. ASSUME NEW r \in Runs \ {call[c].run}, NEW b \in BOOLEAN, Owed(r, b) PROVE Kept(k, r, b)
    <3>1. Kept(runs.entries, r, b) /\ r \in Stamped
      BY <2>1, <2>4, OwedIsStamped
    <3>2. Kept(es, r, b)
      BY <1>3, <2>1, <2>4, <3>1 DEF Kept, Shown
    <3> QED
      BY <2>2, <3>1, <3>2
  <2>5. Holds(c, k)'
    BY <1>2, <1>7, <1>11, <2>3, <2>4 DEF Holds
  <2>6. Saving(c)'
    BY <1>0, <1>2, <2>5 DEF Saving
  <2>7. Loading(c)'
    BY <1>0, <1>2, <2>1 DEF Loading, HasEntry, CapKept
  <2> QED
    BY <1>0, <1>11, <2>1, <2>6, <2>7
<1>13. Ok(runs'.entries) /\ Ok(tmp'.entries)
  BY <1>0, <1>6, <1>8 DEF Stamps
<1>14. \A r \in told' : r # call[c].run
  BY <1>0, <1>3
<1> HIDE DEF es
<1> QED
  BY <1>0, <1>8, <1>9, <1>12, <1>13, <1>14, FilesMove

LEMMA WriteRecords ==
  ASSUME Recording, NEW c \in Callers, Write(c)
  PROVE  Stamps' /\ Tidy'
<1> USE DEF Fields
<1>0. /\ DOMAIN call = Callers /\ DOMAIN call[c] = Fields /\ Agents /\ Stamps /\ StampOf(c)
      /\ call[c].at = "write" /\ UNCHANGED <<native, caps, told, crossed>>
      /\ call' = [call EXCEPT ![c] = [call[c] EXCEPT !.at = "replace", !.fd = None]]
  BY DEF Recording, Lineage, Callings, Carries, Stamps, Write, Go
<1>1. /\ call'[c].at = "replace" /\ call'[c].run = call[c].run /\ call'[c].entry = call[c].entry
      /\ call'[c].request = call[c].request
      /\ \A d \in Callers \ {c} : SameCall(d)
  BY <1>0 DEF SameCall
<1>2. \A f, g : g \in Written(f, Json(call[c].seen)) => g.entries = call[c].seen \/ g.entries = {}
  BY DEF Written, Json, Torn
<1>3. Ok(call[c].seen) /\ Ok({}) /\ Ok(runs.entries) /\ Ok(tmp.entries)
  <2>1. Ok(call[c].seen) /\ Ok(runs.entries) /\ Ok(tmp.entries)
    BY <1>0 DEF StampOf, Stamps
  <2> QED
    BY <2>1, OkSubset
<1>4. Ok(runs'.entries) /\ Ok(tmp'.entries)
  BY <1>2, <1>3 DEF Write
<1>5. (\A x : Ok(x) => Ok(x)') /\ Stamped' = Stamped /\ \A x, r, b : Kept(x, r, b) => Kept(x, r, b)'
  BY <1>0, NativeRests, OkStays
<1>6. StampOf(c)'
  BY <1>0, <1>1, <1>5 DEF StampOf, HasRun, HasEntry
<1>7. Grows
  BY <1>0, NothingGrows
<1>8. \A r, b : Owed(r, b)' => Owed(r, b)
  BY <1>0, <1>1, <1>7, OwedShrinks DEF SameCall
<1>9. ASSUME ~crossed
      PROVE  /\ \A r \in Runs, b \in BOOLEAN : Owed(r, b)' => Kept(runs'.entries, r, b)
             /\ Loading(c)' /\ Saving(c)'
  <2>1. /\ \A r \in Runs, b \in BOOLEAN : Owed(r, b) => Kept(runs.entries, r, b)
        /\ Loading(c) /\ call[c].fd = "tmp" /\ tmp = Empty /\ Holds(c, call[c].seen)
    BY <1>0, <1>9 DEF Recording, Tidy, Saving
  <2>2. runs' = runs /\ tmp' = Json(call[c].seen)
    BY <2>1 DEF Write, Written, Empty
  <2>3. tmp'.is = "json" /\ tmp'.entries = call[c].seen
    BY <2>2 DEF Json
  <2>4. \A x : Holds(c, x) => Holds(c, x)'
    BY <1>1, <1>5, <1>8 DEF Holds
  <2>5. Saving(c)'
    BY <1>1, <2>1, <2>3, <2>4 DEF Saving
  <2>6. Loading(c)'
    BY <1>0, <1>1, <2>1 DEF Loading, HasEntry, CapKept
  <2> QED
    BY <1>8, <2>1, <2>2, <2>5, <2>6
<1>10. Rewriting(c) /\ HasRun(c)
  BY <1>0 DEF Rewriting, HasRun
<1>11. \A r \in told' : r # call[c].run
  BY <1>0, <1>10 DEF StampOf
<1> QED
  BY <1>0, <1>1, <1>4, <1>6, <1>9, <1>10, <1>11, FilesMove

\* What is owed after a step of c's rewrite: of other runs, nothing new.
LEMMA OwedMoves ==
  ASSUME Recording, native' = native, NEW c \in Callers, HasRun(c),
         \A d \in Callers \ {c} : SameCall(d),
         told' \subseteq told \cup {call[c].run},
         call'[c].at \in {"cap", "save cap", "report"} => call'[c].run = call[c].run
  PROVE  \A r \in Runs, b \in BOOLEAN : Owed(r, b)' =>
           \/ r # call[c].run /\ Owed(r, b)
           \/ /\ r = call[c].run
              /\ \/ r \in told' /\ b = (native[r].request.tool \in DeepTools)
                 \/ b = FALSE /\ call'[c].at \in {"cap", "save cap", "report"}
<1>1. \A d \in Callers \ {c} : HasRun(d) => call[d].run # call[c].run
  BY RunsDiffer DEF Recording
<1>2. \A d \in Callers \ {c} : /\ call'[d].run = call[d].run /\ call'[d].at = call[d].at
                               /\ call[d].at \in {"cap", "save cap", "report"} => HasRun(d)
  BY DEF SameCall, HasRun
<1> QED
  BY <1>1, <1>2 DEF Owed

LEMMA ReplaceRecords ==
  ASSUME Recording, NEW c \in Callers, Replace(c)
  PROVE  Stamps' /\ Tidy'
<1> USE DEF Fields
<1> DEFINE r    == call[c].run
           e    == call[c].entry
           q    == call[c].request
           next == AfterReplace(call[c])
<1>0. /\ DOMAIN call = Callers /\ DOMAIN call[c] = Fields /\ Agents /\ Stamps /\ StampOf(c)
      /\ call[c].at = "replace" /\ UNCHANGED <<native, caps, crossed>>
      /\ native[r].request = q /\ q \in Requests
      /\ told' = IF next = Idle THEN told \cup {r} ELSE told
  BY DEF Recording, Lineage, Callings, Carries, Stamps, Replace
<1>1. /\ HasRun(c) /\ HasEntry(c) /\ Rewriting(c) /\ r \in Stamped /\ r \notin told
      /\ e.report \in BOOLEAN /\ (e.report => q.tool \in DeepTools)
  BY <1>0 DEF HasRun, HasEntry, Rewriting, StampOf
<1>2. /\ call'[c] = next
      /\ \A d \in Callers \ {c} : call'[d] = call[d] \/ \E fd : call'[d] = [call[d] EXCEPT !.fd = fd]
  <2> HIDE DEF next
  <2> QED
    BY <1>0 DEF Replace, Go, next
<1>3. ASSUME NEW d \in Callers \ {c} PROVE SameCall(d)
  <2>1. DOMAIN call[d] = Fields
    BY DEF Recording, Lineage, Callings, Carries
  <2>2. CASE call'[d] = call[d]
    BY <2>2 DEF SameCall
  <2>3. ASSUME NEW fd, call'[d] = [call[d] EXCEPT !.fd = fd] PROVE SameCall(d)
    BY <2>1, <2>3 DEF SameCall
  <2> QED
    BY <1>2, <2>2, <2>3
<1>4. \/ next = Idle /\ (e.report \/ Cap(q) = None)
      \/ /\ ~e.report /\ Cap(q) # None /\ call'[c].at = "cap" /\ call'[c].run = r /\ told' = told
  <2>1. CASE e.report \/ Cap(q) = None
    BY <2>1 DEF AfterReplace
  <2>2. CASE ~(e.report \/ Cap(q) = None)
    <3>1. next = [call[c] EXCEPT !.at = "cap"]
      BY <2>2 DEF AfterReplace
    <3>2. next.at = "cap" /\ next.run = r
      BY <1>0, <3>1
    <3>3. next # Idle
      BY <3>2 DEF Idle
    <3> HIDE DEF next
    <3> QED
      BY <1>0, <1>2, <2>2, <3>2, <3>3
  <2> QED
    BY <2>1, <2>2
<1>5. Ok(runs'.entries) /\ Ok(tmp'.entries)
  <2>1. Ok(runs.entries) /\ Ok(tmp.entries)
    BY <1>0 DEF Stamps
  <2>2. Ok({})
    BY <2>1, OkSubset
  <2>3. \/ runs' = runs /\ tmp' = tmp
        \/ runs' = tmp /\ tmp'.entries = {}
    BY DEF Replace, Absent
  <2> QED
    BY <2>1, <2>2, <2>3
<1>6. (\A x : Ok(x) => Ok(x)') /\ Stamped' = Stamped
  BY <1>0, NativeRests, OkStays
<1> HIDE DEF next
<1>7. StampOf(c)' /\ Loading(c)' /\ Saving(c)'
  <2>1. CASE next = Idle
    BY <1>2, <2>1, IdleRecords
  <2>2. CASE call'[c].at = "cap" /\ call'[c].run = r /\ told' = told
    BY <1>1, <1>6, <2>2 DEF StampOf, Loading, Saving, HasRun, HasEntry
  <2> QED
    BY <1>4, <2>1, <2>2
<1>8. told' \subseteq told \cup {r}
  BY <1>0
<1>9. call'[c].at \in {"cap", "save cap", "report"} => call'[c].run = r /\ ~e.report
  <2>1. Idle.at = "idle"
    BY DEF Idle
  <2> QED
    BY <1>2, <1>4, <2>1
<1>10. r \in told' => next = Idle /\ (e.report \/ Cap(q) = None)
  BY <1>0, <1>1, <1>4
<1>11. ASSUME ~crossed
       PROVE  /\ \A x \in Runs, b \in BOOLEAN : Owed(x, b)' => Kept(runs'.entries, x, b)
              /\ \A x \in told' : x = r => CapKept(x)'
  <2>1. /\ tmp.is = "json" /\ Holds(c, tmp.entries)
        /\ e.report => CapKept(r)
    BY <1>0, <1>1, <1>11 DEF Recording, Tidy, Saving, Loading
  <2>2. runs' = tmp
    BY <2>1 DEF Replace
  <2>3. ASSUME NEW x \in Runs \ {r}, NEW b \in BOOLEAN, Owed(x, b)' PROVE Kept(tmp.entries, x, b)
    <3>1. Owed(x, b)
      BY <1>0, <1>1, <1>3, <1>8, <1>9, <2>3, OwedMoves
    <3> QED
      BY <2>1, <3>1 DEF Holds
  <2>4. ASSUME NEW x \in Runs, x = r, NEW b \in BOOLEAN, Owed(x, b)' PROVE b = e.report
    <3>1. \/ r \in told' /\ b = (native[r].request.tool \in DeepTools)
          \/ b = FALSE /\ call'[c].at \in {"cap", "save cap", "report"}
      BY <1>0, <1>1, <1>3, <1>8, <1>9, <2>4, OwedMoves
    <3>2. CASE b = FALSE /\ call'[c].at \in {"cap", "save cap", "report"}
      BY <1>1, <1>9, <3>2
    <3>3. CASE r \in told' /\ b = (q.tool \in DeepTools)
      <4>1. Cap(q) = None => q.tool \notin DeepTools
        BY <1>0, DeepRunsAreCapped
      <4>2. e.report <=> q.tool \in DeepTools
        BY <1>1, <1>10, <3>3, <4>1
      <4> QED
        BY <1>1, <3>3, <4>2
    <3> QED
      BY <1>0, <3>1, <3>2, <3>3
  <2>5. \A x \in Runs, b \in BOOLEAN : x = r /\ Owed(x, b)' => Kept(tmp.entries, x, b)
    BY <2>1, <2>4 DEF Holds
  <2>6. \A x \in told' : x = r => CapKept(x)'
    <3>1. \A x : CapKept(x) => CapKept(x)'
      BY <1>0 DEF CapKept
    <3>2. Cap(q) = None => CapKept(r)
      BY <1>0 DEF CapKept
    <3> QED
      BY <1>10, <2>1, <3>1, <3>2
  <2> QED
    BY <2>2, <2>3, <2>5, <2>6
<1> HIDE DEF r, e, q
<1> QED
  BY <1>0, <1>1, <1>3, <1>5, <1>7, <1>8, <1>11, FilesMove DEF r

LEMMA SaveCapsRecords ==
  ASSUME Recording, NEW c \in Callers, SaveCaps(c)
  PROVE  Stamps' /\ Tidy'
<1> USE DEF Fields
<1> DEFINE r == call[c].run
           q == call[c].request
<1>0. /\ DOMAIN call = Callers /\ DOMAIN call[c] = Fields /\ Agents /\ Stamps /\ StampOf(c)
      /\ call[c].at = "save cap" /\ UNCHANGED <<native, runs, tmp, crossed>>
      /\ caps' = {x \in call[c].seen : x[1] # r} \cup {<<r, Cap(q)>>}
      /\ native[r].request = q
      /\ \A d \in Callers \ {c} : call'[d] = call[d]
  BY DEF Recording, Lineage, Callings, Carries, Stamps, SaveCaps, Go
<1>1. HasRun(c) /\ Rewriting(c) /\ r \in Stamped /\ r \notin told
  BY <1>0 DEF HasRun, Rewriting, StampOf
<1>2. \/ /\ q.tool \in DeepTools /\ told' = told
         /\ call'[c].at = "report" /\ call'[c].run = r
      \/ q.tool \notin DeepTools /\ told' = told \cup {r} /\ call'[c] = Idle
  BY <1>0 DEF SaveCaps, Go
<1>3. \A d \in Callers \ {c} : SameCall(d)
  BY <1>0 DEF SameCall
<1>4. Ok(runs'.entries) /\ Ok(tmp'.entries)
  BY <1>0 DEF Stamps
<1>5. (\A x : Ok(x) => Ok(x)') /\ Stamped' = Stamped
  BY <1>0, NativeRests, OkStays
<1>6. \A x : x = r => CapKept(x)'
  BY <1>0 DEF CapKept
<1>7. StampOf(c)' /\ Loading(c)' /\ Saving(c)'
  <2>1. CASE call'[c] = Idle
    BY <2>1, IdleRecords
  <2>2. CASE call'[c].at = "report" /\ call'[c].run = r /\ told' = told
    <3>1. CapKept(call[c].run)'
      BY <1>6, <2>2
    <3> QED
      BY <1>1, <1>5, <2>2, <3>1 DEF StampOf, Loading, Saving, HasRun, HasEntry
  <2> QED
    BY <1>2, <2>1, <2>2
<1>8. told' \subseteq told \cup {r}
  BY <1>2
<1>9. call'[c].at \in {"cap", "save cap", "report"} => call'[c].run = r
  <2>1. Idle.at = "idle"
    BY DEF Idle
  <2> QED
    BY <1>2, <2>1
<1>10. ASSUME ~crossed
       PROVE  /\ \A x \in Runs \ {r} : \A y : <<x, y>> \in caps => <<x, y>> \in caps'
              /\ \A x \in Runs, b \in BOOLEAN : Owed(x, b)' => Kept(runs'.entries, x, b)
  <2>1. /\ call[c].seen = caps
        /\ \A x \in Runs, b \in BOOLEAN : Owed(x, b) => Kept(runs.entries, x, b)
    BY <1>0, <1>10 DEF Recording, Tidy, Saving
  <2>2. \A x \in Runs \ {r}, b \in BOOLEAN : Owed(x, b)' => Owed(x, b)
    BY <1>0, <1>1, <1>3, <1>8, <1>9, OwedMoves
  <2>3. ASSUME NEW x \in Runs, x = r, NEW b \in BOOLEAN, Owed(x, b)' PROVE Owed(x, b)
    <3>1. \/ r \in told' /\ b = (native[r].request.tool \in DeepTools)
          \/ b = FALSE /\ call'[c].at \in {"cap", "save cap", "report"}
      BY <1>0, <1>1, <1>3, <1>8, <1>9, <2>3, OwedMoves
    <3>2. b = FALSE
      BY <1>0, <1>1, <1>2, <3>1
    <3> QED
      BY <1>0, <2>3, <3>2 DEF Owed
  <2>4. \A x \in Runs \ {r} : \A y : <<x, y>> \in caps => <<x, y>> \in caps'
    BY <1>0, <2>1
  <2> QED
    BY <1>0, <2>1, <2>2, <2>3, <2>4
<1> HIDE DEF r, q
<1> QED
  BY <1>0, <1>1, <1>3, <1>4, <1>6, <1>7, <1>8, <1>10, FilesMove DEF r

LEMMA InitRecording == Init => Recording
<1> SUFFICES ASSUME Init PROVE Recording
  OBVIOUS
<1>1. /\ DOMAIN native = {} /\ runs.entries = {} /\ tmp.entries = {} /\ told = {}
      /\ \A c \in Callers : call[c].at = "idle" /\ call[c].run = None
  BY DEF Init, Absent, Idle
<1>2. Ok({})
  BY FS_EmptySet DEF Ok
<1>3. Stamps
  BY <1>1, <1>2 DEF Stamps, Clock, Stamped, StampOf, HasRun, HasEntry
<1>4. Tidy
  BY <1>1 DEF Tidy, Rewriting, Owed, Loading, Saving, HasEntry
<1> QED
  BY <1>3, <1>4, InitLineage DEF Recording

LEMMA StutterRecords == ASSUME Recording, UNCHANGED vars PROVE Stamps' /\ Tidy'
<1>1. /\ UNCHANGED <<native, runs, tmp, caps, call, told, crossed>>
      /\ Stamps /\ Clock /\ Tidy
  BY DEF vars, Recording, Stamps
<1>2. /\ Stamped' = Stamped /\ Clock' /\ Ages
      /\ \A es, r, b : Kept(es, r, b) => Kept(es, r, b)'
  BY <1>1, NativeRests
<1>3. \A es : Ok(es) => Ok(es)'
  BY <1>2, OkStays
<1>4. Stamps'
  BY <1>1, <1>2, <1>3 DEF Stamps, StampOf, HasRun, HasEntry
<1>5. \A r, b : Owed(r, b)' <=> Owed(r, b)
  BY <1>1 DEF Owed
<1>6. \A r : CapKept(r) => CapKept(r)'
  BY <1>1 DEF CapKept
<1>7. \A c \in Callers : (Loading(c) => Loading(c)') /\ (Saving(c) => Saving(c)')
  <2>1. \A c, es : Holds(c, es) => Holds(c, es)'
    BY <1>1, <1>2, <1>5 DEF Holds
  <2> QED
    BY <1>1, <1>2, <1>6, <2>1 DEF Loading, Saving, HasEntry
<1> QED
  BY <1>1, <1>2, <1>4, <1>5, <1>6, <1>7 DEF Tidy, Rewriting

\* What is owed of a run that was returned is what the property asks of it.
LEMMA ReturnedAreOwed == ASSUME Recording PROVE RecordedUnlessCrossed
<1> SUFFICES ASSUME ~crossed, NEW r \in told
             PROVE  LET q == native[r].request IN
                    /\ \/ \E e \in runs.entries :
                            e.run = r /\ e.role = Role(q) /\ (e.report <=> q.tool \in DeepTools)
                       \/ Cardinality({x \in DOMAIN native : native[x].at > native[r].at}) >= Keep
                    /\ Cap(q) # None => <<r, Cap(q)>> \in caps
  BY DEF RecordedUnlessCrossed
<1> DEFINE b == (native[r].request.tool \in DeepTools)
<1>1. b \in BOOLEAN /\ Owed(r, b)
  <2>1. b \in BOOLEAN /\ b = (native[r].request.tool \in DeepTools)
    OBVIOUS
  <2> HIDE DEF b
  <2> QED
    BY <2>1, Zenon DEF Owed
<1>2. r \in Runs
  BY <1>1, OwedIsStamped DEF Stamped, Recording, Lineage, Agents
<1>3. Kept(runs.entries, r, b) /\ CapKept(r)
  <2> HIDE DEF b
  <2> QED
    BY <1>1, <1>2 DEF Recording, Tidy
<1>4. Shown(runs.entries, r, b) => \E e \in runs.entries :
        e.run = r /\ e.role = Role(native[r].request) /\ (e.report <=> native[r].request.tool \in DeepTools)
  BY DEF Shown
<1> QED
  BY <1>3, <1>4 DEF Kept, CapKept, Later

\* As long as no rewrite of either file began while another was under way, every run whose id was
\* returned is on record with its role and its report, or Keep later ones have replaced it,
\* and its cap is written (_record_provenance, _record_turn_cap, _spawn_deep).
THEOREM ReturnedRunsAreRecorded == Spec => []RecordedUnlessCrossed
<1>1. ASSUME Recording, [Next]_vars PROVE Recording'
  <2>1. Lineage
    BY <1>1 DEF Recording
  <2>2. ASSUME NEW c \in Callers,
               \/ \E q \in Requests : Ask(c, q)
               \/ \E r \in Runs : Launch(c, r)
               \/ LaunchFails(c) \/ Stamp(c) \/ Reread(c)
        PROVE  Recording'
    <3>1. Lineage'
      BY <2>1, <2>2, SpawnStep
    <3>2. Stamps' /\ Tidy'
      BY <1>1, <2>2, <3>1, SpawnRecords
    <3> QED
      BY <3>1, <3>2 DEF Recording
  <2>3. ASSUME NEW c \in Callers,
               Load(c) \/ Open(c) \/ Write(c) \/ Replace(c) \/ LoadCaps(c) \/ SaveCaps(c) \/ Die(c)
        PROVE  Recording'
    <3>1. Lineage'
      BY <2>1, <2>3, FileStep
    <3>2. Stamps' /\ Tidy'
      BY <1>1, <2>3, LoadRecords, OpenRecords, WriteRecords, ReplaceRecords, SaveCapsRecords
    <3> QED
      BY <3>1, <3>2 DEF Recording
  <2>4. CASE UNCHANGED vars
    BY <1>1, <2>1, <2>4, StutterKeepsLineage, StutterRecords DEF Recording
  <2> QED
    BY <1>1, <2>2, <2>3, <2>4 DEF Next
<1> QED
  BY InitRecording, <1>1, ReturnedAreOwed, PTL DEF Spec
=============================================================================
