---------------------------- MODULE NativeSpawn ----------------------------
(***************************************************************************)
(* Spawning native agents: what each may call (and so spawn in its turn),  *)
(* and the two files every server rewrites for each spawn, runs.json (the  *)
(* provenance) and turn_caps.json.  A server serves a session or, within   *)
(* an agent, that agent; nothing excludes one server's rewrite from        *)
(* another's, and all write runs.json through one temporary name.          *)
(***************************************************************************)
EXTENDS Dossier, FiniteSets

CONSTANTS
  Sessions,    \* the supervising sessions
  Runs,        \* the ids `claude --bg` hands out
  Requests,    \* the spawn calls that are made
  Keep,        \* PROVENANCE_KEEP
  MaxDeaths,   \* a bound on the servers that die
  DeepMaxTurns, \* DEEP_MAX_TURNS
  FullToolset, \* CLAUDE_LOCAL_DELEGATE_FULL_TOOLSET is set for the servers
  None

Builtins   == {"Read", "Edit", "Agent"}
DeepTools  == {"deep", "expert"}     \* deep_dive, context_pack, review_diff; start_expert
ServerTools == DeepTools \cup {"local", "architect", "agy"}   \* mcp__claude-local-delegate__*
Tools      == Builtins \cup ServerTools \cup {"nav", "serena"}

ReadOnlyTools         == {"Read", "nav"}
DelegationBlocked     == {"Agent"}

Callers == Sessions \cup Runs

Request == [tool : DeepTools \cup {"local", "architect"}, profile : {"think", "architect"},
            allowed : SUBSET Builtins, denied : SUBSET Tools,
            mode : {None, "dontAsk", "bypassPermissions"}, cap : Nat \cup {None}]

\* The caller of a deep tool chooses the text and the cap, nothing else.  An expert
\* "lives as long as it is asked": it has no ceiling unless its caller names one.
Deep(tool, cap) ==
  [tool |-> tool, profile |-> "think", allowed |-> Builtins \ DelegationBlocked, denied |-> {},
   mode |-> None, cap |-> IF tool = "expert" /\ cap = None THEN 0 ELSE cap]

ASSUME RequestAssumption ==
  /\ Requests \subseteq Request /\ None \notin Nat
  /\ \A q \in Requests : q.tool \in DeepTools => q = Deep(q.tool, q.cap)
ASSUME NameAssumption    == Sessions \cap Runs = {} /\ {None, "supervisor"} \cap Callers = {}
                            /\ None \notin {"worker", "architect"}
ASSUME KeepAssumption    == Keep \in Nat \ {0} /\ IsFiniteSet(Runs)
ASSUME CapAssumption     == DeepMaxTurns \in Nat
ASSUME SwitchAssumption  == FullToolset \in BOOLEAN

VARIABLES
  native,   \* the agents: what each was spawned with
  runs,     \* runs.json
  tmp,      \* runs.json.tmp
  caps,     \* turn_caps.json: pairs of a run and its cap
  call,     \* what each caller's server is doing
  told,     \* the runs whose ids were returned
  deaths,
  crossed   \* history: a rewrite of either file began while one of either was under way

vars == <<native, runs, tmp, caps, call, told, deaths, crossed>>

-----------------------------------------------------------------------------
(* What a spawned agent may do. *)

Role(q) == IF q.tool = "architect" \/ (q.tool = "local" /\ q.profile = "architect")
           THEN "architect" ELSE "worker"

IsReadOnly(q) == q.allowed # {} /\ q.allowed \subseteq ReadOnlyTools

\* --allowedTools.
Granted(q) ==
  q.allowed \cup {"nav", "serena"} \cup (IF Role(q) = "architect" THEN {"local"} ELSE {})

\* Mutant: the guard is left to the allowlist of a read-only delegation.
RecursiveUnlessReadOnly(q) ==
  IF Role(q) = "architect" THEN {"architect", "agy"} ELSE IF IsReadOnly(q) THEN {} ELSE ServerTools

\* The recursion guard: an architect may spawn workers only, a worker nothing.
Recursive(q) == IF Role(q) = "architect" THEN {"architect", "agy"} ELSE ServerTools

\* Mutant: only the built-in tools are denied.
MutatingBuiltins(q) == IF IsReadOnly(q) THEN Builtins \ q.allowed ELSE {}

\* What a read-only delegation is denied on top, since dontAsk alone does not.
Mutating(q) == IF IsReadOnly(q) THEN (Builtins \ q.allowed) \cup {"serena"} ELSE {}

\* --disallowedTools.
Denied(q) == q.denied \cup Recursive(q) \cup Mutating(q)

\* --permission-mode.
Mode(q) == IF q.mode # None THEN q.mode
           ELSE IF IsReadOnly(q) THEN "dontAsk" ELSE "bypassPermissions"

\* --tools, the built-in tools that are loaded at all; without the flag all are, those
\* that delegate among them.
Schema(q) == IF FullToolset THEN Builtins ELSE q.allowed \ DelegationBlocked

\* What Claude Code makes of the flags: bypassPermissions ignores --allowedTools.
Callable(q) ==
  LET loaded == (Schema(q) \cup (Tools \ Builtins)) \ Denied(q)
  IN  IF Mode(q) = "dontAsk" THEN loaded \cap Granted(q) ELSE loaded

MayCall(c, tool) == c \in Sessions \/ (c \in DOMAIN native /\ tool \in native[c].tools)

\* CLAUDE_LOCAL_DELEGATE_PARENT_TOKEN in a caller's environment.  The token is
\* named for the architect it was made for; other agents inherit what is set.
TokenOf(c) == IF c \in Sessions THEN None ELSE native[c].token
\* Mutant: a token that is set stays.
TokenIsKept(c, q, r) ==
  IF Role(q) = "architect" /\ TokenOf(c) = None THEN r ELSE TokenOf(c)

Token(c, q, r) == IF Role(q) = "architect" THEN r ELSE TokenOf(c)

\* The cap that is written for a run: an architect's is not, a deep run has a default.
Cap(q) == IF Role(q) = "architect" THEN None
          ELSE IF q.tool \in DeepTools /\ q.cap = None THEN DeepMaxTurns ELSE q.cap

-----------------------------------------------------------------------------
(* The files. *)

\* One entry of runs.json; a deep run's second write may leave one with nothing
\* else in it (role None, at 0).
Entry == [run : Runs, role : {"worker", "architect", None}, parent : Runs \cup {"supervisor"},
          token : Runs \cup {None}, at : 0..Cardinality(Runs), report : BOOLEAN]

\* A file is absent, truncated by open("w"), torn (one text over another, longer
\* one: no JSON) or holds entries.
File == [is : {"absent", "empty", "torn", "json"}, entries : SUBSET Entry]

Absent == [is |-> "absent", entries |-> {}]
Empty  == [is |-> "empty", entries |-> {}]
Torn   == [is |-> "torn", entries |-> {}]
Json(es) == [is |-> "json", entries |-> es]

\* _load_provenance reads what is no JSON as no entries.
Loaded(f) == f.entries

\* What is in a file after a text is written over it from the start.
Written(f, text) == {text} \cup (IF f.is \in {"torn", "json"} THEN {Torn} ELSE {})

ParentOf(token) ==
  IF token # None /\ \E e \in Loaded(runs) : e.token = token
  THEN (CHOOSE e \in Loaded(runs) : e.token = token).run ELSE "supervisor"

\* The Keep newest entries stay; which of two equally old ones goes is open.
Newest(es) ==
  {k \in SUBSET es : /\ Cardinality(k) = (IF Cardinality(es) <= Keep THEN Cardinality(es) ELSE Keep)
                     /\ \A x \in es \ k, y \in k : x.at <= y.at}

\* time.time(): later spawns have greater stamps.
Now == 1 + Cardinality({r \in DOMAIN native : native[r].at > 0})

Full(c, r) ==
  [run |-> r, role |-> Role(native[r].request), parent |-> ParentOf(TokenOf(c)),
   token |-> IF Role(native[r].request) = "architect" THEN r ELSE None,
   at |-> Now, report |-> FALSE]

Bare(r) == [run |-> r, role |-> None, parent |-> "supervisor", token |-> None,
            at |-> 0, report |-> FALSE]

\* Mutant: the second write replaces the entry.
ReportedAlone(r) == [Bare(r) EXCEPT !.report = TRUE]

\* _provenance_for(run) or {}, with the report's path.
Reported(r) ==
  LET found == {e \in Loaded(runs) : e.run = r}
      old   == IF found = {} THEN Bare(r) ELSE CHOOSE e \in found : TRUE
  IN  [old EXCEPT !.report = TRUE]

Idle == [at |-> "idle", request |-> None, run |-> None, entry |-> None, seen |-> {}, fd |-> None]

Go(c, s) == call' = [call EXCEPT ![c] = s]

Init ==
  /\ native = <<>>
  /\ runs = Absent /\ tmp = Absent /\ caps = {}
  /\ call = [c \in Callers |-> Idle]
  /\ told = {} /\ deaths = 0 /\ crossed = FALSE

-----------------------------------------------------------------------------
(* One spawn: delegate_to_local, delegate_to_architect or a deep tool. *)

Ask(c, q) ==
  /\ call[c].at = "idle" /\ MayCall(c, q.tool)
  /\ Go(c, [Idle EXCEPT !.at = "launch", !.request = q])
  /\ UNCHANGED <<native, runs, tmp, caps, told, deaths, crossed>>

Born(c, r) ==
  /\ r \notin DOMAIN native
  /\ LET q == call[c].request
         agent == [by |-> c, request |-> q, token |-> Token(c, q, r), tools |-> Callable(q), at |-> 0]
     IN  native' = [x \in DOMAIN native \cup {r} |-> IF x = r THEN agent ELSE native[x]]

\* `claude --bg` prints the id of an agent, which is running by then.
Launch(c, r) ==
  /\ call[c].at = "launch" /\ Born(c, r)
  /\ Go(c, [call[c] EXCEPT !.at = "stamp", !.run = r])
  /\ UNCHANGED <<runs, tmp, caps, told, deaths, crossed>>

\* It is missing, exits with an error, times out or prints no id: the call is an
\* error, with an agent that nobody records or without one.
LaunchFails(c) ==
  /\ call[c].at = "launch"
  /\ native' = native \/ \E r \in Runs : Born(c, r)
  /\ Go(c, Idle)
  /\ UNCHANGED <<runs, tmp, caps, told, deaths, crossed>>

\* The entry: the caller's token is looked up among the entries there are by now.
Stamp(c) ==
  /\ call[c].at = "stamp"
  /\ Go(c, [call[c] EXCEPT !.at = "load", !.entry = Full(c, call[c].run)])
  /\ native' = [native EXCEPT ![call[c].run].at = Now]
  /\ UNCHANGED <<runs, tmp, caps, told, deaths, crossed>>

Rewriting(c) == call[c].at \in {"open", "write", "replace", "save cap"}

Others(c) == \E d \in Callers \ {c} : Rewriting(d)

\* _record_provenance, one action per call that touches a file.
Load(c) ==
  /\ call[c].at = "load"
  /\ Go(c, [call[c] EXCEPT !.at = "open", !.seen = Loaded(runs)])
  /\ crossed' = (crossed \/ Others(c))
  /\ UNCHANGED <<native, runs, tmp, caps, told, deaths>>

Open(c) ==
  /\ call[c].at = "open"
  /\ LET e == call[c].entry
     IN \E k \in Newest({x \in call[c].seen : x.run # e.run} \cup {e}) :
          Go(c, [call[c] EXCEPT !.at = "write", !.seen = k, !.fd = "tmp"])
  /\ tmp' = Empty
  /\ UNCHANGED <<native, runs, caps, told, deaths, crossed>>

\* The text reaches the file that was opened, under whatever name it has by now.
Write(c) ==
  /\ call[c].at = "write"
  /\ IF call[c].fd = "tmp" THEN tmp' \in Written(tmp, Json(call[c].seen)) ELSE tmp' = tmp
  /\ IF call[c].fd = "runs" THEN runs' \in Written(runs, Json(call[c].seen)) ELSE runs' = runs
  /\ Go(c, [call[c] EXCEPT !.at = "replace", !.fd = None])
  /\ UNCHANGED <<native, caps, told, deaths, crossed>>

\* After the first entry the caps are next, after the second, a report's, nothing.
AfterReplace(s) ==
  IF s.entry.report \/ (Cap(s.request) = None) THEN Idle ELSE [s EXCEPT !.at = "cap"]

\* os.replace: the temporary name becomes the file, for all who have it open; when
\* somebody else has replaced it already, the error is swallowed.
Replace(c) ==
  /\ call[c].at = "replace"
  /\ LET moved(fd) == IF fd = "tmp" THEN "runs" ELSE None
         next == AfterReplace(call[c])
     IN  IF tmp.is = "absent"
         THEN Go(c, next) /\ UNCHANGED <<runs, tmp>>
         ELSE /\ runs' = tmp /\ tmp' = Absent
              /\ call' = [d \in Callers |-> IF d = c THEN next
                                             ELSE [call[d] EXCEPT !.fd = moved(call[d].fd)]]
  /\ told' = IF AfterReplace(call[c]) = Idle THEN told \cup {call[c].run} ELSE told
  /\ UNCHANGED <<native, caps, deaths, crossed>>

\* _record_turn_cap; its temporary name has the pid in it.
LoadCaps(c) ==
  /\ call[c].at = "cap"
  /\ Go(c, [call[c] EXCEPT !.at = "save cap", !.seen = caps])
  /\ crossed' = (crossed \/ Others(c))
  /\ UNCHANGED <<native, runs, tmp, caps, told, deaths>>

SaveCaps(c) ==
  /\ call[c].at = "save cap"
  /\ caps' = {x \in call[c].seen : x[1] # call[c].run} \cup {<<call[c].run, Cap(call[c].request)>>}
  /\ LET deep == call[c].request.tool \in DeepTools
     IN  /\ Go(c, IF deep THEN [call[c] EXCEPT !.at = "report", !.seen = {}] ELSE Idle)
         /\ told' = IF deep THEN told ELSE told \cup {call[c].run}
  /\ UNCHANGED <<native, runs, tmp, deaths, crossed>>

\* _spawn_deep reads the entry back, adds the report's path and records it again.
Reread(c) ==
  /\ call[c].at = "report"
  /\ Go(c, [call[c] EXCEPT !.at = "load", !.entry = Reported(call[c].run)])
  /\ UNCHANGED <<native, runs, tmp, caps, told, deaths, crossed>>

\* A server dies in a spawn; another takes its place.
Die(c) ==
  /\ deaths < MaxDeaths /\ call[c].at # "idle"
  /\ deaths' = deaths + 1
  /\ Go(c, Idle)
  /\ UNCHANGED <<native, runs, tmp, caps, told, crossed>>

Next ==
  \E c \in Callers :
    \/ \E q \in Requests : Ask(c, q)
    \/ \E r \in Runs : Launch(c, r)
    \/ LaunchFails(c) \/ Stamp(c)
    \/ Load(c) \/ Open(c) \/ Write(c) \/ Replace(c)
    \/ LoadCaps(c) \/ SaveCaps(c) \/ Reread(c)
    \/ Die(c)

Spec == Init /\ [][Next]_vars

-----------------------------------------------------------------------------
(* What reads the files. *)

\* show_agent_tree, its limits aside: workers of the supervisor, architects, and the
\* workers of those architects.
Architects(es) == {e \in es : e.role = "architect"}
Parents(es)    == {e.run : e \in es}
ChildrenOfAny(es) == {e \in es \ Architects(es) : e.parent # "supervisor"}   \* a mutant
Children(es)   == {e \in es \ Architects(es) : e.parent \in Parents(es)}
Tree(es)       == {e \in Children(es) : e.parent \in Parents(Architects(es))}
                    \cup Architects(es) \cup (es \ (Architects(es) \cup Children(es)))

\* get_delegate_result puts the dossier before the final message.
HasReport(r) == \E e \in Loaded(runs) : e.run = r /\ e.report

-----------------------------------------------------------------------------
(* Properties. *)

Launcher(r) == native[r].by

\* An entry says what is so: its role and its parent are the run's, or it says none
\* (role None, "supervisor"), although the parent is looked up by a token in a file
\* that may not have it yet, or not any more; and only a deep run's has a report.
LineageIsTrue ==
  \A e \in runs.entries :
    /\ e.run \in DOMAIN native
    /\ e.role \in {None, Role(native[e.run].request)}
    /\ e.parent \in {"supervisor", Launcher(e.run)}
    /\ e.report => native[e.run].request.tool \in DeepTools

\* "a delegated agent cannot grow unbounded delegation depth": a worker has spawned
\* nothing, whatever tools its caller listed and whichever mode it chose.
WorkersAreLeaves ==
  \A r \in DOMAIN native : Launcher(r) \in Runs =>
    Role(native[Launcher(r)].request) = "architect"

\* A run spawned as read-only cannot change the project itself, in any mode and with
\* either toolset: of the tools modelled, Edit, Agent and Serena's mutating ones are
\* beyond it.  What an architect may spawn is no part of this.
ReadOnlyHolds ==
  \A r \in DOMAIN native : IsReadOnly(native[r].request) =>
    native[r].tools \cap {"Edit", "Agent", "serena"} = {}

\* "Every spawn this server performs is written here": what was returned is on
\* record, with its role, its report and its cap, unless Keep later ones replaced
\* it - as long as no rewrite of either file began while another was under way.
RecordedUnlessCrossed ==
  ~crossed => \A r \in told :
    LET q == native[r].request IN
    /\ \/ \E e \in runs.entries :
            e.run = r /\ e.role = Role(q) /\ (e.report <=> q.tool \in DeepTools)
       \/ Cardinality({x \in DOMAIN native : native[x].at > native[r].at}) >= Keep
    /\ Cap(q) # None => <<r, Cap(q)>> \in caps

\* Every run on record is somewhere in the tree, limits aside: below its parent only
\* if the parent itself is shown (show_agent_tree_handler).
TreeHidesNothing == Tree(Loaded(runs)) = Loaded(runs)

\* What a deep run's caller is answered is within DEEP_RESULT_MAX_CHARS ("one tool
\* result"), whatever the run wrote, but for the footer, which nobody counts.
ResultFits == \A r \in told : HasReport(r) => ResultsFit

\* An architect "cannot recursively delegate to architects" (server.py:987).
\* It does not hold; the README says what happens.
ArchitectsDoNotNest ==
  \A r \in DOMAIN native : Role(native[r].request) = "architect" => Launcher(r) \in Sessions
=============================================================================
