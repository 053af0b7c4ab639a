------------------------------ MODULE Transcript ------------------------------
(***************************************************************************)
(* The JSONL transcript of one native session, and its readers: the        *)
(* server's summary with its cache, the proof that a run has ended, and    *)
(* the statistics of metrics.py and contrib/history_stats.py.  The session *)
(* appends while they read, and a line may be there in part only.  Of an   *)
(* entry is kept who wrote it, the response it belongs to, which kinds of  *)
(* content block it carries, the tool call with the id of its block, and   *)
(* the stop reason.  Claude Code splits one response over several entries, *)
(* with one tool_use block at most in each, and may write a block twice:   *)
(* the readers of the statistics say so, and their tests.                  *)
(***************************************************************************)
EXTENDS Naturals, FiniteSets, SequencesExt

CONSTANTS
  Readers,     \* the server's threads that summarise: requests, waits, the sweep
  Calls,       \* the tool calls an agent can make, with their arguments
  Past,        \* how many tool calls the agent has made before
  MaxEntries,  \* a bound on the transcript
  MaxWalks,    \* a bound on how often it is summarised
  CacheMax,    \* _SUMMARY_CACHE_MAX
  DigestKeep,  \* _DIGEST_KEEP
  CallsKeep,   \* how many tool calls a summary keeps (32)
  None

ASSUME NatAssumption  == Past \in Nat /\ {MaxEntries, MaxWalks, CacheMax, DigestKeep, CallsKeep} \subseteq Nat \ {0}
ASSUME NoneAssumption == None \notin Calls \cup Nat \cup {"tool_use", "end_turn"}

VARIABLES
  log,    \* the entries, in the order they were appended
  torn,   \* the last of them is on disk in part
  resp,   \* how many responses the agent has begun
  ends,   \* how the response under way ends, None between two
  made,   \* how many tool calls it has made: their numbers are the ids of their blocks
  asked,  \* the response under way has made one
  over,   \* the agent has ended its turn and nobody has spoken since
  cache,  \* _SUMMARY_CACHE: size of the file to how many lines were read
  walks,  \* how many walks were begun
  pc,     \* where each reader is
  key,    \* the size its stat returned
  got     \* how many lines its walk read

agent   == <<resp, ends, made, asked, over>>
readers == <<cache, walks, pc, key, got>>
sessionVars    == <<log, torn, resp, ends, made, asked, over, cache, walks, pc, key, got>>

-----------------------------------------------------------------------------
(* The transcript. *)

Kinds  == {"user", "assistant", "meta"}
BlockKinds == {"thinking", "text", "tool_use", "tool_result"}
Stops  == {"tool_use", "end_turn"}

Entry == [kind : Kinds, id : Nat, blocks : SUBSET BlockKinds, call : Calls \cup {None},
          use : Nat, stop : Stops \cup {None}]

From(user, blocks) ==
  [kind |-> user, id |-> 0, blocks |-> blocks, call |-> None, use |-> 0, stop |-> None]

Says(id, blocks, call, use, stop) ==
  [kind |-> "assistant", id |-> id, blocks |-> blocks, call |-> call, use |-> use, stop |-> stop]

\* _iter_events: what a reader makes of the file now; a line that does not parse is skipped.
Lines == IF torn THEN Front(log) ELSE log

Size == 2 * Len(log) - (IF torn THEN 1 ELSE 0)

\* How many lines are whole in a file of this size.
WholeAt(size) == size \div 2

Assistant(s) == SelectSeq(s, LAMBDA e : e.kind = "assistant")

-----------------------------------------------------------------------------
(* What the readers compute. *)

\* _transcript_summary: one turn for every assistant entry.
Turns(s) == Len(Assistant(s))

\* Its list of tool calls, of which the last CallsKeep are kept.
ToolCalls(s) ==
  LET Collect(calls, e) == IF "tool_use" \in e.blocks THEN Append(calls, e.call) ELSE calls
  IN  FoldLeft(Collect, <<>>, s)

LastOf(s, n) == SubSeq(s, IF Len(s) > n THEN Len(s) - n + 1 ELSE 1, Len(s))

\* _repeat_streak: how many identical calls a list ends with.
RepeatStreak(calls) ==
  IF Len(calls) < 2 THEN 0
  ELSE LET differ == {i \in 1..Len(calls) : calls[i] # Last(calls)}
       IN  Len(calls) - (IF differ = {} THEN 0 ELSE Max(differ))

\* The narration of an entry of the agent: a line for its text, then one for its tool call.
Narration(e) ==
  LET Of(block) == IF e.kind = "assistant" /\ block \in e.blocks THEN <<<<e.id, block>>>> ELSE <<>>
  IN  Of("text") \o Of("tool_use")

\* Mutant: the list is cut at its bound, to half of it.
DigestCutShort(s) ==
  LET Add(lines, e) == LET all == lines \o Narration(e)
                       IN  IF Len(all) > DigestKeep THEN LastOf(all, DigestKeep \div 2) ELSE all
  IN  LastOf(FoldLeft(Add, <<>>, s), DigestKeep)

\* The digest: the list is cut to its last DigestKeep lines whenever it exceeds twice that
\* many, and once more at the end.
Digest(s) ==
  LET Add(lines, e) == LET all == lines \o Narration(e)
                       IN  IF Len(all) > 2 * DigestKeep THEN LastOf(all, DigestKeep) ELSE all
  IN  LastOf(FoldLeft(Add, <<>>, s), DigestKeep)

\* Where the conversation is, and where the agent says something.
Talk(s) == {i \in DOMAIN s : s[i].kind \in {"user", "assistant"}}
Said(s) == {i \in DOMAIN s : s[i].kind = "assistant" /\ "text" \in s[i].blocks}

Concludes(e) ==
  e.kind = "assistant" /\ e.stop = "end_turn" /\ "tool_use" \notin e.blocks /\ "text" \in e.blocks

\* Mutant: only what the agent says matters.
TerminalFinalOfAgent(s) ==
  IF Said(s) # {} /\ Concludes(s[Max(Said(s))]) THEN s[Max(Said(s))].id ELSE None

\* _terminal_final_text: the response whose text proves that the run has ended, or None.
TerminalFinal(s) ==
  IF Talk(s) # {} /\ Concludes(s[Max(Talk(s))]) THEN s[Max(Talk(s))].id ELSE None

\* _last_assistant_text: the response of the last entry with text.
LastText(s) == IF Said(s) = {} THEN None ELSE s[Max(Said(s))].id

\* The lines with a tool_use block, and whether one of these blocks is there twice.
Asking(s)   == {i \in DOMAIN s : "tool_use" \in s[i].blocks}
Repeated(s) == \E i, j \in Asking(s) : i # j /\ s[i].use = s[j].use

\* Mutant: blocks are counted, not the calls they stand for.
StatsBlocks(s) == Cardinality(Asking(s))

\* metrics.transcript_stats: responses and tool calls, each counted once by its id.
ApiCalls(s)   == Cardinality({e.id : e \in {f \in ToSet(s) : f.kind = "assistant"}})
StatsCalls(s) == Cardinality({s[i].use : i \in Asking(s)})

\* history_stats.stream_transcript: the turns by the id of the response, the calls block by
\* block, and the size of the last text it met.
HistoryTurns(s) ==
  LET Count(seen, e) == IF e.kind = "assistant" THEN seen \cup {e.id} ELSE seen
  IN  Cardinality(FoldLeft(Count, {}, s))
HistoryCalls(s) == Cardinality(Asking(s))
HistoryFinal(s) ==
  LET Hear(last, e) == IF e.kind = "assistant" /\ "text" \in e.blocks THEN e.id ELSE last
  IN  FoldLeft(Hear, None, s)

-----------------------------------------------------------------------------
(* The session. *)

\* A run starts with the prompt it was given; the servers look at it when it has made some
\* calls, each in a response of its own.
SessionInit ==
  /\ \E past \in [1..Past -> Calls] :
       log = [i \in 1..2 * Past + 1 |->
                IF i = 1 THEN From("user", {"text"})
                ELSE IF i % 2 = 0
                     THEN Says(i \div 2, {"tool_use"}, past[i \div 2], i \div 2, "tool_use")
                ELSE From("user", {"tool_result"})]
  /\ torn = FALSE
  /\ resp = Past /\ ends = None /\ made = Past /\ asked = FALSE /\ over = FALSE
  /\ cache = <<>> /\ walks = 0
  /\ pc = [r \in Readers |-> "idle"]
  /\ key = [r \in Readers |-> 0]
  /\ got = [r \in Readers |-> 0]

\* An entry reaches the disk, whole or first in part.
Write(e) ==
  /\ ~torn /\ Len(log) < MaxEntries
  /\ log' = Append(log, e)
  /\ torn' \in BOOLEAN

WriteRest ==
  /\ torn
  /\ torn' = FALSE
  /\ UNCHANGED <<log, agent, readers>>

\* The model answers: with tool calls, or to end its turn.
Respond(how) ==
  /\ ends = None /\ ~over /\ ~torn
  /\ resp' = resp + 1
  /\ ends' = how /\ asked' = FALSE
  /\ UNCHANGED <<log, torn, made, over, readers>>

\* An entry of the response that does not conclude it.  Its stop reason may be unknown yet.
Narrate(blocks, stop) ==
  /\ ends # None /\ ~asked
  /\ blocks \in {{"thinking"}, {"text"}}
  /\ ends = "end_turn" => blocks = {"thinking"}
  /\ stop \in {ends, None}
  /\ Write(Says(resp, blocks, None, 0, stop))
  /\ UNCHANGED <<agent, readers>>

\* The entry with a tool call, alone or with what came before it.  A response may make several.
Call(blocks, call) ==
  /\ ends = "tool_use"
  /\ blocks \in {{"tool_use"}, {"text", "tool_use"}}
  /\ asked => blocks = {"tool_use"}
  /\ Write(Says(resp, blocks, call, made + 1, "tool_use"))
  /\ made' = made + 1 /\ asked' = TRUE
  /\ UNCHANGED <<resp, ends, over, readers>>

\* The block with its last call comes once more.
Again ==
  /\ ends = "tool_use" /\ asked
  /\ \E i \in Asking(log) :
       /\ log[i].use = made
       /\ Write(Says(resp, {"tool_use"}, log[i].call, made, "tool_use"))
  /\ UNCHANGED <<agent, readers>>

\* The tools' results come back.
Result ==
  /\ ends = "tool_use" /\ asked
  /\ Write(From("user", {"tool_result"}))
  /\ ends' = None
  /\ UNCHANGED <<resp, made, asked, over, readers>>

\* The last entry of a response that ends the turn; it may have no text.
EndTurn(blocks) ==
  /\ ends = "end_turn"
  /\ blocks \in {{"text"}, {"thinking"}}
  /\ Write(Says(resp, blocks, None, 0, "end_turn"))
  /\ ends' = None
  /\ over' = TRUE
  /\ UNCHANGED <<resp, made, asked, readers>>

\* Someone sends the session a message: it has another turn to do.
Resume ==
  /\ over
  /\ Write(From("user", {"text"}))
  /\ over' = FALSE
  /\ UNCHANGED <<resp, ends, made, asked, readers>>

\* Bookkeeping of the roster, at any time.
Note ==
  /\ Last(log).kind # "meta"
  /\ Write(From("meta", {}))
  /\ UNCHANGED <<agent, readers>>

-----------------------------------------------------------------------------
(* The server's summary. *)

\* The stat comes first.  A summary kept for this size would answer the call at once.
Stat(r) ==
  /\ pc[r] = "idle" /\ Size \notin DOMAIN cache
  /\ walks < MaxWalks
  /\ walks' = walks + 1
  /\ key' = [key EXCEPT ![r] = Size]
  /\ pc' = [pc EXCEPT ![r] = "keyed"]
  /\ UNCHANGED <<log, torn, agent, cache, got>>

\* The file is walked to where it ends by then; a full cache is emptied.
Walk(r) ==
  /\ pc[r] = "keyed"
  /\ got' = [got EXCEPT ![r] = Len(Lines)]
  /\ cache' = IF Cardinality(DOMAIN cache) >= CacheMax THEN <<>> ELSE cache
  /\ pc' = [pc EXCEPT ![r] = "walked"]
  /\ UNCHANGED <<log, torn, agent, walks, key>>

\* Mutant: the file is measured once it has been walked.
KeepBySizeNow(r) ==
  /\ pc[r] = "walked"
  /\ cache' = [size \in DOMAIN cache \cup {Size} |-> IF size = Size THEN got[r] ELSE cache[size]]
  /\ pc' = [pc EXCEPT ![r] = "idle"]
  /\ key' = [key EXCEPT ![r] = 0]
  /\ got' = [got EXCEPT ![r] = 0]
  /\ UNCHANGED <<log, torn, agent, walks>>

\* The summary is kept under the size of the stat, whatever another thread kept meanwhile.
Keep(r) ==
  /\ pc[r] = "walked"
  /\ cache' = [size \in DOMAIN cache \cup {key[r]} |-> IF size = key[r] THEN got[r] ELSE cache[size]]
  /\ pc' = [pc EXCEPT ![r] = "idle"]
  /\ key' = [key EXCEPT ![r] = 0]
  /\ got' = [got EXCEPT ![r] = 0]
  /\ UNCHANGED <<log, torn, agent, walks>>

SessionNext ==
  \/ WriteRest \/ Again \/ Result \/ Resume \/ Note
  \/ \E how \in Stops : Respond(how)
  \/ \E blocks \in SUBSET BlockKinds, stop \in Stops \cup {None} : Narrate(blocks, stop)
  \/ \E blocks \in SUBSET BlockKinds, call \in Calls : Call(blocks, call)
  \/ \E blocks \in SUBSET BlockKinds : EndTurn(blocks)
  \/ \E r \in Readers : Stat(r) \/ Walk(r) \/ Keep(r)

SessionSpec == SessionInit /\ [][SessionNext]_sessionVars

-----------------------------------------------------------------------------
(* What the readers promise. *)

\* A summary is never older than the call that gets it: whatever the threads store and in
\* which order, what a size of the file is answered with shows every line that is whole at
\* that size (_transcript_summary's cache, keyed by a stat that precedes the walk).
SummaryIsFresh == \A size \in DOMAIN cache : cache[size] >= WholeAt(size)

\* A transcript proves that a run has ended only when it has: the agent ended its turn, the
\* answer given is the text of its last response, and nobody has spoken since, unless their
\* line is still being written (_terminal_final_text, which get_result and stop_delegate
\* believe against the roster).
EndIsProven ==
  LET final == TerminalFinal(Lines)
  IN  final # None => /\ final = resp /\ final = LastText(Lines)
                      /\ over \/ (torn /\ Last(log).kind = "user")

\* Split and repeated entries do not inflate the ledger: between two responses it counts
\* every response and every tool call once (transcript_stats).  The history counts the same
\* responses and sees the same last text, but of calls it counts every block it meets: it is
\* never below the ledger, and above it exactly where a block is there twice
\* (stream_transcript, which does not look at the blocks' ids).
StatsCountOnce ==
  /\ ends = None /\ ~torn =>
       /\ ApiCalls(log) = resp /\ HistoryTurns(log) = resp
       /\ StatsCalls(log) = made
  /\ StatsCalls(Lines) <= HistoryCalls(Lines)
  /\ StatsCalls(Lines) = HistoryCalls(Lines) <=> ~Repeated(Lines)
  /\ LastText(Lines) = HistoryFinal(Lines)

\* All that is narrated.
Narrative(s) ==
  LET Tell(lines, e) == lines \o Narration(e)
  IN  FoldLeft(Tell, <<>>, s)

\* Cutting the narration and the calls to their last ones while the file is read loses
\* nothing of what is shown in the end, and nothing of what the guard looks for: a run of
\* identical calls of any length up to the number kept, and no other (_transcript_summary's
\* bounds on memory; _repeat_streak over its tool_calls).
DigestIsTail == Digest(Lines) = LastOf(Narrative(Lines), DigestKeep)

StreakIsSeen ==
  LET calls == ToolCalls(Lines)
  IN  \A cap \in 2..CallsKeep :
        RepeatStreak(LastOf(calls, CallsKeep)) >= cap
          <=> Len(calls) >= cap /\ \A c \in ToSet(LastOf(calls, cap)) : c = Last(calls)
SummaryShowsTail == DigestIsTail /\ StreakIsSeen

\* The turns that status, results and the turn guard speak of are the model's turns
\* (_token_usage's "model_turns", the ceiling of "40 turns").
TurnsAreResponses == ends = None /\ ~torn => Turns(log) = resp
=============================================================================
