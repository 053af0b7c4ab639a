------------------------------- MODULE Serving -------------------------------
(***************************************************************************)
(* One stdio server at work: its serial loop, the threads on which the     *)
(* calls that may sleep run, the reply stream they share, and the calls a  *)
(* supervisor follows a native session with: get_delegate_result, which    *)
(* may wait inside the server, watch_delegate and check_delegate_status.   *)
(* They read the roster, which lags the session, and its transcript, which *)
(* does not.  (get_agy_result, the third call with a thread of its own,    *)
(* reads no roster: AgyRuns.)                                              *)
(* What a transcript proves is Transcript's subject, how the turn guard    *)
(* stops a session that of Stopping: each is one step here.                *)
(***************************************************************************)
EXTENDS Naturals, FiniteSets, SequencesExt

CONSTANTS
  Waits,        \* calls of get_delegate_result
  Watches,      \* calls of watch_delegate
  Polls,        \* calls of check_delegate_status
  MaxUnknown,   \* MAX_UNKNOWN_STATE_READS
  MaxEpisodes,  \* a bound on how often the session blocks
  MaxTurns,     \* a bound on how often it is given work
  None

ASSUME NatAssumption   == MaxUnknown \in Nat /\ {MaxEpisodes, MaxTurns} \subseteq Nat \ {0}
ASSUME CallsAssumption ==
  /\ Waits \cap Polls = {} /\ Waits \cap Watches = {} /\ Watches \cap Polls = {}
  /\ None \notin Waits \cup Watches \cup Polls
ASSUME FiniteAssumption == IsFiniteSet(Waits \cup Watches \cup Polls)

VARIABLES
  agent,     \* the session: "working", "blocked", "idle" or "stopped"
  turn,      \* which piece of work it is at
  episode,   \* how often it has blocked
  text,      \* the last text in the transcript: its turn, and whether it concludes it
  proven,    \* the transcript proves that the session has ended its turn
  shown,     \* what the roster shows of it: agent, turn and episode, of now or earlier
  killed,    \* _TURN_GUARD_KILLED
  recorded,  \* _BLOCKED_RECORDED
  events,    \* the ledger: of each episode, how many blocked events
  inbox,     \* the lines still to come on stdin, before its end
  serial,    \* the call the loop is answering, or None
  pc,        \* where each call is
  late,      \* the waits that wait no more: the deadline has passed, or the loop has ended
  patient,   \* the waits that have wait_seconds
  seen,      \* what each call's last roster read returned
  unknowns,  \* how many reads in a row had no state
  reply,     \* the answer of each call
  pen,       \* who holds write_lock
  out,       \* stdout, in halves of lines
  exited,    \* the process has ended
  ready      \* the waits that began with their answer in the transcript, if it still is

session == <<agent, turn, episode, text, proven>>
ledger  == <<recorded, events>>
server  == <<inbox, serial, exited>>
stream  == <<pen, out>>
call    == <<late, patient, seen, unknowns>>
vars    == <<session, shown, killed, ledger, server, pc, call, reply, stream, ready>>

Reqs    == Waits \cup Watches \cup Polls
Settled == {"idle", "stopped"}
Live    == {"working", "unknown"}   \* "busy" is not told from "working"
NotSeen == [agent |-> "unknown", turn |-> 1, episode |-> 0]
NoReply == [kind |-> "none", turn |-> 0, whole |-> FALSE]
Sight   == [agent |-> agent, turn |-> turn, episode |-> IF agent = "blocked" THEN episode ELSE 0]

Init ==
  /\ agent = "working" /\ turn = 1 /\ episode = 0
  /\ text = [turn |-> 0, whole |-> FALSE] /\ proven = FALSE
  /\ shown = Sight /\ killed = FALSE
  /\ recorded = FALSE /\ events = [e \in 1..MaxEpisodes |-> 0]
  /\ inbox \in SetToSeqs(Reqs) /\ serial = None /\ exited = FALSE
  /\ pc = [r \in Reqs |-> "queued"]
  /\ late = {} /\ patient = {} /\ ready = {}
  /\ seen = [r \in Reqs |-> NotSeen] /\ unknowns = [r \in Reqs |-> 0]
  /\ reply = [r \in Reqs |-> NoReply]
  /\ pen = None /\ out = <<>>

-----------------------------------------------------------------------------
(* The session and its roster entry. *)

calls == <<killed, ledger, server, pc, call, reply, stream>>

Narrate ==
  /\ agent = "working" /\ text.turn < turn
  /\ text' = [turn |-> turn, whole |-> FALSE]
  /\ UNCHANGED <<agent, turn, episode, proven, shown, ready, calls>>

Block ==
  /\ agent = "working" /\ episode < MaxEpisodes
  /\ agent' = "blocked" /\ episode' = episode + 1
  /\ UNCHANGED <<turn, text, proven, shown, ready, calls>>

Unblock ==
  /\ agent = "blocked"
  /\ agent' = "working"
  /\ UNCHANGED <<turn, episode, text, proven, shown, ready, calls>>

\* It ends its turn, with a text that concludes it or without.
End ==
  /\ agent = "working"
  /\ agent' = "idle"
  /\ \/ text' = [turn |-> turn, whole |-> TRUE] /\ proven' = TRUE
     \/ UNCHANGED <<text, proven>>
  /\ UNCHANGED <<turn, episode, shown, ready, calls>>

\* Someone sends it a message.
Resume ==
  /\ agent = "idle" /\ turn < MaxTurns
  /\ agent' = "working" /\ turn' = turn + 1
  /\ proven' = FALSE /\ ready' = {}
  /\ UNCHANGED <<episode, text, shown, calls>>

\* The roster catches up.
Refresh ==
  /\ shown # Sight
  /\ shown' = Sight
  /\ UNCHANGED <<session, ready, calls>>

-----------------------------------------------------------------------------
(* The stdio loop. *)

others == <<session, shown, killed, ledger>>

\* Mutant: every call is answered by the loop itself.
ConcurrentNone(r) == FALSE

\* CONCURRENT_CALLS: the calls that get a thread of their own.
Concurrent(r) == r \in Waits \cup Watches

\* main takes a line.  A wait without wait_seconds is late from the start.
Take(r) ==
  /\ serial = None /\ inbox # <<>> /\ r = Head(inbox)
  /\ inbox' = Tail(inbox)
  /\ serial' = IF Concurrent(r) THEN None ELSE r
  /\ IF r \in Waits
     THEN /\ pc' = [pc EXCEPT ![r] = "look"]
          /\ \/ late' = late \cup {r} /\ patient' = patient
             \/ patient' = patient \cup {r} /\ late' = late
          /\ ready' = IF proven THEN ready \cup {r} ELSE ready
          /\ reply' = reply
     ELSE /\ pc' = [pc EXCEPT ![r] = IF r \in Watches THEN "watch" ELSE "status"]
          /\ reply' = [reply EXCEPT ![r].kind = "status"]
          /\ UNCHANGED <<late, patient, ready>>
  /\ UNCHANGED <<others, exited, seen, unknowns, stream>>

\* A call that is answered keeps nothing but its place, and a wait that it was late.
Forget(r) ==
  /\ seen' = [seen EXCEPT ![r] = NotSeen] /\ reply' = [reply EXCEPT ![r] = NoReply]
  /\ unknowns' = [unknowns EXCEPT ![r] = 0]
  /\ patient' = patient \ {r} /\ ready' = ready \ {r}

\* Mutant: write_lock is not taken.
WriteUnlocked(r) ==
  /\ pc[r] = "reply"
  /\ pen' = r
  /\ out' = Append(out, r)
  /\ pc' = [pc EXCEPT ![r] = "writing"]
  /\ Forget(r)
  /\ UNCHANGED <<others, server, late>>

\* respond, with write_lock: the reply goes out in pieces.
Write(r) ==
  /\ pc[r] = "reply" /\ pen = None
  /\ pen' = r
  /\ out' = Append(out, r)
  /\ pc' = [pc EXCEPT ![r] = "writing"]
  /\ Forget(r)
  /\ UNCHANGED <<others, server, late>>

Flush(r) ==
  /\ pc[r] = "writing"
  /\ out' = Append(out, r)
  /\ pen' = None
  /\ pc' = [pc EXCEPT ![r] = "done"]
  /\ serial' = IF serial = r THEN None ELSE serial
  /\ late' = late \ {r}
  /\ UNCHANGED <<others, inbox, exited, patient, seen, unknowns, reply, ready>>

\* At the end of stdin the loop joins the threads in flight.
Exit ==
  /\ inbox = <<>> /\ serial = None /\ ~exited
  /\ \A r \in Reqs : Concurrent(r) => pc[r] = "done"
  /\ exited' = TRUE
  /\ UNCHANGED <<others, inbox, serial, pc, call, reply, stream, ready>>

-----------------------------------------------------------------------------
(* get_delegate_result. *)

\* A read of the roster: what it shows, or the entry without its state.
Roster == {shown, [shown EXCEPT !.agent = "unknown"]}

Answers(r, kind) ==
  /\ reply' = [reply EXCEPT ![r].kind = kind]
  /\ pc' = [pc EXCEPT ![r] = "reply"]

AnswersText(r) ==
  /\ reply' = [reply EXCEPT ![r] = [kind |-> "final", turn |-> text.turn, whole |-> text.whole]]
  /\ pc' = [pc EXCEPT ![r] = "reply"]

Expire(r) ==
  /\ pc[r] \in {"look", "prove"} /\ r \notin late
  /\ late' = late \cup {r}
  /\ UNCHANGED <<others, server, pc, patient, seen, unknowns, reply, stream, ready>>

\* The roster cannot be read, or has no such entry.
LookFails(r) ==
  /\ pc[r] = "look"
  /\ Answers(r, "error") /\ late' = late \cup {r}
  /\ UNCHANGED <<others, server, patient, seen, unknowns, stream, ready>>

\* One round of the wait begins with the roster.
Look(r) ==
  /\ pc[r] = "look"
  /\ \E s \in Roster :
       LET count == IF s.agent = "unknown" THEN unknowns[r] + 1 ELSE 0
       IN  /\ seen' = [seen EXCEPT ![r] = s]
           /\ unknowns' = [unknowns EXCEPT ![r] = count]
           /\ IF count > MaxUnknown \/ s.agent \notin Live \/ r \in late
              THEN pc' = [pc EXCEPT ![r] = "judge"] /\ late' = late \cup {r}
              ELSE pc' = [pc EXCEPT ![r] = "prove"] /\ late' = late
  /\ UNCHANGED <<others, server, patient, reply, stream, ready>>

\* _inferred_final_reply: an answer that the transcript proves is returned against the roster;
\* otherwise the call sleeps and looks again.
Prove(r) ==
  /\ pc[r] = "prove"
  /\ IF proven THEN /\ AnswersText(r) /\ late' = late \cup {r}
                    /\ unknowns' = [unknowns EXCEPT ![r] = 0] /\ seen' = seen
     ELSE /\ pc' = [pc EXCEPT ![r] = "look"] /\ seen' = [seen EXCEPT ![r] = NotSeen]
          /\ UNCHANGED <<reply, unknowns, late>>
  /\ UNCHANGED <<others, server, patient, stream, ready>>

\* _turn_guard_check of a state that was read may find the session over its ceiling, once.
\* Which sessions are, and whether the stop succeeds, is Stopping's subject.
MayGuard(s) == s.agent \in Live /\ ~killed

Guard ==
  /\ killed' = TRUE
  /\ agent' \in {agent, IF agent \in Settled THEN agent ELSE "stopped"}
  /\ UNCHANGED <<turn, episode, text, proven>>

\* What the loop ended with decides.
Judge(r) ==
  /\ pc[r] = "judge"
  /\ CASE seen[r].agent = "blocked" ->
            /\ reply' = [reply EXCEPT ![r].kind = "status"]
            /\ pc' = [pc EXCEPT ![r] = "status"] /\ UNCHANGED <<session, killed>>
       [] seen[r].agent \in Settled ->
            pc' = [pc EXCEPT ![r] = "fetch"] /\ UNCHANGED <<session, killed, reply>>
       [] OTHER -> \/ MayGuard(seen[r]) /\ Guard /\ Answers(r, "guard")
                   \/ pc' = [pc EXCEPT ![r] = "last"] /\ UNCHANGED <<session, killed, reply>>
  /\ unknowns' = [unknowns EXCEPT ![r] = 0]
  /\ UNCHANGED <<shown, ledger, server, late, patient, seen, stream, ready>>

\* Mutant: once the deadline has passed, the roster is believed.
LookLastNever(r) ==
  /\ pc[r] = "last"
  /\ reply' = [reply EXCEPT ![r].kind = "still"]
  /\ pc' = [pc EXCEPT ![r] = IF r \in patient THEN "status" ELSE "reply"]
  /\ UNCHANGED <<others, server, call, stream, ready>>

\* A last look at the transcript; without an answer, a call that waited reports the status.
LookLast(r) ==
  /\ pc[r] = "last"
  /\ IF proven THEN AnswersText(r)
     ELSE /\ reply' = [reply EXCEPT ![r].kind = "still"]
          /\ pc' = [pc EXCEPT ![r] = IF r \in patient THEN "status" ELSE "reply"]
  /\ UNCHANGED <<others, server, call, stream, ready>>

\* The session has settled: its last text is the answer.
Fetch(r) ==
  /\ pc[r] = "fetch"
  /\ IF text.turn = 0 THEN Answers(r, "error") ELSE AnswersText(r)
  /\ UNCHANGED <<others, server, call, stream, ready>>

-----------------------------------------------------------------------------
(* check_delegate_status, called or polled. *)

\* No roster or no such entry; a watch fails without a transcript, too.  A wait that has an
\* answer of its own keeps it.
StatusFails(r) ==
  /\ pc[r] \in {"status", "watch"}
  /\ Answers(r, IF reply[r].kind = "still" THEN "still" ELSE "error")
  /\ UNCHANGED <<others, server, call, stream, ready>>

Status(r) ==
  /\ pc[r] = "status"
  /\ \E s \in Roster : seen' = [seen EXCEPT ![r] = s]
  /\ \/ MayGuard(seen'[r]) /\ Guard
     \/ UNCHANGED <<session, killed>>
  /\ pc' = [pc EXCEPT ![r] = "mark"]
  /\ UNCHANGED <<shown, ledger, server, late, patient, unknowns, reply, stream, ready>>

\* watch_delegate guards the session like any other poll, and shows what its transcript
\* tells by now, or what the guard did; of blocked episodes it keeps no account.
Watch(r) ==
  /\ pc[r] = "watch"
  /\ \/ (\E s \in Roster : MayGuard(s)) /\ Guard
     \/ UNCHANGED <<session, killed>>
  /\ pc' = [pc EXCEPT ![r] = "reply"]
  /\ UNCHANGED <<shown, ledger, server, call, reply, stream, ready>>

\* A poll that does not see the session blocked allows the next episode its event.
Mark(r) ==
  /\ pc[r] = "mark"
  /\ IF seen[r].agent = "blocked" /\ ~recorded
     THEN pc' = [pc EXCEPT ![r] = "record"] /\ UNCHANGED <<recorded, seen>>
     ELSE /\ pc' = [pc EXCEPT ![r] = "reply"]
          /\ recorded' = (seen[r].agent = "blocked")
          /\ seen' = [seen EXCEPT ![r] = NotSeen]
  /\ UNCHANGED <<session, shown, killed, events, server, late, patient, unknowns, reply, stream,
                 ready>>

Record(r) ==
  /\ pc[r] = "record"
  /\ recorded' = TRUE
  /\ events' = [events EXCEPT ![seen[r].episode] = @ + 1]
  /\ pc' = [pc EXCEPT ![r] = "reply"] /\ seen' = [seen EXCEPT ![r] = NotSeen]
  /\ UNCHANGED <<session, shown, killed, server, late, patient, unknowns, reply, stream, ready>>

-----------------------------------------------------------------------------

Step(r) ==
  \/ Status(r) \/ StatusFails(r) \/ Watch(r) \/ Mark(r) \/ Record(r) \/ Write(r) \/ Flush(r)
  \/ /\ r \in Waits
     /\ Look(r) \/ LookFails(r) \/ Prove(r) \/ Judge(r) \/ LookLast(r) \/ Fetch(r)

Next ==
  \/ Narrate \/ Block \/ Unblock \/ End \/ Resume \/ Refresh
  \/ Exit
  \/ \E r \in Reqs : Take(r) \/ Step(r)
  \/ \E w \in Waits : Expire(w)

\* The loop and the threads run.  Nothing is assumed of the session, of the roster, of the
\* client, or of deadlines.
Spec == Init /\ [][Next]_vars /\ WF_vars(\E r \in Reqs : Take(r)) /\ \A r \in Reqs : WF_vars(Step(r))

-----------------------------------------------------------------------------
(* What the server promises. *)

\* The client reads whole lines, one of every answer, and the process does not end with an
\* answer owed (main: write_lock, and the join at the end of stdin).
LinesWhole ==
  /\ \A i \in 1..Len(out) \div 2 : out[2 * i - 1] = out[2 * i]
  /\ Cardinality(ToSet(out)) = (Len(out) + 1) \div 2
  /\ exited => Len(out) = 2 * Cardinality(Reqs)

\* What get_delegate_result hands out as the answer belongs to a turn that has ended, or
\* else it is newer than what the call saw in the roster: between that read and the read of
\* the transcript, or while the roster lagged, the session was given more work.
PartialIsNewer ==
  \A w \in Waits : reply[w].kind = "final" =>
    \/ reply[w].turn < turn \/ agent \in Settled
    \/ reply[w].turn > seen[w].turn

\* An answer that was in the transcript when the call began, and that nobody has asked the
\* session to go beyond, is never called "still working", whatever the roster shows and
\* whenever the deadline passes, and where it is handed out it is whole (get_result,
\* _inferred_final_reply).  It is not always handed out: the roster may be unreadable, it may
\* show an old "blocked", which is not checked against the transcript, and the guard answers
\* first.  A status takes its place only where the call has seen the session blocked.
EndedIsNotStill ==
  \A w \in ready :
    /\ reply[w].kind # "still"
    /\ pc[w] = "status" => seen[w].agent = "blocked"
    /\ reply[w].kind = "final" => reply[w].whole /\ reply[w].turn = turn

\* What an answer of get_delegate_result is worth, against the roster that lags the session and
\* the transcript that is read after it.
AnswersFitTheReads == PartialIsNewer /\ EndedIsNotStill

\* Status polls and watches are answered even while waits never end, and a wait is once its
\* deadline has passed or it has something to answer with (CONCURRENT_CALLS; the comment above
\* it tells of calls that queued behind a wait).  A call that is done stays done, and is no
\* longer late.
CallsAnswered == <>[](/\ \A p \in Polls \cup Watches : pc[p] = "done"
                      /\ late = {})

\* "ONE blocked event per blocked episode (not one per poll)" (the comment of
\* _BLOCKED_RECORDED).
\* It does not hold; the README says what happens.
OneEventPerEpisode == \A e \in 1..MaxEpisodes : events[e] <= 1
=============================================================================
