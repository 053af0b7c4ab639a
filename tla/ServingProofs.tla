---------------------------- MODULE ServingProofs ----------------------------
(***************************************************************************)
(* Proofs about Serving, for any calls and any bounds: what a wait answers *)
(* fits what it has read, and the client reads whole lines.                *)
(***************************************************************************)
EXTENDS Serving, FiniteSetTheorems, SequenceTheorems, TLAPS

Places  == {"queued", "look", "prove", "judge", "last", "fetch", "status", "watch", "mark",
            "record", "reply", "writing", "done"}
Replies == {"none", "status", "final", "error", "still", "guard"}
Agents  == {"working", "blocked", "idle", "stopped"}
Sights  == [agent : Agents \cup {"unknown"}, turn : Nat, episode : Nat]
Answer  == [kind : Replies, turn : Nat, whole : BOOLEAN]

Typed ==
  /\ agent \in Agents /\ turn \in Nat /\ episode \in Nat
  /\ text \in [turn : Nat, whole : BOOLEAN] /\ proven \in BOOLEAN
  /\ shown \in Sights
  /\ inbox \in Seq(Reqs)
  /\ pc \in [Reqs -> Places]
  /\ seen \in [Reqs -> Sights]
  /\ reply \in [Reqs -> Answer]
  /\ ready \subseteq Waits

\* No call is in the inbox twice, or once it was taken.
Queued ==
  /\ \A i \in 1..Len(inbox) : pc[inbox[i]] = "queued"
  /\ \A i, j \in 1..Len(inbox) : inbox[i] = inbox[j] => i = j

IsTyped == Typed /\ Queued

LEMMA SightType == Typed => Sight \in Sights
BY DEF Typed, Sight, Sights, Agents

LEMMA RosterType == Typed => Roster \subseteq Sights
BY DEF Typed, Roster, Sights, Agents

LEMMA InitTyped == Init => IsTyped
<1> SUFFICES ASSUME Init PROVE IsTyped
  OBVIOUS
<1>1. Sight \in Sights /\ NotSeen \in Sights
  BY DEF Init, Sight, Sights, Agents, NotSeen
<1>2. /\ inbox \in [1..Cardinality(Reqs) -> Reqs]
      /\ \A i, j \in 1..Cardinality(Reqs) : i # j => inbox[i] # inbox[j]
  BY DEF Init, SetToSeqs
<1>3. Cardinality(Reqs) \in Nat
  BY FiniteAssumption, FS_CardinalityType DEF Reqs
<1>4. inbox \in Seq(Reqs) /\ Len(inbox) = Cardinality(Reqs)
  BY <1>2, <1>3
<1>5. Queued
  BY <1>2, <1>3, <1>4 DEF Init, Queued
<1> QED
  BY <1>1, <1>4, <1>5 DEF Init, IsTyped, Typed, Agents, NoReply, Places, Replies, Answer

\* The head of the inbox goes, the rest keeps its order.
LEMMA Taken ==
  ASSUME IsTyped, inbox # <<>>, NEW r, r = Head(inbox)
  PROVE  /\ r \in Reqs /\ pc[r] = "queued"
         /\ Tail(inbox) \in Seq(Reqs)
         /\ \A i \in 1..Len(Tail(inbox)) :
              Tail(inbox)[i] # r /\ pc[Tail(inbox)[i]] = "queued"
         /\ \A i, j \in 1..Len(Tail(inbox)) : Tail(inbox)[i] = Tail(inbox)[j] => i = j
         /\ \A i \in 1..Len(inbox) : inbox[i] # r =>
              \E j \in 1..Len(Tail(inbox)) : Tail(inbox)[j] = inbox[i]
<1>1. inbox \in Seq(Reqs) /\ Len(inbox) \in Nat /\ Len(inbox) > 0 /\ r = inbox[1]
  BY DEF IsTyped, Typed
<1>2. /\ Tail(inbox) \in Seq(Reqs) /\ Len(Tail(inbox)) = Len(inbox) - 1
      /\ \A i \in 1..Len(Tail(inbox)) : Tail(inbox)[i] = inbox[i + 1]
  BY <1>1, HeadTailProperties
<1>3. r \in Reqs /\ pc[r] = "queued"
  BY <1>1 DEF IsTyped, Queued
<1>4. ASSUME NEW i \in 1..Len(Tail(inbox))
      PROVE  Tail(inbox)[i] # r /\ pc[Tail(inbox)[i]] = "queued"
  <2>1. i + 1 \in 1..Len(inbox) /\ 1 \in 1..Len(inbox) /\ i + 1 # 1
    BY <1>1, <1>2
  <2> QED
    BY <1>1, <1>2, <2>1 DEF IsTyped, Queued
<1>5. ASSUME NEW i \in 1..Len(Tail(inbox)), NEW j \in 1..Len(Tail(inbox)),
             Tail(inbox)[i] = Tail(inbox)[j]
      PROVE  i = j
  <2>1. i + 1 \in 1..Len(inbox) /\ j + 1 \in 1..Len(inbox) /\ inbox[i + 1] = inbox[j + 1]
    BY <1>1, <1>2, <1>5
  <2>2. i + 1 = j + 1
    BY <2>1 DEF IsTyped, Queued
  <2> QED
    BY <2>2
<1>6. ASSUME NEW i \in 1..Len(inbox), inbox[i] # r
      PROVE  \E j \in 1..Len(Tail(inbox)) : Tail(inbox)[j] = inbox[i]
  <2>1. i - 1 \in 1..Len(Tail(inbox)) /\ (i - 1) + 1 = i
    BY <1>1, <1>2, <1>6
  <2> QED
    BY <1>2, <2>1
<1> QED
  BY <1>2, <1>3, <1>4, <1>5, <1>6

-----------------------------------------------------------------------------
(* Types. *)

\* A call that is taken on only moves its own place, its own answer and its own sight.
OwnStep(r) ==
  /\ pc[r] # "queued" /\ inbox' = inbox
  /\ \E place \in Places \ {"queued"} : pc' = [pc EXCEPT ![r] = place]
  /\ seen' = seen \/ \E s \in Sights : seen' = [seen EXCEPT ![r] = s]
  /\ reply' = reply \/ \E a \in Answer :
                         reply' = [reply EXCEPT ![r] = a]

LEMMA StepIsOwn == ASSUME Typed, NEW r \in Reqs, Step(r) PROVE OwnStep(r)
<1>1. /\ reply[r] \in Answer /\ seen[r] \in Sights /\ pc[r] \in Places /\ NotSeen \in Sights
      /\ reply \in [Reqs -> Answer]
  BY DEF Typed, NotSeen, Sights, Agents
<1>2. ASSUME NEW k \in Replies, reply' = [reply EXCEPT ![r].kind = k]
      PROVE  \E a \in Answer : reply' = [reply EXCEPT ![r] = a]
  <2>1. [reply[r] EXCEPT !.kind = k] \in Answer
    BY <1>1 DEF Answer
  <2>2. reply' = [reply EXCEPT ![r] = [reply[r] EXCEPT !.kind = k]]
    BY <1>1, <1>2
  <2> QED
    BY <2>1, <2>2
<1>3. NoReply \in Answer
  BY DEF NoReply, Answer, Replies
<1>4. {"status", "still", "error", "guard", "final"} \subseteq Replies
  BY DEF Replies
<1>5. /\ {"look", "prove", "judge", "last", "fetch", "status", "watch", "mark", "record",
          "reply", "writing", "done"} = Places \ {"queued"}
  BY DEF Places
<1>6. Roster \subseteq Sights
  BY RosterType
<1>20. ASSUME NEW k \in Replies, Answers(r, k)
       PROVE  /\ \E place \in Places \ {"queued"} : pc' = [pc EXCEPT ![r] = place]
              /\ \E a \in Answer : reply' = [reply EXCEPT ![r] = a]
  BY <1>2, <1>5, <1>20 DEF Answers
<1>21. ASSUME AnswersText(r)
       PROVE  /\ \E place \in Places \ {"queued"} : pc' = [pc EXCEPT ![r] = place]
              /\ \E a \in Answer : reply' = [reply EXCEPT ![r] = a]
  <2>1. [kind |-> "final", turn |-> text.turn, whole |-> text.whole] \in Answer
    BY DEF Typed, Answer, Replies
  <2> QED
    BY <1>5, <1>21, <2>1 DEF AnswersText
<1>7. CASE Status(r)
  BY <1>5, <1>6, <1>7 DEF Status, OwnStep, server
<1>8. CASE StatusFails(r)
  <2>1. "still" \in Replies /\ "error" \in Replies /\ pc[r] # "queued"
    BY <1>4, <1>8 DEF StatusFails
  <2>2. Answers(r, "still") \/ Answers(r, "error")
    BY <1>8 DEF StatusFails
  <2> QED
    BY <1>8, <1>20, <2>1, <2>2 DEF StatusFails, OwnStep, server, call
<1>9. CASE Watch(r)
  BY <1>5, <1>9 DEF Watch, OwnStep, server, call
<1>10. CASE Mark(r)
  BY <1>1, <1>5, <1>10 DEF Mark, OwnStep, server
<1>11. CASE Record(r)
  BY <1>1, <1>5, <1>11 DEF Record, OwnStep, server
<1>12. CASE Write(r)
  BY <1>1, <1>3, <1>5, <1>12 DEF Write, Forget, OwnStep, server
<1>13. CASE Flush(r)
  BY <1>5, <1>13 DEF Flush, OwnStep
<1>14. CASE Look(r)
  BY <1>5, <1>6, <1>14 DEF Look, OwnStep, server
<1>15. CASE LookFails(r)
  BY <1>4, <1>15, <1>20 DEF LookFails, OwnStep, server
<1>16. CASE Prove(r)
  BY <1>1, <1>5, <1>16, <1>21 DEF Prove, OwnStep, server
<1>17. CASE Judge(r)
  <2>1. "guard" \in Replies /\ "status" \in Replies
    BY <1>4
  <2>2. /\ pc[r] # "queued" /\ inbox' = inbox /\ seen' = seen
        /\ \/ Answers(r, "guard")
           \/ reply' = [reply EXCEPT ![r].kind = "status"] /\ pc' = [pc EXCEPT ![r] = "status"]
           \/ reply' = reply /\ \E place \in {"fetch", "last"} : pc' = [pc EXCEPT ![r] = place]
    BY <1>17 DEF Judge, server
  <2> QED
    BY <1>2, <1>5, <1>20, <2>1, <2>2 DEF OwnStep
<1>18. CASE LookLast(r)
  <2>1. "still" \in Replies
    BY <1>4
  <2>2. /\ pc[r] # "queued" /\ inbox' = inbox /\ seen' = seen
        /\ \/ AnswersText(r)
           \/ /\ reply' = [reply EXCEPT ![r].kind = "still"]
              /\ \E place \in {"status", "reply"} : pc' = [pc EXCEPT ![r] = place]
    BY <1>18 DEF LookLast, server, call
  <2> QED
    BY <1>2, <1>5, <1>21, <2>1, <2>2 DEF OwnStep
<1>19. CASE Fetch(r)
  <2>1. /\ "error" \in Replies /\ pc[r] # "queued" /\ inbox' = inbox /\ seen' = seen
        /\ Answers(r, "error") \/ AnswersText(r)
    BY <1>4, <1>19 DEF Fetch, server, call
  <2> QED
    BY <1>20, <1>21, <2>1 DEF OwnStep
<1> QED
  BY <1>7, <1>8, <1>9, <1>10, <1>11, <1>12, <1>13, <1>14, <1>15, <1>16, <1>17, <1>18, <1>19 DEF Step

\* What a step of a call may do to the session: the guard stops it, and only if it is at work.
SessionKept ==
  /\ UNCHANGED <<turn, episode, text, proven, shown>>
  /\ agent' \in {agent, IF agent \in Settled THEN agent ELSE "stopped"}

LEMMA StepKeepsSession == ASSUME NEW r \in Reqs, Step(r) PROVE SessionKept /\ ready' \subseteq ready
<1> USE DEF SessionKept, others, session
<1>1. CASE Status(r)
  BY <1>1 DEF Status, Guard
<1>2. CASE StatusFails(r)
  BY <1>2 DEF StatusFails
<1>3. CASE Watch(r)
  BY <1>3 DEF Watch, Guard
<1>4. CASE Mark(r)
  BY <1>4 DEF Mark
<1>5. CASE Record(r)
  BY <1>5 DEF Record
<1>6. CASE Write(r)
  BY <1>6 DEF Write, Forget
<1>7. CASE Flush(r)
  BY <1>7 DEF Flush
<1>8. CASE Look(r)
  BY <1>8 DEF Look
<1>9. CASE LookFails(r)
  BY <1>9 DEF LookFails
<1>10. CASE Prove(r)
  BY <1>10 DEF Prove
<1>11. CASE Judge(r)
  BY <1>11 DEF Judge, Guard
<1>12. CASE LookLast(r)
  BY <1>12 DEF LookLast
<1>13. CASE Fetch(r)
  BY <1>13 DEF Fetch
<1> QED
  BY <1>1, <1>2, <1>3, <1>4, <1>5, <1>6, <1>7, <1>8, <1>9, <1>10, <1>11, <1>12, <1>13 DEF Step

\* What the session and its roster entry do by themselves leaves the server alone.
Environment == Narrate \/ Block \/ Unblock \/ End \/ Resume \/ Refresh

LEMMA TypedStep == IsTyped /\ [Next]_vars => IsTyped'
<1> SUFFICES ASSUME IsTyped, [Next]_vars PROVE IsTyped'
  OBVIOUS
<1>1. CASE Environment
  <2>1. UNCHANGED <<inbox, pc, seen, reply>> /\ ready' \in {ready, {}}
    BY <1>1 DEF Environment, Narrate, Block, Unblock, End, Resume, Refresh, calls, call, server
  <2>2. /\ agent' \in Agents /\ turn' \in Nat /\ episode' \in Nat
        /\ text' \in [turn : Nat, whole : BOOLEAN] /\ proven' \in BOOLEAN
    <3> USE DEF IsTyped, Typed, Agents
    <3>1. CASE Narrate
      BY <3>1 DEF Narrate
    <3>2. CASE Block
      BY <3>2 DEF Block
    <3>3. CASE Unblock
      BY <3>3 DEF Unblock
    <3>4. CASE End
      <4>1. agent' = "idle" /\ turn' = turn /\ episode' = episode
        BY <3>4 DEF End
      <4>2. \/ text' = [turn |-> turn, whole |-> TRUE] /\ proven' = TRUE
            \/ text' = text /\ proven' = proven
        BY <3>4 DEF End
      <4>3. text' = [turn |-> turn, whole |-> TRUE] \/ text' = text
        BY <4>2
      <4>4. [turn |-> turn, whole |-> TRUE] \in [turn : Nat, whole : BOOLEAN]
        OBVIOUS
      <4>5. text' \in [turn : Nat, whole : BOOLEAN]
        BY <4>3, <4>4
      <4>6. proven' \in BOOLEAN
        BY <4>2
      <4> QED
        BY <4>1, <4>5, <4>6
    <3>5. CASE Resume
      <4>1. /\ agent' = "working" /\ turn' = turn + 1 /\ episode' = episode
            /\ text' = text /\ proven' = FALSE
        BY <3>5 DEF Resume
      <4>2. text' \in [turn : Nat, whole : BOOLEAN] /\ proven' \in BOOLEAN
        BY <4>1
      <4>3. agent' \in Agents /\ turn' \in Nat /\ episode' \in Nat
        BY <4>1
      <4> QED
        BY <4>2, <4>3
    <3>6. CASE Refresh
      BY <3>6 DEF Refresh, session
    <3> QED
      BY <1>1, <3>1, <3>2, <3>3, <3>4, <3>5, <3>6 DEF Environment
  <2>3. shown' \in Sights
    BY <1>1, SightType DEF Environment, Narrate, Block, Unblock, End, Resume, Refresh, IsTyped, Typed
  <2> QED
    BY <2>1, <2>2, <2>3 DEF IsTyped, Typed, Queued
<1>2. ASSUME NEW r \in Reqs, Take(r) PROVE IsTyped'
  <2>1. r = Head(inbox) /\ inbox # <<>> /\ inbox' = Tail(inbox)
    BY <1>2 DEF Take
  <2>2. /\ UNCHANGED <<agent, turn, episode, text, proven, shown, seen>>
        /\ ready' \subseteq Waits
    BY <1>2 DEF Take, others, session, IsTyped, Typed
  <2>3. \E place \in {"look", "status", "watch"} : pc' = [pc EXCEPT ![r] = place]
    BY <1>2 DEF Take
  <2>4. reply' \in [Reqs -> Answer]
    <3>1. reply[r] \in Answer
      BY DEF IsTyped, Typed
    <3>2. [reply[r] EXCEPT !.kind = "status"] \in Answer
      BY <3>1 DEF Answer, Replies
    <3>3. reply' = reply \/ reply' = [reply EXCEPT ![r] = [reply[r] EXCEPT !.kind = "status"]]
      BY <1>2 DEF Take, IsTyped, Typed
    <3> QED
      BY <3>2, <3>3 DEF IsTyped, Typed
  <2>5. pc' \in [Reqs -> Places] /\ \A q \in Reqs \ {r} : pc'[q] = pc[q]
    BY <2>3 DEF IsTyped, Typed, Places
  <2>6. Queued'
    <3>1. \A i \in 1..Len(Tail(inbox)) : Tail(inbox)[i] \in Reqs
      BY <2>1, Taken
    <3> QED
      BY <2>1, <2>5, <3>1, Taken DEF Queued
  <2> QED
    BY <2>1, <2>2, <2>4, <2>5, <2>6, Taken DEF IsTyped, Typed
<1>3. ASSUME NEW r \in Reqs, Step(r) PROVE IsTyped'
  <2>1. OwnStep(r) /\ SessionKept /\ ready' \subseteq ready
    BY <1>3, StepIsOwn, StepKeepsSession DEF IsTyped
  <2>2. pc' \in [Reqs -> Places] /\ \A q \in Reqs \ {r} : pc'[q] = pc[q]
    BY <2>1 DEF OwnStep, IsTyped, Typed
  <2>3. /\ seen' \in [Reqs -> Sights]
        /\ reply' \in [Reqs -> Answer]
    BY <2>1 DEF OwnStep, IsTyped, Typed
  <2>4. agent' \in Agents
    BY <2>1 DEF SessionKept, Agents, IsTyped, Typed
  <2>5. Queued'
    <3>1. \A i \in 1..Len(inbox) : inbox[i] \in Reqs
      BY DEF IsTyped, Typed
    <3> QED
      BY <2>1, <2>2, <3>1 DEF OwnStep, IsTyped, Queued
  <2> QED
    BY <2>1, <2>2, <2>3, <2>4, <2>5 DEF OwnStep, SessionKept, IsTyped, Typed
<1>4. CASE Exit \/ (\E w \in Waits : Expire(w)) \/ UNCHANGED vars
  <2>1. UNCHANGED <<agent, turn, episode, text, proven, shown, inbox, pc, seen, reply, ready>>
    BY <1>4 DEF Exit, Expire, vars, others, session, server, call
  <2> QED
    BY <2>1 DEF IsTyped, Typed, Queued
<1> QED
  BY <1>1, <1>2, <1>3, <1>4 DEF Next, Environment

-----------------------------------------------------------------------------
(* Answers. *)

\* What a roster says has settled has settled, or has been given more work since.
Dated(s) == s.turn <= turn /\ (s.agent \in Settled => s.turn < turn \/ agent \in Settled)

SessionTrue ==
  /\ turn >= 1 /\ text.turn <= turn
  /\ proven => agent \in Settled /\ text.turn = turn /\ text.whole
  /\ Dated(shown)

CallsTrue ==
  /\ \A r \in Reqs : /\ Dated(seen[r])
                     /\ pc[r] = "fetch" => seen[r].agent \in Settled
                     /\ pc[r] = "queued" => reply[r].kind = "none"
                     /\ reply[r].kind = "final" => pc[r] = "reply" /\ reply[r].turn <= turn
  /\ ready # {} => proven

Honest == SessionTrue /\ CallsTrue /\ AnswersFitTheReads

\* What a step of a call makes of its own answer.
Given(r) ==
  /\ seen'[r] \in {seen[r], NotSeen} \cup Roster
  /\ pc'[r] = "fetch" => seen'[r].agent \in Settled
  /\ pc'[r] = "status" => seen'[r].agent = "blocked" \/ ~proven
  /\ reply'[r].kind = "final" =>
       /\ pc'[r] = "reply" /\ seen'[r] = seen[r]
       /\ reply'[r].turn = text.turn /\ reply'[r].whole = text.whole
       /\ proven \/ seen[r].agent \in Settled
  /\ reply'[r].kind = "still" => reply[r].kind = "still" \/ ~proven

LEMMA StepGives == ASSUME IsTyped, Honest, NEW r \in Reqs, Step(r) PROVE Given(r)
<1>1. /\ pc \in [Reqs -> Places] /\ seen \in [Reqs -> Sights] /\ reply \in [Reqs -> Answer]
      /\ reply[r].kind = "final" => pc[r] = "reply"
      /\ pc[r] = "fetch" => seen[r].agent \in Settled
  BY DEF IsTyped, Typed, Honest, CallsTrue
<1>2. ASSUME NEW k, reply' = [reply EXCEPT ![r].kind = k] PROVE reply'[r].kind = k
  <2>1. reply[r] \in Answer
    BY <1>1
  <2> QED
    BY <1>1, <1>2, <2>1 DEF Answer
<1>3. ASSUME NEW k, Answers(r, k) PROVE reply'[r].kind = k /\ pc'[r] = "reply"
  BY <1>1, <1>2, <1>3 DEF Answers
<1>4. ASSUME AnswersText(r)
      PROVE  /\ reply'[r].kind = "final" /\ reply'[r].turn = text.turn
             /\ reply'[r].whole = text.whole /\ pc'[r] = "reply"
  BY <1>1, <1>4 DEF AnswersText
<1>5. CASE Status(r)
  BY <1>1, <1>5 DEF Status, Given
<1>6. CASE StatusFails(r)
  <2>1. /\ seen' = seen
        /\ \/ Answers(r, "still") /\ reply[r].kind = "still"
           \/ Answers(r, "error")
    BY <1>6 DEF StatusFails, call
  <2> QED
    BY <1>3, <2>1 DEF Given
<1>7. CASE Watch(r)
  BY <1>1, <1>7 DEF Watch, Given, call
<1>8. CASE Mark(r)
  BY <1>1, <1>8 DEF Mark, Given
<1>9. CASE Record(r)
  BY <1>1, <1>9 DEF Record, Given
<1>10. CASE Write(r)
  <2>1. seen'[r] = NotSeen /\ reply'[r].kind = "none" /\ pc'[r] = "writing"
    BY <1>1, <1>10 DEF Write, Forget, NoReply
  <2> QED
    BY <2>1 DEF Given
<1>11. CASE Flush(r)
  BY <1>1, <1>11 DEF Flush, Given
<1>12. CASE Look(r)
  BY <1>1, <1>12 DEF Look, Given
<1>13. CASE LookFails(r)
  <2>1. seen' = seen /\ pc[r] = "look" /\ Answers(r, "error")
    BY <1>13 DEF LookFails
  <2> QED
    BY <1>3, <2>1 DEF Given
<1>14. CASE Prove(r)
  <2>1. CASE proven
    <3>1. AnswersText(r) /\ seen' = seen
      BY <1>14, <2>1 DEF Prove
    <3> QED
      BY <1>4, <2>1, <3>1 DEF Given
  <2>2. CASE ~proven
    <3>1. pc[r] = "prove" /\ pc'[r] = "look" /\ seen'[r] = NotSeen /\ reply' = reply
      BY <1>1, <1>14, <2>2 DEF Prove
    <3> QED
      BY <1>1, <3>1 DEF Given
  <2> QED
    BY <2>1, <2>2
<1>15. CASE Judge(r)
  <2>1. /\ seen' = seen /\ pc[r] = "judge"
        /\ \/ /\ reply' = [reply EXCEPT ![r].kind = "status"]
              /\ pc'[r] = "status" /\ seen[r].agent = "blocked"
           \/ seen[r].agent \in Settled /\ pc'[r] = "fetch" /\ reply' = reply
           \/ Answers(r, "guard")
           \/ pc'[r] = "last" /\ reply' = reply
    BY <1>1, <1>15 DEF Judge
  <2> QED
    BY <1>1, <1>2, <1>3, <2>1 DEF Given
<1>16. CASE LookLast(r)
  <2>1. CASE proven
    <3>1. AnswersText(r) /\ seen' = seen
      BY <1>16, <2>1 DEF LookLast, call
    <3> QED
      BY <1>4, <2>1, <3>1 DEF Given
  <2>2. CASE ~proven
    <3>1. /\ seen' = seen /\ reply' = [reply EXCEPT ![r].kind = "still"]
          /\ pc'[r] \in {"status", "reply"}
      BY <1>1, <1>16, <2>2 DEF LookLast, call
    <3> QED
      BY <1>2, <2>2, <3>1 DEF Given
  <2> QED
    BY <2>1, <2>2
<1>17. CASE Fetch(r)
  <2>1. seen' = seen /\ pc[r] = "fetch" /\ (Answers(r, "error") \/ AnswersText(r))
    BY <1>17 DEF Fetch, call
  <2> QED
    BY <1>1, <1>3, <1>4, <2>1 DEF Given
<1> QED
  BY <1>5, <1>6, <1>7, <1>8, <1>9, <1>10, <1>11, <1>12, <1>13, <1>14, <1>15, <1>16, <1>17 DEF Step

LEMMA RosterDated == ASSUME IsTyped, Honest, NEW s \in Roster PROVE Dated(s)
<1>1. shown \in Sights /\ Dated(shown)
  BY DEF IsTyped, Typed, Honest, SessionTrue
<1>2. CASE s = shown
  BY <1>1, <1>2
<1>3. CASE s = [shown EXCEPT !.agent = "unknown"]
  <2>1. s.turn = shown.turn /\ s.agent = "unknown"
    BY <1>1, <1>3 DEF Sights
  <2> QED
    BY <1>1, <2>1 DEF Dated, Settled
<1> QED
  BY <1>2, <1>3 DEF Roster

LEMMA NotSeenDated == ASSUME IsTyped, Honest PROVE Dated(NotSeen)
BY DEF IsTyped, Typed, Honest, SessionTrue, Dated, NotSeen, Settled

LEMMA InitHonest == Init => Honest
<1> SUFFICES ASSUME Init PROVE Honest
  OBVIOUS
<1>1. SessionTrue
  BY DEF Init, SessionTrue, Dated, Sight, Settled
<1>2. CallsTrue /\ ready = {} /\ \A r \in Reqs : reply[r].kind = "none"
  BY DEF Init, CallsTrue, Dated, NotSeen, NoReply, Settled
<1>3. AnswersFitTheReads
  BY <1>2 DEF AnswersFitTheReads, PartialIsNewer, EndedIsNotStill, Reqs
<1> QED
  BY <1>1, <1>2, <1>3 DEF Honest

\* The session blocks, works, ends and is given work while the calls stand still.
LEMMA SessionStep == ASSUME IsTyped, Honest, Environment PROVE Honest'
<1> USE DEF Settled
<1>1. /\ UNCHANGED <<pc, seen, reply>>
      /\ agent \in Agents /\ turn \in Nat /\ text.turn \in Nat /\ turn >= 1 /\ text.turn <= turn
  BY DEF Environment, Narrate, Block, Unblock, End, Resume, Refresh, calls, call,
         IsTyped, Typed, Honest, SessionTrue
<1>2. proven => agent \in Settled /\ text.turn = turn /\ text.whole
  BY DEF Honest, SessionTrue
<1>3. \/ /\ turn' = turn /\ ready' = ready
         /\ agent \in Settled => agent' \in Settled
      \/ turn' = turn + 1 /\ agent \in Settled /\ ready' = {} /\ text' = text
  BY DEF Environment, Narrate, Block, Unblock, End, Resume, Refresh, session
<1>4. ASSUME NEW s \in Sights, Dated(s) PROVE Dated(s)'
  <2>1. s.turn \in Nat
    BY DEF Sights
  <2>2. s.turn <= turn'
    BY <1>1, <1>3, <1>4, <2>1 DEF Dated
  <2>3. s.agent \in Settled => s.turn < turn' \/ agent' \in Settled
    BY <1>1, <1>3, <1>4, <2>1 DEF Dated
  <2> QED
    BY <2>2, <2>3 DEF Dated
<1>5. SessionTrue'
  <2>1. turn' >= 1 /\ text'.turn <= turn'
    BY <1>1 DEF Environment, Narrate, Block, Unblock, End, Resume, Refresh, session
  <2>2. proven' => agent' \in Settled /\ text'.turn = turn' /\ text'.whole
    <3>1. CASE Narrate \/ Block \/ Unblock \/ Resume
      <4>1. ~proven'
        <5>1. CASE Resume
          BY <5>1 DEF Resume
        <5>2. CASE Narrate \/ Block \/ Unblock
          <6>1. agent \notin Settled /\ proven' = proven
            BY <5>2 DEF Narrate, Block, Unblock
          <6> QED
            BY <1>2, <6>1
        <5> QED
          BY <3>1, <5>1, <5>2
      <4> QED
        BY <4>1
    <3>2. CASE End
      <4>1. agent \notin Settled /\ agent' \in Settled /\ turn' = turn
        BY <3>2 DEF End
      <4>2. \/ text' = [turn |-> turn, whole |-> TRUE]
            \/ proven' = proven
        BY <3>2 DEF End
      <4>3. CASE text' = [turn |-> turn, whole |-> TRUE]
        BY <4>1, <4>3
      <4>4. CASE proven' = proven
        BY <1>2, <4>1, <4>4
      <4> QED
        BY <4>2, <4>3, <4>4
    <3>3. CASE Refresh
      BY <1>2, <3>3 DEF Refresh, session
    <3> QED
      BY <3>1, <3>2, <3>3 DEF Environment
  <2>3. Dated(shown)'
    <3>1. CASE Refresh
      <4>1. shown' = Sight /\ agent' = agent /\ turn' = turn
        BY <3>1 DEF Refresh, session
      <4> QED
        BY <1>1, <4>1 DEF Dated, Sight
    <3>2. CASE Narrate \/ Block \/ Unblock \/ End \/ Resume
      <4>1. shown' = shown /\ shown \in Sights /\ Dated(shown)
        BY <3>2 DEF Narrate, Block, Unblock, End, Resume, IsTyped, Typed, Honest, SessionTrue
      <4> QED
        BY <1>4, <4>1
    <3> QED
      BY <3>1, <3>2 DEF Environment
  <2> QED
    BY <2>1, <2>2, <2>3 DEF SessionTrue
<1>6. ready' # {} => proven'
  <2>1. proven => proven' \/ ready' = {}
    BY <1>2 DEF Environment, Narrate, Block, Unblock, End, Resume, Refresh, session
  <2> QED
    BY <1>3, <2>1 DEF Honest, CallsTrue
<1>7. CallsTrue'
  <2>1. ASSUME NEW r \in Reqs
        PROVE  /\ Dated(seen[r])'
               /\ pc[r] = "fetch" => seen[r].agent \in Settled
               /\ pc[r] = "queued" => reply[r].kind = "none"
               /\ reply[r].kind = "final" => pc[r] = "reply" /\ reply[r].turn <= turn'
    <3>1. seen[r] \in Sights /\ reply[r].turn \in Nat /\ Dated(seen[r]) /\ seen'[r] = seen[r]
      BY <1>1 DEF IsTyped, Typed, Answer, Honest, CallsTrue
    <3>2. Dated(seen[r])'
      BY <1>4, <3>1
    <3> QED
      BY <1>1, <1>3, <3>1, <3>2 DEF Honest, CallsTrue
  <2> QED
    BY <1>1, <1>6, <2>1 DEF CallsTrue
<1>8. PartialIsNewer'
  <2>1. ASSUME NEW w \in Waits, reply[w].kind = "final"
        PROVE  reply[w].turn < turn' \/ agent' \in Settled \/ reply[w].turn > seen[w].turn
    <3>1. w \in Reqs /\ reply[w].turn \in Nat
      BY DEF IsTyped, Typed, Answer, Reqs
    <3>2. /\ reply[w].turn < turn \/ agent \in Settled \/ reply[w].turn > seen[w].turn
          /\ reply[w].turn <= turn
      BY <2>1, <3>1 DEF Honest, CallsTrue, AnswersFitTheReads, PartialIsNewer
    <3> QED
      BY <1>1, <1>3, <3>1, <3>2
  <2> QED
    BY <1>1, <2>1 DEF PartialIsNewer
<1>9. EndedIsNotStill'
  <2>1. ready' = {} \/ (ready' = ready /\ turn' = turn)
    BY <1>3
  <2> QED
    BY <1>1, <2>1 DEF Honest, AnswersFitTheReads, EndedIsNotStill
<1> QED
  BY <1>5, <1>7, <1>8, <1>9 DEF Honest, AnswersFitTheReads

\* A step of one call, and what it does to the session.
LEMMA CallStep == ASSUME IsTyped, Honest, NEW r \in Reqs, Step(r) PROVE Honest'
<1>1. OwnStep(r) /\ Given(r) /\ SessionKept /\ ready' \subseteq ready
  BY StepIsOwn, StepGives, StepKeepsSession DEF IsTyped
<1>2. /\ turn' = turn /\ text' = text /\ proven' = proven /\ shown' = shown
      /\ agent \in Settled => agent' \in Settled
  BY <1>1 DEF SessionKept, Settled
<1>3. \A s : Dated(s) => Dated(s)'
  BY <1>2 DEF Dated
<1>4. /\ turn \in Nat /\ text.turn \in Nat
      /\ pc \in [Reqs -> Places] /\ seen \in [Reqs -> Sights] /\ reply \in [Reqs -> Answer]
      /\ \A q \in Reqs \ {r} : pc'[q] = pc[q] /\ seen'[q] = seen[q] /\ reply'[q] = reply[q]
  BY <1>1 DEF OwnStep, IsTyped, Typed
<1>5. SessionTrue'
  BY <1>2, <1>3 DEF Honest, SessionTrue
<1>6. CallsTrue'
  <2>1. ASSUME NEW q \in Reqs \ {r}
        PROVE  /\ Dated(seen[q])'
               /\ pc'[q] = "fetch" => seen'[q].agent \in Settled
               /\ pc'[q] = "queued" => reply'[q].kind = "none"
               /\ reply'[q].kind = "final" => pc'[q] = "reply" /\ reply'[q].turn <= turn'
    BY <1>2, <1>3, <1>4 DEF Honest, CallsTrue
  <2>2. Dated(seen[r])'
    <3>1. Dated(seen'[r])
      BY <1>1, RosterDated, NotSeenDated DEF Given, Honest, CallsTrue
    <3> QED
      BY <1>2, <3>1 DEF Dated
  <2>3. /\ pc'[r] = "fetch" => seen'[r].agent \in Settled
        /\ pc'[r] # "queued"
    BY <1>1, <1>4 DEF Given, OwnStep
  <2>4. reply'[r].kind = "final" => pc'[r] = "reply" /\ reply'[r].turn <= turn'
    BY <1>1, <1>2 DEF Given, Honest, SessionTrue, CallsTrue
  <2>5. ready' # {} => proven'
    BY <1>1, <1>2 DEF Honest, CallsTrue
  <2> QED
    BY <2>1, <2>2, <2>3, <2>4, <2>5 DEF CallsTrue
<1>7. PartialIsNewer'
  <2>1. ASSUME NEW w \in Waits, reply'[w].kind = "final"
        PROVE  reply'[w].turn < turn' \/ agent' \in Settled \/ reply'[w].turn > seen'[w].turn
    <3>1. w \in Reqs
      BY DEF Reqs
    <3>2. CASE reply'[w] = reply[w] /\ seen'[w] = seen[w]
      BY <1>2, <2>1, <3>2 DEF Honest, AnswersFitTheReads, PartialIsNewer
    <3>3. CASE ~(reply'[w] = reply[w] /\ seen'[w] = seen[w])
      <4>1. w = r
        BY <1>4, <3>1, <3>3
      <4>2. /\ seen'[r] = seen[r] /\ reply'[r].turn = text.turn
            /\ proven \/ seen[r].agent \in Settled
        BY <1>1, <2>1, <3>3, <4>1 DEF Given
      <4>3. /\ text.turn <= turn /\ (proven => agent \in Settled)
            /\ seen[r].agent \in Settled => seen[r].turn < turn \/ agent \in Settled
        BY DEF Honest, SessionTrue, CallsTrue, Dated
      <4>4. seen[r].turn \in Nat
        BY <1>4 DEF Sights
      <4> QED
        BY <1>2, <1>4, <4>1, <4>2, <4>3, <4>4
    <3> QED
      BY <3>2, <3>3
  <2> QED
    BY <2>1 DEF PartialIsNewer
<1>8. EndedIsNotStill'
  <2>1. ASSUME NEW w \in ready'
        PROVE  /\ reply'[w].kind # "still"
               /\ pc'[w] = "status" => seen'[w].agent = "blocked"
               /\ reply'[w].kind = "final" => reply'[w].whole /\ reply'[w].turn = turn'
    <3>1. w \in Reqs /\ w \in ready /\ proven
      BY <1>1, <2>1 DEF Reqs, IsTyped, Typed, Honest, CallsTrue
    <3>2. /\ reply[w].kind # "still"
          /\ pc[w] = "status" => seen[w].agent = "blocked"
          /\ reply[w].kind = "final" => reply[w].whole /\ reply[w].turn = turn
      BY <3>1 DEF Honest, AnswersFitTheReads, EndedIsNotStill
    <3>3. text.whole /\ text.turn = turn
      BY <3>1 DEF Honest, SessionTrue
    <3>4. CASE w # r
      BY <1>2, <1>4, <3>1, <3>2, <3>4
    <3>5. CASE w = r
      <4>1. reply'[r].kind # "still" /\ (pc'[r] = "status" => seen'[r].agent = "blocked")
        BY <1>1, <3>1, <3>2, <3>5 DEF Given
      <4>2. reply'[r].kind = "final" =>
              reply'[r].turn = text.turn /\ reply'[r].whole = text.whole
        BY <1>1 DEF Given
      <4> QED
        BY <1>2, <3>2, <3>3, <3>5, <4>1, <4>2
    <3> QED
      BY <3>4, <3>5
  <2> QED
    BY <2>1 DEF EndedIsNotStill
<1> QED
  BY <1>5, <1>6, <1>7, <1>8 DEF Honest, AnswersFitTheReads

LEMMA HonestStep == IsTyped /\ Honest /\ [Next]_vars => Honest'
<1> SUFFICES ASSUME IsTyped, Honest, [Next]_vars PROVE Honest'
  OBVIOUS
<1>1. CASE Environment
  BY <1>1, SessionStep
<1>2. ASSUME NEW r \in Reqs, Take(r) PROVE Honest'
  <2>1. /\ UNCHANGED <<agent, turn, text, proven, shown, seen>>
        /\ r = Head(inbox) /\ inbox # <<>>
        /\ pc' = [pc EXCEPT ![r] = IF r \in Waits THEN "look"
                                   ELSE IF r \in Watches THEN "watch" ELSE "status"]
        /\ reply' = reply \/ reply' = [reply EXCEPT ![r].kind = "status"]
        /\ ready' = ready \/ (ready' = ready \cup {r} /\ proven /\ r \in Waits)
    BY <1>2 DEF Take, others, session
  <2>2. pc[r] = "queued" /\ reply[r].kind = "none"
    BY <2>1, Taken DEF Honest, CallsTrue
  <2>3. /\ \A q \in Reqs \ {r} : pc'[q] = pc[q] /\ reply'[q] = reply[q]
        /\ reply'[r].kind \in {"none", "status"} /\ pc'[r] \in {"look", "status", "watch"}
        /\ r \in Waits => pc'[r] # "status"
    <3>1. reply[r] \in Answer /\ DOMAIN reply = Reqs /\ DOMAIN pc = Reqs
      BY DEF IsTyped, Typed
    <3>2. CASE reply' = reply
      BY <2>1, <2>2, <3>1, <3>2
    <3>3. CASE reply' = [reply EXCEPT ![r].kind = "status"]
      <4>1. reply'[r].kind = "status" /\ \A q \in Reqs \ {r} : reply'[q] = reply[q]
        BY <3>1, <3>3 DEF Answer
      <4> QED
        BY <2>1, <3>1, <4>1
    <3> QED
      BY <2>1, <3>2, <3>3
  <2>4. SessionTrue'
    BY <2>1 DEF Honest, SessionTrue, Dated
  <2>5. CallsTrue'
    <3>1. ready' # {} => proven'
      BY <2>1 DEF Honest, CallsTrue
    <3> QED
      BY <2>1, <2>3, <3>1 DEF Honest, CallsTrue, Dated
  <2>6. PartialIsNewer'
    BY <2>1, <2>3 DEF Honest, AnswersFitTheReads, PartialIsNewer, Reqs
  <2>7. EndedIsNotStill'
    <3>1. ASSUME NEW w \in ready'
          PROVE  /\ reply'[w].kind # "still"
                 /\ pc'[w] = "status" => seen'[w].agent = "blocked"
                 /\ reply'[w].kind = "final" => reply'[w].whole /\ reply'[w].turn = turn'
      <4>1. w \in Waits /\ w \in Reqs /\ (w = r \/ w \in ready)
        BY <2>1, <3>1 DEF IsTyped, Typed, Reqs
      <4>2. CASE w = r
        BY <2>3, <4>1, <4>2
      <4>3. CASE w # r /\ w \in ready
        BY <2>1, <2>3, <4>1, <4>3 DEF Honest, AnswersFitTheReads, EndedIsNotStill
      <4> QED
        BY <4>1, <4>2, <4>3
    <3> QED
      BY <3>1 DEF EndedIsNotStill
  <2> QED
    BY <2>4, <2>5, <2>6, <2>7 DEF Honest, AnswersFitTheReads
<1>3. ASSUME NEW r \in Reqs, Step(r) PROVE Honest'
  BY <1>3, CallStep
<1>4. CASE Exit \/ (\E w \in Waits : Expire(w)) \/ UNCHANGED vars
  <2>1. UNCHANGED <<agent, turn, text, proven, shown, pc, seen, reply, ready>>
    BY <1>4 DEF Exit, Expire, vars, others, session, call
  <2> QED
    BY <2>1 DEF Honest, SessionTrue, CallsTrue, Dated, AnswersFitTheReads, PartialIsNewer, EndedIsNotStill
<1> QED
  BY <1>1, <1>2, <1>3, <1>4 DEF Next, Environment

\* What get_delegate_result returns as the answer is the text of a turn that has ended, or
\* newer than the entry of the roster it goes by; an answer that was there when the call began
\* is never called still working, gives way to a status only where the roster showed the
\* session blocked, and is whole where it is handed out.
THEOREM AnswersFitReads == Spec => []AnswersFitTheReads
<1>1. Init => IsTyped /\ Honest
  BY InitTyped, InitHonest
<1>2. IsTyped /\ Honest /\ [Next]_vars => (IsTyped /\ Honest)'
  BY TypedStep, HonestStep
<1>3. Honest => AnswersFitTheReads
  BY DEF Honest
<1> QED
  BY <1>1, <1>2, <1>3, PTL DEF Spec

-----------------------------------------------------------------------------
(* Lines. *)

\* Whoever holds write_lock has written half of its line; all the others, whole ones.
Stream ==
  /\ out \in Seq(Reqs)
  /\ \A i \in 1..Len(out) \div 2 : out[2 * i - 1] = out[2 * i]
  /\ ToSet(out) = {r \in Reqs : pc[r] \in {"writing", "done"}}
  /\ Cardinality(ToSet(out)) = (Len(out) + 1) \div 2
  /\ \A r \in Reqs : pc[r] = "writing" <=> r = pen
  /\ IF pen = None THEN Len(out) % 2 = 0
     ELSE pen \in Reqs /\ Len(out) % 2 = 1 /\ out[Len(out)] = pen

\* A call is in the inbox, on its thread or in the loop's hands until it is answered.
Owed ==
  /\ \A p \in Reqs : Concurrent(p) \/ pc[p] \in {"queued", "done"} \/ serial = p
  /\ \A r \in Reqs : pc[r] = "queued" => \E i \in 1..Len(inbox) : inbox[i] = r
  /\ exited => \A r \in Reqs : pc[r] = "done"

LEMMA NoneIsNoCall == None \notin Reqs
BY CallsAssumption DEF Reqs

LEMMA Halves ==
  /\ \A n \in Nat : n % 2 = 0 =>
       /\ (n + 1) % 2 = 1 /\ (n + 1) \div 2 = n \div 2 /\ ((n + 1) + 1) \div 2 = (n + 1) \div 2 + 1
       /\ n = 2 * ((n + 1) \div 2)
  /\ \A n \in Nat : n % 2 = 1 =>
       /\ (n + 1) % 2 = 0 /\ (n + 1) \div 2 = n \div 2 + 1 /\ ((n + 1) + 1) \div 2 = (n + 1) \div 2
       /\ n + 1 = 2 * ((n + 1) \div 2)
  /\ \A n \in Nat, i \in Nat : i \in 1..n \div 2 => 2 * i - 1 \in 1..n /\ 2 * i \in 1..n
OBVIOUS

LEMMA InitStream == Init => Stream /\ Owed
<1> SUFFICES ASSUME Init PROVE Stream /\ Owed
  OBVIOUS
<1>1. /\ out = <<>> /\ pen = None /\ exited = FALSE
      /\ \A r \in Reqs : pc[r] = "queued"
  BY DEF Init
<1>2. ToSet(out) = {} /\ Cardinality(ToSet(out)) = 0
  BY <1>1, FS_EmptySet DEF ToSet
<1>3. Stream
  BY <1>1, <1>2, NoneIsNoCall DEF Stream
<1>4. ASSUME NEW r \in Reqs PROVE \E i \in 1..Len(inbox) : inbox[i] = r
  <2> DEFINE n == Cardinality(Reqs)
  <2>1. inbox \in [1..n -> Reqs] /\ \A i, j \in 1..n : i # j => inbox[i] # inbox[j]
    BY DEF Init, SetToSeqs
  <2>2. IsFiniteSet(Reqs) /\ n \in Nat
    BY FiniteAssumption, FS_CardinalityType DEF Reqs
  <2>3. Cardinality(1..n) = n
    BY <2>2, FS_Interval
  <2> HIDE DEF n
  <2>4. inbox \in Injection(1..n, Reqs)
    BY <2>1 DEF Injection, IsInjective
  <2>5. inbox \in Surjection(1..n, Reqs)
    BY <2>2, <2>3, <2>4, FS_Injection DEF n
  <2>6. Len(inbox) = n
    BY <2>1, <2>2
  <2> QED
    BY <2>5, <2>6 DEF Surjection
<1>5. Owed
  BY <1>1, <1>4 DEF Owed, Reqs
<1> QED
  BY <1>3, <1>5

\* A step that writes nothing.
Silent(r) == /\ UNCHANGED <<out, pen, serial, inbox, exited>>
             /\ pc[r] \notin {"queued", "writing", "done"} /\ pc'[r] \notin {"queued", "writing", "done"}
             /\ \A q \in Reqs \ {r} : pc'[q] = pc[q]

LEMMA StepIsSilent ==
  ASSUME Typed, NEW r \in Reqs, Step(r)
  PROVE  Write(r) \/ Flush(r) \/ Silent(r)
<1> USE DEF Typed, Silent, server, stream
<1>1. CASE Status(r)
  BY <1>1 DEF Status
<1>2. CASE StatusFails(r)
  BY <1>2 DEF StatusFails, Answers
<1>3. CASE Watch(r)
  BY <1>3 DEF Watch, Answers
<1>4. CASE Mark(r)
  BY <1>4 DEF Mark
<1>5. CASE Record(r)
  BY <1>5 DEF Record
<1>6. CASE Look(r)
  BY <1>6 DEF Look
<1>7. CASE LookFails(r)
  BY <1>7 DEF LookFails, Answers
<1>8. CASE Prove(r)
  BY <1>8 DEF Prove, AnswersText
<1>9. CASE Judge(r)
  BY <1>9 DEF Judge, Answers
<1>10. CASE LookLast(r)
  BY <1>10 DEF LookLast, AnswersText
<1>11. CASE Fetch(r)
  BY <1>11 DEF Fetch, Answers, AnswersText
<1> QED
  BY <1>1, <1>2, <1>3, <1>4, <1>5, <1>6, <1>7, <1>8, <1>9, <1>10, <1>11 DEF Step

\* Half a line more.
LEMMA HalfLine ==
  ASSUME out \in Seq(Reqs), NEW r \in Reqs, out' = Append(out, r)
  PROVE  /\ out' \in Seq(Reqs) /\ Len(out) \in Nat /\ Len(out') = Len(out) + 1
         /\ \A i \in 1..Len(out) : out'[i] = out[i]
         /\ out'[Len(out')] = r
         /\ ToSet(out') = ToSet(out) \cup {r}
<1>1. /\ out' \in Seq(Reqs) /\ Len(out) \in Nat /\ Len(out') = Len(out) + 1
      /\ \A i \in 1..Len(out) : out'[i] = out[i]
      /\ out'[Len(out')] = r
  BY AppendProperties
<1>2. DOMAIN out = 1..Len(out) /\ DOMAIN out' = 1..Len(out')
  BY <1>1
<1>3. \A i \in 1..Len(out') : i \in 1..Len(out) \/ i = Len(out')
  BY <1>1
<1>4. \A i \in 1..Len(out) : i \in 1..Len(out')
  BY <1>1
<1>5. Len(out') \in 1..Len(out')
  BY <1>1
<1> QED
  BY <1>1, <1>2, <1>3, <1>4, <1>5 DEF ToSet

LEMMA WriteStep ==
  ASSUME IsTyped, Stream, Owed, NEW r \in Reqs, Write(r)
  PROVE  Stream' /\ Owed'
<1>1. /\ out \in Seq(Reqs) /\ pc \in [Reqs -> Places]
      /\ pc[r] = "reply" /\ pen = None /\ pen' = r /\ out' = Append(out, r)
      /\ pc' = [pc EXCEPT ![r] = "writing"] /\ UNCHANGED <<inbox, serial, exited>>
  BY DEF Write, IsTyped, Typed, Stream, server
<1>2. /\ out' \in Seq(Reqs) /\ Len(out) \in Nat /\ Len(out') = Len(out) + 1
      /\ \A i \in 1..Len(out) : out'[i] = out[i]
      /\ out'[Len(out')] = r /\ ToSet(out') = ToSet(out) \cup {r}
  BY <1>1, HalfLine
<1>3. Len(out) % 2 = 0
  BY <1>1 DEF Stream
<1>4. /\ Len(out') % 2 = 1 /\ Len(out') \div 2 = Len(out) \div 2
      /\ (Len(out') + 1) \div 2 = (Len(out) + 1) \div 2 + 1
  BY <1>2, <1>3, Halves
<1>5. \A i \in 1..Len(out') \div 2 : out'[2 * i - 1] = out'[2 * i]
  <2>1. ASSUME NEW i \in 1..Len(out) \div 2 PROVE out'[2 * i - 1] = out'[2 * i]
    <3>1. i \in Nat /\ 2 * i - 1 \in 1..Len(out) /\ 2 * i \in 1..Len(out)
      BY <1>2, Halves
    <3> QED
      BY <1>2, <3>1 DEF Stream
  <2> QED
    BY <1>4, <2>1
<1>6. /\ \A q \in Reqs : pc[q] # "writing"
      /\ pc'[r] = "writing" /\ \A q \in Reqs \ {r} : pc'[q] = pc[q]
  BY <1>1, NoneIsNoCall DEF Stream
<1>7. ToSet(out') = {q \in Reqs : pc'[q] \in {"writing", "done"}}
  BY <1>2, <1>6 DEF Stream
<1>8. Cardinality(ToSet(out')) = (Len(out') + 1) \div 2
  <2>1. ToSet(out) \in SUBSET Reqs /\ r \notin ToSet(out)
    BY <1>1 DEF Stream
  <2>2. IsFiniteSet(ToSet(out))
    BY <2>1, FiniteAssumption, FS_Subset DEF Reqs
  <2>3. Cardinality(ToSet(out')) = Cardinality(ToSet(out)) + 1
    BY <1>2, <2>1, <2>2, FS_AddElement
  <2> QED
    BY <1>4, <2>3 DEF Stream
<1>9. Stream'
  BY <1>1, <1>2, <1>4, <1>5, <1>6, <1>7, <1>8, NoneIsNoCall DEF Stream
<1>10. Owed'
  BY <1>1, <1>6 DEF Owed, Reqs
<1> QED
  BY <1>9, <1>10

LEMMA FlushStep ==
  ASSUME IsTyped, Stream, Owed, NEW r \in Reqs, Flush(r)
  PROVE  Stream' /\ Owed'
<1>1. /\ out \in Seq(Reqs) /\ pc \in [Reqs -> Places]
      /\ pc[r] = "writing" /\ pen' = None /\ out' = Append(out, r)
      /\ pc' = [pc EXCEPT ![r] = "done"] /\ UNCHANGED <<inbox, exited>>
      /\ serial' = IF serial = r THEN None ELSE serial
  BY DEF Flush, IsTyped, Typed, Stream
<1>2. /\ out' \in Seq(Reqs) /\ Len(out) \in Nat /\ Len(out') = Len(out) + 1
      /\ \A i \in 1..Len(out) : out'[i] = out[i]
      /\ out'[Len(out')] = r /\ ToSet(out') = ToSet(out) \cup {r}
  BY <1>1, HalfLine
<1>3. r = pen /\ Len(out) % 2 = 1 /\ out[Len(out)] = r
  BY <1>1, NoneIsNoCall DEF Stream
<1>4. /\ Len(out') % 2 = 0 /\ Len(out') \div 2 = Len(out) \div 2 + 1
      /\ (Len(out') + 1) \div 2 = (Len(out) + 1) \div 2
      /\ Len(out') = 2 * (Len(out') \div 2)
  BY <1>2, <1>3, Halves
<1>5. \A i \in 1..Len(out') \div 2 : out'[2 * i - 1] = out'[2 * i]
  <2>1. ASSUME NEW i \in 1..Len(out) \div 2 PROVE out'[2 * i - 1] = out'[2 * i]
    <3>1. i \in Nat /\ 2 * i - 1 \in 1..Len(out) /\ 2 * i \in 1..Len(out)
      BY <1>2, Halves
    <3> QED
      BY <1>2, <3>1 DEF Stream
  <2>2. ASSUME NEW i \in Nat, i = Len(out') \div 2 PROVE out'[2 * i - 1] = out'[2 * i]
    <3>1. 2 * i = Len(out') /\ 2 * i - 1 = Len(out) /\ Len(out) \in 1..Len(out)
      BY <1>2, <1>3, <1>4, <2>2
    <3> QED
      BY <1>2, <1>3, <3>1
  <2>3. \A i \in 1..Len(out') \div 2 : i \in 1..Len(out) \div 2 \/ (i \in Nat /\ i = Len(out') \div 2)
    BY <1>2, <1>4
  <2> QED
    BY <2>1, <2>2, <2>3
<1>6. /\ \A q \in Reqs \ {r} : pc'[q] = pc[q] /\ pc[q] # "writing"
      /\ pc'[r] = "done"
  BY <1>1, <1>3 DEF Stream
<1>7. ToSet(out') = ToSet(out) /\ ToSet(out') = {q \in Reqs : pc'[q] \in {"writing", "done"}}
  BY <1>1, <1>2, <1>6 DEF Stream
<1>8. Stream'
  <2>1. \A q \in Reqs : pc'[q] # "writing" /\ q # pen'
    BY <1>1, <1>6, NoneIsNoCall
  <2> QED
    BY <1>1, <1>2, <1>4, <1>5, <1>7, <2>1 DEF Stream
<1>9. Owed'
  BY <1>1, <1>6 DEF Owed, Reqs
<1> QED
  BY <1>8, <1>9

LEMMA StreamStep == IsTyped /\ Stream /\ Owed /\ [Next]_vars => Stream' /\ Owed'
<1> SUFFICES ASSUME IsTyped, Stream, Owed, [Next]_vars PROVE Stream' /\ Owed'
  OBVIOUS
<1>1. ASSUME NEW r \in Reqs, Take(r) PROVE Stream' /\ Owed'
  <2>1. /\ r = Head(inbox) /\ inbox # <<>> /\ inbox' = Tail(inbox) /\ UNCHANGED <<out, pen, exited>>
        /\ serial = None /\ serial' = IF Concurrent(r) THEN None ELSE r
        /\ \E place \in {"look", "status", "watch"} : pc' = [pc EXCEPT ![r] = place]
    BY <1>1 DEF Take, stream
  <2>2. pc[r] = "queued"
    BY <2>1, Taken
  <2>3. pc'[r] \in {"look", "status", "watch"} /\ \A q \in Reqs \ {r} : pc'[q] = pc[q]
    BY <2>1 DEF IsTyped, Typed
  <2>4. {q \in Reqs : pc'[q] \in {"writing", "done"}} = {q \in Reqs : pc[q] \in {"writing", "done"}}
    BY <2>2, <2>3
  <2>5. \A q \in Reqs : pc'[q] = "writing" <=> pc[q] = "writing"
    BY <2>2, <2>3
  <2>6. Stream'
    BY <2>1, <2>4, <2>5 DEF Stream
  <2>7. \A p \in Reqs : Concurrent(p) \/ pc'[p] \in {"queued", "done"} \/ serial' = p
    <3>1. \A p \in Reqs : Concurrent(p) \/ pc[p] \in {"queued", "done"}
      BY <2>1, NoneIsNoCall DEF Owed, Reqs
    <3>2. Concurrent(r) \/ serial' = r
      BY <2>1
    <3> QED
      BY <2>3, <3>1, <3>2, CallsAssumption DEF Reqs
  <2>8. \A q \in Reqs : pc'[q] = "queued" => \E i \in 1..Len(inbox') : inbox'[i] = q
    <3>1. ASSUME NEW q \in Reqs, pc'[q] = "queued" PROVE \E i \in 1..Len(inbox') : inbox'[i] = q
      <4>1. q # r /\ pc[q] = "queued"
        BY <2>3, <3>1
      <4>2. PICK i \in 1..Len(inbox) : inbox[i] = q
        BY <4>1 DEF Owed
      <4> QED
        BY <2>1, <4>1, <4>2, Taken
    <3> QED
      BY <3>1
  <2>9. ~exited
    BY <2>1, <2>2, Taken DEF Owed
  <2> QED
    BY <2>1, <2>6, <2>7, <2>8, <2>9 DEF Owed
<1>2. ASSUME NEW r \in Reqs, Step(r) PROVE Stream' /\ Owed'
  <2>1. Write(r) \/ Flush(r) \/ Silent(r)
    BY <1>2, StepIsSilent DEF IsTyped
  <2>2. CASE Silent(r)
    <3>1. {q \in Reqs : pc'[q] \in {"writing", "done"}} = {q \in Reqs : pc[q] \in {"writing", "done"}}
      BY <2>2 DEF Silent
    <3>2. \A q \in Reqs : pc'[q] = "writing" <=> pc[q] = "writing"
      BY <2>2 DEF Silent
    <3>3. Stream'
      BY <2>2, <3>1, <3>2 DEF Silent, Stream
    <3>4. Owed'
      BY <2>2 DEF Silent, Owed, Reqs
    <3> QED
      BY <3>3, <3>4
  <2> QED
    BY <2>1, <2>2, WriteStep, FlushStep
<1>3. CASE Exit
  <2>1. /\ UNCHANGED <<out, pen, inbox, serial, pc>> /\ inbox = <<>> /\ serial = None
        /\ \A p \in Reqs : Concurrent(p) => pc[p] = "done"
    BY <1>3 DEF Exit, stream
  <2>2. \A r \in Reqs : pc[r] # "queued"
    BY <2>1 DEF Owed
  <2>3. \A p \in Reqs : ~Concurrent(p) => pc[p] = "done"
    BY <2>1, <2>2, NoneIsNoCall DEF Owed, Reqs
  <2>4. \A r \in Reqs : pc[r] = "done"
    BY <2>1, <2>3 DEF Reqs
  <2> QED
    BY <2>1, <2>4 DEF Stream, Owed
<1>4. CASE Environment \/ (\E w \in Waits : Expire(w)) \/ UNCHANGED vars
  <2>1. UNCHANGED <<out, pen, inbox, serial, pc, exited>>
    BY <1>4 DEF Environment, Narrate, Block, Unblock, End, Resume, Refresh, calls, Expire, vars,
                server, stream
  <2> QED
    BY <2>1 DEF Stream, Owed
<1> QED
  BY <1>1, <1>2, <1>3, <1>4 DEF Next, Environment

LEMMA StreamIsWhole == Stream /\ Owed => LinesWhole
<1> SUFFICES ASSUME Stream, Owed PROVE LinesWhole
  OBVIOUS
<1>1. ASSUME exited PROVE Len(out) = 2 * Cardinality(Reqs)
  <2>1. \A r \in Reqs : pc[r] = "done"
    BY <1>1 DEF Owed
  <2>2. ToSet(out) = Reqs
    BY <2>1 DEF Stream
  <2>3. pen = None
    <3>1. ASSUME pen # None PROVE FALSE
      BY <2>1, <3>1 DEF Stream
    <3> QED
      BY <3>1
  <2>4. Len(out) \in Nat /\ Len(out) % 2 = 0
    BY <2>3 DEF Stream
  <2>5. Len(out) = 2 * ((Len(out) + 1) \div 2)
    BY <2>4, Halves
  <2> QED
    BY <2>2, <2>5 DEF Stream
<1> QED
  BY <1>1 DEF Stream, LinesWhole

\* The answers of the loop and of its threads go out one after the other, each once, and the
\* process does not end with an answer owed.
THEOREM LinesAreWhole == Spec => []LinesWhole
<1>1. Init => IsTyped /\ Stream /\ Owed
  BY InitTyped, InitStream
<1>2. IsTyped /\ Stream /\ Owed /\ [Next]_vars => (IsTyped /\ Stream /\ Owed)'
  BY TypedStep, StreamStep
<1> QED
  BY <1>1, <1>2, StreamIsWhole, PTL DEF Spec
=============================================================================
