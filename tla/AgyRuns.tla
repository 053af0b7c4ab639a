-------------------------------- MODULE AgyRuns --------------------------------
(***************************************************************************)
(* One run of the Antigravity adapter (adapters/agy/agy_delegate.py): a    *)
(* detached `agy` process, its output file, and the metadata file every    *)
(* caller reads, changes and rewrites without a lock.  stop_agy,           *)
(* check_agy_status and get_agy_result skip the operations lock, and the   *)
(* last runs on a thread of its own, so calls interleave at every read and *)
(* write.  A client is one such thread, whichever process it is in.        *)
(*                                                                         *)
(*   check_status:  read the metadata - parse the output - probe the pid   *)
(*                  - rewrite the metadata                                 *)
(*   stop:          read the metadata - SIGTERM - SIGKILL - rewrite it     *)
(*                                                                         *)
(* get_result is check_status again and again until its deadline, which    *)
(* changes nothing; so are the polls start_agy_delegate makes.             *)
(***************************************************************************)
EXTENDS Naturals

CONSTANTS
  Clients,   \* the threads that call the manager
  Mortal     \* the clients whose process may be killed (a bound)

ASSUME MortalAssumption == Mortal \subseteq Clients

Ended    == {"completed", "failed", "stopped"}
\* linked: the conversation id on record is the one agy reports.
Records  == [status : {"running"} \cup Ended, linked : BOOLEAN]
\* write_text truncates the file before it writes; two writers can leave a mixture.
Files    == {"none", "readable", "empty", "garbage"}
\* A SUCCESS that names its conversation, and one that does not.
Answers  == {"success", "nameless"}
Outputs  == {"nothing", "error"} \cup Answers
Steps    == {"idle", "parsing", "correcting", "probing", "storing", "filling",
             "terminating", "killing", "dead"}
NoRecord == [status |-> "running", linked |-> FALSE]

VARIABLES
  proc,    \* the agy process
  out,     \* the JSON its output file holds
  file,    \* the metadata file
  meta,    \* what it says when it can be read
  shared,  \* spawn has returned the run id
  pc,      \* where each client is in its call
  mem,     \* the metadata as the client has read and changed it
  got,     \* what the client parsed of the output
  last     \* the client's pending write is the last step of its call

locals == <<pc, mem, got, last>>
record == <<file, meta, shared>>
vars   == <<proc, out, file, meta, shared, pc, mem, got, last>>

TypeOK ==
  /\ proc \in {"none", "running", "exited"}
  /\ out \in Outputs
  /\ file \in Files
  /\ meta \in Records
  /\ shared \in BOOLEAN
  /\ pc \in [Clients -> Steps]
  /\ mem \in [Clients -> Records]
  /\ got \in [Clients -> Outputs]
  /\ last \in [Clients -> BOOLEAN]

Init ==
  /\ proc = "none"
  /\ out = "nothing"
  /\ file = "none"
  /\ meta = NoRecord
  /\ shared = FALSE
  /\ pc = [c \in Clients |-> "idle"]
  /\ mem = [c \in Clients |-> NoRecord]
  /\ got = [c \in Clients |-> "nothing"]
  /\ last = [c \in Clients |-> FALSE]

-----------------------------------------------------------------------------
(* A call ends, or its thread does. *)

Ends(c, step) ==
  /\ pc' = [pc EXCEPT ![c] = step]
  /\ mem' = [mem EXCEPT ![c] = NoRecord]
  /\ got' = [got EXCEPT ![c] = "nothing"]
  /\ last' = [last EXCEPT ![c] = FALSE]

\* The process of a client is killed in the middle of a call.
Crash(c) ==
  /\ c \in Mortal
  /\ pc[c] \notin {"idle", "dead"}
  /\ Ends(c, "dead")
  /\ UNCHANGED <<proc, out, record>>

\* A new server process, or a new call.
Restart(c) ==
  /\ pc[c] = "dead"
  /\ Ends(c, "idle")
  /\ UNCHANGED <<proc, out, record>>

-----------------------------------------------------------------------------
(* Writing the metadata file: Path.write_text opens it with O_TRUNC and     *)
(* writes when it closes it.                                                *)

\* The client will write r, and then end its call or go on with it.
Stores(c, r, final) ==
  /\ pc' = [pc EXCEPT ![c] = "storing"]
  /\ mem' = [mem EXCEPT ![c] = r]
  /\ last' = [last EXCEPT ![c] = final]

Truncate(c) ==
  /\ pc[c] = "storing"
  /\ file' = "empty"
  /\ meta' = NoRecord
  /\ pc' = [pc EXCEPT ![c] = "filling"]
  /\ UNCHANGED <<proc, out, shared, mem, got, last>>

\* Whoever writes over what another wrote since leaves a readable file only if his
\* text is not the shorter one.
Fill(c) ==
  /\ pc[c] = "filling"
  /\ \/ file' = "readable" /\ meta' = mem[c]
     \/ file # "empty" /\ file' = "garbage" /\ meta' = NoRecord
  /\ shared' = TRUE
  /\ IF last[c] THEN Ends(c, "idle")
                ELSE pc' = [pc EXCEPT ![c] = "probing"] /\ UNCHANGED <<mem, got, last>>
  /\ UNCHANGED <<proc, out>>

-----------------------------------------------------------------------------
(* spawn *)

\* Popen.  Nobody knows the run id until its metadata is written.
Spawn(c) ==
  /\ pc[c] = "idle"
  /\ proc = "none"
  /\ proc' = "running"
  /\ Stores(c, NoRecord, TRUE)
  /\ UNCHANGED <<out, record, got>>

-----------------------------------------------------------------------------
(* check_status *)

\* Reading an empty or broken file raises JSONDecodeError, which nobody catches: a
\* waiting thread ends without an answer, a serial call takes its server with it.
Raise(c) ==
  /\ pc[c] = "idle" /\ shared
  /\ file \in {"empty", "garbage"}
  /\ Ends(c, "dead")
  /\ UNCHANGED <<proc, out, record>>

Check(c) ==
  /\ pc[c] = "idle" /\ shared
  /\ file = "readable"
  /\ pc' = [pc EXCEPT ![c] = "parsing"]
  /\ mem' = [mem EXCEPT ![c] = meta]
  /\ UNCHANGED <<proc, out, record, got, last>>

\* _try_parse_output.  An error may name its conversation.
Parse(c) ==
  /\ pc[c] = "parsing"
  /\ got' = [got EXCEPT ![c] = out]
  /\ \/ /\ out \in {"success", "error"} /\ ~mem[c].linked
        /\ pc' = [pc EXCEPT ![c] = "correcting"]
     \/ /\ out # "success" \/ mem[c].linked
        /\ pc' = [pc EXCEPT ![c] = "probing"]
  /\ UNCHANGED <<proc, out, record, mem, last>>

\* The conversation id is corrected before anything else is looked at.
Correct(c) ==
  /\ pc[c] = "correcting"
  /\ Stores(c, [mem[c] EXCEPT !.linked = TRUE], FALSE)
  /\ UNCHANGED <<proc, out, record, got>>

\* A record that has ended stays as it was read.
Known(c) ==
  /\ pc[c] = "probing"
  /\ mem[c].status \in Ended
  /\ Ends(c, "idle")
  /\ UNCHANGED <<proc, out, record>>

\* Mutant: a process without output yet counts as ended.
FinishedEarly(c) == got[c] = "nothing" \/ proc # "running"

\* Mutant: only an output ends a run.
FinishedByOutput(c) == got[c] # "nothing"

\* is_pid_alive, overruled by an output with a status.
Finished(c) == got[c] # "nothing" \/ proc # "running"

\* The log of the CLI may name the conversation by now.
Progress(c) ==
  /\ pc[c] = "probing"
  /\ mem[c].status = "running" /\ ~Finished(c)
  /\ \E l \in {mem[c].linked, TRUE} : Stores(c, [mem[c] EXCEPT !.linked = l], TRUE)
  /\ UNCHANGED <<proc, out, record, got>>

\* Mutant: the record takes agy's own status over.
SettleVerbatim(c) ==
  /\ pc[c] = "probing"
  /\ mem[c].status = "running" /\ Finished(c)
  /\ Stores(c, [mem[c] EXCEPT !.status = got[c]], TRUE)
  /\ UNCHANGED <<proc, out, record, got>>

\* The outcome by the output parsed above, before the process was probed.
Settle(c) ==
  /\ pc[c] = "probing"
  /\ mem[c].status = "running" /\ Finished(c)
  /\ \E l \in {mem[c].linked, TRUE} :
       Stores(c, [status |-> IF got[c] \in Answers THEN "completed" ELSE "failed",
                  linked |-> l], TRUE)
  /\ UNCHANGED <<proc, out, record, got>>

-----------------------------------------------------------------------------
(* stop *)

Stop(c) ==
  /\ pc[c] = "idle" /\ shared
  /\ file = "readable"
  /\ pc' = [pc EXCEPT ![c] = "terminating"]
  /\ mem' = [mem EXCEPT ![c] = meta]
  /\ UNCHANGED <<proc, out, record, got, last>>

\* SIGTERM to the process group, which may end by it within half a second.
Terminate(c) ==
  /\ pc[c] = "terminating"
  /\ proc' \in {proc, "exited"}
  /\ pc' = [pc EXCEPT ![c] = "killing"]
  /\ UNCHANGED <<out, record, mem, got, last>>

\* Mutant: SIGTERM is taken to be enough.
KillNobody(c) ==
  /\ pc[c] = "killing"
  /\ proc' = proc
  /\ Stores(c, [mem[c] EXCEPT !.status = "stopped"], TRUE)
  /\ UNCHANGED <<out, record, got>>

\* SIGKILL if it has not, and the metadata says stopped, whatever it said before.
Kill(c) ==
  /\ pc[c] = "killing"
  /\ proc' = "exited"
  /\ Stores(c, [mem[c] EXCEPT !.status = "stopped"], TRUE)
  /\ UNCHANGED <<out, record, got>>

-----------------------------------------------------------------------------
(* The agy process. *)

\* It prints its JSON, with status SUCCESS or another one.
Answer ==
  /\ proc = "running" /\ out = "nothing"
  /\ out' \in Outputs \ {"nothing"}
  /\ UNCHANGED <<proc, record, locals>>

Exit ==
  /\ proc = "running"
  /\ proc' = "exited"
  /\ UNCHANGED <<out, record, locals>>

-----------------------------------------------------------------------------

CheckStatus(c) ==
  \/ Check(c)
  \/ Raise(c)

\* run_mcp_server takes one request at a time: the next starts when the call has
\* returned, and one that raises (unreadable metadata) takes the server down.
Call(c) ==
  \/ Spawn(c)
  \/ CheckStatus(c)
  \/ Stop(c)

\* The steps of a call once it has read the metadata.
Continue(c) ==
  \/ Truncate(c)
  \/ Fill(c)
  \/ Parse(c)
  \/ Correct(c)
  \/ Known(c)
  \/ Progress(c)
  \/ Settle(c)
  \/ Terminate(c)
  \/ Kill(c)

Next ==
  \/ \E c \in Clients :
       Crash(c) \/ Restart(c) \/ Call(c) \/ Continue(c)
  \/ Answer
  \/ Exit

Spec == Init /\ [][Next]_vars

\* A call goes on, none of its steps waits for anybody; get_result polls until its
\* deadline and its caller calls again; a dead server is started again.
Fairness ==
  \A c \in Clients :
    WF_vars(Continue(c)) /\ SF_vars(CheckStatus(c)) /\ WF_vars(Restart(c))

FairSpec == Spec /\ Fairness

-----------------------------------------------------------------------------
(* Properties. *)

\* What a record says of the run is so, whichever calls raced to write it: completed
\* is backed by a SUCCESS of agy and has the conversation it names, if it names one,
\* failed is backed by an error or an end of the process, and a stopped run's process
\* is gone (check_status, stop).
Earned(r) ==
  /\ r.status = "completed" => out \in Answers /\ (out = "success" => r.linked)
  /\ r.status = "failed" => out = "error" \/ proc = "exited"
  /\ r.status = "stopped" => proc = "exited"

RecordIsEarned == file = "readable" => Earned(meta)

\* The file is broken and no call under way will write it again.
Spoilt ==
  /\ file \in {"empty", "garbage"}
  /\ \A c \in Clients : pc[c] \in {"idle", "dead"}

Recorded == file = "readable" /\ meta.status \in Ended

\* Polling finds out that a run is over, and records it: calls that race, stop or die
\* can only keep that from happening by breaking the metadata file for good.
EndIsNoticed ==
  (shared /\ proc = "exited") ~> (Spoilt \/ Recorded)

\* A stop ends the process whatever polls do meanwhile, or its caller is killed.
StopEndsRun ==
  \A c \in Clients : pc[c] = "terminating" ~> (proc = "exited" \/ pc[c] = "dead")

\* get_agy_result will "return result with token usage" (its description in server.py):
\* a run recorded as failed has given no answer.
\* It does not hold; the README says what happens.
FailedHasNoAnswer ==
  file = "readable" /\ meta.status = "failed" => out \notin Answers

=============================================================================
