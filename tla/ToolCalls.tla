------------------------------ MODULE ToolCalls -----------------------------
(***************************************************************************)
(* The tool calls of one Run (crates/core/src: worker/run.rs,              *)
(* worker/external.rs, db/runs.rs; packages/worker/src/interpreter.ts).    *)
(*                                                                         *)
(* The Worker makes one call at a time.  An external call (an MCP read) it *)
(* executes itself: it asks before and reports after, and waits for Core's *)
(* acknowledgement each time.  An internal tool runs in Core.  A Proposal  *)
(* is refused, or parks the Run.  The Worker may die at any moment; what   *)
(* it sent before is still read.  Every terminal transition settles the    *)
(* external calls that are still open as interrupted.  Clients see the     *)
(* calls live and, on reload, from the tool_calls rows; the two have to    *)
(* agree.                                                                  *)
(*                                                                         *)
(* One step is one transaction, one publication under the Run's gate, or   *)
(* one message to or from the Worker.  The lifecycle slot, lag and         *)
(* re-attach are RunStream's subject and left out here.                    *)
(***************************************************************************)
EXTENDS Naturals, Sequences, SequencesExt

CONSTANTS
    External,       \* ids of calls the Worker executes
    Internal,       \* ids of calls Core executes, or refuses
    Proposal,       \* ids of Proposal calls
    NoCall,
    MaxFaults,      \* bound on failing transactions
    MaxCrashes      \* bound on Core crashes

Calls == External \cup Internal \cup Proposal
Tools == External \cup Internal

ASSUME KindsAssumption ==
    /\ External \cap Internal = {} /\ External \cap Proposal = {}
    /\ Internal \cap Proposal = {} /\ NoCall \notin Calls

ASSUME BoundsAssumption == MaxFaults \in Nat /\ MaxCrashes \in Nat

VARIABLES
    status,     \* runs.status
    row,        \* the tool_calls row: its status, and whose result it holds
    used,       \* ids the provider has issued
    gate,       \* the hub gate is held by: "free", "driver", "stop"
    flag,       \* the hub's cancel signal
    driver,     \* the Worker's task in Core
    worker,     \* the Worker process
    told,       \* results the model of this attempt has been given
    log,        \* events published by this generation
    client,     \* a subscribed client's rows
    faults, crashes

vars == <<status, row, used, gate, flag, driver, worker, told, log, client,
          faults, crashes>>
bounds == <<faults, crashes>>

Terminal == {"completed", "errored", "cancelled"}
Results == {"completed", "errored"}
\* How the loop of a task may end with a transition still to make.
Exit == {"done", "failed", "disconnected"}

\* What a client renders for a row ("errored" and "interrupted" look alike).
Shown(r) == CASE r = "none" -> "none"
              [] r = "pending" -> "started"
              [] r = "completed" -> "completed"
              [] OTHER -> "error"

ToolEvent(c, shown) == [call |-> c, shown |-> shown]
Ending(st) == [call |-> NoCall, shown |-> st]
Ended == \E i \in DOMAIN log : log[i].call = NoCall

\* hub.send, delivered to an attached client; no publication names a call twice.
Publish(events) ==
    /\ log' = log \o events
    /\ client' = [client EXCEPT !.view =
          IF ~client.on THEN @
          ELSE [c \in Tools |-> IF \E e \in Range(events) : e.call = c
                                THEN (CHOOSE e \in Range(events) : e.call = c).shown
                                ELSE @[c]]]
Quiet == UNCHANGED <<log, client>>

NoRows == [c \in Tools |-> "none"]
NoTask == [pc |-> "gone", call |-> NoCall, result |-> "none", end |-> "disconnected"]
NewTask == [NoTask EXCEPT !.pc = "loop"]
\* ChildWorker::spawn: a process that has been sent its manifest.
NewWorker == [pc |-> "think", call |-> NoCall, result |-> "none", alive |-> TRUE]
\* Shut down, or gone with nothing of its output left to read.
DeadWorker == [NewWorker EXCEPT !.pc = "dead", !.alive = FALSE]

-----------------------------------------------------------------------------
Init ==
    /\ status = "running" /\ row = [c \in Calls |-> "none"] /\ used = {}
    /\ gate = "free" /\ flag = FALSE
    /\ driver = NewTask /\ worker = NewWorker
    /\ told = [c \in Calls |-> "none"]
    /\ log = <<>> /\ client = [on |-> FALSE, view |-> NoRows]
    /\ faults = 0 /\ crashes = 0

At(pc) == driver.pc = pc
GoTo(pc) == driver' = [driver EXCEPT !.pc = pc]
Back == driver' = [driver EXCEPT !.pc = "loop", !.call = NoCall, !.result = "none"]
\* The loop ends, the Worker is shut down: with a terminal transition still
\* to make, or with nothing left to do.
Fail(end) == driver' = [NoTask EXCEPT !.pc = "settle", !.end = end] /\ worker' = DeadWorker
\* Mutation: the Worker is not shut down.
RetireTaskOnly == driver' = NoTask /\ UNCHANGED worker
Retire == driver' = NoTask /\ worker' = DeadWorker
Fault == faults < MaxFaults /\ faults' = faults + 1

-----------------------------------------------------------------------------
(* The Worker: sequential calls; it may also die at any moment.            *)

\* A started frame, a tool request; the Worker waits for Core's answer.
Ask(c) ==
    /\ worker.pc = "think" /\ worker.alive /\ c \notin used
    /\ used' = used \cup {c}
    /\ worker' = [worker EXCEPT !.pc = "asked", !.call = c]
    /\ UNCHANGED <<status, row, gate, flag, driver, told, log, client, bounds>>

\* The MCP call returns, with content or an error; the finished frame is sent.
Execute(r) ==
    /\ worker.pc = "execute" /\ worker.alive
    /\ worker' = [worker EXCEPT !.pc = "finished", !.result = r]
    /\ UNCHANGED <<status, row, used, gate, flag, driver, told, log, client, bounds>>

\* Done or error, recorded and followed by EOF; a frame that is no valid one
\* (undecodable, misnamed, an invalid Proposal) may come at any moment.
Say(end) ==
    /\ At("loop") /\ worker.alive
    /\ worker.pc = "think" \/ end = "failed"
    /\ Fail(end)
    /\ UNCHANGED <<status, row, used, gate, flag, told, log, client, bounds>>

\* The process dies; a frame it has sent stays in the pipe.
Die ==
    /\ worker.alive
    /\ worker' = IF worker.pc \in {"asked", "finished"}
                  THEN [worker EXCEPT !.alive = FALSE] ELSE DeadWorker
    /\ UNCHANGED <<status, row, used, gate, flag, driver, told, log, client, bounds>>

-----------------------------------------------------------------------------
(* run_loop: one frame at a time.                                          *)

SeeCancel ==
    /\ At("loop") /\ flag /\ Retire
    /\ UNCHANGED <<status, row, used, gate, flag, told, log, client, bounds>>

\* The kind of the frame that waits to be read.
Frame ==
    CASE worker.pc = "finished" -> "external_tool_finished"
      [] worker.pc = "asked" /\ worker.call \in External -> "external_tool_started"
      [] worker.pc = "asked" /\ worker.call \notin External -> "tool_request"
      [] worker.pc = "dead" -> "end of file"
      [] OTHER -> "none"

\* A tool frame is read, unless a cancel was seen.  A Proposal the gate
\* refuses (pre_park_refusal) is announced and answered with an error.
Receive ==
    /\ At("loop") /\ ~flag
    /\ \E pc \in CASE Frame = "external_tool_finished" -> {"finish"}
                   [] Frame = "external_tool_started" -> {"begin"}
                   [] Frame = "tool_request" ->
                          {"announce"} \cup IF worker.call \in Proposal THEN {"park"} ELSE {}
                   [] OTHER -> {} :
          driver' = [driver EXCEPT !.pc = pc, !.call = worker.call, !.result = worker.result]
    /\ UNCHANGED <<status, row, used, gate, flag, worker, told, log, client, bounds>>

\* EOF without a done frame.
Disconnected ==
    /\ At("loop") /\ ~flag /\ Frame = "end of file"
    /\ Fail("disconnected")
    /\ UNCHANGED <<status, row, used, gate, flag, told, log, client, bounds>>

\* write_frame reaches the process, or fails with the pipe.
Written == worker.alive

\* Mutation: the insert is not guarded on the Run's status.
BeginnableAlways == TRUE
\* insert_external_tool_call_if_running: WHERE EXISTS (... 'running').
Beginnable == status = "running"

\* Mutation: a failed insert is only logged, as it is for an internal call.
StartLogged == GoTo("ack") /\ UNCHANGED worker
StartUnrecorded == Fail("failed")

\* The start of an external call, and what a lost or failed start leads to.
Begin ==
    /\ At("begin") /\ gate = "free"
    /\ \/ /\ Beginnable
          /\ row' = [row EXCEPT ![driver.call] = "pending"]
          /\ gate' = "driver" /\ GoTo("begun")
          /\ UNCHANGED <<worker, faults>>
       \/ /\ ~Beginnable
          /\ IF flag THEN Retire ELSE Fail("failed")
          /\ UNCHANGED <<row, gate, faults>>
       \/ /\ Fault /\ StartUnrecorded
          /\ UNCHANGED <<row, gate>>
    /\ UNCHANGED <<status, used, flag, told, log, client, crashes>>

\* Published under the same gate, then acknowledged.
Begun ==
    /\ At("begun") /\ Publish(<<ToolEvent(driver.call, "started")>>)
    /\ gate' = "free" /\ GoTo("ack")
    /\ UNCHANGED <<status, row, used, flag, worker, told, bounds>>

Ack ==
    /\ At("ack")
    /\ IF Written THEN worker' = [worker EXCEPT !.pc = "execute"] /\ Back ELSE Fail("failed")
    /\ UNCHANGED <<status, row, used, gate, flag, told, log, client, bounds>>

\* resolve_external_tool_call: WHERE status = 'pending'.
Finishable == row[driver.call] = "pending"

\* Mutation: a failed update is only logged, as it is for an internal call.
FinishLogged == GoTo("answer") /\ UNCHANGED worker
FinishUnrecorded == Fail("failed")

\* Mutation: the row is resolved before the gate is taken.
FinishUngated ==
    /\ At("finish") /\ Finishable
    /\ row' = [row EXCEPT ![driver.call] = driver.result] /\ GoTo("resolved")
    /\ UNCHANGED <<status, used, gate, flag, worker, told, log, client, bounds>>
Finish ==
    /\ At("finish") /\ gate = "free"
    /\ \/ /\ Finishable
          /\ row' = [row EXCEPT ![driver.call] = driver.result]
          /\ gate' = "driver" /\ GoTo("resolved")
          /\ UNCHANGED <<worker, faults>>
       \/ /\ ~Finishable
          /\ IF flag THEN Retire ELSE Fail("failed")
          /\ UNCHANGED <<row, gate, faults>>
       \/ /\ Fault /\ FinishUnrecorded
          /\ UNCHANGED <<row, gate>>
    /\ UNCHANGED <<status, used, flag, told, log, client, crashes>>

Resolved ==
    /\ At("resolved")
    /\ Publish(<<ToolEvent(driver.call, Shown(driver.result))>>)
    /\ gate' = "free" /\ GoTo("answer")
    /\ UNCHANGED <<status, row, used, flag, worker, told, bounds>>

\* The acknowledged result, or that of a tool request, reaches the model; the
\* latter is withheld after a cancel, and no matter if it cannot be written.
Answer ==
    /\ At("answer")
    /\ \/ /\ Written /\ (driver.call \in External \/ ~flag)
          /\ told' = [told EXCEPT ![driver.call] = driver.result]
          /\ worker' = NewWorker /\ Back
       \/ /\ ~Written /\ driver.call \in External
          /\ Fail("failed") /\ UNCHANGED told
       \/ /\ ~Written /\ driver.call \notin External /\ ~flag
          /\ worker' = DeadWorker /\ Back /\ UNCHANGED told
       \/ /\ driver.call \notin External /\ flag
          /\ Retire /\ UNCHANGED told
    /\ UNCHANGED <<status, row, used, gate, flag, log, client, bounds>>

-----------------------------------------------------------------------------
(* Internal tools: handle_tool_request and refuse_tool_request.            *)

\* Mutation: the event is published without looking at the cancel signal.
SeenUnchecked == FALSE
\* The cancel signal, checked under the gate before each publication.
Seen == flag

Announce ==
    /\ At("announce") /\ gate = "free"
    /\ IF Seen
       THEN Retire /\ Quiet
       ELSE /\ Publish(<<ToolEvent(driver.call, "started")>>)
            /\ GoTo("insert") /\ UNCHANGED worker
    /\ UNCHANGED <<status, row, used, gate, flag, told, bounds>>

\* The call's row with its step, and later its result; failing to write either
\* is only logged.
PersistToolCall(c) ==
    \/ row' = [row EXCEPT ![c] = "pending"] /\ UNCHANGED faults
    \/ Fault /\ UNCHANGED row

ResolveToolCall(c, r) ==
    \/ row' = [row EXCEPT ![c] = IF @ = "none" THEN @ ELSE r] /\ UNCHANGED faults
    \/ Fault /\ UNCHANGED row

\* A call that is not allowed leaves no row.
Insert ==
    /\ At("insert")
    /\ \/ PersistToolCall(driver.call) /\ GoTo("run")
       \/ /\ driver.call \in Internal
          /\ driver' = [driver EXCEPT !.pc = "report", !.result = "errored"]
          /\ UNCHANGED <<row, faults>>
    /\ UNCHANGED <<status, used, gate, flag, worker, told, log, client, crashes>>

\* The tool runs and its row is resolved, whatever became of the Run.
RunTool(r) ==
    /\ At("run") /\ driver.call \in Internal
    /\ driver' = [driver EXCEPT !.pc = "report", !.result = r]
    /\ ResolveToolCall(driver.call, r)
    /\ UNCHANGED <<status, used, gate, flag, worker, told, log, client, crashes>>

\* refuse_tool_request: no tool runs, the row gets the refusal.
RefuseToolRequest ==
    /\ At("run") /\ driver.call \in Proposal
    /\ driver' = [driver EXCEPT !.pc = "report", !.result = "errored"]
    /\ ResolveToolCall(driver.call, "errored")
    /\ UNCHANGED <<status, used, gate, flag, worker, told, log, client, crashes>>

Report ==
    /\ At("report") /\ gate = "free"
    /\ IF Seen
       THEN Retire /\ Quiet
       ELSE /\ Publish(<<ToolEvent(driver.call, Shown(driver.result))>>)
            /\ GoTo("answer") /\ UNCHANGED worker
    /\ UNCHANGED <<status, row, used, gate, flag, told, bounds>>

-----------------------------------------------------------------------------
(* Park, terminal transitions, Stop.                                       *)

\* The pending call and its proposals row, and the Run parked; or nothing.
ParkOnProposal(p) ==
    \/ /\ status' = "parked" /\ row' = [row EXCEPT ![p] = "pending"]
       /\ Retire /\ UNCHANGED faults
    \/ Fault /\ Fail("disconnected") /\ UNCHANGED <<status, row>>

Park ==
    /\ At("park") /\ gate = "free"
    /\ IF flag THEN Retire /\ UNCHANGED <<status, row, faults>>
               ELSE ParkOnProposal(driver.call)
    /\ UNCHANGED <<used, gate, flag, told, log, client, crashes>>

\* settle_interrupted_external_calls, part of every terminal transaction.
Settled == [c \in Calls |-> IF c \in External /\ row[c] = "pending"
                            THEN "interrupted" ELSE row[c]]

\* publish_interrupted, then the terminal event.
Interrupted == {c \in External : row[c] = "interrupted"}
Endings == Append(SetToSeq({ToolEvent(c, "error") : c \in Interrupted}), Ending(status))

\* The loop's own terminal transition (complete_run, error_run).
Settle ==
    /\ At("settle") /\ gate = "free"
    /\ IF status = "running"
       THEN /\ status' = IF driver.end = "done" THEN "completed" ELSE "errored"
            /\ row' = Settled /\ gate' = "driver" /\ GoTo("announceEnd")
       ELSE driver' = NoTask /\ UNCHANGED <<status, row, gate>>
    /\ UNCHANGED <<used, flag, worker, told, log, client, bounds>>

AnnounceEnd ==
    /\ At("announceEnd") /\ Publish(Endings)
    /\ gate' = "free" /\ driver' = NoTask
    /\ UNCHANGED <<status, row, used, flag, worker, told, bounds>>

StopRunning ==
    /\ status = "running" /\ ~At("gone") /\ gate = "free"
    /\ status' = "cancelled" /\ row' = Settled /\ flag' = TRUE /\ gate' = "stop"
    /\ UNCHANGED <<used, driver, worker, told, log, client, bounds>>

StopPublish ==
    /\ gate = "stop" /\ Publish(Endings) /\ gate' = "free"
    /\ UNCHANGED <<status, row, used, flag, driver, worker, told, bounds>>

StopParked ==
    /\ status = "parked"
    /\ status' = "cancelled" /\ row' = Settled
    /\ UNCHANGED <<used, gate, flag, driver, worker, told, log, client, bounds>>

-----------------------------------------------------------------------------
(* Resume, retry, crash, subscribe.                                        *)

\* A new generation: a new hub, task and Worker.
Activate ==
    /\ At("gone") /\ status' = "running"
    /\ flag' = FALSE /\ driver' = NewTask /\ worker' = NewWorker
    /\ log' = <<>> /\ client' = [on |-> FALSE, view |-> NoRows]
    /\ UNCHANGED <<used, gate, bounds>>

\* reconstruct: the recorded result, or "not executed" where there is none.
Transcript == [c \in Calls |-> IF row[c] \in Results THEN row[c] ELSE "none"]

\* A Decision is recorded and the Run resumed (see ProposalDecision).
Resume ==
    /\ status = "parked"
    /\ \E p \in Proposal : row[p] = "pending" /\ row' = [row EXCEPT ![p] = "completed"]
    /\ told' = Transcript'
    /\ Activate

\* Mutation: the rows of the failed attempt are kept.
DiscardedNone == row
\* prepare_retry: all but Proposal-backed calls are deleted; a refused one has
\* no proposals row.
ProposalBacked(c) == c \in Proposal /\ row[c] # "errored"
Discarded == [c \in Calls |-> IF ProposalBacked(c) THEN row[c] ELSE "none"]

\* The retried attempt starts afresh; its model has been told nothing.
Retry ==
    /\ status = "errored"
    /\ row' = Discarded /\ told' = [c \in Calls |-> "none"]
    /\ Activate

\* The process dies; boot recovery fails a running Run.
Crash ==
    /\ crashes < MaxCrashes /\ crashes' = crashes + 1
    /\ IF status = "running"
       THEN status' = "errored" /\ row' = Settled
       ELSE UNCHANGED <<status, row>>
    /\ gate' = "free" /\ flag' = FALSE /\ driver' = NoTask /\ worker' = DeadWorker
    /\ log' = <<>> /\ client' = [on |-> FALSE, view |-> NoRows]
    /\ UNCHANGED <<used, told, faults>>

\* run_live_segments under the gate, then the tail.
Subscribe ==
    /\ ~client.on /\ ~At("gone") /\ ~Ended /\ gate = "free"
    /\ client' = [on |-> TRUE, view |-> [c \in Tools |-> Shown(row[c])]]
    /\ UNCHANGED <<status, row, used, gate, flag, driver, worker, told, log, bounds>>

-----------------------------------------------------------------------------
DriverStep ==
    \/ SeeCancel \/ Receive \/ Disconnected \/ Begin \/ Begun \/ Ack \/ Finish \/ Resolved \/ Answer
    \/ Announce \/ Insert \/ (\E r \in Results : RunTool(r)) \/ RefuseToolRequest
    \/ Report \/ Park \/ Settle \/ AnnounceEnd

WorkerStep == (\E c \in Calls : Ask(c)) \/ (\E r \in Results : Execute(r))
              \/ (\E end \in {"done", "failed"} : Say(end)) \/ Die

Next ==
    \/ DriverStep \/ WorkerStep
    \/ StopRunning \/ StopPublish \/ StopParked
    \/ Resume \/ Retry \/ Crash \/ Subscribe

Spec == Init /\ [][Next]_vars

\* Core's tasks are polled; nothing is assumed of the Worker or of clients.
FairSpec == Spec /\ WF_vars(DriverStep) /\ WF_vars(StopPublish)

-----------------------------------------------------------------------------
(* Properties.                                                             *)

\* Types, and which steps of the loop run with the gate held: between a commit
\* and its publication (worker/external.rs, worker/run.rs).
TypeOK ==
    /\ status \in {"running", "parked"} \cup Terminal
    /\ row \in [Calls -> {"none", "pending", "interrupted"} \cup Results]
    /\ told \in [Calls -> {"none"} \cup Results]
    /\ gate \in {"free", "driver", "stop"} /\ flag \in BOOLEAN
    /\ (gate = "driver") <=> driver.pc \in {"begun", "resolved", "announceEnd"}
    /\ worker.call \in Calls \cup {NoCall} /\ driver.end \in Exit
    /\ client.view \in [Tools -> {"none", "started", "completed", "error"}]

\* When a client has seen the Run end, it shows every external call as the
\* rows a reload reads: no late result, no missing interruption
\* (finish_external_and_publish, publish_interrupted).
LiveMatchesReload ==
    (Ended /\ client.on) => \A c \in External : client.view[c] = Shown(row[c])

\* Nothing is published after the Run's ending (the cancel signal checked
\* under the gate in run_loop, the guards on external rows).
SilentAfterEnding ==
    \A i \in DOMAIN log : log[i].call = NoCall => i = Len(log)

\* An external call is open only while its Run runs: neither a frame that
\* comes late nor any way of ending leaves a row pending for ever
\* (insert_external_tool_call_if_running, settle_interrupted_external_calls).
OpenOnlyWhileRunning ==
    status # "running" => \A c \in External : row[c] # "pending"

\* An external call is executed only once its start is recorded: the
\* acknowledgement of the started frame gates the execution (handle_started).
ExecutesRecorded == worker.pc = "execute" => row[worker.call] # "none"

\* What the model has been told of an external call is what the row says, so
\* that a transcript rebuilt after a park repeats it (handle_finished).
ConsumedIsDurable ==
    \A c \in External : told[c] # "none" => row[c] = told[c]

\* What clients see of the external calls and what a reload reads agree when
\* the Run has ended, the ending is the last thing they see, and no ending
\* leaves a row open (worker/external.rs, db/lifecycle.rs).
ClientsAgree == TypeOK /\ LiveMatchesReload /\ SilentAfterEnding /\ OpenOnlyWhileRunning

\* An external call is on record before it runs and its result is on record
\* before the model goes on with it, so that no crash, Stop or failing
\* transaction makes a transcript forget it (worker/external.rs).
RecordedFirst == ExecutesRecorded /\ ConsumedIsDurable

\* While the model thinks, a transcript rebuilt from the rows would contain no
\* tool result it has not been given: nothing of a failed attempt survives a
\* retry (prepare_retry), nothing is resolved behind the model's back.
NothingUntold ==
    (status = "running" /\ At("loop") /\ worker.pc = "think") =>
        \A c \in Tools : Transcript[c] # "none" => told[c] = Transcript[c]

\* A Worker that waits for Core is answered or shut down: no path of run_loop
\* leaves it blocked on an acknowledgement that never comes.
WorkerReleased ==
    worker.pc \in {"asked", "finished"} ~> worker.pc \notin {"asked", "finished"}

\* docs/adr/0043: every non-Proposal Tool Request writes a tool_calls row; so
\* one that was announced to clients and has ended (with no failing
\* transaction) is there on reload.  handle_tool_request returns before
\* persisting a tool that is not allowed.  Does not hold.
AnnouncedIsRecorded ==
    \A c \in Internal : (faults = 0 /\ told[c] # "none") => row[c] # "none"
=============================================================================
