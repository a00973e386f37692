---------------------------- MODULE Conversation ----------------------------
(***************************************************************************)
(* Threads, their messages and everything that reads them back             *)
(* (crates/core/src: start_run.rs, db/threads.rs, db/runs.rs, db/media.rs, *)
(* db/message_fts.rs, db/run_log.rs, resume.rs, runs/thread_create.rs,     *)
(* runs/thread_get.rs, runs/post_message.rs, runs/message.rs,              *)
(* runs/run_history.rs, runs/retry.rs, runs/media.rs).                     *)
(*                                                                         *)
(* A Run's user and assistant Message are inserted with it, so a Message   *)
(* is named by its Run and its role.  The assistant's text is stored       *)
(* twice over: as message_parts in part order, which history and search    *)
(* concatenate, and as run_steps in timeline order, which thread/get and   *)
(* the resume transcript walk.                                             *)
(*                                                                         *)
(* One step is one transaction, one read, or one file operation.  What the *)
(* hub, the Worker's stream and the deciding of Proposals add is in        *)
(* RunStream, ToolCalls and ProposalDecision.                              *)
(***************************************************************************)
EXTENDS Naturals, Sequences, FiniteSetsExt, Functions

CONSTANTS
    Threads,        \* ids of Threads
    Runs,           \* ids of Runs
    Media,          \* ids of uploads
    Prompt, Word,   \* what a user types, what a Worker writes
    Verdicts,       \* how a Proposal may be decided
    Results,        \* how a tool call may end
    MaxNow,         \* bound on the clock, in milliseconds
    MaxSteps,       \* bound on the timelines of all Runs together
    MaxText,        \* bound on the deltas of one part
    MaxRedrives,    \* bound on retries
    MaxCrashes      \* bound on crashes

ASSUME OutcomeAssumption == Verdicts \subseteq {"accepted", "rejected"}
ASSUME BoundAssumption == MaxNow \in Nat /\ MaxRedrives \in Nat /\ MaxCrashes \in Nat

VARIABLES
    run,        \* runs, with the two messages and the timeline of each
    order,      \* Run ids in the order their rows were inserted (rowid)
    task,       \* the request that starts a Run, then the task driving it
    media,      \* per upload: the file on disk, the media row, the handler
    redrives, crashes

vars == <<run, order, task, media, redrives, crashes>>
bounds == <<redrives, crashes>>

Types == {"text", "reasoning"}
NoRow == [status |-> "none"]
Closed == 0

\* A task: where it stands, the instant and the Thread its request took,
\* whether it creates that Thread, the images it read, the open part of the
\* stream, and the messages its Worker's manifest carried.
Idle == [pc |-> "idle", at |-> 0, thread |-> 0, creates |-> FALSE,
         images |-> <<>>, open |-> Closed, mode |-> "none", manifest |-> <<>>]

RunStatuses == {"running", "parked", "completed", "errored", "cancelled"}
Persisted(r) == run[r] # NoRow
\* thread_exists: the row that came with its first Run.
Exists(t) == \E r \in Runs : Persisted(r) /\ run[r].thread = t
At(r, pc) == task[r].pc = pc
Goto(r, pc) == task' = [task EXCEPT ![r].pc = pc]
\* The task is gone; what its Worker was told is kept as history.
Ended(q) == [Idle EXCEPT !.pc = "over", !.mode = q.mode, !.manifest = q.manifest]
Over(r) == task' = [task EXCEPT ![r] = Ended(task[r])]

\* get_media and the read of its bytes: what an <img> and a retry need.
GetMedia(m) == media[m].row
ServeMedia(m) ==
    IF ~GetMedia(m) THEN "404" ELSE IF media[m].file = "none" THEN "404" ELSE media[m].file
Readable(m) == GetMedia(m) /\ media[m].file # "none"

-----------------------------------------------------------------------------
(* The shapes in the database.                                             *)

PromptStep == [kind |-> "prompt"]
PartStep(i) == [kind |-> "part", part |-> i]
CallStep == [kind |-> "call", result |-> "pending"]
ProposalStep == [kind |-> "proposal", verdict |-> "pending"]

Decided(step) == step.kind = "proposal" /\ step.verdict \in {"accepted", "rejected"}

\* The seqs appended to one another (each is evaluated once, as a tuple).
Concat(seqs) ==
    LET all == seqs \o <<>>
        f[i \in 0 .. Len(all)] == IF i = 0 THEN <<>> ELSE f[i - 1] \o all[i]
    IN  f[Len(all)]

\* The members of seq that lie in S, in order.
Only(seq, S) == Concat([i \in DOMAIN seq |-> IF seq[i] \in S THEN <<seq[i]>> ELSE <<>>])

\* The Runs of a Thread by (created_at, rowid): for each instant those of it,
\* in the order of their rows.
RunsAt(t, now) == {r \in Range(order) : run[r].thread = t /\ run[r].at = now}
ByTime(t) == Concat([i \in 1 .. MaxNow + 1 |-> Only(order, RunsAt(t, i - 1))])

\* Mutation: every part counts, whatever its type.
ReplyOfEveryPart(r) == Concat([i \in DOMAIN run[r].parts |-> run[r].parts[i].text])

\* text_parts_by_message: the text parts of the reply, in part order.
TextOf(part) == IF part.type = "text" THEN part.text ELSE <<>>
ReplyText(r) == Concat([i \in DOMAIN run[r].parts |-> TextOf(run[r].parts[i])])

\* insert_attachment_part: seq 1..N, after the prompt's text part.
AttachmentPart(m) == [type |-> "attachment", media |-> m]

\* parts_by_message of the user's message.
UserParts(r) ==
    <<[type |-> "text", text |-> run[r].prompt]>> \o
    [i \in DOMAIN run[r].images |-> AttachmentPart(run[r].images[i])]

Message(r, role) ==
    [run |-> r, role |-> role,
     text |-> IF role = "user" THEN run[r].prompt ELSE ReplyText(r)]

\* Mutation: whatever the reply holds so far counts as an answer.
HistoryOfEveryReply(r) ==
    LET before == Only(ByTime(run[r].thread), Runs \ {r})
    IN  Concat([i \in DOMAIN before |->
            <<Message(before[i], "user"), Message(before[i], "assistant")>>])

\* history_for_run: the completed messages of the Thread's other Runs.
HistoryFor(r) ==
    LET before == Only(ByTime(run[r].thread), Runs \ {r})
    IN  Concat([i \in DOMAIN before |->
            <<Message(before[i], "user")>> \o
            (IF run[before[i]].reply = "completed"
             THEN <<Message(before[i], "assistant")>> ELSE <<>>)])

\* search_messages: completed messages whose text parts hold the needle.
Hits(word) ==
    {hit \in {s \in Runs : Persisted(s)} \X {"user", "assistant"} :
        /\ hit[2] = "user" \/ run[hit[1]].reply = "completed"
        /\ word \in Range(Message(hit[1], hit[2]).text)}

\* segment_timeline: the steps of the reply, without the user's.
SegmentTimeline(r) == Only(run[r].steps, {s \in Range(run[r].steps) : s.kind # "prompt"})

\* segment_rows_for_run.  Of several decided Proposals the last one shows;
\* pending: a live hub also shows the calls still running.
Shown(r, steps, i, pending) ==
    LET step == steps[i]
    IN  CASE step.kind = "part"     -> run[r].parts[step.part].text # <<>>
          [] step.kind = "proposal" ->
               Decided(step) /\ \A j \in i + 1 .. Len(steps) : ~Decided(steps[j])
          [] step.kind = "call"     -> pending \/ step.result # "pending"

Segments(r, pending) ==
    LET steps == SegmentTimeline(r)
        segment(i) == IF ~Shown(r, steps, i, pending) THEN <<>>
                      ELSE IF steps[i].kind = "part" THEN <<run[r].parts[steps[i].part]>>
                      ELSE <<steps[i]>>
    IN  Concat([i \in DOMAIN steps |-> segment(i)])

\* run_live_segments, for run/subscribe.
LiveSegments(r) == Segments(r, TRUE)

\* user_segments: the text, unless it is empty, then the images in order.
UserSegments(r) ==
    LET parts == UserParts(r)
    IN  Only(parts, {p \in Range(parts) : p.type = "text" /\ p.text # <<>>}) \o
        Only(parts, {p \in Range(parts) : p.type = "attachment"})

\* The row and the wire shape of one message of thread/get.
MessageView(r, role) ==
    [run |-> r, role |-> role,
     status |-> IF role = "user" THEN "completed" ELSE run[r].reply,
     segments |-> IF role = "user" THEN UserSegments(r) ELSE Segments(r, FALSE)]

\* get_thread_with_messages: the user's message ahead of the reply.
ThreadMessages(t) ==
    LET runs == ByTime(t)
    IN  Concat([i \in DOMAIN runs |-> <<MessageView(runs[i], "user"),
                                        MessageView(runs[i], "assistant")>>])

\* thread/get.
ThreadGet(t) == IF Exists(t) THEN [messages |-> ThreadMessages(t)] ELSE "unknown_thread"

\* A MessageSegment, as From hands it to the wire.
IsText(segment) == "type" \in DOMAIN segment /\ segment.type = "text"

\* MessageRow::text, the flat text of a message.
FlatText(view) ==
    LET all == view.segments
    IN  Concat([i \in DOMAIN all |-> IF IsText(all[i]) THEN all[i].text ELSE <<>>])

\* read_thread: what the tool tells the model of one message.
ReadThread(view) == [run |-> view.run, role |-> view.role, text |-> FlatText(view)]

\* message/search: each hit leads to a message of a Thread.
SearchHits(word) ==
    {[thread |-> run[hit[1]].thread, run |-> hit[1], role |-> hit[2]] : hit \in Hits(word)}

\* list_run_history: the latest milestone of each Run.
RunHistory ==
    {[run |-> r, thread |-> run[r].thread, kind |-> run[r].milestone] :
        r \in {s \in Runs : Persisted(s)}}

-----------------------------------------------------------------------------
(* The resume transcript.                                                  *)

\* run_timeline: every step but the reasoning parts.
Replayed(r, step) == step.kind = "part" => run[r].parts[step.part].type # "reasoning"

\* reconstruct: one block for a message, a call and its paired result for a
\* tool step; a call without a result gets the "not executed" placeholder.
Blocks(r, step) ==
    CASE step.kind = "prompt"   -> <<[block |-> "user", text |-> run[r].prompt]>>
      [] step.kind = "part"     ->
           IF run[r].parts[step.part].text = <<>> THEN <<>>
           ELSE <<[block |-> "assistant", text |-> run[r].parts[step.part].text,
                   type |-> run[r].parts[step.part].type]>>
      [] step.kind = "proposal" -> <<[block |-> "call"],
                                     [block |-> "result", result |-> step.verdict]>>
      [] step.kind = "call"     ->
           <<[block |-> "call"],
             [block |-> "result",
              result |-> IF step.result = "pending" THEN "not executed" ELSE step.result]>>

Transcript(r) ==
    LET steps == Only(run[r].steps, {s \in Range(run[r].steps) : Replayed(r, s)})
    IN  Concat([i \in DOMAIN steps |-> Blocks(r, steps[i])])

-----------------------------------------------------------------------------
Init ==
    /\ run = [r \in Runs |-> NoRow]
    /\ order = <<>>
    /\ task = [r \in Runs |-> Idle]
    /\ media = [m \in Media |-> [file |-> "none", row |-> FALSE, pc |-> "idle"]]
    /\ redrives = 0 /\ crashes = 0

-----------------------------------------------------------------------------
(* media/upload: the bytes, then the row that names them.                  *)

\* A mid-write failure unlinks, and leaves the id as it was.
WriteBytes(m) ==
    /\ media[m].pc = "idle" /\ media[m].file = "none"
    /\ media' = [media EXCEPT ![m] = [file |-> "partial", row |-> FALSE, pc |-> "write"]]
    /\ UNCHANGED <<run, order, task, bounds>>

EndWrite(m) ==
    /\ media[m].pc = "write"
    /\ \/ media' = [media EXCEPT ![m] = [@ EXCEPT !.file = "whole", !.pc = "insert"]]
       \/ media' = [media EXCEPT ![m] = [@ EXCEPT !.file = "none", !.pc = "idle"]]
    /\ UNCHANGED <<run, order, task, bounds>>

\* A row that fails to land takes its file with it.
InsertMedia(m) ==
    /\ media[m].pc = "insert"
    /\ \/ media' = [media EXCEPT ![m] = [@ EXCEPT !.row = TRUE, !.pc = "idle"]]
       \/ media' = [media EXCEPT ![m] = [@ EXCEPT !.file = "none", !.pc = "idle"]]
    /\ UNCHANGED <<run, order, task, bounds>>

-----------------------------------------------------------------------------
(* What the lifecycle's transactions do to a Run's rows.                   *)

\* run_log::append, in the transaction of the change it records.
Logged(row, kind) == [row EXCEPT !.milestone = kind]

\* mark_streaming_messages_incomplete.
MarkIncomplete(row) == [row EXCEPT !.reply = IF @ = "streaming" THEN "incomplete" ELSE @]

\* mark_assistant_messages_completed.
MarkCompleted(row) == [row EXCEPT !.reply = "completed"]

\* mark_message_streaming: the reply of a retried Run opens again.
MarkStreaming(row) == [row EXCEPT !.reply = "streaming"]

MarkRunCompleted(row) == [row EXCEPT !.status = "completed"]
MarkRunErrored(row) == [row EXCEPT !.status = "errored"]
MarkRunParked(row) == [row EXCEPT !.status = "parked"]
MarkRunCancelled(row) == [row EXCEPT !.status = "cancelled"]

\* mark_run_running resumes, mark_errored_run_running retries.
MarkRunRunning(row) == [row EXCEPT !.status = "running"]
MarkErroredRunRunning(row) == [row EXCEPT !.status = "running"]

\* mark_proposal_cancelled, for the Proposal a parked Run waits on.
MarkProposalCancelled(row) ==
    [row EXCEPT !.steps = [i \in DOMAIN @ |->
        IF @[i] = ProposalStep THEN [@[i] EXCEPT !.verdict = "cancelled"] ELSE @[i]]]

\* delete_run_steps_except_proposals: the user's step and the Proposals stay.
Kept(step) == step.kind \in {"prompt", "proposal"}
DeleteSteps(row) ==
    [row EXCEPT !.steps = Only(@, {step \in Range(row.steps) : Kept(step)})]
DeleteMessageParts(row) == [row EXCEPT !.parts = <<>>]

-----------------------------------------------------------------------------
(* Starting a Run: the shells of thread/create, run/post_message and       *)
(* run/retry, then start_run.                                              *)

Fresh(r) == task[r] = Idle /\ ~Persisted(r) /\ \A s \in Runs : s < r => task[s] # Idle

\* The clock only grows from one request to the next.
Taken(r) == IF Persisted(r) THEN run[r].at ELSE task[r].at

\* The Thread a Run belongs to, or will.
Takes(r) == IF Persisted(r) THEN run[r].thread ELSE task[r].thread

\* The shell: existing Thread, resolved attachments, the instant taken.
Ask(r, t, creates, images) ==
    /\ Fresh(r)
    /\ IF creates THEN \A s \in Runs : Takes(s) # t ELSE Exists(t)
    /\ \A i \in DOMAIN images : Readable(images[i])
    /\ \E now \in 0 .. MaxNow :
          /\ \A s \in Runs : s < r => Taken(s) <= now
          /\ task' = [task EXCEPT ![r] = [Idle EXCEPT !.pc = "asked", !.at = now,
                          !.thread = t, !.creates = creates, !.images = images]]
    /\ UNCHANGED <<run, order, media, bounds>>

Create(r, t, images) == Ask(r, t, TRUE, images)
PostMessage(r, t, images) == Ask(r, t, FALSE, images)

\* ensure_provider_connected: nothing was written.
Refuse(r) == At(r, "asked") /\ ~Persisted(r) /\ Over(r)
             /\ UNCHANGED <<run, order, media, bounds>>

\* insert_initial_run_rows: the Run, its two messages, the first milestone.
InitialRows(q) ==
    [status |-> "running", thread |-> q.thread, at |-> q.at, prompt |-> <<Prompt>>,
     images |-> q.images, reply |-> "streaming", parts |-> <<>>,
     steps |-> <<PromptStep>>, milestone |-> "running"]

\* persist_thread_with_first_run and persist_initial_run: one transaction.
Persist(r) ==
    /\ At(r, "asked") /\ ~Persisted(r)
    /\ run' = [run EXCEPT ![r] = InitialRows(task[r])]
    /\ order' = Append(order, r)
    /\ Goto(r, "persisted")
    /\ UNCHANGED <<media, bounds>>

\* history_for_run, after the rows are committed; a read fault means none.
\* A created Thread skips it.
Spawn(r) ==
    /\ At(r, "persisted")
    /\ \E history \in IF task[r].creates THEN {<<>>} ELSE {<<>>, HistoryFor(r)} :
          task' = [task EXCEPT ![r] = [@ EXCEPT !.pc = "live", !.open = Closed,
                       !.mode = "fresh", !.manifest = history]]
    /\ UNCHANGED <<run, order, media, bounds>>

\* media_ids_for_message, in the order they were sent.
MediaIdsForMessage(r) ==
    LET parts == UserParts(r)
        sent == Only(parts, {p \in Range(parts) : p.type = "attachment"})
    IN  [i \in DOMAIN sent |-> sent[i].media]

\* run/retry's reads: an errored Run whose images can still be read.
AskRetry(r) ==
    /\ Persisted(r) /\ At(r, "over") /\ run[r].status = "errored"
    /\ redrives < MaxRedrives /\ redrives' = redrives + 1
    /\ \A i \in DOMAIN MediaIdsForMessage(r) : Readable(MediaIdsForMessage(r)[i])
    /\ task' = [task EXCEPT ![r] = [@ EXCEPT !.pc = "asked", !.creates = FALSE]]
    /\ UNCHANGED <<run, order, media, crashes>>

\* prepare_retry; a CAS that loses leaves the request without effect.
PrepareRetry(r) ==
    /\ At(r, "asked") /\ Persisted(r)
    /\ \/ /\ run[r].status = "errored"
          /\ run' = [run EXCEPT ![r] = MarkStreaming(DeleteMessageParts(DeleteSteps(
                         Logged(MarkErroredRunRunning(@), "running"))))]
          /\ Goto(r, "persisted")
       \/ /\ Over(r) /\ UNCHANGED run
    /\ UNCHANGED <<order, media, bounds>>

-----------------------------------------------------------------------------
(* The Worker's stream, as the database sees it.                           *)

Roomy == MapThenSumSet(LAMBDA r : Len(run[r].steps), {r \in Runs : Persisted(r)}) < MaxSteps
Streaming(r) == run[r].reply = "streaming"

OpenType(r) == IF task[r].open = Closed THEN "none" ELSE run[r].parts[task[r].open].type

\* open_assistant_part: a delta of another type than the open part's.
OpenPart(r, type, delta) ==
    /\ At(r, "live") /\ Streaming(r) /\ Roomy /\ OpenType(r) # type
    /\ run' = [run EXCEPT ![r] =
          [run[r] EXCEPT !.parts = Append(@, [type |-> type, text |-> delta]),
                         !.steps = Append(@, PartStep(Len(run[r].parts) + 1))]]
    /\ task' = [task EXCEPT ![r].open = Len(run[r].parts) + 1]
    /\ UNCHANGED <<order, media, bounds>>

\* Mutation: append_text_part without its streaming guard.
AppendWhenever(r, delta) ==
    /\ At(r, "live") /\ task[r].open # Closed /\ task[r].open \in DOMAIN run[r].parts
    /\ Len(run[r].parts[task[r].open].text) < MaxText
    /\ run' = [run EXCEPT ![r].parts[task[r].open].text = @ \o delta]
    /\ UNCHANGED <<order, task, media, bounds>>

\* append_assistant_part; a delta after the reply ended updates no row.
AppendPart(r, delta) ==
    /\ At(r, "live") /\ task[r].open # Closed /\ Streaming(r)
    /\ Len(run[r].parts[task[r].open].text) < MaxText
    /\ run' = [run EXCEPT ![r].parts[task[r].open].text = @ \o delta]
    /\ UNCHANGED <<order, task, media, bounds>>

\* persist_tool_call_rows; the loop seals the open part first.
Call(r) ==
    /\ At(r, "live") /\ run[r].status = "running" /\ Roomy
    /\ run' = [run EXCEPT ![r].steps = Append(@, CallStep)]
    /\ task' = [task EXCEPT ![r].open = Closed]
    /\ UNCHANGED <<order, media, bounds>>

ResolveCall(r, i) ==
    /\ At(r, "live") /\ run[r].steps[i] = CallStep
    /\ \E result \in Results :
          run' = [run EXCEPT ![r].steps[i].result = result]
    /\ UNCHANGED <<order, task, media, bounds>>

\* park_on_proposal: the Run waits and its Worker is gone.
Park(r) ==
    /\ At(r, "live") /\ run[r].status = "running" /\ Roomy
    /\ run' = [run EXCEPT ![r] =
          Logged(MarkRunParked([run[r] EXCEPT !.steps = Append(@, ProposalStep)]),
                 "proposal_pending")]
    /\ Over(r)
    /\ UNCHANGED <<order, media, bounds>>

\* proposal/decide: the verdict becomes the parked call's result.
Decide(r, i) ==
    /\ run[r].status = "parked" /\ run[r].steps[i] = ProposalStep
    /\ \E verdict \in Verdicts :
          run' = [run EXCEPT ![r] =
              Logged([@ EXCEPT !.steps[i].verdict = verdict], "proposal_decided")]
    /\ UNCHANGED <<order, task, media, bounds>>

\* worker::resume: the transcript, then the Run runs with both parts closed.
Resume(r) ==
    /\ run[r].status = "parked" /\ At(r, "over")
    /\ \A i \in DOMAIN run[r].steps : run[r].steps[i] # ProposalStep
    /\ task' = [task EXCEPT ![r] = [@ EXCEPT !.pc = "live", !.open = Closed,
                    !.mode = "resume", !.manifest = Transcript(r)]]
    /\ run' = [run EXCEPT ![r] = MarkRunRunning(@)]
    /\ UNCHANGED <<order, media, bounds>>

Complete(r) ==
    /\ At(r, "live") /\ run[r].status = "running"
    /\ run' = [run EXCEPT ![r] = Logged(MarkCompleted(MarkRunCompleted(@)), "done")]
    /\ Over(r)
    /\ UNCHANGED <<order, media, bounds>>

Errored(row) == Logged(MarkIncomplete(MarkRunErrored(row)), "error")

Fail(r) ==
    /\ At(r, "live") /\ run[r].status = "running"
    /\ run' = [run EXCEPT ![r] = Errored(@)]
    /\ Over(r)
    /\ UNCHANGED <<order, media, bounds>>

\* run/cancel: a running Run's loop may still have deltas in hand.
CancelRun(r) ==
    /\ run[r].status = "running"
       \/ (run[r].status = "parked" /\ \E i \in DOMAIN run[r].steps :
              run[r].steps[i] = ProposalStep)
    /\ run' = [run EXCEPT ![r] =
          Logged(MarkIncomplete(MarkRunCancelled(MarkProposalCancelled(@))), "cancelled")]
    /\ UNCHANGED <<order, task, media, bounds>>

\* The loop sees the cancel and stops.
LoopStops(r) == At(r, "live") /\ run[r].status = "cancelled" /\ Over(r)
                /\ UNCHANGED <<run, order, media, bounds>>

-----------------------------------------------------------------------------
\* Core dies and boots: tasks are gone, the sweep errors what ran.  A file
\* without a row is never looked at again; its id stands for a new upload.
Crash ==
    /\ crashes < MaxCrashes /\ crashes' = crashes + 1
    /\ run' = [r \in Runs |-> IF run[r].status = "running" THEN Errored(run[r]) ELSE run[r]]
    /\ task' = [r \in Runs |-> IF task[r] = Idle THEN Idle ELSE Ended(task[r])]
    /\ media' = [m \in Media |-> IF media[m].row THEN [media[m] EXCEPT !.pc = "idle"]
                                 ELSE [file |-> "none", row |-> FALSE, pc |-> "idle"]]
    /\ UNCHANGED <<order, redrives>>

\* A delta of text may be empty.
Deltas(type) == IF type = "text" THEN {<<>>, <<Word>>} ELSE {<<Word>>}
Images == {<<>>} \cup {<<m>> : m \in Media}

Next ==
    \/ Crash
    \/ \E m \in Media : WriteBytes(m) \/ EndWrite(m) \/ InsertMedia(m)
    \/ \E r \in Runs, t \in Threads, images \in Images :
          Create(r, t, images) \/ PostMessage(r, t, images)
    \/ \E r \in Runs : Refuse(r) \/ Persist(r) \/ Spawn(r) \/ AskRetry(r) \/ PrepareRetry(r)
    \/ \E r \in Runs, type \in Types : \E delta \in Deltas(type) : OpenPart(r, type, delta)
    \/ \E r \in Runs : AppendPart(r, <<Word>>)
    \/ \E r \in Runs : Call(r) \/ Park(r) \/ Resume(r) \/ Complete(r) \/ Fail(r)
                       \/ CancelRun(r) \/ LoopStops(r)
    \/ \E r \in Runs : Persisted(r) /\ \E i \in DOMAIN run[r].steps :
          ResolveCall(r, i) \/ Decide(r, i)

SpecConversation == Init /\ [][Next]_vars

-----------------------------------------------------------------------------
(* Properties.                                                             *)

\* Every row has its shape; every timeline step of a part points at a part
\* (the composite foreign key), and the open part is the last one.
TypeOK ==
    /\ \A r \in Runs : Persisted(r) =>
          /\ run[r].status \in RunStatuses
          /\ run[r].reply \in {"streaming", "completed", "incomplete"}
          /\ \A i \in DOMAIN run[r].parts : run[r].parts[i].type \in Types
          /\ \A i \in DOMAIN run[r].steps :
                run[r].steps[i].kind = "part" => run[r].steps[i].part \in DOMAIN run[r].parts
          /\ At(r, "live") => task[r].open \in {Closed, Len(run[r].parts)}

\* What a Worker was told of the Thread stays true: each answer in its
\* manifest is the final text of a completed reply and directly follows the
\* prompt it answers (start_run's history read runs after the Run's rows are
\* committed, while other Runs of the Thread stream, end and are retried).
HistoryIsFaithful ==
    \A r \in Runs : task[r].mode = "fresh" =>
        LET h == task[r].manifest IN
        \A i \in DOMAIN h :
            /\ h[i].run # r
            /\ h[i] = Message(h[i].run, h[i].role)
            /\ h[i].role = "assistant" => h[i - 1] = Message(h[i].run, "user")

\* The transcript a resumed Worker gets begins with the user's turn, ends
\* with the Decision it was resumed for, pairs every call with a result, and
\* replays no reasoning - whatever failed attempts and earlier Decisions the
\* Run went through (resume.rs:1-10, queries.rs:1693-1698).
ResumeTranscript ==
    \A r \in Runs : task[r].mode = "resume" =>
        LET m == task[r].manifest IN
        /\ m # <<>> /\ m[1].block = "user"
        /\ m[Len(m)].block = "result" /\ m[Len(m)].result \in {"accepted", "rejected"}
        /\ \A i \in DOMAIN m : /\ m[i].block = "call" => m[i + 1].block = "result"
                               /\ m[i].block = "assistant" => m[i].type # "reasoning"

\* The ways of reading a message agree: the parts in part order (history,
\* search) and the segments in timeline order (thread/get, read_thread) hold
\* the same text, so every hit is found again in the Thread it leads to,
\* nothing that is completed and visible escapes search, and a late subscriber
\* is shown the same text.
OneText ==
    \A t \in {u \in Threads : Exists(u)} :
        LET views == ThreadGet(t).messages
            hits == {hit \in SearchHits(Word) : hit.thread = t}
        IN  /\ \A i \in DOMAIN views :
                  LET view == views[i]
                      told == ReadThread(view)
                      hit == [thread |-> t, run |-> view.run, role |-> view.role]
                  IN  /\ told = Message(view.run, view.role)
                      /\ view.role = "assistant" =>
                            told.text = FlatText([segments |-> LiveSegments(view.run)])
                      /\ hit \in hits <=>
                            view.status = "completed" /\ Word \in Range(told.text)
            /\ \A hit \in hits : \E i \in DOMAIN views :
                  views[i].run = hit.run /\ views[i].role = hit.role

\* The feed of run/get_history never shows a Run as something it is not: an
\* ended Run by its ending, one that goes on never by an ending - a retry
\* after an error, a resume, a Stop of a parked Run and the boot sweep
\* included.
FeedIsTrue ==
    \A item \in RunHistory :
        LET status == run[item.run].status IN
        item.kind \in CASE status = "running"   -> {"running", "proposal_decided"}
                        [] status = "parked"    -> {"proposal_pending", "proposal_decided"}
                        [] status = "completed" -> {"done"}
                        [] status = "errored"   -> {"error"}
                        [] status = "cancelled" -> {"cancelled"}

\* Once a reply has ended, its text changes only by a retry, which starts it
\* over: a delta that was already in the loop's hands is dropped.
EndedTextStands ==
    [][\A r \in Runs : Persisted(r) /\ run[r].reply # "streaming" =>
          run'[r].parts = run[r].parts \/ (run[r].status = "errored" /\ run'[r].parts = <<>>)]_vars

\* A media row never points at bytes that are missing or partial, so what is
\* served of an upload is the upload, and a Run is never refused its retry for
\* an image that was sent (db/media.rs:5-14).
MediaReadable ==
    /\ \A m \in Media : GetMedia(m) => ServeMedia(m) = "whole"
    /\ \A r \in {s \in Runs : Persisted(s)} :
          \A i \in DOMAIN MediaIdsForMessage(r) : Readable(MediaIdsForMessage(r)[i])

\* What a Worker's manifest carried, the history of a fresh Run or the
\* transcript of a resumed one, is true (worker/mod.rs drive, resume).
ManifestIsFaithful == TypeOK /\ HistoryIsFaithful /\ ResumeTranscript

\* What clients are shown is true and the same wherever they look: messages,
\* hits, the feed of Runs and the images (runs/thread_get.rs, runs/message.rs,
\* runs/run_history.rs, db/media.rs).
ShownIsTrue == OneText /\ FeedIsTrue /\ MediaReadable

\* Documentation: "excluding the current Run yields strictly the prior
\* exchange" (queries.rs:1987-1990).  Does not hold.
Rank(r) == CHOOSE i \in DOMAIN order : order[i] = r
HistoryIsPrior ==
    \A r \in Runs : task[r].mode = "fresh" =>
        \A i \in DOMAIN task[r].manifest : Rank(task[r].manifest[i].run) < Rank(r)
=============================================================================
