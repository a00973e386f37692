------------------------------- MODULE Serving ------------------------------
(***************************************************************************)
(* Core as its Clients meet it (crates/core/src: main.rs, shutdown.rs,     *)
(* ws_origin.rs, launch.rs, runs/mod.rs, runs/handler.rs, runs/reply.rs,   *)
(* runs/thread_*.rs, runs/proposal.rs, worker/title.rs, worker/oneshot.rs  *)
(* and the Thread statements of db/queries.rs).                            *)
(*                                                                         *)
(* A connection is one task: it takes a frame only between two handlers,   *)
(* hands it to the handler and waits for it, and sends what its channel    *)
(* holds only when no frame waits.  Beside the connections run the title   *)
(* Workers, one for every created Thread, and the Decisions on a TickTick  *)
(* write, which the connection does not wait for; both answer through the  *)
(* channel of the connection that started them.  What the handlers of the  *)
(* other methods do is in the modules of their components: here a method   *)
(* is the steps between its frame and its answer.                          *)
(***************************************************************************)
EXTENDS Integers, Sequences, FiniteSets, SequencesExt, Titles

CONSTANTS
    Conns,              \* connections, each opened at most once
    Threads,            \* ids thread/create may mint
    Handshakes,         \* headers a handshake may carry
    PublicOrigin,       \* INKSTONE_PUBLIC_ORIGIN; "" is unset
    Launches,           \* what a title Worker may be launched from
    Scripts,            \* conn |-> per request it sends, what it may be
    Deltas,             \* pieces of text a title Worker sends at a time
    Failures,           \* the failures a Decision may end in
    MaxDeltas,          \* bound on the frames of one title Worker
    MaxBoots            \* bound on the boots of Core

ASSUME ScriptAssumption ==
    /\ \A c \in Conns : Scripts[c] \in Seq(ToSet(Scripts[c]))
    /\ "none" \notin Threads
ASSUME DeltaAssumption == \A delta \in Deltas : delta \in Seq(ToSet(delta))
ASSUME BoundAssumption == MaxDeltas \in Nat /\ MaxBoots \in Nat

VARIABLES
    core,               \* the process: its boot's next step, and shutdown
    conn,               \* the connections
    thread,             \* the Threads' rows
    titler,             \* the title task of each Thread
    decide,             \* the Decisions that run beside their connection
    hadTitles           \* history: the titles each row has carried

vars == <<core, conn, thread, titler, decide, hadTitles>>

NoThread == [title |-> <<>>]
NoTitler == [at |-> "none"]
Over == [at |-> "done"]
Idle == 0
ThreadExists(t) == thread[t] # NoThread

\* A connection before its first frame; one that ends leaves nothing behind.
Fresh(at) ==
    [at |-> at,
     sent |-> <<>>, read |-> 0,             \* the frames, and how many were taken
     busy |-> Idle, step |-> 1,             \* the request in hand, and its step
     rows |-> {}, made |-> "none",          \* what its handler holds
     out |-> <<>>, delivered |-> 0]         \* the channel, and how much is sent

(* The codes of the failures a handler answers with.                       *)
Code(failure) ==
    CASE failure = "ok" -> 0
      [] failure = "invalid_params" -> -32602
      [] failure = "unknown_thread" -> -32001
      [] failure = "not_pending" -> -32002
      [] failure = "provider_not_connected" -> -32004
      [] failure = "stale_connection" -> -32005
      [] failure = "internal" -> -32603
      [] failure = "method_not_found" -> -32601

\* A request's answer, and the notifications a channel carries between them.
Answer(id, code, listed) == [kind |-> "answer", id |-> id, code |-> code,
                             listed |-> listed]
ErrorAnswer(id, failure) == Answer(id, Code(failure), {})
Titled(t, title) == [kind |-> "thread/titled", thread |-> t, title |-> title]
DecideResult(id) == Answer(id, Code("ok"), {})
ProposalChanged == [kind |-> "proposal/changed"]

-----------------------------------------------------------------------------
(* The handshakes a connection is opened for: no Origin at all, exactly    *)
(* the public one, or a loopback one that names the Host it asked for.     *)
Allowed(headers) ==
    \/ headers.origins = <<>>
    \/ /\ Len(headers.origins) = 1
       /\ LET origin == headers.origins[1]
          IN  CASE origin.scheme = "https" ->
                       PublicOrigin # "" /\ origin.host = PublicOrigin
                [] origin.scheme = "http" ->
                       origin.host = headers.host /\ origin.loopback
                [] OTHER -> FALSE

(* The command a role starts: the override if there is one, else the       *)
(* binary beside Core's, else the source.  A blank override starts nothing.*)
Resolve(launch) ==
    CASE launch.override # "unset" ->
             IF launch.override = "blank" THEN "none" ELSE "override"
      [] launch.sibling -> "sibling"
      [] OTHER -> "source"

-----------------------------------------------------------------------------
(* What queues a frame on a connection's channel.  A channel whose         *)
(* connection is gone takes it and forgets it.                             *)
Queue(cs, c, frames) ==
    IF cs[c].at = "open" THEN [cs EXCEPT ![c].out = @ \o frames] ELSE cs

Request(c) == conn[c].sent[conn[c].busy]
Busy(c) == conn[c].at = "open" /\ conn[c].busy # Idle
AnswerWith(c, failure, listed) ==
    conn' = [Queue(conn, c, <<Answer(conn[c].busy, Code(failure), listed)>>)
             EXCEPT ![c].busy = Idle]

\* The methods whose handlers are steps of other modules: here, their answer.
Elsewhere ==
    {"run/post_message", "run/subscribe", "run/cancel", "run/retry",
     "run/get_history", "thread/get", "entity/list", "entity/backlinks",
     "entity/mutate", "journal_entry/rescan", "message/search", "media/upload",
     "observation/record", "observation/update", "observation/query",
     "observation/get_history", "proposal/get", "provider/status",
     "ticktick/status", "ticktick/tasks/list", "model/catalog", "settings/get",
     "settings/set", "provider/login_start", "provider/configure",
     "provider/test"}

\* A plausible slip: a mutation is acknowledged and then made.
AcknowledgeFirst(method) ==
    CASE method = "thread/create" -> <<"check", "insert", "title", "answer">>
      [] method = "thread/rename" -> <<"check", "answer", "write">>
      [] method = "thread/archive" -> <<"check", "answer", "write">>
      [] method = "thread/unarchive" -> <<"check", "answer", "write">>
      [] method = "thread/list" -> <<"read", "answer">>
      [] method = "thread/list_archived" -> <<"read", "answer">>
      [] method = "proposal/decide" -> <<"family">>
      [] method \in Elsewhere -> <<"answer">>
      [] OTHER -> <<"no_method">>

\* The steps of a method, from its frame to its answer.
Steps(method) ==
    CASE method = "thread/create" -> <<"check", "insert", "title", "answer">>
      [] method = "thread/rename" -> <<"check", "write", "answer">>
      [] method = "thread/archive" -> <<"check", "write", "answer">>
      [] method = "thread/unarchive" -> <<"check", "write", "answer">>
      [] method = "thread/list" -> <<"read", "answer">>
      [] method = "thread/list_archived" -> <<"read", "answer">>
      [] method = "proposal/decide" -> <<"family">>
      [] method \in Elsewhere -> <<"answer">>
      [] OTHER -> <<"no_method">>

At(c, step) ==
    /\ Busy(c) /\ core.at = "serving"
    /\ Steps(Request(c).method)[conn[c].step] = step

\* The handler goes on to its next step, or is over.
Forward(cs, c) ==
    IF cs[c].step = Len(Steps(Request(c).method))
    THEN [cs EXCEPT ![c].busy = Idle, ![c].step = 1]
    ELSE [cs EXCEPT ![c].step = @ + 1]

\* The handler ends here with an error.
Fail(c, failure) ==
    conn' = [Queue(conn, c, <<ErrorAnswer(conn[c].busy, failure)>>)
             EXCEPT ![c].busy = Idle, ![c].step = 1]

-----------------------------------------------------------------------------
(* Boot, and its end.                                                      *)
BootSteps == <<"logging", "workflow", "ticktick", "database", "skills",
               "recover", "sweep", "bind">>
\* What a boot goes on without: the trail, the tokens, the bundled Skills.
Dispensable == {"logging", "ticktick", "skills"}

Closed == [c \in Conns |-> IF conn[c].at = "open" THEN Fresh("closed") ELSE conn[c]]
\* The process ends, and with it every task it ran.
Ends ==
    /\ core' = [core EXCEPT !.at = "off", !.step = 0]
    /\ conn' = Closed
    /\ titler' = [t \in Threads |-> IF titler[t] = NoTitler THEN NoTitler
                                    ELSE Over]
    /\ decide' = {}
    /\ UNCHANGED <<thread, hadTitles>>

Start ==
    /\ core.at = "off" /\ core.boots < MaxBoots
    /\ core' = [at |-> "booting", step |-> 1, boots |-> core.boots + 1,
                shutdown |-> FALSE]
    /\ UNCHANGED <<conn, thread, titler, decide, hadTitles>>

Boot ==
    /\ core.at = "booting"
    /\ \/ core' = IF core.step = Len(BootSteps)
                  THEN [core EXCEPT !.at = "serving"]
                  ELSE [core EXCEPT !.step = @ + 1]
       \/ /\ BootSteps[core.step] \notin Dispensable
          /\ core' = [core EXCEPT !.at = "off", !.step = 0]
    /\ UNCHANGED <<conn, thread, titler, decide, hadTitles>>

\* A Run's end that could not be recorded: the signal stays.
RequestShutdown ==
    /\ core.at = "serving" /\ ~core.shutdown
    /\ core' = [core EXCEPT !.shutdown = TRUE]
    /\ UNCHANGED <<conn, thread, titler, decide, hadTitles>>

Exit == core.at = "serving" /\ core.shutdown /\ Ends
Crash == core.at # "off" /\ Ends

-----------------------------------------------------------------------------
(* A connection.                                                           *)
\* A plausible slip: the port is bound before boot has recovered.
HandshakeEarly(c) ==
    /\ core.at # "off" /\ ~core.shutdown /\ conn[c].at = "new"
    /\ \E headers \in Handshakes :
           conn' = [conn EXCEPT ![c].at =
                        IF Allowed(headers) THEN "open" ELSE "refused"]
    /\ UNCHANGED <<core, thread, titler, decide, hadTitles>>

Handshake(c) ==
    /\ core.at = "serving" /\ ~core.shutdown /\ conn[c].at = "new"
    /\ \E headers \in Handshakes :
           conn' = [conn EXCEPT ![c].at =
                        IF Allowed(headers) THEN "open" ELSE "refused"]
    /\ UNCHANGED <<core, thread, titler, decide, hadTitles>>

Send(c) ==
    /\ conn[c].at = "open" /\ Len(conn[c].sent) < Len(Scripts[c])
    /\ \E request \in Scripts[c][Len(conn[c].sent) + 1] :
           conn' = [conn EXCEPT ![c].sent = Append(@, request)]
    /\ UNCHANGED <<core, thread, titler, decide, hadTitles>>

AtSelect(c) == conn[c].at = "open" /\ conn[c].busy = Idle

\* First the signal.
CloseOnShutdown(c) ==
    /\ AtSelect(c) /\ core.shutdown
    /\ conn' = [conn EXCEPT ![c] = Fresh("closed")]
    /\ UNCHANGED <<core, thread, titler, decide, hadTitles>>

\* Then the socket: its end,
ReceiveEnd(c) ==
    /\ AtSelect(c) /\ ~core.shutdown
    /\ conn' = [conn EXCEPT ![c] = Fresh("closed")]
    /\ UNCHANGED <<core, thread, titler, decide, hadTitles>>

\* or a frame.  One that is no request is dropped.
Receive(c) ==
    /\ AtSelect(c) /\ ~core.shutdown
    /\ conn[c].read < Len(conn[c].sent)
    /\ LET id == conn[c].read + 1
       IN  conn' = [conn EXCEPT
               ![c].read = id,
               ![c].busy = IF conn[c].sent[id].method = "malformed"
                           THEN Idle ELSE id]
    /\ UNCHANGED <<core, thread, titler, decide, hadTitles>>

\* Then what the channel holds.
Deliver(c) ==
    /\ AtSelect(c) /\ ~core.shutdown
    /\ conn[c].read = Len(conn[c].sent)
    /\ conn[c].delivered < Len(conn[c].out)
    /\ conn' = [conn EXCEPT ![c].delivered = @ + 1]
    /\ UNCHANGED <<core, thread, titler, decide, hadTitles>>

-----------------------------------------------------------------------------
(* The statements on the Threads' rows; none but the title's and the       *)
(* archive mark's own touches them.                                        *)
Inserted(rows, t, title) ==
    [rows EXCEPT ![t] = [title |-> title, archived |-> FALSE]]
Retitled(rows, t, title) == [rows EXCEPT ![t].title = title]
Archived(rows, t, archived) == [rows EXCEPT ![t].archived = archived]
ListThreads == {t \in Threads : ThreadExists(t) /\ ~thread[t].archived}
ListArchivedThreads == {t \in Threads : ThreadExists(t) /\ thread[t].archived}
Carried(t, title) == hadTitles' = [hadTitles EXCEPT ![t] = @ \cup {title}]

-----------------------------------------------------------------------------
(* The handlers.                                                           *)
\* A plausible slip: a frame with no handler is dropped.
DropUnknown(c) ==
    /\ At(c, "no_method")
    /\ conn' = [conn EXCEPT ![c].busy = Idle]
    /\ UNCHANGED <<core, thread, titler, decide, hadTitles>>

Dispatch(c) ==
    /\ At(c, "no_method")
    /\ Fail(c, "method_not_found")
    /\ UNCHANGED <<core, thread, titler, decide, hadTitles>>

DecodeParams(c) ==
    /\ Busy(c) /\ core.at = "serving" /\ conn[c].step = 1
    /\ ~At(c, "no_method") /\ ~Request(c).decodes
    /\ Fail(c, "invalid_params")
    /\ UNCHANGED <<core, thread, titler, decide, hadTitles>>

Decoded(c, step) == At(c, step) /\ Request(c).decodes

\* A statement fails where a handler makes one.
StatementFails(c) ==
    /\ \/ Decoded(c, "insert") \/ Decoded(c, "write") \/ Decoded(c, "read")
       \/ Decoded(c, "family")
       \/ Decoded(c, "check") /\ Request(c).method # "thread/create"
                              /\ Trim(Request(c).title) # <<>>
    /\ Fail(c, "internal")
    /\ UNCHANGED <<core, thread, titler, decide, hadTitles>>

EnsureThread(r) ==
    \/ r.method = "thread/create"
    \/ r.thread \in Threads /\ ThreadExists(r.thread)

\* An empty prompt or title is refused before the Thread is looked for.
Check(c) ==
    /\ Decoded(c, "check")
    /\ LET r == Request(c)
       IN  IF Trim(r.title) = <<>> THEN Fail(c, "invalid_params")
           ELSE IF ~EnsureThread(r) THEN Fail(c, "unknown_thread")
           ELSE conn' = Forward(conn, c)
    /\ UNCHANGED <<core, thread, titler, decide, hadTitles>>

\* thread/create: the Run is refused, or starts with the Thread it opens.
InsertThread(c) ==
    /\ Decoded(c, "insert")
    /\ \/ /\ Fail(c, "provider_not_connected")
          /\ UNCHANGED <<thread, hadTitles>>
       \/ \E t \in Threads :
              /\ ~ThreadExists(t) /\ \A d \in Conns : conn[d].made # t
              /\ LET title == PlaceholderTitle(Request(c).title)
                 IN  thread' = Inserted(thread, t, title) /\ Carried(t, title)
              /\ conn' = [Forward(conn, c) EXCEPT ![c].made = t]
    /\ UNCHANGED <<core, titler, decide>>

\* The title task is there before the answer is queued.
SpawnTitleGeneration(c) ==
    /\ Decoded(c, "title")
    /\ titler' = [titler EXCEPT ![conn[c].made] =
                      [at |-> "token", conn |-> c, text |-> <<>>, frames |-> 0,
                       title |-> <<>>]]
    /\ conn' = Forward(conn, c)
    /\ UNCHANGED <<core, thread, decide, hadTitles>>

\* Each verb writes its own column.
Rename(c) ==
    /\ Decoded(c, "write") /\ Request(c).method = "thread/rename"
    /\ LET r == Request(c)
       IN  /\ thread' = Retitled(thread, r.thread, Trim(r.title))
           /\ Carried(r.thread, Trim(r.title))
    /\ conn' = Forward(conn, c)
    /\ UNCHANGED <<core, titler, decide>>

Archive(c) ==
    /\ Decoded(c, "write") /\ Request(c).method # "thread/rename"
    /\ thread' = Archived(thread, Request(c).thread, Request(c).method = "thread/archive")
    /\ conn' = Forward(conn, c)
    /\ UNCHANGED <<core, titler, decide, hadTitles>>

Holds(c, rows) ==
    /\ conn' = [Forward(conn, c) EXCEPT ![c].rows = rows]
    /\ UNCHANGED <<core, thread, titler, decide, hadTitles>>
ReadThreads(c) ==
    Decoded(c, "read") /\ Request(c).method = "thread/list" /\ Holds(c, ListThreads)
ReadArchivedThreads(c) ==
    Decoded(c, "read") /\ Request(c).method = "thread/list_archived"
        /\ Holds(c, ListArchivedThreads)

SendResponse(c) ==
    /\ Decoded(c, "answer")
    /\ conn' = [Forward(Queue(conn, c,
                   <<Answer(conn[c].busy, Code("ok"), conn[c].rows)>>), c)
                EXCEPT ![c].rows = {}, ![c].made = "none"]
    /\ UNCHANGED <<core, thread, titler, decide, hadTitles>>

-----------------------------------------------------------------------------
(* proposal/decide.  A Decision on a Workspace Proposal is made and        *)
(* answered here; one on a TickTick write goes on beside the connection.   *)
DecideErrors == Failures \cap {"not_pending", "invalid_params", "internal"}
WriteDecideErrors == DecideErrors \cup (Failures \cap {"stale_connection"})

HandleDecide(c) ==
    /\ Decoded(c, "family")
    /\ IF Request(c).write
       THEN /\ decide' = decide \cup {[conn |-> c, id |-> conn[c].busy,
                                       told |-> FALSE, responded |-> FALSE]}
            /\ conn' = [conn EXCEPT ![c].busy = Idle]
       ELSE /\ UNCHANGED decide
            /\ \/ \E failure \in DecideErrors : Fail(c, failure)
               \/ conn' = [Queue(conn, c,
                              <<DecideResult(conn[c].busy), ProposalChanged>>)
                           EXCEPT ![c].busy = Idle]
    /\ UNCHANGED <<core, thread, titler, hadTitles>>

\* The Decision is announced when its write starts, and again at its end.
NotifyExecuting(d) ==
    /\ ~d.told /\ ~d.responded
    /\ conn' = Queue(conn, d.conn, <<ProposalChanged>>)
    /\ decide' = (decide \ {d}) \cup {[d EXCEPT !.told = TRUE]}
    /\ UNCHANGED <<core, thread, titler, hadTitles>>

HandleDecideTickTickWrite(d) ==
    /\ ~d.responded
    /\ \/ /\ \E failure \in WriteDecideErrors :
                 conn' = Queue(conn, d.conn, <<ErrorAnswer(d.id, failure)>>)
          /\ decide' = decide \ {d}
       \/ /\ conn' = Queue(conn, d.conn, <<DecideResult(d.id)>>)
          /\ decide' = (decide \ {d}) \cup {[d EXCEPT !.responded = TRUE]}
    /\ UNCHANGED <<core, thread, titler, hadTitles>>

NotifyDecided(d) ==
    /\ d.responded
    /\ conn' = Queue(conn, d.conn, <<ProposalChanged>>)
    /\ decide' = decide \ {d}
    /\ UNCHANGED <<core, thread, titler, hadTitles>>

\* A plausible slip: whoever waits for the task answers whenever it dies.
AnswersAnyway(d) ==
    /\ conn' = Queue(conn, d.conn, <<ErrorAnswer(d.id, "internal")>>)
    /\ decide' = decide \ {d}
    /\ UNCHANGED <<core, thread, titler, hadTitles>>

\* The task dies; who waits for it answers if it had not.
DecideTaskDies(d) ==
    /\ conn' = IF d.responded THEN conn
               ELSE Queue(conn, d.conn, <<ErrorAnswer(d.id, "internal")>>)
    /\ decide' = decide \ {d}
    /\ UNCHANGED <<core, thread, titler, hadTitles>>

-----------------------------------------------------------------------------
(* The title task of a Thread (worker/title.rs over worker/oneshot.rs).    *)
TitlerGoes(t, at) ==
    titler' = [titler EXCEPT ![t] = IF at = "done" THEN Over ELSE [@ EXCEPT !.at = at]]

\* No token, no model: no Worker.
ResolveToken(t) ==
    /\ titler[t].at = "token"
    /\ \E at \in {"launch", "done"} : TitlerGoes(t, at)
    /\ UNCHANGED <<core, conn, thread, decide, hadTitles>>

\* The command may not resolve, and the Worker may not start.
Launch(t) ==
    /\ titler[t].at = "launch"
    /\ \/ \E launch \in Launches : Resolve(launch) # "none" /\ TitlerGoes(t, "collect")
       \/ TitlerGoes(t, "done")
    /\ UNCHANGED <<core, conn, thread, decide, hadTitles>>

CollectDelta(t) ==
    /\ titler[t].at = "collect" /\ titler[t].frames < MaxDeltas
    /\ \E delta \in Deltas :
           titler' = [titler EXCEPT ![t].text = @ \o delta, ![t].frames = @ + 1]
    /\ UNCHANGED <<core, conn, thread, decide, hadTitles>>

\* Done, or the end of the Worker's output: what was said is the title.
CollectEnds(t) ==
    /\ titler[t].at = "collect"
    /\ LET title == SanitizeTitle(titler[t].text)
       IN  titler' = [titler EXCEPT ![t] =
               IF title = <<>> THEN Over
               ELSE [@ EXCEPT !.at = "write", !.title = title]]
    /\ UNCHANGED <<core, conn, thread, decide, hadTitles>>

\* An error, a tool request or the time limit: the slug stays.
CollectFails(t) ==
    /\ titler[t].at = "collect"
    /\ TitlerGoes(t, "done")
    /\ UNCHANGED <<core, conn, thread, decide, hadTitles>>

\* A plausible slip: the Client is told whether or not the row was written.
TellAlways(written) == "tell"
AfterUpdate(written) == IF written THEN "tell" ELSE "done"

\* Whoever named the Thread meanwhile, the generated title replaces it.
UpdateThreadTitle(t) ==
    /\ titler[t].at = "write"
    /\ \E written \in BOOLEAN :
           /\ TitlerGoes(t, AfterUpdate(written))
           /\ IF written
              THEN /\ thread' = Retitled(thread, t, titler[t].title)
                   /\ Carried(t, titler[t].title)
              ELSE UNCHANGED <<thread, hadTitles>>
    /\ UNCHANGED <<core, conn, decide>>

SendThreadTitled(t) ==
    /\ titler[t].at = "tell"
    /\ conn' = Queue(conn, titler[t].conn, <<Titled(t, titler[t].title)>>)
    /\ TitlerGoes(t, "done")
    /\ UNCHANGED <<core, thread, decide, hadTitles>>

-----------------------------------------------------------------------------
Init ==
    /\ core = [at |-> "off", step |-> 0, boots |-> 0, shutdown |-> FALSE]
    /\ conn = [c \in Conns |-> Fresh("new")]
    /\ thread = [t \in Threads |-> NoThread]
    /\ titler = [t \in Threads |-> NoTitler]
    /\ decide = {}
    /\ hadTitles = [t \in Threads |-> {}]

Handle(c) ==
    \/ Dispatch(c) \/ DecodeParams(c) \/ StatementFails(c) \/ Check(c)
    \/ InsertThread(c) \/ SpawnTitleGeneration(c) \/ Rename(c)
    \/ Archive(c) \/ ReadThreads(c) \/ ReadArchivedThreads(c)
    \/ SendResponse(c) \/ HandleDecide(c)
Decide(d) ==
    \/ NotifyExecuting(d) \/ HandleDecideTickTickWrite(d) \/ NotifyDecided(d)
    \/ DecideTaskDies(d)
Title(t) ==
    \/ ResolveToken(t) \/ Launch(t) \/ CollectDelta(t) \/ CollectEnds(t)
    \/ CollectFails(t) \/ UpdateThreadTitle(t) \/ SendThreadTitled(t)

Next ==
    \/ Start \/ Boot \/ RequestShutdown \/ Exit \/ Crash
    \/ \E c \in Conns : Handshake(c) \/ Send(c) \/ CloseOnShutdown(c)
                        \/ ReceiveEnd(c) \/ Receive(c) \/ Deliver(c) \/ Handle(c)
    \/ \E d \in decide : Decide(d)
    \/ \E t \in Threads : Title(t)

Spec == Init /\ [][Next]_vars

(* A connection's task goes on as long as it can, and so do the Decisions  *)
(* it started: a handler's statements end, and a call to TickTick has a    *)
(* time limit.  No handler waits for a client, a title or another Run.     *)
Serve(c) ==
    CloseOnShutdown(c) \/ Receive(c) \/ Deliver(c) \/ Handle(c)
DecideFor(c) == \E d \in decide : d.conn = c /\ Decide(d)
FairSpec ==
    Spec /\ \A c \in Conns : WF_vars(Serve(c)) /\ WF_vars(DecideFor(c))

-----------------------------------------------------------------------------
\* The types, and what a step leaves: no handler works where no Core serves.
TypeOK ==
    /\ core.at \in {"off", "booting", "serving"} /\ core.boots \in 0..MaxBoots
    /\ \A c \in Conns :
           /\ conn[c].at \in {"new", "open", "refused", "closed"}
           /\ conn[c].busy \in 0..conn[c].read
           /\ conn[c].read <= Len(conn[c].sent)
           /\ conn[c].delivered <= Len(conn[c].out)
           /\ conn[c].at = "open" => core.at = "serving"
           /\ conn[c].made \in Threads => ThreadExists(conn[c].made)
    /\ \A t \in Threads : titler[t] # NoTitler => ThreadExists(t)
    /\ core.at # "serving" =>
           /\ decide = {}
           /\ \A t \in Threads : titler[t].at \in {"none", "done"}

IsAnswer(frame) == frame.kind = "answer"
Detached(c, i) == conn[c].sent[i].method = "proposal/decide" /\ conn[c].sent[i].write

(* No request is answered twice, whatever becomes of the task that         *)
(* answers it, and the requests a connection waits for are answered in the *)
(* order it sent them.                                                     *)
AnsweredOnceInOrder ==
    \A c \in Conns : \A j, k \in DOMAIN conn[c].out :
        LET a == conn[c].out[j]
            b == conn[c].out[k]
        IN  j < k /\ IsAnswer(a) /\ IsAnswer(b) =>
                IF Detached(c, a.id) \/ Detached(c, b.id) THEN a.id # b.id
                ELSE a.id < b.id

(* A list shows what its Client's earlier requests made of a Thread no     *)
(* other Client files away: an acknowledged change is a change made.       *)
Files(request, t) ==
    request.method \in {"thread/archive", "thread/unarchive"} /\ request.thread = t
ReadsItsOwnChanges ==
    \A c \in Conns : \A t \in Threads, k \in DOMAIN conn[c].out :
        LET answer == conn[c].out[k]
            sent == conn[c].sent
            changes == {i \in 1..(answer.id - 1) :
                /\ Files(sent[i], t)
                /\ \E j \in DOMAIN conn[c].out :
                       LET a == conn[c].out[j]
                       IN  IsAnswer(a) /\ a.id = i /\ a.code = 0}
            last == CHOOSE i \in changes : \A j \in changes : j <= i
        IN  /\ IsAnswer(answer) /\ answer.code = 0
            /\ sent[answer.id].method \in {"thread/list", "thread/list_archived"}
            /\ changes # {}
            /\ \A d \in Conns \ {c} : \A r \in UNION ToSet(Scripts[d]) : ~Files(r, t)
            => (t \in answer.listed)
               = ((sent[last].method = "thread/archive")
                  = (sent[answer.id].method = "thread/list_archived"))

(* What a Client is told a Thread is now called, the Thread was called:    *)
(* the row is written before the notification, or there is none.           *)
ToldTitleWasStored ==
    \A c \in Conns : \A k \in DOMAIN conn[c].out :
        LET frame == conn[c].out[k]
        IN  frame.kind = "thread/titled" => frame.title \in hadTitles[frame.thread]

(* A generated title is one clean line of what the Worker said outside its *)
(* reasoning, however the tags nest and the deltas cut them.               *)
TitleIsWhatWasSaid ==
    \A t \in Threads : titler[t].at \in {"write", "tell"} =>
        /\ OneCleanLine(titler[t].title)
        /\ Len(titler[t].title) <= TitleMax
        /\ \A i \in DOMAIN titler[t].title :
               titler[t].title[i] \in Said(titler[t].text) \cup {Blank}

(* Answers come once and in order, tell what the Client's own requests did *)
(* and a title that is stored and clean (main.rs, runs/mod.rs,             *)
(* worker/title.rs).                                                       *)
AnswersAreTrue ==
    TypeOK /\ AnsweredOnceInOrder /\ ReadsItsOwnChanges
TitlesAreTrue == ToldTitleWasStored /\ TitleIsWhatWasSaid

(* Every request a connection took is answered, and the answer is sent,    *)
(* unless the connection ends: an unknown method, parameters that do not   *)
(* decode and a task that dies included.  An answer stands, so it is       *)
(* enough that again and again no open connection owes one.                *)
Answered(c, i) ==
    \E k \in 1..conn[c].delivered :
        IsAnswer(conn[c].out[k]) /\ conn[c].out[k].id = i
Owes(c) ==
    \E i \in 1..conn[c].read :
        conn[c].sent[i].method # "malformed" /\ ~Answered(c, i)
EveryRequestIsAnswered == []<>(\A c \in Conns : ~Owes(c))
=============================================================================
