----------------------------- MODULE RunStream ------------------------------
(***************************************************************************)
(* One Run's live stream (crates/core/src: hub.rs, runs/subscribe.rs,      *)
(* worker/run.rs, worker/mod.rs, cancel.rs, start_run.rs; ADR-0022).       *)
(*                                                                         *)
(* Each activation of the Run registers a hub generation: a broadcast      *)
(* channel with a gate, driven by one Worker task.  Two locks order        *)
(* everything: the Run's lifecycle slot, then the generation's gate.  A    *)
(* subscriber reads the durable timeline and attaches to the channel under *)
(* both; a forwarder then copies the channel to the client, re-reading     *)
(* when it lags and re-attaching or synthesizing the persisted outcome     *)
(* when the channel closes.                                                *)
(*                                                                         *)
(* One step is one lock acquisition, one SQLite transaction or read, or    *)
(* one synchronous stretch between two awaits.  Deltas are numbered; the   *)
(* durable text is the number of deltas it holds.                          *)
(***************************************************************************)
EXTENDS Naturals, Sequences

CONSTANTS
    Subs,           \* run/subscribe streams, one forwarder each
    Activators,     \* concurrent resume / retry requests
    Canceller,      \* run/cancel; requests queue on the lifecycle slot
    Free,           \* an unheld lock
    MaxGen,         \* bound on activations of the Run
    MaxText,        \* bound on deltas in the durable text
    Buffer,         \* HUB_BUFFER: unread events a subscriber may fall behind
    MaxFaults,      \* bound on failing terminal or park transactions
    MaxCrashes      \* bound on Core crashes

Gens == 1..MaxGen

ASSUME BoundsAssumption ==
    /\ MaxGen \in Nat \ {0} /\ MaxText \in Nat /\ Buffer \in Nat \ {0}
    /\ MaxFaults \in Nat /\ MaxCrashes \in Nat

ASSUME ActorsAssumption ==
    /\ Subs \cap Activators = {} /\ Free \notin Gens \cup Subs \cup Activators
    /\ Canceller \notin Gens \cup Subs \cup Activators \cup {Free}
    /\ Gens \cap (Subs \cup Activators) = {}

VARIABLES
    status,     \* runs.status
    text,       \* deltas in the assistant message's parts
    hub,        \* the registered generation, 0 when the slot is vacant
    gen,        \* generations created so far
    slot,       \* owner of the Run's lifecycle lock
    gate,       \* owner of each generation's gate
    log,        \* events published to each generation's channel
    flag,       \* cancel_tx of each generation
    driver,     \* the Worker task of each generation
    stop,       \* the run/cancel request holding the slot
    act,        \* resume / retry requests
    sub,        \* subscriptions and what their clients have been sent
    phase,      \* Core: "serving", "doomed" (fatal persistence), "down"
    faults, crashes

durable == <<status, text>>
registry == <<hub, gen, slot, gate>>
channel == <<log, flag>>
bounds == <<faults, crashes>>
vars == <<status, text, hub, gen, slot, gate, log, flag, driver, stop, act, sub,
          phase, faults, crashes>>

Terminal == {"completed", "errored", "cancelled"}
Statuses == {"running", "parked"} \cup Terminal

Delta(n) == [kind |-> "delta", n |-> n]
Ending(kind) == [kind |-> kind, n |-> 0]

\* What a task that is not running looks like.
Gone == [pc |-> "gone", job |-> "none", end |-> "disconnected", try |-> 0, won |-> FALSE]
NotSubscribed == [pc |-> "idle", why |-> "none", gen |-> 0, pos |-> 0,
                  view |-> <<>>, told |-> <<>>]
NoRequest == [pc |-> "idle", gen |-> 0]
NoActivation == [pc |-> "idle", kind |-> "none", gen |-> 0]

Release(g) == slot' = Free /\ gate' = [gate EXCEPT ![g] = Free]

\* Mutation: a finishing task clears the slot whoever registered it.
Vacated(g) == 0
\* hub::remove_own: identity-checked removal of generation g.
RemovedOwn(g) == IF hub = g THEN 0 ELSE hub

\* The assistant message is `streaming` until the Run's terminal transition.
\* Mutation: late deltas are not filtered.
AlwaysStreaming == TRUE
Streaming == status \in {"running", "parked"}

\* Mutation: a forwarder holds the hub, not just a receiver and the gate.
SenderHeldByTail(g) == \E s \in Subs : sub[s].gen = g
\* A RunHub clone, hence a broadcast sender, is alive.
SenderAlive(g) ==
    \/ hub = g
    \/ driver[g].pc # "gone"
    \/ stop.pc # "idle" /\ stop.gen = g
    \/ \E a \in Activators : act[a].pc = "cas" /\ act[a].gen = g

-----------------------------------------------------------------------------
Init ==
    /\ status = "running" /\ text = 0
    /\ hub = 1 /\ gen = 1 /\ slot = Free /\ gate = [g \in Gens |-> Free]
    /\ log = [g \in Gens |-> <<>>] /\ flag = [g \in Gens |-> FALSE]
    /\ driver = [g \in Gens |-> IF g = 1 THEN [Gone EXCEPT !.pc = "begin"] ELSE Gone]
    /\ stop = NoRequest
    /\ act = [a \in Activators |-> NoActivation]
    /\ sub = [s \in Subs |-> NotSubscribed]
    /\ phase = "serving" /\ faults = 0 /\ crashes = 0

-----------------------------------------------------------------------------
(* worker::drive and run_loop: the task of generation g.                   *)

At(g, pc) == driver[g].pc = pc
GoTo(g, pc) == driver' = [driver EXCEPT ![g].pc = pc]
\* The task leaves its loop to park, settle or retire under both locks.
Leave(g, job) == driver' = [driver EXCEPT ![g].pc = "lock", ![g].job = job]

\* The cancel check before and after the spawn; a manifest, command or child
\* that cannot be had goes to finalize_error.
Begin(g) ==
    /\ At(g, "begin")
    /\ \/ flag[g] /\ Leave(g, "retire")
       \/ ~flag[g] /\ GoTo(g, "loop")
       \/ ~flag[g] /\ driver' = [driver EXCEPT ![g].pc = "lock", ![g].job = "settle",
                                               ![g].end = "spawnFailed"]
    /\ UNCHANGED <<durable, registry, channel, stop, act, sub, phase, bounds>>

SeeCancel(g) ==
    /\ At(g, "loop") /\ flag[g]
    /\ Leave(g, "retire")
    /\ UNCHANGED <<durable, registry, channel, stop, act, sub, phase, bounds>>

\* The next frame from the Worker's stdout, unless a cancel was seen: a delta,
\* done or error (recorded, settled at EOF), or a Proposal tool request.  EOF
\* and a protocol failure end the loop before the cancel check.
Receive(g) ==
    /\ At(g, "loop")
    /\ \/ ~flag[g] /\ text < MaxText /\ GoTo(g, "delta")
       \/ /\ ~flag[g] /\ driver[g].end = "disconnected"
          /\ driver' = [driver EXCEPT ![g].end = "completed"]
       \/ /\ ~flag[g] /\ driver[g].end # "failed"
          /\ driver' = [driver EXCEPT ![g].end = "failed"]
       \/ ~flag[g] /\ Leave(g, "park")
       \/ Leave(g, "settle")
       \/ driver' = [driver EXCEPT ![g].pc = "lock", ![g].job = "settle",
                                   ![g].end = "failed"]
    /\ UNCHANGED <<durable, registry, channel, stop, act, sub, phase, bounds>>

\* Mutation: the delta is written before its gate is taken.
WriteUngated(g) ==
    /\ At(g, "delta") /\ Streaming /\ text < MaxText
    /\ text' = text + 1 /\ GoTo(g, "publish")
    /\ UNCHANGED <<status, registry, channel, stop, act, sub, phase, bounds>>
\* stream_message_delta: take the gate, write; a delta after the terminal
\* transition finds the message no longer streaming and is dropped.
WriteDelta(g) ==
    /\ At(g, "delta") /\ gate[g] = Free
    /\ IF Streaming
       THEN text' = text + 1 /\ gate' = [gate EXCEPT ![g] = g] /\ GoTo(g, "publish")
       ELSE UNCHANGED <<text, gate>> /\ GoTo(g, "loop")
    /\ UNCHANGED <<status, hub, gen, slot, channel, stop, act, sub, phase, bounds>>

PublishDelta(g) ==
    /\ At(g, "publish")
    /\ log' = [log EXCEPT ![g] = Append(@, Delta(text))]
    /\ gate' = [gate EXCEPT ![g] = Free]
    /\ GoTo(g, "loop")
    /\ UNCHANGED <<durable, hub, gen, slot, flag, stop, act, sub, phase, bounds>>

\* Mutation: gate first, lifecycle slot second.
LockInverted(g) ==
    /\ \/ /\ At(g, "lock") /\ gate[g] = Free
          /\ gate' = [gate EXCEPT ![g] = g] /\ GoTo(g, "gate")
          /\ UNCHANGED slot
       \/ /\ At(g, "gate") /\ slot = Free
          /\ slot' = g /\ GoTo(g, driver[g].job)
          /\ UNCHANGED gate
    /\ UNCHANGED <<durable, hub, gen, channel, stop, act, sub, phase, bounds>>
\* Lock order: the lifecycle slot, then this generation's gate.
Lock(g) ==
    /\ \/ /\ At(g, "lock") /\ slot = Free
          /\ slot' = g /\ GoTo(g, "gate")
          /\ UNCHANGED gate
       \/ /\ At(g, "gate") /\ gate[g] = Free
          /\ gate' = [gate EXCEPT ![g] = g] /\ GoTo(g, driver[g].job)
          /\ UNCHANGED slot
    /\ UNCHANGED <<durable, hub, gen, channel, stop, act, sub, phase, bounds>>

\* park_on_proposal and the hub's removal; a cancel seen under the gate backs
\* out; a failed transaction, or a TickTick connection that has gone, falls
\* through to the terminal branch.
Park(g) ==
    /\ At(g, "park")
    /\ Release(g)
    /\ \/ /\ flag[g] /\ Leave(g, "retire")
          /\ UNCHANGED <<status, hub, faults>>
       \/ /\ ~flag[g] /\ status = "running"
          /\ status' = "parked" /\ hub' = RemovedOwn(g) /\ Leave(g, "retire")
          /\ UNCHANGED faults
       \/ /\ ~flag[g] /\ faults < MaxFaults /\ faults' = faults + 1
          /\ Leave(g, "settle")
          /\ UNCHANGED <<status, hub>>
    /\ UNCHANGED <<text, gen, channel, stop, act, sub, phase, crashes>>

\* Mutation: one failed attempt already switches to the fallback.
TargetEager(g) ==
    IF driver[g].end = "completed" /\ driver[g].try < 1 THEN "completed" ELSE "errored"
\* The transition attempted: the intended one twice, then error_run.
Target(g) ==
    IF driver[g].end = "completed" /\ driver[g].try < 2 THEN "completed" ELSE "errored"

\* persist_terminal_with_retry: WHERE status = 'running'.
Persist(g) ==
    /\ At(g, "settle")
    /\ driver' = [driver EXCEPT ![g].pc = "announce", ![g].won = status = "running"]
    /\ status' = IF status = "running" THEN Target(g) ELSE status
    /\ UNCHANGED <<text, registry, channel, stop, act, sub, phase, bounds>>

\* Attempts before the fallback (TERMINAL_PERSIST_RETRY_DELAYS).
Fallback == 2

\* An attempt fails; after the fallback failed too the hub stays registered
\* and Core is asked to shut down.
PersistFails(g) ==
    /\ At(g, "settle") /\ faults < MaxFaults
    /\ faults' = faults + 1
    /\ IF driver[g].try < Fallback
       THEN /\ driver' = [driver EXCEPT ![g].try = @ + 1]
            /\ UNCHANGED <<slot, gate, phase>>
       ELSE /\ driver' = [driver EXCEPT ![g] = Gone]
            /\ Release(g) /\ phase' = "doomed"
    /\ UNCHANGED <<durable, hub, gen, channel, stop, act, sub, crashes>>

\* The live terminal event is chosen from what the Worker said.
Announced(g) == IF driver[g].end = "completed" THEN "completed" ELSE "errored"

\* Publish, deregister and let go; finalize_error publishes nothing.
Announce(g) ==
    /\ At(g, "announce")
    /\ log' = IF driver[g].won /\ driver[g].end # "spawnFailed"
              THEN [log EXCEPT ![g] = Append(@, Ending(Announced(g)))] ELSE log
    /\ hub' = RemovedOwn(g)
    /\ Release(g)
    /\ driver' = [driver EXCEPT ![g] = Gone]
    /\ UNCHANGED <<durable, gen, flag, stop, act, sub, phase, bounds>>

\* hub::retire after a park or a cancel.
Retire(g) ==
    /\ At(g, "retire")
    /\ hub' = RemovedOwn(g)
    /\ Release(g)
    /\ driver' = [driver EXCEPT ![g] = Gone]
    /\ UNCHANGED <<durable, gen, channel, stop, act, sub, phase, bounds>>

-----------------------------------------------------------------------------
(* run/cancel.                                                             *)

\* The slot is taken and the status read.  Parked Runs are cancelled (or
\* refused, see ProposalDecision) with no hub involved; a running Run without
\* a hub takes the bare transition.
StopBegin ==
    /\ phase # "down" /\ stop.pc = "idle" /\ slot = Free
    /\ \/ /\ status = "parked" /\ status' = "cancelled"
          /\ UNCHANGED <<slot, stop>>
       \/ /\ status = "running" /\ hub = 0 /\ status' = "cancelled"
          /\ UNCHANGED <<slot, stop>>
       \/ /\ status = "running" /\ hub # 0
          /\ slot' = Canceller /\ stop' = [pc |-> "gate", gen |-> hub]
          /\ UNCHANGED status
    /\ UNCHANGED <<text, hub, gen, gate, channel, driver, act, sub, phase, bounds>>

\* Under the gate: the guarded running -> cancelled, then the Worker's signal.
StopCommit ==
    /\ stop.pc = "gate" /\ gate[stop.gen] = Free
    /\ IF status = "running"
       THEN /\ status' = "cancelled"
            /\ flag' = [flag EXCEPT ![stop.gen] = TRUE]
            /\ gate' = [gate EXCEPT ![stop.gen] = Canceller]
            /\ stop' = [stop EXCEPT !.pc = "publish"]
            /\ UNCHANGED slot
       ELSE /\ slot' = Free /\ stop' = NoRequest
            /\ UNCHANGED <<status, flag, gate>>
    /\ UNCHANGED <<text, hub, gen, log, driver, act, sub, phase, bounds>>

StopPublish ==
    /\ stop.pc = "publish"
    /\ log' = [log EXCEPT ![stop.gen] = Append(@, Ending("cancelled"))]
    /\ hub' = RemovedOwn(stop.gen)
    /\ Release(stop.gen)
    /\ stop' = NoRequest
    /\ UNCHANGED <<durable, gen, flag, driver, act, sub, phase, bounds>>

-----------------------------------------------------------------------------
(* hub::activate, for a resume (parked) or a retry (errored).              *)

From(kind) == IF kind = "resume" THEN "parked" ELSE "errored"

\* The advisory status read, then whatever is built before the activation.
ActBegin(a, kind) ==
    /\ phase # "down" /\ act[a].pc = "idle" /\ gen < MaxGen /\ status = From(kind)
    /\ act' = [act EXCEPT ![a] = [pc |-> "want", kind |-> kind, gen |-> 0]]
    /\ UNCHANGED <<durable, registry, channel, driver, stop, sub, phase, bounds>>

\* Slot first; an occupied registry backs off (and so does an activation past
\* the bound MaxGen), else a fresh hub is registered with its gate held.
ActRegister(a) ==
    /\ act[a].pc = "want" /\ slot = Free
    /\ IF hub # 0 \/ gen = MaxGen
       THEN act' = [act EXCEPT ![a] = NoActivation] /\ UNCHANGED registry
       ELSE /\ gen' = gen + 1 /\ hub' = gen + 1
            /\ slot' = a /\ gate' = [gate EXCEPT ![gen + 1] = a]
            /\ act' = [act EXCEPT ![a].pc = "cas", ![a].gen = gen + 1]
    /\ UNCHANGED <<durable, channel, driver, stop, sub, phase, bounds>>

\* The guarded flip; a retry also discards the failed attempt's text.  A lost
\* flip or a fault deregisters.
ActCas(a) ==
    LET g == act[a].gen IN
    /\ act[a].pc = "cas"
    /\ Release(g)
    /\ act' = [act EXCEPT ![a] = NoActivation]
    /\ \/ /\ status = From(act[a].kind) /\ status' = "running"
          /\ text' = IF act[a].kind = "retry" THEN 0 ELSE text
          /\ driver' = [driver EXCEPT ![g] = [Gone EXCEPT !.pc = "begin"]]
          /\ UNCHANGED <<hub, faults>>
       \/ /\ \/ status # From(act[a].kind) /\ UNCHANGED faults
             \/ faults < MaxFaults /\ faults' = faults + 1
          /\ hub' = RemovedOwn(g)
          /\ UNCHANGED <<durable, driver>>
    /\ UNCHANGED <<gen, channel, stop, sub, phase, crashes>>

-----------------------------------------------------------------------------
(* run/subscribe and its forwarder.                                        *)

InSub(s, pc) == sub[s].pc = pc
Unread(s) == SubSeq(log[sub[s].gen], sub[s].pos + 1, Len(log[sub[s].gen]))
Timeline == [n \in 1..text |-> n]

\* terminal_event, with the parked notice in its place for a parked Run.
TerminalEvent(st) == IF st = "running" THEN "errored" ELSE st

\* The slot pins the generation: with a hub the gate comes next, without one
\* the persisted outcome is served at once.
Attend(s, why) ==
    /\ slot = Free
    /\ IF hub # 0
       THEN /\ slot' = s
            /\ sub' = [sub EXCEPT ![s].pc = "gate", ![s].why = why, ![s].gen = hub]
       ELSE /\ sub' = [sub EXCEPT ![s].pc = "done", ![s].gen = 0, ![s].pos = 0,
                                  ![s].view = IF why = "subscribe" THEN Timeline ELSE @,
                                  ![s].told = Append(@, TerminalEvent(status))]
            /\ UNCHANGED slot
    /\ UNCHANGED <<durable, hub, gen, gate, channel, driver, stop, act, phase, bounds>>

Subscribe(s) == phase # "down" /\ InSub(s, "idle") /\ Attend(s, "subscribe")

\* Mutation: the timeline is read before the gate is taken.
ReadUngated(s) ==
    /\ InSub(s, "gate")
    /\ sub' = [sub EXCEPT ![s].pc = "attach", ![s].view = Timeline]
    /\ UNCHANGED <<durable, registry, channel, driver, stop, act, phase, bounds>>
\* snapshot_then_attach and recover, first half: the timeline under the gate.
Read(s) ==
    /\ InSub(s, "gate") /\ gate[sub[s].gen] = Free
    /\ gate' = [gate EXCEPT ![sub[s].gen] = s]
    /\ sub' = [sub EXCEPT ![s].pc = "attach", ![s].view = Timeline,
                 ![s].told = IF sub[s].why = "subscribe" /\ status \in Terminal
                             THEN Append(@, TerminalEvent(status)) ELSE @]
    /\ UNCHANGED <<durable, hub, gen, slot, channel, driver, stop, act, phase, bounds>>

\* Second half: a receiver at the tail of the channel.
Attach(s) ==
    /\ InSub(s, "attach")
    /\ gate' = [gate EXCEPT ![sub[s].gen] = Free]
    /\ slot' = IF sub[s].why = "lag" THEN slot ELSE Free
    /\ sub' = [sub EXCEPT ![s].pc = IF sub[s].why = "subscribe" /\ sub[s].told # <<>>
                                    THEN "done" ELSE "tail",
                          ![s].why = "none", ![s].pos = Len(log[sub[s].gen])]
    /\ UNCHANGED <<durable, hub, gen, channel, driver, stop, act, phase, bounds>>

Forward(s) ==
    /\ InSub(s, "tail") /\ Len(Unread(s)) \in 1..Buffer
    /\ LET e == Head(Unread(s)) IN
       sub' = [sub EXCEPT ![s].pos = @ + 1,
                          ![s].view = IF e.kind = "delta" THEN Append(@, e.n) ELSE @,
                          ![s].told = IF e.kind = "delta" THEN @ ELSE Append(@, e.kind)]
    /\ UNCHANGED <<durable, registry, channel, driver, stop, act, phase, bounds>>

\* RecvError::Lagged: recover under this channel's gate, without the slot.
Lagged(s) ==
    /\ InSub(s, "tail") /\ Len(Unread(s)) > Buffer
    /\ sub' = [sub EXCEPT ![s].pc = "gate", ![s].why = "lag"]
    /\ UNCHANGED <<durable, registry, channel, driver, stop, act, phase, bounds>>

\* Mutation: the forwarder forgets that it forwarded a terminal event.
ForgetsTerminal(s) == FALSE
SawTerminal(s) == sub[s].told # <<>>

\* RecvError::Closed: over if a terminal event was forwarded, else attend to
\* the next generation or to the persisted outcome.
Closed(s) ==
    /\ InSub(s, "tail") /\ Unread(s) = <<>> /\ ~SenderAlive(sub[s].gen)
    /\ IF SawTerminal(s)
       THEN /\ sub' = [sub EXCEPT ![s].pc = "done", ![s].gen = 0, ![s].pos = 0]
            /\ UNCHANGED <<durable, registry, channel, driver, stop, act, phase, bounds>>
       ELSE Attend(s, "reopen")

\* The client hangs up, or is finished with the stream.
Disconnect(s) ==
    /\ sub[s].pc \in {"tail", "done"}
    /\ sub' = [sub EXCEPT ![s] = NotSubscribed]
    /\ UNCHANGED <<durable, registry, channel, driver, stop, act, phase, bounds>>

-----------------------------------------------------------------------------
(* Crash, degraded shutdown and boot.                                      *)

\* All that is in memory is lost.
Down ==
    /\ phase' = "down"
    /\ hub' = 0 /\ slot' = Free /\ gate' = [g \in Gens |-> Free]
    /\ log' = [g \in Gens |-> <<>>] /\ flag' = [g \in Gens |-> FALSE]
    /\ driver' = [g \in Gens |-> Gone] /\ stop' = NoRequest
    /\ act' = [a \in Activators |-> NoActivation]
    /\ sub' = [s \in Subs |-> NotSubscribed]
    /\ UNCHANGED <<durable, gen, faults>>

Crash == phase = "serving" /\ crashes < MaxCrashes /\ crashes' = crashes + 1 /\ Down

\* shutdown::request observed: sockets close and the process exits.
Shutdown == phase = "doomed" /\ Down /\ UNCHANGED crashes

\* recover_interrupted_runs, before the listener is bound.
Boot ==
    /\ phase = "down" /\ phase' = "serving"
    /\ status' = IF status = "running" THEN "errored" ELSE status
    /\ UNCHANGED <<text, registry, channel, driver, stop, act, sub, bounds>>

-----------------------------------------------------------------------------
DriverStep(g) ==
    \/ Begin(g) \/ SeeCancel(g) \/ WriteDelta(g) \/ PublishDelta(g) \/ Lock(g)
    \/ Park(g) \/ Persist(g) \/ Announce(g) \/ Retire(g)

StopStep == StopCommit \/ StopPublish
ActStep(a) == ActRegister(a) \/ ActCas(a)
SubStep(s) == Read(s) \/ Attach(s) \/ Forward(s) \/ Lagged(s) \/ Closed(s)

Next ==
    \/ \E g \in Gens : DriverStep(g) \/ Receive(g) \/ PersistFails(g)
    \/ StopBegin \/ StopStep
    \/ \E a \in Activators : (\E kind \in {"resume", "retry"} : ActBegin(a, kind))
                             \/ ActStep(a)
    \/ \E s \in Subs : Subscribe(s) \/ SubStep(s) \/ Disconnect(s)
    \/ Crash \/ Shutdown \/ Boot

Spec == Init /\ [][Next]_vars

\* The runtime polls every task it holds and the locks are FIFO.  Nothing is
\* assumed of Workers (a frame may never come), of clients, or of crashes.
Fairness ==
    /\ \A g \in Gens : WF_vars(DriverStep(g))
    /\ WF_vars(StopStep)
    /\ \A a \in Activators : WF_vars(ActStep(a))
    /\ \A s \in Subs : WF_vars(SubStep(s))
    /\ WF_vars(Shutdown) /\ WF_vars(Boot)

FairSpec == Spec /\ Fairness

-----------------------------------------------------------------------------
(* Properties.                                                             *)

Event == [kind : {"delta"} \cup Terminal, n : Nat]
DriverRecord ==
    [pc : {"gone", "begin", "loop", "delta", "publish", "lock", "gate", "park",
           "settle", "announce", "retire"},
     job : {"none", "park", "settle", "retire"},
     end : {"disconnected", "completed", "failed", "spawnFailed"},
     try : 0..2, won : BOOLEAN]
StopRecord == [pc : {"idle", "gate", "publish"}, gen : 0..MaxGen]
ActRecord == [pc : {"idle", "want", "cas"}, kind : {"none", "resume", "retry"},
              gen : 0..MaxGen]
SubRecord == [pc : {"idle", "gate", "attach", "tail", "done"},
              why : {"none", "subscribe", "lag", "reopen"},
              gen : 0..MaxGen, pos : Nat, view : Seq(Nat), told : Seq(Statuses)]
Holders == Gens \cup Subs \cup Activators \cup {Canceller, Free}

\* Every variable keeps its type.
TypeOK ==
    /\ status \in Statuses /\ text \in 0..MaxText
    /\ gen \in Gens /\ hub \in 0..gen
    /\ slot \in Holders /\ gate \in [Gens -> Holders]
    /\ log \in [Gens -> Seq(Event)] /\ flag \in [Gens -> BOOLEAN]
    /\ driver \in [Gens -> DriverRecord] /\ stop \in StopRecord
    /\ act \in [Activators -> ActRecord] /\ sub \in [Subs -> SubRecord]
    /\ phase \in {"serving", "doomed", "down"}
    /\ faults \in 0..MaxFaults /\ crashes \in 0..MaxCrashes

Numbers(events) == [i \in DOMAIN events |-> events[i].n]

\* No delta is lost or doubled on the way to a client: what a subscriber of
\* the live generation has been sent, followed by what its channel carried
\* since, is the durable text, however subscribe, lag recovery and re-attach
\* fell between the Worker's writes and publishes (ADR-0022).
NoGapNoDuplicate ==
    \A s \in Subs :
        InSub(s, "tail") /\ sub[s].gen = hub /\ driver[hub].pc # "publish"
        => sub[s].view \o Numbers(Unread(s)) = Timeline

\* Nothing half-sent reaches a client, on stale generations either.
ViewIsContiguous ==
    \A s \in Subs : sub[s].view = [n \in 1..Len(sub[s].view) |-> n]

\* A Run that reads `running` has its producer registered, so Stop can signal
\* it and a subscriber can find it (hub::activate, remove_own).
RunningIsReachable ==
    status = "running" /\ phase = "serving" /\ slot = Free
    => hub # 0 /\ driver[hub].pc # "gone"

\* A subscription ends with exactly one closing notice: a terminal event, or
\* the parked notice, never two and never none (subscribe.rs).
OneClosingNotice ==
    \A s \in Subs : /\ Len(sub[s].told) <= 1
                    /\ InSub(s, "done") => Len(sub[s].told) = 1

\* What a subscriber sees of a Run is one faithful stream, whenever it came,
\* however far it lagged, and across generations of the hub: every delta once
\* and in order, and one ending (ADR-0022, hub.rs, runs/subscribe.rs).
StreamIsFaithful == TypeOK /\ NoGapNoDuplicate /\ ViewIsContiguous /\ OneClosingNotice

\* A client told that the Run completed was sent all of its text (ADR-0022,
\* "delivered once ... Exactly-once"), also when the Run was activated again
\* while its forwarder waited to be polled.  Does not hold.
DoneIsComplete ==
    \A s \in Subs : InSub(s, "done") /\ sub[s].told = <<"completed">> /\ status = "completed"
                    => sub[s].view = Timeline

\* A notice served from the database is the persisted outcome: no client is
\* told its Run was lost while a live Worker still drives it.
SynthesizedIsPersisted ==
    \A s \in Subs : sub'[s].pc = "done" /\ sub[s].pc # "done" /\ sub[s].told = <<>>
                    => sub'[s].told = <<status>>

\* A terminal event on the live tail says what the database says: a live tail
\* and a reload agree (ADR-0022, worker/run.rs).
LiveTerminalMatchesDurable ==
    \A g \in Gens :
        /\ Len(log'[g]) > Len(log[g]) /\ log'[g][Len(log'[g])].kind # "delta"
        => log'[g][Len(log'[g])].kind = status

\* However a client learns that the Run ended, live or from the database, it
\* learns the ending the database has (runs/subscribe.rs, worker/run.rs).
EndingsMatchDurable == [][SynthesizedIsPersisted /\ LiveTerminalMatchesDurable]_vars

\* A Stop that won silences its Run: the text is final and nothing but the
\* Cancelled event is published any more.
CancelSilences ==
    [][status = "cancelled" =>
          /\ status' = "cancelled" /\ text' = text
          /\ \A g \in Gens : Len(log'[g]) > Len(log[g])
                             => log'[g][Len(log'[g])].kind = "cancelled"]_vars

\* Once the Run is over every open subscription is told and closed, unless its
\* client hangs up or the Run is activated again first.
SubscribersAreTold ==
    \A s \in Subs :
        InSub(s, "tail") /\ status \in Terminal
        ~> sub[s].pc \in {"done", "idle"} \/ status \notin Terminal

\* Nobody keeps the Run's lifecycle slot: no two holders wait on each other.
SlotFrees == slot # Free ~> slot = Free
=============================================================================
