-------------------------- MODULE ProposalDecision --------------------------
(***************************************************************************)
(* Deciding a Proposal (crates/core/src: decide.rs, ticktick_write.rs,     *)
(* db/decide_proposal.rs, db/ticktick_writes.rs, cancel.rs,                *)
(* worker::resume, the boot sweeps of main.rs).                            *)
(*                                                                         *)
(* One Run parks on Proposals, one after another.  Clients send            *)
(* proposal/decide requests that run as concurrent tasks; an accepted      *)
(* TickTick write is sent outside any transaction and settled by whoever   *)
(* comes first: the deciding task, its deadline watchdog, a late decide,   *)
(* or the sweep of the next boot.  Every one of them then tries to resume  *)
(* the Run.  Core may crash between any two steps.                         *)
(*                                                                         *)
(* One step is one SQLite transaction, one read, or one remote call.       *)
(***************************************************************************)
EXTENDS Naturals, FiniteSets

CONSTANTS
    Proposals,      \* the Proposals the Run may park on
    TickTick,       \* those of the create_ticktick_task family
    Tasks,          \* slots for decide requests in flight
    Keys,           \* client idempotency keys
    NoKey,          \* a request, or a recorded decision, without a key
    NoProposal,     \* runs.awaiting_tool_call_id IS NULL
    Boot,           \* the process that runs the boot sweep
    MaxParks,       \* bound on Proposals the Run parks on
    MaxCrashes,     \* bound on Core crashes
    MaxFaults       \* bound on resume attempts whose manifest cannot be built

ASSUME FamilyAssumption == TickTick \subseteq Proposals

ASSUME DistinctAssumption ==
    /\ Boot \notin Proposals \cup Tasks
    /\ Proposals \cap Tasks = {}
    /\ NoProposal \notin Proposals
    /\ NoKey \notin Keys

ASSUME BoundAssumption == MaxParks \in Nat /\ MaxCrashes \in Nat /\ MaxFaults \in Nat

VARIABLES
    run,        \* runs.status
    awaiting,   \* runs.awaiting_tool_call_id, named by its Proposal
    prop,       \* proposals.status ("none": no row yet)
    key,        \* proposals.decision_idempotency_key
    call,       \* the awaited tool_calls row: its result, once resolved
    write,      \* ticktick_writes.state ("none": not that family)
    live,       \* an active hub: a Worker drives the Run
    proc,       \* decide tasks, one watchdog per Proposal, the boot sweep
    stopping,   \* run/cancel holds the lifecycle slot past its first read
    up,         \* Core's boot phase
    applied,    \* entity writes committed for the Proposal (history)
    posted,     \* POSTs sent for the Proposal (history)
    remote,     \* tasks TickTick created for the Proposal (external)
    crashes, faults

durable == <<run, awaiting, prop, key, call, write>>
outside == <<applied, posted, remote>>
vars == <<run, awaiting, prop, key, call, write, live, proc, stopping, up,
          applied, posted, remote, crashes, faults>>

RunStatuses == {"running", "parked", "completed", "errored", "cancelled"}
Terminal == {"completed", "errored", "cancelled"}
Decisions == {"accept", "reject"}
Outcomes == {"created", "failed", "unknown"}
PropStates == {"none", "pending", "accepted", "rejected", "cancelled"}
WriteStates == {"none", "proposed", "executing", "settled"}
CallStates == {"none", "pending"} \cup Decisions \cup Outcomes

\* proc[p] for a Proposal p is the deadline watchdog armed by its phase A.
Procs == Tasks \cup Proposals \cup {Boot}
Idle == [pc |-> "idle", prop |-> NoProposal, key |-> NoKey, decided |-> "none",
         wrote |-> "none", view |-> {}]
At(x, pc) == proc[x].pc = pc

Resolved == {p \in Proposals : call[p] \notin {"none", "pending"}}

Goto(x, pc) == proc' = [proc EXCEPT ![x].pc = pc]
\* What a process that no longer needs its request still knows.
Step(pc, p) == [Idle EXCEPT !.pc = pc, !.prop = p]
Proceed(x, pc) == proc' = [proc EXCEPT ![x] = Step(pc, proc[x].prop)]
Finish(x) == proc' = [proc EXCEPT ![x] = Idle]

-----------------------------------------------------------------------------
Init ==
    /\ run = "running" /\ awaiting = NoProposal /\ live = TRUE
    /\ prop = [p \in Proposals |-> "none"]
    /\ key = [p \in Proposals |-> NoKey]
    /\ call = [p \in Proposals |-> "none"]
    /\ write = [p \in Proposals |-> "none"]
    /\ proc = [x \in Procs |-> Idle]
    /\ stopping = FALSE /\ up = "serving"
    /\ applied = [p \in Proposals |-> 0]
    /\ posted = [p \in Proposals |-> 0]
    /\ remote = [p \in Proposals |-> 0]
    /\ crashes = 0 /\ faults = 0

-----------------------------------------------------------------------------
(* The Worker's side: it parks on a fresh Proposal, or the Run ends.       *)

\* db::park_on_proposal under the lifecycle slot and the hub gate; the
\* TickTick family inserts its write row in the same transaction.
Park(p) ==
    /\ live /\ ~stopping /\ run = "running" /\ prop[p] = "none"
    /\ Cardinality({q \in Proposals : prop[q] # "none"}) < MaxParks
    /\ run' = "parked" /\ awaiting' = p /\ live' = FALSE
    /\ prop' = [prop EXCEPT ![p] = "pending"]
    /\ call' = [call EXCEPT ![p] = "pending"]
    /\ write' = [write EXCEPT ![p] = IF p \in TickTick THEN "proposed" ELSE "none"]
    /\ UNCHANGED <<key, proc, stopping, up, outside, crashes, faults>>

WorkerEnds(status) ==
    /\ live /\ ~stopping /\ run = "running"
    /\ run' = status /\ live' = FALSE
    /\ UNCHANGED <<awaiting, prop, key, call, write, proc, stopping, up,
                   outside, crashes, faults>>

\* Mutation: any Run that is over may be retried.
RetryableTerminal == run \in Terminal
Retryable == run = "errored"

\* run/retry: the errored -> running CAS behind hub::activate.
Retry ==
    /\ up = "serving" /\ Retryable /\ ~live /\ ~stopping
    /\ run' = "running" /\ live' = TRUE
    /\ UNCHANGED <<awaiting, prop, key, call, write, proc, stopping, up,
                   outside, crashes, faults>>

-----------------------------------------------------------------------------
(* proposal/decide: load the row, pick replay / recovery / fresh, apply.   *)

\* The request arrives and its Proposal row (and write row) is read.  Keyed
\* replay comes first, whatever the Run's status.  The decision itself is
\* left open until it is applied.
Load(t, p, k) ==
    /\ up = "serving" /\ At(t, "idle") /\ prop[p] # "none"
    /\ proc' = [proc EXCEPT ![t] =
          [pc |-> IF k # NoKey /\ key[p] = k THEN "replay"
                  ELSE IF prop[p] = "pending" THEN "fresh" ELSE "recover",
           prop |-> p, key |-> k, decided |-> prop[p], wrote |-> write[p],
           view |-> {}]]
    /\ UNCHANGED <<durable, live, stopping, up, outside, crashes, faults>>

\* Already decided, no key match: recover if the Run still reads parked.
Recover(t) ==
    /\ At(t, "recover")
    /\ IF run = "parked" /\ proc[t].decided \in {"accepted", "rejected"}
       THEN Goto(t, "replay") ELSE Finish(t)
    /\ UNCHANGED <<durable, live, stopping, up, outside, crashes, faults>>

\* Mutation: every accepted Proposal counts as resolved.
SeenInFlightNever(t) == FALSE
SeenInFlight(t) == proc[t].decided = "accepted" /\ proc[t].wrote = "executing"

\* The recorded outcome.  An accepted write seen executing is answered as
\* such, without a resume; past its deadline the decide settles it itself.
Replay(t) ==
    /\ At(t, "replay")
    /\ IF SeenInFlight(t)
       THEN Finish(t) \/ Proceed(t, "belt")
       ELSE Proceed(t, "gate")
    /\ UNCHANGED <<durable, live, stopping, up, outside, crashes, faults>>

\* Pending: the Run must be parked.  The payload may be refused (invalid
\* edit, missing target, stale TickTick connection), which changes nothing.
CheckParked(t) ==
    /\ At(t, "fresh")
    /\ \/ run = "parked" /\ Goto(t, "apply")
       \/ Finish(t)
    /\ UNCHANGED <<durable, live, stopping, up, outside, crashes, faults>>

\* WHERE status = 'pending': the single choke every decide goes through.
\* Mutation: the flip is guarded by what the request loaded earlier.
UndecidedAtLoad(p) == prop[p] # "none"
Undecided(p) == prop[p] = "pending"

\* A decide that finds the row no longer pending lost the race.
LoseRace(t) ==
    /\ At(t, "apply") /\ ~Undecided(proc[t].prop)
    /\ Finish(t)
    /\ UNCHANGED <<durable, live, stopping, up, outside, crashes, faults>>

\* decide_proposal::reject, any family: flip and decline in one transaction.
Reject(t) ==
    LET p == proc[t].prop IN
    /\ At(t, "apply") /\ Undecided(p)
    /\ prop' = [prop EXCEPT ![p] = "rejected"]
    /\ key' = [key EXCEPT ![p] = proc[t].key]
    /\ call' = [call EXCEPT ![p] = "reject"]
    /\ Proceed(t, "gate")
    /\ UNCHANGED <<run, awaiting, write, live, stopping, up, outside,
                   crashes, faults>>

\* decide_proposal::accept: flip, family write and tool-call resolve at once.
AcceptEntity(t) ==
    LET p == proc[t].prop IN
    /\ At(t, "apply") /\ Undecided(p) /\ p \notin TickTick
    /\ prop' = [prop EXCEPT ![p] = "accepted"]
    /\ key' = [key EXCEPT ![p] = proc[t].key]
    /\ call' = [call EXCEPT ![p] = "accept"]
    /\ applied' = [applied EXCEPT ![p] = @ + 1]
    /\ Proceed(t, "gate")
    /\ UNCHANGED <<run, awaiting, write, live, stopping, up, posted,
                   remote, crashes, faults>>

\* Phase A of a TickTick accept: the flip and proposed -> executing; the
\* tool call stays pending, the watchdog is armed, the POST is still to come.
AcceptWrite(t) ==
    LET p == proc[t].prop IN
    /\ At(t, "apply") /\ Undecided(p) /\ p \in TickTick
    /\ prop' = [prop EXCEPT ![p] = "accepted"]
    /\ key' = [key EXCEPT ![p] = proc[t].key]
    /\ write' = [write EXCEPT ![p] = "executing"]
    /\ proc' = [proc EXCEPT ![t] = Step("post", p), ![p] = Step("armed", p)]
    /\ UNCHANGED <<run, awaiting, call, live, stopping, up, outside,
                   crashes, faults>>

\* Phase B: exactly one POST, outside any transaction; TickTick may or may
\* not have created the task by the time anyone here learns of it.
Post(t) ==
    LET p == proc[t].prop IN
    /\ At(t, "post")
    /\ posted' = [posted EXCEPT ![p] = @ + 1]
    /\ \/ remote' = [remote EXCEPT ![p] = @ + 1]
       \/ UNCHANGED remote
    /\ Goto(t, "posted")
    /\ UNCHANGED <<durable, live, stopping, up, applied, crashes, faults>>

\* Mutation: an outcome word the schema does not know.
ClassifiedLoosely(p) == {"created", "failed", "unknown", "timeout"}
\* client::classify: "created" needs a decoded task id, "failed" a refusal or
\* a connection never made; everything ambiguous is "unknown".
Classified(p) == IF remote[p] > 0 THEN {"created", "unknown"} ELSE {"failed", "unknown"}

\* WHERE state = 'executing'.
\* Mutation: whoever comes last settles.
SettleableTwice(p) == write[p] \in {"executing", "settled"}
Settleable(p) == write[p] = "executing"

\* The one guarded settle: executing -> settled with the tool-call resolve; a
\* lost flip writes nothing.
Settle(p, outcome) ==
    IF Settleable(p)
    THEN /\ write' = [write EXCEPT ![p] = "settled"]
         /\ call' = [call EXCEPT ![p] = outcome]
    ELSE UNCHANGED <<write, call>>

\* Settle on behalf of process x, which then goes on to the resume gate.
SettleBy(x, outcome) ==
    /\ Settle(proc[x].prop, outcome)
    /\ Goto(x, "gate")
    /\ UNCHANGED <<run, awaiting, prop, key, live, stopping, up, outside,
                   crashes, faults>>

PhaseC(t) == At(t, "posted") /\ \E o \in Classified(proc[t].prop) : SettleBy(t, o)

LateDecideSettles(t) == At(t, "belt") /\ SettleBy(t, "unknown")

\* Mutation: the watchdog is a timeout inside the decide task.
WatchdogInsideTask(p) ==
    /\ At(p, "armed") /\ \E t \in Tasks : proc[t].pc # "idle" /\ proc[t].prop = p
    /\ SettleBy(p, "unknown")
\* The deadline passed; time is abstracted, the watchdog may fire at once.
WatchdogFires(p) == At(p, "armed") /\ SettleBy(p, "unknown")

\* The detached write task panics: only its watchdog is left.
TaskDies(t) ==
    /\ ~At(t, "idle") /\ proc[t].prop \in TickTick
    /\ Finish(t)
    /\ UNCHANGED <<durable, live, stopping, up, outside, crashes, faults>>

-----------------------------------------------------------------------------
(* Resuming: gate, transcript and manifest, then the guarded flip.         *)

\* Mutation: the write family's gate is never reached after a settle.
MayResumeNever(p) == run = "parked" /\ p \notin TickTick
\* decide::apply asks only whether the Run is parked; the write family asks
\* whether it is parked on this very tool call.
MayResume(p) ==
    run = "parked" /\ (p \in TickTick => awaiting = p)

ResumeGate(x) ==
    /\ At(x, "gate")
    /\ IF MayResume(proc[x].prop) THEN Goto(x, "build") ELSE Finish(x)
    /\ UNCHANGED <<durable, live, stopping, up, outside, crashes, faults>>

\* worker::resume reads the transcript and builds the manifest while the Run
\* is still parked; a token that cannot be resolved aborts the resume.
BuildManifest(x) ==
    /\ At(x, "build")
    /\ \/ /\ proc' = [proc EXCEPT ![x].pc = "activate", ![x].view = Resolved]
          /\ UNCHANGED faults
       \/ /\ faults < MaxFaults /\ faults' = faults + 1
          /\ Finish(x)
    /\ UNCHANGED <<durable, live, stopping, up, outside, crashes>>

\* hub::activate: an active hub or a lost parked -> running CAS backs off.
Activate(x) ==
    /\ At(x, "activate") /\ ~stopping
    /\ IF ~live /\ run = "parked"
       THEN run' = "running" /\ awaiting' = NoProposal /\ live' = TRUE
       ELSE UNCHANGED <<run, awaiting, live>>
    /\ Finish(x)
    /\ UNCHANGED <<prop, key, call, write, stopping, up, outside,
                   crashes, faults>>

-----------------------------------------------------------------------------
(* run/cancel, under the Run's lifecycle slot.                             *)

\* pending_proposal_for_run: the latest one; the awaited one when it is
\* pending, since it was requested last.
LatestPending(p) ==
    prop[p] = "pending" /\ (prop[awaiting] = "pending" => p = awaiting)

CancelProposal(p) == prop' = [prop EXCEPT ![p] = "cancelled"]

\* The first guarded attempt: a running Run is cancelled with its hub, a
\* parked one together with its pending Proposal; a Run that is over is left
\* alone and answered already_terminal.
StopFirst ==
    /\ up = "serving" /\ ~stopping
    /\ \/ /\ run = "running"
          /\ run' = "cancelled" /\ live' = FALSE
          /\ UNCHANGED <<prop, stopping>>
       \/ /\ run = "parked"
          /\ \E p \in Proposals : LatestPending(p) /\ CancelProposal(p)
          /\ run' = "cancelled"
          /\ UNCHANGED <<live, stopping>>
       \/ /\ run = "parked" /\ \A p \in Proposals : prop[p] # "pending"
          /\ stopping' = TRUE
          /\ UNCHANGED <<run, prop, live>>
       \/ run \in Terminal /\ UNCHANGED <<run, prop, live, stopping>>
    /\ UNCHANGED <<awaiting, key, call, write, proc, up, outside, crashes, faults>>

\* Mutation: an accepted write may be stopped like a settled one.
StoppableAccepted == write[awaiting] \in {"executing", "settled"}
StoppableWrite == write[awaiting] = "settled"

\* No Proposal was pending: the write family's state matrix decides.
StopAnswer ==
    IF StoppableWrite THEN "accepted"
    ELSE IF write[awaiting] = "executing" THEN "write_in_flight"
    ELSE "already_terminal"

StopMatrix ==
    /\ stopping
    /\ stopping' = FALSE
    /\ run' = IF StopAnswer = "accepted" THEN "cancelled" ELSE run
    /\ UNCHANGED <<awaiting, prop, key, call, write, live, proc, up, outside,
                   crashes, faults>>

-----------------------------------------------------------------------------
(* Crash and boot.                                                         *)

Crash ==
    /\ crashes < MaxCrashes /\ up # "down"
    /\ crashes' = crashes + 1 /\ up' = "down"
    /\ proc' = [x \in Procs |-> Idle] /\ live' = FALSE /\ stopping' = FALSE
    /\ UNCHANGED <<durable, outside, faults>>

\* recover_interrupted_runs: errored core_restarted; parked Runs are kept.
RecoverRuns ==
    /\ up = "down" /\ up' = "settling"
    /\ run' = IF run = "running" THEN "errored" ELSE run
    /\ UNCHANGED <<awaiting, prop, key, call, write, live, proc, stopping,
                   outside, crashes, faults>>

\* Mutation: a write interrupted by a crash is reported as not created.
SweepOutcomeFailed == "failed"
SweepOutcome == "unknown"

\* The sweep's first loop: a write left executing settles "unknown".
SweepSettle(p) ==
    /\ up = "settling" /\ At(Boot, "idle") /\ write[p] = "executing"
    /\ Settle(p, SweepOutcome)
    /\ proc' = [proc EXCEPT ![Boot] = Step("gate", p)]
    /\ UNCHANGED <<run, awaiting, prop, key, live, stopping, up, outside,
                   crashes, faults>>

SettledStillParked(p) == write[p] = "settled" /\ run = "parked" /\ awaiting = p

\* Its second loop: a settled write whose Run is still parked on it resumes.
SweepResume ==
    /\ up = "settling" /\ At(Boot, "idle")
    /\ \A p \in Proposals : write[p] # "executing"
    /\ up' = "resuming"
    /\ IF \E p \in Proposals : SettledStillParked(p)
       THEN \E p \in Proposals :
              /\ SettledStillParked(p)
              /\ proc' = [proc EXCEPT ![Boot] = Step("build", p)]
       ELSE UNCHANGED proc
    /\ UNCHANGED <<durable, live, stopping, outside, crashes, faults>>

Serve ==
    /\ up = "resuming" /\ At(Boot, "idle") /\ up' = "serving"
    /\ UNCHANGED <<durable, live, proc, stopping, outside, crashes, faults>>

-----------------------------------------------------------------------------
WorkerStep == (\E p \in Proposals : Park(p)) \/ WorkerEnds("completed")
              \/ WorkerEnds("errored")

ClientStep ==
    \/ \E t \in Tasks, p \in Proposals, k \in Keys \cup {NoKey} : Load(t, p, k)
    \/ StopFirst
    \/ Retry

TaskStep(t) ==
    \/ Recover(t) \/ Replay(t) \/ CheckParked(t)
    \/ LoseRace(t) \/ Reject(t) \/ AcceptEntity(t) \/ AcceptWrite(t)
    \/ Post(t) \/ PhaseC(t) \/ LateDecideSettles(t)

ResumeStep(x) == ResumeGate(x) \/ BuildManifest(x) \/ Activate(x)

BootStep == RecoverRuns \/ (\E p \in Proposals : SweepSettle(p))
            \/ SweepResume \/ Serve

Next ==
    \/ WorkerStep
    \/ ClientStep
    \/ \E t \in Tasks : TaskStep(t) \/ TaskDies(t)
    \/ \E p \in Proposals : WatchdogFires(p)
    \/ \E x \in Procs : ResumeStep(x)
    \/ StopMatrix
    \/ BootStep
    \/ Crash

Spec == Init /\ [][Next]_vars

\* The runtime keeps polling the watchdogs (each its own spawned task), the
\* resumes they and the sweep start, and the boot sequence; nothing is assumed
\* of Workers, clients or the decide tasks, which may die at any point.
Fairness ==
    /\ \A p \in Proposals : WF_vars(WatchdogFires(p))
    /\ \A x \in Proposals \cup {Boot} : WF_vars(ResumeStep(x))
    /\ WF_vars(BootStep)
    /\ WF_vars(StopMatrix)

FairSpec == Spec /\ Fairness

-----------------------------------------------------------------------------
(* Properties that hold for any number of Proposals and requests.          *)

DecidePcs == {"replay", "recover", "fresh", "apply", "post", "posted", "belt"}
ResumePcs == {"gate", "build", "activate"}

\* A busy process works on a Proposal; only requests decide.
ProcRecord ==
    [pc : {"idle", "armed"} \cup DecidePcs \cup ResumePcs,
     prop : Proposals \cup {NoProposal}, key : Keys \cup {NoKey},
     decided : PropStates, wrote : WriteStates, view : SUBSET Proposals]
ProcsOK ==
    /\ proc \in [Procs -> ProcRecord]
    /\ \A x \in Procs : At(x, "idle") \/ proc[x].prop \in Proposals
    /\ \A x \in Proposals \cup {Boot} : proc[x].pc \notin DecidePcs

\* Every variable keeps its type: run, proposal, tool-call and write rows hold
\* only values the schema's CHECK constraints admit (0001_initial.sql).
TypeOK ==
    /\ run \in RunStatuses
    /\ awaiting \in Proposals \cup {NoProposal}
    /\ prop \in [Proposals -> PropStates]
    /\ key \in [Proposals -> Keys \cup {NoKey}]
    /\ call \in [Proposals -> CallStates]
    /\ write \in [Proposals -> WriteStates]
    /\ live \in BOOLEAN /\ stopping \in BOOLEAN
    /\ up \in {"down", "settling", "resuming", "serving"}
    /\ ProcsOK
    /\ applied \in [Proposals -> Nat] /\ posted \in [Proposals -> Nat]
    /\ remote \in [Proposals -> Nat]
    /\ crashes \in 0..MaxCrashes /\ faults \in 0..MaxFaults

\* However decides race, replay or die, an accepted entity Proposal is written
\* to the workspace exactly once, an accepted write is sent at most once, and
\* nothing else is ever written or sent (decide_proposal.rs, the PostFn rule
\* "exactly one call per accepted proposal").
ExactlyOnce ==
    \A p \in Proposals :
        /\ applied[p] = IF prop[p] = "accepted" /\ p \notin TickTick THEN 1 ELSE 0
        /\ posted[p] \in {0, 1}
        /\ posted[p] = 1 => prop[p] = "accepted" /\ p \in TickTick

\* The awaited tool call carries the Decision that was taken, and is open for
\* exactly as long as the Decision (or the write it authorised) is: this is
\* what makes the resume transcript valid for the provider (resume.rs).
CallCarriesDecision ==
    \A p \in Proposals :
        /\ call[p] = "accept" <=> prop[p] = "accepted" /\ p \notin TickTick
        /\ call[p] = "reject" <=> prop[p] = "rejected"
        /\ call[p] \in Outcomes <=> write[p] = "settled"
        /\ write[p] \in {"executing", "settled"} <=> prop[p] = "accepted" /\ p \in TickTick

\* What the model is told about a TickTick write is true of TickTick, across
\* crashes, late answers and dead tasks: "created" was created once, "failed"
\* was not, and no accept ever creates two tasks (client.rs: ambiguity never
\* classifies Failed).
HonestOutcome ==
    \A p \in Proposals :
        /\ remote[p] <= 1
        /\ call[p] = "created" => remote[p] = 1
        /\ call[p] = "failed" => remote[p] = 0

\* A Decision, once taken, stands: no later decide, Stop, settle or sweep
\* changes a decided Proposal or overwrites a result the model may have read.
DecisionStands ==
    [][\A p \in Proposals :
          /\ prop[p] \in {"accepted", "rejected", "cancelled"} => prop'[p] = prop[p]
          /\ call[p] \notin {"none", "pending"} => call'[p] = call[p]]_vars

-----------------------------------------------------------------------------
(* Properties of one waitpoint: the Run parks once (MaxParks = 1).         *)

\* While a write is in flight no Stop cancels its parked Run: the card never
\* reads "stopped" over a POST that may land (cancel.rs state matrix).
InFlightWriteNotStopped ==
    [][run = "parked" /\ (\E p \in Proposals : write[p] = "executing")
       => run' # "cancelled"]_vars

\* The transcript a resumed Worker starts from was read after the awaited
\* Decision was recorded (ADR-0025, worker::resume).
ResumedWithDecision ==
    [][run = "parked" /\ run' = "running"
       => \E x \in Procs : At(x, "activate") /\ proc'[x] = Idle
                            /\ awaiting \in proc[x].view]_vars

Waitpoint ==
    IF run # "parked" THEN "none"
    ELSE IF call[awaiting] = "pending" THEN "pending" ELSE "decided"

Lifecycle == INSTANCE RunLifecycle WITH status <- run, waitpoint <- Waitpoint

\* The decide, settle, cancel, retry and boot paths together move the Run only
\* as RunLifecycle allows; a parked Run resumes only once it is decided.
ImplementsLifecycle == Lifecycle!Spec

\* run/cancel answers already_terminal only for a Run that is over
\* (ADR-0014: "the Run had already finished before the cancel arrived").
\* Does not hold.
AlreadyTerminalIsOver ==
    [][StopMatrix /\ StopAnswer = "already_terminal" => run \in Terminal]_vars

-----------------------------------------------------------------------------
(* Liveness, under FairSpec.                                               *)

\* An accepted write is settled, whatever happens to the task that sent it and
\* however often Core crashes, and then its Run does not stay parked on it: the
\* watchdog, whoever settled it, or the next boot sees to it.  Only a manifest
\* that could not be built leaves the resume to a repeated decide.
WriteReachesModel ==
    \A p \in Proposals :
        write[p] = "executing"
        ~> write[p] = "settled" /\ (~SettledStillParked(p) \/ faults > 0)
=============================================================================
