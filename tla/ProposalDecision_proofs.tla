----------------------- MODULE ProposalDecision_proofs ----------------------
(***************************************************************************)
(* Proofs about ProposalDecision, for every set of Proposals, requests and *)
(* keys and any number of crashes.                                         *)
(***************************************************************************)
EXTENDS ProposalDecision, FiniteSetTheorems, TLAPS

LEMMA DistinctProcs == Boot \notin Proposals /\ Boot \notin Tasks
                       /\ Proposals \cap Tasks = {} /\ TickTick \subseteq Proposals
                       /\ NoProposal \notin Proposals
  BY FamilyAssumption, DistinctAssumption

USE DEF Terminal, RunStatuses, PropStates, WriteStates, CallStates, Decisions,
        Outcomes, DecidePcs, ResumePcs, Procs, durable, outside

-----------------------------------------------------------------------------
(* Type correctness.                                                       *)

LEMMA IdleTyped == Idle \in ProcRecord /\ Idle.pc = "idle"
  BY DEF Idle, ProcRecord

LEMMA StepTyped ==
  ASSUME NEW pc \in {"armed"} \cup DecidePcs \cup ResumePcs, NEW p \in Proposals
  PROVE  Step(pc, p) \in ProcRecord /\ Step(pc, p).pc = pc /\ Step(pc, p).prop = p
  BY DEF Step, Idle, ProcRecord

LEMMA RequestTyped ==
  ASSUME ProcsOK, NEW x \in Procs, ~At(x, "idle")
  PROVE  proc[x].prop \in Proposals /\ proc[x].key \in Keys \cup {NoKey}
  BY DEF ProcsOK, ProcRecord

\* The three ways a process moves keep its record typed.
LEMMA FinishTyped ==
  ASSUME ProcsOK, NEW x \in Procs, Finish(x)
  PROVE  ProcsOK'
<1>1. proc' \in [Procs -> ProcRecord]
  BY IdleTyped DEF ProcsOK, Finish
<1>2. \A y \in Procs : proc'[y] = IF y = x THEN Idle ELSE proc[y]
  BY DEF ProcsOK, Finish
<1> QED
  BY <1>1, <1>2, IdleTyped, DistinctProcs DEF ProcsOK, At

LEMMA GotoTyped ==
  ASSUME ProcsOK, NEW x \in Procs, ~At(x, "idle"),
         NEW pc \in {"armed"} \cup DecidePcs \cup ResumePcs,
         pc \in DecidePcs => x \in Tasks, Goto(x, pc)
  PROVE  ProcsOK'
<1>1. [proc[x] EXCEPT !.pc = pc] \in ProcRecord
      /\ [proc[x] EXCEPT !.pc = pc].pc = pc
      /\ [proc[x] EXCEPT !.pc = pc].prop = proc[x].prop
  BY DEF ProcsOK, ProcRecord
<1>2. proc' = [proc EXCEPT ![x] = [proc[x] EXCEPT !.pc = pc]]
  BY DEF Goto
<1>3. proc' \in [Procs -> ProcRecord]
  BY <1>1, <1>2 DEF ProcsOK
<1>4. \A y \in Procs : proc'[y] = IF y = x THEN [proc[x] EXCEPT !.pc = pc] ELSE proc[y]
  BY <1>2 DEF ProcsOK
<1> HIDE DEF DecidePcs
<1> QED
  BY <1>1, <1>3, <1>4, DistinctProcs DEF ProcsOK, At

LEMMA ProceedTyped ==
  ASSUME ProcsOK, NEW x \in Procs, ~At(x, "idle"),
         NEW pc \in {"armed"} \cup DecidePcs \cup ResumePcs,
         pc \in DecidePcs => x \in Tasks, Proceed(x, pc)
  PROVE  ProcsOK'
<1> DEFINE r == Step(pc, proc[x].prop)
<1>1. r \in ProcRecord /\ r.pc = pc /\ r.prop = proc[x].prop
  BY StepTyped DEF ProcsOK
<1>2. proc' = [proc EXCEPT ![x] = r]
  BY DEF Proceed
<1> HIDE DEF r, DecidePcs
<1>3. proc' \in [Procs -> ProcRecord]
  BY <1>1, <1>2 DEF ProcsOK
<1>4. \A y \in Procs : proc'[y] = IF y = x THEN r ELSE proc[y]
  BY <1>2 DEF ProcsOK
<1> QED
  BY <1>1, <1>3, <1>4, DistinctProcs DEF ProcsOK, At

LEMMA TypeInit == Init => TypeOK
<1> SUFFICES ASSUME Init PROVE TypeOK
  OBVIOUS
<1>1. ProcsOK
  BY IdleTyped DEF Init, ProcsOK, At
<1>2. crashes \in 0..MaxCrashes /\ faults \in 0..MaxFaults
  BY BoundAssumption DEF Init
<1>3. /\ prop \in [Proposals -> PropStates] /\ key \in [Proposals -> Keys \cup {NoKey}]
      /\ call \in [Proposals -> CallStates] /\ write \in [Proposals -> WriteStates]
  BY DEF Init
<1>4. /\ applied \in [Proposals -> Nat] /\ posted \in [Proposals -> Nat]
      /\ remote \in [Proposals -> Nat]
  BY DEF Init
<1>5. /\ run \in RunStatuses /\ awaiting \in Proposals \cup {NoProposal}
      /\ live \in BOOLEAN /\ stopping \in BOOLEAN
      /\ up \in {"down", "settling", "resuming", "serving"}
  BY DEF Init
<1> QED
  BY <1>1, <1>2, <1>3, <1>4, <1>5 DEF TypeOK

\* A step that leaves the processes alone.
LEMMA SameProcsTyped == ProcsOK /\ UNCHANGED proc => ProcsOK'
  BY DEF ProcsOK, At

LEMMA TypeStep == TypeOK /\ [Next]_vars => TypeOK'
<1> SUFFICES ASSUME TypeOK, [Next]_vars PROVE TypeOK'
  OBVIOUS
<1>0. ProcsOK
  BY DEF TypeOK
<1>1. ASSUME NEW p \in Proposals, Park(p) PROVE TypeOK'
  <2>1. ProcsOK'
    BY <1>0, <1>1, SameProcsTyped DEF Park
  <2> QED
    BY <1>1, <2>1 DEF TypeOK, Park
<1>2. ASSUME NEW st \in {"completed", "errored"}, WorkerEnds(st) PROVE TypeOK'
  <2>1. ProcsOK'
    BY <1>0, <1>2, SameProcsTyped DEF WorkerEnds
  <2> QED
    BY <1>2, <2>1 DEF TypeOK, WorkerEnds
<1>3. ASSUME NEW t \in Tasks, NEW p \in Proposals, NEW k \in Keys \cup {NoKey},
             Load(t, p, k)
      PROVE TypeOK'
  <2> DEFINE pc == IF k # NoKey /\ key[p] = k THEN "replay"
                   ELSE IF prop[p] = "pending" THEN "fresh" ELSE "recover"
             r == [pc |-> pc, prop |-> p, key |-> k, decided |-> prop[p],
                   wrote |-> write[p], view |-> {}]
  <2>0. prop[p] \in PropStates /\ write[p] \in WriteStates
    BY DEF TypeOK
  <2>1. r \in ProcRecord /\ r.prop = p /\ proc' = [proc EXCEPT ![t] = r]
    BY <1>3, <2>0 DEF Load, ProcRecord
  <2> HIDE DEF r
  <2>2. proc' \in [Procs -> ProcRecord]
    BY <1>0, <2>1 DEF ProcsOK
  <2>3. \A y \in Procs : proc'[y] = IF y = t THEN r ELSE proc[y]
    BY <1>0, <2>1 DEF ProcsOK
  <2>4. ProcsOK'
    BY <1>0, <2>1, <2>2, <2>3, DistinctProcs DEF ProcsOK, At
  <2> QED
    BY <1>3, <2>4 DEF TypeOK, Load
<1>4. CASE StopFirst
  <2>1. ProcsOK'
    BY <1>0, <1>4, SameProcsTyped DEF StopFirst
  <2> QED
    BY <1>4, <2>1 DEF TypeOK, StopFirst, CancelProposal
<1>5. CASE Retry
  <2>1. ProcsOK'
    BY <1>0, <1>5, SameProcsTyped DEF Retry
  <2> QED
    BY <1>5, <2>1 DEF TypeOK, Retry
<1>6. ASSUME NEW t \in Tasks, TaskStep(t) PROVE TypeOK'
<2>1. CASE Recover(t)
    <3>1. ProcsOK'
      BY <1>0, <2>1, GotoTyped, FinishTyped DEF Recover, At
    <3> QED
      BY <2>1, <3>1 DEF TypeOK, Recover
<2>2. CASE Replay(t)
    <3>1. ProcsOK'
      BY <1>0, <2>2, ProceedTyped, FinishTyped DEF Replay, At
    <3> QED
      BY <2>2, <3>1 DEF TypeOK, Replay
<2>3. CASE CheckParked(t)
    <3>1. ProcsOK'
      BY <1>0, <2>3, GotoTyped, FinishTyped DEF CheckParked, At
    <3> QED
      BY <2>3, <3>1 DEF TypeOK, CheckParked
<2>4. CASE LoseRace(t)
    <3>1. ProcsOK'
      BY <1>0, <2>4, FinishTyped DEF LoseRace
    <3> QED
      BY <2>4, <3>1 DEF TypeOK, LoseRace
<2>5. CASE Reject(t)
    <3>1. ProcsOK'
      BY <1>0, <2>5, ProceedTyped DEF Reject, At
    <3> QED
      BY <2>5, <3>1, RequestTyped DEF TypeOK, Reject, At
<2>6. CASE AcceptEntity(t)
    <3>1. ProcsOK'
      BY <1>0, <2>6, ProceedTyped DEF AcceptEntity, At
    <3> QED
      BY <2>6, <3>1, RequestTyped DEF TypeOK, AcceptEntity, At
  <2>7. CASE AcceptWrite(t)
    <3> DEFINE p == proc[t].prop
    <3>1. p \in Proposals
      BY <1>0, <2>7 DEF ProcsOK, AcceptWrite, At
    <3>2. proc' = [proc EXCEPT ![t] = Step("post", p), ![p] = Step("armed", p)]
      BY <2>7 DEF AcceptWrite
    <3>3. Step("post", p) \in ProcRecord /\ Step("post", p).prop = p
      BY <3>1, StepTyped
    <3>4. /\ Step("armed", p) \in ProcRecord /\ Step("armed", p).prop = p
          /\ Step("armed", p).pc = "armed"
      BY <3>1, StepTyped
    <3>5. proc' \in [Procs -> ProcRecord]
      BY <1>0, <3>2, <3>3, <3>4 DEF ProcsOK
    <3>6. \A y \in Procs : proc'[y] = IF y = p THEN Step("armed", p)
                                     ELSE IF y = t THEN Step("post", p) ELSE proc[y]
      BY <1>0, <3>2 DEF ProcsOK
    <3>7. ProcsOK'
      BY <1>0, <3>1, <3>3, <3>4, <3>5, <3>6, DistinctProcs DEF ProcsOK, At
    <3> QED
      BY <2>7, <3>1, <3>7, RequestTyped DEF TypeOK, AcceptWrite, At
<2>8. CASE Post(t)
    <3>1. ProcsOK'
      BY <1>0, <2>8, GotoTyped DEF Post, At
    <3>2. posted' \in [Proposals -> Nat] /\ remote' \in [Proposals -> Nat]
      <4> DEFINE p == proc[t].prop
      <4>1. p \in Proposals
        BY <1>0, <2>8, RequestTyped DEF Post, At
      <4>2. posted[p] + 1 \in Nat /\ remote[p] + 1 \in Nat
        BY <4>1 DEF TypeOK
      <4>3. posted' = [posted EXCEPT ![p] = posted[p] + 1]
        BY <2>8 DEF Post
      <4>4. UNCHANGED remote \/ remote' = [remote EXCEPT ![p] = remote[p] + 1]
        BY <2>8 DEF Post
      <4> HIDE DEF p
      <4> QED
        BY <4>1, <4>2, <4>3, <4>4 DEF TypeOK
    <3> QED
      BY <2>8, <3>1, <3>2 DEF TypeOK, Post
<2>9. CASE PhaseC(t)
    <3>1. ProcsOK'
      BY <1>0, <2>9, GotoTyped DEF PhaseC, SettleBy, At
    <3> QED
      BY <2>9, <3>1 DEF TypeOK, PhaseC, SettleBy, Settle, Classified
<2>10. CASE LateDecideSettles(t)
    <3>1. ProcsOK'
      BY <1>0, <2>10, GotoTyped DEF LateDecideSettles, SettleBy, At
    <3> QED
      BY <2>10, <3>1 DEF TypeOK, LateDecideSettles, SettleBy, Settle
  <2> QED
    BY <1>6, <2>1, <2>2, <2>3, <2>4, <2>5, <2>6, <2>7, <2>8, <2>9, <2>10 DEF TaskStep
<1>7. ASSUME NEW t \in Tasks, TaskDies(t) PROVE TypeOK'
  <2>1. ProcsOK'
    BY <1>0, <1>7, FinishTyped DEF TaskDies
  <2> QED
    BY <1>7, <2>1 DEF TypeOK, TaskDies
<1>8. ASSUME NEW p \in Proposals, WatchdogFires(p) PROVE TypeOK'
  <2>1. ProcsOK'
    BY <1>0, <1>8, GotoTyped DEF WatchdogFires, SettleBy, At
  <2> QED
    BY <1>8, <2>1 DEF TypeOK, WatchdogFires, SettleBy, Settle
<1>9. ASSUME NEW x \in Procs, ResumeStep(x) PROVE TypeOK'
<2>1. CASE ResumeGate(x)
    <3>1. ProcsOK'
      BY <1>0, <2>1, GotoTyped, FinishTyped DEF ResumeGate, At
    <3> QED
      BY <2>1, <3>1 DEF TypeOK, ResumeGate
  <2>2. CASE BuildManifest(x)
    <3>1. CASE Finish(x)
      BY <1>0, <2>2, <3>1, FinishTyped, BoundAssumption DEF TypeOK, BuildManifest
    <3>2. CASE /\ proc' = [proc EXCEPT ![x].pc = "activate", ![x].view = Resolved]
               /\ UNCHANGED faults
      <4> DEFINE q == [proc[x] EXCEPT !.pc = "activate"]
                 r == [q EXCEPT !.view = Resolved]
      <4>a. q \in ProcRecord /\ q.prop = proc[x].prop /\ q.pc = "activate"
        BY <1>0 DEF ProcsOK, ProcRecord
      <4>b. Resolved \in SUBSET Proposals
        BY DEF Resolved
      <4> HIDE DEF q
      <4>1. r \in ProcRecord /\ r.prop = proc[x].prop /\ r.pc = "activate"
        BY <4>a, <4>b DEF ProcRecord
      <4> USE DEF q
      <4>2. proc' = [proc EXCEPT ![x] = r]
        BY <3>2
      <4> HIDE DEF r
      <4>3. proc' \in [Procs -> ProcRecord]
        BY <1>0, <4>1, <4>2 DEF ProcsOK
      <4>4. \A y \in Procs : proc'[y] = IF y = x THEN r ELSE proc[y]
        BY <1>0, <4>2 DEF ProcsOK
      <4>5. ProcsOK'
        BY <1>0, <2>2, <4>1, <4>3, <4>4, DistinctProcs DEF ProcsOK, BuildManifest, At
      <4> QED
        BY <2>2, <3>2, <4>5 DEF TypeOK, BuildManifest
    <3> QED
      BY <2>2, <3>1, <3>2 DEF BuildManifest
<2>3. CASE Activate(x)
    <3>1. ProcsOK'
      BY <1>0, <2>3, FinishTyped DEF Activate
    <3> QED
      BY <2>3, <3>1 DEF TypeOK, Activate
  <2> QED
    BY <1>9, <2>1, <2>2, <2>3 DEF ResumeStep
<1>10. CASE StopMatrix
  <2>1. ProcsOK'
    BY <1>0, <1>10, SameProcsTyped DEF StopMatrix
  <2> QED
    BY <1>10, <2>1 DEF TypeOK, StopMatrix
<1>11. CASE BootStep
<2>1. CASE RecoverRuns
    <3>1. ProcsOK'
      BY <1>0, <2>1, SameProcsTyped DEF RecoverRuns
    <3> QED
      BY <2>1, <3>1 DEF TypeOK, RecoverRuns
  <2>2. ASSUME NEW p \in Proposals, SweepSettle(p) PROVE TypeOK'
    <3>1. ProcsOK'
      <4> DEFINE r == Step("gate", p)
      <4>1. r \in ProcRecord /\ r.pc = "gate" /\ r.prop = p
        BY StepTyped
      <4>2. proc' = [proc EXCEPT ![Boot] = r]
        BY <2>2 DEF SweepSettle
      <4> HIDE DEF r
      <4>3. proc' \in [Procs -> ProcRecord]
        BY <1>0, <4>1, <4>2 DEF ProcsOK
      <4>4. \A y \in Procs : proc'[y] = IF y = Boot THEN r ELSE proc[y]
        BY <1>0, <4>2 DEF ProcsOK
      <4> QED
        BY <1>0, <4>1, <4>3, <4>4, DistinctProcs DEF ProcsOK, At
    <3> QED
      BY <2>2, <3>1 DEF TypeOK, SweepSettle, SweepOutcome, Settle
  <2>3. CASE SweepResume
    <3>1. CASE UNCHANGED proc
      BY <1>0, <2>3, <3>1, SameProcsTyped DEF TypeOK, SweepResume
    <3>2. ASSUME NEW p \in Proposals, proc' = [proc EXCEPT ![Boot] = Step("build", p)]
          PROVE TypeOK'
      <4> DEFINE r == Step("build", p)
      <4>1. r \in ProcRecord /\ r.pc = "build" /\ r.prop = p
        BY StepTyped
      <4>2. proc' = [proc EXCEPT ![Boot] = r]
        BY <3>2
      <4> HIDE DEF r
      <4>3. proc' \in [Procs -> ProcRecord]
        BY <1>0, <4>1, <4>2 DEF ProcsOK
      <4>4. \A y \in Procs : proc'[y] = IF y = Boot THEN r ELSE proc[y]
        BY <1>0, <4>2 DEF ProcsOK
      <4>5. ProcsOK'
        BY <1>0, <4>1, <4>3, <4>4, DistinctProcs DEF ProcsOK, At
      <4> QED
        BY <2>3, <4>5 DEF TypeOK, SweepResume
    <3> QED
      BY <2>3, <3>1, <3>2 DEF SweepResume
<2>4. CASE Serve
    <3>1. ProcsOK'
      BY <1>0, <2>4, SameProcsTyped DEF Serve
    <3> QED
      BY <2>4, <3>1 DEF TypeOK, Serve
  <2> QED
    BY <1>11, <2>1, <2>2, <2>3, <2>4 DEF BootStep
<1>12. CASE Crash
  <2>1. ProcsOK'
    BY <1>12, IdleTyped DEF ProcsOK, Crash, At
  <2>2. crashes' \in 0..MaxCrashes
    BY <1>12, BoundAssumption DEF TypeOK, Crash
  <2> QED
    BY <1>12, <2>1, <2>2 DEF TypeOK, Crash
<1>13. CASE UNCHANGED vars
  <2>1. ProcsOK'
    BY <1>0, <1>13, SameProcsTyped DEF vars
  <2> QED
    BY <1>13, <2>1 DEF TypeOK, vars
<1> QED
  BY <1>1, <1>2, <1>3, <1>4, <1>5, <1>6, <1>7, <1>8, <1>9, <1>10, <1>11, <1>12, <1>13
  DEF Next, WorkerStep, ClientStep

\* Every reachable state is well typed: rows, requests, watchdogs and the boot
\* sweep only ever hold the values the schema and the code admit.
THEOREM TypeCorrect == Spec => []TypeOK
  BY TypeInit, TypeStep, PTL DEF Spec

-----------------------------------------------------------------------------
(* The inductive invariant: the rows of a Proposal agree with each other,  *)
(* sends are counted, and at most one request is about to send.            *)

Fresh(p) == IF p \in TickTick THEN "proposed" ELSE "none"

\* What the three rows of a Proposal say together.
RowsAgree ==
    \A p \in Proposals :
        /\ prop[p] = "none" => call[p] = "none" /\ write[p] = "none"
        /\ prop[p] \in {"pending", "cancelled"} => call[p] = "pending" /\ write[p] = Fresh(p)
        /\ prop[p] = "rejected" => call[p] = "reject" /\ write[p] = Fresh(p)
        /\ prop[p] = "accepted" /\ p \notin TickTick
           => call[p] = "accept" /\ write[p] = "none"
        /\ prop[p] = "accepted" /\ p \in TickTick
           => \/ write[p] = "executing" /\ call[p] = "pending"
              \/ write[p] = "settled" /\ call[p] \in Outcomes

\* A settled outcome is about a send that will not be repeated.
SendsCounted ==
    \A p \in Proposals :
        /\ applied[p] = IF prop[p] = "accepted" /\ p \notin TickTick THEN 1 ELSE 0
        /\ posted[p] \in {0, 1}
        /\ posted[p] = 1 => prop[p] = "accepted" /\ p \in TickTick
        /\ remote[p] <= posted[p]
        /\ call[p] = "created" => remote[p] = 1
        /\ call[p] = "failed" => posted[p] = 1 /\ remote[p] = 0

\* A request about to send holds an accept nobody has sent yet, and is alone;
\* one that has sent accounts for the one send.
SendersOK ==
    /\ \A t \in Tasks :
          /\ At(t, "post") => /\ proc[t].prop \in TickTick
                              /\ prop[proc[t].prop] = "accepted"
                              /\ posted[proc[t].prop] = 0
          /\ At(t, "posted") => /\ proc[t].prop \in TickTick
                                /\ prop[proc[t].prop] = "accepted"
                                /\ posted[proc[t].prop] = 1
    /\ \A t, u \in Tasks :
          At(t, "post") /\ At(u, "post") /\ proc[t].prop = proc[u].prop => t = u

Inv == TypeOK /\ RowsAgree /\ SendsCounted /\ SendersOK

\* No request starts or repeats a send in this step.
SendersKept ==
    \A t \in Tasks : proc'[t].pc \in {"post", "posted"}
                     => proc'[t].pc = proc[t].pc /\ proc'[t].prop = proc[t].prop

LEMMA FinishKeeps ==
  ASSUME ProcsOK, NEW x \in Procs, Finish(x)
  PROVE  SendersKept
  BY IdleTyped DEF SendersKept, ProcsOK, Finish

LEMMA GotoKeeps ==
  ASSUME ProcsOK, NEW x \in Procs, NEW pc, pc \notin {"post", "posted"}, Goto(x, pc)
  PROVE  SendersKept
<1>1. \A y \in Procs : proc'[y] = IF y = x THEN [proc[x] EXCEPT !.pc = pc] ELSE proc[y]
  BY DEF ProcsOK, Goto
<1>2. [proc[x] EXCEPT !.pc = pc].pc = pc
  BY DEF ProcsOK, ProcRecord
<1> QED
  BY <1>1, <1>2 DEF SendersKept

LEMMA ProceedKeeps ==
  ASSUME ProcsOK, NEW x \in Procs, ~At(x, "idle"),
         NEW pc \in DecidePcs \cup ResumePcs, pc \notin {"post", "posted"}, Proceed(x, pc)
  PROVE  SendersKept
<1>1. \A y \in Procs : proc'[y] = IF y = x THEN Step(pc, proc[x].prop) ELSE proc[y]
  BY DEF ProcsOK, Proceed
<1>2. Step(pc, proc[x].prop).pc = pc
  BY StepTyped, RequestTyped
<1> QED
  BY <1>1, <1>2 DEF SendersKept

LEMMA SendersStep ==
  ASSUME ProcsOK, SendersOK, SendersKept, UNCHANGED posted,
         \A p \in Proposals : prop[p] = "accepted" => prop'[p] = "accepted"
  PROVE  SendersOK'
  BY FamilyAssumption DEF SendersOK, SendersKept, At

\* The steps that touch no Proposal row and send nothing.
LEMMA QuietStep ==
  ASSUME Inv, TypeOK', SendersKept,
         UNCHANGED <<prop, call, write, applied, posted, remote>>
  PROVE  Inv'
<1>1. SendersOK'
  BY SendersStep DEF Inv, TypeOK
<1>2. RowsAgree' /\ SendsCounted'
  BY DEF Inv, RowsAgree, SendsCounted, Fresh
<1> QED
  BY <1>1, <1>2 DEF Inv

LEMMA InvInit == Init => Inv
<1> SUFFICES ASSUME Init PROVE Inv
  OBVIOUS
<1>1. SendersOK
  BY IdleTyped DEF Init, SendersOK, At
<1>2. RowsAgree /\ SendsCounted
  BY DEF Init, RowsAgree, SendsCounted
<1> QED
  BY <1>1, <1>2, TypeInit DEF Inv

\* Settling an executing write, by whoever gets there.
LEMMA SettleStep ==
  ASSUME Inv, TypeOK', SendersKept, NEW p \in Proposals, NEW o \in Outcomes, Settle(p, o),
         UNCHANGED <<prop, applied, posted, remote>>,
         o = "created" => remote[p] = 1, o = "failed" => posted[p] = 1 /\ remote[p] = 0
  PROVE  Inv'
<1>1. SendersOK'
  BY SendersStep DEF Inv, TypeOK
<1>2. CASE UNCHANGED <<write, call>>
  BY <1>2, QuietStep
<1>3. CASE /\ write[p] = "executing" /\ write' = [write EXCEPT ![p] = "settled"]
           /\ call' = [call EXCEPT ![p] = o]
  <2>1. prop[p] = "accepted" /\ p \in TickTick
    BY <1>3 DEF Inv, TypeOK, RowsAgree, Fresh
  <2>2. RowsAgree'
    BY <1>3, <2>1 DEF Inv, TypeOK, RowsAgree, Fresh
  <2>3. SendsCounted'
    BY <1>3 DEF Inv, TypeOK, SendsCounted
  <2> QED
    BY <1>1, <2>2, <2>3 DEF Inv
<1> QED
  BY <1>2, <1>3 DEF Settle, Settleable

\* The steps of a request that leave every row alone.
LEMMA TaskQuiet ==
  ASSUME Inv, TypeOK', NEW t \in Tasks,
         Recover(t) \/ Replay(t) \/ CheckParked(t) \/ LoseRace(t) \/ TaskDies(t)
  PROVE  Inv'
<1>0. ProcsOK
  BY DEF Inv, TypeOK
<1>1. SendersKept
  <2>1. CASE Recover(t)
    BY <1>0, <2>1, FinishKeeps, GotoKeeps DEF Recover
  <2>2. CASE Replay(t)
    BY <1>0, <2>2, FinishKeeps, ProceedKeeps DEF Replay, At
  <2>3. CASE CheckParked(t)
    BY <1>0, <2>3, FinishKeeps, GotoKeeps DEF CheckParked
  <2>4. CASE LoseRace(t)
    BY <1>0, <2>4, FinishKeeps DEF LoseRace
  <2>5. CASE TaskDies(t)
    BY <1>0, <2>5, FinishKeeps DEF TaskDies
  <2> QED
    BY <2>1, <2>2, <2>3, <2>4, <2>5
<1>2. UNCHANGED <<prop, call, write, applied, posted, remote>>
  BY DEF Recover, Replay, CheckParked, LoseRace, TaskDies
<1> QED
  BY <1>1, <1>2, QuietStep

\* Resuming touches the Run only.
LEMMA ResumeQuiet ==
  ASSUME Inv, TypeOK', NEW x \in Procs, ResumeStep(x)
  PROVE  Inv'
<1>0. ProcsOK
  BY DEF Inv, TypeOK
<1>1. SendersKept
  <2>1. CASE ResumeGate(x)
    BY <1>0, <2>1, FinishKeeps, GotoKeeps DEF ResumeGate
  <2>2. CASE BuildManifest(x) /\ Finish(x)
    BY <1>0, <2>2, FinishKeeps
  <2>3. CASE proc' = [proc EXCEPT ![x].pc = "activate", ![x].view = Resolved]
    <3> DEFINE q == [proc[x] EXCEPT !.pc = "activate"]
               r == [q EXCEPT !.view = Resolved]
    <3>1. q.pc = "activate" /\ q \in ProcRecord
      BY <1>0 DEF ProcsOK, ProcRecord
    <3> HIDE DEF q
    <3>2. r.pc = "activate"
      BY <3>1 DEF ProcRecord
    <3> USE DEF q
    <3>3. proc' = [proc EXCEPT ![x] = r]
      BY <2>3
    <3> HIDE DEF r
    <3>4. \A y \in Procs : proc'[y] = IF y = x THEN r ELSE proc[y]
      BY <1>0, <3>3 DEF ProcsOK
    <3> QED
      BY <3>2, <3>4 DEF SendersKept
  <2>4. CASE Activate(x)
    BY <1>0, <2>4, FinishKeeps DEF Activate
  <2> QED
    BY <2>1, <2>2, <2>3, <2>4 DEF ResumeStep, BuildManifest
<1>2. UNCHANGED <<prop, call, write, applied, posted, remote>>
  BY DEF ResumeStep, ResumeGate, BuildManifest, Activate
<1> QED
  BY <1>1, <1>2, QuietStep

\* A Decision that authorises no send: reject, or an entity accept.
LEMMA DecideStep ==
  ASSUME Inv, TypeOK', NEW t \in Tasks, Reject(t) \/ AcceptEntity(t)
  PROVE  Inv'
<1> DEFINE p == proc[t].prop
<1>0. ProcsOK /\ ~At(t, "idle") /\ prop[p] = "pending" /\ Proceed(t, "gate")
  BY DEF Inv, TypeOK, Reject, AcceptEntity, At, Undecided
<1>1. p \in Proposals
  BY <1>0, RequestTyped
<1>2. SendersKept
  BY <1>0, ProceedKeeps
<1>3. \A q \in Proposals : prop[q] = "accepted" => prop'[q] = "accepted"
  BY <1>0, <1>1 DEF Inv, TypeOK, Reject, AcceptEntity
<1>4. SendersOK'
  BY <1>0, <1>2, <1>3, SendersStep DEF Inv, Reject, AcceptEntity
<1> HIDE DEF p
<1>5. RowsAgree' /\ SendsCounted'
  <2>1. CASE Reject(t)
    <3>1. /\ prop' = [prop EXCEPT ![p] = "rejected"] /\ call' = [call EXCEPT ![p] = "reject"]
          /\ UNCHANGED <<write, applied, posted, remote>>
      BY <2>1 DEF Reject, p
    <3>2. RowsAgree'
      BY <1>0, <1>1, <3>1 DEF Inv, TypeOK, RowsAgree, Fresh
    <3>3. SendsCounted'
      BY <1>0, <1>1, <3>1 DEF Inv, TypeOK, RowsAgree, SendsCounted
    <3> QED
      BY <3>2, <3>3
  <2>2. CASE AcceptEntity(t)
    <3>1. /\ prop' = [prop EXCEPT ![p] = "accepted"] /\ call' = [call EXCEPT ![p] = "accept"]
          /\ applied' = [applied EXCEPT ![p] = applied[p] + 1] /\ p \notin TickTick
          /\ UNCHANGED <<write, posted, remote>>
      BY <2>2 DEF AcceptEntity, p
    <3>2. RowsAgree'
      BY <1>0, <1>1, <3>1 DEF Inv, TypeOK, RowsAgree, Fresh
    <3>3. applied[p] = 0
      BY <1>0, <1>1 DEF Inv, SendsCounted
    <3>4. applied'[p] = 1 /\ \A q \in Proposals \ {p} : applied'[q] = applied[q]
      BY <1>1, <3>1, <3>3 DEF Inv, TypeOK
    <3>5. SendsCounted'
      BY <1>0, <1>1, <3>1, <3>4 DEF Inv, TypeOK, RowsAgree, SendsCounted
    <3> QED
      BY <3>2, <3>5
  <2> QED
    BY <2>1, <2>2
<1> QED
  BY <1>4, <1>5 DEF Inv

\* Phase A: the request becomes the only sender of a Proposal nobody has sent.
LEMMA AcceptWriteStep ==
  ASSUME Inv, TypeOK', NEW t \in Tasks, AcceptWrite(t)
  PROVE  Inv'
<1> DEFINE p == proc[t].prop
<1>0. ProcsOK /\ At(t, "apply") /\ prop[p] = "pending" /\ p \in TickTick
  BY DEF Inv, TypeOK, AcceptWrite, Undecided
<1>1. p \in Proposals
  BY <1>0, DistinctProcs
<1>2. Step("post", p).pc = "post" /\ Step("post", p).prop = p
  BY <1>1, StepTyped
<1>3. \A u \in Tasks : proc'[u] = IF u = t THEN Step("post", p) ELSE proc[u]
  BY <1>0, <1>1, DistinctProcs DEF ProcsOK, AcceptWrite
<1>4. /\ prop' = [prop EXCEPT ![p] = "accepted"]
      /\ write' = [write EXCEPT ![p] = "executing"]
      /\ UNCHANGED <<call, applied, posted, remote>>
  BY DEF AcceptWrite
<1>5. posted[p] = 0 /\ call[p] = "pending" /\ applied[p] = 0
  BY <1>0, <1>1 DEF Inv, RowsAgree, SendsCounted
<1> HIDE DEF p
<1>6. RowsAgree'
  BY <1>0, <1>1, <1>4, <1>5 DEF Inv, TypeOK, RowsAgree, Fresh
<1>7. SendsCounted'
  BY <1>0, <1>1, <1>4, <1>5 DEF Inv, TypeOK, SendsCounted
<1>8. SendersOK'
  <2>1. \A u \in Tasks \ {t} : At(u, "post") \/ At(u, "posted") => proc[u].prop # p
    BY <1>0, <1>1 DEF Inv, SendersOK
  <2>2. \A q \in Proposals : prop'[q] = IF q = p THEN "accepted" ELSE prop[q]
    BY <1>1, <1>4 DEF Inv, TypeOK
  <2> QED
    BY <1>0, <1>1, <1>2, <1>3, <1>4, <1>5, <2>1, <2>2, DistinctProcs DEF Inv, SendersOK, At
<1> QED
  BY <1>6, <1>7, <1>8 DEF Inv

\* Phase B: the only sender sends.
LEMMA PostStep ==
  ASSUME Inv, TypeOK', NEW t \in Tasks, Post(t)
  PROVE  Inv'
<1> DEFINE p == proc[t].prop
<1>0. ProcsOK /\ At(t, "post")
  BY DEF Inv, TypeOK, Post
<1>1. p \in TickTick /\ p \in Proposals /\ prop[p] = "accepted" /\ posted[p] = 0
  BY <1>0, DistinctProcs DEF Inv, SendersOK
<1>2. \A u \in Tasks : proc'[u].prop = proc[u].prop
                       /\ proc'[u].pc = IF u = t THEN "posted" ELSE proc[u].pc
  <2>1. \A u \in Tasks : proc'[u] = IF u = t THEN [proc[t] EXCEPT !.pc = "posted"]
                                    ELSE proc[u]
    BY <1>0 DEF ProcsOK, Post, Goto
  <2>2. [proc[t] EXCEPT !.pc = "posted"].pc = "posted"
        /\ [proc[t] EXCEPT !.pc = "posted"].prop = proc[t].prop
    BY <1>0 DEF ProcsOK, ProcRecord
  <2> QED
    BY <2>1, <2>2
<1>3. remote[p] = 0 /\ call[p] # "created" /\ call[p] # "failed"
  BY <1>1 DEF Inv, TypeOK, SendsCounted
<1>4. posted' = [posted EXCEPT ![p] = posted[p] + 1]
      /\ (remote' = [remote EXCEPT ![p] = remote[p] + 1] \/ UNCHANGED remote)
      /\ UNCHANGED <<prop, call, write, applied>>
  BY DEF Post
<1> HIDE DEF p
<1>5. posted'[p] = 1 /\ \A q \in Proposals \ {p} : posted'[q] = posted[q]
  BY <1>1, <1>4 DEF Inv, TypeOK
<1>6. remote'[p] \in {0, 1} /\ \A q \in Proposals \ {p} : remote'[q] = remote[q]
  BY <1>1, <1>3, <1>4 DEF Inv, TypeOK
<1>7. RowsAgree'
  BY <1>4 DEF Inv, RowsAgree, Fresh
<1>8. SendsCounted'
  BY <1>1, <1>3, <1>4, <1>5, <1>6 DEF Inv, SendsCounted
<1>9. SendersOK'
  <2>1. \A u \in Tasks \ {t} : At(u, "post") \/ At(u, "posted") => proc[u].prop # p
    BY <1>0, <1>1 DEF Inv, SendersOK, p
  <2>2. proc[t].prop = p
    BY DEF p
  <2> QED
    BY <1>0, <1>1, <1>2, <1>4, <1>5, <2>1, <2>2, DistinctProcs DEF Inv, SendersOK, At
<1> QED
  BY <1>7, <1>8, <1>9 DEF Inv

\* Phase C reports what the one send did.
LEMMA PhaseCStep ==
  ASSUME Inv, TypeOK', NEW t \in Tasks, PhaseC(t)
  PROVE  Inv'
<1> DEFINE p == proc[t].prop
<1>0. ProcsOK /\ At(t, "posted") /\ p \in Proposals /\ posted[p] = 1 /\ remote[p] \in Nat
      /\ remote[p] <= 1
  BY DistinctProcs DEF Inv, TypeOK, SendersOK, SendsCounted, PhaseC
<1>1. PICK o \in Classified(p) : SettleBy(t, o)
  BY DEF PhaseC
<1>2. o \in Outcomes /\ (o = "created" => remote[p] = 1)
      /\ (o = "failed" => posted[p] = 1 /\ remote[p] = 0)
  BY <1>0, <1>1 DEF Classified
<1>3. SendersKept
  BY <1>0, <1>1, GotoKeeps DEF SettleBy
<1> QED
  BY <1>0, <1>1, <1>2, <1>3, SettleStep DEF SettleBy

\* A settle without an answer from TickTick always says "unknown".
LEMMA UnknownStep ==
  ASSUME Inv, TypeOK', NEW x \in Procs, ~At(x, "idle"), SettleBy(x, "unknown")
  PROVE  Inv'
<1>0. ProcsOK /\ proc[x].prop \in Proposals
  BY RequestTyped DEF Inv, TypeOK
<1>1. SendersKept
  BY <1>0, GotoKeeps DEF SettleBy
<1> QED
  BY <1>0, <1>1, SettleStep DEF SettleBy

LEMMA InvStep == Inv /\ [Next]_vars => Inv'
<1> SUFFICES ASSUME Inv, [Next]_vars PROVE Inv'
  OBVIOUS
<1>0. TypeOK' /\ ProcsOK
  BY TypeStep DEF Inv, TypeOK
<1>1. ASSUME NEW p \in Proposals, Park(p) PROVE Inv'
  <2>1. SendersKept
    BY <1>1 DEF Park, SendersKept
  <2>2. /\ prop[p] = "none" /\ prop' = [prop EXCEPT ![p] = "pending"]
        /\ call' = [call EXCEPT ![p] = "pending"]
        /\ write' = [write EXCEPT ![p] = Fresh(p)]
        /\ UNCHANGED <<applied, posted, remote>>
    BY <1>1 DEF Park, Fresh
  <2>3. \A q \in Proposals : prop[q] = "accepted" => prop'[q] = "accepted"
    BY <2>2 DEF Inv, TypeOK
  <2>4. RowsAgree' /\ SendsCounted'
    BY <2>2 DEF Inv, TypeOK, RowsAgree, SendsCounted, Fresh
  <2> QED
    BY <1>0, <2>1, <2>2, <2>3, <2>4, SendersStep DEF Inv
<1>2. ASSUME NEW st \in {"completed", "errored"}, WorkerEnds(st) PROVE Inv'
  BY <1>0, <1>2, QuietStep DEF WorkerEnds, SendersKept
<1>3. ASSUME NEW t \in Tasks, NEW p \in Proposals, NEW k \in Keys \cup {NoKey},
             Load(t, p, k)
      PROVE Inv'
  <2> DEFINE pc == IF k # NoKey /\ key[p] = k THEN "replay"
                   ELSE IF prop[p] = "pending" THEN "fresh" ELSE "recover"
             r == [pc |-> pc, prop |-> p, key |-> k, decided |-> prop[p],
                   wrote |-> write[p], view |-> {}]
  <2>1. r.pc \notin {"post", "posted"} /\ proc' = [proc EXCEPT ![t] = r]
    BY <1>3 DEF Load
  <2> HIDE DEF r
  <2>2. SendersKept
    BY <1>0, <2>1 DEF SendersKept, ProcsOK
  <2> QED
    BY <1>0, <1>3, <2>2, QuietStep DEF Load
<1>4. CASE StopFirst
  <2>1. SendersKept /\ UNCHANGED <<call, write, applied, posted, remote>>
    BY <1>4 DEF StopFirst, SendersKept
  <2>2. CASE UNCHANGED prop
    BY <1>0, <2>1, <2>2, QuietStep
  <2>3. ASSUME NEW p \in Proposals, prop[p] = "pending",
               prop' = [prop EXCEPT ![p] = "cancelled"]
        PROVE Inv'
    <3>1. \A q \in Proposals : prop[q] = "accepted" => prop'[q] = "accepted"
      BY <2>3 DEF Inv, TypeOK
    <3>2. RowsAgree' /\ SendsCounted'
      BY <2>1, <2>3 DEF Inv, TypeOK, RowsAgree, SendsCounted, Fresh
    <3> QED
      BY <1>0, <2>1, <3>1, <3>2, SendersStep DEF Inv
  <2> QED
    BY <1>4, <2>2, <2>3 DEF StopFirst, CancelProposal, LatestPending
<1>5. CASE Retry
  BY <1>0, <1>5, QuietStep DEF Retry, SendersKept
<1>6. ASSUME NEW t \in Tasks, TaskStep(t) \/ TaskDies(t) PROVE Inv'
  <2>1. CASE LateDecideSettles(t)
    BY <1>0, <2>1, UnknownStep DEF LateDecideSettles, At
  <2> QED
    BY <1>0, <1>6, <2>1, TaskQuiet, DecideStep, AcceptWriteStep, PostStep, PhaseCStep
    DEF TaskStep
<1>7. ASSUME NEW p \in Proposals, WatchdogFires(p) PROVE Inv'
  BY <1>0, <1>7, UnknownStep DEF WatchdogFires, At
<1>8. ASSUME NEW x \in Procs, ResumeStep(x) PROVE Inv'
  BY <1>0, <1>8, ResumeQuiet
<1>9. CASE StopMatrix
  BY <1>0, <1>9, QuietStep DEF StopMatrix, SendersKept
<1>10. CASE BootStep
  <2>1. CASE RecoverRuns \/ Serve
    BY <1>0, <2>1, QuietStep DEF RecoverRuns, Serve, SendersKept
  <2>2. ASSUME NEW p \in Proposals, SweepSettle(p) PROVE Inv'
    <3>1. SendersKept
      BY <1>0, <2>2, DistinctProcs DEF SendersKept, ProcsOK, SweepSettle
    <3> QED
      BY <1>0, <2>2, <3>1, SettleStep DEF SweepSettle, SweepOutcome
  <2>3. CASE SweepResume
    <3>1. SendersKept
      BY <1>0, <2>3, DistinctProcs DEF SendersKept, ProcsOK, SweepResume
    <3> QED
      BY <1>0, <2>3, <3>1, QuietStep DEF SweepResume
  <2> QED
    BY <1>10, <2>1, <2>2, <2>3 DEF BootStep
<1>11. CASE Crash
  <2>1. SendersKept
    BY <1>11, IdleTyped DEF SendersKept, Crash
  <2> QED
    BY <1>0, <1>11, <2>1, QuietStep DEF Crash
<1>12. CASE UNCHANGED vars
  BY <1>0, <1>12, QuietStep DEF vars, SendersKept
<1> QED
  BY <1>1, <1>2, <1>3, <1>4, <1>5, <1>6, <1>7, <1>8, <1>9, <1>10, <1>11, <1>12
  DEF Next, WorkerStep, ClientStep

LEMMA Invariance == Spec => []Inv
  BY InvInit, InvStep, PTL DEF Spec

-----------------------------------------------------------------------------
(* What follows from it.                                                   *)

\* However decides race, replay, die or are cut off by a crash, an accepted
\* entity Proposal is applied exactly once and an accepted write is sent at
\* most once (decide_proposal.rs, ticktick_write.rs).
THEOREM AppliedExactlyOnce == Spec => []ExactlyOnce
<1>1. Inv => ExactlyOnce
  BY DEF Inv, SendsCounted, ExactlyOnce
<1> QED
  BY <1>1, Invariance, PTL

\* The awaited tool call always agrees with the Decision and with the write it
\* authorised (the transactions of decide_proposal.rs and ticktick_writes.rs).
THEOREM CallsCarryDecisions == Spec => []CallCarriesDecision
<1>1. Inv => CallCarriesDecision
  BY DEF Inv, TypeOK, RowsAgree, Fresh, CallCarriesDecision
<1> QED
  BY <1>1, Invariance, PTL

\* What the model reads about a write is true of TickTick: two tasks are never
\* created, and "created" or "failed" is never wrong (client.rs classify).
THEOREM OutcomesHonest == Spec => []HonestOutcome
<1>1. ASSUME Inv, NEW p \in Proposals
      PROVE  /\ remote[p] <= 1
             /\ call[p] = "created" => remote[p] = 1
             /\ call[p] = "failed" => remote[p] = 0
  <2>1. remote[p] \in Nat /\ posted[p] \in {0, 1} /\ remote[p] <= posted[p]
    BY <1>1 DEF Inv, TypeOK, SendsCounted
  <2> QED
    BY <1>1, <2>1 DEF Inv, SendsCounted
<1>2. Inv => HonestOutcome
  BY <1>1 DEF HonestOutcome
<1> QED
  BY <1>2, Invariance, PTL

Stands ==
    \A p \in Proposals :
        /\ prop[p] \in {"accepted", "rejected", "cancelled"} => prop'[p] = prop[p]
        /\ call[p] \notin {"none", "pending"} => call'[p] = call[p]

LEMMA SettleStands ==
  ASSUME Inv, NEW p \in Proposals, NEW o, Settle(p, o), UNCHANGED prop
  PROVE  Stands
  BY DEF Inv, TypeOK, RowsAgree, Fresh, Settle, Settleable, Stands

LEMMA StandsStep == Inv /\ [Next]_vars => Stands
<1> SUFFICES ASSUME Inv, [Next]_vars PROVE Stands
  OBVIOUS
<1>0. ProcsOK
  BY DEF Inv, TypeOK
<1>1. ASSUME UNCHANGED <<prop, call>> PROVE Stands
  BY <1>1 DEF Stands
<1>2. ASSUME NEW p \in Proposals, Park(p) PROVE Stands
  BY <1>2 DEF Inv, TypeOK, RowsAgree, Park, Stands
<1>3. CASE StopFirst
  BY <1>3 DEF Inv, TypeOK, StopFirst, LatestPending, CancelProposal, Stands
<1>4. ASSUME NEW t \in Tasks, TaskStep(t) \/ TaskDies(t) PROVE Stands
  <2>1. ~At(t, "idle") => proc[t].prop \in Proposals
    BY <1>0, RequestTyped
  <2>2. CASE Reject(t) \/ AcceptEntity(t) \/ AcceptWrite(t)
    <3> DEFINE p == proc[t].prop
    <3>1. p \in Proposals /\ prop[p] = "pending"
      BY <2>1, <2>2 DEF Reject, AcceptEntity, AcceptWrite, Undecided, At
    <3>2. call[p] = "pending"
      BY <3>1 DEF Inv, RowsAgree
    <3>3. \A q \in Proposals \ {p} : prop'[q] = prop[q] /\ call'[q] = call[q]
      BY <2>2 DEF Inv, TypeOK, Reject, AcceptEntity, AcceptWrite
    <3> HIDE DEF p
    <3> QED
      BY <3>1, <3>2, <3>3 DEF Stands
  <2>3. CASE PhaseC(t) \/ LateDecideSettles(t)
    BY <2>1, <2>3, SettleStands DEF PhaseC, LateDecideSettles, SettleBy, At
  <2>4. CASE Recover(t) \/ Replay(t) \/ CheckParked(t) \/ LoseRace(t) \/ Post(t)
             \/ TaskDies(t)
    BY <1>1, <2>4 DEF Recover, Replay, CheckParked, LoseRace, Post, TaskDies
  <2> QED
    BY <1>4, <2>2, <2>3, <2>4 DEF TaskStep
<1>5. ASSUME NEW p \in Proposals, WatchdogFires(p) PROVE Stands
  BY <1>0, <1>5, RequestTyped, SettleStands DEF WatchdogFires, SettleBy, At
<1>6. ASSUME NEW p \in Proposals, SweepSettle(p) PROVE Stands
  BY <1>6, SettleStands DEF SweepSettle
<1>7. ASSUME NEW x \in Procs, ResumeStep(x) PROVE Stands
  BY <1>1, <1>7 DEF ResumeStep, ResumeGate, BuildManifest, Activate
<1>8. CASE WorkerEnds("completed") \/ WorkerEnds("errored") \/ Retry \/ StopMatrix
           \/ RecoverRuns \/ SweepResume \/ Serve \/ Crash \/ UNCHANGED vars
  BY <1>1, <1>8 DEF WorkerEnds, Retry, StopMatrix, RecoverRuns, SweepResume, Serve,
                    Crash, vars
<1>9. ASSUME NEW t \in Tasks, NEW p \in Proposals, NEW k \in Keys \cup {NoKey},
             Load(t, p, k)
      PROVE Stands
  BY <1>1, <1>9 DEF Load
<1> QED
  BY <1>2, <1>3, <1>4, <1>5, <1>6, <1>7, <1>8, <1>9
  DEF Next, WorkerStep, ClientStep, BootStep

\* No later decide, Stop, settle or sweep changes a Decision that was taken or
\* overwrites a result the model may have read (the guarded UPDATEs of
\* db/queries.rs).
THEOREM DecisionsStand == Spec => DecisionStands
<1>1. Inv /\ [Next]_vars => Stands
  BY StandsStep
<1> QED
  BY <1>1, Invariance, PTL DEF Spec, DecisionStands, Stands

-----------------------------------------------------------------------------
(* One waitpoint: a Run that parks once.  Every request, watchdog and      *)
(* sweep is then about the same Proposal, and whoever is about to resume   *)
(* the Run has found its tool call resolved.                               *)

Decided(p) == call[p] \notin {"none", "pending"}
InFlight(p) == write[p] \in {"executing", "settled"}
Asked == {p \in Proposals : prop[p] # "none"}

OnlyOne == IsFiniteSet(Asked) /\ \A p, q \in Asked : p = q
ParkedOn == run = "parked" => awaiting \in Asked
StopHeld == stopping => run = "parked" /\ up = "serving"
KeysOK == \A p \in Proposals : key[p] # NoKey => prop[p] \in {"accepted", "rejected"}

\* What a process knows of its Proposal at each point is still so.
Knows(x) ==
    LET p == proc[x].prop IN
    /\ ~At(x, "idle") => p \in Asked
    /\ At(x, "replay") => proc[x].decided \in {"accepted", "rejected"}
    /\ proc[x].pc \in {"replay", "recover"} =>
           /\ proc[x].decided = "rejected" => Decided(p)
           /\ proc[x].decided = "accepted" =>
                  IF proc[x].wrote = "executing" THEN InFlight(p) ELSE Decided(p)
    /\ proc[x].pc \in {"armed", "post", "posted", "belt"} => InFlight(p)
    /\ proc[x].pc \in ResumePcs => Decided(p)
    /\ At(x, "activate") => p \in proc[x].view

One == OnlyOne /\ ParkedOn /\ StopHeld /\ KeysOK /\ \A x \in Procs : Knows(x)

\* What was found out about a Proposal stays true.
Lasting ==
    \A p \in Proposals : /\ p \in Asked => p \in Asked'
                         /\ Decided(p) => Decided(p)'
                         /\ InFlight(p) => InFlight(p)'

LEMMA AskedStays ==
  ASSUME Inv, [Next]_vars
  PROVE  \A p \in Proposals : prop[p] # "none" => prop'[p] # "none"
<1>0. prop \in [Proposals -> PropStates]
  BY DEF Inv, TypeOK
<1>1. ASSUME NEW p \in Proposals, Park(p)
      PROVE  \A q \in Proposals : prop[q] # "none" => prop'[q] # "none"
  BY <1>0, <1>1 DEF Park
<1>2. ASSUME StopFirst
      PROVE  \A q \in Proposals : prop[q] # "none" => prop'[q] # "none"
  BY <1>0, <1>2 DEF StopFirst, CancelProposal
<1>3. ASSUME NEW t \in Tasks, TaskStep(t)
      PROVE  \A q \in Proposals : prop[q] # "none" => prop'[q] # "none"
  BY <1>0, <1>3 DEF TaskStep, Recover, Replay, CheckParked, LoseRace, Reject, AcceptEntity,
                    AcceptWrite, Post, PhaseC, LateDecideSettles, SettleBy
<1>4. CASE UNCHANGED prop
  BY <1>4
<1> QED
  BY <1>1, <1>2, <1>3, <1>4
  DEF Next, vars, WorkerStep, WorkerEnds, ClientStep, Load, Retry, TaskDies, WatchdogFires, SettleBy,
      ResumeStep, ResumeGate, BuildManifest, Activate, StopMatrix, BootStep, RecoverRuns,
      SweepSettle, SweepResume, Serve, Crash

LEMMA KnowledgeLasts ==
  ASSUME Inv, [Next]_vars PROVE Lasting
<1>1. Stands /\ Inv'
  BY StandsStep, InvStep
<1>2. \A p \in Proposals : prop[p] # "none" => prop'[p] # "none"
  BY AskedStays
<1> SUFFICES ASSUME NEW p \in Proposals
             PROVE  /\ p \in Asked => p \in Asked'
                    /\ Decided(p) => Decided(p)'
                    /\ InFlight(p) => InFlight(p)'
  BY DEF Lasting
<1>3. p \in Asked => p \in Asked'
  BY <1>2 DEF Asked
<1>4. Decided(p) => Decided(p)'
  BY <1>1 DEF Stands, Decided
<1>5. InFlight(p) <=> prop[p] = "accepted" /\ p \in TickTick
  BY DEF Inv, TypeOK, RowsAgree, Fresh, InFlight
<1>6. prop'[p] = "accepted" /\ p \in TickTick => InFlight(p)'
  BY <1>1 DEF Inv, RowsAgree, InFlight
<1> QED
  BY <1>1, <1>3, <1>4, <1>5, <1>6 DEF Stands

LEMMA StillKnows ==
  ASSUME ProcsOK, Lasting, NEW y \in Procs, Knows(y), proc'[y] = proc[y]
  PROVE  Knows(y)'
<1>1. ~At(y, "idle") => proc[y].prop \in Proposals
  BY DEF ProcsOK
<1>2. proc[y].pc = "idle" => Knows(y)'
  BY DEF Knows, At
<1>3. proc[y].pc # "idle" => Knows(y)'
  BY <1>1 DEF Knows, At, Lasting
<1> QED
  BY <1>2, <1>3

\* The ways a process moves, seen from the others and from itself.
Others(x) == \A y \in Procs \ {x} : proc'[y] = proc[y]

LEMMA FinishIs ==
  ASSUME ProcsOK, NEW x \in Procs, Finish(x)
  PROVE  Others(x) /\ proc'[x].pc = "idle"
  BY IdleTyped DEF ProcsOK, Finish, Others

LEMMA GotoIs ==
  ASSUME ProcsOK, NEW x \in Procs, NEW pc, Goto(x, pc)
  PROVE  /\ Others(x) /\ proc'[x].pc = pc /\ proc'[x].prop = proc[x].prop
         /\ proc'[x].decided = proc[x].decided /\ proc'[x].wrote = proc[x].wrote
<1>1. proc[x] \in ProcRecord
  BY DEF ProcsOK
<1>2. Others(x) /\ proc'[x] = [proc[x] EXCEPT !.pc = pc]
  BY DEF ProcsOK, Goto, Others
<1> QED
  BY <1>1, <1>2 DEF ProcRecord

LEMMA SetIs ==
  ASSUME ProcsOK, NEW x \in Procs, NEW r, proc' = [proc EXCEPT ![x] = r]
  PROVE  Others(x) /\ proc'[x] = r
  BY DEF ProcsOK, Others

LEMMA ProceedIs ==
  ASSUME ProcsOK, NEW x \in Procs, NEW pc \in {"armed"} \cup DecidePcs \cup ResumePcs,
         ~At(x, "idle"), Proceed(x, pc)
  PROVE  Others(x) /\ proc'[x].pc = pc /\ proc'[x].prop = proc[x].prop
<1>1. Others(x) /\ proc'[x] = Step(pc, proc[x].prop)
  BY SetIs DEF Proceed
<1>2. proc[x].prop \in Proposals
  BY DEF ProcsOK
<1> QED
  BY <1>1, <1>2, StepTyped

\* One process moves and knows what it should: so do all.
LEMMA OneMoves ==
  ASSUME ProcsOK, Lasting, \A y \in Procs : Knows(y), NEW x \in Procs, Others(x), Knows(x)'
  PROVE  \A y \in Procs : Knows(y)'
  BY StillKnows DEF Others

LEMMA NobodyMoves ==
  ASSUME ProcsOK, Lasting, \A y \in Procs : Knows(y), UNCHANGED proc
  PROVE  \A y \in Procs : Knows(y)'
  BY StillKnows

LEMMA IdleKnows ==
  ASSUME NEW x \in Procs, proc'[x].pc = "idle" PROVE Knows(x)'
  BY DEF Knows, At

\* After a settle the tool call is resolved, whoever wrote the outcome.
LEMMA SettleDecides ==
  ASSUME Inv, NEW p \in Proposals, InFlight(p), NEW o \in Outcomes, Settle(p, o)
  PROVE  Decided(p)'
<1>1. CASE write[p] = "executing"
  BY <1>1 DEF Settle, Settleable, Decided, Inv, TypeOK
<1>2. CASE write[p] = "settled"
  <2>1. call[p] \in Outcomes
    BY <1>2 DEF Inv, TypeOK, RowsAgree, Fresh
  <2> QED
    BY <1>2, <2>1 DEF Settle, Settleable, Decided
<1> QED
  BY <1>1, <1>2 DEF InFlight

LEMMA SettleByKnows ==
  ASSUME Inv, Lasting, \A y \in Procs : Knows(y), NEW x \in Procs,
         ~At(x, "idle"), InFlight(proc[x].prop), NEW o \in Outcomes, SettleBy(x, o)
  PROVE  \A y \in Procs : Knows(y)'
<1>0. ProcsOK
  BY DEF Inv, TypeOK
<1>1. Others(x) /\ proc'[x].pc = "gate" /\ proc'[x].prop = proc[x].prop
  BY <1>0, GotoIs DEF SettleBy
<1>2. proc[x].prop \in Proposals /\ proc[x].prop \in Asked
  BY <1>0, RequestTyped DEF Knows
<1>3. Decided(proc[x].prop)'
  <2> PICK p \in Proposals : p = proc[x].prop
    BY <1>2
  <2>1. Decided(p)'
    BY SettleDecides DEF SettleBy
  <2> QED
    BY <1>1, <2>1 DEF Decided
<1>4. Knows(x)'
  BY <1>1, <1>2, <1>3 DEF Knows, At, Lasting
<1> QED
  BY <1>0, <1>1, <1>4, OneMoves

\* The steps of a request: load, replay, recover, check, decide, send, settle.
LEMMA LoadKnows ==
  ASSUME Inv, Lasting, One, NEW t \in Tasks, NEW p \in Proposals, NEW k \in Keys \cup {NoKey},
         Load(t, p, k)
  PROVE  \A y \in Procs : Knows(y)'
<1>0. ProcsOK /\ t \in Procs
  BY DEF Inv, TypeOK
<1> DEFINE pc == IF k # NoKey /\ key[p] = k THEN "replay"
                 ELSE IF prop[p] = "pending" THEN "fresh" ELSE "recover"
           r == [pc |-> pc, prop |-> p, key |-> k, decided |-> prop[p],
                 wrote |-> write[p], view |-> {}]
<1>1. proc' = [proc EXCEPT ![t] = r]
  BY DEF Load
<1>2. /\ r.pc \in {"replay", "fresh", "recover"} /\ r.prop = p /\ r.decided = prop[p]
      /\ r.wrote = write[p] /\ r.pc = pc
  OBVIOUS
<1>3. pc = "replay" => prop[p] \in {"accepted", "rejected"}
  BY DEF One, KeysOK
<1> HIDE DEF r, pc
<1>4. Others(t) /\ proc'[t] = r
  BY <1>0, <1>1, SetIs
<1>5. /\ prop[p] = "rejected" => Decided(p)
      /\ prop[p] = "accepted" => IF write[p] = "executing" THEN InFlight(p) ELSE Decided(p)
  BY DEF Inv, TypeOK, RowsAgree, Fresh, Decided, InFlight
<1>6. p \in Asked
  BY DEF Load, Asked
<1>7. Knows(t)'
  BY <1>2, <1>3, <1>4, <1>5, <1>6 DEF Knows, At, Lasting
<1> QED
  BY <1>0, <1>4, <1>7, OneMoves DEF One

LEMMA TaskKnows ==
  ASSUME Inv, Lasting, One, NEW t \in Tasks, TaskStep(t) \/ TaskDies(t)
  PROVE  \A y \in Procs : Knows(y)'
<1>0. /\ ProcsOK /\ t \in Procs /\ \A y \in Procs : Knows(y)
      /\ ~At(t, "idle") => proc[t].prop \in Proposals
  BY RequestTyped DEF Inv, TypeOK, One
<1>1. CASE Finish(t)
  <2>1. Others(t) /\ proc'[t].pc = "idle"
    BY <1>0, <1>1, FinishIs
  <2> QED
    BY <1>0, <2>1, IdleKnows, OneMoves
<1>2. CASE Recover(t) /\ Goto(t, "replay") /\ proc[t].decided \in {"accepted", "rejected"}
  <2>1. /\ Others(t) /\ proc'[t].pc = "replay" /\ proc'[t].prop = proc[t].prop
        /\ proc'[t].decided = proc[t].decided /\ proc'[t].wrote = proc[t].wrote
    BY <1>0, <1>2, GotoIs
  <2>2. Knows(t) /\ proc[t].pc = "recover" /\ proc[t].prop \in Proposals
    BY <1>0, <1>2 DEF Recover, At
  <2>3. Knows(t)'
    BY <1>2, <2>1, <2>2 DEF Knows, At, Lasting
  <2> QED
    BY <1>0, <2>1, <2>3, OneMoves
<1>3. CASE Replay(t) /\ SeenInFlight(t) /\ Proceed(t, "belt")
  <2>1. Others(t) /\ proc'[t].pc = "belt" /\ proc'[t].prop = proc[t].prop
    BY <1>0, <1>3, ProceedIs DEF Replay, At
  <2>2. Knows(t) /\ proc[t].pc = "replay" /\ proc[t].prop \in Proposals
    BY <1>0, <1>3 DEF Replay, At
  <2>3. Knows(t)'
    BY <1>3, <2>1, <2>2 DEF Knows, At, Lasting, SeenInFlight
  <2> QED
    BY <1>0, <2>1, <2>3, OneMoves
<1>4. CASE Replay(t) /\ ~SeenInFlight(t) /\ Proceed(t, "gate")
  <2>1. Others(t) /\ proc'[t].pc = "gate" /\ proc'[t].prop = proc[t].prop
    BY <1>0, <1>4, ProceedIs DEF Replay, At
  <2>2. Knows(t) /\ proc[t].pc = "replay" /\ proc[t].prop \in Proposals
    BY <1>0, <1>4 DEF Replay, At
  <2>3. Knows(t)'
    BY <1>4, <2>1, <2>2 DEF Knows, At, Lasting, SeenInFlight
  <2> QED
    BY <1>0, <2>1, <2>3, OneMoves
<1>5. CASE CheckParked(t) /\ Goto(t, "apply")
  <2>1. Others(t) /\ proc'[t].pc = "apply" /\ proc'[t].prop = proc[t].prop
    BY <1>0, <1>5, GotoIs
  <2>2. Knows(t) /\ proc[t].pc = "fresh" /\ proc[t].prop \in Proposals
    BY <1>0, <1>5 DEF CheckParked, At
  <2>3. Knows(t)'
    BY <2>1, <2>2 DEF Knows, At, Lasting
  <2> QED
    BY <1>0, <2>1, <2>3, OneMoves
<1>6. CASE Reject(t) \/ AcceptEntity(t)
  <2>1. Others(t) /\ proc'[t].pc = "gate" /\ proc'[t].prop = proc[t].prop
    BY <1>0, <1>6, ProceedIs DEF Reject, AcceptEntity, At
  <2>2. Knows(t) /\ ~At(t, "idle")
    BY <1>0, <1>6 DEF Reject, AcceptEntity, At
  <2>3. Decided(proc[t].prop)'
    <3> PICK p \in Proposals : p = proc[t].prop
      BY <1>0, <2>2
    <3>1. Decided(p)'
      BY <1>6 DEF Reject, AcceptEntity, Decided, Inv, TypeOK
    <3> QED
      BY <2>1, <3>1 DEF Decided
  <2>4. Knows(t)'
    BY <1>0, <2>1, <2>2, <2>3 DEF Knows, At, Lasting
  <2> QED
    BY <1>0, <2>1, <2>4, OneMoves
<1>7. CASE AcceptWrite(t)
  <2> PICK p \in Proposals : p = proc[t].prop
    BY <1>0, <1>7 DEF AcceptWrite, At
  <2>1. proc' = [proc EXCEPT ![t] = Step("post", p), ![p] = Step("armed", p)]
    BY <1>7 DEF AcceptWrite
  <2>2. /\ Step("post", p).prop = p /\ Step("post", p).pc = "post"
        /\ Step("armed", p).prop = p /\ Step("armed", p).pc = "armed"
    BY StepTyped
  <2>3. \A y \in Procs : proc'[y] = IF y = p THEN Step("armed", p)
                                    ELSE IF y = t THEN Step("post", p) ELSE proc[y]
    BY <1>0, <2>1 DEF ProcsOK
  <2>4. InFlight(p)' /\ p \in Asked'
    <3>1. p \in Asked
      BY <1>0, <1>7 DEF Knows, AcceptWrite, At
    <3> QED
      BY <1>7, <3>1 DEF AcceptWrite, InFlight, Inv, TypeOK, Lasting
  <2>5. ASSUME NEW y \in Procs PROVE Knows(y)'
    <3>1. CASE y = p \/ y = t
      BY <2>2, <2>3, <2>4, <3>1 DEF Knows, At
    <3>2. CASE y # p /\ y # t
      BY <1>0, <2>3, <3>2, StillKnows
    <3> QED
      BY <3>1, <3>2
  <2> QED
    BY <2>5
<1>8. CASE Post(t)
  <2>1. Others(t) /\ proc'[t].pc = "posted" /\ proc'[t].prop = proc[t].prop
    BY <1>0, <1>8, GotoIs DEF Post
  <2>2. Knows(t) /\ proc[t].pc = "post" /\ proc[t].prop \in Proposals
    BY <1>0, <1>8 DEF Post, At
  <2>3. Knows(t)'
    BY <2>1, <2>2 DEF Knows, At, Lasting
  <2> QED
    BY <1>0, <2>1, <2>3, OneMoves
<1>9. CASE PhaseC(t) \/ LateDecideSettles(t)
  <2>1. PICK o \in Outcomes : SettleBy(t, o)
    BY <1>9 DEF PhaseC, LateDecideSettles, Classified
  <2>2. InFlight(proc[t].prop) /\ ~At(t, "idle")
    BY <1>0, <1>9 DEF PhaseC, LateDecideSettles, At, Knows
  <2> QED
    BY <1>0, <2>1, <2>2, SettleByKnows
<1> QED
  BY <1>1, <1>2, <1>3, <1>4, <1>5, <1>6, <1>7, <1>8, <1>9
  DEF TaskStep, TaskDies, Recover, Replay, CheckParked, LoseRace

LEMMA ResumeKnows ==
  ASSUME Inv, Lasting, One, NEW x \in Procs, ResumeStep(x)
  PROVE  \A y \in Procs : Knows(y)'
<1>0. /\ ProcsOK /\ \A y \in Procs : Knows(y)
      /\ ~At(x, "idle") => proc[x].prop \in Proposals
  BY RequestTyped DEF Inv, TypeOK, One
<1>1. CASE Finish(x)
  <2>1. Others(x) /\ proc'[x].pc = "idle"
    BY <1>0, <1>1, FinishIs
  <2> QED
    BY <1>0, <2>1, IdleKnows, OneMoves
<1>2. CASE ResumeGate(x) /\ Goto(x, "build")
  <2>1. Others(x) /\ proc'[x].pc = "build" /\ proc'[x].prop = proc[x].prop
    BY <1>0, <1>2, GotoIs
  <2>2. Knows(x) /\ proc[x].pc = "gate" /\ proc[x].prop \in Proposals
    BY <1>0, <1>2 DEF ResumeGate, At
  <2>3. Knows(x)'
    BY <2>1, <2>2 DEF Knows, At, Lasting
  <2> QED
    BY <1>0, <2>1, <2>3, OneMoves
<1>3. CASE BuildManifest(x) /\ proc' = [proc EXCEPT ![x].pc = "activate", ![x].view = Resolved]
  <2> DEFINE r == [proc[x] EXCEPT !.pc = "activate", !.view = Resolved]
  <2>1. proc[x] \in ProcRecord /\ Knows(x) /\ proc[x].pc = "build" /\ proc[x].prop \in Proposals
    BY <1>0, <1>3 DEF BuildManifest, At, ProcsOK
  <2>2. r.pc = "activate" /\ r.prop = proc[x].prop /\ r.view = Resolved
    BY <2>1 DEF ProcRecord
  <2>3. proc' = [proc EXCEPT ![x] = r]
    BY <1>3
  <2> HIDE DEF r
  <2>4. Others(x) /\ proc'[x] = r
    BY <1>0, <2>3, SetIs
  <2>5. proc[x].prop \in Resolved
    BY <2>1 DEF Knows, Decided, Resolved
  <2>6. Knows(x)'
    BY <2>1, <2>2, <2>4, <2>5 DEF Knows, At, Lasting
  <2> QED
    BY <1>0, <2>4, <2>6, OneMoves
<1> QED
  BY <1>1, <1>2, <1>3 DEF ResumeStep, ResumeGate, BuildManifest, Activate

LEMMA AllKnow ==
  ASSUME Inv, One, [Next]_vars PROVE \A y \in Procs : Knows(y)'
<1>0. ProcsOK /\ Lasting /\ (\A y \in Procs : Knows(y)) /\ Boot \in Procs
  BY KnowledgeLasts DEF Inv, TypeOK, One
<1>1. CASE UNCHANGED proc
  BY <1>0, <1>1, NobodyMoves
<1>2. ASSUME NEW p \in Proposals, WatchdogFires(p) PROVE \A y \in Procs : Knows(y)'
  <2>1. InFlight(proc[p].prop) /\ ~At(p, "idle") /\ p \in Procs
    BY <1>0, <1>2 DEF WatchdogFires, At, Knows
  <2> QED
    BY <1>0, <1>2, <2>1, SettleByKnows DEF WatchdogFires
<1>3. ASSUME NEW p \in Proposals, SweepSettle(p) PROVE \A y \in Procs : Knows(y)'
  <2> DEFINE r == Step("gate", p)
  <2>1. r.pc = "gate" /\ r.prop = p /\ proc' = [proc EXCEPT ![Boot] = r]
    BY <1>3, StepTyped DEF SweepSettle
  <2> HIDE DEF r
  <2>2. Others(Boot) /\ proc'[Boot] = r
    BY <1>0, <2>1, SetIs
  <2>3. Decided(p)'
    BY <1>3, SettleDecides DEF SweepSettle, SweepOutcome, InFlight
  <2>4. p \in Asked'
    BY <1>0, <1>3 DEF SweepSettle, Inv, RowsAgree, Asked, Lasting
  <2>5. Knows(Boot)'
    BY <2>1, <2>2, <2>3, <2>4 DEF Knows, At
  <2> QED
    BY <1>0, <2>2, <2>5, OneMoves
<1>4. ASSUME NEW p \in Proposals, SettledStillParked(p), SweepResume,
             proc' = [proc EXCEPT ![Boot] = Step("build", p)]
      PROVE \A y \in Procs : Knows(y)'
  <2> DEFINE r == Step("build", p)
  <2>1. r.pc = "build" /\ r.prop = p /\ proc' = [proc EXCEPT ![Boot] = r]
    BY <1>4, StepTyped
  <2> HIDE DEF r
  <2>2. Others(Boot) /\ proc'[Boot] = r
    BY <1>0, <2>1, SetIs
  <2>3. Decided(p) /\ p \in Asked
    BY <1>4 DEF SettledStillParked, Inv, TypeOK, RowsAgree, Fresh, Decided, Asked
  <2>4. Knows(Boot)'
    BY <1>0, <2>1, <2>2, <2>3 DEF Knows, At, Lasting
  <2> QED
    BY <1>0, <2>2, <2>4, OneMoves
<1>5. CASE Crash
  <2>1. \A y \in Procs : proc'[y].pc = "idle"
    BY <1>5, IdleTyped DEF Crash
  <2> QED
    BY <2>1, IdleKnows
<1>6. CASE SweepResume
  BY <1>1, <1>4, <1>6 DEF SweepResume
<1>7. CASE ClientStep
  BY <1>0, <1>1, <1>7, LoadKnows DEF ClientStep, StopFirst, Retry
<1>8. CASE WorkerStep \/ StopMatrix \/ RecoverRuns \/ Serve \/ UNCHANGED vars
  BY <1>1, <1>8 DEF WorkerStep, Park, WorkerEnds, StopMatrix, RecoverRuns, Serve, vars
<1> QED
  BY <1>0, <1>2, <1>3, <1>5, <1>6, <1>7, <1>8, TaskKnows, ResumeKnows DEF Next, BootStep

LEMMA OneInit == Init => One
<1> SUFFICES ASSUME Init PROVE One
  OBVIOUS
<1>1. Asked = {}
  BY DEF Init, Asked
<1>2. \A x \in Procs : Knows(x)
  BY IdleTyped DEF Init, Knows, At
<1> QED
  BY <1>1, <1>2, FS_EmptySet DEF One, OnlyOne, ParkedOn, StopHeld, KeysOK, Init

\* With one park allowed, the first one is the last.
LEMMA OnlyOneStep ==
  ASSUME MaxParks = 1, Inv, One, [Next]_vars PROVE OnlyOne'
<1>0. prop \in [Proposals -> PropStates]
  BY DEF Inv, TypeOK
<1>1. CASE Asked' = Asked
  BY <1>1 DEF One, OnlyOne
<1>2. ASSUME NEW p \in Proposals, Park(p) PROVE OnlyOne'
  <2>1. IsFiniteSet(Asked) /\ Cardinality(Asked) < 1
    BY <1>2 DEF One, OnlyOne, Park, Asked
  <2>2. Cardinality(Asked) \in Nat
    BY <2>1, FS_CardinalityType
  <2>3. Cardinality(Asked) = 0
    BY <2>1, <2>2
  <2>4. Asked = {}
    BY <2>1, <2>3, FS_EmptySet
  <2>5. Asked' = {p}
    BY <1>0, <1>2, <2>4 DEF Park, Asked
  <2> QED
    BY <2>5, FS_Singleton DEF OnlyOne
<1>3. CASE StopFirst
  <2>1. Asked' = Asked
    BY <1>0, <1>3 DEF StopFirst, LatestPending, CancelProposal, Asked
  <2> QED
    BY <1>1, <2>1
<1>4. ASSUME NEW t \in Tasks, Reject(t) \/ AcceptEntity(t) \/ AcceptWrite(t) PROVE OnlyOne'
  <2>1. Asked' = Asked
    BY <1>0, <1>4 DEF Reject, AcceptEntity, AcceptWrite, Undecided, Asked
  <2> QED
    BY <1>1, <2>1
<1>5. CASE UNCHANGED prop
  <2>1. Asked' = Asked
    BY <1>5 DEF Asked
  <2> QED
    BY <1>1, <2>1
<1> QED
  BY <1>2, <1>3, <1>4, <1>5
  DEF Next, vars, WorkerStep, WorkerEnds, ClientStep, Load, Retry, TaskDies, WatchdogFires, SettleBy,
      ResumeStep, ResumeGate, BuildManifest, Activate, StopMatrix, BootStep, RecoverRuns,
      SweepSettle, SweepResume, Serve, Crash,
      TaskStep, Recover, Replay, CheckParked, LoseRace, Post, PhaseC, LateDecideSettles

LEMMA ParkedOnStep ==
  ASSUME Inv, One, [Next]_vars PROVE ParkedOn' /\ StopHeld'
<1>0. Lasting /\ ParkedOn /\ StopHeld
  BY KnowledgeLasts DEF One
<1>1. ASSUME awaiting' = awaiting, run' = "parked" => run = "parked" PROVE ParkedOn'
  <2>1. Asked \subseteq Proposals
    BY DEF Asked
  <2> QED
    BY <1>0, <1>1, <2>1 DEF ParkedOn, Lasting
<1>2. ASSUME NEW p \in Proposals, Park(p) PROVE ParkedOn' /\ StopHeld'
  <2>1. p \in Asked'
    BY <1>2 DEF Park, Asked, Inv, TypeOK
  <2> QED
    BY <1>0, <1>2, <2>1 DEF Park, ParkedOn, StopHeld
<1>3. CASE WorkerEnds("completed") \/ WorkerEnds("errored") \/ StopFirst \/ Retry
  BY <1>0, <1>1, <1>3 DEF WorkerEnds, StopFirst, Retry, StopHeld
<1>4. ASSUME NEW t \in Tasks, TaskStep(t) \/ TaskDies(t) PROVE ParkedOn' /\ StopHeld'
  BY <1>0, <1>1, <1>4
  DEF StopHeld, TaskStep, TaskDies, Recover, Replay, CheckParked, LoseRace, Reject, AcceptEntity,
      AcceptWrite, Post, PhaseC, LateDecideSettles, SettleBy
<1>5. ASSUME NEW x \in Procs, ResumeStep(x) PROVE ParkedOn' /\ StopHeld'
  <2>1. CASE run' = "running"
    BY <1>0, <1>5, <2>1
    DEF ParkedOn, StopHeld, ResumeStep, ResumeGate, BuildManifest, Activate
  <2>2. CASE run' # "running"
    BY <1>0, <1>1, <1>5, <2>2
    DEF StopHeld, ResumeStep, ResumeGate, BuildManifest, Activate
  <2> QED
    BY <2>1, <2>2
<1>6. CASE StopMatrix \/ RecoverRuns \/ Serve \/ Crash \/ SweepResume \/ UNCHANGED vars
  BY <1>0, <1>1, <1>6
  DEF StopHeld, StopMatrix, RecoverRuns, Serve, Crash, SweepResume, vars
<1>7. ASSUME NEW p \in Proposals, SweepSettle(p) \/ WatchdogFires(p) PROVE ParkedOn' /\ StopHeld'
  BY <1>0, <1>1, <1>7 DEF StopHeld, SweepSettle, WatchdogFires, SettleBy
<1>8. ASSUME NEW t \in Tasks, NEW p \in Proposals, NEW k \in Keys \cup {NoKey}, Load(t, p, k)
      PROVE ParkedOn' /\ StopHeld'
  BY <1>0, <1>1, <1>8 DEF StopHeld, Load
<1> QED
  BY <1>2, <1>3, <1>4, <1>5, <1>6, <1>7, <1>8 DEF Next, WorkerStep, ClientStep, BootStep

LEMMA KeysStep ==
  ASSUME Inv, One, [Next]_vars PROVE KeysOK'
<1>0. Stands /\ KeysOK
  BY StandsStep DEF One
<1>1. ASSUME key' = key PROVE KeysOK'
  BY <1>0, <1>1 DEF KeysOK, Stands
<1>2. ASSUME NEW t \in Tasks, Reject(t) \/ AcceptEntity(t) \/ AcceptWrite(t) PROVE KeysOK'
  <2> SUFFICES ASSUME NEW p \in Proposals, key'[p] # NoKey
               PROVE  prop'[p] \in {"accepted", "rejected"}
    BY DEF KeysOK
  <2>1. key' = [key EXCEPT ![proc[t].prop] = proc[t].key]
        /\ \/ prop' = [prop EXCEPT ![proc[t].prop] = "rejected"]
           \/ prop' = [prop EXCEPT ![proc[t].prop] = "accepted"]
    BY <1>2 DEF Reject, AcceptEntity, AcceptWrite
  <2>2. CASE p = proc[t].prop
    BY <2>1, <2>2 DEF Inv, TypeOK
  <2>3. CASE p # proc[t].prop
    BY <1>0, <2>1, <2>3 DEF Inv, TypeOK, KeysOK, Stands
  <2> QED
    BY <2>2, <2>3
<1> QED
  BY <1>1, <1>2
  DEF Next, vars, WorkerStep, Park, WorkerEnds, ClientStep, Load, Retry, StopFirst, TaskDies,
      WatchdogFires, SettleBy, ResumeStep, ResumeGate, BuildManifest, Activate, StopMatrix, BootStep,
      RecoverRuns, SweepSettle, SweepResume, Serve, Crash,
      TaskStep, Recover, Replay, CheckParked, LoseRace, Post, PhaseC, LateDecideSettles

LEMMA WaitpointInvariance ==
  ASSUME MaxParks = 1 PROVE Spec => [](Inv /\ One)
<1>1. Init => Inv /\ One
  BY InvInit, OneInit
<1>2. (Inv /\ One) /\ [Next]_vars => (Inv /\ One)'
  BY InvStep, OnlyOneStep, ParkedOnStep, KeysStep, AllKnow DEF One
<1> QED
  BY <1>1, <1>2, PTL DEF Spec

-----------------------------------------------------------------------------
(* What follows for a Run that parks once.                                 *)

\* While its write is in flight, nothing cancels a parked Run: run/cancel finds
\* no pending Proposal and its state matrix answers write_in_flight (cancel.rs).
THEOREM InFlightNotStopped ==
  ASSUME MaxParks = 1 PROVE Spec => InFlightWriteNotStopped
<1>1. ASSUME Inv, One, [Next]_vars, run = "parked", NEW p \in Proposals, write[p] = "executing"
      PROVE  run' # "cancelled"
  <2>1. prop[p] = "accepted" /\ p \in Asked
    BY <1>1 DEF Inv, RowsAgree, TypeOK, Fresh, Asked
  <2>2. awaiting = p /\ \A q \in Proposals : prop[q] = "none" \/ q = p
    BY <1>1, <2>1 DEF One, ParkedOn, OnlyOne, Asked
  <2>3. ~StopFirst \/ run' # "cancelled"
    BY <1>1, <2>1, <2>2 DEF StopFirst, LatestPending
  <2>4. ~StopMatrix \/ run' # "cancelled"
    BY <1>1, <2>2 DEF StopMatrix, StopAnswer, StoppableWrite
  <2> QED
    BY <1>1, <2>3, <2>4
    DEF Next, vars, WorkerStep, Park, WorkerEnds, ClientStep, Load, Retry, TaskDies,
        WatchdogFires, SettleBy, ResumeStep, ResumeGate, BuildManifest, Activate, BootStep,
        RecoverRuns, SweepSettle, SweepResume, Serve, Crash, TaskStep, Recover, Replay,
        CheckParked, LoseRace, Reject, AcceptEntity, AcceptWrite, Post, PhaseC, LateDecideSettles
<1>2. (Inv /\ One) /\ [Next]_vars
      => [run = "parked" /\ (\E p \in Proposals : write[p] = "executing")
          => run' # "cancelled"]_vars
  BY <1>1
<1> QED
  BY <1>2, WaitpointInvariance, PTL DEF Spec, InFlightWriteNotStopped

\* A parked Run is resumed only by a process that read the transcript after
\* the Decision it waits for was recorded (worker::resume, ADR-0025).
THEOREM ResumedDecided ==
  ASSUME MaxParks = 1 PROVE Spec => ResumedWithDecision
<1>1. ASSUME Inv, One, [Next]_vars, run = "parked", run' = "running"
      PROVE  \E x \in Procs : At(x, "activate") /\ proc'[x] = Idle /\ awaiting \in proc[x].view
  <2>1. PICK x \in Procs : Activate(x)
    <3>1. ASSUME NEW t \in Tasks, TaskStep(t) \/ TaskDies(t) PROVE run' = run
      BY <3>1
      DEF TaskStep, TaskDies, Recover, Replay, CheckParked, LoseRace, Reject, AcceptEntity,
          AcceptWrite, Post, PhaseC, LateDecideSettles, SettleBy
    <3>2. ASSUME NEW x \in Procs, ResumeStep(x) PROVE run' = run \/ Activate(x)
      BY <3>2 DEF ResumeStep, ResumeGate, BuildManifest
    <3>3. CASE WorkerStep \/ ClientStep \/ StopMatrix \/ BootStep \/ Crash \/ UNCHANGED vars
      BY <1>1, <3>3
      DEF WorkerStep, Park, WorkerEnds, ClientStep, Load, Retry, Retryable, StopFirst, StopMatrix,
          BootStep, RecoverRuns, SweepSettle, SweepResume, Serve, Crash, vars
    <3>4. ASSUME NEW p \in Proposals, WatchdogFires(p) PROVE run' = run
      BY <3>4 DEF WatchdogFires, SettleBy
    <3> QED
      BY <1>1, <3>1, <3>2, <3>3, <3>4 DEF Next
  <2>2. At(x, "activate") /\ Knows(x) /\ proc'[x] = Idle
    BY <1>1, <2>1 DEF Activate, Finish, One, Inv, TypeOK, ProcsOK
  <2>3. proc[x].prop \in Asked /\ proc[x].prop \in proc[x].view
    BY <2>2 DEF Knows, At
  <2>4. awaiting = proc[x].prop
    BY <1>1, <2>3 DEF One, ParkedOn, OnlyOne
  <2> QED
    BY <2>2, <2>3, <2>4
<1>2. (Inv /\ One) /\ [Next]_vars
      => [run = "parked" /\ run' = "running"
          => \E x \in Procs : At(x, "activate") /\ proc'[x] = Idle
                               /\ awaiting \in proc[x].view]_vars
  BY <1>1
<1> QED
  BY <1>2, WaitpointInvariance, PTL DEF Spec, ResumedWithDecision

-----------------------------------------------------------------------------
(* ProposalDecision implements RunLifecycle.                               *)

LEMMA WaitpointStays ==
  ASSUME UNCHANGED <<run, awaiting, call>> PROVE Waitpoint' = Waitpoint
  BY DEF Waitpoint

\* A settle resolves the call of the awaited Proposal, or changes nothing.
LEMMA SettleImplements ==
  ASSUME Inv, One, NEW p \in Proposals, p \in Asked, InFlight(p), NEW o \in Outcomes, Settle(p, o),
         UNCHANGED <<run, awaiting>>
  PROVE  Lifecycle!Decide \/ UNCHANGED <<run, Waitpoint>>
<1>1. CASE write[p] # "executing" \/ run # "parked"
  BY <1>1 DEF Settle, Settleable, Waitpoint
<1>2. CASE write[p] = "executing" /\ run = "parked"
  <2>1. awaiting = p
    BY <1>2 DEF One, ParkedOn, OnlyOne
  <2>2. call[p] = "pending"
    BY <1>2 DEF Inv, TypeOK, RowsAgree, Fresh
  <2>3. call'[p] = o
    BY <1>2 DEF Settle, Settleable, Inv, TypeOK
  <2> QED
    BY <1>2, <2>1, <2>2, <2>3 DEF Waitpoint, Lifecycle!Decide
<1> QED
  BY <1>1, <1>2

LEMMA TaskImplements ==
  ASSUME Inv, One, NEW t \in Tasks, TaskStep(t) \/ TaskDies(t)
  PROVE  Lifecycle!Decide \/ UNCHANGED <<run, Waitpoint>>
<1>0. /\ ProcsOK /\ Knows(t) /\ t \in Procs
      /\ ~At(t, "idle") => proc[t].prop \in Proposals /\ proc[t].prop \in Asked
  BY RequestTyped DEF Inv, TypeOK, One, Knows
<1>1. CASE Recover(t) \/ Replay(t) \/ CheckParked(t) \/ LoseRace(t) \/ AcceptWrite(t) \/ Post(t)
           \/ TaskDies(t)
  BY <1>1, WaitpointStays
  DEF Recover, Replay, CheckParked, LoseRace, AcceptWrite, Post, TaskDies
<1>2. CASE Reject(t) \/ AcceptEntity(t)
  <2> PICK p \in Proposals : p = proc[t].prop
    BY <1>0, <1>2 DEF Reject, AcceptEntity, At
  <2>1. p \in Asked /\ call[p] = "pending" /\ UNCHANGED <<run, awaiting>>
    BY <1>0, <1>2 DEF Reject, AcceptEntity, At, Undecided, Inv, RowsAgree
  <2>2. call'[p] \in {"accept", "reject"}
    BY <1>2 DEF Reject, AcceptEntity, Inv, TypeOK
  <2>3. CASE run = "parked"
    <3>1. awaiting = p
      BY <2>1, <2>3 DEF One, ParkedOn, OnlyOne
    <3> QED
      BY <2>1, <2>2, <2>3, <3>1 DEF Waitpoint, Lifecycle!Decide
  <2>4. CASE run # "parked"
    BY <2>1, <2>4 DEF Waitpoint
  <2> QED
    BY <2>3, <2>4
<1>3. CASE PhaseC(t) \/ LateDecideSettles(t)
  <2>1. PICK o \in Outcomes : SettleBy(t, o)
    BY <1>3 DEF PhaseC, LateDecideSettles, Classified
  <2>2. InFlight(proc[t].prop) /\ ~At(t, "idle")
    BY <1>0, <1>3 DEF PhaseC, LateDecideSettles, At, Knows
  <2> QED
    BY <1>0, <2>1, <2>2, SettleImplements DEF SettleBy
<1> QED
  BY <1>1, <1>2, <1>3 DEF TaskStep

LEMMA ResumeImplements ==
  ASSUME Inv, One, NEW x \in Procs, ResumeStep(x)
  PROVE  Lifecycle!Resume \/ UNCHANGED <<run, Waitpoint>>
<1>0. Knows(x)
  BY DEF One
<1>1. CASE UNCHANGED <<run, awaiting, call>>
  BY <1>1, WaitpointStays
<1>2. CASE /\ At(x, "activate") /\ run = "parked" /\ run' = "running" /\ awaiting' = NoProposal
           /\ UNCHANGED call
  <2>1. awaiting = proc[x].prop /\ Decided(proc[x].prop)
    BY <1>0, <1>2 DEF Knows, At, One, ParkedOn, OnlyOne
  <2>2. Waitpoint = "decided"
    BY <1>2, <2>1 DEF Waitpoint, Decided
  <2> QED
    BY <1>2, <2>2 DEF Waitpoint, Lifecycle!Resume
<1> QED
  BY <1>1, <1>2 DEF ResumeStep, ResumeGate, BuildManifest, Activate

LEMMA ImplementsStep ==
  ASSUME Inv, One, [Next]_vars
  PROVE  Lifecycle!Next \/ UNCHANGED <<run, Waitpoint>>
<1>0. ProcsOK /\ \A y \in Procs : Knows(y)
  BY DEF Inv, TypeOK, One
<1>1. ASSUME NEW p \in Proposals, Park(p) PROVE Lifecycle!Park
  BY <1>1 DEF Park, Waitpoint, Lifecycle!Park, Inv, TypeOK
<1>2. CASE WorkerEnds("completed")
  BY <1>2 DEF WorkerEnds, Waitpoint, Lifecycle!Next, Lifecycle!Complete
<1>3. CASE WorkerEnds("errored")
  BY <1>3 DEF WorkerEnds, Waitpoint, Lifecycle!Next, Lifecycle!Fail
<1>4. CASE Retry
  BY <1>4 DEF Retry, Retryable, Waitpoint, Lifecycle!Next, Lifecycle!Retry
<1>5. CASE StopFirst
  <2>1. CASE run \in {"running", "parked"} /\ run' = "cancelled"
    BY <2>1 DEF Waitpoint, Lifecycle!Next, Lifecycle!Stop
  <2>2. CASE UNCHANGED <<run, awaiting, call>>
    BY <2>2, WaitpointStays
  <2> QED
    BY <1>5, <2>1, <2>2 DEF StopFirst
<1>6. CASE StopMatrix
  <2>1. run = "parked"
    BY <1>6 DEF StopMatrix, One, StopHeld
  <2>2. CASE run' = "cancelled"
    BY <2>1, <2>2 DEF Waitpoint, Lifecycle!Next, Lifecycle!Stop
  <2>3. CASE UNCHANGED <<run, awaiting, call>>
    BY <2>3, WaitpointStays
  <2> QED
    BY <1>6, <2>2, <2>3 DEF StopMatrix
<1>7. CASE RecoverRuns
  <2>1. CASE run = "running"
    BY <1>7, <2>1 DEF RecoverRuns, Waitpoint, Lifecycle!Next, Lifecycle!Fail
  <2>2. CASE run # "running"
    BY <1>7, <2>2, WaitpointStays DEF RecoverRuns
  <2> QED
    BY <2>1, <2>2
<1>8. ASSUME NEW p \in Proposals, SweepSettle(p)
      PROVE Lifecycle!Decide \/ UNCHANGED <<run, Waitpoint>>
  <2>1. p \in Asked /\ InFlight(p)
    BY <1>8 DEF SweepSettle, InFlight, Asked, Inv, RowsAgree
  <2> QED
    BY <1>8, <2>1, SettleImplements DEF SweepSettle, SweepOutcome
<1>9. ASSUME NEW p \in Proposals, WatchdogFires(p)
      PROVE Lifecycle!Decide \/ UNCHANGED <<run, Waitpoint>>
  <2>1. proc[p].prop \in Proposals /\ proc[p].prop \in Asked /\ InFlight(proc[p].prop)
    BY <1>0, <1>9, RequestTyped DEF WatchdogFires, At, Knows
  <2> QED
    BY <1>9, <2>1, SettleImplements DEF WatchdogFires, SettleBy
<1>10. CASE SweepResume \/ Serve \/ Crash \/ UNCHANGED vars
  BY <1>10, WaitpointStays DEF SweepResume, Serve, Crash, vars
<1>11. ASSUME NEW t \in Tasks, NEW p \in Proposals, NEW k \in Keys \cup {NoKey}, Load(t, p, k)
       PROVE UNCHANGED <<run, Waitpoint>>
  BY <1>11, WaitpointStays DEF Load
<1>12. CASE WorkerStep
  BY <1>1, <1>2, <1>3, <1>12 DEF WorkerStep, Lifecycle!Next
<1>13. CASE ClientStep
  BY <1>4, <1>5, <1>11, <1>13 DEF ClientStep
<1>14. CASE BootStep
  BY <1>7, <1>8, <1>10, <1>14 DEF BootStep, Lifecycle!Next
<1>15. ASSUME NEW t \in Tasks, TaskStep(t) \/ TaskDies(t)
       PROVE Lifecycle!Next \/ UNCHANGED <<run, Waitpoint>>
  BY <1>15, TaskImplements DEF Lifecycle!Next
<1>16. ASSUME NEW x \in Procs, ResumeStep(x)
       PROVE Lifecycle!Next \/ UNCHANGED <<run, Waitpoint>>
  BY <1>16, ResumeImplements DEF Lifecycle!Next
<1>17. ASSUME NEW p \in Proposals, WatchdogFires(p)
       PROVE Lifecycle!Next \/ UNCHANGED <<run, Waitpoint>>
  BY <1>9, <1>17 DEF Lifecycle!Next
<1> QED
  BY <1>6, <1>10, <1>12, <1>13, <1>14, <1>15, <1>16, <1>17 DEF Next

\* Whatever decides, settles, Stops, retries and restarts do, the Run moves as
\* RunLifecycle allows: it parks, is decided, and only then resumed, and what
\* is over stays over (db/lifecycle.rs, decide.rs, ticktick_write.rs, cancel.rs).
THEOREM LifecycleImplemented ==
  ASSUME MaxParks = 1 PROVE Spec => ImplementsLifecycle
<1>1. Init => Lifecycle!Init
  BY DEF Init, Waitpoint, Lifecycle!Init
<1>2. (Inv /\ One) /\ [Next]_vars => [Lifecycle!Next]_(Lifecycle!vars)
  BY ImplementsStep DEF Lifecycle!vars
<1> QED
  BY <1>1, <1>2, WaitpointInvariance, PTL DEF Spec, ImplementsLifecycle, Lifecycle!Spec
=============================================================================
