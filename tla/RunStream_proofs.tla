--------------------------- MODULE RunStream_proofs --------------------------
(***************************************************************************)
(* Proofs about RunStream, for every set of subscriptions and requests and *)
(* every bound on activations, text, faults and crashes.                   *)
(*                                                                         *)
(* The inductive invariant IInv comes in layers, each kept by a step with  *)
(* the help of the others:                                                 *)
(*   Typed      types, what a task has in hand, and whom each is aimed at; *)
(*   Locks      who holds the slot and each gate, told by program counter; *)
(*   Registry   the registered hub, the task behind it and the status;     *)
(*   Stream     what was published, read and sent on.                      *)
(* The first lemmas say what each action does to the record it changes.    *)
(***************************************************************************)
EXTENDS RunStream, SequenceTheorems, TLAPS

\* What a task has in hand goes with where it is.
Fits(g) ==
    /\ driver[g].pc = "park" => driver[g].job = "park"
    /\ driver[g].pc \in {"settle", "announce"} => driver[g].job = "settle"
    /\ driver[g].pc = "retire" => driver[g].job = "retire"
    /\ driver[g].pc \in {"begin", "loop", "delta", "publish"} => driver[g].job = "none"
    /\ driver[g].pc \in {"lock", "gate"} => driver[g].job # "none"
    /\ driver[g].try <= faults
JobFits == \A g \in Gens : Fits(g)

\* What is aimed at a generation is aimed at one that was created.
Aimed ==
    /\ stop.pc # "idle" => stop.gen \in 1..gen
    /\ \A a \in Activators : act[a].pc = "cas" => act[a].gen \in 1..gen
    /\ \A s \in Subs : /\ sub[s].gen <= gen
                       /\ sub[s].pc \in {"gate", "attach", "tail"} => sub[s].gen # 0

Typed == TypeOK /\ JobFits /\ Aimed

-----------------------------------------------------------------------------
\* The task of g is between taking and releasing the slot, or the gate.
HoldsSlot(g) == driver[g].pc \in {"gate", "park", "settle", "announce", "retire"}
HoldsGate(g) == driver[g].pc \in {"publish", "park", "settle", "announce", "retire"}

\* Each lock is held by exactly who is between its acquisition and its release.
SlotOwned ==
    /\ \A g \in Gens : slot = g <=> HoldsSlot(g)
    /\ slot = Canceller <=> stop.pc # "idle"
    /\ \A a \in Activators : slot = a <=> act[a].pc = "cas"
    /\ \A s \in Subs : slot = s <=> sub[s].pc \in {"gate", "attach"} /\ sub[s].why # "lag"
GateOwned ==
    /\ \A g, h \in Gens : gate[h] = g <=> h = g /\ HoldsGate(g)
    /\ \A h \in Gens : gate[h] = Canceller <=> stop.pc = "publish" /\ stop.gen = h
    /\ \A a \in Activators, h \in Gens : gate[h] = a <=> act[a].pc = "cas" /\ act[a].gen = h
    /\ \A s \in Subs, h \in Gens : gate[h] = s <=> sub[s].pc = "attach" /\ sub[s].gen = h
Locks == SlotOwned /\ GateOwned

-----------------------------------------------------------------------------
\* The task of g still works for its Run: it has neither made its last
\* transition nor been told that there is nothing left to do.
Driving(g) ==
    /\ driver[g].pc \notin {"gone", "announce", "retire"}
    /\ driver[g].job # "retire"

\* A chunk taken from the Worker fits the bound on the text.
TextFits ==
    \A g \in Gens : driver[g].pc = "delta" /\ Streaming => text < MaxText

\* A generation that was not created yet has seen nothing.
Fresh ==
    \A g \in Gens : g > gen => driver[g].pc = "gone" /\ log[g] = <<>> /\ ~flag[g]

\* In a Core that is down nothing is left.
Empty ==
    phase = "down" =>
        /\ hub = 0 /\ stop.pc = "idle" /\ \A g \in Gens : driver[g].pc = "gone"
        /\ \A a \in Activators : act[a].pc = "idle"
        /\ \A s \in Subs : sub[s].pc = "idle"

\* A task at work that was not told to stop is the registered one, and the Run
\* runs; one that retires was told, or is no longer the registered one.
Works(g) ==
    /\ flag[g] => status = "cancelled"
    /\ Driving(g) /\ ~flag[g] => hub = g /\ status = "running"
    /\ driver[g].pc # "gone" /\ driver[g].job = "retire" => flag[g] \/ hub # g
    /\ driver[g].pc = "publish" => ~flag[g]
    /\ driver[g].pc = "announce" =>
           /\ status # "running"
           /\ driver[g].won => hub = g /\ status = Target(g)
WorksRegistered == \A g \in Gens : Works(g)

\* The request that holds the slot is aimed at the registered hub; before the
\* flip that hub has no task, no event and no subscriber.
Registering(a) ==
    /\ hub = act[a].gen /\ status # "running"
    /\ driver[hub].pc = "gone" /\ log[hub] = <<>> /\ ~flag[hub]
    /\ \A s \in Subs : sub[s].gen # hub
RequestsRegistered ==
    /\ stop.pc # "idle" => hub = stop.gen
    /\ stop.pc = "publish" => status = "cancelled"
    /\ \A a \in Activators : act[a].pc = "cas" => Registering(a)

\* A running Run has a hub, and a task at work unless Core is giving up.
RunningIsDriven ==
    status = "running" =>
        /\ phase # "down" => hub # 0
        /\ phase = "serving" => Driving(hub)

Registry ==
    TextFits /\ Fresh /\ Empty /\ WorksRegistered /\ RequestsRegistered /\ RunningIsDriven

-----------------------------------------------------------------------------
\* Deltas in the durable text that the channel has carried too.
Published(g) == IF driver[g].pc = "publish" THEN text - 1 ELSE text

\* An ending is the last event of its generation, which is registered no more.
LastEnds(g) ==
    \A i \in 1..Len(log[g]) : log[g][i].kind # "delta" => i = Len(log[g]) /\ hub # g
EndingsLast == \A g \in Gens : LastEnds(g)

\* A subscription has been told nothing before its ending, and one thing then.
ToldBy(s) ==
    /\ sub[s].pc \in {"idle", "gate"} => sub[s].told = <<>>
    /\ sub[s].pc = "attach" =>
           \/ sub[s].told = <<>>
           \/ Len(sub[s].told) = 1 /\ sub[s].why = "subscribe"
    /\ sub[s].pc = "tail" =>
           /\ sub[s].pos <= Len(log[sub[s].gen])
           /\ \/ sub[s].told = <<>>
              \/ /\ Len(sub[s].told) = 1 /\ sub[s].gen # hub
                 /\ sub[s].pos = Len(log[sub[s].gen])
    /\ sub[s].pc = "done" => Len(sub[s].told) = 1
Told == \A s \in Subs : ToldBy(s)

\* What a receiver will be handed next is what its client's view lacks next.
Continues(s) ==
    /\ \A i \in 1..Len(log[sub[s].gen]) :
           sub[s].pos < i /\ log[sub[s].gen][i].kind = "delta" =>
               log[sub[s].gen][i].n = Len(sub[s].view) + i - sub[s].pos
    /\ sub[s].gen = hub =>
           Len(sub[s].view) + Len(log[hub]) - sub[s].pos = Published(hub)

\* A view is the numbers from one on; one just read under the gate is the text.
Seen(s) ==
    /\ sub[s].view = [n \in 1..Len(sub[s].view) |-> n]
    /\ sub[s].pc = "attach" /\ sub[s].gen = hub => Len(sub[s].view) = text
    /\ sub[s].pc = "tail" => Continues(s)
Viewed == \A s \in Subs : Seen(s)

Stream == EndingsLast /\ Told /\ Viewed

IInv == Typed /\ Locks /\ Registry /\ Stream

USE DEF Statuses, Terminal, durable, registry, channel, bounds, At, Release, InSub

-----------------------------------------------------------------------------
(* What the actions do to the records of tasks, requests and subscriptions. *)

LEMMA Generations == Gens \subseteq Nat /\ 0 \notin Gens /\ 1 \in Gens /\ MaxGen \in Nat
  BY BoundsAssumption DEF Gens

LEMMA Created ==
  ASSUME TypeOK
  PROVE  gen \in Nat /\ 1..gen \subseteq Gens /\ (hub # 0 => hub \in Gens /\ hub <= gen)
<1>1. MaxGen \in Nat /\ gen \in 1..MaxGen /\ hub \in 0..gen
  BY Generations DEF TypeOK, Gens
<1> QED
  BY <1>1 DEF Gens

OthersKept(g) == \A h \in Gens \ {g} : driver'[h] = driver[h]
DriverTyped == driver \in [Gens -> DriverRecord]

LEMMA PutEffect ==
  ASSUME DriverTyped, NEW g \in Gens, NEW r \in DriverRecord,
         driver' = [driver EXCEPT ![g] = r]
  PROVE  DriverTyped' /\ OthersKept(g) /\ driver'[g] = r
  BY DEF DriverTyped, OthersKept

LEMMA GoToEffect ==
  ASSUME DriverTyped, NEW g \in Gens,
         NEW pc \in {"begin", "loop", "delta", "publish", "lock", "gate", "park",
                     "settle", "announce", "retire"},
         GoTo(g, pc)
  PROVE  /\ DriverTyped' /\ OthersKept(g)
         /\ driver'[g].pc = pc /\ driver'[g].job = driver[g].job
         /\ driver'[g].end = driver[g].end /\ driver'[g].try = driver[g].try
         /\ driver'[g].won = driver[g].won
  BY DEF DriverTyped, OthersKept, GoTo, DriverRecord

LEMMA LeaveEffect ==
  ASSUME DriverTyped, NEW g \in Gens, NEW job \in {"park", "settle", "retire"},
         Leave(g, job)
  PROVE  /\ DriverTyped' /\ OthersKept(g)
         /\ driver'[g].pc = "lock" /\ driver'[g].job = job
         /\ driver'[g].end = driver[g].end /\ driver'[g].try = driver[g].try
         /\ driver'[g].won = driver[g].won
<1> DEFINE r == [driver[g] EXCEPT !.pc = "lock", !.job = job]
<1>1. driver[g] \in DriverRecord
  BY DEF DriverTyped
<1>2. /\ r \in DriverRecord /\ r.pc = "lock" /\ r.job = job /\ r.end = driver[g].end
      /\ r.try = driver[g].try /\ r.won = driver[g].won
  BY <1>1 DEF DriverRecord
<1>3. driver' = [driver EXCEPT ![g] = r]
  BY DEF DriverTyped, Leave
<1> HIDE DEF r
<1> QED
  BY <1>2, <1>3, PutEffect

LEMMA EndEffect ==
  ASSUME DriverTyped, NEW g \in Gens, NEW end \in {"spawnFailed", "failed"},
         driver' = [driver EXCEPT ![g].pc = "lock", ![g].job = "settle", ![g].end = end]
  PROVE  /\ DriverTyped' /\ OthersKept(g)
         /\ driver'[g].pc = "lock" /\ driver'[g].job = "settle"
         /\ driver'[g].try = driver[g].try /\ driver'[g].won = driver[g].won
<1> DEFINE r == [driver[g] EXCEPT !.pc = "lock", !.job = "settle", !.end = end]
<1>1. driver[g] \in DriverRecord
  BY DEF DriverTyped
<1>2. /\ r \in DriverRecord /\ r.pc = "lock" /\ r.job = "settle"
      /\ r.try = driver[g].try /\ r.won = driver[g].won
  BY <1>1 DEF DriverRecord
<1>3. driver' = [driver EXCEPT ![g] = r]
  BY DEF DriverTyped
<1> HIDE DEF r
<1> QED
  BY <1>2, <1>3, PutEffect

LEMMA GoneEffect ==
  ASSUME DriverTyped, NEW g \in Gens, driver' = [driver EXCEPT ![g] = Gone]
  PROVE  /\ DriverTyped' /\ OthersKept(g)
         /\ driver'[g].pc = "gone" /\ driver'[g].job = "none" /\ driver'[g].try = 0
  BY DEF DriverTyped, OthersKept, Gone, DriverRecord

\* The task goes on in its loop, or leaves it.
LEMMA BeginEffect ==
  ASSUME DriverTyped, NEW g \in Gens, Begin(g)
  PROVE  /\ DriverTyped' /\ OthersKept(g)
         /\ \/ driver'[g].pc = "loop" /\ driver'[g].job = driver[g].job
            \/ driver'[g].pc = "lock" /\ driver'[g].job = "settle"
            \/ driver'[g].pc = "lock" /\ driver'[g].job = "retire" /\ flag[g]
         /\ driver'[g].try = driver[g].try /\ driver'[g].won = driver[g].won
<1>1. CASE flag[g] /\ Leave(g, "retire")
  BY <1>1, LeaveEffect
<1>2. CASE GoTo(g, "loop")
  BY <1>2, GoToEffect
<1>3. CASE driver' = [driver EXCEPT ![g].pc = "lock", ![g].job = "settle",
                                    ![g].end = "spawnFailed"]
  BY <1>3, EndEffect
<1> QED
  BY <1>1, <1>2, <1>3 DEF Begin

LEMMA ReceiveEffect ==
  ASSUME DriverTyped, NEW g \in Gens, Receive(g)
  PROVE  /\ DriverTyped' /\ OthersKept(g)
         /\ \/ driver'[g].pc \in {"delta", "loop"} /\ driver'[g].job = driver[g].job
            \/ driver'[g].pc = "lock" /\ driver'[g].job \in {"park", "settle"}
         /\ driver'[g].pc = "delta" => text < MaxText
         /\ driver'[g].try = driver[g].try /\ driver'[g].won = driver[g].won
<1>1. CASE text < MaxText /\ GoTo(g, "delta")
  BY <1>1, GoToEffect
<1>2. CASE driver' = [driver EXCEPT ![g].end = "completed"]
  BY <1>2 DEF DriverTyped, OthersKept, DriverRecord, Receive
<1>3. CASE driver' = [driver EXCEPT ![g].end = "failed"]
  BY <1>3 DEF DriverTyped, OthersKept, DriverRecord, Receive
<1>4. CASE Leave(g, "park")
  BY <1>4, LeaveEffect
<1>5. CASE Leave(g, "settle")
  BY <1>5, LeaveEffect
<1>6. CASE driver' = [driver EXCEPT ![g].pc = "lock", ![g].job = "settle",
                                    ![g].end = "failed"]
  <2>1. /\ DriverTyped' /\ OthersKept(g)
        /\ driver'[g].pc = "lock" /\ driver'[g].job = "settle"
        /\ driver'[g].try = driver[g].try /\ driver'[g].won = driver[g].won
    BY <1>6, EndEffect
  <2> QED
    BY <2>1
<1> QED
  BY <1>1, <1>2, <1>3, <1>4, <1>5, <1>6 DEF Receive

LEMMA PersistEffect ==
  ASSUME DriverTyped, NEW g \in Gens, Persist(g)
  PROVE  /\ DriverTyped' /\ OthersKept(g)
         /\ driver[g].pc = "settle"
         /\ driver'[g].pc = "announce" /\ driver'[g].won = (status = "running")
         /\ driver'[g].job = driver[g].job /\ driver'[g].end = driver[g].end
         /\ driver'[g].try = driver[g].try
  BY DEF DriverTyped, OthersKept, Persist, DriverRecord

LEMMA PersistFailsEffect ==
  ASSUME DriverTyped, NEW g \in Gens, PersistFails(g)
  PROVE  /\ DriverTyped' /\ OthersKept(g)
         /\ \/ /\ UNCHANGED <<slot, gate, phase>> /\ driver'[g].pc = "settle"
               /\ driver'[g].job = driver[g].job /\ driver'[g].try = driver[g].try + 1
            \/ /\ Release(g) /\ phase' = "doomed"
               /\ driver'[g].pc = "gone" /\ driver'[g].job = "none" /\ driver'[g].try = 0
<1>1. CASE driver[g].try < Fallback
  <2>1. driver' = [driver EXCEPT ![g].try = @ + 1] /\ UNCHANGED <<slot, gate, phase>>
    BY <1>1 DEF PersistFails
  <2>2. driver[g].try \in 0..1 /\ driver[g].pc = "settle"
    BY <1>1 DEF DriverTyped, DriverRecord, PersistFails, Fallback
  <2> QED
    BY <2>1, <2>2 DEF DriverTyped, OthersKept, DriverRecord
<1>2. CASE ~(driver[g].try < Fallback)
  BY <1>2, GoneEffect DEF PersistFails
<1> QED
  BY <1>1, <1>2

\* A chunk is written under the gate, or dropped after the terminal transition.
LEMMA WriteDeltaEffect ==
  ASSUME DriverTyped, NEW g \in Gens, WriteDelta(g)
  PROVE  /\ DriverTyped' /\ OthersKept(g) /\ driver[g].pc = "delta" /\ gate[g] = Free
         /\ driver'[g].job = driver[g].job /\ driver'[g].try = driver[g].try
         /\ \/ /\ Streaming /\ driver'[g].pc = "publish"
               /\ text' = text + 1 /\ gate' = [gate EXCEPT ![g] = g]
            \/ ~Streaming /\ driver'[g].pc = "loop" /\ UNCHANGED <<text, gate>>
  BY GoToEffect DEF WriteDelta

LEMMA LockEffect ==
  ASSUME DriverTyped, JobFits, NEW g \in Gens, Lock(g)
  PROVE  /\ DriverTyped' /\ OthersKept(g)
         /\ driver'[g].job = driver[g].job /\ driver'[g].try = driver[g].try
         /\ driver[g].job \in {"park", "settle", "retire"}
         /\ \/ /\ driver[g].pc = "lock" /\ slot = Free /\ driver'[g].pc = "gate"
               /\ slot' = g /\ UNCHANGED gate
            \/ /\ driver[g].pc = "gate" /\ gate[g] = Free /\ driver'[g].pc = driver[g].job
               /\ gate' = [gate EXCEPT ![g] = g] /\ UNCHANGED slot
<1>1. driver[g].pc \in {"lock", "gate"} /\ driver[g].job # "none"
  BY DEF Lock, JobFits, Fits
<1>2. driver[g].job \in {"park", "settle", "retire"}
  BY <1>1 DEF DriverTyped, DriverRecord
<1> QED
  BY <1>2, GoToEffect DEF Lock

LEMMA ParkEffect ==
  ASSUME DriverTyped, NEW g \in Gens, Park(g)
  PROVE  /\ DriverTyped' /\ OthersKept(g) /\ driver[g].pc = "park" /\ Release(g)
         /\ driver'[g].pc = "lock" /\ driver'[g].try = driver[g].try
         /\ \/ flag[g] /\ driver'[g].job = "retire" /\ UNCHANGED <<status, hub, faults>>
            \/ /\ ~flag[g] /\ status = "running" /\ status' = "parked"
               /\ hub' = RemovedOwn(g) /\ driver'[g].job = "retire" /\ UNCHANGED faults
            \/ /\ ~flag[g] /\ faults < MaxFaults /\ faults' = faults + 1
               /\ driver'[g].job = "settle" /\ UNCHANGED <<status, hub>>
  BY LeaveEffect DEF Park

SubsKept(s) == \A t \in Subs \ {s} : sub'[t] = sub[t]
SubTyped == sub \in [Subs -> SubRecord]

LEMMA TimelineTyped ==
  ASSUME TypeOK
  PROVE  Timeline \in Seq(Nat) /\ Len(Timeline) = text
  BY BoundsAssumption DEF TypeOK, Timeline

LEMMA SubPut ==
  ASSUME SubTyped, NEW s \in Subs, NEW q \in SubRecord, sub' = [sub EXCEPT ![s] = q]
  PROVE  SubTyped' /\ SubsKept(s) /\ sub'[s] = q
  BY DEF SubTyped, SubsKept

LEMMA AttendEffect ==
  ASSUME TypeOK, NEW s \in Subs, NEW why \in {"subscribe", "reopen"}, Attend(s, why)
  PROVE  /\ SubTyped' /\ SubsKept(s)
         /\ \/ /\ hub # 0 /\ slot' = s
               /\ sub'[s].pc = "gate" /\ sub'[s].why = why /\ sub'[s].gen = hub
               /\ sub'[s].view = sub[s].view /\ sub'[s].told = sub[s].told
            \/ /\ hub = 0 /\ slot' = slot
               /\ sub'[s].pc = "done" /\ sub'[s].gen = 0
               /\ sub'[s].view = IF why = "subscribe" THEN Timeline ELSE sub[s].view
               /\ sub'[s].told = Append(sub[s].told, TerminalEvent(status))
<1>1. sub[s] \in SubRecord /\ SubTyped /\ hub \in 0..MaxGen
  BY Generations DEF TypeOK, SubTyped, Gens
<1>2. CASE hub # 0
  <2> DEFINE q == [sub[s] EXCEPT !.pc = "gate", !.why = why, !.gen = hub]
  <2>1. q \in SubRecord
    BY <1>1 DEF SubRecord
  <2>2. /\ q.pc = "gate" /\ q.why = why /\ q.gen = hub
        /\ q.view = sub[s].view /\ q.told = sub[s].told
    BY <1>1 DEF SubRecord
  <2>3. sub' = [sub EXCEPT ![s] = q]
    BY <1>1, <1>2 DEF Attend, SubTyped, SubRecord
  <2> HIDE DEF q
  <2> QED
    BY <1>1, <1>2, <2>1, <2>2, <2>3, SubPut DEF Attend
<1>3. CASE hub = 0
  <2> DEFINE v == IF why = "subscribe" THEN Timeline ELSE sub[s].view
             w == Append(sub[s].told, TerminalEvent(status))
  <2>1. v \in Seq(Nat)
    BY <1>1, TimelineTyped DEF SubRecord
  <2>2. w \in Seq(Statuses)
    BY <1>1 DEF SubRecord, TypeOK, TerminalEvent
  <2> DEFINE q == [sub[s] EXCEPT !.pc = "done", !.gen = 0, !.pos = 0, !.view = v, !.told = w]
  <2>3. sub' = [sub EXCEPT ![s] = q] /\ slot' = slot
    BY <1>1, <1>3 DEF Attend, SubTyped, SubRecord
  <2> HIDE DEF v, w
  <2>0. 0 \in 0..MaxGen
    BY Generations
  <2>4. q \in SubRecord
    BY <1>1, <2>0, <2>1, <2>2 DEF SubRecord
  <2>5. q.pc = "done" /\ q.gen = 0 /\ q.view = v /\ q.told = w
    BY <1>1 DEF SubRecord
  <2> HIDE DEF q
  <2> QED
    BY <1>1, <1>3, <2>3, <2>4, <2>5, SubPut DEF v, w
<1> QED
  BY <1>2, <1>3

LEMMA ReadEffect ==
  ASSUME TypeOK, NEW s \in Subs, Read(s)
  PROVE  /\ SubTyped' /\ SubsKept(s)
         /\ sub'[s].pc = "attach" /\ sub'[s].gen = sub[s].gen /\ sub'[s].why = sub[s].why
         /\ sub'[s].view = Timeline
         /\ \/ sub'[s].told = sub[s].told
            \/ /\ sub'[s].told = Append(sub[s].told, TerminalEvent(status))
               /\ sub[s].why = "subscribe"
<1> DEFINE w == IF sub[s].why = "subscribe" /\ status \in Terminal
                THEN Append(sub[s].told, TerminalEvent(status)) ELSE sub[s].told
           q == [sub[s] EXCEPT !.pc = "attach", !.view = Timeline, !.told = w]
<1>1. sub[s] \in SubRecord /\ SubTyped
  BY DEF TypeOK, SubTyped
<1>2. sub' = [sub EXCEPT ![s] = q]
  BY <1>1 DEF Read, SubTyped, SubRecord
<1>3. w \in Seq(Statuses)
  BY <1>1 DEF SubRecord, TypeOK, TerminalEvent
<1>4. \/ w = sub[s].told
      \/ w = Append(sub[s].told, TerminalEvent(status)) /\ sub[s].why = "subscribe"
  OBVIOUS
<1> HIDE DEF w
<1>5. q \in SubRecord
  BY <1>1, <1>3, TimelineTyped DEF SubRecord
<1>6. /\ q.pc = "attach" /\ q.gen = sub[s].gen /\ q.why = sub[s].why
      /\ q.view = Timeline /\ q.told = w
  BY <1>1 DEF SubRecord
<1> HIDE DEF q
<1> QED
  BY <1>1, <1>2, <1>4, <1>5, <1>6, SubPut

LEMMA AttachEffect ==
  ASSUME TypeOK, Aimed, NEW s \in Subs, Attach(s)
  PROVE  /\ SubTyped' /\ SubsKept(s)
         /\ sub'[s].pc = IF sub[s].why = "subscribe" /\ sub[s].told # <<>> THEN "done" ELSE "tail"
         /\ sub'[s].gen = sub[s].gen /\ sub'[s].view = sub[s].view
         /\ sub'[s].told = sub[s].told /\ sub'[s].pos = Len(log[sub[s].gen])
<1> DEFINE pc == IF sub[s].why = "subscribe" /\ sub[s].told # <<>> THEN "done" ELSE "tail"
           n == Len(log[sub[s].gen])
           q == [sub[s] EXCEPT !.pc = pc, !.why = "none", !.pos = n]
<1>1. sub[s] \in SubRecord /\ SubTyped
  BY DEF TypeOK, SubTyped
<1>2. sub[s].gen \in Gens
  BY <1>1 DEF Aimed, Attach, SubRecord, Gens
<1>3. sub' = [sub EXCEPT ![s] = q]
  BY <1>1 DEF Attach, SubTyped, SubRecord
<1>4. n \in Nat /\ pc \in {"done", "tail"}
  BY <1>2, LenProperties DEF TypeOK
<1> HIDE DEF n, pc
<1>5. q \in SubRecord
  BY <1>1, <1>4 DEF SubRecord
<1>6. /\ q.pc = pc /\ q.gen = sub[s].gen /\ q.view = sub[s].view
      /\ q.told = sub[s].told /\ q.pos = n
  BY <1>1 DEF SubRecord
<1> HIDE DEF q
<1> QED
  BY <1>1, <1>3, <1>5, <1>6, SubPut DEF n, pc

\* What a receiver still holds.
LEMMA UnreadIs ==
  ASSUME TypeOK, Aimed, NEW s \in Subs, sub[s].pc = "tail"
  PROVE  /\ sub[s].gen \in Gens /\ log[sub[s].gen] \in Seq(Event)
         /\ sub[s].pos \in Nat /\ Len(log[sub[s].gen]) \in Nat
         /\ Unread(s) \in Seq(Event)
         /\ Len(Unread(s)) = IF sub[s].pos < Len(log[sub[s].gen])
                             THEN Len(log[sub[s].gen]) - sub[s].pos ELSE 0
         /\ \A i \in 1..Len(Unread(s)) : Unread(s)[i] = log[sub[s].gen][sub[s].pos + i]
<1>1. sub[s] \in SubRecord
  BY DEF TypeOK
<1>2. sub[s].gen \in Gens /\ sub[s].pos \in Nat
  BY <1>1 DEF Aimed, SubRecord, Gens
<1>3. log[sub[s].gen] \in Seq(Event)
  BY <1>2 DEF TypeOK
<1> DEFINE q == log[sub[s].gen]
           m == sub[s].pos + 1
<1>4. /\ m \in Int /\ Len(q) \in Int /\ Len(q) \in Nat
      /\ \A i \in m..Len(q) : q[i] \in Event
  BY <1>2, <1>3, LenProperties, ElementOfSeq
<1>5. Unread(s) = SubSeq(q, m, Len(q))
  BY DEF Unread
<1> HIDE DEF q, m
<1>6. /\ Unread(s) \in Seq(Event)
      /\ Len(Unread(s)) = IF m <= Len(q) THEN Len(q) - m + 1 ELSE 0
      /\ \A i \in 1..(Len(q) - m + 1) : Unread(s)[i] = q[m + i - 1]
  BY <1>4, <1>5, SubSeqProperties
<1>7. Len(Unread(s)) = IF sub[s].pos < Len(q) THEN Len(q) - sub[s].pos ELSE 0
  BY <1>2, <1>4, <1>6 DEF m
<1>8. \A i \in 1..Len(Unread(s)) : Unread(s)[i] = q[sub[s].pos + i]
  <2> TAKE i \in 1..Len(Unread(s))
  <2>0. Len(q) \in Int /\ sub[s].pos \in Int /\ i \in 1..(Len(q) - sub[s].pos)
    BY <1>2, <1>4, <1>7
  <2>1. i \in 1..(Len(q) - m + 1) /\ m + i - 1 = sub[s].pos + i
    BY <2>0 DEF m
  <2> HIDE DEF m
  <2>2. Unread(s)[i] = q[m + i - 1]
    BY <1>6, <2>1
  <2> QED
    BY <2>1, <2>2
<1> QED
  BY <1>2, <1>3, <1>4, <1>6, <1>7, <1>8 DEF q

LEMMA ForwardEffect ==
  ASSUME TypeOK, Aimed, NEW s \in Subs, Forward(s), NEW e, e = log[sub[s].gen][sub[s].pos + 1]
  PROVE  /\ SubTyped' /\ SubsKept(s) /\ sub[s].pos < Len(log[sub[s].gen]) /\ e \in Event
         /\ sub'[s].pc = "tail" /\ sub'[s].gen = sub[s].gen /\ sub'[s].pos = sub[s].pos + 1
         /\ \/ /\ e.kind = "delta" /\ sub'[s].view = Append(sub[s].view, e.n)
               /\ sub'[s].told = sub[s].told
            \/ /\ e.kind # "delta" /\ sub'[s].view = sub[s].view
               /\ sub'[s].told = Append(sub[s].told, e.kind)
<1>1. sub[s] \in SubRecord /\ SubTyped /\ sub[s].pc = "tail"
  BY DEF TypeOK, SubTyped, Forward
<1>2. Len(Unread(s)) >= 1 /\ Unread(s) # <<>> /\ Len(Unread(s)) \in Nat
  BY <1>1, UnreadIs, LenProperties, BoundsAssumption DEF Forward
<1>3. sub[s].pos < Len(log[sub[s].gen]) /\ Unread(s)[1] = e
  BY <1>1, <1>2, UnreadIs
<1>4. Head(Unread(s)) = e /\ e \in Event
  BY <1>1, <1>2, <1>3, UnreadIs, HeadTailProperties
<1> DEFINE v == IF e.kind = "delta" THEN Append(sub[s].view, e.n) ELSE sub[s].view
           w == IF e.kind = "delta" THEN sub[s].told ELSE Append(sub[s].told, e.kind)
           p == sub[s].pos + 1
           q == [sub[s] EXCEPT !.pos = p, !.view = v, !.told = w]
<1>5. sub' = [sub EXCEPT ![s] = q]
  BY <1>1, <1>4 DEF Forward, SubTyped, SubRecord
<1>6. v \in Seq(Nat) /\ w \in Seq(Statuses) /\ p \in Nat
  BY <1>1, <1>4 DEF SubRecord, Event
<1>7. \/ e.kind = "delta" /\ v = Append(sub[s].view, e.n) /\ w = sub[s].told
      \/ e.kind # "delta" /\ v = sub[s].view /\ w = Append(sub[s].told, e.kind)
  OBVIOUS
<1> HIDE DEF v, w, p
<1>8. q \in SubRecord
  BY <1>1, <1>6 DEF SubRecord
<1>9. /\ q.pc = "tail" /\ q.gen = sub[s].gen /\ q.pos = p
      /\ q.view = v /\ q.told = w
  BY <1>1 DEF SubRecord
<1> HIDE DEF q
<1> QED
  BY <1>1, <1>3, <1>4, <1>5, <1>7, <1>8, <1>9, SubPut DEF p

LEMMA LaggedEffect ==
  ASSUME SubTyped, NEW s \in Subs, Lagged(s)
  PROVE  /\ SubTyped' /\ SubsKept(s) /\ sub[s].pc = "tail"
         /\ sub'[s].pc = "gate" /\ sub'[s].why = "lag" /\ sub'[s].gen = sub[s].gen
         /\ sub'[s].view = sub[s].view /\ sub'[s].told = sub[s].told
<1> DEFINE q == [sub[s] EXCEPT !.pc = "gate", !.why = "lag"]
<1>1. sub[s] \in SubRecord
  BY DEF SubTyped
<1>2. q \in SubRecord
  BY <1>1 DEF SubRecord
<1>3. /\ q.pc = "gate" /\ q.why = "lag" /\ q.gen = sub[s].gen
      /\ q.view = sub[s].view /\ q.told = sub[s].told
  BY <1>1 DEF SubRecord
<1>4. sub' = [sub EXCEPT ![s] = q] /\ sub[s].pc = "tail"
  BY <1>1 DEF SubTyped, SubRecord, Lagged
<1> HIDE DEF q
<1> QED
  BY <1>2, <1>3, <1>4, SubPut

\* The receiver is over after an ending, else it attends again.
LEMMA ClosedEffect ==
  ASSUME SubTyped, NEW s \in Subs, Closed(s)
  PROVE  /\ sub[s].pc = "tail"
         /\ \/ sub[s].told = <<>> /\ Attend(s, "reopen")
            \/ /\ SubTyped' /\ SubsKept(s) /\ UNCHANGED registry
               /\ sub'[s].pc = "done" /\ sub'[s].gen = 0
               /\ sub'[s].view = sub[s].view /\ sub'[s].told = sub[s].told
               /\ sub[s].told # <<>>
<1> DEFINE q == [sub[s] EXCEPT !.pc = "done", !.gen = 0, !.pos = 0]
<1>1. sub[s] \in SubRecord /\ sub[s].pc = "tail"
  BY DEF SubTyped, Closed
<1>2. CASE sub[s].told = <<>>
  BY <1>1, <1>2 DEF Closed, SawTerminal
<1>3. CASE sub[s].told # <<>>
  <2>0. 0 \in 0..MaxGen
    BY Generations
  <2>1. q \in SubRecord
    BY <1>1, <2>0 DEF SubRecord
  <2>2. q.pc = "done" /\ q.gen = 0 /\ q.view = sub[s].view /\ q.told = sub[s].told
    BY <1>1 DEF SubRecord
  <2>3. sub' = [sub EXCEPT ![s] = q] /\ UNCHANGED registry
    BY <1>1, <1>3 DEF SubTyped, SubRecord, Closed, SawTerminal
  <2> HIDE DEF q
  <2> QED
    BY <1>1, <1>3, <2>1, <2>2, <2>3, SubPut
<1> QED
  BY <1>2, <1>3

LEMMA DisconnectEffect ==
  ASSUME SubTyped, NEW s \in Subs, Disconnect(s)
  PROVE  SubTyped' /\ SubsKept(s) /\ sub'[s] = NotSubscribed /\ NotSubscribed \in SubRecord
<1>1. 0 \in 0..MaxGen
  BY Generations
<1>2. <<>> \in Seq(Nat) /\ <<>> \in Seq(Statuses)
  OBVIOUS
<1>3. NotSubscribed \in SubRecord
  BY <1>1, <1>2 DEF NotSubscribed, SubRecord
<1> QED
  BY <1>3, SubPut DEF Disconnect

ActsKept(a) == \A b \in Activators \ {a} : act'[b] = act[b]
ActTyped == act \in [Activators -> ActRecord]

LEMMA ActBeginEffect ==
  ASSUME ActTyped, NEW a \in Activators, NEW kind \in {"resume", "retry"}, ActBegin(a, kind)
  PROVE  ActTyped' /\ ActsKept(a) /\ act'[a].pc = "want" /\ act[a].pc = "idle"
  BY Generations DEF ActTyped, ActsKept, ActRecord, ActBegin

LEMMA ActRegisterEffect ==
  ASSUME TypeOK, NEW a \in Activators, ActRegister(a)
  PROVE  /\ ActTyped' /\ ActsKept(a) /\ act[a].pc = "want" /\ slot = Free
         /\ \/ act'[a].pc = "idle" /\ UNCHANGED registry
            \/ /\ hub = 0 /\ gen + 1 \in Gens /\ gen' = gen + 1 /\ hub' = gen + 1
               /\ slot' = a /\ gate' = [gate EXCEPT ![gen + 1] = a]
               /\ act'[a].pc = "cas" /\ act'[a].gen = gen + 1
<1>1. act[a] \in ActRecord /\ ActTyped /\ gen \in Gens
  BY DEF TypeOK, ActTyped
<1>2. CASE hub # 0 \/ gen = MaxGen
  BY <1>1, <1>2, Generations DEF ActRegister, ActTyped, ActsKept, ActRecord, NoActivation
<1>3. CASE ~(hub # 0 \/ gen = MaxGen)
  <2> DEFINE q == [act[a] EXCEPT !.pc = "cas", !.gen = gen + 1]
  <2>1. gen + 1 \in Gens /\ gen + 1 \in 0..MaxGen
    BY <1>1, <1>3, Generations DEF Gens
  <2>2. q \in ActRecord
    BY <1>1, <2>1 DEF ActRecord
  <2>3. q.pc = "cas" /\ q.gen = gen + 1
    BY <1>1 DEF ActRecord
  <2>4. /\ act' = [act EXCEPT ![a] = q] /\ act[a].pc = "want" /\ slot = Free
        /\ hub = 0 /\ gen' = gen + 1 /\ hub' = gen + 1
        /\ slot' = a /\ gate' = [gate EXCEPT ![gen + 1] = a]
    BY <1>1, <1>3 DEF ActRegister, ActTyped, ActRecord
  <2> HIDE DEF q
  <2> QED
    BY <1>1, <2>1, <2>2, <2>3, <2>4 DEF ActTyped, ActsKept
<1> QED
  BY <1>2, <1>3

\* The flip succeeds and the generation's task starts, or it is deregistered.
LEMMA ActCasEffect ==
  ASSUME TypeOK, Aimed, NEW a \in Activators, ActCas(a), NEW g, g = act[a].gen
  PROVE  /\ g \in Gens /\ ActTyped' /\ ActsKept(a) /\ act'[a].pc = "idle" /\ act[a].pc = "cas"
         /\ \/ /\ status \notin {"running", "cancelled"} /\ status' = "running"
               /\ text' \in {0, text}
               /\ DriverTyped' /\ OthersKept(g)
               /\ driver'[g].pc = "begin" /\ driver'[g].job = "none" /\ driver'[g].try = 0
               /\ UNCHANGED <<hub, faults>>
            \/ hub' = RemovedOwn(g) /\ UNCHANGED <<status, text, driver>>
<1>1. act[a] \in ActRecord /\ ActTyped /\ g \in Gens /\ DriverTyped
  BY DEF TypeOK, ActTyped, Aimed, ActCas, ActRecord, Gens, DriverTyped
<1>2. ActTyped' /\ ActsKept(a) /\ act'[a].pc = "idle" /\ act[a].pc = "cas"
  BY <1>1, Generations DEF ActCas, ActTyped, ActsKept, ActRecord, NoActivation
<1>3. CASE /\ status = From(act[a].kind) /\ status' = "running"
           /\ text' = IF act[a].kind = "retry" THEN 0 ELSE text
           /\ driver' = [driver EXCEPT ![g] = [Gone EXCEPT !.pc = "begin"]]
           /\ UNCHANGED <<hub, faults>>
  <2>1. status \notin {"running", "cancelled"} /\ text' \in {0, text}
    BY <1>3 DEF From
  <2>0. Gone \in DriverRecord /\ Gone.job = "none" /\ Gone.try = 0
    BY DEF Gone, DriverRecord
  <2>2. [Gone EXCEPT !.pc = "begin"] \in DriverRecord
    BY <2>0 DEF DriverRecord
  <2>3. DriverTyped' /\ OthersKept(g) /\ driver'[g] = [Gone EXCEPT !.pc = "begin"]
    BY <1>1, <1>3, <2>2 DEF DriverTyped, OthersKept
  <2>4. driver'[g].pc = "begin" /\ driver'[g].job = "none" /\ driver'[g].try = 0
    BY <2>0, <2>3 DEF DriverRecord
  <2> QED
    BY <1>1, <1>2, <1>3, <2>1, <2>3, <2>4
<1>4. CASE hub' = RemovedOwn(g) /\ UNCHANGED <<durable, driver>>
  BY <1>1, <1>2, <1>4
<1> QED
  BY <1>1, <1>3, <1>4 DEF ActCas
-----------------------------------------------------------------------------
(* Types, and whom everything is aimed at.                                 *)

LEMMA TypedInit == Init => Typed
<1> SUFFICES ASSUME Init PROVE Typed
  OBVIOUS
<1>0. 0 \in 0..MaxGen /\ 1 \in Gens /\ 0 \in 0..1 /\ 1 \in 1..1
  BY Generations
<1>1. /\ Gone \in DriverRecord /\ Gone.pc = "gone" /\ Gone.try = 0
      /\ \A g \in Gens : driver[g] \in DriverRecord /\ driver[g].try = 0
                         /\ driver[g].pc \in {"gone", "begin"} /\ driver[g].job = "none"
  <2>1. Gone \in DriverRecord /\ Gone.pc = "gone" /\ Gone.job = "none" /\ Gone.try = 0
    BY DEF Gone, DriverRecord
  <2>2. \A g \in Gens : driver[g] = Gone \/ driver[g] = [Gone EXCEPT !.pc = "begin"]
    BY DEF Init
  <2> QED
    BY <2>1, <2>2 DEF DriverRecord
<1>2. driver \in [Gens -> DriverRecord]
  BY <1>1 DEF Init
<1>3. stop \in StopRecord /\ stop.pc = "idle"
  BY <1>0 DEF Init, StopRecord, NoRequest
<1>4. NoActivation \in ActRecord /\ NoActivation.pc = "idle"
  BY <1>0 DEF ActRecord, NoActivation
<1>5. <<>> \in Seq(Nat) /\ <<>> \in Seq(Statuses) /\ <<>> \in Seq(Event)
  OBVIOUS
<1>6. NotSubscribed \in SubRecord /\ NotSubscribed.pc = "idle" /\ NotSubscribed.gen = 0
  BY <1>0, <1>5 DEF NotSubscribed, SubRecord
<1>7. TypeOK
  BY <1>0, <1>2, <1>3, <1>4, <1>5, <1>6, BoundsAssumption DEF Init, TypeOK, Holders
<1>8. JobFits
  BY <1>1, BoundsAssumption DEF JobFits, Fits, Init
<1>9. Aimed
  BY <1>0, <1>3, <1>4, <1>6 DEF Aimed, Init
<1> QED
  BY <1>7, <1>8, <1>9 DEF Typed

LEMMA TriesFit ==
  ASSUME TypeOK, JobFits, NEW g \in Gens, faults' = faults \/ faults' = faults + 1
  PROVE  driver[g].try <= faults' /\ driver[g].try \in Nat
<1>1. driver[g] \in DriverRecord /\ faults \in Nat /\ driver[g].try <= faults
  BY BoundsAssumption DEF TypeOK, JobFits, Fits
<1>2. driver[g].try \in 0..2
  BY <1>1 DEF DriverRecord
<1> QED
  BY <1>1, <1>2

LEMMA OthersFit ==
  ASSUME TypeOK, JobFits, NEW g \in Gens, OthersKept(g), Fits(g)',
         faults' = faults \/ faults' = faults + 1
  PROVE  JobFits'
<1>1. ASSUME NEW h \in Gens, h # g PROVE Fits(h)'
  <2>1. driver'[h] = driver[h] /\ Fits(h)
    BY <1>1 DEF OthersKept, JobFits
  <2>2. driver[h].try <= faults'
    BY <1>1, TriesFit
  <2> QED
    BY <2>1, <2>2 DEF Fits
<1> QED
  BY <1>1 DEF JobFits

LEMMA TypedStep == Typed /\ TextFits /\ [Next]_vars => Typed'
<1> SUFFICES ASSUME TypeOK, JobFits, Aimed, TextFits, [Next]_vars PROVE Typed'
  BY DEF Typed
<1>0. DriverTyped /\ ActTyped /\ SubTyped
  BY DEF TypeOK, DriverTyped, ActTyped, SubTyped
<1>a. \A g \in Gens : Fits(g) /\ driver[g].try \in 0..2
  BY DEF JobFits, TypeOK, DriverRecord
<1>c. faults \in Nat /\ 0 <= faults /\ 0 \in 0..MaxText
  BY BoundsAssumption DEF TypeOK
<1>1. ASSUME NEW g \in Gens, Begin(g) PROVE Typed'
  <2>1. TypeOK'
    BY <1>0, <1>1, BeginEffect DEF TypeOK, DriverTyped, Begin
  <2>2. Fits(g)' /\ OthersKept(g) /\ faults' = faults
    BY <1>0, <1>a, <1>1, BeginEffect DEF Fits, Begin
  <2>3. Aimed'
    BY <1>1 DEF Aimed, Begin
  <2> QED
    BY <2>1, <2>2, <2>3, OthersFit DEF Typed
<1>2. ASSUME NEW g \in Gens, SeeCancel(g) PROVE Typed'
  <2>1. TypeOK'
    BY <1>0, <1>2, LeaveEffect DEF TypeOK, DriverTyped, SeeCancel
  <2>2. Fits(g)' /\ OthersKept(g) /\ faults' = faults
    BY <1>0, <1>a, <1>2, LeaveEffect DEF Fits, SeeCancel
  <2>3. Aimed'
    BY <1>2 DEF Aimed, SeeCancel
  <2> QED
    BY <2>1, <2>2, <2>3, OthersFit DEF Typed
<1>3. ASSUME NEW g \in Gens, Receive(g) PROVE Typed'
  <2>1. TypeOK'
    BY <1>0, <1>3, ReceiveEffect DEF TypeOK, DriverTyped, Receive
  <2>2. Fits(g)' /\ OthersKept(g) /\ faults' = faults
    BY <1>0, <1>a, <1>3, ReceiveEffect DEF Fits, Receive
  <2>3. Aimed'
    BY <1>3 DEF Aimed, Receive
  <2> QED
    BY <2>1, <2>2, <2>3, OthersFit DEF Typed
<1>4. ASSUME NEW g \in Gens, WriteDelta(g) PROVE Typed'
  <2>1. text' \in 0..MaxText /\ gate' \in [Gens -> Holders]
    <3>1. CASE Streaming /\ text' = text + 1 /\ gate' = [gate EXCEPT ![g] = g]
      <4>1. text < MaxText
        BY <1>0, <1>4, <3>1, WriteDeltaEffect DEF TextFits
      <4> QED
        BY <3>1, <4>1, BoundsAssumption DEF TypeOK, Holders
    <3>2. CASE UNCHANGED <<text, gate>>
      BY <3>2 DEF TypeOK
    <3> QED
      BY <1>0, <1>4, <3>1, <3>2, WriteDeltaEffect
  <2>2. TypeOK'
    BY <1>0, <1>4, <2>1, WriteDeltaEffect DEF TypeOK, DriverTyped, WriteDelta
  <2>3. Fits(g)' /\ OthersKept(g) /\ faults' = faults
    BY <1>0, <1>a, <1>4, WriteDeltaEffect DEF Fits, WriteDelta
  <2>4. Aimed'
    BY <1>4 DEF Aimed, WriteDelta
  <2> QED
    BY <2>2, <2>3, <2>4, OthersFit DEF Typed
<1>5. ASSUME NEW g \in Gens, PublishDelta(g) PROVE Typed'
  <2>1. log' \in [Gens -> Seq(Event)] /\ gate' \in [Gens -> Holders]
    <3>1. Delta(text) \in Event /\ log[g] \in Seq(Event)
      BY BoundsAssumption DEF Delta, Event, TypeOK
    <3> QED
      BY <1>5, <3>1 DEF PublishDelta, TypeOK, Holders
  <2>2. TypeOK'
    BY <1>0, <1>5, <2>1, GoToEffect DEF TypeOK, DriverTyped, PublishDelta
  <2>3. Fits(g)' /\ OthersKept(g) /\ faults' = faults
    BY <1>0, <1>a, <1>5, GoToEffect DEF Fits, PublishDelta
  <2>4. Aimed'
    BY <1>5 DEF Aimed, PublishDelta
  <2> QED
    BY <2>2, <2>3, <2>4, OthersFit DEF Typed
<1>6. ASSUME NEW g \in Gens, Lock(g) PROVE Typed'
  <2>1. TypeOK'
    BY <1>0, <1>6, LockEffect DEF TypeOK, DriverTyped, Lock, Holders
  <2>2. Fits(g)' /\ OthersKept(g) /\ faults' = faults
    BY <1>0, <1>a, <1>6, LockEffect DEF Fits, Lock
  <2>3. Aimed'
    BY <1>6 DEF Aimed, Lock
  <2> QED
    BY <2>1, <2>2, <2>3, OthersFit DEF Typed
<1>7. ASSUME NEW g \in Gens, Park(g) PROVE Typed'
  <2>1. /\ status' \in Statuses /\ hub' \in 0..gen /\ faults' \in 0..MaxFaults
        /\ slot' \in Holders /\ gate' \in [Gens -> Holders]
        /\ faults' = faults \/ faults' = faults + 1
    BY <1>0, <1>7, ParkEffect, Generations, BoundsAssumption
       DEF TypeOK, RemovedOwn, Holders, Gens
  <2>2. TypeOK'
    BY <1>0, <1>7, <2>1, ParkEffect DEF TypeOK, DriverTyped, Park
  <2>3. Fits(g)' /\ OthersKept(g)
    BY <1>0, <1>a, <1>7, <2>1, ParkEffect, TriesFit DEF Fits
  <2>4. Aimed'
    BY <1>7 DEF Aimed, Park
  <2> QED
    BY <2>1, <2>2, <2>3, <2>4, OthersFit DEF Typed
<1>8. ASSUME NEW g \in Gens, Persist(g) PROVE Typed'
  <2>1. TypeOK'
    BY <1>0, <1>8, PersistEffect DEF TypeOK, DriverTyped, Persist, Target
  <2>2. Fits(g)' /\ OthersKept(g) /\ faults' = faults
    BY <1>0, <1>a, <1>8, PersistEffect DEF Fits, Persist
  <2>3. Aimed'
    BY <1>8 DEF Aimed, Persist
  <2> QED
    BY <2>1, <2>2, <2>3, OthersFit DEF Typed
<1>9. ASSUME NEW g \in Gens, PersistFails(g) PROVE Typed'
  <2>1. /\ slot' \in Holders /\ gate' \in [Gens -> Holders] /\ faults' = faults + 1
        /\ phase' \in {"serving", "doomed", "down"} /\ faults' \in 0..MaxFaults
    BY <1>0, <1>9, PersistFailsEffect, BoundsAssumption DEF TypeOK, Holders, PersistFails
  <2>2. TypeOK'
    BY <1>0, <1>9, <2>1, PersistFailsEffect DEF TypeOK, DriverTyped, PersistFails
  <2>3. Fits(g)' /\ OthersKept(g)
    <3>1. driver'[g].try <= faults'
      <4>1. driver[g].try <= faults /\ driver[g].try \in Nat /\ faults \in Nat
        BY <1>a, <1>c DEF Fits
      <4> QED
        BY <1>0, <1>9, <2>1, <4>1, PersistFailsEffect
    <3>2. driver[g].pc = "settle"
      BY <1>9 DEF PersistFails
    <3> QED
      BY <1>0, <1>a, <1>9, <3>1, <3>2, PersistFailsEffect DEF Fits
  <2>4. Aimed'
    BY <1>9 DEF Aimed, PersistFails
  <2> QED
    BY <2>1, <2>2, <2>3, <2>4, OthersFit DEF Typed
<1>10. ASSUME NEW g \in Gens, Announce(g) PROVE Typed'
  <2>1. log' \in [Gens -> Seq(Event)]
    <3>1. Ending(Announced(g)) \in Event /\ log[g] \in Seq(Event)
      BY DEF Ending, Announced, Event, TypeOK
    <3> QED
      BY <1>10, <3>1 DEF Announce, TypeOK
  <2>2. hub' \in 0..gen /\ slot' \in Holders /\ gate' \in [Gens -> Holders]
    BY <1>10, Generations DEF Announce, TypeOK, RemovedOwn, Holders, Gens
  <2>3. TypeOK'
    BY <1>0, <1>10, <2>1, <2>2, GoneEffect DEF TypeOK, DriverTyped, Announce
  <2>4. Fits(g)' /\ OthersKept(g) /\ faults' = faults
    BY <1>0, <1>c, <1>10, GoneEffect DEF Fits, Announce
  <2>5. Aimed'
    BY <1>10 DEF Aimed, Announce
  <2> QED
    BY <2>3, <2>4, <2>5, OthersFit DEF Typed
<1>11. ASSUME NEW g \in Gens, Retire(g) PROVE Typed'
  <2>1. hub' \in 0..gen /\ slot' \in Holders /\ gate' \in [Gens -> Holders]
    BY <1>11, Generations DEF Retire, TypeOK, RemovedOwn, Holders, Gens
  <2>2. TypeOK'
    BY <1>0, <1>11, <2>1, GoneEffect DEF TypeOK, DriverTyped, Retire
  <2>3. Fits(g)' /\ OthersKept(g) /\ faults' = faults
    BY <1>0, <1>c, <1>11, GoneEffect DEF Fits, Retire
  <2>4. Aimed'
    BY <1>11 DEF Aimed, Retire
  <2> QED
    BY <2>2, <2>3, <2>4, OthersFit DEF Typed
<1>b. ASSUME UNCHANGED <<driver, faults>> PROVE JobFits'
  BY <1>b DEF JobFits, Fits
<1>12. CASE StopBegin
  <2>1. /\ status' \in Statuses /\ slot' \in Holders /\ stop' \in StopRecord
        /\ stop'.pc # "idle" => stop'.gen \in 1..gen
    <3>1. CASE stop' = stop
      BY <1>12, <3>1 DEF StopBegin, TypeOK, Aimed, Holders
    <3>2. CASE hub # 0 /\ slot' = Canceller /\ stop' = [pc |-> "gate", gen |-> hub]
      <4>1. hub \in 1..gen /\ hub \in 0..MaxGen
        BY <3>2, Generations DEF TypeOK, Gens
      <4> QED
        BY <1>12, <3>2, <4>1 DEF StopBegin, TypeOK, StopRecord, Holders
    <3> QED
      BY <1>12, <3>1, <3>2 DEF StopBegin
  <2>2. TypeOK' /\ Aimed'
    BY <1>12, <2>1 DEF TypeOK, StopBegin, Aimed
  <2> QED
    BY <1>b, <1>12, <2>2 DEF Typed, StopBegin
<1>13. CASE StopCommit
  <2>1. stop.gen \in Gens /\ stop \in StopRecord
    BY <1>13, Generations DEF StopCommit, Aimed, TypeOK, Gens
  <2>2. /\ status' \in Statuses /\ flag' \in [Gens -> BOOLEAN] /\ slot' \in Holders
        /\ gate' \in [Gens -> Holders]
    BY <1>13, <2>1 DEF StopCommit, TypeOK, Holders
  <2>3. stop' \in StopRecord /\ (stop'.pc # "idle" => stop'.gen \in 1..gen)
    <3>1. CASE stop' = [stop EXCEPT !.pc = "publish"]
      BY <1>13, <2>1, <3>1 DEF StopRecord, Aimed, StopCommit
    <3>2. CASE stop' = NoRequest
      BY <3>2, Generations DEF NoRequest, StopRecord
    <3> QED
      BY <1>13, <3>1, <3>2 DEF StopCommit
  <2>4. TypeOK' /\ Aimed'
    BY <1>13, <2>2, <2>3 DEF TypeOK, StopCommit, Aimed
  <2> QED
    BY <1>b, <1>13, <2>4 DEF Typed, StopCommit
<1>14. CASE StopPublish
  <2>1. stop.gen \in Gens
    BY <1>14, Generations DEF StopPublish, Aimed, TypeOK, Gens
  <2>2. log' \in [Gens -> Seq(Event)]
    <3>1. Ending("cancelled") \in Event /\ log[stop.gen] \in Seq(Event)
      BY <2>1 DEF Ending, Event, TypeOK
    <3> QED
      BY <1>14, <2>1, <3>1 DEF StopPublish, TypeOK
  <2>3. /\ hub' \in 0..gen /\ slot' \in Holders /\ gate' \in [Gens -> Holders]
        /\ stop' \in StopRecord /\ stop'.pc = "idle"
    BY <1>14, <2>1, Generations
       DEF StopPublish, TypeOK, RemovedOwn, Holders, Gens, NoRequest, StopRecord
  <2>4. TypeOK' /\ Aimed'
    BY <1>14, <2>2, <2>3 DEF TypeOK, StopPublish, Aimed
  <2> QED
    BY <1>b, <1>14, <2>4 DEF Typed, StopPublish
<1>15. ASSUME NEW a \in Activators, NEW kind \in {"resume", "retry"}, ActBegin(a, kind)
       PROVE Typed'
  <2>1. ActTyped' /\ ActsKept(a) /\ act'[a].pc = "want"
    BY <1>0, <1>15, ActBeginEffect
  <2>2. TypeOK'
    BY <1>15, <2>1 DEF TypeOK, ActTyped, ActBegin
  <2>3. Aimed'
    BY <1>15, <2>1 DEF Aimed, ActsKept, ActBegin
  <2> QED
    BY <1>b, <1>15, <2>2, <2>3 DEF Typed, ActBegin
<1>16. ASSUME NEW a \in Activators, ActRegister(a) PROVE Typed'
  <2>1. CASE act'[a].pc = "idle" /\ UNCHANGED registry
    <3>1. TypeOK'
      BY <1>16, <2>1, ActRegisterEffect DEF TypeOK, ActTyped, ActRegister
    <3>2. Aimed'
      BY <1>16, <2>1, ActRegisterEffect DEF Aimed, ActsKept, ActRegister
    <3> QED
      BY <1>b, <1>16, <3>1, <3>2 DEF Typed, ActRegister
  <2>2. CASE /\ gen + 1 \in Gens /\ gen' = gen + 1 /\ hub' = gen + 1 /\ slot' = a
             /\ gate' = [gate EXCEPT ![gen + 1] = a]
             /\ act'[a].pc = "cas" /\ act'[a].gen = gen + 1
    <3>1. /\ gen' \in Gens /\ hub' \in 0..gen' /\ slot' \in Holders
          /\ gate' \in [Gens -> Holders]
      BY <2>2, Generations DEF TypeOK, Holders, Gens
    <3>2. TypeOK'
      BY <1>16, <3>1, ActRegisterEffect DEF TypeOK, ActTyped, ActRegister
    <3>3. gen \in Nat
      BY Generations DEF TypeOK
    <3>4. \A b \in Activators : act'[b].pc = "cas" => act'[b].gen \in 1..gen'
      <4>1. TAKE b \in Activators
      <4>2. CASE b = a
        BY <2>2, <3>3, <4>2
      <4>3. CASE b # a
        BY <1>16, <2>2, <3>3, <4>3, ActRegisterEffect DEF ActsKept, Aimed
      <4> QED
        BY <4>2, <4>3
    <3>5. \A s \in Subs : sub[s].gen <= gen'
      <4>1. TAKE s \in Subs
      <4>2. sub[s].gen \in Nat
        BY DEF TypeOK, SubRecord
      <4> QED
        BY <2>2, <3>3, <4>2 DEF Aimed
    <3>6. Aimed'
      BY <1>16, <2>2, <3>3, <3>4, <3>5 DEF Aimed, ActRegister
    <3> QED
      BY <1>b, <1>16, <3>2, <3>6 DEF Typed, ActRegister
  <2> QED
    BY <1>16, <2>1, <2>2, ActRegisterEffect
<1>17. ASSUME NEW a \in Activators, ActCas(a) PROVE Typed'
  <2>1. PICK g \in Gens : g = act[a].gen
    BY <1>17, ActCasEffect
  <2>2. slot' \in Holders /\ gate' \in [Gens -> Holders] /\ faults' \in 0..MaxFaults
        /\ (faults' = faults \/ faults' = faults + 1)
    BY <1>17, <2>1, BoundsAssumption DEF ActCas, TypeOK, Holders
  <2>3. hub' \in 0..gen /\ status' \in Statuses /\ text' \in 0..MaxText /\ DriverTyped'
    <3>1. CASE /\ status' = "running" /\ text' \in {0, text} /\ DriverTyped' /\ hub' = hub
      BY <1>c, <3>1 DEF TypeOK
    <3>2. CASE hub' = RemovedOwn(g) /\ UNCHANGED <<status, text, driver>>
      BY <1>0, <3>2, Generations DEF TypeOK, RemovedOwn, DriverTyped, Gens
    <3> QED
      BY <1>17, <2>1, <3>1, <3>2, ActCasEffect
  <2>4. ActTyped' /\ ActsKept(a) /\ act'[a].pc = "idle"
    BY <1>17, <2>1, ActCasEffect
  <2>5. TypeOK'
    BY <1>17, <2>2, <2>3, <2>4 DEF TypeOK, ActTyped, DriverTyped, ActCas
  <2>6. Aimed'
    BY <1>17, <2>4 DEF Aimed, ActsKept, ActCas
  <2>7. OthersKept(g) /\ Fits(g)'
    <3>1. CASE driver' = driver
      <4>1. driver[g].try <= faults'
        BY <2>1, <2>2, TriesFit
      <4> QED
        BY <1>a, <2>1, <3>1, <4>1 DEF Fits, OthersKept
    <3>2. CASE /\ OthersKept(g) /\ faults' = faults
               /\ driver'[g].pc = "begin" /\ driver'[g].job = "none" /\ driver'[g].try = 0
      BY <1>c, <3>2 DEF Fits
    <3> QED
      BY <1>17, <2>1, <3>1, <3>2, ActCasEffect
  <2>8. JobFits'
    BY <2>1, <2>2, <2>7, OthersFit
  <2> QED
    BY <2>5, <2>6, <2>8 DEF Typed
<1>d. ASSUME NEW s \in Subs, SubTyped', SubsKept(s), UNCHANGED gen, stop' = stop, act' = act,
             sub'[s].gen = sub[s].gen \/ sub'[s].gen = hub \/ sub'[s].gen = 0,
             sub'[s].pc \in {"gate", "attach", "tail"} => sub'[s].gen # 0
      PROVE  Aimed'
  <2>1. sub[s].gen <= gen /\ hub <= gen /\ 0 <= gen
    BY Generations DEF Aimed, TypeOK, Gens
  <2> QED
    BY <1>d, <2>1 DEF Aimed, SubsKept
<1>e. ASSUME NEW s \in Subs, NEW why \in {"subscribe", "reopen"}, Attend(s, why) PROVE Typed'
  <2>1. Aimed'
    BY <1>d, <1>e, AttendEffect DEF Attend
  <2>2. TypeOK'
    BY <1>e, AttendEffect DEF TypeOK, SubTyped, Attend, Holders
  <2> QED
    BY <1>b, <1>e, <2>1, <2>2 DEF Typed, Attend
<1>18. ASSUME NEW s \in Subs, Subscribe(s) PROVE Typed'
  BY <1>e, <1>18 DEF Subscribe
<1>19. ASSUME NEW s \in Subs, Read(s) PROVE Typed'
  <2>1. Aimed'
    <3>1. sub[s].gen # 0
      BY <1>19 DEF Aimed, Read
    <3> QED
      BY <1>d, <1>19, <3>1, ReadEffect DEF Read
  <2>2. TypeOK'
    BY <1>19, ReadEffect DEF TypeOK, SubTyped, Read, Holders
  <2> QED
    BY <1>b, <1>19, <2>1, <2>2 DEF Typed, Read
<1>20. ASSUME NEW s \in Subs, Attach(s) PROVE Typed'
  <2>1. Aimed'
    <3>1. sub[s].gen # 0
      BY <1>20 DEF Aimed, Attach
    <3> QED
      BY <1>d, <1>20, <3>1, AttachEffect DEF Attach
  <2>2. slot' \in Holders /\ gate' \in [Gens -> Holders]
    BY <1>20 DEF TypeOK, Attach, Holders
  <2>3. TypeOK'
    BY <1>20, <2>2, AttachEffect DEF TypeOK, SubTyped, Attach
  <2> QED
    BY <1>b, <1>20, <2>1, <2>3 DEF Typed, Attach
<1>21. ASSUME NEW s \in Subs, Forward(s) PROVE Typed'
  <2>1. SubTyped' /\ SubsKept(s) /\ sub'[s].pc = "tail" /\ sub'[s].gen = sub[s].gen
    BY <1>21, ForwardEffect
  <2>2. Aimed'
    <3>1. sub[s].gen # 0
      BY <1>21 DEF Aimed, Forward
    <3> QED
      BY <1>d, <1>21, <2>1, <3>1 DEF Forward
  <2>3. TypeOK'
    BY <1>21, <2>1 DEF TypeOK, SubTyped, Forward
  <2> QED
    BY <1>b, <1>21, <2>2, <2>3 DEF Typed, Forward
<1>22. ASSUME NEW s \in Subs, Lagged(s) PROVE Typed'
  <2>1. SubTyped' /\ SubsKept(s) /\ sub'[s].gen = sub[s].gen /\ sub[s].pc = "tail"
    BY <1>0, <1>22, LaggedEffect
  <2>2. Aimed'
    BY <1>d, <1>22, <2>1 DEF Lagged, Aimed
  <2>3. TypeOK'
    BY <1>22, <2>1 DEF TypeOK, SubTyped, Lagged
  <2> QED
    BY <1>b, <1>22, <2>2, <2>3 DEF Typed, Lagged
<1>23. ASSUME NEW s \in Subs, Closed(s) PROVE Typed'
  <2>1. CASE Attend(s, "reopen")
    BY <1>e, <2>1
  <2>2. CASE /\ SubTyped' /\ SubsKept(s) /\ UNCHANGED registry
             /\ sub'[s].pc = "done" /\ sub'[s].gen = 0 /\ sub[s].told # <<>>
    <3>1. UNCHANGED <<durable, channel, driver, stop, act, phase, bounds>>
      BY <1>23, <2>2 DEF Closed, SawTerminal
    <3>2. Aimed'
      BY <1>d, <2>2, <3>1
    <3>3. TypeOK'
      BY <2>2, <3>1 DEF TypeOK, SubTyped
    <3> QED
      BY <1>b, <3>1, <3>2, <3>3 DEF Typed
  <2> QED
    BY <1>0, <1>23, <2>1, <2>2, ClosedEffect
<1>24. ASSUME NEW s \in Subs, Disconnect(s) PROVE Typed'
  <2>1. SubTyped' /\ SubsKept(s) /\ sub'[s].gen = 0 /\ sub'[s].pc = "idle"
    BY <1>0, <1>24, DisconnectEffect DEF NotSubscribed
  <2>2. Aimed'
    BY <1>d, <1>24, <2>1 DEF Disconnect
  <2>3. TypeOK'
    BY <1>24, <2>1 DEF TypeOK, SubTyped, Disconnect
  <2> QED
    BY <1>b, <1>24, <2>2, <2>3 DEF Typed, Disconnect
<1>f. ASSUME Down, crashes' \in 0..MaxCrashes PROVE Typed'
  <2>0. 0 \in 0..MaxGen
    BY Generations
  <2>1. /\ Gone \in DriverRecord /\ Gone.pc = "gone" /\ Gone.try = 0
        /\ NoRequest \in StopRecord /\ NoRequest.pc = "idle"
    BY <2>0 DEF Gone, DriverRecord, NoRequest, StopRecord
  <2>2. <<>> \in Seq(Nat) /\ <<>> \in Seq(Statuses) /\ <<>> \in Seq(Event)
    OBVIOUS
  <2>3. /\ NoActivation \in ActRecord /\ NoActivation.pc = "idle"
        /\ NotSubscribed \in SubRecord /\ NotSubscribed.pc = "idle" /\ NotSubscribed.gen = 0
    BY <2>0, <2>2 DEF NoActivation, ActRecord, NotSubscribed, SubRecord
  <2>4. driver' \in [Gens -> DriverRecord] /\ stop' \in StopRecord
    BY <1>f, <2>1 DEF Down
  <2>5. act' \in [Activators -> ActRecord] /\ sub' \in [Subs -> SubRecord]
    BY <1>f, <2>3 DEF Down
  <2>6. /\ log' \in [Gens -> Seq(Event)] /\ flag' \in [Gens -> BOOLEAN]
        /\ slot' \in Holders /\ gate' \in [Gens -> Holders]
    BY <1>f, <2>2 DEF Down, Holders
  <2>7. hub' \in 0..gen' /\ gen' \in Gens
    BY <1>f, Generations DEF Down, TypeOK, Gens
  <2>8. TypeOK'
    BY <1>f, <2>4, <2>5, <2>6, <2>7 DEF TypeOK, Down
  <2>9. JobFits'
    BY <1>c, <1>f, <2>1 DEF JobFits, Fits, Down
  <2>10. 0 <= gen
    BY Generations DEF TypeOK, Gens
  <2>11. Aimed'
    BY <1>f, <2>1, <2>3, <2>10 DEF Aimed, Down
  <2> QED
    BY <2>8, <2>9, <2>11 DEF Typed
<1>25. CASE Crash
  BY <1>f, <1>25, BoundsAssumption DEF Crash, TypeOK
<1>26. CASE Shutdown
  BY <1>f, <1>26 DEF Shutdown, TypeOK
<1>27. CASE Boot
  <2>1. TypeOK' /\ Aimed'
    BY <1>27 DEF TypeOK, Aimed, Boot
  <2> QED
    BY <1>b, <1>27, <2>1 DEF Typed, Boot
<1>28. CASE UNCHANGED vars
  <2>1. TypeOK' /\ Aimed' /\ UNCHANGED <<driver, faults>>
    BY <1>28 DEF TypeOK, Aimed, vars
  <2> QED
    BY <1>b, <2>1 DEF Typed
<1> QED
  BY <1>1, <1>2, <1>3, <1>4, <1>5, <1>6, <1>7, <1>8, <1>9, <1>10, <1>11, <1>12, <1>13, <1>14,
     <1>15, <1>16, <1>17, <1>18, <1>19, <1>20, <1>21, <1>22, <1>23, <1>24, <1>25, <1>26, <1>27,
     <1>28 DEF Next, DriverStep, StopStep, ActStep, SubStep
-----------------------------------------------------------------------------
(* Who holds which lock.                                                   *)

LEMMA LocksInit == Init => Locks
<1> SUFFICES ASSUME Init PROVE Locks
  OBVIOUS
<1>1. \A g \in Gens : driver[g].pc \in {"gone", "begin"}
  BY DEF Init, Gone
<1>2. stop.pc = "idle" /\ slot = Free /\ \A g \in Gens : gate[g] = Free
  BY DEF Init, NoRequest
<1>3. /\ \A a \in Activators : act[a].pc = "idle"
      /\ \A s \in Subs : sub[s].pc = "idle"
  BY DEF Init, NoActivation, NotSubscribed
<1> QED
  BY <1>1, <1>2, <1>3, ActorsAssumption
     DEF Locks, SlotOwned, GateOwned, HoldsSlot, HoldsGate

\* The task of g takes, keeps or gives back the slot and its own gate.
LEMMA DriverLocks ==
  ASSUME TypeOK, Locks, NEW g \in Gens, OthersKept(g), UNCHANGED <<stop, act, sub>>,
         slot' = IF HoldsSlot(g)' THEN g ELSE IF HoldsSlot(g) THEN Free ELSE slot,
         HoldsSlot(g)' => HoldsSlot(g) \/ slot = Free,
         gate' = [gate EXCEPT ![g] = IF HoldsGate(g)' THEN g
                                     ELSE IF HoldsGate(g) THEN Free ELSE gate[g]],
         HoldsGate(g)' => HoldsGate(g) \/ gate[g] = Free
  PROVE  Locks'
<1>1. \A h \in Gens \ {g} : (HoldsSlot(h)' <=> HoldsSlot(h)) /\ (HoldsGate(h)' <=> HoldsGate(h))
  BY DEF OthersKept, HoldsSlot, HoldsGate
<1>2. SlotOwned'
  BY <1>1, ActorsAssumption DEF Locks, SlotOwned
<1>3. gate \in [Gens -> Holders]
  BY DEF TypeOK
<1>4. GateOwned'
  <2>1. ASSUME NEW f \in Gens, NEW h \in Gens PROVE gate'[h] = f <=> h = f /\ HoldsGate(f)'
    BY <1>1, <1>3, <2>1, ActorsAssumption DEF Locks, GateOwned
  <2>2. ASSUME NEW h \in Gens PROVE gate'[h] = Canceller <=> stop.pc = "publish" /\ stop.gen = h
    BY <1>3, <2>2, ActorsAssumption DEF Locks, GateOwned
  <2>3. ASSUME NEW a \in Activators, NEW h \in Gens
        PROVE  gate'[h] = a <=> act[a].pc = "cas" /\ act[a].gen = h
    BY <1>3, <2>3, ActorsAssumption DEF Locks, GateOwned
  <2>4. ASSUME NEW s \in Subs, NEW h \in Gens
        PROVE  gate'[h] = s <=> sub[s].pc = "attach" /\ sub[s].gen = h
    BY <1>3, <2>4, ActorsAssumption DEF Locks, GateOwned
  <2> QED
    BY <2>1, <2>2, <2>3, <2>4 DEF GateOwned
<1> QED
  BY <1>2, <1>4 DEF Locks

\* Whether a subscription holds the slot, or the gate of h.
SubHoldsSlot(s) == sub[s].pc \in {"gate", "attach"} /\ sub[s].why # "lag"
SubHoldsGate(s, h) == sub[s].pc = "attach" /\ sub[s].gen = h

LEMMA SubLocks ==
  ASSUME TypeOK, Locks, NEW s \in Subs, SubsKept(s), UNCHANGED <<stop, act, driver>>,
         slot' = IF SubHoldsSlot(s)' THEN s ELSE IF SubHoldsSlot(s) THEN Free ELSE slot,
         SubHoldsSlot(s)' => SubHoldsSlot(s) \/ slot = Free,
         gate' \in [Gens -> Holders],
         \A h \in Gens : gate'[h] = IF SubHoldsGate(s, h)' THEN s
                                    ELSE IF SubHoldsGate(s, h) THEN Free ELSE gate[h],
         \A h \in Gens : SubHoldsGate(s, h)' => SubHoldsGate(s, h) \/ gate[h] = Free
  PROVE  Locks'
<1>1. SlotOwned'
  BY ActorsAssumption DEF Locks, SlotOwned, SubsKept, SubHoldsSlot, HoldsSlot
<1>2. GateOwned'
  <2>1. ASSUME NEW f \in Gens, NEW h \in Gens PROVE gate'[h] = f <=> h = f /\ HoldsGate(f)
    BY <2>1, ActorsAssumption DEF Locks, GateOwned, SubHoldsGate
  <2>2. ASSUME NEW h \in Gens PROVE gate'[h] = Canceller <=> stop.pc = "publish" /\ stop.gen = h
    BY <2>2, ActorsAssumption DEF Locks, GateOwned, SubHoldsGate
  <2>3. ASSUME NEW a \in Activators, NEW h \in Gens
        PROVE  gate'[h] = a <=> act[a].pc = "cas" /\ act[a].gen = h
    BY <2>3, ActorsAssumption DEF Locks, GateOwned, SubHoldsGate
  <2>4. ASSUME NEW t \in Subs, NEW h \in Gens PROVE gate'[h] = t <=> SubHoldsGate(t, h)'
    BY <2>4, ActorsAssumption DEF Locks, GateOwned, SubHoldsGate, SubsKept
  <2> QED
    BY <2>1, <2>2, <2>3, <2>4 DEF GateOwned, SubHoldsGate, HoldsGate
<1> QED
  BY <1>1, <1>2 DEF Locks

LEMMA LocksStep == Typed /\ Locks /\ Fresh /\ [Next]_vars => Locks'
<1> SUFFICES ASSUME TypeOK, JobFits, Aimed, Locks, Fresh, [Next]_vars PROVE Locks'
  BY DEF Typed
<1>0. DriverTyped /\ ActTyped /\ SubTyped /\ gate \in [Gens -> Holders]
  BY DEF TypeOK, DriverTyped, ActTyped, SubTyped
<1>a. ASSUME NEW g \in Gens, OthersKept(g), UNCHANGED <<stop, act, sub, slot, gate>>,
             HoldsSlot(g)' <=> HoldsSlot(g), HoldsGate(g)' <=> HoldsGate(g)
      PROVE  Locks'
  BY <1>0, <1>a, DriverLocks DEF Locks, SlotOwned, GateOwned
<1>b. ASSUME NEW g \in Gens, OthersKept(g), UNCHANGED <<stop, act, sub>>, Release(g),
             driver[g].pc \in {"park", "settle", "announce", "retire"},
             driver'[g].pc \in {"lock", "gone"}
      PROVE  Locks'
  <2>1. HoldsSlot(g) /\ HoldsGate(g) /\ ~HoldsSlot(g)' /\ ~HoldsGate(g)'
    BY <1>b DEF HoldsSlot, HoldsGate
  <2> QED
    BY <1>b, <2>1, DriverLocks
<1>c. ASSUME UNCHANGED <<slot, gate, driver, stop, act, sub>> PROVE Locks'
  BY <1>c DEF Locks, SlotOwned, GateOwned, HoldsSlot, HoldsGate
<1>1. ASSUME NEW g \in Gens, Begin(g) PROVE Locks'
  <2>1. OthersKept(g) /\ driver'[g].pc \in {"loop", "lock"} /\ driver[g].pc = "begin"
    BY <1>0, <1>1, BeginEffect DEF Begin
  <2> QED
    BY <1>a, <1>1, <2>1 DEF Begin, HoldsSlot, HoldsGate
<1>2. ASSUME NEW g \in Gens, SeeCancel(g) PROVE Locks'
  <2>1. OthersKept(g) /\ driver'[g].pc = "lock" /\ driver[g].pc = "loop"
    BY <1>0, <1>2, LeaveEffect DEF SeeCancel
  <2> QED
    BY <1>a, <1>2, <2>1 DEF SeeCancel, HoldsSlot, HoldsGate
<1>3. ASSUME NEW g \in Gens, Receive(g) PROVE Locks'
  <2>1. OthersKept(g) /\ driver'[g].pc \in {"delta", "loop", "lock"} /\ driver[g].pc = "loop"
    BY <1>0, <1>3, ReceiveEffect DEF Receive
  <2> QED
    BY <1>a, <1>3, <2>1 DEF Receive, HoldsSlot, HoldsGate
<1>4. ASSUME NEW g \in Gens, WriteDelta(g) PROVE Locks'
  <2>1. OthersKept(g) /\ driver[g].pc = "delta" /\ gate[g] = Free
    BY <1>0, <1>4, WriteDeltaEffect
  <2>2. CASE driver'[g].pc = "loop" /\ UNCHANGED gate
    BY <1>a, <1>4, <2>1, <2>2 DEF WriteDelta, HoldsSlot, HoldsGate
  <2>3. CASE driver'[g].pc = "publish" /\ gate' = [gate EXCEPT ![g] = g]
    BY <1>4, <2>1, <2>3, DriverLocks DEF WriteDelta, HoldsSlot, HoldsGate
  <2> QED
    BY <1>0, <1>4, <2>2, <2>3, WriteDeltaEffect
<1>5. ASSUME NEW g \in Gens, PublishDelta(g) PROVE Locks'
  <2>1. OthersKept(g) /\ driver[g].pc = "publish" /\ driver'[g].pc = "loop"
    BY <1>0, <1>5, GoToEffect DEF PublishDelta
  <2> QED
    BY <1>5, <2>1, DriverLocks DEF PublishDelta, HoldsSlot, HoldsGate
<1>6. ASSUME NEW g \in Gens, Lock(g) PROVE Locks'
  <2>1. OthersKept(g) /\ driver[g].job \in {"park", "settle", "retire"}
    BY <1>0, <1>6, LockEffect
  <2>2. CASE /\ driver[g].pc = "lock" /\ slot = Free /\ driver'[g].pc = "gate"
             /\ slot' = g /\ UNCHANGED gate
    <3>1. HoldsSlot(g)' /\ ~HoldsSlot(g) /\ ~HoldsGate(g)' /\ ~HoldsGate(g)
      BY <2>2 DEF HoldsSlot, HoldsGate
    <3>2. gate' = [gate EXCEPT ![g] = gate[g]]
      BY <1>0, <2>2
    <3> QED
      BY <1>6, <2>1, <2>2, <3>1, <3>2, DriverLocks DEF Lock
  <2>3. CASE /\ driver[g].pc = "gate" /\ gate[g] = Free /\ driver'[g].pc = driver[g].job
             /\ gate' = [gate EXCEPT ![g] = g] /\ UNCHANGED slot
    <3>1. HoldsSlot(g)' /\ HoldsSlot(g) /\ HoldsGate(g)'
      BY <2>1, <2>3 DEF HoldsSlot, HoldsGate
    <3>2. slot = g
      BY <3>1 DEF Locks, SlotOwned
    <3> QED
      BY <1>6, <2>1, <2>3, <3>1, <3>2, DriverLocks DEF Lock
  <2> QED
    BY <1>0, <1>6, <2>2, <2>3, LockEffect
<1>7. ASSUME NEW g \in Gens, Park(g) PROVE Locks'
  BY <1>0, <1>b, <1>7, ParkEffect DEF Park
<1>8. ASSUME NEW g \in Gens, Persist(g) PROVE Locks'
  BY <1>0, <1>a, <1>8, PersistEffect DEF Persist, HoldsSlot, HoldsGate
<1>9. ASSUME NEW g \in Gens, PersistFails(g) PROVE Locks'
  <2>1. OthersKept(g) /\ driver[g].pc = "settle" /\ UNCHANGED <<stop, act, sub>>
    BY <1>0, <1>9, PersistFailsEffect DEF PersistFails
  <2>2. CASE UNCHANGED <<slot, gate>> /\ driver'[g].pc = "settle"
    BY <1>a, <2>1, <2>2 DEF HoldsSlot, HoldsGate
  <2>3. CASE Release(g) /\ driver'[g].pc = "gone"
    BY <1>b, <2>1, <2>3
  <2> QED
    BY <1>0, <1>9, <2>2, <2>3, PersistFailsEffect
<1>10. ASSUME NEW g \in Gens, Announce(g) PROVE Locks'
  BY <1>0, <1>b, <1>10, GoneEffect DEF Announce
<1>11. ASSUME NEW g \in Gens, Retire(g) PROVE Locks'
  BY <1>0, <1>b, <1>11, GoneEffect DEF Retire
<1>12. CASE StopBegin
  <2>1. CASE UNCHANGED <<slot, stop>>
    BY <1>c, <1>12, <2>1 DEF StopBegin
  <2>2. CASE slot' = Canceller /\ stop' = [pc |-> "gate", gen |-> hub]
    BY <1>12, <2>2, ActorsAssumption
       DEF StopBegin, Locks, SlotOwned, GateOwned, HoldsSlot, HoldsGate
  <2> QED
    BY <1>12, <2>1, <2>2 DEF StopBegin
<1>13. CASE StopCommit
  <2>1. stop.gen \in Gens /\ stop \in StopRecord
    BY <1>13, Generations DEF StopCommit, Aimed, TypeOK, Gens
  <2>2. CASE status = "running"
    <3>1. stop'.pc = "publish" /\ stop'.gen = stop.gen
      BY <1>13, <2>1, <2>2 DEF StopCommit, StopRecord
    <3> QED
      BY <1>0, <1>13, <2>1, <2>2, <3>1, ActorsAssumption
         DEF StopCommit, Locks, SlotOwned, GateOwned, HoldsSlot, HoldsGate
  <2>3. CASE status # "running"
    BY <1>13, <2>3, ActorsAssumption
       DEF StopCommit, NoRequest, Locks, SlotOwned, GateOwned, HoldsSlot, HoldsGate
  <2> QED
    BY <2>2, <2>3
<1>14. CASE StopPublish
  <2>1. stop.gen \in Gens
    BY <1>14, Generations DEF StopPublish, Aimed, TypeOK, Gens
  <2> QED
    BY <1>0, <1>14, <2>1, ActorsAssumption
       DEF StopPublish, NoRequest, Locks, SlotOwned, GateOwned, HoldsSlot, HoldsGate
<1>15. ASSUME NEW a \in Activators, NEW kind \in {"resume", "retry"}, ActBegin(a, kind)
       PROVE Locks'
  <2>1. ActsKept(a) /\ act'[a].pc = "want" /\ act[a].pc = "idle"
    BY <1>0, <1>15, ActBeginEffect
  <2> QED
    BY <1>15, <2>1
       DEF ActBegin, ActsKept, Locks, SlotOwned, GateOwned, HoldsSlot, HoldsGate
<1>16. ASSUME NEW a \in Activators, ActRegister(a) PROVE Locks'
  <2>1. ActsKept(a) /\ act[a].pc = "want" /\ slot = Free /\ UNCHANGED <<driver, stop, sub>>
    BY <1>16, ActRegisterEffect DEF ActRegister
  <2>2. CASE act'[a].pc = "idle" /\ UNCHANGED registry
    BY <2>1, <2>2 DEF ActsKept, Locks, SlotOwned, GateOwned, HoldsSlot, HoldsGate
  <2>3. CASE /\ gen + 1 \in Gens /\ slot' = a /\ gate' = [gate EXCEPT ![gen + 1] = a]
             /\ act'[a].pc = "cas" /\ act'[a].gen = gen + 1
    <3>1. ~HoldsGate(gen + 1) /\ gen \in Nat /\ ~(gen + 1 \in 1..gen)
      <4>1. gen \in Nat
        BY Generations DEF TypeOK
      <4>2. gen + 1 > gen /\ ~(gen + 1 \in 1..gen)
        BY <4>1
      <4> QED
        BY <2>3, <4>1, <4>2 DEF Fresh, HoldsGate
    <3>2. gate[gen + 1] = Free
      <4>1. gate[gen + 1] \in Holders
        BY <1>0, <2>3
      <4>2. \A s \in Subs : sub[s].gen # gen + 1
        BY <3>1 DEF Aimed, TypeOK, SubRecord
      <4>3. \A b \in Activators : ~(act[b].pc = "cas" /\ act[b].gen = gen + 1)
        BY <3>1 DEF Aimed
      <4>4. ~(stop.pc = "publish" /\ stop.gen = gen + 1)
        BY <3>1 DEF Aimed
      <4> QED
        BY <2>3, <3>1, <4>1, <4>2, <4>3, <4>4 DEF Holders, Locks, GateOwned
    <3>3. SlotOwned'
      BY <2>1, <2>3, ActorsAssumption DEF Locks, SlotOwned, ActsKept, HoldsSlot
    <3>4. GateOwned'
      <4>1. \A f, h \in Gens : gate'[h] = f <=> h = f /\ HoldsGate(f)'
        BY <1>0, <2>1, <2>3, <3>1, <3>2, ActorsAssumption DEF Locks, GateOwned, HoldsGate
      <4>2. \A h \in Gens : gate'[h] = Canceller <=> stop'.pc = "publish" /\ stop'.gen = h
        BY <1>0, <2>1, <2>3, <3>1, <3>2, ActorsAssumption DEF Locks, GateOwned
      <4>3. \A b \in Activators, h \in Gens :
                gate'[h] = b <=> act'[b].pc = "cas" /\ act'[b].gen = h
        BY <1>0, <2>1, <2>3, <3>1, <3>2, ActorsAssumption DEF Locks, GateOwned, ActsKept
      <4>4. \A s \in Subs, h \in Gens :
                gate'[h] = s <=> sub'[s].pc = "attach" /\ sub'[s].gen = h
        BY <1>0, <2>1, <2>3, <3>1, <3>2, ActorsAssumption DEF Locks, GateOwned
      <4> QED
        BY <4>1, <4>2, <4>3, <4>4 DEF GateOwned
    <3> QED
      BY <3>3, <3>4 DEF Locks
  <2> QED
    BY <1>16, <2>2, <2>3, ActRegisterEffect
<1>17. ASSUME NEW a \in Activators, ActCas(a) PROVE Locks'
  <2>1. PICK g \in Gens : g = act[a].gen
    BY <1>17, ActCasEffect
  <2>2. /\ ActsKept(a) /\ act'[a].pc = "idle" /\ act[a].pc = "cas"
        /\ Release(g) /\ UNCHANGED <<stop, sub>>
    BY <1>17, <2>1, ActCasEffect DEF ActCas
  <2>3. \A h \in Gens : (HoldsSlot(h)' <=> HoldsSlot(h)) /\ (HoldsGate(h)' <=> HoldsGate(h))
    <3>1. CASE driver' = driver
      BY <3>1 DEF HoldsSlot, HoldsGate
    <3>2. CASE OthersKept(g) /\ driver'[g].pc = "begin"
      <4>1. ~HoldsSlot(g) /\ ~HoldsGate(g)
        BY <2>1, <2>2, ActorsAssumption DEF Locks, SlotOwned, GateOwned
      <4> QED
        BY <3>2, <4>1 DEF OthersKept, HoldsSlot, HoldsGate
    <3> QED
      BY <1>17, <2>1, <3>1, <3>2, ActCasEffect
  <2>4. SlotOwned'
    BY <2>2, <2>3, ActorsAssumption DEF Locks, SlotOwned, ActsKept
  <2>5. GateOwned'
    BY <1>0, <2>1, <2>2, <2>3, ActorsAssumption DEF Locks, GateOwned, ActsKept
  <2> QED
    BY <2>4, <2>5 DEF Locks
<1>d. ASSUME NEW s \in Subs, NEW why \in {"subscribe", "reopen"}, Attend(s, why),
             sub[s].pc \in {"idle", "tail"}
      PROVE  Locks'
  <2>1. SubsKept(s) /\ UNCHANGED <<stop, act, driver, gate>> /\ slot = Free
    BY <1>d, AttendEffect DEF Attend
  <2>2. CASE slot' = s /\ sub'[s].pc = "gate" /\ sub'[s].why = why
    BY <1>0, <1>d, <2>1, <2>2, SubLocks DEF SubHoldsSlot, SubHoldsGate
  <2>3. CASE slot' = slot /\ sub'[s].pc = "done"
    BY <1>0, <1>d, <2>1, <2>3, SubLocks DEF SubHoldsSlot, SubHoldsGate
  <2> QED
    BY <1>d, <2>2, <2>3, AttendEffect
<1>18. ASSUME NEW s \in Subs, Subscribe(s) PROVE Locks'
  BY <1>d, <1>18 DEF Subscribe
<1>19. ASSUME NEW s \in Subs, Read(s) PROVE Locks'
  <2>1. /\ SubsKept(s) /\ sub[s].pc = "gate" /\ sub'[s].pc = "attach"
        /\ sub'[s].gen = sub[s].gen /\ sub'[s].why = sub[s].why
        /\ UNCHANGED <<stop, act, driver, slot>>
        /\ gate[sub[s].gen] = Free /\ gate' = [gate EXCEPT ![sub[s].gen] = s]
    BY <1>19, ReadEffect DEF Read
  <2>2. SubHoldsSlot(s)' <=> SubHoldsSlot(s)
    BY <2>1 DEF SubHoldsSlot
  <2>3. slot' = IF SubHoldsSlot(s)' THEN s ELSE IF SubHoldsSlot(s) THEN Free ELSE slot
    BY <2>1, <2>2 DEF SubHoldsSlot, Locks, SlotOwned
  <2>4. /\ gate' \in [Gens -> Holders]
        /\ \A h \in Gens : gate'[h] = IF SubHoldsGate(s, h)' THEN s
                                      ELSE IF SubHoldsGate(s, h) THEN Free ELSE gate[h]
        /\ \A h \in Gens : SubHoldsGate(s, h)' => SubHoldsGate(s, h) \/ gate[h] = Free
    BY <1>0, <2>1 DEF SubHoldsGate, Holders
  <2> QED
    BY <2>1, <2>2, <2>3, <2>4, SubLocks
<1>20. ASSUME NEW s \in Subs, Attach(s) PROVE Locks'
  <2>1. /\ SubsKept(s) /\ sub[s].pc = "attach" /\ sub'[s].pc \in {"done", "tail"}
        /\ UNCHANGED <<stop, act, driver>>
        /\ gate' = [gate EXCEPT ![sub[s].gen] = Free]
        /\ slot' = IF sub[s].why = "lag" THEN slot ELSE Free
    BY <1>20, AttachEffect DEF Attach
  <2>2. /\ gate' \in [Gens -> Holders]
        /\ \A h \in Gens : gate'[h] = IF SubHoldsGate(s, h) THEN Free ELSE gate[h]
    BY <1>0, <2>1 DEF SubHoldsGate, Holders
  <2> QED
    BY <2>1, <2>2, SubLocks DEF SubHoldsSlot, SubHoldsGate
<1>21. ASSUME NEW s \in Subs, Forward(s) PROVE Locks'
  <2>1. SubsKept(s) /\ sub'[s].pc = "tail" /\ sub[s].pc = "tail"
    BY <1>21, ForwardEffect DEF Forward
  <2> QED
    BY <1>0, <1>21, <2>1, SubLocks DEF SubHoldsSlot, SubHoldsGate, Forward
<1>22. ASSUME NEW s \in Subs, Lagged(s) PROVE Locks'
  <2>1. SubsKept(s) /\ sub[s].pc = "tail" /\ sub'[s].pc = "gate" /\ sub'[s].why = "lag"
    BY <1>0, <1>22, LaggedEffect
  <2> QED
    BY <1>0, <1>22, <2>1, SubLocks DEF SubHoldsSlot, SubHoldsGate, Lagged
<1>23. ASSUME NEW s \in Subs, Closed(s) PROVE Locks'
  <2>1. CASE Attend(s, "reopen")
    BY <1>d, <1>23, <2>1 DEF Closed
  <2>2. CASE SubsKept(s) /\ UNCHANGED registry /\ sub'[s].pc = "done" /\ sub[s].told # <<>>
    <3>1. UNCHANGED <<driver, stop, act>> /\ sub[s].pc = "tail"
      BY <1>23, <2>2 DEF Closed, SawTerminal
    <3> QED
      BY <1>0, <2>2, <3>1, SubLocks DEF SubHoldsSlot, SubHoldsGate
  <2> QED
    BY <1>0, <1>23, <2>1, <2>2, ClosedEffect
<1>24. ASSUME NEW s \in Subs, Disconnect(s) PROVE Locks'
  <2>1. SubsKept(s) /\ sub[s].pc \in {"tail", "done"} /\ sub'[s].pc = "idle"
    <3>1. NotSubscribed.pc = "idle"
      BY DEF NotSubscribed
    <3> QED
      BY <1>0, <1>24, <3>1, DisconnectEffect DEF Disconnect
  <2> QED
    BY <1>0, <1>24, <2>1, SubLocks DEF SubHoldsSlot, SubHoldsGate, Disconnect
<1>e. ASSUME Down PROVE Locks'
  <2>1. /\ \A g \in Gens : driver'[g].pc = "gone" /\ gate'[g] = Free
        /\ stop'.pc = "idle" /\ slot' = Free
    BY <1>e DEF Down, Gone, NoRequest
  <2>2. /\ \A a \in Activators : act'[a].pc = "idle"
        /\ \A s \in Subs : sub'[s].pc = "idle"
    BY <1>e DEF Down, NoActivation, NotSubscribed
  <2> QED
    BY <2>1, <2>2, ActorsAssumption DEF Locks, SlotOwned, GateOwned, HoldsSlot, HoldsGate
<1>25. CASE Crash
  BY <1>e, <1>25 DEF Crash
<1>26. CASE Shutdown
  BY <1>e, <1>26 DEF Shutdown
<1>27. CASE Boot
  BY <1>c, <1>27 DEF Boot
<1>28. CASE UNCHANGED vars
  BY <1>c, <1>28 DEF vars
<1> QED
  BY <1>1, <1>2, <1>3, <1>4, <1>5, <1>6, <1>7, <1>8, <1>9, <1>10, <1>11, <1>12, <1>13, <1>14,
     <1>15, <1>16, <1>17, <1>18, <1>19, <1>20, <1>21, <1>22, <1>23, <1>24, <1>25, <1>26, <1>27,
     <1>28 DEF Next, DriverStep, StopStep, ActStep, SubStep

-----------------------------------------------------------------------------
(* The registered hub, the task behind it, and the status.                 *)

LEMMA RegistryInit == Init => Registry
<1> SUFFICES ASSUME Init PROVE Registry
  OBVIOUS
<1>0. 1 \in Gens /\ \A g \in Gens : (g > 1 => g # 1) /\ g # 0
  BY Generations
<1>1. Gone.pc = "gone" /\ Gone.job = "none" /\ [Gone EXCEPT !.pc = "begin"].pc = "begin"
      /\ [Gone EXCEPT !.pc = "begin"].job = "none"
  BY DEF Gone
<1>2. /\ \A g \in Gens : /\ g # 1 => driver[g].pc = "gone"
                         /\ driver[g].pc \in {"gone", "begin"} /\ driver[g].job = "none"
      /\ driver[1].pc = "begin" /\ driver[1].job = "none"
  BY <1>0, <1>1 DEF Init
<1>3. stop.pc = "idle" /\ \A a \in Activators : act[a].pc = "idle"
  BY DEF Init, NoRequest, NoActivation
<1>4. TextFits /\ Fresh /\ Empty
  BY <1>0, <1>2 DEF TextFits, Fresh, Empty, Init
<1>5. WorksRegistered /\ RequestsRegistered /\ RunningIsDriven
  BY <1>0, <1>2, <1>3
     DEF WorksRegistered, Works, RequestsRegistered, RunningIsDriven, Driving, Init
<1> QED
  BY <1>4, <1>5 DEF Registry

\* While anyone holds the slot no request does, and no task is announcing.
LEMMA SlotFreeOrMine ==
  ASSUME Locks
  PROVE  /\ slot = Free => stop.pc = "idle"
         /\ slot = Free => \A a \in Activators : act[a].pc # "cas"
         /\ slot = Free => \A g \in Gens : ~HoldsSlot(g)
         /\ \A g \in Gens : HoldsSlot(g) =>
                /\ stop.pc = "idle" /\ \A a \in Activators : act[a].pc # "cas"
                /\ \A h \in Gens \ {g} : ~HoldsSlot(h)
         /\ stop.pc # "idle" =>
                /\ \A a \in Activators : act[a].pc # "cas"
                /\ \A h \in Gens : ~HoldsSlot(h)
         /\ \A a \in Activators : act[a].pc = "cas" =>
                /\ stop.pc = "idle" /\ \A b \in Activators \ {a} : act[b].pc # "cas"
                /\ \A h \in Gens : ~HoldsSlot(h)
  BY ActorsAssumption DEF Locks, SlotOwned

\* A step of a task that goes on.
LEMMA DriverMoves ==
  ASSUME TypeOK, Aimed, Registry, NEW g \in Gens, OthersKept(g),
         driver[g].pc # "gone",
         UNCHANGED <<status, hub, gen, flag, stop, act, sub, phase>>,
         \A h \in Gens \ {g} : log'[h] = log[h],
         Works(g)', TextFits',
         status = "running" /\ hub = g /\ Driving(g) => Driving(g)'
  PROVE  Registry'
<1>1. phase # "down"
  BY DEF Registry, Empty
<1>2. \A h \in Gens \ {g} : driver'[h] = driver[h]
  BY DEF OthersKept
<1>3. WorksRegistered'
  <2>1. ASSUME NEW h \in Gens, h # g PROVE Works(h)'
    BY <1>2, <2>1 DEF Registry, WorksRegistered, Works, Driving, Target
  <2> QED
    BY <2>1 DEF WorksRegistered
<1>4. RequestsRegistered'
  <2>1. ASSUME NEW a \in Activators, act[a].pc = "cas" PROVE Registering(a)'
    <3>1. Registering(a) /\ hub # g
      BY <2>1 DEF Registry, RequestsRegistered, Registering
    <3>2. hub \in Gens
      BY <2>1, <3>1, Created DEF Aimed, Registering
    <3> QED
      BY <1>2, <2>1, <3>1, <3>2 DEF Registering
  <2> QED
    BY <2>1 DEF Registry, RequestsRegistered
<1>5. Fresh'
  <2>1. ~(g > gen)
    BY DEF Registry, Fresh
  <2> QED
    BY <1>2, <2>1 DEF Registry, Fresh
<1>6. RunningIsDriven'
  <2>1. CASE hub = g
    BY <2>1 DEF Registry, RunningIsDriven
  <2>2. CASE hub # g
    <3>1. status = "running" /\ phase # "down" => hub \in Gens
      BY Created DEF Registry, RunningIsDriven
    <3>2. status = "running" /\ phase = "serving" => Driving(hub)'
      BY <1>1, <1>2, <2>2, <3>1 DEF Registry, RunningIsDriven, Driving
    <3> QED
      BY <3>2 DEF Registry, RunningIsDriven
  <2> QED
    BY <2>1, <2>2
<1> QED
  BY <1>1, <1>3, <1>4, <1>5, <1>6 DEF Registry, Empty

LEMMA RegistryStep == Typed /\ Locks /\ Registry /\ [Next]_vars => Registry'
<1> SUFFICES ASSUME TypeOK, JobFits, Aimed, Locks, Registry, [Next]_vars PROVE Registry'
  BY DEF Typed
<1>0. /\ DriverTyped /\ ActTyped /\ SubTyped /\ status \in Statuses
      /\ \A g \in Gens : log[g] \in Seq(Event) /\ flag[g] \in BOOLEAN
      /\ log \in [Gens -> Seq(Event)] /\ flag \in [Gens -> BOOLEAN]
  BY DEF TypeOK, DriverTyped, ActTyped, SubTyped
<1>w. \A g \in Gens : Works(g) /\ Fits(g)
  BY DEF Registry, WorksRegistered, JobFits
<1>t. ASSUME UNCHANGED text, status' = status \/ status' \notin {"running", "parked"} \/ Streaming,
             \A g \in Gens : driver'[g].pc = "delta" => driver[g].pc = "delta"
      PROVE  TextFits'
  BY <1>t DEF Registry, TextFits, Streaming
<1>1. ASSUME NEW g \in Gens, Begin(g) PROVE Registry'
  <2>1. /\ OthersKept(g) /\ driver[g].pc = "begin"
        /\ driver'[g].pc \in {"loop", "lock"}
        /\ \/ driver'[g].job \in {"none", "settle"}
           \/ driver'[g].pc = "lock" /\ driver'[g].job = "retire" /\ flag[g]
        /\ UNCHANGED <<status, text, hub, gen, log, flag, stop, act, sub, phase>>
    BY <1>0, <1>w, <1>1, BeginEffect DEF Begin, Fits
  <2>2. Works(g)'
    BY <1>w, <2>1 DEF Works, Driving, Fits
  <2>3. TextFits'
    BY <1>t, <2>1 DEF OthersKept
  <2>4. status = "running" /\ hub = g /\ Driving(g) => Driving(g)'
    BY <1>w, <2>1 DEF Driving, Works
  <2> QED
    BY <2>1, <2>2, <2>3, <2>4, DriverMoves
<1>2. ASSUME NEW g \in Gens, SeeCancel(g) PROVE Registry'
  <2>1. /\ OthersKept(g) /\ driver[g].pc = "loop" /\ flag[g]
        /\ driver'[g].pc = "lock" /\ driver'[g].job = "retire"
        /\ UNCHANGED <<status, text, hub, gen, log, flag, stop, act, sub, phase>>
    BY <1>0, <1>2, LeaveEffect DEF SeeCancel
  <2>2. Works(g)' /\ status # "running"
    BY <1>w, <2>1 DEF Works, Driving
  <2>3. TextFits'
    BY <1>t, <2>1 DEF OthersKept
  <2> QED
    BY <2>1, <2>2, <2>3, DriverMoves
<1>3. ASSUME NEW g \in Gens, Receive(g) PROVE Registry'
  <2>1. /\ OthersKept(g) /\ driver[g].pc = "loop"
        /\ driver'[g].pc \in {"delta", "loop", "lock"}
        /\ driver'[g].job \in {"none", "park", "settle"}
        /\ UNCHANGED <<status, text, hub, gen, log, flag, stop, act, sub, phase>>
    BY <1>0, <1>w, <1>3, ReceiveEffect DEF Receive, Fits
  <2>2. Works(g)' /\ Driving(g)'
    BY <1>w, <2>1 DEF Works, Driving, Fits
  <2>3. driver'[g].pc = "delta" => text < MaxText
    BY <1>0, <1>3, ReceiveEffect
  <2>4. TextFits'
    BY <2>1, <2>3 DEF Registry, TextFits, Streaming, OthersKept
  <2> QED
    BY <2>1, <2>2, <2>4, DriverMoves
<1>4. ASSUME NEW g \in Gens, WriteDelta(g) PROVE Registry'
  <2>1. /\ OthersKept(g) /\ driver[g].pc = "delta"
        /\ driver'[g].job = driver[g].job
        /\ \/ driver'[g].pc = "loop" /\ text' = text
           \/ driver'[g].pc = "publish" /\ Streaming
        /\ UNCHANGED <<status, hub, gen, log, flag, stop, act, sub, phase>>
    BY <1>0, <1>4, WriteDeltaEffect DEF WriteDelta
  <2>2. driver[g].job = "none" /\ Driving(g) /\ Driving(g)'
    BY <1>w, <2>1 DEF Fits, Driving
  <2>3. Works(g)'
    BY <1>w, <2>1, <2>2 DEF Works, Streaming
  <2>4. TextFits'
    <3>1. CASE text' = text /\ driver'[g].pc = "loop"
      BY <1>t, <2>1, <3>1 DEF OthersKept
    <3>2. CASE driver'[g].pc = "publish" /\ Streaming
      <4>1. hub = g
        BY <1>w, <2>2, <3>2 DEF Works, Streaming
      <4>2. ASSUME NEW h \in Gens, h # g PROVE driver[h].pc # "delta"
        BY <1>w, <3>2, <4>1, <4>2 DEF Works, Streaming, Driving, Fits
      <4> QED
        BY <2>1, <3>2, <4>2 DEF TextFits, OthersKept
    <3> QED
      BY <2>1, <3>1, <3>2
  <2> QED
    BY <2>1, <2>2, <2>3, <2>4, DriverMoves
<1>5. ASSUME NEW g \in Gens, PublishDelta(g) PROVE Registry'
  <2>1. /\ OthersKept(g) /\ driver[g].pc = "publish"
        /\ driver'[g].pc = "loop" /\ driver'[g].job = driver[g].job
        /\ UNCHANGED <<status, text, hub, gen, flag, stop, act, sub, phase>>
    BY <1>0, <1>5, GoToEffect DEF PublishDelta
  <2>2. \A h \in Gens \ {g} : log'[h] = log[h]
    BY <1>0, <1>5 DEF PublishDelta
  <2>3. Works(g)' /\ Driving(g)'
    BY <1>w, <2>1 DEF Works, Driving, Fits
  <2>4. TextFits'
    BY <1>t, <2>1 DEF OthersKept
  <2> QED
    BY <2>1, <2>2, <2>3, <2>4, DriverMoves
<1>6. ASSUME NEW g \in Gens, Lock(g) PROVE Registry'
  <2>1. /\ OthersKept(g) /\ driver[g].pc \in {"lock", "gate"}
        /\ driver'[g].pc \in {"gate", "park", "settle", "retire"}
        /\ driver'[g].job = driver[g].job
        /\ UNCHANGED <<status, text, hub, gen, log, flag, stop, act, sub, phase>>
        /\ driver'[g].pc = "retire" => driver[g].job = "retire"
    BY <1>0, <1>6, LockEffect DEF Lock
  <2>2. Works(g)'
    BY <1>w, <2>1 DEF Works, Driving
  <2>3. TextFits'
    BY <1>t, <2>1 DEF OthersKept
  <2>4. Driving(g) => Driving(g)'
    BY <2>1 DEF Driving
  <2> QED
    BY <2>1, <2>2, <2>3, <2>4, DriverMoves
<1>s. ASSUME NEW g \in Gens, HoldsSlot(g)
      PROVE  /\ stop.pc = "idle" /\ \A a \in Activators : act[a].pc # "cas"
             /\ \A h \in Gens \ {g} : driver[h].pc \notin {"announce", "retire"}
             /\ driver[g].pc # "gone" /\ phase # "down" /\ g <= gen
  <2>1. driver[g].pc # "gone"
    BY <1>s DEF HoldsSlot
  <2>2. g \in Nat /\ gen \in Nat /\ phase # "down" /\ ~(g > gen)
    BY <2>1, Created, Generations DEF Registry, Empty, Fresh
  <2> QED
    BY <1>s, <2>1, <2>2, SlotFreeOrMine DEF HoldsSlot
<1>7. ASSUME NEW g \in Gens, Park(g) PROVE Registry'
  <2>1. /\ OthersKept(g) /\ driver[g].pc = "park" /\ driver[g].job = "park"
        /\ driver'[g].pc = "lock" /\ UNCHANGED <<text, gen, log, flag, stop, act, sub, phase>>
    BY <1>0, <1>w, <1>7, ParkEffect DEF Park, Fits
  <2>2. TextFits'
    BY <1>0, <1>t, <1>7, <2>1, ParkEffect DEF OthersKept, Streaming
  <2>3. CASE /\ UNCHANGED <<status, hub>>
             /\ \/ flag[g] /\ driver'[g].job = "retire"
                \/ driver'[g].job = "settle"
    <3>1. Works(g)' /\ (status = "running" => Driving(g)')
      BY <1>w, <2>1, <2>3 DEF Works, Driving
    <3> QED
      BY <2>1, <2>2, <2>3, <3>1, DriverMoves
  <2>4. CASE /\ ~flag[g] /\ status = "running" /\ status' = "parked"
             /\ hub' = RemovedOwn(g) /\ driver'[g].job = "retire"
    <3>1. hub = g /\ hub' = 0 /\ 0 \notin Gens
      BY <1>w, <2>1, <2>4, Generations DEF Works, Driving, RemovedOwn
    <3>2. /\ stop.pc = "idle" /\ \A a \in Activators : act[a].pc # "cas"
          /\ \A h \in Gens \ {g} : driver[h].pc \notin {"announce", "retire"}
          /\ phase # "down" /\ g <= gen
      BY <1>s, <2>1 DEF HoldsSlot
    <3>3. ASSUME NEW h \in Gens PROVE Works(h)'
      <4>1. CASE h = g
        BY <2>1, <2>4, <3>1, <4>1 DEF Works, Driving
      <4>2. CASE h # g
        <5>1. driver'[h] = driver[h] /\ ~flag[h] /\ ~Driving(h) /\ driver[h].pc # "announce"
          BY <1>w, <2>1, <2>4, <3>1, <3>2, <4>2 DEF OthersKept, Works
        <5> QED
          BY <1>w, <2>1, <3>1, <4>2, <5>1 DEF Works, Driving
      <4> QED
        BY <4>1, <4>2
    <3>4. Fresh'
      BY <2>1, <3>2, Created, Generations DEF Registry, Fresh, OthersKept
    <3> QED
      BY <2>1, <2>2, <2>4, <3>2, <3>3, <3>4
         DEF Registry, Empty, WorksRegistered, RequestsRegistered, RunningIsDriven
  <2> QED
    BY <1>0, <1>7, <2>3, <2>4, ParkEffect
<1>8. ASSUME NEW g \in Gens, Persist(g) PROVE Registry'
  <2>1. /\ OthersKept(g) /\ driver[g].pc = "settle" /\ driver[g].job = "settle"
        /\ driver'[g].pc = "announce" /\ driver'[g].won = (status = "running")
        /\ driver'[g].job = driver[g].job
        /\ driver'[g].end = driver[g].end /\ driver'[g].try = driver[g].try
        /\ UNCHANGED <<text, hub, gen, log, flag, stop, act, sub, phase>>
        /\ status' = IF status = "running" THEN Target(g) ELSE status
    BY <1>0, <1>w, <1>8, PersistEffect DEF Persist, Fits
  <2>2. Target(g)' = Target(g) /\ Target(g) \in {"completed", "errored"}
    BY <2>1 DEF Target
  <2>3. TextFits'
    BY <1>t, <2>1, <2>2 DEF OthersKept
  <2>4. /\ stop.pc = "idle" /\ \A a \in Activators : act[a].pc # "cas"
        /\ \A h \in Gens \ {g} : driver[h].pc \notin {"announce", "retire"}
        /\ phase # "down" /\ g <= gen
    BY <1>s, <2>1 DEF HoldsSlot
  <2>5. status = "running" => hub = g
    BY <1>w, <2>1 DEF Works, Driving
  <2>6. ASSUME NEW h \in Gens PROVE Works(h)'
    <3>1. CASE h = g
      BY <1>w, <2>1, <2>2, <2>5, <3>1 DEF Works, Driving
    <3>2. CASE h # g
      <4>1. driver'[h] = driver[h] /\ driver[h].pc # "announce"
        BY <2>1, <2>4, <3>2 DEF OthersKept
      <4>2. CASE status = "running"
        BY <1>w, <2>1, <2>5, <3>2, <4>1, <4>2 DEF Works, Driving
      <4>3. CASE status # "running"
        BY <1>w, <2>1, <4>1, <4>3 DEF Works, Driving
      <4> QED
        BY <4>2, <4>3
    <3> QED
      BY <3>1, <3>2
  <2>7. Fresh'
    BY <2>1, <2>4, Created, Generations DEF Registry, Fresh, OthersKept
  <2>8. status' # "running"
    BY <2>1, <2>2
  <2> QED
    BY <2>1, <2>3, <2>4, <2>6, <2>7, <2>8
       DEF Registry, Empty, WorksRegistered, RequestsRegistered, RunningIsDriven
<1>9. ASSUME NEW g \in Gens, PersistFails(g) PROVE Registry'
  <2>1. /\ OthersKept(g) /\ driver[g].pc = "settle" /\ driver[g].job = "settle"
        /\ UNCHANGED <<status, text, hub, gen, log, flag, stop, act, sub>>
    BY <1>0, <1>w, <1>9, PersistFailsEffect DEF PersistFails, Fits
  <2>2. CASE /\ UNCHANGED phase /\ driver'[g].pc = "settle" /\ driver'[g].job = driver[g].job
    <3>1. TextFits'
      BY <1>t, <2>1, <2>2 DEF OthersKept
    <3>2. Works(g)' /\ Driving(g)'
      BY <1>w, <2>1, <2>2 DEF Works, Driving
    <3> QED
      BY <2>1, <2>2, <3>1, <3>2, DriverMoves
  <2>3. CASE phase' = "doomed" /\ driver'[g].pc = "gone" /\ driver'[g].job = "none"
    <3>1. TextFits'
      BY <1>t, <2>1, <2>3 DEF OthersKept
    <3>2. /\ stop.pc = "idle" /\ \A a \in Activators : act[a].pc # "cas"
          /\ phase # "down" /\ g <= gen
      BY <1>s, <2>1 DEF HoldsSlot
    <3>3. ASSUME NEW h \in Gens PROVE Works(h)'
      <4>1. CASE h = g
        BY <1>w, <2>1, <2>3, <4>1 DEF Works, Driving
      <4>2. CASE h # g
        BY <1>w, <2>1, <4>2 DEF Works, Driving, OthersKept, Target
      <4> QED
        BY <4>1, <4>2
    <3>4. Fresh'
      BY <2>1, <3>2, Created, Generations DEF Registry, Fresh, OthersKept
    <3> QED
      BY <2>1, <2>3, <3>1, <3>2, <3>3, <3>4
         DEF Registry, Empty, WorksRegistered, RequestsRegistered, RunningIsDriven
  <2> QED
    BY <1>0, <1>9, <2>2, <2>3, PersistFailsEffect
\* A task that has nothing left to do deregisters its own hub and is gone.
<1>g. ASSUME NEW g \in Gens, HoldsSlot(g), OthersKept(g), hub' = RemovedOwn(g),
             driver'[g].pc = "gone", driver'[g].job = "none",
             status = "running" => hub # g, ~Driving(g),
             UNCHANGED <<status, text, gen, flag, stop, act, sub, phase>>,
             \A h \in Gens \ {g} : log'[h] = log[h]
      PROVE  Registry'
  <2>1. TextFits'
    BY <1>g, <1>t DEF OthersKept
  <2>2. /\ stop.pc = "idle" /\ \A a \in Activators : act[a].pc # "cas"
        /\ \A h \in Gens \ {g} : driver[h].pc \notin {"announce", "retire"}
        /\ phase # "down" /\ g <= gen
    BY <1>g, <1>s
  <2>3. /\ \A h \in Gens \ {g} : hub' = h <=> hub = h
        /\ hub' = 0 => hub = 0 \/ hub = g
    BY <1>g, Generations DEF RemovedOwn
  <2>4. ASSUME NEW h \in Gens PROVE Works(h)'
    <3>1. CASE h = g
      BY <1>g, <1>w, <3>1 DEF Works, Driving
    <3>2. CASE h # g
      BY <1>g, <1>w, <2>2, <2>3, <3>2 DEF Works, Driving, OthersKept
    <3> QED
      BY <3>1, <3>2
  <2>5. Fresh'
    BY <1>g, <2>2, Created, Generations DEF Registry, Fresh, OthersKept
  <2>6. RunningIsDriven'
    <3> SUFFICES ASSUME status = "running" PROVE hub' = hub /\ hub # 0 /\ (phase = "serving" => Driving(hub)')
      BY <1>g, <2>2 DEF RunningIsDriven
    <3>1. hub' = hub /\ hub # 0 /\ hub # g
      BY <1>g, <2>2 DEF Registry, RunningIsDriven, RemovedOwn
    <3>2. driver'[hub] = driver[hub]
      BY <1>g, <3>1, Created DEF OthersKept
    <3> QED
      BY <1>g, <3>1, <3>2 DEF Registry, RunningIsDriven, Driving
  <2> QED
    BY <1>g, <2>1, <2>2, <2>4, <2>5, <2>6
       DEF Registry, Empty, WorksRegistered, RequestsRegistered
<1>10. ASSUME NEW g \in Gens, Announce(g) PROVE Registry'
  <2>1. /\ OthersKept(g) /\ driver[g].pc = "announce" /\ hub' = RemovedOwn(g)
        /\ driver'[g].pc = "gone" /\ driver'[g].job = "none"
        /\ UNCHANGED <<status, text, gen, flag, stop, act, sub, phase>>
    BY <1>0, <1>10, GoneEffect DEF Announce
  <2>2. \A h \in Gens \ {g} : log'[h] = log[h]
    BY <1>0, <1>10 DEF Announce
  <2>3. HoldsSlot(g) /\ ~Driving(g) /\ status # "running"
    BY <1>w, <2>1 DEF HoldsSlot, Driving, Works
  <2> QED
    BY <1>g, <2>1, <2>2, <2>3
<1>11. ASSUME NEW g \in Gens, Retire(g) PROVE Registry'
  <2>1. /\ OthersKept(g) /\ driver[g].pc = "retire" /\ hub' = RemovedOwn(g)
        /\ driver'[g].pc = "gone" /\ driver'[g].job = "none"
        /\ UNCHANGED <<status, text, gen, log, flag, stop, act, sub, phase>>
    BY <1>0, <1>11, GoneEffect DEF Retire
  <2>2. HoldsSlot(g) /\ ~Driving(g) /\ (status = "running" => hub # g)
    BY <1>w, <2>1 DEF HoldsSlot, Driving, Works, Fits
  <2> QED
    BY <1>g, <2>1, <2>2
<1>12. CASE StopBegin
  <2>1. /\ phase # "down" /\ slot = Free /\ stop.pc = "idle"
        /\ UNCHANGED <<text, hub, gen, log, flag, driver, act, sub, phase>>
    BY <1>12 DEF StopBegin
  <2>2. \A a \in Activators : act[a].pc # "cas"
    BY <2>1, SlotFreeOrMine
  <2>3. \A h \in Gens : driver[h].pc # "announce"
    BY <2>1, SlotFreeOrMine DEF HoldsSlot
  <2>4. CASE status' = "cancelled" /\ UNCHANGED stop /\ (status = "running" => hub = 0)
    <3>1. ASSUME NEW h \in Gens PROVE Works(h)'
      BY <1>w, <1>12, <2>1, <2>3, <2>4, Generations DEF Works, Driving, StopBegin
    <3>2. TextFits'
      BY <1>t, <2>1, <2>4
    <3> QED
      BY <2>1, <2>2, <2>4, <3>1, <3>2
         DEF Registry, Empty, Fresh, WorksRegistered, RequestsRegistered, RunningIsDriven
  <2>5. CASE status' = status /\ stop' = [pc |-> "gate", gen |-> hub]
    <3>1. ASSUME NEW h \in Gens PROVE Works(h)'
      BY <1>w, <2>1, <2>5 DEF Works, Driving, Target
    <3>2. TextFits'
      BY <1>t, <2>1, <2>5
    <3> QED
      BY <2>1, <2>2, <2>5, <3>1, <3>2
         DEF Registry, Empty, Fresh, WorksRegistered, RequestsRegistered, RunningIsDriven,
             Driving
  <2> QED
    BY <1>12, <2>4, <2>5 DEF StopBegin
<1>p. ASSUME stop.pc # "idle"
      PROVE  /\ hub = stop.gen /\ hub \in Gens /\ hub <= gen /\ phase # "down"
             /\ \A a \in Activators : act[a].pc # "cas"
             /\ \A h \in Gens : driver[h].pc # "announce"
  <2>1. hub = stop.gen /\ stop.gen # 0 /\ phase # "down"
    BY <1>p, Created DEF Registry, RequestsRegistered, Empty, Aimed
  <2> QED
    BY <1>p, <2>1, Created, SlotFreeOrMine DEF HoldsSlot
<1>13. CASE StopCommit
  <2>1. stop.pc = "gate" /\ UNCHANGED <<text, hub, gen, log, driver, act, sub, phase>>
    BY <1>13 DEF StopCommit
  <2>2. CASE status = "running"
    <3>1. /\ status' = "cancelled" /\ flag' = [flag EXCEPT ![hub] = TRUE]
          /\ stop'.gen = stop.gen /\ gate[hub] = Free
      BY <1>p, <1>13, <2>1, <2>2 DEF StopCommit, TypeOK, StopRecord
    <3>2. ~HoldsGate(hub)
      BY <1>p, <2>1, <3>1, ActorsAssumption DEF Locks, GateOwned
    <3>3. ASSUME NEW h \in Gens PROVE Works(h)'
      <4>1. flag'[h] = (flag[h] \/ h = hub)
        BY <1>0, <1>p, <2>1, <3>1
      <4> QED
        BY <1>p, <1>w, <2>1, <2>2, <3>1, <3>2, <4>1 DEF Works, Driving, HoldsGate
    <3>4. TextFits'
      BY <1>t, <2>1, <3>1
    <3>5. Fresh'
      BY <1>0, <1>p, <2>1, <3>1, Created, Generations DEF Registry, Fresh
    <3> QED
      BY <1>p, <2>1, <3>1, <3>3, <3>4, <3>5
         DEF Registry, Empty, WorksRegistered, RequestsRegistered, RunningIsDriven
  <2>3. CASE status # "running"
    <3>1. UNCHANGED <<status, flag>> /\ stop'.pc = "idle"
      BY <1>13, <2>3 DEF StopCommit, NoRequest
    <3>2. ASSUME NEW h \in Gens PROVE Works(h)'
      BY <1>w, <2>1, <3>1 DEF Works, Driving, Target
    <3>3. TextFits'
      BY <1>t, <2>1, <3>1
    <3> QED
      BY <1>p, <2>1, <2>3, <3>1, <3>2, <3>3
         DEF Registry, Empty, Fresh, WorksRegistered, RequestsRegistered, RunningIsDriven
  <2> QED
    BY <2>2, <2>3
<1>14. CASE StopPublish
  <2>1. /\ stop.pc = "publish" /\ stop'.pc = "idle" /\ hub' = RemovedOwn(stop.gen)
        /\ UNCHANGED <<status, text, gen, flag, driver, act, sub, phase>>
    BY <1>14 DEF StopPublish, NoRequest
  <2>2. hub' = 0 /\ 0 \notin Gens /\ status = "cancelled"
    BY <1>p, <2>1, Generations DEF RemovedOwn, Registry, RequestsRegistered
  <2>3. \A h \in Gens \ {hub} : log'[h] = log[h]
    BY <1>0, <1>p, <1>14, <2>1 DEF StopPublish
  <2>4. ASSUME NEW h \in Gens PROVE Works(h)'
    BY <1>p, <1>w, <2>1, <2>2 DEF Works, Driving
  <2>5. TextFits'
    BY <1>t, <2>1
  <2>6. Fresh'
    <3>1. ASSUME NEW h \in Gens, h > gen PROVE h # hub
      BY <1>p, <2>1, <3>1, Created, Generations
    <3> QED
      BY <2>1, <2>3, <3>1 DEF Registry, Fresh
  <2> QED
    BY <1>p, <2>1, <2>2, <2>4, <2>5, <2>6
       DEF Registry, Empty, WorksRegistered, RequestsRegistered, RunningIsDriven
\* A step that leaves the Run, its hubs and its tasks alone.
<1>q. ASSUME UNCHANGED <<status, text, hub, gen, log, flag, driver, stop, phase>>,
             phase = "down" => /\ \A a \in Activators : act'[a].pc = "idle"
                               /\ \A s \in Subs : sub'[s].pc = "idle",
             \A a \in Activators : act'[a].pc = "cas" =>
                 /\ act[a].pc = "cas" /\ act'[a] = act[a]
                 /\ \A s \in Subs : sub'[s].gen = sub[s].gen \/ sub'[s].gen = 0
      PROVE  Registry'
  <2>1. ASSUME NEW h \in Gens PROVE Works(h)'
    BY <1>q, <1>w DEF Works, Driving, Target
  <2>2. TextFits'
    BY <1>q, <1>t
  <2>3. ASSUME NEW a \in Activators, act'[a].pc = "cas" PROVE Registering(a)'
    <3>1. act[a].pc = "cas" /\ act'[a] = act[a] /\ Registering(a) /\ act[a].gen # 0
      BY <1>q, <2>3, Created DEF Registry, RequestsRegistered, Aimed
    <3> QED
      BY <1>q, <2>3, <3>1 DEF Registering
  <2> QED
    BY <1>q, <2>1, <2>2, <2>3
       DEF Registry, Empty, Fresh, WorksRegistered, RequestsRegistered, RunningIsDriven, Driving
<1>15. ASSUME NEW a \in Activators, NEW kind \in {"resume", "retry"}, ActBegin(a, kind)
       PROVE Registry'
  <2>1. ActsKept(a) /\ act'[a].pc = "want"
    BY <1>0, <1>15, ActBeginEffect
  <2>2. phase # "down" /\ UNCHANGED <<status, text, hub, gen, log, flag, driver, stop, phase, sub>>
    BY <1>15 DEF ActBegin
  <2> QED
    BY <1>q, <2>1, <2>2 DEF ActsKept
<1>16. ASSUME NEW a \in Activators, ActRegister(a) PROVE Registry'
  <2>1. /\ ActsKept(a) /\ act[a].pc = "want" /\ slot = Free
        /\ UNCHANGED <<status, text, log, flag, driver, stop, sub, phase>>
    BY <1>16, ActRegisterEffect DEF ActRegister
  <2>2. phase # "down"
    BY <2>1 DEF Registry, Empty
  <2>3. CASE act'[a].pc = "idle" /\ UNCHANGED registry
    BY <1>q, <2>1, <2>2, <2>3 DEF ActsKept
  <2>4. CASE /\ hub = 0 /\ gen + 1 \in Gens /\ gen' = gen + 1 /\ hub' = gen + 1
             /\ act'[a].pc = "cas" /\ act'[a].gen = gen + 1
    <3>1. /\ stop.pc = "idle" /\ \A b \in Activators : act[b].pc # "cas"
          /\ \A h \in Gens : driver[h].pc # "announce"
      BY <2>1, SlotFreeOrMine DEF HoldsSlot
    <3>2. gen \in Nat /\ gen + 1 > gen /\ 0 \notin Gens
      BY Created, Generations
    <3>3. driver[gen + 1].pc = "gone" /\ log[gen + 1] = <<>> /\ ~flag[gen + 1]
      BY <2>4, <3>2 DEF Registry, Fresh
    <3>4. status # "running"
      BY <2>2, <2>4 DEF Registry, RunningIsDriven
    <3>5. \A s \in Subs : sub[s].gen # gen + 1
      <4>1. ASSUME NEW s \in Subs PROVE sub[s].gen \in Nat /\ sub[s].gen <= gen
        BY <4>1, Generations DEF TypeOK, SubRecord, Aimed
      <4> QED
        BY <3>2, <4>1
    <3>6. ASSUME NEW h \in Gens PROVE Works(h)'
      BY <1>w, <2>1, <2>4, <3>1, <3>2, <3>3, <3>4 DEF Works, Driving
    <3>7. Registering(a)'
      BY <2>1, <2>4, <3>3, <3>4, <3>5 DEF Registering
    <3>8. TextFits'
      BY <1>t, <2>1
    <3>9. Fresh'
      <4>1. ASSUME NEW h \in Gens, h > gen + 1 PROVE h > gen
        BY <3>2, <4>1, Generations
      <4> QED
        BY <2>1, <2>4, <4>1 DEF Registry, Fresh
    <3> QED
      BY <2>1, <2>2, <2>4, <3>1, <3>4, <3>6, <3>7, <3>8, <3>9
         DEF Registry, Empty, WorksRegistered, RequestsRegistered, RunningIsDriven, ActsKept
  <2> QED
    BY <1>16, <2>3, <2>4, ActRegisterEffect
<1>17. ASSUME NEW a \in Activators, ActCas(a) PROVE Registry'
  <2>1. PICK g \in Gens : g = act[a].gen
    BY <1>17, ActCasEffect
  <2>2. /\ ActsKept(a) /\ act'[a].pc = "idle" /\ act[a].pc = "cas"
        /\ UNCHANGED <<gen, log, flag, stop, sub, phase>>
    BY <1>17, <2>1, ActCasEffect DEF ActCas
  <2>3. /\ stop.pc = "idle" /\ \A b \in Activators \ {a} : act[b].pc # "cas"
        /\ \A h \in Gens : driver[h].pc # "announce"
    BY <2>2, SlotFreeOrMine DEF HoldsSlot
  <2>4. /\ hub = g /\ status # "running" /\ driver[g].pc = "gone" /\ ~flag[g]
        /\ phase # "down" /\ hub # 0 /\ hub <= gen
    BY <2>1, <2>2, Created, Generations
       DEF Registry, RequestsRegistered, Registering, Empty
  <2>5. CASE /\ status \notin {"running", "cancelled"} /\ status' = "running"
             /\ OthersKept(g) /\ driver'[g].pc = "begin" /\ driver'[g].job = "none"
             /\ UNCHANGED hub
    <3>1. \A h \in Gens : ~flag[h] /\ ~Driving(h)
      BY <1>w, <2>4, <2>5 DEF Works
    <3>2. ASSUME NEW h \in Gens PROVE Works(h)' /\ driver'[h].pc # "delta"
      <4>1. CASE h = g
        BY <2>2, <2>4, <2>5, <3>1, <4>1 DEF Works, Driving
      <4>2. CASE h # g
        BY <1>w, <2>2, <2>3, <2>5, <3>1, <4>2 DEF Works, Driving, OthersKept, Fits
      <4> QED
        BY <4>1, <4>2
    <3>3. Fresh'
      BY <2>2, <2>4, <2>5, Created, Generations DEF Registry, Fresh, OthersKept
    <3>4. RunningIsDriven'
      BY <2>4, <2>5 DEF RunningIsDriven, Driving
    <3> QED
      BY <2>2, <2>3, <2>4, <3>2, <3>3, <3>4
         DEF Registry, Empty, WorksRegistered, RequestsRegistered, TextFits, ActsKept
  <2>6. CASE hub' = RemovedOwn(g) /\ UNCHANGED <<status, text, driver>>
    <3>1. hub' = 0 /\ 0 \notin Gens
      BY <2>4, <2>6, Generations DEF RemovedOwn
    <3>2. ASSUME NEW h \in Gens PROVE Works(h)'
      BY <1>w, <2>2, <2>3, <2>4, <2>6, <3>1 DEF Works, Driving
    <3>3. TextFits'
      BY <1>t, <2>6
    <3> QED
      BY <2>2, <2>3, <2>4, <2>6, <3>2, <3>3
         DEF Registry, Empty, Fresh, WorksRegistered, RequestsRegistered, RunningIsDriven,
             ActsKept
  <2> QED
    BY <1>17, <2>1, <2>5, <2>6, ActCasEffect
<1>r. ASSUME NEW s \in Subs, NEW why \in {"subscribe", "reopen"}, Attend(s, why), phase # "down"
      PROVE  Registry'
  <2>1. /\ SubsKept(s) /\ slot = Free
        /\ UNCHANGED <<status, text, hub, gen, log, flag, driver, stop, act, phase>>
    BY <1>r, AttendEffect DEF Attend
  <2>2. \A a \in Activators : act[a].pc # "cas"
    BY <2>1, SlotFreeOrMine
  <2> QED
    BY <1>q, <1>r, <2>1, <2>2
<1>u. ASSUME NEW s \in Subs, SubsKept(s), sub'[s].gen = sub[s].gen \/ sub'[s].gen = 0,
             sub[s].pc # "idle",
             UNCHANGED <<status, text, hub, gen, log, flag, driver, stop, act, phase>>
      PROVE  Registry'
  <2>1. phase # "down"
    BY <1>u DEF Registry, Empty
  <2> QED
    BY <1>q, <1>u, <2>1 DEF SubsKept
<1>18. ASSUME NEW s \in Subs, Subscribe(s) PROVE Registry'
  BY <1>r, <1>18 DEF Subscribe
<1>19. ASSUME NEW s \in Subs, Read(s) PROVE Registry'
  BY <1>u, <1>19, ReadEffect DEF Read
<1>20. ASSUME NEW s \in Subs, Attach(s) PROVE Registry'
  BY <1>u, <1>20, AttachEffect DEF Attach
<1>21. ASSUME NEW s \in Subs, Forward(s) PROVE Registry'
  <2>1. SubsKept(s) /\ sub'[s].gen = sub[s].gen /\ sub[s].pc = "tail"
    BY <1>21, ForwardEffect DEF Forward
  <2> QED
    BY <1>u, <1>21, <2>1 DEF Forward
<1>22. ASSUME NEW s \in Subs, Lagged(s) PROVE Registry'
  <2>1. SubsKept(s) /\ sub'[s].gen = sub[s].gen /\ sub[s].pc = "tail"
    BY <1>0, <1>22, LaggedEffect
  <2> QED
    BY <1>u, <1>22, <2>1 DEF Lagged
<1>23. ASSUME NEW s \in Subs, Closed(s) PROVE Registry'
  <2>1. sub[s].pc = "tail" /\ phase # "down"
    BY <1>23 DEF Closed, Registry, Empty
  <2>2. CASE Attend(s, "reopen")
    BY <1>r, <2>1, <2>2
  <2>3. CASE SubsKept(s) /\ UNCHANGED registry /\ sub'[s].gen = 0 /\ sub[s].told # <<>>
    <3>1. UNCHANGED <<status, text, hub, gen, log, flag, driver, stop, act, phase>>
      BY <1>23, <2>3 DEF Closed, SawTerminal
    <3> QED
      BY <1>u, <2>1, <2>3, <3>1
  <2> QED
    BY <1>0, <1>23, <2>2, <2>3, ClosedEffect
<1>24. ASSUME NEW s \in Subs, Disconnect(s) PROVE Registry'
  <2>1. NotSubscribed.gen = 0
    BY DEF NotSubscribed
  <2>2. SubsKept(s) /\ sub'[s].gen = 0 /\ sub[s].pc # "idle"
    BY <1>0, <1>24, <2>1, DisconnectEffect DEF Disconnect
  <2> QED
    BY <1>u, <1>24, <2>2 DEF Disconnect
<1>v. ASSUME Down PROVE Registry'
  <2>1. /\ \A g \in Gens : /\ driver'[g].pc = "gone" /\ driver'[g].job = "none"
                           /\ log'[g] = <<>> /\ ~flag'[g]
        /\ stop'.pc = "idle" /\ hub' = 0 /\ phase' = "down"
    BY <1>v DEF Down, Gone, NoRequest
  <2>2. /\ \A a \in Activators : act'[a].pc = "idle"
        /\ \A s \in Subs : sub'[s].pc = "idle"
    BY <1>v DEF Down, NoActivation, NotSubscribed
  <2> QED
    BY <2>1, <2>2 DEF Registry, TextFits, Fresh, Empty, WorksRegistered, Works, Driving,
                      RequestsRegistered, RunningIsDriven
<1>25. CASE Crash
  BY <1>v, <1>25 DEF Crash
<1>26. CASE Shutdown
  BY <1>v, <1>26 DEF Shutdown
<1>27. CASE Boot
  <2>1. /\ \A g \in Gens : driver[g].pc = "gone"
        /\ stop.pc = "idle" /\ \A a \in Activators : act[a].pc = "idle"
        /\ phase' = "serving" /\ status' # "running"
        /\ UNCHANGED <<text, hub, gen, log, flag, driver, stop, act, sub>>
    BY <1>27 DEF Boot, Registry, Empty
  <2>2. \A g \in Gens : flag[g] => status' = "cancelled"
    BY <1>w, <1>27 DEF Works, Boot
  <2> QED
    BY <2>1, <2>2 DEF Registry, TextFits, Fresh, Empty, WorksRegistered, Works, Driving,
                      RequestsRegistered, RunningIsDriven
<1>28. CASE UNCHANGED vars
  <2>1. /\ UNCHANGED <<status, text, hub, gen, log, flag, driver, stop, phase>>
        /\ act' = act /\ sub' = sub
    BY <1>28 DEF vars
  <2> QED
    BY <1>q, <2>1 DEF Registry, Empty
<1> QED
  BY <1>1, <1>2, <1>3, <1>4, <1>5, <1>6, <1>7, <1>8, <1>9, <1>10, <1>11, <1>12, <1>13, <1>14,
     <1>15, <1>16, <1>17, <1>18, <1>19, <1>20, <1>21, <1>22, <1>23, <1>24, <1>25, <1>26, <1>27,
     <1>28 DEF Next, DriverStep, StopStep, ActStep, SubStep

-----------------------------------------------------------------------------
(* What channels carry, and what clients were sent.                        *)

LEMMA StreamInit == Init => Stream
<1> SUFFICES ASSUME Init PROVE Stream
  OBVIOUS
<1>1. \A g \in Gens : log[g] = <<>>
  BY DEF Init
<1>2. EndingsLast
  BY <1>1 DEF EndingsLast, LastEnds
<1>3. NotSubscribed.pc = "idle" /\ NotSubscribed.told = <<>> /\ NotSubscribed.view = <<>>
  BY DEF NotSubscribed
<1>4. Len(<<>>) = 0 /\ <<>> = [n \in 1..0 |-> n]
  BY EmptySeq
<1>5. ASSUME NEW s \in Subs PROVE ToldBy(s) /\ Seen(s)
  <2>1. sub[s] = NotSubscribed
    BY <1>5 DEF Init
  <2> QED
    BY <1>3, <1>4, <2>1 DEF ToldBy, Seen
<1> QED
  BY <1>2, <1>5 DEF Stream, Told, Viewed

\* Where a subscription's channel and its place in it are.
LEMMA Receiver ==
  ASSUME TypeOK, Aimed, NEW s \in Subs
  PROVE  /\ sub[s] \in SubRecord
         /\ sub[s].gen \in Nat /\ sub[s].gen <= gen /\ sub[s].pos \in Nat
         /\ sub[s].view \in Seq(Nat) /\ Len(sub[s].view) \in Nat
         /\ sub[s].told \in Seq(Statuses) /\ Len(sub[s].told) \in Nat
         /\ sub[s].pc \in {"gate", "attach", "tail"} =>
                /\ sub[s].gen \in Gens /\ log[sub[s].gen] \in Seq(Event)
                /\ Len(log[sub[s].gen]) \in Nat
<1>1. sub[s] \in SubRecord
  BY DEF TypeOK
<1>2. /\ sub[s].gen \in 0..MaxGen /\ sub[s].pos \in Nat
      /\ sub[s].view \in Seq(Nat) /\ sub[s].told \in Seq(Statuses)
  BY <1>1 DEF SubRecord
<1>3. sub[s].gen \in Nat /\ (sub[s].gen # 0 => sub[s].gen \in Gens)
  BY <1>2 DEF Gens
<1>4. ASSUME sub[s].pc \in {"gate", "attach", "tail"}
      PROVE  sub[s].gen \in Gens /\ log[sub[s].gen] \in Seq(Event)
  BY <1>3, <1>4 DEF Aimed, TypeOK
<1> QED
  BY <1>1, <1>2, <1>3, <1>4, LenProperties DEF Aimed

\* A step in which no channel, view or write is involved.
LEMMA StreamCalm ==
  ASSUME TypeOK, Aimed, Stream, UNCHANGED <<log, sub>>,
         text' = text \/ \A s \in Subs : sub[s].gen # hub',
         \/ hub' = hub \/ hub' = 0
         \/ hub' \in Gens /\ hub' > gen /\ log[hub'] = <<>>,
         \A g \in Gens : driver'[g].pc = "publish" <=> driver[g].pc = "publish"
  PROVE  Stream'
<1>0. gen \in Nat
  BY Created
<1>1. ASSUME NEW g \in Gens PROVE LastEnds(g)'
  <2>1. LastEnds(g) /\ g # 0
    BY <1>1, Generations DEF Stream, EndingsLast
  <2>2. CASE hub' = g /\ hub # g
    <3>1. log[g] = <<>>
      BY <2>1, <2>2
    <3> QED
      BY <3>1 DEF LastEnds
  <2>3. CASE hub' = g => hub = g
    BY <2>1, <2>3 DEF LastEnds
  <2> QED
    BY <2>2, <2>3
<1>2. ASSUME NEW s \in Subs, sub[s].pc \in {"attach", "tail"}, sub[s].gen = hub'
      PROVE  hub' = hub
  <2>1. sub[s].gen # 0 /\ ~(sub[s].gen > gen)
    BY <1>0, <1>2, Receiver DEF Aimed
  <2> QED
    BY <1>2, <2>1
<1>3. ASSUME NEW s \in Subs PROVE ToldBy(s)'
  BY <1>2, <1>3 DEF Stream, Told, ToldBy
<1>4. ASSUME NEW s \in Subs PROVE Seen(s)'
  <2>1. CASE sub[s].pc = "tail"
    <3>1. sub[s].gen = hub' => hub' = hub /\ Published(hub)' = Published(hub) /\ text' = text
      BY <1>2, <1>4, <2>1, Receiver DEF Published
    <3> QED
      BY <1>4, <2>1, <3>1 DEF Stream, Viewed, Seen, Continues
  <2>2. CASE sub[s].pc # "tail"
    BY <1>2, <1>4, <2>2 DEF Stream, Viewed, Seen
  <2> QED
    BY <2>1, <2>2
<1> QED
  BY <1>1, <1>3, <1>4 DEF Stream, EndingsLast, Told, Viewed

\* The registered channel carries one more event: the delta just written, or
\* the ending, with which it is deregistered.
LEMMA StreamGrows ==
  ASSUME TypeOK, Aimed, Stream, NEW g \in Gens, hub = g, NEW e \in Event,
         log' = [log EXCEPT ![g] = Append(log[g], e)], UNCHANGED <<sub, text>>,
         \/ /\ e = Delta(text) /\ hub' = hub
            /\ driver[g].pc = "publish" /\ driver'[g].pc # "publish"
         \/ e.kind # "delta" /\ hub' = 0
  PROVE  Stream'
<1> DEFINE n == Len(log[g])
<1>0. log[g] \in Seq(Event) /\ n \in Nat /\ log \in [Gens -> Seq(Event)]
  BY LenProperties DEF TypeOK
<1>1. \A h \in Gens \ {g} : log'[h] = log[h]
  BY <1>0
<1>2. log'[g] = Append(log[g], e)
  BY <1>0
<1>3. /\ Len(log'[g]) = n + 1 /\ log'[g][n + 1] = e
      /\ \A i \in 1..n : log'[g][i] = log[g][i]
  BY <1>0, <1>2, AppendProperties
<1> HIDE DEF n
<1>4. \A i \in 1..n : log[g][i].kind = "delta"
  BY DEF Stream, EndingsLast, LastEnds, n
<1>5. hub' = hub \/ hub' = 0
  OBVIOUS
<1>6. ASSUME NEW h \in Gens PROVE LastEnds(h)'
  <2>1. h # 0
    BY <1>6, Generations
  <2>2. CASE h # g
    BY <1>1, <1>5, <1>6, <2>1, <2>2 DEF Stream, EndingsLast, LastEnds
  <2>3. CASE h = g
    <3> SUFFICES ASSUME NEW i \in 1..(n + 1), log'[g][i].kind # "delta"
                 PROVE  i = n + 1 /\ hub' # g
      BY <1>3, <2>3 DEF LastEnds
    <3>1. i = n + 1
      BY <1>0, <1>3, <1>4
    <3>2. e.kind # "delta"
      BY <1>3, <3>1
    <3> QED
      BY <2>1, <2>3, <3>1, <3>2 DEF Delta
  <2> QED
    BY <2>2, <2>3
<1>7. ASSUME NEW s \in Subs PROVE ToldBy(s)'
  <2>1. ToldBy(s) /\ (sub[s].pc = "tail" => sub[s].gen # 0 /\ sub[s].gen \in Gens)
    BY <1>7, Receiver DEF Stream, Told, Aimed
  <2>2. CASE sub[s].pc = "tail" /\ sub[s].gen = g
    <3>1. sub[s].pos <= n /\ sub[s].told = <<>> /\ sub[s].pos \in Nat
      BY <1>7, <2>1, <2>2, Receiver DEF ToldBy, n
    <3>2. sub[s].pos <= n + 1
      BY <1>0, <3>1
    <3> QED
      BY <1>3, <2>2, <3>1, <3>2 DEF ToldBy
  <2>3. CASE sub[s].pc = "tail" /\ sub[s].gen # g
    BY <1>1, <1>5, <2>1, <2>3 DEF ToldBy
  <2>4. CASE sub[s].pc # "tail"
    BY <2>1, <2>4 DEF ToldBy
  <2> QED
    BY <2>2, <2>3, <2>4
<1>8. ASSUME NEW s \in Subs PROVE Seen(s)'
  <2>1. Seen(s) /\ (sub[s].pc \in {"attach", "tail"} => sub[s].gen # 0 /\ sub[s].gen \in Gens)
    BY <1>8, Receiver DEF Stream, Viewed, Aimed
  <2>2. CASE sub[s].pc = "tail" /\ sub[s].gen = g
    <3> DEFINE v == Len(sub[s].view)
               p == sub[s].pos
    <3>1. v \in Nat /\ p \in Nat /\ p <= n
      BY <1>8, <2>2, Receiver DEF Stream, Told, ToldBy, n
    <3>2. /\ \A i \in 1..n : p < i /\ log[g][i].kind = "delta" => log[g][i].n = v + i - p
          /\ v + n - p = Published(g)
      BY <2>1, <2>2 DEF Seen, Continues, n
    <3>3. text \in Nat
      BY BoundsAssumption DEF TypeOK
    <3> HIDE DEF v, p
    <3>4. CASE e = Delta(text) /\ hub' = hub /\ driver[g].pc = "publish" /\ driver'[g].pc # "publish"
      <4>1. e.n = text /\ text = v + (n + 1) - p /\ Published(g)' = v + (n + 1) - p
        <5>1. e.n = text
          BY <3>4 DEF Delta
        <5>2. Published(g) = text - 1 /\ Published(g)' = text
          BY <3>4 DEF Published
        <5>3. v + n - p = text - 1
          BY <3>2, <5>2
        <5>4. v + (n + 1) - p = text
          BY <1>0, <3>1, <3>3, <5>3
        <5> QED
          BY <5>1, <5>2, <5>4
      <4>2. \A i \in 1..(n + 1) :
                p < i /\ log'[g][i].kind = "delta" => log'[g][i].n = v + i - p
        <5> TAKE i \in 1..(n + 1)
        <5>1. i \in 1..n \/ i = n + 1
          BY <1>0
        <5>2. CASE i \in 1..n
          BY <1>3, <3>2, <5>2
        <5>3. CASE i = n + 1
          BY <1>3, <4>1, <5>3
        <5> QED
          BY <5>1, <5>2, <5>3
      <4> QED
        BY <1>3, <2>1, <2>2, <3>4, <4>1, <4>2 DEF Seen, Continues, v, p
    <3>5. CASE e.kind # "delta" /\ hub' = 0
      <4>1. \A i \in 1..(n + 1) :
                p < i /\ log'[g][i].kind = "delta" => log'[g][i].n = v + i - p
        <5> TAKE i \in 1..(n + 1)
        <5>1. i \in 1..n \/ i = n + 1
          BY <1>0
        <5>2. CASE i \in 1..n
          BY <1>3, <3>2, <5>2
        <5>3. CASE i = n + 1
          BY <1>3, <3>5, <5>3
        <5> QED
          BY <5>1, <5>2, <5>3
      <4> QED
        BY <1>3, <2>1, <2>2, <3>5, <4>1 DEF Seen, Continues, v, p
    <3> QED
      BY <3>4, <3>5
  <2>3. CASE sub[s].pc = "tail" /\ sub[s].gen # g
    BY <1>1, <1>5, <2>1, <2>3 DEF Seen, Continues
  <2>4. CASE sub[s].pc # "tail"
    BY <1>5, <2>1, <2>4 DEF Seen
  <2> QED
    BY <2>2, <2>3, <2>4
<1> QED
  BY <1>6, <1>7, <1>8 DEF Stream, EndingsLast, Told, Viewed

\* A step of one subscription.
LEMMA StreamSub ==
  ASSUME Stream, NEW s \in Subs, SubsKept(s), UNCHANGED <<log, hub, text, driver>>,
         ToldBy(s)', Seen(s)'
  PROVE  Stream'
<1>1. EndingsLast'
  BY DEF Stream, EndingsLast, LastEnds
<1>2. ASSUME NEW t \in Subs, t # s PROVE ToldBy(t)' /\ Seen(t)'
  <2>1. sub'[t] = sub[t] /\ ToldBy(t) /\ Seen(t)
    BY <1>2 DEF SubsKept, Stream, Told, Viewed
  <2>2. Published(hub)' = Published(hub)
    BY DEF Published
  <2> QED
    BY <2>1, <2>2 DEF ToldBy, Seen, Continues
<1> QED
  BY <1>1, <1>2 DEF Stream, Told, Viewed

\* A view cut at n reads back as the numbers up to n.
LEMMA Contiguous ==
  ASSUME NEW v \in Seq(Nat), v = [n \in 1..Len(v) |-> n], NEW k, k = Len(v) + 1
  PROVE  Append(v, k) = [n \in 1..Len(Append(v, k)) |-> n] /\ Len(Append(v, k)) = k
<1>1. Len(v) \in Nat
  BY LenProperties
<1>2. /\ Append(v, k) \in Seq(Nat) /\ Len(Append(v, k)) = k
      /\ \A i \in 1..Len(v) : Append(v, k)[i] = v[i]
      /\ Append(v, k)[k] = k /\ DOMAIN Append(v, k) = 1..k
  BY <1>1, AppendProperties, LenProperties
<1>3. ASSUME NEW i \in 1..k PROVE Append(v, k)[i] = i
  <2>1. i \in 1..Len(v) \/ i = k
    BY <1>1
  <2>2. i \in 1..Len(v) => v[i] = i
    OBVIOUS
  <2> QED
    BY <1>2, <2>1, <2>2
<1>4. Append(v, k) = [n \in 1..k |-> n]
  BY <1>2, <1>3
<1> QED
  BY <1>2, <1>4

LEMMA StreamStep == Typed /\ Locks /\ Registry /\ Stream /\ [Next]_vars => Stream'
<1> SUFFICES ASSUME TypeOK, JobFits, Aimed, Locks, Registry, Stream, [Next]_vars PROVE Stream'
  BY DEF Typed
<1>0. /\ DriverTyped /\ ActTyped /\ SubTyped /\ status \in Statuses /\ text \in Nat
      /\ log \in [Gens -> Seq(Event)] /\ flag \in [Gens -> BOOLEAN]
  BY BoundsAssumption DEF TypeOK, DriverTyped, ActTyped, SubTyped
<1>w. \A g \in Gens : Works(g) /\ Fits(g)
  BY DEF Registry, WorksRegistered, JobFits
<1>s. \A s \in Subs : ToldBy(s) /\ Seen(s)
  BY DEF Stream, Told, Viewed
<1>d. ASSUME NEW g \in Gens, OthersKept(g), UNCHANGED <<text, log, sub>>,
             hub' = hub \/ hub' = RemovedOwn(g),
             driver[g].pc # "publish", driver'[g].pc # "publish"
      PROVE  Stream'
  BY <1>d, StreamCalm DEF RemovedOwn, OthersKept
<1>1. ASSUME NEW g \in Gens, Begin(g) PROVE Stream'
  <2>1. OthersKept(g) /\ driver'[g].pc \in {"loop", "lock"} /\ driver[g].pc = "begin"
    BY <1>0, <1>1, BeginEffect DEF Begin
  <2> QED
    BY <1>d, <1>1, <2>1 DEF Begin
<1>2. ASSUME NEW g \in Gens, SeeCancel(g) PROVE Stream'
  <2>1. OthersKept(g) /\ driver'[g].pc = "lock" /\ driver[g].pc = "loop"
    BY <1>0, <1>2, LeaveEffect DEF SeeCancel
  <2> QED
    BY <1>d, <1>2, <2>1 DEF SeeCancel
<1>3. ASSUME NEW g \in Gens, Receive(g) PROVE Stream'
  <2>1. OthersKept(g) /\ driver'[g].pc \in {"delta", "loop", "lock"} /\ driver[g].pc = "loop"
    BY <1>0, <1>3, ReceiveEffect DEF Receive
  <2> QED
    BY <1>d, <1>3, <2>1 DEF Receive
<1>4. ASSUME NEW g \in Gens, WriteDelta(g) PROVE Stream'
  <2>1. /\ OthersKept(g) /\ driver[g].pc = "delta" /\ gate[g] = Free
        /\ UNCHANGED <<status, hub, log, flag, sub>>
    BY <1>0, <1>4, WriteDeltaEffect DEF WriteDelta
  <2>2. CASE driver'[g].pc = "loop" /\ UNCHANGED text
    BY <1>d, <2>1, <2>2
  <2>3. CASE Streaming /\ driver'[g].pc = "publish" /\ text' = text + 1
    <3>1. hub = g
      BY <1>w, <2>1, <2>3 DEF Works, Driving, Streaming, Fits
    <3>2. Published(hub)' = Published(hub)
      BY <1>0, <2>1, <2>3, <3>1 DEF Published
    <3>3. EndingsLast'
      BY <2>1 DEF Stream, EndingsLast, LastEnds
    <3>4. ASSUME NEW s \in Subs PROVE ToldBy(s)' /\ Seen(s)'
      <4>1. ~(sub[s].pc = "attach" /\ sub[s].gen = hub)
        BY <2>1, <3>1, <3>4, ActorsAssumption DEF Locks, GateOwned
      <4> QED
        BY <1>s, <2>1, <3>2, <3>4, <4>1 DEF ToldBy, Seen, Continues
    <3> QED
      BY <3>3, <3>4 DEF Stream, Told, Viewed
  <2> QED
    BY <1>0, <1>4, <2>2, <2>3, WriteDeltaEffect
<1>5. ASSUME NEW g \in Gens, PublishDelta(g) PROVE Stream'
  <2>1. /\ OthersKept(g) /\ driver[g].pc = "publish" /\ driver'[g].pc = "loop"
        /\ log' = [log EXCEPT ![g] = Append(log[g], Delta(text))]
        /\ UNCHANGED <<text, hub, sub>>
    BY <1>0, <1>5, GoToEffect DEF PublishDelta
  <2>2. hub = g
    BY <1>w, <2>1 DEF Works, Driving, Fits
  <2>3. Delta(text) \in Event
    BY <1>0 DEF Delta, Event
  <2> QED
    BY <2>1, <2>2, <2>3, StreamGrows
<1>6. ASSUME NEW g \in Gens, Lock(g) PROVE Stream'
  <2>1. /\ OthersKept(g) /\ driver'[g].pc \in {"gate", "park", "settle", "retire"}
        /\ driver[g].pc \in {"lock", "gate"}
    BY <1>0, <1>6, LockEffect DEF Lock
  <2> QED
    BY <1>d, <1>6, <2>1 DEF Lock
<1>7. ASSUME NEW g \in Gens, Park(g) PROVE Stream'
  <2>1. /\ OthersKept(g) /\ driver'[g].pc = "lock" /\ driver[g].pc = "park"
        /\ hub' = hub \/ hub' = RemovedOwn(g)
    BY <1>0, <1>7, ParkEffect
  <2> QED
    BY <1>d, <1>7, <2>1 DEF Park
<1>8. ASSUME NEW g \in Gens, Persist(g) PROVE Stream'
  <2>1. OthersKept(g) /\ driver'[g].pc = "announce" /\ driver[g].pc = "settle"
    BY <1>0, <1>8, PersistEffect
  <2> QED
    BY <1>d, <1>8, <2>1 DEF Persist
<1>9. ASSUME NEW g \in Gens, PersistFails(g) PROVE Stream'
  <2>1. OthersKept(g) /\ driver'[g].pc \in {"settle", "gone"} /\ driver[g].pc = "settle"
    BY <1>0, <1>9, PersistFailsEffect DEF PersistFails
  <2> QED
    BY <1>d, <1>9, <2>1 DEF PersistFails
<1>10. ASSUME NEW g \in Gens, Announce(g) PROVE Stream'
  <2>1. /\ OthersKept(g) /\ driver[g].pc = "announce" /\ hub' = RemovedOwn(g)
        /\ driver'[g].pc = "gone" /\ UNCHANGED <<text, sub>>
    BY <1>0, <1>10, GoneEffect DEF Announce
  <2>2. CASE log' = log
    BY <1>d, <2>1, <2>2
  <2>3. CASE /\ driver[g].won
             /\ log' = [log EXCEPT ![g] = Append(log[g], Ending(Announced(g)))]
    <3>1. hub = g /\ hub' = 0
      BY <1>w, <2>1, <2>3 DEF Works, RemovedOwn
    <3>2. Ending(Announced(g)) \in Event /\ Ending(Announced(g)).kind # "delta"
      BY DEF Ending, Announced, Event
    <3> QED
      BY <2>1, <2>3, <3>1, <3>2, StreamGrows
  <2> QED
    BY <1>10, <2>2, <2>3 DEF Announce
<1>11. ASSUME NEW g \in Gens, Retire(g) PROVE Stream'
  <2>1. OthersKept(g) /\ driver'[g].pc = "gone" /\ driver[g].pc = "retire"
    BY <1>0, <1>11, GoneEffect DEF Retire
  <2> QED
    BY <1>d, <1>11, <2>1 DEF Retire
<1>12. CASE StopBegin
  BY <1>12, StreamCalm DEF StopBegin
<1>13. CASE StopCommit
  BY <1>13, StreamCalm DEF StopCommit
<1>14. CASE StopPublish
  <2>1. hub = stop.gen /\ hub \in Gens /\ hub' = 0
    BY <1>14, Created DEF StopPublish, Registry, RequestsRegistered, Aimed, RemovedOwn
  <2>2. Ending("cancelled") \in Event /\ Ending("cancelled").kind # "delta"
    BY DEF Ending, Event
  <2> QED
    BY <1>14, <2>1, <2>2, StreamGrows DEF StopPublish
<1>15. ASSUME NEW a \in Activators, NEW kind \in {"resume", "retry"}, ActBegin(a, kind)
       PROVE Stream'
  BY <1>15, StreamCalm DEF ActBegin
<1>16. ASSUME NEW a \in Activators, ActRegister(a) PROVE Stream'
  <2>1. UNCHANGED <<text, log, sub, driver>>
    BY <1>16 DEF ActRegister
  <2>2. CASE UNCHANGED registry
    BY <2>1, <2>2, StreamCalm
  <2>3. CASE gen + 1 \in Gens /\ hub' = gen + 1
    <3>1. gen + 1 > gen
      BY Created
    <3>2. log[gen + 1] = <<>>
      BY <2>3, <3>1 DEF Registry, Fresh
    <3> QED
      BY <2>1, <2>3, <3>1, <3>2, StreamCalm
  <2> QED
    BY <1>16, <2>2, <2>3, ActRegisterEffect
<1>17. ASSUME NEW a \in Activators, ActCas(a) PROVE Stream'
  <2>1. PICK g \in Gens : g = act[a].gen
    BY <1>17, ActCasEffect
  <2>2. /\ hub = g /\ driver[g].pc = "gone" /\ \A s \in Subs : sub[s].gen # hub
        /\ UNCHANGED <<log, sub>>
    BY <1>17, <2>1 DEF ActCas, Registry, RequestsRegistered, Registering
  <2>3. CASE OthersKept(g) /\ driver'[g].pc = "begin" /\ UNCHANGED hub
    BY <2>2, <2>3, StreamCalm DEF OthersKept
  <2>4. CASE hub' = RemovedOwn(g) /\ UNCHANGED <<text, driver>>
    BY <2>2, <2>4, StreamCalm DEF RemovedOwn
  <2> QED
    BY <1>17, <2>1, <2>3, <2>4, ActCasEffect
<1>t. Timeline = [n \in 1..Len(Timeline) |-> n] /\ Len(Timeline) = text
  BY TimelineTyped DEF Timeline
\* One notice more is one notice, to who was told nothing.
<1>o. ASSUME NEW told, told = <<>>, NEW notice PROVE Len(Append(told, notice)) = 1
  BY <1>o
<1>r. ASSUME NEW s \in Subs, NEW why \in {"subscribe", "reopen"}, Attend(s, why), sub[s].told = <<>>
      PROVE  Stream'
  <2>1. SubsKept(s) /\ UNCHANGED <<log, hub, text, driver>>
    BY <1>r, AttendEffect DEF Attend
  <2>2. CASE sub'[s].pc = "gate" /\ sub'[s].view = sub[s].view /\ sub'[s].told = sub[s].told
    <3>1. ToldBy(s)' /\ Seen(s)'
      BY <1>r, <1>s, <2>2 DEF ToldBy, Seen
    <3> QED
      BY <2>1, <3>1, StreamSub
  <2>3. CASE /\ sub'[s].pc = "done"
             /\ sub'[s].view = IF why = "subscribe" THEN Timeline ELSE sub[s].view
             /\ sub'[s].told = Append(sub[s].told, TerminalEvent(status))
    <3>1. ToldBy(s)'
      BY <1>o, <1>r, <2>3 DEF ToldBy
    <3>2. Seen(s)'
      BY <1>s, <1>t, <2>3 DEF Seen
    <3> QED
      BY <2>1, <3>1, <3>2, StreamSub
  <2> QED
    BY <1>r, <2>2, <2>3, AttendEffect
<1>18. ASSUME NEW s \in Subs, Subscribe(s) PROVE Stream'
  BY <1>r, <1>s, <1>18 DEF Subscribe, ToldBy
<1>19. ASSUME NEW s \in Subs, Read(s) PROVE Stream'
  <2>1. /\ SubsKept(s) /\ sub'[s].pc = "attach" /\ sub'[s].gen = sub[s].gen
        /\ sub'[s].why = sub[s].why /\ sub'[s].view = Timeline
        /\ UNCHANGED <<log, hub, text, driver>>
        /\ sub[s].told = <<>>
    BY <1>s, <1>19, ReadEffect DEF Read, ToldBy
  <2>2. Seen(s)'
    BY <1>t, <2>1 DEF Seen
  <2>3. \/ sub'[s].told = <<>>
        \/ /\ sub'[s].told = Append(sub[s].told, TerminalEvent(status))
           /\ sub[s].why = "subscribe"
    BY <1>19, <2>1, ReadEffect
  <2>4. ToldBy(s)'
    BY <1>o, <2>1, <2>3 DEF ToldBy
  <2> QED
    BY <2>1, <2>2, <2>4, StreamSub
<1>20. ASSUME NEW s \in Subs, Attach(s) PROVE Stream'
  <2>1. /\ SubsKept(s) /\ sub[s].pc = "attach"
        /\ sub'[s].pc = IF sub[s].why = "subscribe" /\ sub[s].told # <<>> THEN "done" ELSE "tail"
        /\ sub'[s].gen = sub[s].gen /\ sub'[s].view = sub[s].view
        /\ sub'[s].told = sub[s].told /\ sub'[s].pos = Len(log[sub[s].gen])
        /\ UNCHANGED <<log, hub, text, driver>>
    BY <1>20, AttachEffect DEF Attach
  <2>2. sub[s].gen \in Gens /\ Len(log[sub[s].gen]) \in Nat /\ Len(sub[s].view) \in Nat
    BY <2>1, Receiver
  <2>3. ToldBy(s)'
    <3>1. sub'[s].pos <= Len(log'[sub'[s].gen])
      BY <2>1, <2>2
    <3>2. \/ sub[s].told = <<>>
          \/ Len(sub[s].told) = 1 /\ sub[s].why = "subscribe"
      BY <1>s, <2>1 DEF ToldBy
    <3>3. Len(<<>>) # 1
      BY EmptySeq
    <3> QED
      BY <2>1, <3>1, <3>2, <3>3 DEF ToldBy
  <2>4. sub[s].gen = hub => Len(sub[s].view) = text /\ Published(hub) = text
    <3>1. sub[s].gen = hub => gate[hub] = s
      BY <2>1, <2>2 DEF Locks, GateOwned
    <3>2. sub[s].gen = hub => ~HoldsGate(hub)
      BY <2>2, <3>1, ActorsAssumption DEF Locks, GateOwned
    <3> QED
      BY <1>s, <2>1, <3>2 DEF Seen, Published, HoldsGate
  <2>5. Published(hub)' = Published(hub)
    BY <2>1 DEF Published
  <2>6. Continues(s)'
    <3>1. \A i \in 1..Len(log[sub[s].gen]) : ~(Len(log[sub[s].gen]) < i)
      BY <2>2
    <3>2. sub[s].gen = hub => Len(sub[s].view) + Len(log[hub]) - Len(log[hub]) = Published(hub)
      BY <2>2, <2>4
    <3> QED
      BY <2>1, <2>5, <3>1, <3>2 DEF Continues
  <2>7. Seen(s)'
    BY <1>s, <2>1, <2>6 DEF Seen
  <2> QED
    BY <2>1, <2>3, <2>7, StreamSub
<1>21. ASSUME NEW s \in Subs, Forward(s) PROVE Stream'
  <2> DEFINE q == log[sub[s].gen]
             e == q[sub[s].pos + 1]
  <2>1. /\ SubsKept(s) /\ sub[s].pos < Len(q) /\ e \in Event
        /\ sub[s].pc = "tail" /\ sub'[s].pc = "tail" /\ sub'[s].gen = sub[s].gen
        /\ sub'[s].pos = sub[s].pos + 1
        /\ UNCHANGED <<log, hub, text, driver>>
    BY <1>21, ForwardEffect DEF Forward
  <2>2. /\ sub[s].gen \in Gens /\ Len(q) \in Nat /\ sub[s].pos \in Nat
        /\ sub[s].view \in Seq(Nat) /\ Len(sub[s].view) \in Nat
    BY <2>1, Receiver
  <2>3. sub[s].told = <<>>
    BY <1>s, <2>1, <2>2 DEF ToldBy
  <2>4. /\ sub[s].pos + 1 \in 1..Len(q) /\ sub'[s].pos <= Len(q) /\ sub[s].pos < sub[s].pos + 1
    BY <2>1, <2>2
  <2>5. Published(hub)' = Published(hub)
    BY <2>1 DEF Published
  <2>6. CASE e.kind = "delta" /\ sub'[s].view = Append(sub[s].view, e.n) /\ sub'[s].told = sub[s].told
    <3> DEFINE v == Len(sub[s].view)
               p == sub[s].pos
    <3>1. /\ \A i \in 1..Len(q) : p < i /\ q[i].kind = "delta" => q[i].n = v + i - p
          /\ sub[s].gen = hub => v + Len(q) - p = Published(hub)
      BY <1>s, <2>1 DEF Seen, Continues
    <3>2. v \in Nat /\ p \in Nat /\ p + 1 \in 1..Len(q) /\ Len(q) \in Nat /\ sub'[s].pos = p + 1
      BY <2>1, <2>2, <2>4
    <3>3. e.n = v + 1
      <4>1. e.n = v + (p + 1) - p
        BY <2>4, <2>6, <3>1
      <4> QED
        BY <3>2, <4>1
    <3>4. /\ sub'[s].view = [n \in 1..Len(sub'[s].view) |-> n]
          /\ Len(sub'[s].view) = v + 1
      <4>1. sub[s].view = [n \in 1..v |-> n]
        BY <1>s DEF Seen
      <4> HIDE DEF e
      <4>2. /\ Append(sub[s].view, e.n) = [n \in 1..Len(Append(sub[s].view, e.n)) |-> n]
            /\ Len(Append(sub[s].view, e.n)) = e.n
        BY <2>2, <3>3, <4>1, Contiguous
      <4> QED
        BY <2>6, <3>3, <4>2
    <3>5. Continues(s)'
      <4> HIDE DEF v, p, q
      <4>1. \A i \in 1..Len(q) : p + 1 < i /\ q[i].kind = "delta" => q[i].n = (v + 1) + i - (p + 1)
        <5> SUFFICES ASSUME NEW i \in 1..Len(q), p + 1 < i, q[i].kind = "delta"
                     PROVE  q[i].n = (v + 1) + i - (p + 1)
          OBVIOUS
        <5>1. p < i
          BY <3>2
        <5>2. q[i].n = v + i - p
          BY <3>1, <5>1
        <5> QED
          BY <3>2, <5>2
      <4>2. sub[s].gen = hub => (v + 1) + Len(q) - (p + 1) = Published(hub)
        <5>1. (v + 1) + Len(q) - (p + 1) = v + Len(q) - p
          BY <3>2
        <5> QED
          BY <3>1, <5>1
      <4>3. /\ sub'[s].gen = sub[s].gen /\ sub'[s].pos = p + 1 /\ Len(sub'[s].view) = v + 1
            /\ log'[sub'[s].gen] = q /\ hub' = hub /\ (Published(hub))' = Published(hub)
        BY <2>1, <2>5, <3>4 DEF p, q
      <4>4. sub[s].gen = hub => log'[hub'] = q
        BY <4>3
      <4> QED
        BY <4>1, <4>2, <4>3, <4>4 DEF Continues
    <3>6. ToldBy(s)' /\ Seen(s)'
      BY <2>1, <2>3, <2>4, <2>6, <3>4, <3>5 DEF ToldBy, Seen
    <3> QED
      BY <2>1, <3>6, StreamSub
  <2>7. CASE e.kind # "delta" /\ sub'[s].view = sub[s].view /\ sub'[s].told = Append(sub[s].told, e.kind)
    <3>1. sub[s].pos + 1 = Len(q) /\ hub # sub[s].gen
      BY <2>2, <2>4, <2>7 DEF Stream, EndingsLast, LastEnds
    <3>2. Len(sub'[s].told) = 1
      BY <1>o, <2>3, <2>7
    <3>3. ToldBy(s)'
      BY <2>1, <2>4, <3>1, <3>2 DEF ToldBy
    <3>4. \A i \in 1..Len(q) : ~(sub'[s].pos < i)
      BY <2>1, <2>2, <3>1
    <3>5. Seen(s)'
      BY <1>s, <2>1, <2>7, <3>1, <3>4 DEF Seen, Continues
    <3> QED
      BY <2>1, <3>3, <3>5, StreamSub
  <2> QED
    BY <1>21, <2>6, <2>7, ForwardEffect
<1>22. ASSUME NEW s \in Subs, Lagged(s) PROVE Stream'
  <2>1. /\ SubsKept(s) /\ sub[s].pc = "tail" /\ sub'[s].pc = "gate"
        /\ sub'[s].view = sub[s].view /\ sub'[s].told = sub[s].told
        /\ UNCHANGED <<log, hub, text, driver>>
    BY <1>0, <1>22, LaggedEffect DEF Lagged
  <2>2. Len(Unread(s)) # 0
    BY <1>22, <2>1, UnreadIs, BoundsAssumption, LenProperties DEF Lagged
  <2>3. sub[s].told = <<>>
    BY <1>s, <2>1, <2>2, UnreadIs DEF ToldBy
  <2>4. ToldBy(s)' /\ Seen(s)'
    BY <1>s, <2>1, <2>3 DEF ToldBy, Seen
  <2> QED
    BY <2>1, <2>4, StreamSub
<1>23. ASSUME NEW s \in Subs, Closed(s) PROVE Stream'
  <2>1. CASE sub[s].told = <<>> /\ Attend(s, "reopen")
    BY <1>r, <2>1
  <2>2. CASE /\ SubsKept(s) /\ UNCHANGED registry /\ sub'[s].pc = "done"
             /\ sub'[s].view = sub[s].view /\ sub'[s].told = sub[s].told /\ sub[s].told # <<>>
    <3>1. UNCHANGED <<log, hub, text, driver>> /\ sub[s].pc = "tail"
      BY <1>23, <2>2 DEF Closed, SawTerminal
    <3>2. ToldBy(s)' /\ Seen(s)'
      BY <1>s, <2>2, <3>1 DEF ToldBy, Seen
    <3> QED
      BY <2>2, <3>1, <3>2, StreamSub
  <2> QED
    BY <1>0, <1>23, <2>1, <2>2, ClosedEffect
<1>i. /\ NotSubscribed.pc = "idle" /\ NotSubscribed.told = <<>> /\ NotSubscribed.view = <<>>
      /\ Len(<<>>) = 0 /\ <<>> = [n \in 1..0 |-> n]
  BY EmptySeq DEF NotSubscribed
<1>24. ASSUME NEW s \in Subs, Disconnect(s) PROVE Stream'
  <2>1. SubsKept(s) /\ sub'[s] = NotSubscribed /\ UNCHANGED <<log, hub, text, driver>>
    BY <1>0, <1>24, DisconnectEffect DEF Disconnect
  <2>2. ToldBy(s)' /\ Seen(s)'
    BY <1>i, <2>1 DEF ToldBy, Seen
  <2> QED
    BY <2>1, <2>2, StreamSub
<1>v. ASSUME Down PROVE Stream'
  <2>1. EndingsLast'
    <3>1. \A g \in Gens : log'[g] = <<>>
      BY <1>v DEF Down
    <3> QED
      BY <3>1 DEF EndingsLast, LastEnds
  <2>2. ASSUME NEW s \in Subs PROVE ToldBy(s)' /\ Seen(s)'
    <3>1. sub'[s] = NotSubscribed
      BY <1>v, <2>2 DEF Down
    <3> QED
      BY <1>i, <3>1 DEF ToldBy, Seen
  <2> QED
    BY <2>1, <2>2 DEF Stream, Told, Viewed
<1>25. CASE Crash
  BY <1>v, <1>25 DEF Crash
<1>26. CASE Shutdown
  BY <1>v, <1>26 DEF Shutdown
<1>27. CASE Boot
  BY <1>27, StreamCalm DEF Boot
<1>28. CASE UNCHANGED vars
  BY <1>28, StreamCalm DEF vars
<1> QED
  BY <1>1, <1>2, <1>3, <1>4, <1>5, <1>6, <1>7, <1>8, <1>9, <1>10, <1>11, <1>12, <1>13, <1>14,
     <1>15, <1>16, <1>17, <1>18, <1>19, <1>20, <1>21, <1>22, <1>23, <1>24, <1>25, <1>26, <1>27,
     <1>28 DEF Next, DriverStep, StopStep, ActStep, SubStep

-----------------------------------------------------------------------------
(* The theorems.                                                           *)

LEMMA Invariance == Spec => []IInv
<1>1. Init => IInv
  BY TypedInit, LocksInit, RegistryInit, StreamInit DEF IInv
<1>2. IInv /\ [Next]_vars => IInv'
  BY TypedStep, LocksStep, RegistryStep, StreamStep DEF IInv, Registry
<1> QED
  BY <1>1, <1>2, PTL DEF Spec

\* Every variable keeps its type.
THEOREM TypeCorrect == Spec => []TypeOK
<1>1. IInv => TypeOK
  BY DEF IInv, Typed
<1> QED
  BY <1>1, Invariance, PTL

LEMMA SeqOfFunction ==
  ASSUME NEW n \in Nat, NEW f \in [1..n -> Nat]
  PROVE  f \in Seq(Nat) /\ Len(f) = n
<1>1. f \in Seq(Nat)
  BY SeqDef
<1> QED
  BY <1>1

\* Numbers that go on where a view ends make up one longer view.
LEMMA ConcatNumbers ==
  ASSUME NEW v \in Seq(Nat), NEW k \in Seq(Nat),
         \A i \in 1..Len(v) : v[i] = i,
         \A i \in 1..Len(k) : k[i] = Len(v) + i
  PROVE  v \o k = [n \in 1..(Len(v) + Len(k)) |-> n]
<1> DEFINE t == Len(v) + Len(k)
           w == [n \in 1..t |-> n]
<1>1. Len(v) \in Nat /\ Len(k) \in Nat /\ t \in Nat
  BY LenProperties
<1>2. /\ v \o k \in Seq(Nat) /\ Len(v \o k) = t
      /\ \A i \in 1..t : (v \o k)[i] = IF i <= Len(v) THEN v[i] ELSE k[i - Len(v)]
  BY ConcatProperties
<1> HIDE DEF t
<1>3. w \in [1..t -> Nat] /\ \A i \in 1..t : w[i] = i
  BY <1>1
<1>4. w \in Seq(Nat) /\ Len(w) = t
  BY <1>1, <1>3, SeqOfFunction
<1>5. ASSUME NEW i \in 1..t PROVE (v \o k)[i] = w[i]
  <2>1. CASE i <= Len(v)
    <3>1. i \in 1..Len(v)
      BY <1>1, <2>1
    <3> QED
      BY <1>2, <1>3, <2>1, <3>1
  <2>2. CASE ~(i <= Len(v))
    <3>1. i - Len(v) \in 1..Len(k) /\ Len(v) + (i - Len(v)) = i
      BY <1>1, <2>2 DEF t
    <3> QED
      BY <1>2, <1>3, <2>2, <3>1
  <2> QED
    BY <2>1, <2>2
<1> HIDE DEF w
<1>6. v \o k = w
  BY <1>2, <1>4, <1>5, SeqEqual
<1> QED
  BY <1>6 DEF t, w

\* In a settled generation the view and what is still unread make up the text.
LEMMA ViewAndUnread ==
  ASSUME IInv, NEW s \in Subs, sub[s].pc = "tail", sub[s].gen = hub, driver[hub].pc # "publish"
  PROVE  sub[s].view \o Numbers(Unread(s)) = Timeline
<1> DEFINE v == sub[s].view
           u == Unread(s)
           k == Numbers(Unread(s))
           q == log[hub]
<1>1. /\ TypeOK /\ Aimed /\ ToldBy(s) /\ Seen(s) /\ hub \in Gens /\ LastEnds(hub)
      /\ text \in Nat
  BY Receiver, BoundsAssumption DEF IInv, Typed, Stream, Told, Viewed, EndingsLast, TypeOK
<1>2. /\ v \in Seq(Nat) /\ Len(v) \in Nat /\ sub[s].pos \in Nat /\ Len(q) \in Nat
      /\ sub[s].pos <= Len(q)
  BY <1>1, Receiver DEF ToldBy
<1>3. u \in Seq(Event) /\ Len(u) = Len(q) - sub[s].pos /\ Len(u) \in Nat
      /\ \A i \in 1..Len(u) : u[i] = q[sub[s].pos + i]
  BY <1>1, <1>2, UnreadIs
<1>4. Len(v) + Len(u) = text
  BY <1>1, <1>2, <1>3 DEF Seen, Continues, Published
<1>5. ASSUME NEW i \in 1..Len(u) PROVE u[i].n = Len(v) + i /\ u[i].n \in Nat
  <2> DEFINE j == sub[s].pos + i
  <2>1. j \in 1..Len(q) /\ sub[s].pos < j /\ Len(v) + j - sub[s].pos = Len(v) + i
    <3> HIDE DEF q, u, v
    <3>1. i \in Nat /\ 1 <= i /\ i <= Len(q) - sub[s].pos
      BY <1>3
    <3> QED
      BY <1>2, <3>1
  <2>2. \A l \in 1..Len(q) : sub[s].pos < l /\ q[l].kind = "delta"
                             => q[l].n = Len(v) + l - sub[s].pos
    BY <1>1 DEF Seen, Continues
  <2>3. \A l \in 1..Len(q) : q[l].kind = "delta"
    BY <1>1 DEF LastEnds
  <2> HIDE DEF q, j
  <2>4. q[j].n = Len(v) + j - sub[s].pos
    BY <2>1, <2>2, <2>3
  <2>5. u[i] = q[j]
    BY <1>3 DEF j, q
  <2> QED
    BY <1>2, <2>1, <2>4, <2>5
<1>6. DOMAIN u = 1..Len(u)
  BY <1>3, LenProperties
<1> HIDE DEF u
<1>7. k = [i \in 1..Len(u) |-> u[i].n]
  BY <1>6 DEF Numbers, u
<1>8. k \in Seq(Nat) /\ Len(k) = Len(u) /\ \A i \in 1..Len(u) : k[i] = Len(v) + i
  <2>1. k \in [1..Len(u) -> Nat]
    BY <1>5, <1>7
  <2>2. \A i \in 1..Len(u) : k[i] = Len(v) + i
    BY <1>5, <1>7
  <2> QED
    BY <1>3, <2>1, <2>2, SeqOfFunction
<1>9. \A i \in 1..Len(v) : v[i] = i
  BY <1>1 DEF Seen
<1> HIDE DEF v, k
<1>10. v \o k = [n \in 1..(Len(v) + Len(k)) |-> n]
  BY <1>2, <1>8, <1>9, ConcatNumbers
<1>11. v \o k = [n \in 1..text |-> n]
  BY <1>4, <1>8, <1>10
<1> QED
  BY <1>11 DEF Timeline, v, k

\* What a subscriber sees of a Run is one faithful stream, whenever it came,
\* however far it lagged, and across generations of the hub (hub.rs, subscribe.rs).
THEOREM StreamFaithful == Spec => []StreamIsFaithful
<1>1. IInv => TypeOK /\ NoGapNoDuplicate /\ ViewIsContiguous
  BY ViewAndUnread DEF IInv, Typed, Stream, Viewed, Seen, NoGapNoDuplicate, ViewIsContiguous
<1>2. IInv => OneClosingNotice
  <2> SUFFICES ASSUME IInv, NEW s \in Subs
               PROVE  Len(sub[s].told) <= 1 /\ (sub[s].pc = "done" => Len(sub[s].told) = 1)
    BY DEF OneClosingNotice
  <2>1. ToldBy(s) /\ sub[s] \in SubRecord
    BY DEF IInv, Typed, TypeOK, Stream, Told
  <2>2. sub[s].pc \in {"idle", "gate", "attach", "tail", "done"}
    BY <2>1 DEF SubRecord
  <2>3. sub[s].told = <<>> \/ Len(sub[s].told) = 1
    BY <2>1, <2>2 DEF ToldBy
  <2>4. Len(<<>>) = 0
    BY EmptySeq
  <2>5. Len(sub[s].told) = 0 \/ Len(sub[s].told) = 1
    BY <2>3, <2>4
  <2>6. Len(sub[s].told) <= 1
    <3> DEFINE n == Len(sub[s].told)
    <3>1. n = 0 \/ n = 1
      BY <2>5
    <3> HIDE DEF n
    <3>2. n <= 1
      BY <3>1
    <3> QED
      BY <3>2 DEF n
  <2>7. sub[s].pc = "done" => Len(sub[s].told) = 1
    BY <2>1 DEF ToldBy
  <2> QED
    BY <2>6, <2>7
<1>3. IInv => StreamIsFaithful
  BY <1>1, <1>2 DEF StreamIsFaithful
<1> QED
  BY <1>3, Invariance, PTL

\* A Run that reads `running` has its producer registered, so Stop can signal it
\* and a subscriber can find it, whoever raced to activate or remove the hub.
THEOREM RunningReachable == Spec => []RunningIsReachable
<1>1. IInv => RunningIsReachable
  BY DEF IInv, Registry, RunningIsDriven, Driving, RunningIsReachable
<1> QED
  BY <1>1, Invariance, PTL

\* The two locks exclude: whoever reads the timeline and attaches holds the gate
\* against the Worker's write and publish (hub.rs, worker/run.rs).
THEOREM GateExcludes ==
  Spec => [](\A s \in Subs : sub[s].pc = "attach" =>
                 driver[sub[s].gen].pc \notin {"publish", "park", "settle", "announce", "retire"})
<1> DEFINE Excluded ==
      \A s \in Subs : sub[s].pc = "attach" =>
          driver[sub[s].gen].pc \notin {"publish", "park", "settle", "announce", "retire"}
<1>1. IInv => Excluded
  <2> SUFFICES ASSUME IInv, NEW s \in Subs, sub[s].pc = "attach"
               PROVE  ~HoldsGate(sub[s].gen)
    BY DEF HoldsGate
  <2>1. sub[s].gen \in Gens
    BY Receiver DEF IInv, Typed
  <2>2. gate[sub[s].gen] = s
    BY <2>1 DEF IInv, Locks, GateOwned
  <2> QED
    BY <2>1, <2>2, ActorsAssumption DEF IInv, Locks, GateOwned
<1> QED
  BY <1>1, Invariance, PTL

-----------------------------------------------------------------------------
(* What one step may do to a channel, and what it may tell a client.       *)

\* A channel that got longer got the delta just written, or the ending of the
\* terminal transition that was just won.
LEMMA Publishes ==
  ASSUME IInv, [Next]_vars, NEW g \in Gens, Len(log'[g]) > Len(log[g])
  PROVE  /\ status' = status /\ text' = text
         /\ \/ /\ driver[g].pc = "publish" /\ status = "running"
               /\ log'[g][Len(log'[g])] = Delta(text)
            \/ /\ driver[g].pc = "announce" /\ driver[g].won /\ status = Target(g)
               /\ log'[g][Len(log'[g])] = Ending(Announced(g))
            \/ /\ status = "cancelled"
               /\ log'[g][Len(log'[g])] = Ending("cancelled")
<1>0. /\ TypeOK /\ JobFits /\ Aimed /\ Registry /\ DriverTyped
      /\ log \in [Gens -> Seq(Event)] /\ log[g] \in Seq(Event) /\ Len(log[g]) \in Nat
  BY LenProperties DEF IInv, Typed, TypeOK, DriverTyped
<1>w. \A h \in Gens : Works(h) /\ Fits(h)
  BY <1>0 DEF Registry, WorksRegistered, JobFits
<1>n. log' # log
  BY <1>0
<1>a. ASSUME NEW h \in Gens, NEW e, log' = [log EXCEPT ![h] = Append(log[h], e)],
             e = Delta(text) \/ e \in {Ending(k) : k \in Statuses}
      PROVE  h = g /\ log'[g][Len(log'[g])] = e
  <2>1. h = g
    BY <1>0, <1>a
  <2>2. log'[g] = Append(log[g], e)
    BY <1>0, <1>a, <2>1
  <2>3. text \in Nat
    BY <1>0, BoundsAssumption DEF TypeOK
  <2> QED
    BY <1>0, <2>1, <2>2
<1>1. ASSUME NEW h \in Gens, DriverStep(h) \/ Receive(h) \/ PersistFails(h)
      PROVE  PublishDelta(h) \/ Announce(h)
  BY <1>n, <1>1 DEF DriverStep, Begin, SeeCancel, Receive, WriteDelta, Lock, Park, Persist,
                    PersistFails, Retire
<1>2. ASSUME NEW h \in Gens, PublishDelta(h)
      PROVE  /\ h = g /\ driver[g].pc = "publish" /\ status = "running"
             /\ UNCHANGED <<status, text>> /\ log'[g][Len(log'[g])] = Delta(text)
  <2>1. /\ driver[h].pc = "publish" /\ log' = [log EXCEPT ![h] = Append(log[h], Delta(text))]
        /\ UNCHANGED <<status, text>>
    BY <1>2 DEF PublishDelta
  <2>2. status = "running"
    BY <1>w, <2>1 DEF Works, Driving, Fits
  <2> QED
    BY <1>a, <2>1, <2>2
<1>3. ASSUME NEW h \in Gens, Announce(h)
      PROVE  /\ h = g /\ driver[g].pc = "announce" /\ driver[g].won /\ status = Target(g)
             /\ UNCHANGED <<status, text>>
             /\ log'[g][Len(log'[g])] = Ending(Announced(g))
  <2>1. /\ driver[h].pc = "announce" /\ driver[h].won
        /\ log' = [log EXCEPT ![h] = Append(log[h], Ending(Announced(h)))]
        /\ UNCHANGED <<status, text>>
    BY <1>3, <1>n DEF Announce
  <2>2. status = Target(h) /\ Announced(h) \in Statuses
    BY <1>w, <2>1 DEF Works, Announced
  <2> QED
    BY <1>a, <2>1, <2>2
<1>4. ASSUME StopPublish
      PROVE  /\ status = "cancelled" /\ UNCHANGED <<status, text>>
             /\ log'[g][Len(log'[g])] = Ending("cancelled")
  <2>1. /\ log' = [log EXCEPT ![stop.gen] = Append(log[stop.gen], Ending("cancelled"))]
        /\ UNCHANGED <<status, text>> /\ stop.pc = "publish"
    BY <1>4 DEF StopPublish
  <2>2. stop.gen \in Gens /\ status = "cancelled"
    BY <1>0, <2>1, Created DEF Aimed, Registry, RequestsRegistered
  <2> QED
    BY <1>a, <2>1, <2>2
<1>5. ~Down
  <2>1. Down => Len(log'[g]) = 0
    BY EmptySeq DEF Down
  <2> QED
    BY <1>0, <2>1
<1>6. \/ \E h \in Gens : PublishDelta(h) \/ Announce(h)
      \/ StopPublish
  <2>1. ~StopBegin /\ ~StopCommit /\ ~Crash /\ ~Shutdown /\ ~Boot /\ ~UNCHANGED vars
    BY <1>5, <1>n DEF StopBegin, StopCommit, Crash, Shutdown, Boot, vars
  <2>2. ASSUME NEW a \in Activators
        PROVE  ~ActStep(a) /\ \A kind \in {"resume", "retry"} : ~ActBegin(a, kind)
    BY <1>n DEF ActStep, ActRegister, ActCas, ActBegin
  <2>3. ASSUME NEW s \in Subs PROVE ~Subscribe(s) /\ ~SubStep(s) /\ ~Disconnect(s)
    BY <1>n DEF Subscribe, SubStep, Attend, Read, Attach, Forward, Lagged, Closed, Disconnect
  <2> QED
    BY <1>1, <2>1, <2>2, <2>3 DEF Next, StopStep
<1> QED
  BY <1>2, <1>3, <1>4, <1>6

\* A cancelled Run stays cancelled, with the text it has.
LEMMA CancelledStands ==
  ASSUME IInv, [Next]_vars, status = "cancelled"
  PROVE  status' = "cancelled" /\ text' = text
<1>1. ASSUME NEW g \in Gens, DriverStep(g) \/ Receive(g) \/ PersistFails(g)
      PROVE  UNCHANGED <<status, text>>
  BY <1>1 DEF DriverStep, Begin, SeeCancel, Receive, WriteDelta, Streaming, PublishDelta, Lock,
              Park, Persist, PersistFails, Announce, Retire
<1>2. ASSUME NEW a \in Activators, ActStep(a) \/ \E kind \in {"resume", "retry"} : ActBegin(a, kind)
      PROVE  UNCHANGED <<status, text>>
  BY <1>2 DEF ActStep, ActRegister, ActCas, ActBegin, From
<1>3. ASSUME NEW s \in Subs, Subscribe(s) \/ SubStep(s) \/ Disconnect(s)
      PROVE  UNCHANGED <<status, text>>
  BY <1>3 DEF Subscribe, SubStep, Attend, Read, Attach, Forward, Lagged, Closed, Disconnect
<1>4. CASE StopBegin \/ StopStep
  BY <1>4 DEF StopBegin, StopStep, StopCommit, StopPublish
<1>5. CASE Crash \/ Shutdown \/ Boot
  BY <1>5 DEF Crash, Shutdown, Boot, Down
<1>6. CASE UNCHANGED vars
  BY <1>6 DEF vars
<1> QED
  BY <1>1, <1>2, <1>3, <1>4, <1>5, <1>6 DEF Next

\* A Stop that won silences its Run: the text is final, the status stays, and
\* nothing but the Cancelled event is published (cancel.rs, worker/run.rs).
THEOREM CancelSilenced == Spec => CancelSilences
<1> DEFINE Silent ==
      status = "cancelled" =>
          /\ status' = "cancelled" /\ text' = text
          /\ \A g \in Gens : Len(log'[g]) > Len(log[g])
                             => log'[g][Len(log'[g])].kind = "cancelled"
<1>1. IInv /\ [Next]_vars => Silent
  <2> SUFFICES ASSUME IInv, [Next]_vars, status = "cancelled" PROVE Silent
    OBVIOUS
  <2>1. ASSUME NEW g \in Gens, Len(log'[g]) > Len(log[g])
        PROVE  log'[g][Len(log'[g])].kind = "cancelled"
    <3>1. Target(g) # "cancelled"
      BY DEF Target
    <3>2. Ending("cancelled").kind = "cancelled"
      BY DEF Ending
    <3> QED
      BY <2>1, <3>1, <3>2, Publishes
  <2> QED
    BY <2>1, CancelledStands
<1>2. IInv /\ [Next]_vars => [Silent]_vars
  BY <1>1
<1> QED
  BY <1>2, Invariance, PTL DEF Spec, CancelSilences

\* A notice served from the database is the outcome that was persisted: no client
\* is told its Run was lost while a live Worker still drives it (subscribe.rs).
LEMMA NoticeIsPersisted ==
  ASSUME IInv, [Next]_vars PROVE SynthesizedIsPersisted
<1> SUFFICES ASSUME NEW s \in Subs, sub'[s].pc = "done", sub[s].pc # "done", sub[s].told = <<>>
             PROVE  sub'[s].told = <<status>>
  BY DEF SynthesizedIsPersisted
<1>0. /\ TypeOK /\ Aimed /\ SubTyped /\ Registry /\ Stream
  BY DEF IInv, Typed, TypeOK, SubTyped
<1>1. ASSUME NEW t \in Subs, NEW why \in {"subscribe", "reopen"}, Attend(t, why), phase # "down"
      PROVE  sub'[s].told = <<status>>
  <2>1. SubsKept(t) /\ (hub = 0 => sub'[t].told = Append(sub[t].told, TerminalEvent(status)))
        /\ (hub # 0 => sub'[t].pc = "gate")
    BY <1>0, <1>1, AttendEffect
  <2>2. s = t /\ hub = 0
    BY <2>1 DEF SubsKept
  <2>3. TerminalEvent(status) = status
    BY <1>0, <1>1, <2>2 DEF Registry, RunningIsDriven, TerminalEvent
  <2> QED
    BY <2>1, <2>2, <2>3
<1>2. ASSUME NEW t \in Subs, Subscribe(t) PROVE sub'[s].told = <<status>>
  BY <1>1, <1>2 DEF Subscribe
<1>3. ASSUME NEW t \in Subs, Closed(t) PROVE sub'[s].told = <<status>>
  <2>1. phase # "down"
    BY <1>0, <1>3 DEF Closed, Registry, Empty
  <2>2. ~(SubsKept(t) /\ sub[t].told # <<>>)
    BY DEF SubsKept
  <2> QED
    BY <1>0, <1>1, <1>3, <2>1, <2>2, ClosedEffect
<1>4. ASSUME NEW t \in Subs PROVE ~Read(t) /\ ~Attach(t) /\ ~Forward(t) /\ ~Lagged(t) /\ ~Disconnect(t)
  <2>1. ~Read(t)
    BY <1>0, ReadEffect DEF SubsKept
  <2>2. ~Attach(t)
    BY <1>0, AttachEffect DEF SubsKept
  <2>3. ~Forward(t)
    <3>1. Forward(t) => SubsKept(t) /\ sub'[t].pc = "tail"
      BY <1>0, ForwardEffect
    <3> QED
      BY <3>1 DEF SubsKept
  <2>4. ~Lagged(t)
    BY <1>0, LaggedEffect DEF SubsKept
  <2>5. ~Disconnect(t)
    <3>1. NotSubscribed.pc # "done"
      BY DEF NotSubscribed
    <3> QED
      BY <1>0, <3>1, DisconnectEffect DEF SubsKept
  <2> QED
    BY <2>1, <2>2, <2>3, <2>4, <2>5
<1>5. ~UNCHANGED sub /\ ~Down
  <2>1. NotSubscribed.pc # "done"
    BY DEF NotSubscribed
  <2> QED
    BY <2>1 DEF Down
<1>6. \E t \in Subs : Subscribe(t) \/ SubStep(t) \/ Disconnect(t)
  <2>1. ~StopBegin /\ ~StopStep /\ ~Crash /\ ~Shutdown /\ ~Boot /\ ~UNCHANGED vars
    BY <1>5 DEF StopBegin, StopStep, StopCommit, StopPublish, Crash, Shutdown, Boot, vars
  <2>2. ASSUME NEW a \in Activators
        PROVE  ~ActStep(a) /\ \A kind \in {"resume", "retry"} : ~ActBegin(a, kind)
    BY <1>5 DEF ActStep, ActRegister, ActCas, ActBegin
  <2>3. ASSUME NEW g \in Gens PROVE ~DriverStep(g) /\ ~Receive(g) /\ ~PersistFails(g)
    BY <1>5 DEF DriverStep, Begin, SeeCancel, Receive, WriteDelta, PublishDelta, Lock, Park,
                Persist, PersistFails, Announce, Retire
  <2> QED
    BY <2>1, <2>2, <2>3 DEF Next
<1> QED
  BY <1>2, <1>3, <1>4, <1>6 DEF SubStep

\* However many transactions fail, what the database tells a client is so.
THEOREM NoticesArePersisted == Spec => [][SynthesizedIsPersisted]_vars
<1>1. IInv /\ [Next]_vars => [SynthesizedIsPersisted]_vars
  BY NoticeIsPersisted
<1> QED
  BY <1>1, Invariance, PTL DEF Spec

\* While fewer transactions fail than make the Worker's outcome give way to the
\* fallback, what the live tail says last is what the database says
\* (worker/run.rs: persist_terminal_with_retry, the publish after it).
THEOREM EndingsMatch ==
  ASSUME MaxFaults < Fallback
  PROVE  Spec => EndingsMatchDurable
<1>1. ASSUME IInv, [Next]_vars PROVE LiveTerminalMatchesDurable
  <2> SUFFICES ASSUME NEW g \in Gens, Len(log'[g]) > Len(log[g]),
                      log'[g][Len(log'[g])].kind # "delta"
               PROVE  log'[g][Len(log'[g])].kind = status
    BY DEF LiveTerminalMatchesDurable
  <2>1. driver[g].try < 2
    <3>1. driver[g].try <= faults /\ faults \in 0..MaxFaults /\ driver[g] \in DriverRecord
      BY <1>1 DEF IInv, Typed, TypeOK, JobFits, Fits
    <3>2. driver[g].try \in 0..2 /\ MaxFaults \in Nat
      BY <3>1, BoundsAssumption DEF DriverRecord
    <3> QED
      BY <3>1, <3>2 DEF Fallback
  <2>2. Target(g) = Announced(g)
    BY <2>1 DEF Target, Announced
  <2>3. /\ Ending("cancelled").kind = "cancelled" /\ Delta(text).kind = "delta"
        /\ Ending(Announced(g)).kind = Announced(g)
    BY DEF Ending, Delta
  <2> QED
    BY <1>1, <2>2, <2>3, Publishes
<1>2. IInv /\ [Next]_vars => [SynthesizedIsPersisted /\ LiveTerminalMatchesDurable]_vars
  BY <1>1, NoticeIsPersisted
<1> QED
  BY <1>2, Invariance, PTL DEF Spec, EndingsMatchDurable
=============================================================================
