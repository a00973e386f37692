--------------------------- MODULE ToolCalls_proofs --------------------------
(***************************************************************************)
(* Proofs about ToolCalls, for every set of calls and every bound on       *)
(* failing transactions and crashes.                                       *)
(*                                                                         *)
(* The inductive invariant IInv has four layers:                           *)
(*   Typed    types;                                                       *)
(*   InHand   the call the task works on is the one the Worker waits for;  *)
(*   Ends     how the status, the gate, the cancel signal and the ending   *)
(*            in the log go together;                                      *)
(*   Record   what the row of a call says at each point of its life, and   *)
(*            what the model was told of it;                               *)
(*   Live     what a client has been shown.                                *)
(***************************************************************************)
EXTENDS ToolCalls, FiniteSetTheorems, SequenceTheorems, TLAPS

Rows == {"none", "pending", "interrupted"} \cup Results
TaskPc == {"loop", "begin", "begun", "ack", "finish", "resolved", "answer", "announce",
           "insert", "run", "report", "park", "settle", "announceEnd", "gone"}
TaskRecord == [pc : TaskPc, call : Calls \cup {NoCall}, result : {"none"} \cup Results, end : Exit]
WorkerRecord == [pc : {"think", "asked", "execute", "finished", "dead"}, call : Calls \cup {NoCall},
                 result : {"none"} \cup Results, alive : BOOLEAN]
Views == {"none", "started", "completed", "error"}
ClientRecord == [on : BOOLEAN, view : [Tools -> Views]]
Event == [call : Calls \cup {NoCall}, shown : Views \cup {"cancelled", "errored"}]

Typed ==
    /\ status \in {"running", "parked"} \cup Terminal
    /\ row \in [Calls -> Rows] /\ told \in [Calls -> {"none"} \cup Results]
    /\ used \subseteq Calls /\ IsFiniteSet(used)
    /\ gate \in {"free", "driver", "stop"} /\ flag \in BOOLEAN
    /\ driver \in TaskRecord /\ worker \in WorkerRecord
    /\ log \in Seq(Event) /\ client \in ClientRecord

\* The task's call, in each part of its life, is the one the Worker waits for.
Same == driver.call = worker.call
InHand ==
    /\ worker.pc \in {"think", "dead"} => worker.call = NoCall
    /\ worker.pc = "asked" => worker.call \in Calls
    /\ worker.pc \in {"execute", "finished"} => worker.call \in External
    /\ worker.pc = "finished" => worker.result \in Results
    /\ driver.pc \in {"begin", "begun", "ack"} =>
           worker.pc = "asked" /\ Same /\ driver.call \in External
    /\ driver.pc \in {"finish", "resolved"} =>
           worker.pc = "finished" /\ Same /\ driver.result = worker.result
    /\ driver.pc \in {"announce", "insert", "run", "report"} =>
           worker.pc = "asked" /\ Same /\ driver.call \notin External
    /\ driver.pc = "park" => worker.pc = "asked" /\ Same /\ driver.call \in Proposal
    /\ driver.pc = "answer" =>
           /\ Same /\ driver.call \in Calls
           /\ IF driver.call \in External
              THEN worker.pc = "finished" /\ driver.result = worker.result
              ELSE worker.pc = "asked"
    /\ driver.pc \in {"report", "answer"} => driver.result \in Results
    /\ driver.pc \in {"settle", "announceEnd", "gone"} => worker.pc = "dead"

\* The gate is held between a commit and its publication; nothing is committed
\* for a Run that ended, and what was published last is its ending.
GateHeld == gate = "driver" <=> driver.pc \in {"begun", "resolved", "announceEnd"}
Ends ==
    /\ GateHeld
    /\ driver.pc \in {"begun", "resolved"} => status = "running"
    /\ driver.pc = "announceEnd" => status \in {"completed", "errored"}
    /\ gate = "stop" => flag
    /\ flag => status = "cancelled"
    /\ Ended => gate = "free" /\ status \in Terminal /\ (driver.pc = "gone" \/ flag)
    /\ SilentAfterEnding

\* A call has no row before it is asked for; its row follows its life.
Unasked(c) == c \notin used => row[c] = "none" /\ told[c] = "none"
\* Only the call at work can be open, and only in a Run that runs.
Open(c) == row[c] = "pending" => status = "running" /\ (worker.pc = "dead" \/ c = worker.call)
\* A result on record was told, unless the model still waits for it.
Untold(c) == worker.pc # "dead" /\ row[c] \in Results => told[c] = row[c] \/ c = worker.call
AtWork(c) ==
    /\ c \in used
    /\ told[c] = "none"
    /\ worker.pc = "asked" /\ driver.pc \in {"loop", "begin", "announce", "insert", "park"} =>
           row[c] = "none"
    /\ driver.pc \in {"begun", "ack"} \/ worker.pc \in {"execute", "finished"} => row[c] # "none"
    /\ driver.pc = "begun" => row[c] = "pending"
    /\ driver.pc = "run" => row[c] \in {"none", "pending"}
    /\ c \in External /\ driver.pc \in {"resolved", "answer"} => row[c] = driver.result
    /\ c \in Internal /\ driver.pc \in {"report", "answer"} /\ row[c] \in Results =>
           row[c] = driver.result
Record ==
    /\ \A c \in Calls : Unasked(c)
    /\ \A c \in External : Open(c)
    /\ \A c \in Tools : Untold(c)
    /\ worker.call # NoCall => AtWork(worker.call)
    /\ ConsumedIsDurable

\* A client shows the rows, but for what was committed and not yet published.
Behind(c) ==
    \/ driver.pc \in {"begun", "resolved"} /\ c = driver.call
    \/ (gate = "stop" \/ driver.pc = "announceEnd") /\ row[c] = "interrupted"
Live == client.on => \A c \in External : client.view[c] = Shown(row[c]) \/ Behind(c)

IInv == Typed /\ InHand /\ Ends /\ Record /\ Live
-----------------------------------------------------------------------------
(* What the operators of the model do to the records they change.          *)

LEMMA Kinds ==
  /\ NoCall \notin Calls /\ External \subseteq Calls /\ Internal \subseteq Calls
  /\ Proposal \subseteq Calls /\ Tools \subseteq Calls
  /\ \A c \in Calls : c \notin External => c \in Internal \/ c \in Proposal
  /\ \A c \in External : c \notin Internal /\ c \notin Proposal
  /\ \A c \in Proposal : c \notin Internal /\ c \notin Tools
  /\ External \subseteq Tools /\ Internal \subseteq Tools
  BY KindsAssumption DEF Calls, Tools

LEMMA Fields ==
  ASSUME Typed
  PROVE  /\ driver.pc \in TaskPc /\ driver.call \in Calls \cup {NoCall}
         /\ driver.result \in {"none"} \cup Results /\ driver.end \in Exit
         /\ worker.pc \in {"think", "asked", "execute", "finished", "dead"}
         /\ worker.call \in Calls \cup {NoCall} /\ worker.result \in {"none"} \cup Results
         /\ client.on \in BOOLEAN /\ client.view \in [Tools -> Views]
<1>1. driver \in TaskRecord /\ worker \in WorkerRecord /\ client \in ClientRecord
  BY DEF Typed
<1> QED
  BY <1>1 DEF TaskRecord, WorkerRecord, ClientRecord

LEMMA TasksAndWorkers ==
  /\ NoTask \in TaskRecord /\ NoTask.pc = "gone" /\ NoTask.call = NoCall
  /\ NewTask \in TaskRecord /\ NewTask.pc = "loop" /\ NewTask.call = NoCall
  /\ NewWorker \in WorkerRecord /\ NewWorker.pc = "think" /\ NewWorker.call = NoCall
  /\ DeadWorker \in WorkerRecord /\ DeadWorker.pc = "dead" /\ DeadWorker.call = NoCall
  BY DEF NoTask, NewTask, NewWorker, DeadWorker, TaskRecord, WorkerRecord, TaskPc, Results, Exit

LEMMA GoToDoes ==
  ASSUME Typed, NEW pc \in TaskPc, GoTo(pc)
  PROVE  /\ driver' \in TaskRecord /\ driver'.pc = pc /\ driver'.call = driver.call
         /\ driver'.result = driver.result
<1>1. driver \in TaskRecord
  BY DEF Typed
<1> QED
  BY <1>1 DEF GoTo, TaskRecord

LEMMA BackDoes ==
  ASSUME Typed, Back
  PROVE  driver' \in TaskRecord /\ driver'.pc = "loop" /\ driver'.call = NoCall
<1>1. driver \in TaskRecord
  BY DEF Typed
<1> QED
  BY <1>1 DEF Back, TaskRecord, TaskPc

LEMMA FailDoes ==
  ASSUME NEW end \in Exit, Fail(end)
  PROVE  /\ driver' \in TaskRecord /\ driver'.pc = "settle" /\ driver'.call = NoCall
         /\ worker' \in WorkerRecord /\ worker'.pc = "dead" /\ worker'.call = NoCall
<1>1. driver' \in TaskRecord /\ driver'.pc = "settle" /\ driver'.call = NoCall
  BY DEF Fail, NoTask, TaskRecord, TaskPc, Results
<1> QED
  BY <1>1, TasksAndWorkers DEF Fail

LEMMA RetireDoes ==
  ASSUME Retire
  PROVE  /\ driver' \in TaskRecord /\ driver'.pc = "gone" /\ driver'.call = NoCall
         /\ worker' \in WorkerRecord /\ worker'.pc = "dead" /\ worker'.call = NoCall
  BY TasksAndWorkers DEF Retire

\* The loop is left: the Worker is gone and the task is, or has to settle.
Left ==
    /\ driver' \in TaskRecord /\ driver'.pc \in {"settle", "gone"} /\ driver'.call = NoCall
    /\ worker' \in WorkerRecord /\ worker'.pc = "dead" /\ worker'.call = NoCall

LEMMA FailLeaves ==
  ASSUME NEW end \in Exit, Fail(end) PROVE Left
  BY FailDoes DEF Left
LEMMA RetireLeaves ==
  ASSUME Retire PROVE Left
  BY RetireDoes DEF Left

-----------------------------------------------------------------------------
(* What a publication does.                                                *)

\* A set put in a sequence is all there.
LEMMA SetToSeqIs ==
  ASSUME NEW S, IsFiniteSet(S)
  PROVE  /\ SetToSeq(S) \in Seq(S)
         /\ \A x \in S : \E i \in 1..Len(SetToSeq(S)) : SetToSeq(S)[i] = x
<1> DEFINE n == Cardinality(S)
           f == SetToSeq(S)
<1>1. n \in Nat /\ ExistsBijection(1..n, S)
  BY FS_CardinalityType
<1>2. \E g \in [1..n -> S] : IsInjective(g)
  BY <1>1 DEF ExistsBijection, Bijection, Injection
<1>3. f \in [1..n -> S] /\ IsInjective(f)
  BY <1>2 DEF SetToSeq
<1>4. f \in Injection(1..n, S)
  BY <1>3 DEF Injection
<1>5. Cardinality(1..n) = n
  BY <1>1, FS_Interval
<1>6. f \in Surjection(1..n, S)
  BY <1>4, <1>5, FS_Injection
<1> HIDE DEF n, f
<1>7. f \in Seq(S) /\ Len(f) = n
  BY <1>1, <1>3, IsASeq
<1> QED
  BY <1>6, <1>7 DEF Surjection, f

LEMMA ConcatAt ==
  ASSUME NEW S, NEW a \in Seq(S), NEW b \in Seq(S)
  PROVE  /\ a \o b \in Seq(S) /\ Len(a \o b) = Len(a) + Len(b)
         /\ DOMAIN (a \o b) = 1..(Len(a) + Len(b))
         /\ \A i \in 1..Len(a) : (a \o b)[i] = a[i]
         /\ \A i \in 1..Len(b) : (a \o b)[Len(a) + i] = b[i]
  BY ConcatProperties, LenProperties

\* What is published is appended, and shown to an attached client: of each
\* call the event that names it.
LEMMA PublishDoes ==
  ASSUME Typed, NEW events \in Seq(Event), Publish(events),
         \A e \in Range(events) : e.call \in Tools => e.shown \in Views
  PROVE  /\ log' \in Seq(Event) /\ client' \in ClientRecord /\ client'.on = client.on
         /\ client.on => \A c \in Tools :
                \/ /\ \A e \in Range(events) : e.call # c
                   /\ client'.view[c] = client.view[c]
                \/ \E e \in Range(events) : e.call = c /\ client'.view[c] = e.shown
<1>1. client \in ClientRecord /\ log \in Seq(Event)
  BY DEF Typed
<1>2. log' \in Seq(Event)
  BY <1>1, ConcatProperties DEF Publish
<1> DEFINE said(c) == (CHOOSE e \in Range(events) : e.call = c).shown
           shows(c) == IF \E e \in Range(events) : e.call = c THEN said(c) ELSE client.view[c]
<1>3. ASSUME NEW c \in Tools
      PROVE  /\ shows(c) \in Views
             /\ \/ /\ \A e \in Range(events) : e.call # c
                   /\ shows(c) = client.view[c]
                \/ \E e \in Range(events) : e.call = c /\ shows(c) = e.shown
  <2>1. CASE \E e \in Range(events) : e.call = c
    <3>1. PICK d : d = CHOOSE e \in Range(events) : e.call = c
      OBVIOUS
    <3>2. d \in Range(events) /\ d.call = c
      BY <2>1, <3>1
    <3> QED
      BY <2>1, <3>1, <3>2
  <2>2. CASE ~\E e \in Range(events) : e.call = c
    BY <1>1, <2>2 DEF ClientRecord
  <2> QED
    BY <2>1, <2>2
<1>4. client.view \in [Tools -> Views] /\ client.on \in BOOLEAN
  BY <1>1 DEF ClientRecord
<1>5. CASE ~client.on
  <2>1. client' = client
    BY <1>1, <1>5 DEF Publish, ClientRecord
  <2> QED
    BY <1>1, <1>2, <1>5, <2>1
<1>6. CASE client.on
  <2>1. client' = [client EXCEPT !.view = [c \in Tools |-> shows(c)]]
    BY <1>6 DEF Publish
  <2> HIDE DEF shows
  <2>2. client'.on = client.on /\ client'.view = [c \in Tools |-> shows(c)]
        /\ client' = [on |-> client.on, view |-> [c \in Tools |-> shows(c)]]
    BY <1>1, <2>1 DEF ClientRecord
  <2>3. client' \in ClientRecord
    BY <1>3, <1>4, <2>2 DEF ClientRecord
  <2> QED
    BY <1>2, <1>3, <2>2, <2>3
<1> QED
  BY <1>4, <1>5, <1>6

\* An event of a call leaves a log without ending without one.
LEMMA PublishesCall ==
  ASSUME Typed, ~Ended, NEW c \in Calls, NEW shown \in Views, Publish(<<ToolEvent(c, shown)>>)
  PROVE  /\ log' \in Seq(Event) /\ client' \in ClientRecord /\ client'.on = client.on
         /\ ~Ended' /\ SilentAfterEnding'
         /\ client.on => \A d \in Tools :
                client'.view[d] = IF d = c THEN shown ELSE client.view[d]
<1> DEFINE e == ToolEvent(c, shown)
           events == <<e>>
<1>1. e \in Event /\ e.call = c /\ e.shown = shown
  BY DEF ToolEvent, Event
<1> HIDE DEF e
<1>2. events \in Seq(Event) /\ Range(events) = {e} /\ Len(events) = 1 /\ events[1] = e
  BY <1>1 DEF Range
<1>3. Publish(events)
  BY DEF e
<1> HIDE DEF events
<1>4. /\ log' \in Seq(Event) /\ client' \in ClientRecord /\ client'.on = client.on
      /\ client.on => \A d \in Tools :
             client'.view[d] = IF d = c THEN shown ELSE client.view[d]
  BY <1>1, <1>2, <1>3, PublishDoes
<1>5. \A i \in DOMAIN log' : log'[i].call # NoCall
  <2>1. log' = log \o events /\ log \in Seq(Event)
    BY <1>3 DEF Publish, Typed
  <2>2. DOMAIN log' = 1..(Len(log) + 1) /\ Len(log) \in Nat /\ DOMAIN log = 1..Len(log)
    <3>1. Len(log) \in Nat /\ DOMAIN log = 1..Len(log)
      BY <2>1, LenProperties
    <3>2. DOMAIN (log \o events) = 1..(Len(log) + Len(events))
      BY <1>2, <2>1, ConcatAt
    <3> QED
      BY <1>2, <2>1, <3>1, <3>2
  <2>3. \A i \in 1..Len(log) : log'[i] = log[i]
    BY <1>2, <2>1, ConcatAt
  <2>4. log'[Len(log) + 1] = e
    BY <1>2, <2>1, <2>2, ConcatAt
  <2> QED
    BY <1>1, <2>2, <2>3, <2>4, Kinds DEF Ended
<1> QED
  BY <1>4, <1>5 DEF Ended, SilentAfterEnding

\* The ending comes last, after an error for each call it interrupted.
LEMMA PublishesEndings ==
  ASSUME Typed, ~Ended, IsFiniteSet(Interrupted), status \in Terminal, Publish(Endings)
  PROVE  /\ log' \in Seq(Event) /\ client' \in ClientRecord /\ client'.on = client.on
         /\ SilentAfterEnding'
         /\ client.on => \A c \in External :
                client'.view[c] = IF row[c] = "interrupted" THEN "error" ELSE client.view[c]
<1> DEFINE S == {ToolEvent(c, "error") : c \in Interrupted}
           q == SetToSeq(S)
           n == Len(q)
           last == Ending(status)
           events == Append(q, last)
<1>1. IsFiniteSet(S)
  <2> DEFINE f == [c \in Interrupted |-> ToolEvent(c, "error")]
  <2>1. f \in Surjection(Interrupted, S)
    BY DEF Surjection
  <2> QED
    BY <2>1, FS_Surjection
<1>2. q \in Seq(S) /\ n \in Nat /\ DOMAIN q = 1..n /\ \A x \in S : \E i \in 1..n : q[i] = x
  BY <1>1, SetToSeqIs, LenProperties
<1>3. \A x \in S : \E c \in Interrupted : x = ToolEvent(c, "error")
  OBVIOUS
<1>4. /\ \A c \in Interrupted : c \in External /\ row[c] = "interrupted" /\ ToolEvent(c, "error") \in S
      /\ \A c \in External : row[c] = "interrupted" => c \in Interrupted
  BY DEF Interrupted
<1>5. \A c \in Interrupted : /\ ToolEvent(c, "error").call = c /\ ToolEvent(c, "error").shown = "error"
                             /\ ToolEvent(c, "error") \in Event
  BY <1>4, Kinds DEF ToolEvent, Event, Views
<1>6. last \in Event /\ last.call = NoCall
  BY DEF Ending, Event, Terminal, Views
<1> HIDE DEF S, last
<1>7. \A i \in 1..n : q[i] \in S
  BY <1>2, ElementOfSeq
<1> HIDE DEF q, n
<1>8. q \in Seq(Event)
  BY <1>2, <1>3, <1>5, SeqMonotonic
<1>9. /\ events \in Seq(Event) /\ DOMAIN events = 1..(n + 1) /\ Len(events) = n + 1
      /\ \A i \in 1..n : events[i] = q[i]
      /\ events[n + 1] = last
  BY <1>2, <1>6, <1>8, AppendProperties, LenProperties DEF n
<1>10. Publish(events)
  BY DEF Endings, q, last, S
<1> HIDE DEF events
<1>11. /\ \A e \in Range(events) : e = last \/ \E c \in Interrupted : e = ToolEvent(c, "error")
       /\ \A c \in Interrupted : ToolEvent(c, "error") \in Range(events)
  <2>1. Range(events) = {events[i] : i \in 1..(n + 1)}
    BY <1>9 DEF Range
  <2>2. \A i \in 1..(n + 1) : i = n + 1 \/ i \in 1..n
    BY <1>2
  <2>3. \A i \in 1..n : i \in 1..(n + 1)
    BY <1>2
  <2> QED
    BY <1>2, <1>3, <1>4, <1>7, <1>9, <2>1, <2>2, <2>3
<1>12. \A e \in Range(events) : e.call \in Tools => e.shown \in Views
  BY <1>5, <1>6, <1>11, Kinds DEF Views
<1>13. /\ log' \in Seq(Event) /\ client' \in ClientRecord /\ client'.on = client.on
       /\ client.on => \A c \in External :
              client'.view[c] = IF row[c] = "interrupted" THEN "error" ELSE client.view[c]
  <2>1. /\ log' \in Seq(Event) /\ client' \in ClientRecord /\ client'.on = client.on
        /\ client.on => \A c \in Tools :
               \/ /\ \A e \in Range(events) : e.call # c
                  /\ client'.view[c] = client.view[c]
               \/ \E e \in Range(events) : e.call = c /\ client'.view[c] = e.shown
    BY <1>9, <1>10, <1>12, PublishDoes
  <2>2. ASSUME client.on, NEW c \in External, row[c] = "interrupted"
        PROVE  client'.view[c] = "error"
    BY <1>4, <1>5, <1>6, <1>11, <2>1, <2>2, Kinds
  <2>3. ASSUME client.on, NEW c \in External, row[c] # "interrupted"
        PROVE  client'.view[c] = client.view[c]
    BY <1>4, <1>5, <1>6, <1>11, <2>1, <2>3, Kinds
  <2> QED
    BY <2>1, <2>2, <2>3
<1>14. SilentAfterEnding'
  <2>1. log' = log \o events /\ log \in Seq(Event)
    BY <1>10 DEF Publish, Typed
  <2> DEFINE m == Len(log)
  <2>2. m \in Nat /\ DOMAIN log = 1..m
    BY <2>1, LenProperties
  <2>3. /\ Len(log') = m + (n + 1) /\ DOMAIN log' = 1..(m + (n + 1))
        /\ \A i \in 1..m : log'[i] = log[i]
        /\ \A i \in 1..(n + 1) : log'[m + i] = events[i]
    BY <1>2, <1>9, <2>1, <2>2, ConcatAt
  <2> HIDE DEF m
  <2>4. ASSUME NEW i \in 1..(m + (n + 1)), log'[i].call = NoCall PROVE i = m + (n + 1)
    <3>1. CASE i \in 1..m
      BY <2>2, <2>3, <2>4, <3>1 DEF Ended
    <3>2. CASE i \notin 1..m /\ i # m + (n + 1)
      <4>1. i - m \in 1..n /\ i - m \in 1..(n + 1) /\ m + (i - m) = i
        BY <1>2, <2>2, <3>2
      <4>2. log'[i] = q[i - m]
        BY <1>9, <2>3, <4>1
      <4> QED
        BY <1>3, <1>4, <1>5, <1>7, <2>4, <4>1, <4>2, Kinds
    <3> QED
      BY <3>1, <3>2
  <2> QED
    BY <2>3, <2>4 DEF SilentAfterEnding
<1> QED
  BY <1>13, <1>14
-----------------------------------------------------------------------------
(* The Worker's steps.                                                     *)

LEMMA InitIInv ==
  ASSUME Init PROVE IInv
<1>1. Typed
  BY TasksAndWorkers, FS_EmptySet, EmptySeq
     DEF Init, Typed, Rows, NoRows, ClientRecord, Views
<1>2. InHand
  BY TasksAndWorkers DEF Init, InHand
<1>3. Ends
  BY TasksAndWorkers, EmptySeq DEF Init, Ends, GateHeld, Ended, SilentAfterEnding
<1>4. Record
  BY TasksAndWorkers, Kinds DEF Init, Record, Unasked, Open, Untold, ConsumedIsDurable, Results
<1>5. Live
  BY DEF Init, Live
<1> QED
  BY <1>1, <1>2, <1>3, <1>4, <1>5 DEF IInv

LEMMA AskKeeps ==
  ASSUME IInv, NEW c \in Calls, Ask(c) PROVE IInv'
<1>0. Typed /\ InHand /\ Ends /\ Record /\ Live
  BY DEF IInv
<1>1. /\ worker' \in WorkerRecord /\ worker'.pc = "asked" /\ worker'.call = c
      /\ worker.pc = "think" /\ worker.call = NoCall /\ driver.pc = "loop"
  <2>1. worker \in WorkerRecord /\ driver.pc \in TaskPc
    BY <1>0, Fields DEF Typed
  <2>2. worker'.pc = "asked" /\ worker'.call = c /\ worker' \in WorkerRecord
    BY <2>1 DEF Ask, WorkerRecord
  <2> QED
    BY <1>0, <2>1, <2>2 DEF Ask, InHand, TaskPc
<1>2. /\ used' = used \cup {c} /\ c \notin used
      /\ UNCHANGED <<status, row, gate, flag, driver, told, log, client>>
  BY DEF Ask
<1>3. Typed'
  <2>1. IsFiniteSet(used')
    BY <1>0, <1>2, FS_AddElement DEF Typed
  <2> QED
    BY <1>0, <1>1, <1>2, <2>1 DEF Typed
<1>4. InHand'
  BY <1>0, <1>1, <1>2 DEF InHand, Same
<1>5. Ends' /\ Live'
  BY <1>0, <1>2 DEF Ends, GateHeld, Ended, SilentAfterEnding, Live, Behind
<1>6. Record'
  <2>1. row[c] = "none" /\ told[c] = "none"
    BY <1>0, <1>2 DEF Record, Unasked
  <2>2. AtWork(c)'
    BY <1>1, <1>2, <2>1 DEF AtWork, Results
  <2>3. \A d \in Calls : Unasked(d)'
    BY <1>0, <1>2 DEF Record, Unasked
  <2>4. \A d \in External : Open(d)'
    BY <1>0, <1>1, <1>2, Kinds DEF Record, Open
  <2>5. \A d \in Tools : Untold(d)'
    BY <1>0, <1>1, <1>2, Kinds DEF Record, Untold
  <2>6. ConsumedIsDurable'
    BY <1>0, <1>2 DEF Record, ConsumedIsDurable
  <2> QED
    BY <1>1, <2>2, <2>3, <2>4, <2>5, <2>6 DEF Record
<1> QED
  BY <1>3, <1>4, <1>5, <1>6 DEF IInv

LEMMA ExecuteKeeps ==
  ASSUME IInv, NEW r \in Results, Execute(r) PROVE IInv'
<1>0. Typed /\ InHand /\ Ends /\ Record /\ Live
  BY DEF IInv
<1>1. /\ worker' \in WorkerRecord /\ worker'.pc = "finished" /\ worker'.call = worker.call
      /\ worker'.result = r /\ worker.pc = "execute" /\ driver.pc = "loop"
  <2>1. worker \in WorkerRecord /\ driver.pc \in TaskPc
    BY <1>0, Fields DEF Typed
  <2>2. /\ worker'.pc = "finished" /\ worker'.call = worker.call /\ worker'.result = r
        /\ worker' \in WorkerRecord
    BY <2>1 DEF Execute, WorkerRecord
  <2> QED
    BY <1>0, <2>1, <2>2 DEF Execute, InHand, TaskPc
<1>2. UNCHANGED <<status, row, used, gate, flag, driver, told, log, client>>
  BY DEF Execute
<1>3. Typed'
  BY <1>0, <1>1, <1>2 DEF Typed
<1>4. InHand'
  BY <1>0, <1>1, <1>2 DEF InHand, Same
<1>5. Ends' /\ Live'
  BY <1>0, <1>2 DEF Ends, GateHeld, Ended, SilentAfterEnding, Live, Behind
<1>6. Record'
  BY <1>0, <1>1, <1>2 DEF Record, Unasked, Open, Untold, AtWork, ConsumedIsDurable
<1> QED
  BY <1>3, <1>4, <1>5, <1>6 DEF IInv

\* Leaving the loop, with nothing committed and nothing said.
LEMMA LeavingKeeps ==
  ASSUME IInv, Left, gate' = gate, driver.pc \notin {"begun", "resolved", "announceEnd", "gone"},
         UNCHANGED <<status, row, used, flag, told, log, client>>
  PROVE  IInv'
<1>0. Typed /\ InHand /\ Ends /\ Record /\ Live
  BY DEF IInv
<1>1. Typed'
  BY <1>0 DEF Typed, Left
<1>2. InHand'
  BY DEF InHand, Left
<1>3. Ends'
  BY <1>0 DEF Ends, GateHeld, Left, Ended, SilentAfterEnding
<1>4. Record'
  BY <1>0, Kinds DEF Record, Left, Unasked, Open, Untold, AtWork, ConsumedIsDurable
<1>5. Live'
  BY <1>0 DEF Live, Behind, Left
<1> QED
  BY <1>1, <1>2, <1>3, <1>4, <1>5 DEF IInv

LEMMA SayKeeps ==
  ASSUME IInv, NEW end \in {"done", "failed"}, Say(end) PROVE IInv'
<1>1. Left
  BY FailLeaves DEF Say, Exit
<1> QED
  BY <1>1, LeavingKeeps DEF Say, At, bounds

LEMMA DieKeeps ==
  ASSUME IInv, Die PROVE IInv'
<1>0. Typed /\ InHand /\ Ends /\ Record /\ Live
  BY DEF IInv
<1>1. /\ worker' \in WorkerRecord
      /\ \/ worker'.pc = worker.pc /\ worker'.call = worker.call /\ worker'.result = worker.result
         \/ worker'.pc = "dead" /\ worker'.call = NoCall /\ worker.pc \notin {"asked", "finished"}
  <2>1. worker \in WorkerRecord
    BY <1>0 DEF Typed
  <2>2. CASE worker.pc \in {"asked", "finished"} /\ worker' = [worker EXCEPT !.alive = FALSE]
    BY <2>1, <2>2 DEF WorkerRecord
  <2>3. CASE worker.pc \notin {"asked", "finished"} /\ worker' = DeadWorker
    BY <2>3, TasksAndWorkers
  <2> QED
    BY <2>2, <2>3 DEF Die
<1>2. UNCHANGED <<status, row, used, gate, flag, driver, told, log, client>>
  BY DEF Die
<1>3. Typed'
  BY <1>0, <1>1, <1>2 DEF Typed
<1>4. InHand'
  BY <1>0, <1>1, <1>2, Kinds DEF InHand, Same
<1>5. Ends' /\ Live'
  BY <1>0, <1>2 DEF Ends, GateHeld, Ended, SilentAfterEnding, Live, Behind
<1>6. Record'
  <2>1. CASE worker'.pc = worker.pc /\ worker'.call = worker.call
    BY <1>0, <1>2, <2>1 DEF Record, Unasked, Open, Untold, AtWork, ConsumedIsDurable
  <2>2. CASE worker'.pc = "dead" /\ worker'.call = NoCall
    BY <1>0, <1>2, <2>2 DEF Record, Unasked, Open, Untold, ConsumedIsDurable
  <2> QED
    BY <1>1, <2>1, <2>2
<1> QED
  BY <1>3, <1>4, <1>5, <1>6 DEF IInv

-----------------------------------------------------------------------------
(* The loop of the task.                                                   *)

LEMMA SeeCancelKeeps ==
  ASSUME IInv, SeeCancel PROVE IInv'
  BY RetireLeaves, LeavingKeeps DEF SeeCancel, At, bounds

LEMMA DisconnectedKeeps ==
  ASSUME IInv, Disconnected PROVE IInv'
<1>1. Left
  BY FailLeaves DEF Disconnected, Exit
<1> QED
  BY <1>1, LeavingKeeps DEF Disconnected, At, bounds

LEMMA ReceiveKeeps ==
  ASSUME IInv, Receive PROVE IInv'
<1>0. Typed /\ InHand /\ Ends /\ Record /\ Live
  BY DEF IInv
<1>1. /\ driver' \in TaskRecord /\ driver'.call = worker.call /\ driver'.result = worker.result
      /\ driver.pc = "loop"
      /\ \/ driver'.pc = "finish" /\ worker.pc = "finished"
         \/ driver'.pc = "begin" /\ worker.pc = "asked" /\ worker.call \in External
         \/ driver'.pc = "announce" /\ worker.pc = "asked" /\ worker.call \notin External
         \/ driver'.pc = "park" /\ worker.pc = "asked" /\ worker.call \in Proposal
  <2>1. PICK pc \in CASE Frame = "external_tool_finished" -> {"finish"}
                      [] Frame = "external_tool_started" -> {"begin"}
                      [] Frame = "tool_request" ->
                             {"announce"} \cup IF worker.call \in Proposal THEN {"park"} ELSE {}
                      [] OTHER -> {} :
               driver' = [driver EXCEPT !.pc = pc, !.call = worker.call, !.result = worker.result]
    BY DEF Receive
  <2>2. \/ pc = "finish" /\ Frame = "external_tool_finished"
        \/ pc = "begin" /\ Frame = "external_tool_started"
        \/ pc = "announce" /\ Frame = "tool_request"
        \/ pc = "park" /\ Frame = "tool_request" /\ worker.call \in Proposal
    BY <2>1
  <2>3. /\ Frame = "external_tool_finished" => worker.pc = "finished"
        /\ Frame = "external_tool_started" => worker.pc = "asked" /\ worker.call \in External
        /\ Frame = "tool_request" => worker.pc = "asked" /\ worker.call \notin External
    BY DEF Frame
  <2>4. /\ driver \in TaskRecord /\ worker.call \in Calls \cup {NoCall}
        /\ worker.result \in {"none"} \cup Results
    BY <1>0, Fields DEF Typed
  <2>5. /\ driver' \in TaskRecord /\ driver'.pc = pc /\ driver'.call = worker.call
        /\ driver'.result = worker.result
    BY <2>1, <2>2, <2>4 DEF TaskRecord, TaskPc
  <2> QED
    BY <2>2, <2>3, <2>5 DEF Receive, At
<1>2. UNCHANGED <<status, row, used, gate, flag, worker, told, log, client>>
  BY DEF Receive
<1>3. Typed'
  BY <1>0, <1>1, <1>2 DEF Typed
<1>4. InHand'
  BY <1>0, <1>1, <1>2, Kinds DEF InHand, Same
<1>5. Ends' /\ Live'
  <2>1. Ended' = Ended /\ SilentAfterEnding' = SilentAfterEnding
    BY <1>2 DEF Ended, SilentAfterEnding
  <2> QED
    BY <1>0, <1>1, <1>2, <2>1 DEF Ends, GateHeld, Live, Behind
<1>6. Record'
  BY <1>0, <1>1, <1>2 DEF Record, Unasked, Open, Untold, AtWork, ConsumedIsDurable
<1> QED
  BY <1>3, <1>4, <1>5, <1>6 DEF IInv

\* One row of an external call is written under the gate, to be published next.
LEMMA BeginKeeps ==
  ASSUME IInv, Begin PROVE IInv'
<1>0. Typed /\ InHand /\ Ends /\ Record /\ Live
  BY DEF IInv
<1>1. /\ driver.pc = "begin" /\ gate = "free" /\ driver.pc \in TaskPc
      /\ worker.pc = "asked" /\ driver.call = worker.call /\ driver.call \in External
      /\ UNCHANGED <<status, used, flag, told, log, client>>
  BY <1>0, Fields DEF Begin, At, InHand, Same
<1>2. CASE /\ Beginnable /\ row' = [row EXCEPT ![driver.call] = "pending"]
           /\ gate' = "driver" /\ GoTo("begun") /\ UNCHANGED worker
  <2>1. /\ driver' \in TaskRecord /\ driver'.pc = "begun" /\ driver'.call = driver.call
        /\ status = "running"
    BY <1>0, <1>2, GoToDoes DEF TaskPc, Beginnable
  <2>2. row' \in [Calls -> Rows] /\ row'[driver.call] = "pending"
        /\ \A c \in Calls : c # driver.call => row'[c] = row[c]
    BY <1>0, <1>1, <1>2, Kinds DEF Typed, Rows
  <2>3. Typed'
    BY <1>0, <1>1, <1>2, <2>1, <2>2 DEF Typed
  <2>4. InHand'
    BY <1>0, <1>1, <1>2, <2>1, Kinds DEF InHand, Same
  <2>5. ~Ended
    BY <1>0, <2>1 DEF Ends, Terminal
  <2>6. Ends'
    BY <1>0, <1>1, <1>2, <2>1, <2>5 DEF Ends, GateHeld, Ended, SilentAfterEnding
  <2>7. AtWork(driver.call) /\ driver.call \in Calls
    BY <1>0, <1>1, Kinds DEF Record
  <2>8. Record'
    BY <1>0, <1>1, <1>2, <2>1, <2>2, <2>7, Kinds
       DEF Record, Unasked, Open, Untold, AtWork, ConsumedIsDurable, Results
  <2>9. Live'
    BY <1>0, <1>1, <1>2, <2>1, <2>2, Kinds DEF Live, Behind
  <2> QED
    BY <2>3, <2>4, <2>6, <2>8, <2>9 DEF IInv
<1>3. CASE Left /\ UNCHANGED <<row, gate>>
  BY <1>1, <1>3, LeavingKeeps
<1> QED
  BY <1>1, <1>2, <1>3, FailLeaves, RetireLeaves DEF Begin, StartUnrecorded, Exit

LEMMA FinishKeeps ==
  ASSUME IInv, Finish PROVE IInv'
<1>0. Typed /\ InHand /\ Ends /\ Record /\ Live
  BY DEF IInv
<1>1. /\ driver.pc = "finish" /\ gate = "free" /\ driver.pc \in TaskPc
      /\ worker.pc = "finished" /\ driver.call = worker.call /\ driver.call \in External
      /\ driver.result = worker.result /\ driver.result \in Results
      /\ UNCHANGED <<status, used, flag, told, log, client>>
  BY <1>0, Fields DEF Finish, At, InHand, Same
<1>2. CASE /\ Finishable /\ row' = [row EXCEPT ![driver.call] = driver.result]
           /\ gate' = "driver" /\ GoTo("resolved") /\ UNCHANGED worker
  <2>1. /\ driver' \in TaskRecord /\ driver'.pc = "resolved" /\ driver'.call = driver.call
        /\ driver'.result = driver.result
    BY <1>0, <1>2, GoToDoes DEF TaskPc
  <2>2. row' \in [Calls -> Rows] /\ row'[driver.call] = driver.result
        /\ \A c \in Calls : c # driver.call => row'[c] = row[c]
    BY <1>0, <1>1, <1>2, Kinds DEF Typed, Rows
  <2>3. Typed'
    BY <1>0, <1>1, <1>2, <2>1, <2>2 DEF Typed
  <2>4. InHand'
    BY <1>0, <1>1, <1>2, <2>1, Kinds DEF InHand, Same
  <2>5. status = "running" /\ ~Ended
    BY <1>0, <1>1, <1>2 DEF Ends, Terminal, Record, Open, Finishable
  <2>6. Ends'
    BY <1>0, <1>1, <1>2, <2>1, <2>5 DEF Ends, GateHeld, Ended, SilentAfterEnding
  <2>7. AtWork(driver.call) /\ driver.call \in Calls
    BY <1>0, <1>1, Kinds DEF Record
  <2>8. Record'
    BY <1>0, <1>1, <1>2, <2>1, <2>2, <2>7, Kinds
       DEF Record, Unasked, Open, Untold, AtWork, ConsumedIsDurable, Results
  <2>9. Live'
    BY <1>0, <1>1, <1>2, <2>1, <2>2, Kinds DEF Live, Behind
  <2> QED
    BY <2>3, <2>4, <2>6, <2>8, <2>9 DEF IInv
<1>3. CASE Left /\ UNCHANGED <<row, gate>>
  BY <1>1, <1>3, LeavingKeeps
<1> QED
  BY <1>1, <1>2, <1>3, FailLeaves, RetireLeaves DEF Finish, FinishUnrecorded, Exit

\* The two publications that release the gate again.
LEMMA BegunKeeps ==
  ASSUME IInv, Begun PROVE IInv'
<1>0. Typed /\ InHand /\ Ends /\ Record /\ Live
  BY DEF IInv
<1>1. /\ driver.pc = "begun" /\ worker.pc = "asked" /\ driver.call = worker.call
      /\ driver.call \in External /\ driver.call \in Calls
      /\ gate = "driver" /\ status = "running" /\ ~Ended
      /\ UNCHANGED <<status, row, used, flag, worker, told>>
  BY <1>0, Kinds DEF Begun, At, InHand, Same, Ends, GateHeld, Terminal
<1>2. /\ driver' \in TaskRecord /\ driver'.pc = "ack" /\ driver'.call = driver.call
      /\ gate' = "free"
  BY <1>0, GoToDoes DEF Begun, TaskPc
<1>3. /\ log' \in Seq(Event) /\ client' \in ClientRecord /\ client'.on = client.on
      /\ ~Ended' /\ SilentAfterEnding'
      /\ client.on => \A d \in Tools :
             client'.view[d] = IF d = driver.call THEN "started" ELSE client.view[d]
  BY <1>0, <1>1, PublishesCall DEF Begun, Views
<1>4. Typed'
  BY <1>0, <1>1, <1>2, <1>3 DEF Typed
<1>5. InHand'
  BY <1>0, <1>1, <1>2, Kinds DEF InHand, Same
<1>6. Ends'
  BY <1>0, <1>1, <1>2, <1>3 DEF Ends, GateHeld
<1>7. AtWork(driver.call)
  BY <1>0, <1>1, Kinds DEF Record
<1>8. Record'
  BY <1>0, <1>1, <1>2, <1>7, Kinds DEF Record, Unasked, Open, Untold, AtWork, ConsumedIsDurable
<1>9. Live'
  <2>1. row[driver.call] = "pending" /\ Shown("pending") = "started"
    BY <1>1, <1>7 DEF AtWork, Shown
  <2> QED
    BY <1>0, <1>1, <1>2, <1>3, <2>1, Kinds DEF Live, Behind
<1> QED
  BY <1>4, <1>5, <1>6, <1>8, <1>9 DEF IInv

LEMMA ResolvedKeeps ==
  ASSUME IInv, Resolved PROVE IInv'
<1>0. Typed /\ InHand /\ Ends /\ Record /\ Live
  BY DEF IInv
<1>1. /\ driver.pc = "resolved" /\ worker.pc = "finished" /\ driver.call = worker.call
      /\ driver.call \in External /\ driver.call \in Calls
      /\ driver.result = worker.result /\ driver.result \in Results
      /\ gate = "driver" /\ status = "running" /\ ~Ended
      /\ UNCHANGED <<status, row, used, flag, worker, told>>
  BY <1>0, Kinds DEF Resolved, At, InHand, Same, Ends, GateHeld, Terminal
<1>2. /\ driver' \in TaskRecord /\ driver'.pc = "answer" /\ driver'.call = driver.call
      /\ driver'.result = driver.result /\ gate' = "free"
  BY <1>0, GoToDoes DEF Resolved, TaskPc
<1>3. /\ log' \in Seq(Event) /\ client' \in ClientRecord /\ client'.on = client.on
      /\ ~Ended' /\ SilentAfterEnding'
      /\ client.on => \A d \in Tools :
             client'.view[d] = IF d = driver.call THEN Shown(driver.result) ELSE client.view[d]
  <2>1. Shown(driver.result) \in Views
    BY <1>1 DEF Shown, Views, Results
  <2> QED
    BY <1>0, <1>1, <2>1, PublishesCall DEF Resolved
<1>4. Typed'
  BY <1>0, <1>1, <1>2, <1>3 DEF Typed
<1>5. InHand'
  BY <1>0, <1>1, <1>2, Kinds DEF InHand, Same
<1>6. Ends'
  BY <1>0, <1>1, <1>2, <1>3 DEF Ends, GateHeld
<1>7. AtWork(driver.call)
  BY <1>0, <1>1, Kinds DEF Record
<1>8. Record'
  BY <1>0, <1>1, <1>2, <1>7, Kinds DEF Record, Unasked, Open, Untold, AtWork, ConsumedIsDurable
<1>9. Live'
  <2>1. row[driver.call] = driver.result
    BY <1>1, <1>7 DEF AtWork
  <2> QED
    BY <1>0, <1>1, <1>2, <1>3, <2>1, Kinds DEF Live, Behind
<1> QED
  BY <1>4, <1>5, <1>6, <1>8, <1>9 DEF IInv

LEMMA AckKeeps ==
  ASSUME IInv, Ack PROVE IInv'
<1>0. Typed /\ InHand /\ Ends /\ Record /\ Live
  BY DEF IInv
<1>1. /\ driver.pc = "ack" /\ worker.pc = "asked" /\ driver.call = worker.call
      /\ driver.call \in External
      /\ UNCHANGED <<status, row, used, gate, flag, told, log, client>>
  BY <1>0 DEF Ack, At, InHand, Same
<1>2. CASE worker' = [worker EXCEPT !.pc = "execute"] /\ Back
  <2>1. driver' \in TaskRecord /\ driver'.pc = "loop" /\ driver'.call = NoCall
    BY <1>0, <1>2, BackDoes
  <2>2. worker' \in WorkerRecord /\ worker'.pc = "execute" /\ worker'.call = worker.call
    BY <1>0, <1>2 DEF Typed, WorkerRecord
  <2>3. Typed'
    BY <1>0, <1>1, <2>1, <2>2 DEF Typed
  <2>4. InHand'
    BY <1>1, <2>1, <2>2 DEF InHand, Same
  <2>5. Ends'
    BY <1>0, <1>1, <2>1 DEF Ends, GateHeld, Ended, SilentAfterEnding
  <2>6. Record'
    BY <1>0, <1>1, <2>1, <2>2 DEF Record, Unasked, Open, Untold, AtWork, ConsumedIsDurable
  <2>7. Live'
    BY <1>0, <1>1, <2>1 DEF Live, Behind
  <2> QED
    BY <2>3, <2>4, <2>5, <2>6, <2>7 DEF IInv
<1>3. CASE Left
  BY <1>1, <1>3, LeavingKeeps
<1> QED
  BY <1>2, <1>3, FailLeaves DEF Ack, Exit

LEMMA AnswerKeeps ==
  ASSUME IInv, Answer PROVE IInv'
<1>0. Typed /\ InHand /\ Ends /\ Record /\ Live
  BY DEF IInv
<1>1. /\ driver.pc = "answer" /\ driver.call = worker.call /\ driver.call \in Calls
      /\ driver.call # NoCall /\ driver.result \in Results
      /\ worker.pc \in {"asked", "finished"}
      /\ UNCHANGED <<status, row, used, gate, flag, log, client>>
  BY <1>0, Kinds DEF Answer, At, InHand, Same
<1>2. AtWork(driver.call)
  BY <1>0, <1>1 DEF Record
<1>3. CASE told' = [told EXCEPT ![driver.call] = driver.result] /\ worker' = NewWorker /\ Back
  <2>1. driver' \in TaskRecord /\ driver'.pc = "loop" /\ driver'.call = NoCall
    BY <1>0, <1>3, BackDoes
  <2>2. worker' \in WorkerRecord /\ worker'.pc = "think" /\ worker'.call = NoCall
    BY <1>3, TasksAndWorkers
  <2>3. /\ told' \in [Calls -> {"none"} \cup Results] /\ told'[driver.call] = driver.result
        /\ \A c \in Calls : c # driver.call => told'[c] = told[c]
    BY <1>0, <1>1, <1>3 DEF Typed
  <2>4. Typed'
    BY <1>0, <1>1, <2>1, <2>2, <2>3 DEF Typed
  <2>5. InHand'
    BY <2>1, <2>2 DEF InHand
  <2>6. Ends'
    BY <1>0, <1>1, <2>1 DEF Ends, GateHeld, Ended, SilentAfterEnding
  <2>7. \A c \in Calls : Unasked(c)'
    BY <1>0, <1>1, <1>2, <2>3 DEF Record, Unasked, AtWork
  <2>8. \A c \in External : Open(c)'
    BY <1>0, <1>1, <1>2, <2>2 DEF Record, Open, AtWork, Results
  <2>9. \A c \in Tools : Untold(c)'
    <3> SUFFICES ASSUME NEW c \in Tools, row[c] \in Results PROVE told'[c] = row[c]
      BY <1>1 DEF Untold
    <3>1. CASE c = driver.call
      BY <1>1, <1>2, <2>3, <3>1 DEF AtWork, Tools
    <3>2. CASE c # driver.call
      BY <1>0, <1>1, <2>3, <3>2, Kinds DEF Record, Untold
    <3> QED
      BY <3>1, <3>2
  <2>10. ConsumedIsDurable'
    BY <1>0, <1>1, <1>2, <2>3, Kinds DEF Record, ConsumedIsDurable, AtWork
  <2>11. Record'
    BY <2>2, <2>7, <2>8, <2>9, <2>10 DEF Record
  <2>12. Live'
    BY <1>0, <1>1, <2>1 DEF Live, Behind
  <2> QED
    BY <2>4, <2>5, <2>6, <2>11, <2>12 DEF IInv
<1>4. CASE worker' = DeadWorker /\ Back /\ UNCHANGED told
  <2>1. driver' \in TaskRecord /\ driver'.pc = "loop" /\ driver'.call = NoCall
    BY <1>0, <1>4, BackDoes
  <2>2. worker' \in WorkerRecord /\ worker'.pc = "dead" /\ worker'.call = NoCall
    BY <1>4, TasksAndWorkers
  <2>3. Typed'
    BY <1>0, <1>1, <1>4, <2>1, <2>2 DEF Typed
  <2>4. InHand'
    BY <2>1, <2>2 DEF InHand
  <2>5. Ends'
    BY <1>0, <1>1, <2>1 DEF Ends, GateHeld, Ended, SilentAfterEnding
  <2>6. Record'
    BY <1>0, <1>1, <1>4, <2>2 DEF Record, Unasked, Open, Untold, ConsumedIsDurable
  <2>7. Live'
    BY <1>0, <1>1, <2>1 DEF Live, Behind
  <2> QED
    BY <2>3, <2>4, <2>5, <2>6, <2>7 DEF IInv
<1>5. CASE Left /\ UNCHANGED told
  BY <1>1, <1>5, LeavingKeeps
<1> QED
  BY <1>3, <1>4, <1>5, FailLeaves, RetireLeaves DEF Answer, Exit

-----------------------------------------------------------------------------
(* Calls that Core executes, or refuses.                                   *)

\* What is said of a call is no ending, and is not about an external call.
LEMMA SpeaksOfCall ==
  ASSUME IInv, NEW pc \in {"insert", "answer"}, GoTo(pc), NEW shown \in Views,
         driver.pc \in {"announce", "report"}, pc = "insert" <=> driver.pc = "announce",
         ~flag, Publish(<<ToolEvent(driver.call, shown)>>),
         UNCHANGED <<status, row, used, gate, flag, worker, told>>
  PROVE  IInv'
<1>0. Typed /\ InHand /\ Ends /\ Record /\ Live
  BY DEF IInv
<1>1. /\ worker.pc = "asked" /\ driver.call = worker.call /\ driver.call \in Calls
      /\ driver.call \notin External /\ ~Ended
  BY <1>0 DEF InHand, Same, Ends
<1>2. /\ driver' \in TaskRecord /\ driver'.pc = pc /\ driver'.call = driver.call
      /\ driver'.result = driver.result
  BY <1>0, GoToDoes DEF TaskPc
<1>3. /\ log' \in Seq(Event) /\ client' \in ClientRecord /\ client'.on = client.on
      /\ ~Ended' /\ SilentAfterEnding'
      /\ client.on => \A d \in Tools :
             client'.view[d] = IF d = driver.call THEN shown ELSE client.view[d]
  BY <1>0, <1>1, PublishesCall
<1>4. Typed'
  BY <1>0, <1>2, <1>3 DEF Typed
<1>5. InHand'
  BY <1>0, <1>1, <1>2, Kinds DEF InHand, Same
<1>6. Ends'
  BY <1>0, <1>2, <1>3 DEF Ends, GateHeld
<1>7. AtWork(driver.call) /\ driver.call # NoCall
  BY <1>0, <1>1, Kinds DEF Record
<1>8. Record'
  BY <1>0, <1>1, <1>2, <1>7, Kinds DEF Record, Unasked, Open, Untold, AtWork, ConsumedIsDurable
<1>9. Live'
  BY <1>0, <1>1, <1>2, <1>3, Kinds DEF Live, Behind
<1> QED
  BY <1>4, <1>5, <1>6, <1>8, <1>9 DEF IInv

LEMMA AnnounceKeeps ==
  ASSUME IInv, Announce PROVE IInv'
<1>1. CASE flag
  BY <1>1, RetireLeaves, LeavingKeeps DEF Announce, At, Seen, Quiet, bounds
<1>2. CASE ~flag
  BY <1>2, SpeaksOfCall DEF Announce, At, Seen, Views
<1> QED
  BY <1>1, <1>2 DEF IInv, Typed

LEMMA ReportKeeps ==
  ASSUME IInv, Report PROVE IInv'
<1>1. CASE flag
  BY <1>1, RetireLeaves, LeavingKeeps DEF Report, At, Seen, Quiet, bounds
<1>2. CASE ~flag
  <2>1. driver.result \in Results
    BY DEF Report, At, IInv, InHand
  <2>2. Shown(driver.result) \in Views
    BY <2>1 DEF Shown, Views, Results
  <2> QED
    BY <1>2, <2>2, SpeaksOfCall DEF Report, At, Seen
<1> QED
  BY <1>1, <1>2 DEF IInv, Typed

\* A step of such a call: only its own row may change.
LEMMA WorksOnCall ==
  ASSUME IInv, driver.pc \in {"insert", "run"}, driver' \in TaskRecord,
         driver'.call = driver.call,
         \/ driver.pc = "insert" /\ driver'.pc = "run"
         \/ driver'.pc = "report" /\ driver'.result \in Results,
         \/ row' = row
         \/ driver.pc = "insert" /\ driver'.pc = "run"
            /\ row' = [row EXCEPT ![driver.call] = "pending"]
         \/ driver'.pc = "report"
            /\ row' = [row EXCEPT ![driver.call] = IF @ = "none" THEN @ ELSE driver'.result],
         UNCHANGED <<status, used, gate, flag, worker, told, log, client>>
  PROVE  IInv'
<1>0. Typed /\ InHand /\ Ends /\ Record /\ Live
  BY DEF IInv
<1>c. PICK c : c = driver.call
  OBVIOUS
<1>1. /\ worker.pc = "asked" /\ c = worker.call /\ c \in Calls /\ c \notin External /\ c # NoCall
  BY <1>0, <1>c, Kinds DEF InHand, Same
<1>2. /\ row' \in [Calls -> Rows] /\ \A d \in Calls : d # c => row'[d] = row[d]
      /\ driver'.pc = "run" => row'[c] \in {row[c], "pending"}
      /\ driver'.pc = "report" => row'[c] = row[c] \/ row'[c] = driver'.result
  BY <1>0, <1>1, <1>c DEF Typed, Rows
<1>3. AtWork(c)
  BY <1>0, <1>1 DEF Record
<1>4. Typed'
  BY <1>0, <1>2 DEF Typed
<1>5. InHand'
  BY <1>0, <1>1, <1>c, Kinds DEF InHand, Same
<1>6. Ends'
  BY <1>0 DEF Ends, GateHeld, Ended, SilentAfterEnding
<1>8. AtWork(c)'
  BY <1>0, <1>1, <1>2, <1>3, <1>c, Kinds DEF AtWork, Results
<1>9. Record'
  BY <1>0, <1>1, <1>2, <1>3, <1>8, Kinds DEF Record, Unasked, Open, Untold, AtWork, ConsumedIsDurable
<1>10. Live'
  BY <1>0, <1>1, <1>2, <1>c, Kinds DEF Live, Behind
<1> QED
  BY <1>4, <1>5, <1>6, <1>9, <1>10 DEF IInv

LEMMA InsertKeeps ==
  ASSUME IInv, Insert PROVE IInv'
<1>0. Typed /\ driver \in TaskRecord /\ driver.pc = "insert"
  BY DEF IInv, Typed, Insert, At
<1>1. CASE PersistToolCall(driver.call) /\ GoTo("run")
  <2>1. driver' \in TaskRecord /\ driver'.pc = "run" /\ driver'.call = driver.call
    BY <1>0, <1>1, GoToDoes DEF TaskPc
  <2>2. row' = row \/ row' = [row EXCEPT ![driver.call] = "pending"]
    BY <1>1 DEF PersistToolCall
  <2>3. UNCHANGED <<status, used, gate, flag, worker, told, log, client>>
    BY DEF Insert
  <2> QED
    BY <1>0, <2>1, <2>2, <2>3, WorksOnCall
<1>2. CASE driver' = [driver EXCEPT !.pc = "report", !.result = "errored"] /\ row' = row
  <2>1. /\ driver' \in TaskRecord /\ driver'.pc = "report" /\ driver'.call = driver.call
        /\ driver'.result \in Results
    BY <1>0, <1>2 DEF TaskRecord, TaskPc, Results
  <2>2. UNCHANGED <<status, used, gate, flag, worker, told, log, client>>
    BY DEF Insert
  <2> QED
    BY <1>0, <1>2, <2>1, <2>2, WorksOnCall
<1> QED
  BY <1>1, <1>2 DEF Insert

LEMMA ResolvingKeeps ==
  ASSUME IInv, NEW r \in Results, driver.pc = "run",
         driver' = [driver EXCEPT !.pc = "report", !.result = r], ResolveToolCall(driver.call, r),
         UNCHANGED <<status, used, gate, flag, worker, told, log, client>>
  PROVE  IInv'
<1>1. driver \in TaskRecord
  BY DEF IInv, Typed
<1>2. driver' \in TaskRecord /\ driver'.pc = "report" /\ driver'.call = driver.call /\ driver'.result = r
  BY <1>1 DEF TaskRecord, TaskPc
<1>3. row' = row \/ row' = [row EXCEPT ![driver.call] = IF @ = "none" THEN @ ELSE driver'.result]
  BY <1>2 DEF ResolveToolCall
<1> QED
  BY <1>2, <1>3, WorksOnCall

LEMMA RunToolKeeps ==
  ASSUME IInv, NEW r \in Results, RunTool(r) PROVE IInv'
  BY ResolvingKeeps DEF RunTool, At

LEMMA RefuseToolRequestKeeps ==
  ASSUME IInv, RefuseToolRequest PROVE IInv'
  BY ResolvingKeeps DEF RefuseToolRequest, At, Results

-----------------------------------------------------------------------------
(* Park, the terminal transitions, Stop.                                   *)

LEMMA ParkKeeps ==
  ASSUME IInv, Park PROVE IInv'
<1>0. Typed /\ InHand /\ Ends /\ Record /\ Live
  BY DEF IInv
<1>1. /\ driver.pc = "park" /\ gate = "free" /\ worker.pc = "asked" /\ driver.call = worker.call
      /\ driver.call \in Proposal /\ driver.call \in Calls /\ driver.call # NoCall
      /\ UNCHANGED <<used, gate, flag, told, log, client>>
  BY <1>0, Kinds DEF Park, At, InHand, Same
<1>2. CASE Left /\ UNCHANGED <<status, row>>
  BY <1>1, <1>2, LeavingKeeps
<1>3. CASE ~flag /\ status' = "parked" /\ row' = [row EXCEPT ![driver.call] = "pending"] /\ Retire
  <2>1. /\ driver' \in TaskRecord /\ driver'.pc = "gone"
        /\ worker' \in WorkerRecord /\ worker'.pc = "dead" /\ worker'.call = NoCall
    BY <1>3, RetireDoes
  <2>2. row' \in [Calls -> Rows] /\ \A c \in Calls : c # driver.call => row'[c] = row[c]
    BY <1>0, <1>1, <1>3 DEF Typed, Rows
  <2>3. Typed'
    BY <1>0, <1>1, <1>3, <2>1, <2>2 DEF Typed
  <2>4. InHand'
    BY <2>1 DEF InHand
  <2>5. ~Ended
    BY <1>0, <1>1, <1>3 DEF Ends
  <2>6. Ends'
    BY <1>0, <1>1, <1>3, <2>1, <2>5 DEF Ends, GateHeld, Ended, SilentAfterEnding
  <2>7. driver.call \in used
    BY <1>0, <1>1 DEF Record, AtWork
  <2>8. \A c \in External : row'[c] # "pending"
    BY <1>0, <1>1, <2>2, Kinds DEF Record, Open
  <2>9. Record'
    BY <1>0, <1>1, <2>1, <2>2, <2>7, <2>8, Kinds
       DEF Record, Unasked, Open, Untold, ConsumedIsDurable
  <2>10. Live'
    BY <1>0, <1>1, <2>1, <2>2, Kinds DEF Live, Behind
  <2> QED
    BY <2>3, <2>4, <2>6, <2>9, <2>10 DEF IInv
<1> QED
  BY <1>2, <1>3, FailLeaves, RetireLeaves DEF Park, ParkOnProposal, Exit

\* Settling closes what is open and keeps every other row.
SettlesTo(rows) ==
    /\ rows \in [Calls -> Rows]
    /\ \A c \in Calls :
           \/ rows[c] = row[c]
           \/ c \in External /\ row[c] = "pending" /\ rows[c] = "interrupted"
    /\ \A c \in External : rows[c] # "pending"

LEMMA SettledIs ==
  ASSUME Typed PROVE SettlesTo(Settled)
<1>1. ASSUME NEW c \in Calls
      PROVE  /\ Settled[c] \in Rows
             /\ \/ Settled[c] = row[c]
                \/ c \in External /\ row[c] = "pending" /\ Settled[c] = "interrupted"
             /\ c \in External => Settled[c] # "pending"
  BY DEF Typed, Settled, Rows
<1>2. Settled \in [Calls -> Rows]
  <2>1. Settled = [c \in Calls |-> Settled[c]]
    BY DEF Settled
  <2> QED
    BY <1>1, <2>1
<1> QED
  BY <1>1, <1>2, Kinds DEF SettlesTo

LEMMA SettlingKeepsRecord ==
  ASSUME Typed, Record, SettlesTo(row'), UNCHANGED <<used, told, worker>>
  PROVE  /\ \A c \in Calls : Unasked(c)'
         /\ \A c \in External : Open(c)'
         /\ \A c \in Tools : Untold(c)'
         /\ ConsumedIsDurable'
<1>1. \A c \in Calls : Unasked(c)'
  BY DEF Record, Unasked, SettlesTo
<1>2. \A c \in External : Open(c)'
  BY DEF Open, SettlesTo
<1>3. \A c \in Tools : Untold(c)'
  BY Kinds DEF Record, Untold, SettlesTo, Results
<1>4. ConsumedIsDurable'
  <2> SUFFICES ASSUME NEW c \in External, told[c] # "none" PROVE row'[c] = told[c]
    BY DEF ConsumedIsDurable
  <2>1. row[c] = told[c] /\ told[c] \in Results
    BY Kinds DEF Record, ConsumedIsDurable, Typed
  <2> QED
    BY <2>1, Kinds DEF SettlesTo, Results
<1> QED
  BY <1>1, <1>2, <1>3, <1>4

LEMMA SettleKeeps ==
  ASSUME IInv, Settle PROVE IInv'
<1>0. Typed /\ InHand /\ Ends /\ Record /\ Live
  BY DEF IInv
<1>1. /\ driver.pc = "settle" /\ gate = "free" /\ worker.pc = "dead" /\ worker.call = NoCall
      /\ UNCHANGED <<used, flag, worker, told, log, client>>
  BY <1>0 DEF Settle, At, InHand
<1>2. CASE driver' = NoTask /\ UNCHANGED <<status, row, gate>>
  <2>1. Left
    BY <1>0, <1>1, <1>2, TasksAndWorkers DEF Left, Typed
  <2> QED
    BY <1>1, <1>2, <2>1, LeavingKeeps
<1>3. CASE /\ status = "running" /\ status' \in {"completed", "errored"}
           /\ row' = Settled /\ gate' = "driver" /\ GoTo("announceEnd")
  <2>1. driver' \in TaskRecord /\ driver'.pc = "announceEnd"
    BY <1>0, <1>3, GoToDoes DEF TaskPc
  <2>2. SettlesTo(row')
    BY <1>0, <1>3, SettledIs
  <2>3. Typed'
    BY <1>0, <1>1, <1>3, <2>1, <2>2 DEF Typed, Terminal, SettlesTo
  <2>4. InHand'
    BY <1>1, <2>1 DEF InHand
  <2>5. ~Ended
    BY <1>0, <1>3 DEF Ends, Terminal
  <2>6. Ends'
    BY <1>0, <1>1, <1>3, <2>1, <2>5 DEF Ends, GateHeld, Ended, SilentAfterEnding
  <2>7. Record'
    BY <1>0, <1>1, <2>2, SettlingKeepsRecord DEF Record
  <2>8. Live'
    BY <1>0, <1>1, <2>1, <2>2, Kinds DEF Live, Behind, SettlesTo
  <2> QED
    BY <2>3, <2>4, <2>6, <2>7, <2>8 DEF IInv
<1> QED
  BY <1>2, <1>3 DEF Settle

LEMMA StopRunningKeeps ==
  ASSUME IInv, StopRunning PROVE IInv'
<1>0. Typed /\ InHand /\ Ends /\ Record /\ Live
  BY DEF IInv
<1>1. /\ status = "running" /\ gate = "free" /\ driver.pc \notin {"begun", "resolved", "announceEnd"}
      /\ status' = "cancelled" /\ row' = Settled /\ flag' = TRUE /\ gate' = "stop"
      /\ UNCHANGED <<used, driver, worker, told, log, client>>
  BY <1>0 DEF StopRunning, Ends, GateHeld
<1>2. SettlesTo(row')
  BY <1>0, <1>1, SettledIs
<1>3. Typed'
  BY <1>0, <1>1, <1>2 DEF Typed, Terminal, SettlesTo
<1>4. InHand'
  BY <1>0, <1>1 DEF InHand, Same
<1>5. ~Ended
  BY <1>0, <1>1 DEF Ends, Terminal
<1>6. Ends'
  BY <1>0, <1>1, <1>5 DEF Ends, GateHeld, Ended, SilentAfterEnding
<1>7. worker.call # NoCall => AtWork(worker.call)'
  <2> SUFFICES ASSUME worker.call # NoCall PROVE AtWork(worker.call)'
    OBVIOUS
  <2>1. AtWork(worker.call) /\ worker.call \in Calls
    BY <1>0, Fields DEF Record
  <2>2. driver.pc = "run" => worker.call \notin External
    BY <1>0 DEF InHand, Same
  <2>3. driver.pc = "answer" => driver.result \in Results
    BY <1>0 DEF InHand
  <2> QED
    BY <1>1, <1>2, <2>1, <2>2, <2>3, Kinds DEF AtWork, Results, SettlesTo
<1>8. Record'
  BY <1>0, <1>1, <1>2, <1>7, SettlingKeepsRecord DEF Record
<1>9. Live'
  BY <1>0, <1>1, <1>2, Kinds DEF Live, Behind, SettlesTo
<1> QED
  BY <1>3, <1>4, <1>6, <1>8, <1>9 DEF IInv

LEMMA StopParkedKeeps ==
  ASSUME IInv, StopParked PROVE IInv'
<1>0. Typed /\ InHand /\ Ends /\ Record /\ Live
  BY DEF IInv
<1>1. /\ status = "parked" /\ status' = "cancelled" /\ row' = Settled
      /\ UNCHANGED <<used, gate, flag, driver, worker, told, log, client>>
  BY DEF StopParked
<1>2. \A c \in External : row[c] # "pending"
  BY <1>0, <1>1 DEF Record, Open
<1>3. row' = row
  BY <1>0, <1>1, <1>2 DEF Settled, Typed
<1>4. Typed'
  BY <1>0, <1>1, <1>3 DEF Typed, Terminal
<1>5. InHand' /\ Live'
  BY <1>0, <1>1, <1>3 DEF InHand, Same, Live, Behind
<1>6. ~Ended /\ ~flag
  BY <1>0, <1>1 DEF Ends, Terminal
<1>7. Ends'
  BY <1>0, <1>1, <1>6 DEF Ends, GateHeld, Ended, SilentAfterEnding
<1>8. Record'
  BY <1>0, <1>1, <1>2, <1>3, Kinds DEF Record, Unasked, Open, Untold, AtWork, ConsumedIsDurable
<1> QED
  BY <1>4, <1>5, <1>7, <1>8 DEF IInv

\* The ending is published: by the task that settled, or by a Stop.
LEMMA EndingKeeps ==
  ASSUME IInv, driver.pc = "announceEnd" \/ gate = "stop", Publish(Endings), gate' = "free",
         \/ driver.pc = "announceEnd" /\ driver' = NoTask
         \/ gate = "stop" /\ driver' = driver,
         UNCHANGED <<status, row, used, flag, worker, told>>
  PROVE  IInv'
<1>0. Typed /\ InHand /\ Ends /\ Record /\ Live
  BY DEF IInv
<1>1. ~Ended /\ status \in Terminal
  BY <1>0 DEF Ends, GateHeld, Terminal
<1>2. IsFiniteSet(Interrupted)
  <2>1. Interrupted \subseteq used /\ IsFiniteSet(used)
    BY <1>0, Kinds DEF Interrupted, Record, Unasked, Typed
  <2> QED
    BY <2>1, FS_Subset
<1>3. /\ log' \in Seq(Event) /\ client' \in ClientRecord /\ client'.on = client.on
      /\ SilentAfterEnding'
      /\ client.on => \A c \in External :
             client'.view[c] = IF row[c] = "interrupted" THEN "error" ELSE client.view[c]
  BY <1>0, <1>1, <1>2, PublishesEndings
<1>4. driver' \in TaskRecord /\ driver'.pc \notin {"begun", "resolved", "announceEnd"}
      /\ (driver'.pc = "gone" \/ flag)
  BY <1>0, TasksAndWorkers DEF Typed, Ends, GateHeld
<1>5. Typed'
  BY <1>0, <1>3, <1>4 DEF Typed
<1>6. InHand' /\ Record'
  <2>1. CASE driver.pc = "announceEnd" /\ driver' = NoTask
    <3>1. driver'.pc = "gone" /\ worker.pc = "dead" /\ worker.call = NoCall
      BY <1>0, <2>1, TasksAndWorkers DEF InHand
    <3> QED
      BY <1>0, <3>1 DEF InHand, Record, Unasked, Open, Untold, ConsumedIsDurable
  <2>2. CASE driver' = driver
    BY <1>0, <2>2 DEF InHand, Same, Record, Unasked, Open, Untold, AtWork, ConsumedIsDurable
  <2> QED
    BY <2>1, <2>2
<1>7. Ends'
  BY <1>0, <1>1, <1>3, <1>4 DEF Ends, GateHeld
<1>8. Live'
  <2>1. Shown("interrupted") = "error"
    BY DEF Shown
  <2>2. driver.pc \notin {"begun", "resolved"}
    BY <1>0 DEF Ends, GateHeld
  <2> QED
    BY <1>0, <1>3, <2>1, <2>2 DEF Live, Behind
<1> QED
  BY <1>5, <1>6, <1>7, <1>8 DEF IInv

LEMMA AnnounceEndKeeps ==
  ASSUME IInv, AnnounceEnd PROVE IInv'
  BY EndingKeeps DEF AnnounceEnd, At, bounds

LEMMA StopPublishKeeps ==
  ASSUME IInv, StopPublish PROVE IInv'
  BY EndingKeeps DEF StopPublish, bounds

-----------------------------------------------------------------------------
(* Resume, retry, crash, subscribe.                                        *)

\* A new generation starts on rows that hold no open external call, with a
\* model that was told what they say.
LEMMA ActivateKeeps ==
  ASSUME IInv, Activate, status \in {"parked", "errored"},
         row' \in [Calls -> Rows], told' \in [Calls -> {"none"} \cup Results],
         \A c \in Calls : row'[c] # "none" => row[c] # "none",
         \A c \in Calls : told'[c] # "none" => row'[c] = told'[c],
         \A c \in Tools : row'[c] \in Results => told'[c] = row'[c],
         \A c \in External : row'[c] # "pending"
  PROVE  IInv'
<1>0. Typed /\ InHand /\ Ends /\ Record /\ Live
  BY DEF IInv
<1>1. /\ driver.pc = "gone" /\ status' = "running" /\ flag' = FALSE /\ log' = <<>>
      /\ driver' \in TaskRecord /\ driver'.pc = "loop" /\ driver'.call = NoCall
      /\ worker' \in WorkerRecord /\ worker'.pc = "think" /\ worker'.call = NoCall
      /\ UNCHANGED <<used, gate>>
  BY TasksAndWorkers DEF Activate, At
<1>2. client' \in ClientRecord /\ client'.on = FALSE
  BY DEF Activate, ClientRecord, NoRows, Views
<1>3. gate = "free"
  BY <1>0, <1>1 DEF Ends, GateHeld, Typed
<1>4. Typed'
  <2>1. log' \in Seq(Event)
    BY <1>1, EmptySeq
  <2> QED
    BY <1>0, <1>1, <1>2, <2>1 DEF Typed
<1>5. InHand'
  BY <1>1 DEF InHand
<1>6. Ends'
  <2>1. ~Ended' /\ SilentAfterEnding'
    BY <1>1 DEF Ended, SilentAfterEnding
  <2> QED
    BY <1>1, <1>3, <2>1 DEF Ends, GateHeld
<1>7. Record'
  <2>1. \A c \in Calls : Unasked(c)'
    BY <1>0, <1>1 DEF Record, Unasked
  <2>2. (\A c \in External : Open(c)') /\ (\A c \in Tools : Untold(c)')
    BY DEF Open, Untold
  <2>3. ConsumedIsDurable'
    BY Kinds DEF ConsumedIsDurable
  <2> QED
    BY <1>1, <2>1, <2>2, <2>3 DEF Record
<1>8. Live'
  BY <1>2 DEF Live
<1> QED
  BY <1>4, <1>5, <1>6, <1>7, <1>8 DEF IInv

LEMMA ResumeKeeps ==
  ASSUME IInv, Resume PROVE IInv'
<1>0. Typed /\ Record /\ status = "parked"
  BY DEF IInv, Resume
<1>1. PICK p \in Proposal : row[p] = "pending" /\ row' = [row EXCEPT ![p] = "completed"]
  BY DEF Resume
<1>2. /\ row' \in [Calls -> Rows] /\ row'[p] = "completed"
      /\ \A c \in Calls : c # p => row'[c] = row[c]
  BY <1>0, <1>1, Kinds DEF Typed, Rows, Results
<1>3. told' = [c \in Calls |-> IF row'[c] \in Results THEN row'[c] ELSE "none"]
  BY DEF Resume, Transcript
<1>4. told' \in [Calls -> {"none"} \cup Results]
  BY <1>3
<1>5. \A c \in Calls : told'[c] # "none" => row'[c] = told'[c]
  BY <1>3
<1>6. \A c \in Tools : row'[c] \in Results => told'[c] = row'[c]
  BY <1>3, Kinds
<1>7. \A c \in Calls : row'[c] # "none" => row[c] # "none"
  BY <1>1, <1>2
<1>8. \A c \in External : row'[c] # "pending"
  BY <1>0, <1>1, <1>2, Kinds DEF Record, Open
<1>9. Activate
  BY DEF Resume
<1> QED
  BY <1>0, <1>2, <1>4, <1>5, <1>6, <1>7, <1>8, <1>9, ActivateKeeps

LEMMA RetryKeeps ==
  ASSUME IInv, Retry PROVE IInv'
<1>0. Typed /\ Record /\ status = "errored"
  BY DEF IInv, Retry
<1>1. /\ row' = Discarded /\ told' = [c \in Calls |-> "none"] /\ Activate
  BY DEF Retry
<1>2. row' = [c \in Calls |-> IF ProposalBacked(c) THEN row[c] ELSE "none"]
  BY <1>1 DEF Discarded
<1>3. row' \in [Calls -> Rows] /\ told' \in [Calls -> {"none"} \cup Results]
  BY <1>0, <1>1, <1>2 DEF Typed, Rows
<1>4. \A c \in Calls : row'[c] # "none" => row[c] # "none"
  BY <1>2
<1>5. \A c \in Calls : told'[c] = "none"
  BY <1>1
<1>6. \A c \in Tools : row'[c] = "none"
  BY <1>2, Kinds DEF ProposalBacked
<1> QED
  BY <1>0, <1>1, <1>3, <1>4, <1>5, <1>6, Kinds, ActivateKeeps DEF Results

LEMMA CrashKeeps ==
  ASSUME IInv, Crash PROVE IInv'
<1>0. Typed /\ InHand /\ Ends /\ Record /\ Live
  BY DEF IInv
<1>1. /\ driver' \in TaskRecord /\ driver'.pc = "gone"
      /\ worker' \in WorkerRecord /\ worker'.pc = "dead" /\ worker'.call = NoCall
      /\ gate' = "free" /\ flag' = FALSE /\ log' = <<>> /\ UNCHANGED <<used, told>>
  BY TasksAndWorkers DEF Crash
<1>2. client' \in ClientRecord /\ client'.on = FALSE
  BY DEF Crash, ClientRecord, NoRows, Views
<1>3. \/ status = "running" /\ status' = "errored" /\ row' = Settled
      \/ status # "running" /\ UNCHANGED <<status, row>>
  BY DEF Crash
<1>4. SettlesTo(row') /\ status' # "running"
      /\ status' \in {"running", "parked"} \cup Terminal
  <2>1. CASE status = "running"
    BY <1>0, <1>3, <2>1, SettledIs DEF Terminal
  <2>2. CASE status # "running"
    <3>1. \A c \in External : row[c] # "pending"
      BY <1>0, <2>2 DEF Record, Open
    <3> QED
      BY <1>0, <1>3, <2>2, <3>1 DEF SettlesTo, Typed
  <2> QED
    BY <2>1, <2>2
<1>5. Typed'
  <2>1. log' \in Seq(Event) /\ row' \in [Calls -> Rows]
    BY <1>1, <1>4, EmptySeq DEF SettlesTo
  <2> QED
    BY <1>0, <1>1, <1>2, <1>4, <2>1 DEF Typed
<1>6. InHand'
  BY <1>1 DEF InHand
<1>7. Ends'
  <2>1. ~Ended' /\ SilentAfterEnding'
    BY <1>1 DEF Ended, SilentAfterEnding
  <2> QED
    BY <1>1, <2>1 DEF Ends, GateHeld
<1>8. Record'
  <2>1. \A c \in Calls : Unasked(c)'
    BY <1>0, <1>1, <1>4 DEF Record, Unasked, SettlesTo
  <2>2. (\A c \in External : Open(c)') /\ (\A c \in Tools : Untold(c)')
    BY <1>1, <1>4 DEF Open, Untold, SettlesTo
  <2>3. ConsumedIsDurable'
    <3> SUFFICES ASSUME NEW c \in External, told[c] # "none" PROVE row'[c] = told[c]
      BY <1>1 DEF ConsumedIsDurable
    <3>1. row[c] = told[c] /\ told[c] \in Results
      BY <1>0, Kinds DEF Record, ConsumedIsDurable, Typed
    <3> QED
      BY <1>4, <3>1, Kinds DEF SettlesTo, Results
  <2> QED
    BY <1>1, <2>1, <2>2, <2>3 DEF Record
<1>9. Live'
  BY <1>2 DEF Live
<1> QED
  BY <1>5, <1>6, <1>7, <1>8, <1>9 DEF IInv

LEMMA SubscribeKeeps ==
  ASSUME IInv, Subscribe PROVE IInv'
<1>0. Typed /\ InHand /\ Ends /\ Record /\ Live
  BY DEF IInv
<1>1. /\ client' = [on |-> TRUE, view |-> [c \in Tools |-> Shown(row[c])]]
      /\ UNCHANGED <<status, row, used, gate, flag, driver, worker, told, log>>
  BY DEF Subscribe
<1>2. client' \in ClientRecord
  <2>1. \A c \in Tools : Shown(row[c]) \in Views
    BY DEF Shown, Views
  <2> QED
    BY <1>1, <2>1 DEF ClientRecord
<1>3. Typed'
  BY <1>0, <1>1, <1>2 DEF Typed
<1>4. InHand'
  BY <1>0, <1>1 DEF InHand, Same
<1>5. Ends'
  BY <1>0, <1>1 DEF Ends, GateHeld, Ended, SilentAfterEnding
<1>6. Record'
  BY <1>0, <1>1 DEF Record, Unasked, Open, Untold, AtWork, ConsumedIsDurable
<1>7. Live'
  BY <1>1, Kinds DEF Live
<1> QED
  BY <1>3, <1>4, <1>5, <1>6, <1>7 DEF IInv

-----------------------------------------------------------------------------
(* The invariant, and what it means.                                       *)

LEMMA StutterKeeps ==
  ASSUME IInv, UNCHANGED vars PROVE IInv'
<1>0. Typed /\ InHand /\ Ends /\ Record /\ Live
  BY DEF IInv
<1>1. UNCHANGED <<status, row, used, gate, flag, driver, worker, told, log, client>>
  BY DEF vars
<1>2. Typed' /\ InHand'
  BY <1>0, <1>1 DEF Typed, InHand, Same
<1>3. Ends' /\ Live'
  BY <1>0, <1>1 DEF Ends, GateHeld, Ended, SilentAfterEnding, Live, Behind
<1>4. Record'
  BY <1>0, <1>1 DEF Record, Unasked, Open, Untold, AtWork, ConsumedIsDurable
<1> QED
  BY <1>2, <1>3, <1>4 DEF IInv

LEMMA Invariance == Spec => []IInv
<1>1. Init => IInv
  BY InitIInv
<1>2. IInv /\ [Next]_vars => IInv'
  <2> SUFFICES ASSUME IInv, [Next]_vars PROVE IInv'
    OBVIOUS
  <2>1. CASE WorkerStep
    BY <2>1, AskKeeps, ExecuteKeeps, SayKeeps, DieKeeps DEF WorkerStep
  <2>2. CASE SeeCancel \/ Receive \/ Disconnected
    BY <2>2, SeeCancelKeeps, ReceiveKeeps, DisconnectedKeeps
  <2>3. CASE Begin \/ Begun \/ Ack \/ Finish \/ Resolved \/ Answer
    BY <2>3, BeginKeeps, BegunKeeps, AckKeeps, FinishKeeps, ResolvedKeeps, AnswerKeeps
  <2>4. CASE Announce \/ Insert \/ (\E r \in Results : RunTool(r)) \/ RefuseToolRequest \/ Report
    BY <2>4, AnnounceKeeps, InsertKeeps, RunToolKeeps, RefuseToolRequestKeeps, ReportKeeps
  <2>5. CASE Park \/ Settle \/ AnnounceEnd
    BY <2>5, ParkKeeps, SettleKeeps, AnnounceEndKeeps
  <2>6. CASE StopRunning \/ StopPublish \/ StopParked
    BY <2>6, StopRunningKeeps, StopPublishKeeps, StopParkedKeeps
  <2>7. CASE Resume \/ Retry \/ Crash \/ Subscribe
    BY <2>7, ResumeKeeps, RetryKeeps, CrashKeeps, SubscribeKeeps
  <2>8. CASE UNCHANGED vars
    BY <2>8, StutterKeeps
  <2> QED
    BY <2>1, <2>2, <2>3, <2>4, <2>5, <2>6, <2>7, <2>8 DEF Next, DriverStep
<1> QED
  BY <1>1, <1>2, PTL DEF Spec

\* What clients see of the external calls and what a reload reads agree when
\* the Run has ended, nothing follows the ending, and no external call stays
\* open in a Run that does not run (worker/external.rs, db/lifecycle.rs).
THEOREM ClientsAgreeAlways == Spec => []ClientsAgree
<1>1. IInv => TypeOK
  <2> SUFFICES ASSUME IInv PROVE TypeOK
    OBVIOUS
  <2>1. Typed /\ GateHeld
    BY DEF IInv, Ends
  <2> QED
    BY <2>1, Fields DEF TypeOK, Typed, Rows, GateHeld, Views
<1>2. IInv => LiveMatchesReload
  BY DEF IInv, Ends, GateHeld, Live, Behind, LiveMatchesReload
<1>3. IInv => SilentAfterEnding
  BY DEF IInv, Ends
<1>4. IInv => OpenOnlyWhileRunning
  BY DEF IInv, Record, Open, OpenOnlyWhileRunning
<1> QED
  BY <1>1, <1>2, <1>3, <1>4, Invariance, PTL DEF ClientsAgree

\* An external call is on record before the Worker runs it, and its result is
\* on record before the model is given it, whatever crashes, stops or fails
\* (worker/external.rs).
THEOREM RecordedFirstAlways == Spec => []RecordedFirst
<1>1. IInv => ExecutesRecorded
  BY Kinds DEF IInv, InHand, Record, AtWork, ExecutesRecorded
<1>2. IInv => ConsumedIsDurable
  BY DEF IInv, Record
<1> QED
  BY <1>1, <1>2, Invariance, PTL DEF RecordedFirst

\* While the model thinks, the rows hold no result that it was not given: what
\* a failed attempt left behind is gone, nothing is resolved behind its back
\* (prepare_retry, reconstruct).
THEOREM NothingUntoldAlways == Spec => []NothingUntold
<1>1. IInv => NothingUntold
  <2> SUFFICES ASSUME IInv, worker.pc = "think", NEW c \in Tools, row[c] \in Results
               PROVE  told[c] = row[c] /\ Transcript[c] = row[c]
    BY Kinds DEF NothingUntold, Transcript, Results
  <2>1. worker.call = NoCall
    BY DEF IInv, InHand
  <2> QED
    BY <2>1, Kinds DEF IInv, Record, Untold, Transcript
<1> QED
  BY <1>1, Invariance, PTL
=============================================================================
