--------------------------- MODULE Serving_proofs ---------------------------
(***************************************************************************)
(* Theorems about Serving: for any connections, Threads and scripts of     *)
(* requests, every answer is given once and in order, a list shows what    *)
(* its Client was told it had changed, and a title is told only once it is *)
(* stored and is one clean line of what the model said.                    *)
(*                                                                         *)
(* The argument: a connection works on the last frame it took, and every   *)
(* answer in its channel is to an earlier one (Earlier, InOrder); a        *)
(* Decision that runs beside its connection has not been answered before   *)
(* it says so (Decisions); and a Thread is archived or not as the last     *)
(* acknowledged request of its only filer says, or the one in hand once it *)
(* has written (Shelved), which is what a list reads (Reading, Listed).    *)
(* A title Worker collects what the model said and nothing else            *)
(* (AllHeard), and what the sanitizer makes of any text is one line within *)
(* the cap, of pieces said outside the tags, with single blanks: by        *)
(* induction over the two recursive functions that strip and collapse.     *)
(***************************************************************************)
EXTENDS Serving, SequenceTheorems, FiniteSetTheorems, WellFoundedInduction, TLAPS

(***************************************************************************)
(* Types.                                                                  *)
(***************************************************************************)
Conducts == {"new", "open", "refused", "closed"}
Shape(s) ==
    s = [at |-> s.at, sent |-> s.sent, read |-> s.read, busy |-> s.busy,
         step |-> s.step, rows |-> s.rows, made |-> s.made, out |-> s.out,
         delivered |-> s.delivered]
ConnOK(c, s) ==
    /\ Shape(s) /\ s.at \in Conducts
    /\ s.sent \in Seq(UNION ToSet(Scripts[c]))
    /\ s.read \in Nat /\ s.read <= Len(s.sent) /\ s.busy \in {Idle, s.read}
    /\ s.step \in Nat
    /\ s.out \in Seq(ToSet(s.out))
    /\ s.delivered \in Nat /\ s.delivered <= Len(s.out)
    /\ s.made \in Threads \cup {"none"}
    /\ s.busy = Idle => s.step = 1
    /\ s.busy # Idle => s.step \in 1..Len(Steps(s.sent[s.busy].method))
    /\ s.at # "open" => s.busy = Idle /\ s.out = <<>> /\ s.made = "none"
Row(r) == /\ r = [title |-> r.title, archived |-> r.archived]
          /\ r.archived \in BOOLEAN
TitlerOK(w) ==
    \/ w = NoTitler \/ w = Over
    \/ /\ w = [at |-> w.at, conn |-> w.conn, text |-> w.text,
               frames |-> w.frames, title |-> w.title]
       /\ w.at \in {"token", "launch", "collect", "write", "tell"}
       /\ w.conn \in Conns
Typed ==
    /\ core \in [at : {"off", "booting", "serving"}, step : Nat,
                 boots : 0..MaxBoots, shutdown : BOOLEAN]
    /\ conn = [c \in Conns |-> conn[c]]
    /\ \A c \in Conns : conn[c].at = "open" => core.at = "serving"
    /\ thread = [t \in Threads |-> thread[t]]
    /\ \A t \in Threads : ThreadExists(t) => Row(thread[t])
    /\ titler = [t \in Threads |-> titler[t]]
    /\ \A t \in Threads : TitlerOK(titler[t])
    /\ \A t \in Threads : titler[t] # NoTitler => ThreadExists(t)
    /\ decide \subseteq [conn : Conns, id : Nat, told : BOOLEAN, responded : BOOLEAN]
    /\ hadTitles = [t \in Threads |-> hadTitles[t]]
    /\ core.at # "serving" =>
           decide = {} /\ \A t \in Threads : titler[t] \in {NoTitler, Over}

(***************************************************************************)
(* The request in hand.                                                    *)
(***************************************************************************)
Changing == {"thread/rename", "thread/archive", "thread/unarchive"}
Listing == {"thread/list", "thread/list_archived"}
Handled(s, rows) ==
    s.busy # Idle =>
        LET r == s.sent[s.busy]
        IN  /\ r.method \in Changing /\ s.step > 1 =>
                   r.thread \in Threads /\ rows[r.thread] # NoThread
            /\ r.method = "thread/create" /\ s.step > 2 => s.made \in Threads
InHand(s, rows) ==
    /\ s.made \in Threads => rows[s.made] # NoThread
    /\ Handled(s, rows)

(***************************************************************************)
(* Answers.                                                                *)
(***************************************************************************)
\* Every answer is to a frame taken before the one in hand.
Earlier(s) ==
    \A k \in DOMAIN s.out : IsAnswer(s.out[k]) =>
        /\ s.out[k].id \in 1..s.read
        /\ s.busy # Idle => s.out[k].id # s.busy
Beside(s, i) == s.sent[i].method = "proposal/decide" /\ s.sent[i].write
InOrder(s) ==
    \A j, k \in DOMAIN s.out :
        j < k /\ IsAnswer(s.out[j]) /\ IsAnswer(s.out[k]) =>
            IF Beside(s, s.out[j].id) \/ Beside(s, s.out[k].id)
            THEN s.out[j].id # s.out[k].id
            ELSE s.out[j].id < s.out[k].id
\* A Decision beside its connection.
Unanswered(s, d) ==
    /\ s.at # "new"
    /\ s.at = "open" =>
           /\ d.id \in 1..s.read /\ Beside(s, d.id)
           /\ s.busy # Idle => d.id # s.busy
           /\ ~d.responded =>
                  \A k \in DOMAIN s.out : IsAnswer(s.out[k]) => s.out[k].id # d.id
Decisions ==
    /\ \A d \in decide : Unanswered(conn[d.conn], d)
    /\ \A d, e \in decide : d.conn = e.conn /\ d.id = e.id => d = e

(***************************************************************************)
(* Archiving.                                                              *)
(***************************************************************************)
Acknowledged(s, i) ==
    \E j \in DOMAIN s.out :
        IsAnswer(s.out[j]) /\ s.out[j].id = i /\ s.out[j].code = 0
\* The requests on t, up to the n-th, that the Client knows have been done.
Changes(s, t, n) == {i \in 1..n : Files(s.sent[i], t) /\ Acknowledged(s, i)}
IsLast(s, t, n, i) == i \in Changes(s, t, n) /\ \A j \in Changes(s, t, n) : j <= i
Sole(c, t) ==
    \A d \in Conns \ {c} : \A r \in UNION ToSet(Scripts[d]) : ~Files(r, t)
\* The request in hand has written and has not answered.
Filing(s, t) == s.busy # Idle /\ Files(s.sent[s.busy], t) /\ s.step = 3
Shelved(s, t, row) ==
    /\ Filing(s, t) =>
           /\ row # NoThread
           /\ row.archived = (s.sent[s.busy].method = "thread/archive")
    /\ ~Filing(s, t) /\ Changes(s, t, s.read) # {} =>
           /\ row # NoThread
           /\ \E i \in 1..s.read :
                  /\ IsLast(s, t, s.read, i)
                  /\ row.archived = (s.sent[i].method = "thread/archive")
\* What a list has read and not answered yet, and what it has answered.
Reading(s, t, row) ==
    /\ s.busy # Idle /\ s.sent[s.busy].method \in Listing /\ s.step = 2
    /\ Changes(s, t, s.read) # {}
    => (t \in s.rows) =
           (row.archived = (s.sent[s.busy].method = "thread/list_archived"))
Listed(s, t) ==
    \A k \in DOMAIN s.out :
        LET a == s.out[k]
        IN  /\ IsAnswer(a) /\ a.code = 0 /\ s.sent[a.id].method \in Listing
            /\ Changes(s, t, a.id - 1) # {}
            => \E i \in 1..(a.id - 1) :
                   /\ IsLast(s, t, a.id - 1, i)
                   /\ (t \in a.listed) =
                          ((s.sent[i].method = "thread/archive")
                           = (s.sent[a.id].method = "thread/list_archived"))
Filed(c, s, rows) ==
    \A t \in Threads : Sole(c, t) =>
        Shelved(s, t, rows[t]) /\ Reading(s, t, rows[t]) /\ Listed(s, t)

\* What holds of one connection, with the Threads' rows.
Facts(c, s, rows) ==
    ConnOK(c, s) /\ InHand(s, rows) /\ Earlier(s) /\ InOrder(s) /\ Filed(c, s, rows)

\* The inductive invariant.
IInv == Typed /\ Decisions /\ \A c \in Conns : Facts(c, conn[c], thread)

(***************************************************************************)
(* Titles.                                                                 *)
(***************************************************************************)
Told == \A t \in Threads : titler[t].at = "tell" => titler[t].title \in hadTitles[t]

(***************************************************************************)
(* What the operators return.                                              *)
(***************************************************************************)
LEMMA StepsOf ==
    /\ Steps("thread/create") = <<"check", "insert", "title", "answer">>
    /\ \A m \in Changing : Steps(m) = <<"check", "write", "answer">>
    /\ \A m \in Listing : Steps(m) = <<"read", "answer">>
    /\ Steps("proposal/decide") = <<"family">>
    /\ \A m \in Elsewhere : Steps(m) = <<"answer">>
    /\ \A m : m \notin Elsewhere \cup Changing \cup Listing
                    \cup {"thread/create", "proposal/decide"}
              => Steps(m) = <<"no_method">>
<1>1. Steps("thread/create") = <<"check", "insert", "title", "answer">>
  BY DEF Steps, Elsewhere
<1>2. \A m \in Changing : Steps(m) = <<"check", "write", "answer">>
  BY DEF Steps, Elsewhere, Changing
<1>3. \A m \in Listing : Steps(m) = <<"read", "answer">>
  BY DEF Steps, Elsewhere, Listing
<1>4. Steps("proposal/decide") = <<"family">>
  BY DEF Steps, Elsewhere
<1>5. \A m \in Elsewhere : Steps(m) = <<"answer">>
  <2>1. SUFFICES ASSUME NEW m \in Elsewhere PROVE Steps(m) = <<"answer">>
    OBVIOUS
  <2>2. m \notin Changing \cup Listing \cup {"thread/create", "proposal/decide"}
    BY <2>1 DEF Elsewhere, Changing, Listing
  <2>. QED  BY <2>1, <2>2 DEF Steps, Changing, Listing
<1>6. \A m : m \notin Elsewhere \cup Changing \cup Listing
                    \cup {"thread/create", "proposal/decide"}
              => Steps(m) = <<"no_method">>
  BY DEF Steps, Changing, Listing
<1>. QED  BY <1>1, <1>2, <1>3, <1>4, <1>5, <1>6

\* The step of a method tells where in which method it is.
LEMMA StepTells ==
    ASSUME NEW m, NEW n \in 1..Len(Steps(m))
    PROVE  /\ Len(Steps(m)) \in 1..4
           /\ Steps(m)[n] = "check" =>
                  n = 1 /\ m \in Changing \cup {"thread/create"} /\ Len(Steps(m)) > 2
           /\ Steps(m)[n] = "insert" => n = 2 /\ m = "thread/create" /\ Len(Steps(m)) = 4
           /\ Steps(m)[n] = "title" => n = 3 /\ m = "thread/create" /\ Len(Steps(m)) = 4
           /\ Steps(m)[n] = "write" => n = 2 /\ m \in Changing /\ Len(Steps(m)) = 3
           /\ Steps(m)[n] = "read" => n = 1 /\ m \in Listing /\ Len(Steps(m)) = 2
           /\ Steps(m)[n] = "family" => n = 1 /\ m = "proposal/decide"
           /\ Steps(m)[n] = "no_method" => n = 1 /\ m \notin Changing \cup Listing
           /\ Steps(m)[n] = "answer" =>
                  /\ n = Len(Steps(m)) /\ m # "proposal/decide"
                  /\ m \in Changing => n = 3
                  /\ m \in Listing => n = 2
<1>1. CASE m = "thread/create"
  <2>1. m \notin Changing \cup Listing /\ m # "proposal/decide"
    BY <1>1 DEF Changing, Listing
  <2>2. Steps(m) = <<"check", "insert", "title", "answer">>
    BY <1>1, StepsOf
  <2>3. Len(Steps(m)) = 4 /\ Steps(m)[1] = "check" /\ Steps(m)[2] = "insert" /\ Steps(m)[3] = "title" /\ Steps(m)[4] = "answer"
    BY <2>2
  <2>4. n \in {1, 2, 3, 4}
    BY <2>3
  <2>5. CASE n = 1
    BY <1>1, <2>1, <2>3, <2>5
  <2>6. CASE n = 2
    BY <1>1, <2>1, <2>3, <2>6
  <2>7. CASE n = 3
    BY <1>1, <2>1, <2>3, <2>7
  <2>8. CASE n = 4
    BY <1>1, <2>1, <2>3, <2>8
  <2>. QED  BY <2>4, <2>5, <2>6, <2>7, <2>8
<1>2. CASE m \in Changing
  <2>1. m \notin Listing \cup {"thread/create", "proposal/decide"}
    BY <1>2 DEF Changing, Listing
  <2>2. Steps(m) = <<"check", "write", "answer">>
    BY <1>2, StepsOf
  <2>3. Len(Steps(m)) = 3 /\ Steps(m)[1] = "check" /\ Steps(m)[2] = "write" /\ Steps(m)[3] = "answer"
    BY <2>2
  <2>4. n \in {1, 2, 3}
    BY <2>3
  <2>. QED  BY <1>2, <2>1, <2>3, <2>4
<1>3. CASE m \in Listing
  <2>1. m \notin Changing \cup {"thread/create", "proposal/decide"}
    BY <1>3 DEF Changing, Listing
  <2>2. Steps(m) = <<"read", "answer">>
    BY <1>3, StepsOf
  <2>3. Len(Steps(m)) = 2 /\ Steps(m)[1] = "read" /\ Steps(m)[2] = "answer"
    BY <2>2
  <2>4. n \in {1, 2}
    BY <2>3
  <2>. QED  BY <1>3, <2>1, <2>3, <2>4
<1>4. CASE m = "proposal/decide"
  <2>1. m \notin Changing \cup Listing
    BY <1>4 DEF Changing, Listing
  <2>2. Steps(m) = <<"family">>
    BY <1>4, StepsOf
  <2>3. Len(Steps(m)) = 1 /\ Steps(m)[1] = "family"
    BY <2>2
  <2>4. n \in {1}
    BY <2>3
  <2>. QED  BY <1>4, <2>1, <2>3, <2>4
<1>5. CASE m \in Elsewhere
  <2>1. m \notin Changing \cup Listing \cup {"thread/create", "proposal/decide"}
    BY <1>5 DEF Elsewhere, Changing, Listing
  <2>2. Steps(m) = <<"answer">>
    BY <1>5, StepsOf
  <2>3. Len(Steps(m)) = 1 /\ Steps(m)[1] = "answer"
    BY <2>2
  <2>4. n \in {1}
    BY <2>3
  <2>. QED  BY <1>5, <2>1, <2>3, <2>4
<1>6. CASE m \notin Elsewhere \cup Changing \cup Listing
                    \cup {"thread/create", "proposal/decide"}
  <2>1. m \notin Changing \cup Listing
    BY <1>6 DEF Changing
  <2>2. Steps(m) = <<"no_method">>
    BY <1>6, StepsOf
  <2>3. Len(Steps(m)) = 1 /\ Steps(m)[1] = "no_method"
    BY <2>2
  <2>4. n \in {1}
    BY <2>3
  <2>. QED  BY <1>6, <2>1, <2>3, <2>4
<1>. QED  BY <1>1, <1>2, <1>3, <1>4, <1>5, <1>6

\* No failure has the code of success.
LEMMA FailuresHaveCodes ==
    \A f \in {"invalid_params", "unknown_thread", "not_pending", "internal",
              "provider_not_connected", "stale_connection", "method_not_found"} :
        Code(f) # Code("ok")
BY DEF Code

LEMMA OkIsZero == Code("ok") = 0
BY DEF Code

\* A sequence is one of its own elements.
LEMMA SeqOfItself ==
    ASSUME NEW S, NEW s \in Seq(S)
    PROVE  s \in Seq(ToSet(s))
<1>1. Len(s) \in Nat /\ DOMAIN s = 1..Len(s) /\ s = [i \in 1..Len(s) |-> s[i]]
  BY LenProperties
<1>2. s \in [1..Len(s) -> ToSet(s)]
  BY <1>1 DEF ToSet
<1>. QED  BY <1>1, <1>2, IsASeq

\* A channel with one more frame.
LEMMA OneMore ==
    ASSUME NEW s, s \in Seq(ToSet(s)), NEW f
    PROVE  LET n == s \o <<f>>
           IN  /\ n \in Seq(ToSet(n)) /\ Len(n) = Len(s) + 1
               /\ DOMAIN s = 1..Len(s) /\ DOMAIN n = 1..(Len(s) + 1)
               /\ \A k \in DOMAIN s : n[k] = s[k]
               /\ n[Len(s) + 1] = f
<1>. DEFINE S == ToSet(s) \cup {f}
            n == s \o <<f>>
<1>1. s \in Seq(S)
  BY SeqMonotonic
<1>2. <<f>> \in Seq(S) /\ Len(<<f>>) = 1 /\ <<f>>[1] = f
  OBVIOUS
<1>. HIDE DEF S
<1>3. /\ n \in Seq(S) /\ Len(n) = Len(s) + 1
      /\ \A i \in 1..Len(s) : n[i] = s[i]
      /\ n[Len(s) + 1] = f
  BY <1>1, <1>2, ConcatProperties
<1>4. n \in Seq(ToSet(n))
  BY <1>3, SeqOfItself
<1>. QED  BY <1>1, <1>3, <1>4, LenProperties

(***************************************************************************)
(* How a step changes one connection: r becomes s.                         *)
(***************************************************************************)
\* The channel o has grown to n, by f and by nothing else a Client waits for.
Grown(o, n, f) ==
    /\ n \in Seq(ToSet(n)) /\ Len(o) \in Nat /\ Len(n) \in Nat /\ Len(n) > Len(o)
    /\ DOMAIN o = 1..Len(o) /\ DOMAIN n = 1..Len(n)
    /\ \A k \in DOMAIN o : n[k] = o[k]
    /\ n[Len(o) + 1] = f
    /\ \A k \in DOMAIN n : k > Len(o) + 1 => n[k] = ProposalChanged
\* The frames, what was taken of them, and what was delivered.
Stays(r, s) ==
    /\ Shape(s) /\ s.at = r.at /\ s.sent = r.sent /\ s.read = r.read
    /\ s.delivered = r.delivered
\* The handler ends with an answer.
Ended(r, s, a) ==
    /\ Stays(r, s) /\ s.busy = Idle /\ s.step = 1 /\ Grown(r.out, s.out, a)
    /\ s.made \in {r.made, "none"}
\* The handler goes on.
WentOn(r, s) ==
    /\ Stays(r, s) /\ s.busy = r.busy /\ s.step = r.step + 1 /\ s.out = r.out
\* A task beside the handler says something.
Said1(r, s, f) ==
    /\ Stays(r, s) /\ s.busy = r.busy /\ s.step = r.step /\ Grown(r.out, s.out, f)
    /\ s.made = r.made /\ s.rows = r.rows
OnlyConn(c) ==
    /\ conn' = [d \in Conns |-> conn'[d]]
    /\ \A d \in Conns \ {c} : conn'[d] = conn[d]

LEMMA GrowsByOne ==
    ASSUME NEW o, o \in Seq(ToSet(o)), NEW f
    PROVE  Grown(o, o \o <<f>>, f)
<1>1. o \o <<f>> \in Seq(ToSet(o \o <<f>>)) /\ Len(o \o <<f>>) = Len(o) + 1
  BY OneMore
<1>2. /\ DOMAIN o = 1..Len(o) /\ DOMAIN (o \o <<f>>) = 1..(Len(o) + 1)
      /\ \A k \in DOMAIN o : (o \o <<f>>)[k] = o[k]
      /\ (o \o <<f>>)[Len(o) + 1] = f
  BY OneMore
<1>3. Len(o) \in Nat
  BY LenProperties
<1>. QED  BY <1>1, <1>2, <1>3 DEF Grown

LEMMA TwoMore ==
    ASSUME NEW S, NEW o \in Seq(S), NEW w \in Seq(S), Len(w) = 2
    PROVE  /\ o \o w \in Seq(S) /\ Len(o \o w) = Len(o) + 2
           /\ \A i \in 1..Len(o) : (o \o w)[i] = o[i]
           /\ (o \o w)[Len(o) + 1] = w[1] /\ (o \o w)[Len(o) + 2] = w[2]
<1>1. Len(o) \in Nat
  BY LenProperties
<1>2. /\ o \o w \in Seq(S) /\ Len(o \o w) = Len(o) + Len(w)
      /\ \A i \in 1..(Len(o) + Len(w)) :
             (o \o w)[i] = IF i <= Len(o) THEN o[i] ELSE w[i - Len(o)]
  BY ConcatProperties
<1>3. Len(o) + 1 - Len(o) = 1 /\ Len(o) + 2 - Len(o) = 2
  BY <1>1
<1>. QED  BY <1>1, <1>2, <1>3

LEMMA GrowsByTwo ==
    ASSUME NEW o, o \in Seq(ToSet(o)), NEW f
    PROVE  Grown(o, o \o <<f, ProposalChanged>>, f)
<1>. DEFINE S == ToSet(o) \cup {f, ProposalChanged}
            two == <<f, ProposalChanged>>
            n == o \o two
<1>1. o \in Seq(S) /\ Len(o) \in Nat /\ DOMAIN o = 1..Len(o)
  BY SeqMonotonic, LenProperties
<1>2. two \in Seq(S) /\ Len(two) = 2 /\ two[1] = f /\ two[2] = ProposalChanged
  OBVIOUS
<1>. HIDE DEF S, two
<1>3. /\ n \in Seq(S) /\ Len(n) = Len(o) + 2
      /\ \A i \in 1..Len(o) : n[i] = o[i]
      /\ n[Len(o) + 1] = f /\ n[Len(o) + 2] = ProposalChanged
  BY <1>1, <1>2, TwoMore
<1>4. n \in Seq(ToSet(n)) /\ DOMAIN n = 1..(Len(o) + 2)
  BY <1>3, SeqOfItself, LenProperties
<1>. HIDE DEF n
<1>5. Grown(o, n, f)
  BY <1>1, <1>3, <1>4 DEF Grown
<1>. QED  BY <1>5 DEF n, two

\* What a connection's task does to its connection.
LEMMA FailForm ==
    ASSUME conn = [d \in Conns |-> conn[d]], NEW c \in Conns, NEW failure,
           ConnOK(c, conn[c]), Busy(c), Fail(c, failure)
    PROVE  /\ OnlyConn(c)
           /\ Ended(conn[c], conn'[c], Answer(conn[c].busy, Code(failure), {}))
<1>. DEFINE r == conn[c]
            a == ErrorAnswer(r.busy, failure)
<1>1. r = [at |-> r.at, sent |-> r.sent, read |-> r.read, busy |-> r.busy,
           step |-> r.step, rows |-> r.rows, made |-> r.made, out |-> r.out,
           delivered |-> r.delivered]
  BY DEF ConnOK, Shape
<1>2. conn' = [conn EXCEPT ![c] = [r EXCEPT !.out = r.out \o <<a>>,
                                            !.busy = Idle, !.step = 1]]
  BY DEF Fail, Queue, Busy
<1>3. conn'[c] = [at |-> r.at, sent |-> r.sent, read |-> r.read, busy |-> Idle,
                  step |-> 1, rows |-> r.rows, made |-> r.made,
                  out |-> r.out \o <<a>>, delivered |-> r.delivered]
  <2>. HIDE DEF a
  <2>. QED  BY <1>1, <1>2
<1>4. Grown(r.out, r.out \o <<a>>, a)
  BY GrowsByOne DEF ConnOK
<1>5. OnlyConn(c)
  <2>. HIDE DEF r, a
  <2>. QED  BY <1>2 DEF OnlyConn
<1>6. Ended(r, conn'[c], a)
  <2>. HIDE DEF r, a
  <2>. QED  BY <1>3, <1>4 DEF Ended, Stays, Shape
<1>. QED  BY <1>5, <1>6 DEF ErrorAnswer

LEMMA ForwardForm ==
    ASSUME conn = [d \in Conns |-> conn[d]], NEW c \in Conns,
           ConnOK(c, conn[c]), Busy(c), NEW rows, NEW made,
           conn[c].step < Len(Steps(Request(c).method)),
           \/ conn' = Forward(conn, c) /\ rows = conn[c].rows /\ made = conn[c].made
           \/ conn' = [Forward(conn, c) EXCEPT ![c].rows = rows] /\ made = conn[c].made
           \/ conn' = [Forward(conn, c) EXCEPT ![c].made = made] /\ rows = conn[c].rows
    PROVE  /\ OnlyConn(c) /\ WentOn(conn[c], conn'[c])
           /\ conn'[c].rows = rows /\ conn'[c].made = made
<1>. DEFINE r == conn[c]
            s == [at |-> r.at, sent |-> r.sent, read |-> r.read, busy |-> r.busy,
                  step |-> r.step + 1, rows |-> rows, made |-> made, out |-> r.out,
                  delivered |-> r.delivered]
<1>1. r = [at |-> r.at, sent |-> r.sent, read |-> r.read, busy |-> r.busy,
           step |-> r.step, rows |-> r.rows, made |-> r.made, out |-> r.out,
           delivered |-> r.delivered]
  BY DEF ConnOK, Shape
<1>2. Forward(conn, c) = [conn EXCEPT ![c] = [r EXCEPT !.step = r.step + 1]]
  <2>1. r.step # Len(Steps(Request(c).method))
    <3>1. r.step \in Nat /\ r.step \in 1..Len(Steps(Request(c).method))
      BY DEF ConnOK, Busy, Request
    <3>. HIDE DEF r
    <3>. QED  BY <3>1 DEF r
  <2>. QED  BY <2>1 DEF Forward
<1>3. conn' = [conn EXCEPT ![c] = s]
  <2>1. [r EXCEPT !.step = r.step + 1] =
            [at |-> r.at, sent |-> r.sent, read |-> r.read, busy |-> r.busy,
             step |-> r.step + 1, rows |-> r.rows, made |-> r.made, out |-> r.out,
             delivered |-> r.delivered]
    <3>. HIDE DEF r
    <3>. QED  BY <1>1
  <2>2. CASE conn' = Forward(conn, c) /\ rows = conn[c].rows /\ made = conn[c].made
    BY <1>2, <2>1, <2>2
  <2>3. CASE conn' = [Forward(conn, c) EXCEPT ![c].rows = rows] /\ made = conn[c].made
    <3>1. conn' = [conn EXCEPT ![c] = [[r EXCEPT !.step = r.step + 1] EXCEPT !.rows = rows]]
      BY <1>2, <2>3
    <3>. QED  BY <2>1, <2>3, <3>1
  <2>4. CASE conn' = [Forward(conn, c) EXCEPT ![c].made = made] /\ rows = conn[c].rows
    <3>1. conn' = [conn EXCEPT ![c] = [[r EXCEPT !.step = r.step + 1] EXCEPT !.made = made]]
      BY <1>2, <2>4
    <3>. QED  BY <2>1, <2>4, <3>1
  <2>. QED  BY <2>2, <2>3, <2>4
<1>4. OnlyConn(c) /\ conn'[c] = s
  <2>. HIDE DEF s
  <2>. QED  BY <1>3 DEF OnlyConn
<1>. HIDE DEF r
<1>5. WentOn(r, conn'[c]) /\ conn'[c].rows = rows /\ conn'[c].made = made
  BY <1>4 DEF WentOn, Stays, Shape
<1>. QED  BY <1>4, <1>5 DEF r

LEMMA RecordSettled ==
    ASSUME NEW p, Shape(p)
    PROVE  [[[[p EXCEPT !.busy = Idle] EXCEPT !.step = 1] EXCEPT !.rows = {}]
            EXCEPT !.made = "none"]
           = [at |-> p.at, sent |-> p.sent, read |-> p.read, busy |-> Idle, step |-> 1,
              rows |-> {}, made |-> "none", out |-> p.out, delivered |-> p.delivered]
<1>1. [p EXCEPT !.busy = Idle]
      = [at |-> p.at, sent |-> p.sent, read |-> p.read, busy |-> Idle, step |-> p.step,
         rows |-> p.rows, made |-> p.made, out |-> p.out, delivered |-> p.delivered]
  BY DEF Shape
<1>2. [[at |-> p.at, sent |-> p.sent, read |-> p.read, busy |-> Idle, step |-> p.step,
        rows |-> p.rows, made |-> p.made, out |-> p.out, delivered |-> p.delivered]
       EXCEPT !.step = 1]
      = [at |-> p.at, sent |-> p.sent, read |-> p.read, busy |-> Idle, step |-> 1,
         rows |-> p.rows, made |-> p.made, out |-> p.out, delivered |-> p.delivered]
  OBVIOUS
<1>3. [[at |-> p.at, sent |-> p.sent, read |-> p.read, busy |-> Idle, step |-> 1,
        rows |-> p.rows, made |-> p.made, out |-> p.out, delivered |-> p.delivered]
       EXCEPT !.rows = {}]
      = [at |-> p.at, sent |-> p.sent, read |-> p.read, busy |-> Idle, step |-> 1,
         rows |-> {}, made |-> p.made, out |-> p.out, delivered |-> p.delivered]
  OBVIOUS
<1>4. [[at |-> p.at, sent |-> p.sent, read |-> p.read, busy |-> Idle, step |-> 1,
        rows |-> {}, made |-> p.made, out |-> p.out, delivered |-> p.delivered]
       EXCEPT !.made = "none"]
      = [at |-> p.at, sent |-> p.sent, read |-> p.read, busy |-> Idle, step |-> 1,
         rows |-> {}, made |-> "none", out |-> p.out, delivered |-> p.delivered]
  OBVIOUS
<1>. QED  BY <1>1, <1>2, <1>3, <1>4, Zenon

LEMMA ResponseForm ==
    ASSUME conn = [d \in Conns |-> conn[d]], NEW c \in Conns,
           ConnOK(c, conn[c]), Busy(c),
           conn[c].step = Len(Steps(Request(c).method)), SendResponse(c)
    PROVE  /\ OnlyConn(c)
           /\ Ended(conn[c], conn'[c],
                    Answer(conn[c].busy, Code("ok"), conn[c].rows))
<1>. DEFINE r == conn[c]
            a == Answer(r.busy, Code("ok"), r.rows)
            q == Queue(conn, c, <<a>>)
            o == r.out \o <<a>>
<1>1. r = [at |-> r.at, sent |-> r.sent, read |-> r.read, busy |-> r.busy,
           step |-> r.step, rows |-> r.rows, made |-> r.made, out |-> r.out,
           delivered |-> r.delivered]
  BY DEF ConnOK, Shape
<1>2. q = [conn EXCEPT ![c] = [r EXCEPT !.out = o]]
  <2>. HIDE DEF a
  <2>. QED  BY DEF Queue, Busy
<1>3. q[c] = [at |-> r.at, sent |-> r.sent, read |-> r.read, busy |-> r.busy,
              step |-> r.step, rows |-> r.rows, made |-> r.made, out |-> o,
              delivered |-> r.delivered]
  <2>. HIDE DEF o, q
  <2>. QED  BY <1>1, <1>2
<1>4. Forward(q, c) = [q EXCEPT ![c].busy = Idle, ![c].step = 1]
  <2>. HIDE DEF q, o
  <2>. QED  BY <1>3 DEF Forward
<1>5. conn' = [[q EXCEPT ![c].busy = Idle, ![c].step = 1]
               EXCEPT ![c].rows = {}, ![c].made = "none"]
  <2>. HIDE DEF q
  <2>1. conn' = [Forward(q, c) EXCEPT ![c].rows = {}, ![c].made = "none"]
    BY DEF SendResponse, q
  <2>. QED  BY <1>4, <2>1
<1>6. OnlyConn(c) /\ conn'[c] =
         [at |-> r.at, sent |-> r.sent, read |-> r.read, busy |-> Idle,
          step |-> 1, rows |-> {}, made |-> "none", out |-> o,
          delivered |-> r.delivered]
  <2>. DEFINE p == q[c]
              x == [[[[p EXCEPT !.busy = Idle] EXCEPT !.step = 1]
                                   EXCEPT !.rows = {}] EXCEPT !.made = "none"]
  <2>1. q = [d \in Conns |-> q[d]] /\ \A d \in Conns \ {c} : q[d] = conn[d]
    <3>. HIDE DEF q, o
    <3>. QED  BY <1>2
  <2>2. conn' = [q EXCEPT ![c] = x]
    <3>. HIDE DEF q
    <3>. QED  BY <1>5, <2>1
  <2>3. /\ p.at = r.at /\ p.sent = r.sent /\ p.read = r.read
        /\ p.out = o /\ p.delivered = r.delivered /\ Shape(p)
    <3>. HIDE DEF q, r, o
    <3>. QED  BY <1>3 DEF Shape
  <2>4. x = [at |-> p.at, sent |-> p.sent, read |-> p.read, busy |-> Idle,
             step |-> 1, rows |-> {}, made |-> "none", out |-> p.out,
             delivered |-> p.delivered]
    <3>. HIDE DEF p
    <3>. QED  BY <2>3, RecordSettled
  <2>5. OnlyConn(c) /\ conn'[c] = x
    <3>. HIDE DEF x, q
    <3>. QED  BY <2>1, <2>2 DEF OnlyConn
  <2>. HIDE DEF p, r, o, x
  <2>. QED  BY <2>3, <2>4, <2>5
<1>7. Grown(r.out, o, a)
  BY GrowsByOne DEF ConnOK
<1>. HIDE DEF r, a, o, q
<1>8. Ended(r, conn'[c], a)
  BY <1>6, <1>7 DEF Ended, Stays, Shape
<1>. QED  BY <1>6, <1>8 DEF r, a

LEMMA QueueForm ==
    ASSUME conn = [d \in Conns |-> conn[d]], NEW c \in Conns,
           ConnOK(c, conn[c]), NEW f, conn' = Queue(conn, c, <<f>>)
    PROVE  /\ OnlyConn(c)
           /\ \/ conn[c].at = "open" /\ Said1(conn[c], conn'[c], f)
              \/ conn[c].at # "open" /\ conn'[c] = conn[c]
<1>. DEFINE r == conn[c]
            o == r.out \o <<f>>
<1>1. CASE r.at # "open"
  BY <1>1 DEF Queue, OnlyConn
<1>2. CASE r.at = "open"
  <2>1. r = [at |-> r.at, sent |-> r.sent, read |-> r.read, busy |-> r.busy,
             step |-> r.step, rows |-> r.rows, made |-> r.made, out |-> r.out,
             delivered |-> r.delivered]
    BY DEF ConnOK, Shape
  <2>2. conn' = [conn EXCEPT ![c] = [r EXCEPT !.out = o]]
    BY <1>2 DEF Queue
  <2>3. Grown(r.out, o, f)
    BY GrowsByOne DEF ConnOK
  <2>4. OnlyConn(c) /\ conn'[c] = [r EXCEPT !.out = o]
    <3>. HIDE DEF r, o
    <3>. QED  BY <2>2 DEF OnlyConn
  <2>. HIDE DEF o, r
  <2>5. Said1(r, conn'[c], f)
    BY <2>1, <2>3, <2>4 DEF Said1, Stays, Shape
  <2>. QED  BY <1>2, <2>4, <2>5 DEF r
<1>. QED  BY <1>1, <1>2

\* A Decision that goes on beside the connection leaves the handler.
Left(r, s) ==
    /\ Stays(r, s) /\ s.busy = Idle /\ s.step = r.step /\ s.out = r.out
    /\ s.made = r.made /\ s.rows = r.rows

LEMMA DecideForm ==
    ASSUME conn = [d \in Conns |-> conn[d]], NEW c \in Conns,
           ConnOK(c, conn[c]), Busy(c), conn[c].step = 1, HandleDecide(c)
    PROVE  /\ OnlyConn(c)
           /\ \/ Request(c).write /\ Left(conn[c], conn'[c])
              \/ /\ decide' = decide
                 /\ \E code : Ended(conn[c], conn'[c], Answer(conn[c].busy, code, {}))
<1>. DEFINE r == conn[c]
<1>0. r = [at |-> r.at, sent |-> r.sent, read |-> r.read, busy |-> r.busy,
           step |-> r.step, rows |-> r.rows, made |-> r.made, out |-> r.out,
           delivered |-> r.delivered]
  BY DEF ConnOK, Shape
<1>1. CASE Request(c).write
  <2>1. conn' = [conn EXCEPT ![c].busy = Idle]
    BY <1>1 DEF HandleDecide
  <2>2. OnlyConn(c) /\ conn'[c] = [r EXCEPT !.busy = Idle]
    <3>. HIDE DEF r
    <3>. QED  BY <2>1 DEF OnlyConn, r
  <2>. HIDE DEF r
  <2>3. Left(r, conn'[c])
    BY <1>0, <2>2 DEF Left, Stays, Shape
  <2>. QED  BY <1>1, <2>2, <2>3 DEF r
<1>2. CASE ~Request(c).write
  <2>1. decide' = decide
    BY <1>2 DEF HandleDecide
  <2>2. CASE \E failure \in DecideErrors : Fail(c, failure)
    <3>1. PICK failure \in DecideErrors : Fail(c, failure)
      BY <2>2
    <3>. QED  BY <2>1, <3>1, FailForm
  <2>3. CASE conn' = [Queue(conn, c, <<DecideResult(r.busy), ProposalChanged>>)
                      EXCEPT ![c].busy = Idle]
    <3>. DEFINE a == DecideResult(r.busy)
                o == r.out \o <<a, ProposalChanged>>
    <3>1. conn' = [conn EXCEPT ![c] = [r EXCEPT !.out = o, !.busy = Idle]]
      <4>. DEFINE w == <<a, ProposalChanged>>
      <4>1. conn' = [Queue(conn, c, w) EXCEPT ![c].busy = Idle] /\ o = r.out \o w
        BY <2>3
      <4>. HIDE DEF a, o, w
      <4>2. Queue(conn, c, w) = [conn EXCEPT ![c] = [r EXCEPT !.out = o]]
        BY <4>1 DEF Queue, Busy
      <4>. QED  BY <4>1, <4>2
    <3>2. OnlyConn(c) /\ conn'[c] = [r EXCEPT !.out = o, !.busy = Idle]
      <4>. HIDE DEF o, r
      <4>. QED  BY <3>1 DEF OnlyConn
    <3>3. Grown(r.out, o, a)
      BY GrowsByTwo DEF ConnOK
    <3>4. a = Answer(r.busy, Code("ok"), {})
      BY DEF DecideResult
    <3>5. r.step = 1
      OBVIOUS
    <3>. HIDE DEF o, r, a
    <3>6. Ended(r, conn'[c], a)
      BY <1>0, <3>2, <3>3, <3>5 DEF Ended, Stays, Shape
    <3>. QED  BY <2>1, <3>2, <3>4, <3>6 DEF r
  <2>. QED  BY <1>2, <2>2, <2>3 DEF HandleDecide
<1>. QED  BY <1>1, <1>2

(***************************************************************************)
(* What a longer channel says.                                             *)
(***************************************************************************)
LEMMA AnswersOf ==
    ASSUME NEW o, NEW n, NEW f, Grown(o, n, f), NEW k \in DOMAIN n, IsAnswer(n[k])
    PROVE  \/ k \in DOMAIN o /\ n[k] = o[k]
           \/ k = Len(o) + 1 /\ n[k] = f
<1>1. ~IsAnswer(ProposalChanged)
  BY DEF IsAnswer, ProposalChanged
<1>2. k \in DOMAIN o \/ k = Len(o) + 1 \/ k > Len(o) + 1
  BY DEF Grown
<1>. QED  BY <1>1, <1>2 DEF Grown

LEMMA Remembered ==
    ASSUME NEW o, NEW n, NEW f, Grown(o, n, f)
    PROVE  /\ \A k \in DOMAIN o : k \in DOMAIN n /\ n[k] = o[k] /\ k < Len(o) + 1
           /\ Len(o) + 1 \in DOMAIN n /\ n[Len(o) + 1] = f
BY DEF Grown

LEMMA AckGrows ==
    ASSUME NEW r, NEW s, NEW f, Grown(r.out, s.out, f), NEW i
    PROVE  Acknowledged(s, i) <=>
               Acknowledged(r, i) \/ (IsAnswer(f) /\ f.id = i /\ f.code = 0)
<1>1. ASSUME Acknowledged(r, i) PROVE Acknowledged(s, i)
  BY <1>1, Remembered DEF Acknowledged
<1>2. ASSUME IsAnswer(f) /\ f.id = i /\ f.code = 0 PROVE Acknowledged(s, i)
  BY <1>2, Remembered DEF Acknowledged
<1>3. ASSUME Acknowledged(s, i)
      PROVE  Acknowledged(r, i) \/ (IsAnswer(f) /\ f.id = i /\ f.code = 0)
  <2>1. PICK j \in DOMAIN s.out :
            IsAnswer(s.out[j]) /\ s.out[j].id = i /\ s.out[j].code = 0
    BY <1>3 DEF Acknowledged
  <2>2. \/ j \in DOMAIN r.out /\ s.out[j] = r.out[j]
        \/ j = Len(r.out) + 1 /\ s.out[j] = f
    BY <2>1, AnswersOf
  <2>. QED  BY <2>1, <2>2 DEF Acknowledged
<1>. QED  BY <1>1, <1>2, <1>3

\* What no answer changes.
LEMMA ChangesStay ==
    ASSUME NEW r, NEW s, NEW f, NEW t, NEW n, Grown(r.out, s.out, f), s.sent = r.sent,
           IsAnswer(f) /\ f.code = 0 /\ f.id \in 1..n => ~Files(r.sent[f.id], t)
    PROVE  Changes(s, t, n) = Changes(r, t, n)
<1>1. \A i : Acknowledged(s, i) <=>
               Acknowledged(r, i) \/ (IsAnswer(f) /\ f.id = i /\ f.code = 0)
  BY AckGrows
<1>. QED  BY <1>1 DEF Changes

LEMMA ChangesKeep ==
    ASSUME NEW r, NEW s, NEW t, NEW n, s.out = r.out,
           \A i \in 1..n : s.sent[i] = r.sent[i]
    PROVE  Changes(s, t, n) = Changes(r, t, n)
BY DEF Changes, Acknowledged


(***************************************************************************)
(* What each kind of step keeps of a connection.                           *)
(***************************************************************************)
\* The handler answers.
LEMMA EndedKeeps ==
    ASSUME NEW c \in Conns, NEW r, NEW s, NEW rows, NEW code, NEW listed,
           Facts(c, r, rows), r.busy # Idle, Ended(r, s, Answer(r.busy, code, listed)),
           code = 0 /\ r.sent[r.busy].method \in Changing => r.step = 3,
           code # 0 => r.step # 3 \/ r.sent[r.busy].method \notin Changing,
           code = 0 /\ r.sent[r.busy].method \in Listing =>
               r.step = 2 /\ listed = r.rows
    PROVE  Facts(c, s, rows)
<1>. DEFINE a == Answer(r.busy, code, listed)
            i == r.busy
            m == r.sent[r.busy].method
<1>1. IsAnswer(a) /\ a.id = i /\ a.code = code /\ a.listed = listed
  BY DEF IsAnswer, Answer
<1>2. /\ Stays(r, s) /\ s.busy = Idle /\ s.step = 1 /\ s.made \in {r.made, "none"}
      /\ Grown(r.out, s.out, a) /\ s.sent = r.sent /\ s.read = r.read
  BY DEF Ended, Stays
<1>. HIDE DEF a
<1>3. i = r.read /\ r.read \in Nat /\ i \in 1..r.read /\ r.at = "open"
  BY DEF Facts, ConnOK, Idle
<1>4. ConnOK(c, s)
  <2>1. s.out \in Seq(ToSet(s.out)) /\ Len(s.out) \in Nat /\ Len(s.out) > Len(r.out) /\ Len(r.out) \in Nat
    BY <1>2 DEF Grown
  <2>. QED  BY <1>2, <1>3, <2>1 DEF Facts, ConnOK, Stays
<1>5. InHand(s, rows)
  BY <1>2, ScriptAssumption DEF Facts, InHand, Handled
<1>6. \A k \in DOMAIN s.out : IsAnswer(s.out[k]) =>
          \/ /\ k \in DOMAIN r.out /\ s.out[k] = r.out[k]
             /\ s.out[k].id \in 1..r.read /\ s.out[k].id < i
          \/ k = Len(r.out) + 1 /\ s.out[k] = a
  <2>1. SUFFICES ASSUME NEW k \in DOMAIN s.out, IsAnswer(s.out[k]),
                        k \in DOMAIN r.out, s.out[k] = r.out[k]
                 PROVE  s.out[k].id \in 1..r.read /\ s.out[k].id < i
    BY <1>2, AnswersOf
  <2>2. r.out[k].id \in 1..r.read /\ r.out[k].id # i
    BY <2>1 DEF Facts, Earlier
  <2>. QED  BY <1>3, <2>1, <2>2
<1>7. Earlier(s)
  BY <1>1, <1>2, <1>3, <1>6 DEF Earlier
<1>8. InOrder(s)
  <2>1. SUFFICES ASSUME NEW j \in DOMAIN s.out, NEW k \in DOMAIN s.out, j < k,
                        IsAnswer(s.out[j]), IsAnswer(s.out[k])
                 PROVE  IF Beside(s, s.out[j].id) \/ Beside(s, s.out[k].id)
                        THEN s.out[j].id # s.out[k].id
                        ELSE s.out[j].id < s.out[k].id
    BY DEF InOrder
  <2>2. k \in DOMAIN r.out => j \in DOMAIN r.out
    BY <1>2, <2>1 DEF Grown
  <2>3. CASE k \in DOMAIN r.out /\ s.out[k] = r.out[k]
    <3>1. j \in DOMAIN r.out /\ s.out[j] = r.out[j]
      BY <1>2, <2>2, <2>3, Remembered
    <3>. QED  BY <1>2, <2>1, <2>3, <3>1 DEF Facts, InOrder, Beside
  <2>4. CASE k = Len(r.out) + 1 /\ s.out[k] = a
    <3>1. j # Len(r.out) + 1
      BY <2>1, <2>4 DEF Grown
    <3>2. s.out[j].id < i /\ s.out[j].id \in 1..r.read
      BY <1>6, <2>1, <3>1
    <3>. QED  BY <1>1, <1>3, <2>4, <3>2
  <2>. QED  BY <1>6, <2>1, <2>3, <2>4
<1>9. ASSUME NEW t \in Threads, Sole(c, t)
      PROVE  Shelved(s, t, rows[t]) /\ Reading(s, t, rows[t]) /\ Listed(s, t)
  <2>1. /\ Shelved(r, t, rows[t]) /\ Reading(r, t, rows[t]) /\ Listed(r, t)
    BY <1>9 DEF Facts, Filed
  <2>2. \A n \in Int : n < i => Changes(s, t, n) = Changes(r, t, n)
    BY <1>1, <1>2, <1>3, ChangesStay
  <2>3. Files(r.sent[i], t) => m \in Changing /\ m \notin Listing
    BY DEF Files, Changing, Listing
  <2>4. code # 0 => ~Filing(r, t)
    BY <1>3, <2>3 DEF Filing
  <2>5. ~(Files(r.sent[i], t) /\ code = 0) => Changes(s, t, i) = Changes(r, t, i)
    BY <1>1, <1>2, ChangesStay
  <2>6. Shelved(s, t, rows[t])
    <3>1. ~Filing(s, t)
      BY <1>2 DEF Filing
    <3>2. CASE Files(r.sent[i], t) /\ code = 0
      <4>1. Filing(r, t)
        BY <2>3, <3>2 DEF Filing
      <4>2. rows[t] # NoThread /\ rows[t].archived = (m = "thread/archive")
        BY <2>1, <4>1 DEF Shelved
      <4>3. Acknowledged(s, i)
        BY <1>1, <1>2, <3>2, AckGrows
      <4>4. i \in Changes(s, t, s.read)
        BY <1>2, <1>3, <3>2, <4>3 DEF Changes
      <4>5. IsLast(s, t, s.read, i)
        BY <1>2, <1>3, <4>4 DEF IsLast, Changes
      <4>. QED  BY <1>2, <1>3, <3>1, <4>2, <4>5 DEF Shelved
    <3>3. CASE ~(Files(r.sent[i], t) /\ code = 0)
      <4>1. Changes(s, t, s.read) = Changes(r, t, r.read)
        BY <1>2, <1>3, <2>5, <3>3
      <4>2. ~Filing(r, t)
        BY <2>4, <3>3 DEF Filing
      <4>. QED  BY <1>2, <2>1, <3>1, <4>1, <4>2 DEF Shelved, IsLast
    <3>. QED  BY <3>2, <3>3
  <2>7. Reading(s, t, rows[t])
    BY <1>2 DEF Reading
  <2>8. Listed(s, t)
    <3>1. SUFFICES ASSUME NEW k \in DOMAIN s.out, IsAnswer(s.out[k]), s.out[k].code = 0,
                          s.sent[s.out[k].id].method \in Listing,
                          Changes(s, t, s.out[k].id - 1) # {}
                   PROVE  \E j \in 1..(s.out[k].id - 1) :
                            /\ IsLast(s, t, s.out[k].id - 1, j)
                            /\ (t \in s.out[k].listed) =
                                 ((s.sent[j].method = "thread/archive")
                                  = (s.sent[s.out[k].id].method = "thread/list_archived"))
      BY DEF Listed
    <3>2. CASE k \in DOMAIN r.out /\ s.out[k] = r.out[k] /\ s.out[k].id \in 1..r.read /\ s.out[k].id < i
      <4>1. Changes(s, t, s.out[k].id - 1) = Changes(r, t, r.out[k].id - 1)
        BY <1>3, <2>2, <3>2
      <4>2. PICK j \in 1..(r.out[k].id - 1) :
                /\ IsLast(r, t, r.out[k].id - 1, j)
                /\ (t \in r.out[k].listed) =
                     ((r.sent[j].method = "thread/archive")
                      = (r.sent[r.out[k].id].method = "thread/list_archived"))
        BY <1>2, <2>1, <3>1, <3>2, <4>1 DEF Listed
      <4>3. IsLast(s, t, s.out[k].id - 1, j)
        BY <3>2, <4>1, <4>2 DEF IsLast
      <4>. QED  BY <1>2, <3>2, <4>2, <4>3
    <3>3. CASE k = Len(r.out) + 1 /\ s.out[k] = a
      <4>1. code = 0 /\ s.out[k].id = i /\ s.out[k].listed = listed /\ m \in Listing
        BY <1>1, <1>2, <3>1, <3>3
      <4>2. r.step = 2 /\ listed = r.rows
        BY <4>1
      <4>3. ~Files(r.sent[i], t)
        BY <4>1 DEF Files, Listing
      <4>4. Changes(s, t, i - 1) = Changes(r, t, r.read)
        <5>1. Changes(s, t, i - 1) = Changes(r, t, i - 1)
          BY <1>3, <2>2
        <5>2. Changes(r, t, i - 1) = Changes(r, t, i)
          BY <1>3, <4>3 DEF Changes
        <5>. QED  BY <1>3, <5>1, <5>2
      <4>5. Changes(r, t, r.read) # {} /\ ~Filing(r, t)
        BY <3>1, <4>1, <4>3, <4>4 DEF Filing
      <4>6. PICK j \in 1..r.read :
                /\ IsLast(r, t, r.read, j)
                /\ rows[t].archived = (r.sent[j].method = "thread/archive")
        BY <2>1, <4>5 DEF Shelved
      <4>7. (t \in listed) = (rows[t].archived = (m = "thread/list_archived"))
        BY <2>1, <4>1, <4>2, <4>5 DEF Reading
      <4>8. j \in 1..(i - 1)
        BY <1>3, <4>3, <4>6 DEF IsLast, Changes
      <4>9. IsLast(s, t, i - 1, j)
        BY <4>4, <4>6 DEF IsLast
      <4>. QED  BY <1>2, <4>1, <4>6, <4>7, <4>8, <4>9
    <3>. QED  BY <1>6, <3>1, <3>2, <3>3
  <2>. QED  BY <2>6, <2>7, <2>8
<1>. QED  BY <1>4, <1>5, <1>7, <1>8, <1>9 DEF Facts, Filed


\* A task beside the handler says something.
LEMMA SaidKeeps ==
    ASSUME NEW c \in Conns, NEW r, NEW s, NEW rows, NEW f,
           Facts(c, r, rows), r.at = "open", Said1(r, s, f),
           IsAnswer(f) =>
               /\ f.id \in 1..r.read /\ Beside(r, f.id)
               /\ r.busy # Idle => f.id # r.busy
               /\ \A k \in DOMAIN r.out : IsAnswer(r.out[k]) => r.out[k].id # f.id
    PROVE  Facts(c, s, rows)
<1>2. /\ Stays(r, s) /\ s.busy = r.busy /\ s.step = r.step /\ s.made = r.made
      /\ s.rows = r.rows /\ Grown(r.out, s.out, f) /\ s.sent = r.sent /\ s.read = r.read
  BY DEF Said1, Stays
<1>3. ConnOK(c, s)
  <2>1. s.out \in Seq(ToSet(s.out)) /\ Len(s.out) \in Nat /\ Len(s.out) > Len(r.out) /\ Len(r.out) \in Nat
    BY <1>2 DEF Grown
  <2>2. ConnOK(c, r)
    BY DEF Facts
  <2>. QED  BY <1>2, <2>1, <2>2 DEF ConnOK, Stays
<1>4. InHand(s, rows)
  BY <1>2 DEF Facts, InHand, Handled
<1>5. \A k \in DOMAIN s.out : IsAnswer(s.out[k]) =>
          \/ k \in DOMAIN r.out /\ s.out[k] = r.out[k]
          \/ k = Len(r.out) + 1 /\ s.out[k] = f
  BY <1>2, AnswersOf
<1>6. Earlier(s)
  BY <1>2, <1>5 DEF Facts, Earlier
<1>7. InOrder(s)
  <2>1. SUFFICES ASSUME NEW j \in DOMAIN s.out, NEW k \in DOMAIN s.out, j < k,
                        IsAnswer(s.out[j]), IsAnswer(s.out[k])
                 PROVE  IF Beside(s, s.out[j].id) \/ Beside(s, s.out[k].id)
                        THEN s.out[j].id # s.out[k].id
                        ELSE s.out[j].id < s.out[k].id
    BY DEF InOrder
  <2>2. k \in DOMAIN r.out => j \in DOMAIN r.out
    BY <1>2, <2>1 DEF Grown
  <2>3. CASE k \in DOMAIN r.out /\ s.out[k] = r.out[k]
    <3>1. j \in DOMAIN r.out /\ s.out[j] = r.out[j]
      BY <1>2, <2>2, <2>3, Remembered
    <3>. QED  BY <1>2, <2>1, <2>3, <3>1 DEF Facts, InOrder, Beside
  <2>4. CASE k = Len(r.out) + 1 /\ s.out[k] = f
    <3>1. j \in DOMAIN r.out /\ s.out[j] = r.out[j]
      BY <1>2, <1>5, <2>1, <2>4 DEF Grown
    <3>2. Beside(s, f.id)
      BY <1>2, <2>1, <2>4 DEF Beside
    <3>. QED  BY <2>1, <2>4, <3>1, <3>2
  <2>. QED  BY <1>5, <2>1, <2>3, <2>4
<1>8. IsAnswer(f) => r.sent[f.id].method \notin Listing /\ \A t : ~Files(r.sent[f.id], t)
  BY DEF Beside, Files, Listing
<1>9. \A t, n : Changes(s, t, n) = Changes(r, t, n)
  BY <1>2, <1>8, ChangesStay
<1>10. ASSUME NEW t \in Threads, Sole(c, t)
       PROVE  Shelved(s, t, rows[t]) /\ Reading(s, t, rows[t]) /\ Listed(s, t)
  <2>1. /\ Shelved(r, t, rows[t]) /\ Reading(r, t, rows[t]) /\ Listed(r, t)
    BY <1>10 DEF Facts, Filed
  <2>2. Shelved(s, t, rows[t])
    BY <1>2, <1>9, <2>1 DEF Shelved, Filing, IsLast
  <2>3. Reading(s, t, rows[t])
    BY <1>2, <1>9, <2>1 DEF Reading
  <2>4. Listed(s, t)
    <3>1. SUFFICES ASSUME NEW k \in DOMAIN s.out, IsAnswer(s.out[k]), s.out[k].code = 0,
                          s.sent[s.out[k].id].method \in Listing,
                          Changes(s, t, s.out[k].id - 1) # {}
                   PROVE  \E j \in 1..(s.out[k].id - 1) :
                            /\ IsLast(s, t, s.out[k].id - 1, j)
                            /\ (t \in s.out[k].listed) =
                                 ((s.sent[j].method = "thread/archive")
                                  = (s.sent[s.out[k].id].method = "thread/list_archived"))
      BY DEF Listed
    <3>2. k \in DOMAIN r.out /\ s.out[k] = r.out[k]
      BY <1>2, <1>5, <1>8, <3>1
    <3>3. PICK j \in 1..(r.out[k].id - 1) :
              /\ IsLast(r, t, r.out[k].id - 1, j)
              /\ (t \in r.out[k].listed) =
                   ((r.sent[j].method = "thread/archive")
                    = (r.sent[r.out[k].id].method = "thread/list_archived"))
      BY <1>2, <1>9, <2>1, <3>1, <3>2 DEF Listed
    <3>4. IsLast(s, t, s.out[k].id - 1, j)
      BY <1>9, <3>2, <3>3 DEF IsLast
    <3>. QED  BY <1>2, <3>2, <3>3, <3>4
  <2>. QED  BY <2>2, <2>3, <2>4
<1>. QED  BY <1>3, <1>4, <1>6, <1>7, <1>10 DEF Facts, Filed

\* No new answer: what it says of the old ones stays.
LEMMA SameOut ==
    ASSUME NEW c \in Conns, NEW r, NEW s, NEW rows, Facts(c, r, rows),
           s.out = r.out, s.read \in {r.read, r.read + 1},
           \A i \in 1..r.read : s.sent[i] = r.sent[i],
           s.busy \in {Idle, r.busy} \/ s.busy = r.read + 1
    PROVE  /\ Earlier(s) /\ InOrder(s)
           /\ \A t \in Threads : /\ Changes(s, t, s.read) = Changes(r, t, r.read)
                                 /\ Changes(r, t, r.read) \subseteq 1..r.read
                                 /\ Sole(c, t) => Listed(s, t)
<1>1. r.read \in Nat /\ s.read \in Nat
  BY DEF Facts, ConnOK
<1>2. \A k \in DOMAIN s.out : IsAnswer(s.out[k]) =>
          s.out[k].id \in 1..r.read /\ (r.busy # Idle => s.out[k].id # r.busy)
  BY DEF Facts, Earlier
<1>3. Earlier(s)
  BY <1>1, <1>2 DEF Earlier, Idle
<1>4. InOrder(s)
  <2>1. \A k \in DOMAIN s.out : IsAnswer(s.out[k]) =>
            Beside(s, s.out[k].id) = Beside(r, s.out[k].id)
    BY <1>2 DEF Beside
  <2>. QED  BY <2>1 DEF Facts, InOrder
<1>5. ASSUME NEW t \in Threads
      PROVE  /\ Changes(s, t, s.read) = Changes(r, t, r.read)
             /\ \A n \in 0..r.read : Changes(s, t, n) = Changes(r, t, n)
  <2>1. \A n \in 0..r.read : Changes(s, t, n) = Changes(r, t, n)
    BY <1>1, ChangesKeep
  <2>2. \A i : Acknowledged(s, i) => i \in 1..r.read
    BY <1>2 DEF Acknowledged
  <2>3. Changes(s, t, s.read) = Changes(s, t, r.read)
    BY <1>1, <2>2 DEF Changes
  <2>. QED  BY <1>1, <2>1, <2>3
<1>6. ASSUME NEW t \in Threads, Sole(c, t) PROVE Listed(s, t)
  <2>0. Listed(r, t)
    BY <1>6 DEF Facts, Filed
  <2>1. SUFFICES ASSUME NEW k \in DOMAIN s.out, IsAnswer(s.out[k]), s.out[k].code = 0,
                        s.sent[s.out[k].id].method \in Listing,
                        Changes(s, t, s.out[k].id - 1) # {}
                 PROVE  \E j \in 1..(s.out[k].id - 1) :
                          /\ IsLast(s, t, s.out[k].id - 1, j)
                          /\ (t \in s.out[k].listed) =
                               ((s.sent[j].method = "thread/archive")
                                = (s.sent[s.out[k].id].method = "thread/list_archived"))
    BY DEF Listed
  <2>2. s.out[k].id \in 1..r.read /\ s.out[k].id - 1 \in 0..r.read
    BY <1>1, <1>2, <2>1
  <2>3. Changes(s, t, s.out[k].id - 1) = Changes(r, t, s.out[k].id - 1)
    BY <1>5, <2>2
  <2>4. r.sent[s.out[k].id] = s.sent[s.out[k].id]
    BY <2>2
  <2>5. PICK j \in 1..(r.out[k].id - 1) :
            /\ IsLast(r, t, r.out[k].id - 1, j)
            /\ (t \in r.out[k].listed) =
                 ((r.sent[j].method = "thread/archive")
                  = (r.sent[r.out[k].id].method = "thread/list_archived"))
    BY <2>0, <2>1, <2>3, <2>4 DEF Listed
  <2>6. r.sent[j] = s.sent[j]
    BY <1>1, <2>2, <2>5
  <2>7. IsLast(s, t, s.out[k].id - 1, j)
    BY <2>3, <2>5 DEF IsLast
  <2>. QED  BY <2>4, <2>5, <2>6, <2>7
<1>7. \A t : Changes(r, t, r.read) \subseteq 1..r.read
  BY DEF Changes
<1>. QED  BY <1>3, <1>4, <1>5, <1>6, <1>7


\* The handler goes on, and may have written a row.
LEMMA WentOnKeeps ==
    ASSUME NEW c \in Conns, NEW r, NEW s, NEW rows, NEW rows2, Facts(c, r, rows),
           r.busy # Idle, WentOn(r, s), s.made \in Threads \cup {"none"},
           s.step <= Len(Steps(r.sent[r.busy].method)), InHand(s, rows2),
           \A t \in Threads : rows[t] # NoThread =>
               /\ rows2[t] # NoThread
               /\ rows2[t].archived = rows[t].archived \/ Filing(s, t),
           \A t \in Threads : Filing(s, t) =>
               /\ rows2[t] # NoThread
               /\ rows2[t].archived = (r.sent[r.busy].method = "thread/archive"),
           r.sent[r.busy].method \in Listing /\ s.step = 2 =>
               \A t \in Threads : rows2[t] # NoThread =>
                   (t \in s.rows) = (rows2[t].archived
                                     = (r.sent[r.busy].method = "thread/list_archived"))
    PROVE  Facts(c, s, rows2)
<1>1. /\ s.busy = r.busy /\ s.step = r.step + 1 /\ s.out = r.out
      /\ s.sent = r.sent /\ s.read = r.read /\ Stays(r, s)
  BY DEF WentOn, Stays
<1>2. /\ r.busy = r.read /\ r.read \in Nat /\ r.step \in Nat /\ r.at = "open"
      /\ r.step \in 1..Len(Steps(r.sent[r.busy].method))
  BY DEF Facts, ConnOK, Idle
<1>3. ConnOK(c, s)
  <2>1. ConnOK(c, r)
    BY DEF Facts
  <2>2. s.step \in 1..Len(Steps(s.sent[s.busy].method))
    BY <1>1, <1>2
  <2>. QED  BY <1>1, <1>2, <2>1, <2>2 DEF ConnOK, Stays
<1>4. /\ Earlier(s) /\ InOrder(s)
      /\ \A t \in Threads : /\ Changes(s, t, s.read) = Changes(r, t, r.read)
                            /\ Sole(c, t) => Listed(s, t)
  <2>1. /\ s.out = r.out /\ s.read \in {r.read, r.read + 1}
        /\ s.busy \in {Idle, r.busy} \/ s.busy = r.read + 1
        /\ \A i \in 1..r.read : s.sent[i] = r.sent[i]
    BY <1>1
  <2>. QED  BY <2>1, SameOut
<1>5. ASSUME NEW t \in Threads, Sole(c, t)
      PROVE  Shelved(s, t, rows2[t]) /\ Reading(s, t, rows2[t])
  <2>1. Shelved(r, t, rows[t]) /\ Reading(r, t, rows[t])
    BY <1>5 DEF Facts, Filed
  <2>2. ~Filing(r, t)
    <3>1. SUFFICES ASSUME Filing(r, t) PROVE FALSE
      OBVIOUS
    <3>2. r.sent[r.busy].method \in Changing /\ r.step = 3
      BY <3>1 DEF Filing, Files, Changing
    <3>3. Len(Steps(r.sent[r.busy].method)) = 3
      BY <3>2, StepsOf
    <3>. QED  BY <1>1, <1>2, <3>2, <3>3
  <2>3. ASSUME Changes(r, t, r.read) # {}
        PROVE  /\ rows2[t] # NoThread
               /\ ~Filing(s, t) => \E i \in 1..r.read :
                      /\ IsLast(r, t, r.read, i)
                      /\ rows2[t].archived = (r.sent[i].method = "thread/archive")
    BY <2>1, <2>2, <2>3 DEF Shelved
  <2>4. Shelved(s, t, rows2[t])
    BY <1>1, <1>4, <2>3 DEF Shelved, IsLast
  <2>5. Reading(s, t, rows2[t])
    BY <1>1, <1>4, <2>3 DEF Reading
  <2>. QED  BY <2>4, <2>5
<1>. QED  BY <1>3, <1>4, <1>5 DEF Facts, Filed

\* The connection's task, or its Client, does what no row and no answer shows.
Aside(r, s) ==
    /\ s.out = r.out /\ s.made = r.made /\ s.rows = r.rows
    /\ s.read \in {r.read, r.read + 1}
    /\ \A i \in 1..r.read : s.sent[i] = r.sent[i]
    /\ \/ s.busy = r.busy /\ s.step = r.step /\ s.read = r.read
       \/ s.busy = Idle
       \/ s.busy = r.read + 1 /\ s.step = 1

LEMMA AsideKeeps ==
    ASSUME NEW c \in Conns, NEW r, NEW s, NEW rows, Facts(c, r, rows),
           Aside(r, s), ConnOK(c, s), r.step = 1 \/ s.busy = r.busy
    PROVE  Facts(c, s, rows)
<1>1. r.read \in Nat /\ r.busy \in {Idle, r.read}
  BY DEF Facts, ConnOK
<1>2. s.busy \in {Idle, r.busy} \/ s.busy = r.read + 1
  BY DEF Aside
<1>3. /\ Earlier(s) /\ InOrder(s)
      /\ \A t \in Threads : /\ Changes(s, t, s.read) = Changes(r, t, r.read)
                            /\ Changes(r, t, r.read) \subseteq 1..r.read
                            /\ Sole(c, t) => Listed(s, t)
  BY <1>2, SameOut DEF Aside
<1>4. s.busy # Idle /\ s.step # 1 =>
          s.busy = r.busy /\ s.step = r.step /\ s.sent[s.busy] = r.sent[r.busy]
  BY <1>1 DEF Aside, Idle
<1>5. InHand(s, rows)
  <2>1. Handled(s, rows)
    <3>1. CASE s.step = 1
      BY <3>1 DEF Handled
    <3>2. CASE s.step # 1
      BY <1>4, <3>2 DEF Facts, InHand, Handled, Aside
    <3>. QED  BY <3>1, <3>2
  <2>. QED  BY <2>1 DEF Facts, InHand, Aside
<1>6. ASSUME NEW t \in Threads, Sole(c, t)
      PROVE  Shelved(s, t, rows[t]) /\ Reading(s, t, rows[t])
  <2>1. Shelved(r, t, rows[t]) /\ Reading(r, t, rows[t])
    BY <1>6 DEF Facts, Filed
  <2>2. Filing(s, t) <=> Filing(r, t)
    <3>1. Filing(s, t) => Filing(r, t)
      BY <1>4 DEF Filing
    <3>2. Filing(r, t) => s.busy = r.busy /\ s.busy # Idle
      BY DEF Filing
    <3>3. Filing(r, t) => s.step = r.step \/ s.busy = r.read + 1
      BY <3>2 DEF Aside
    <3>. QED  BY <1>1, <3>1, <3>2, <3>3 DEF Filing, Aside, Idle
  <2>3. Shelved(s, t, rows[t])
    <3>1. CASE Filing(s, t)
      <4>1. s.sent[s.busy] = r.sent[r.busy]
        BY <1>4, <3>1 DEF Filing
      <4>. QED  BY <2>1, <2>2, <3>1, <4>1 DEF Shelved
    <3>2. CASE ~Filing(s, t) /\ Changes(s, t, s.read) # {}
      <4>1. rows[t] # NoThread
        BY <1>3, <2>1, <2>2, <3>2 DEF Shelved
      <4>2. PICK i \in 1..r.read : /\ IsLast(r, t, r.read, i)
                                   /\ rows[t].archived = (r.sent[i].method = "thread/archive")
        BY <1>3, <2>1, <2>2, <3>2 DEF Shelved
      <4>3. i \in 1..s.read /\ s.sent[i] = r.sent[i] /\ IsLast(s, t, s.read, i)
        BY <1>1, <1>3, <4>2 DEF Aside, IsLast
      <4>. QED  BY <3>2, <4>1, <4>2, <4>3 DEF Shelved
    <3>. QED  BY <3>1, <3>2 DEF Shelved
  <2>4. Reading(s, t, rows[t])
    BY <1>3, <1>4, <2>1 DEF Reading, Aside
  <2>. QED  BY <2>3, <2>4
<1>. QED  BY <1>3, <1>5, <1>6 DEF Facts, Filed

\* Another connection, or a title, writes rows.
Keeps(c, rows, rows2) ==
    \A t \in Threads : rows[t] # NoThread =>
        /\ rows2[t] # NoThread
        /\ Sole(c, t) => rows2[t].archived = rows[t].archived

LEMMA RowsMove ==
    ASSUME NEW c \in Conns, NEW s, NEW rows, NEW rows2, Facts(c, s, rows),
           Keeps(c, rows, rows2)
    PROVE  Facts(c, s, rows2)
<1>1. InHand(s, rows2)
  BY DEF Facts, InHand, Handled, Keeps
<1>2. ASSUME NEW t \in Threads, Sole(c, t)
      PROVE  Shelved(s, t, rows2[t]) /\ Reading(s, t, rows2[t]) /\ Listed(s, t)
  <2>1. Shelved(s, t, rows[t]) /\ Reading(s, t, rows[t]) /\ Listed(s, t)
    BY <1>2 DEF Facts, Filed
  <2>2. Shelved(s, t, rows2[t])
    BY <1>2, <2>1 DEF Shelved, Keeps
  <2>3. s.busy # Idle /\ s.sent[s.busy].method \in Listing => ~Filing(s, t)
    BY DEF Filing, Files, Listing
  <2>4. Reading(s, t, rows2[t])
    BY <1>2, <2>1, <2>3 DEF Reading, Shelved, Keeps
  <2>. QED  BY <2>1, <2>2, <2>4
<1>. QED  BY <1>1, <1>2 DEF Facts, Filed

\* A connection with nothing in hand and nothing in its channel.
LEMMA FreshFacts ==
    ASSUME NEW c \in Conns, NEW rows, NEW at \in Conducts
    PROVE  Facts(c, Fresh(at), rows)
<1>. DEFINE s == Fresh(at)
<1>1. /\ s.at = at /\ s.sent = <<>> /\ s.read = 0 /\ s.busy = Idle /\ s.step = 1
      /\ s.rows = {} /\ s.made = "none" /\ s.out = <<>> /\ s.delivered = 0 /\ Shape(s)
  BY DEF Fresh, Shape
<1>2. <<>> \in Seq(UNION ToSet(Scripts[c])) /\ Len(<<>>) = 0 /\ DOMAIN s.out = {}
      /\ <<>> \in Seq(ToSet(<<>>))
  BY <1>1
<1>. HIDE DEF s
<1>3. ConnOK(c, s)
  BY <1>1, <1>2 DEF ConnOK, Idle
<1>4. InHand(s, rows) /\ Earlier(s) /\ InOrder(s)
  BY <1>1, <1>2, ScriptAssumption DEF InHand, Handled, Earlier, InOrder
<1>5. \A t \in Threads : Shelved(s, t, rows[t]) /\ Reading(s, t, rows[t]) /\ Listed(s, t)
  BY <1>1, <1>2 DEF Shelved, Reading, Listed, Filing, Changes
<1>. QED  BY <1>3, <1>4, <1>5 DEF Facts, Filed, s


(***************************************************************************)
(* The Decisions beside the connections.                                   *)
(***************************************************************************)
\* What no Decision is disturbed by.
Calm(r, s) ==
    /\ s.at = "new" => r.at = "new"
    /\ s.at = "open" /\ r.at # "new" =>
           /\ r.at = "open" /\ r.read \in Nat /\ s.read \in Nat /\ r.read <= s.read
           /\ \A i \in 1..r.read : s.sent[i] = r.sent[i]
           /\ s.busy \in {Idle, r.busy} \/ s.busy > r.read
           /\ \A k \in DOMAIN s.out : IsAnswer(s.out[k]) =>
                  \/ k \in DOMAIN r.out /\ s.out[k] = r.out[k]
                  \/ r.busy # Idle /\ s.out[k].id = r.busy

LEMMA CalmKeeps ==
    ASSUME NEW r, NEW s, NEW d, Unanswered(r, d), Calm(r, s)
    PROVE  Unanswered(s, d)
BY DEF Unanswered, Calm, Beside

LEMMA DecisionsStay ==
    ASSUME Typed, Decisions, NEW c \in Conns, OnlyConn(c), Calm(conn[c], conn'[c]),
           decide' = decide
    PROVE  Decisions'
<1>1. ASSUME NEW d \in decide' PROVE Unanswered(conn'[d.conn], d)
  <2>1. d \in decide /\ d.conn \in Conns /\ Unanswered(conn[d.conn], d)
    BY <1>1 DEF Typed, Decisions
  <2>2. CASE d.conn = c
    BY <2>1, <2>2, CalmKeeps
  <2>3. CASE d.conn # c
    BY <2>1, <2>3 DEF OnlyConn
  <2>. QED  BY <2>2, <2>3
<1>. QED  BY <1>1 DEF Decisions

LEMMA AllCalm ==
    ASSUME NEW c \in Conns, NEW r, NEW s, ConnOK(c, r), ConnOK(c, s)
    PROVE  /\ r.busy # Idle /\ (\E code, listed : Ended(r, s, Answer(r.busy, code, listed)))
                  => Calm(r, s)
           /\ WentOn(r, s) => Calm(r, s)
           /\ (\E f : Said1(r, s, f) /\ ~IsAnswer(f)) => Calm(r, s)
           /\ Left(r, s) => Calm(r, s)
           /\ Aside(r, s) /\ s.at = r.at => Calm(r, s)
<1>0. r.read \in Nat /\ s.read \in Nat
  BY DEF ConnOK
<1>1. ASSUME r.busy # Idle, NEW code, NEW listed, Ended(r, s, Answer(r.busy, code, listed))
      PROVE  Calm(r, s)
  <2>. DEFINE a == Answer(r.busy, code, listed)
  <2>1. a.id = r.busy
    BY DEF Answer
  <2>. HIDE DEF a
  <2>2. Stays(r, s) /\ s.busy = Idle /\ Grown(r.out, s.out, a)
    BY <1>1 DEF Ended, a
  <2>3. \A k \in DOMAIN s.out : IsAnswer(s.out[k]) =>
            \/ k \in DOMAIN r.out /\ s.out[k] = r.out[k]
            \/ k = Len(r.out) + 1 /\ s.out[k] = a
    BY <2>2, AnswersOf
  <2>. QED  BY <1>0, <1>1, <2>1, <2>2, <2>3 DEF Calm, Stays
<1>2. WentOn(r, s) => Calm(r, s)
  BY <1>0 DEF WentOn, Stays, Calm
<1>3. ASSUME NEW f, Said1(r, s, f), ~IsAnswer(f) PROVE Calm(r, s)
  <2>1. Stays(r, s) /\ s.busy = r.busy /\ Grown(r.out, s.out, f)
    BY <1>3 DEF Said1
  <2>2. \A k \in DOMAIN s.out : IsAnswer(s.out[k]) =>
            k \in DOMAIN r.out /\ s.out[k] = r.out[k]
    BY <1>3, <2>1, AnswersOf
  <2>. QED  BY <1>0, <2>1, <2>2 DEF Calm, Stays
<1>4. Left(r, s) => Calm(r, s)
  BY <1>0 DEF Left, Stays, Calm
<1>5. Aside(r, s) /\ s.at = r.at => Calm(r, s)
  BY <1>0 DEF Aside, Calm
<1>. QED  BY <1>1, <1>2, <1>3, <1>4, <1>5

(***************************************************************************)
(* A step of one connection, with what it writes of the Threads' rows.     *)
(***************************************************************************)
LEMMA FactsOfAll ==
    ASSUME NEW c \in Conns, OnlyConn(c), \A d \in Conns : Facts(d, conn[d], thread),
           Facts(c, conn'[c], thread'),
           \A d \in Conns \ {c} : Keeps(d, thread, thread')
    PROVE  \A d \in Conns : Facts(d, conn'[d], thread')
<1>1. ASSUME NEW d \in Conns \ {c} PROVE Facts(d, conn'[d], thread')
  BY RowsMove DEF OnlyConn
<1>. QED  BY <1>1

\* What is typed of a connection's step that leaves the tasks alone.
LEMMA TypedStays ==
    ASSUME Typed, NEW c \in Conns, OnlyConn(c), conn'[c].at = "open" => core.at = "serving",
           UNCHANGED <<core, thread, titler, decide, hadTitles>>
    PROVE  Typed'
<1>1. conn' = [d \in Conns |-> conn'[d]] /\ \A d \in Conns : conn'[d].at = "open" => core.at = "serving"
  BY DEF Typed, OnlyConn
<1>. QED  BY <1>1 DEF Typed, ThreadExists

\* Of a handler at one of its steps.
LEMMA InHandler ==
    ASSUME IInv, NEW c \in Conns, Busy(c)
    PROVE  /\ conn = [d \in Conns |-> conn[d]]
           /\ Facts(c, conn[c], thread) /\ ConnOK(c, conn[c])
           /\ conn[c].busy # Idle /\ conn[c].busy = conn[c].read /\ conn[c].at = "open"
           /\ conn[c].step \in 1..Len(Steps(Request(c).method)) /\ conn[c].step \in Nat
           /\ Request(c) = conn[c].sent[conn[c].busy]
           /\ Request(c) \in UNION ToSet(Scripts[c])
<1>1. Facts(c, conn[c], thread) /\ ConnOK(c, conn[c])
  BY DEF IInv, Facts
<1>2. conn[c].busy # Idle /\ conn[c].busy = conn[c].read /\ conn[c].at = "open"
  BY <1>1 DEF Busy, ConnOK
<1>3. conn[c].busy \in 1..Len(conn[c].sent)
  BY <1>1, <1>2 DEF ConnOK, Idle
<1>4. conn[c].sent[conn[c].busy] \in UNION ToSet(Scripts[c])
  BY <1>1, <1>3, ElementOfSeq DEF ConnOK
<1>. QED  BY <1>1, <1>2, <1>4 DEF ConnOK, Request, IInv, Typed

Failed == {"invalid_params", "unknown_thread", "not_pending", "internal",
           "provider_not_connected", "stale_connection", "method_not_found"}
LEMMA FailKeeps ==
    ASSUME IInv, NEW c \in Conns, Busy(c), NEW failure \in Failed, Fail(c, failure),
           conn[c].step # 3 \/ Request(c).method \notin Changing,
           UNCHANGED <<core, thread, titler, decide, hadTitles>>
    PROVE  IInv'
<1>. DEFINE r == conn[c]
            s == conn'[c]
            code == Code(failure)
<1>1. OnlyConn(c) /\ Ended(r, s, Answer(r.busy, code, {}))
  BY InHandler, FailForm
<1>2. code # 0
  BY FailuresHaveCodes, OkIsZero DEF Failed
<1>3. /\ Facts(c, r, thread) /\ ConnOK(c, r) /\ r.busy # Idle /\ r.at = "open"
      /\ Request(c) = r.sent[r.busy] /\ core.at = "serving"
  BY InHandler DEF IInv, Typed
<1>. HIDE DEF r, s, code
<1>4. Facts(c, s, thread)
  BY <1>1, <1>2, <1>3, EndedKeeps DEF r
<1>5. Calm(r, s)
  BY <1>1, <1>3, <1>4, AllCalm DEF Facts
<1>6. Decisions'
  BY <1>1, <1>5, DecisionsStay DEF IInv, r, s
<1>7. Typed'
  BY <1>1, <1>3, TypedStays DEF IInv
<1>8. \A d \in Conns : Facts(d, conn'[d], thread')
  BY <1>1, <1>4, FactsOfAll DEF IInv, Keeps, s
<1>. QED  BY <1>6, <1>7, <1>8 DEF IInv


\* The handler goes on.
Written(c, s) ==
    /\ \A t \in Threads : thread[t] # NoThread =>
           /\ thread'[t] # NoThread
           /\ thread'[t].archived = thread[t].archived
                  \/ (Filing(s, t) /\ Files(Request(c), t))
    /\ \A t \in Threads : Filing(s, t) =>
           /\ thread'[t] # NoThread
           /\ thread'[t].archived = (Request(c).method = "thread/archive")
LEMMA GoesOn ==
    ASSUME IInv, NEW c \in Conns, Busy(c), NEW rows, NEW made \in Threads \cup {"none"},
           conn[c].step < Len(Steps(Request(c).method)),
           \/ conn' = Forward(conn, c) /\ rows = conn[c].rows /\ made = conn[c].made
           \/ conn' = [Forward(conn, c) EXCEPT ![c].rows = rows] /\ made = conn[c].made
           \/ conn' = [Forward(conn, c) EXCEPT ![c].made = made] /\ rows = conn[c].rows,
           Written(c, conn'[c]),
           made \in Threads => thread'[made] # NoThread,
           Request(c).method \in Changing /\ conn[c].step + 1 > 1 =>
               Request(c).thread \in Threads /\ thread'[Request(c).thread] # NoThread,
           Request(c).method = "thread/create" /\ conn[c].step + 1 > 2 => made \in Threads,
           Request(c).method \in Listing =>
               \A t \in Threads : thread'[t] # NoThread =>
                   (t \in rows) = (thread'[t].archived
                                   = (Request(c).method = "thread/list_archived")),
           core' = core, decide' = decide
    PROVE  /\ OnlyConn(c) /\ conn'[c].at = "open" /\ conn'[c].step = conn[c].step + 1
           /\ Typed' => IInv'
<1>. DEFINE r == conn[c]
            s == conn'[c]
<1>0. /\ Facts(c, r, thread) /\ ConnOK(c, r) /\ r.busy # Idle /\ r.at = "open"
      /\ Request(c) = r.sent[r.busy] /\ Request(c) \in UNION ToSet(Scripts[c])
      /\ r.step \in Nat
  BY InHandler
<1>1. OnlyConn(c) /\ WentOn(r, s) /\ s.rows = rows /\ s.made = made
  <2>1. conn = [d \in Conns |-> conn[d]] /\ ConnOK(c, conn[c])
    BY InHandler
  <2>. QED  BY <2>1, ForwardForm
<1>2. s.at = r.at /\ s.step = r.step + 1 /\ s.busy = r.busy /\ s.sent = r.sent
  BY <1>1 DEF WentOn, Stays
<1>. HIDE DEF r, s
<1>3. InHand(s, thread')
  BY <1>0, <1>1, <1>2 DEF InHand, Handled, r
<1>4. ConnOK(c, s) /\ Facts(c, s, thread')
  <2>1. s.step <= Len(Steps(r.sent[r.busy].method))
    <3>1. Len(Steps(Request(c).method)) \in Nat
      BY InHandler, StepTells
    <3>. QED  BY <1>0, <1>2, <3>1 DEF r
  <2>2. Written(c, s)
    BY DEF s
  <2>3. \A t \in Threads : thread[t] # NoThread =>
               /\ thread'[t] # NoThread
               /\ thread'[t].archived = thread[t].archived \/ Filing(s, t)
    BY <2>2 DEF Written
  <2>4. \A t \in Threads : Filing(s, t) =>
               /\ thread'[t] # NoThread
               /\ thread'[t].archived = (r.sent[r.busy].method = "thread/archive")
    BY <1>0, <2>2 DEF Written
  <2>5. r.sent[r.busy].method \in Listing /\ s.step = 2 =>
               \A t \in Threads : thread'[t] # NoThread =>
                   (t \in s.rows) = (thread'[t].archived
                                     = (r.sent[r.busy].method = "thread/list_archived"))
    BY <1>0, <1>1
  <2>. HIDE DEF Facts
  <2>6. Facts(c, s, thread')
    BY <1>0, <1>1, <1>3, <2>1, <2>3, <2>4, <2>5, WentOnKeeps
  <2>. QED  BY <2>6 DEF Facts
<1>5. Calm(r, s)
  BY <1>0, <1>1, <1>4, AllCalm
<1>6. Decisions'
  BY <1>1, <1>5, DecisionsStay DEF IInv, r, s
<1>7. \A d \in Conns \ {c} : Keeps(d, thread, thread')
  <2>1. SUFFICES ASSUME NEW d \in Conns \ {c}, NEW t \in Threads, thread[t] # NoThread
                 PROVE  /\ thread'[t] # NoThread
                        /\ Sole(d, t) => thread'[t].archived = thread[t].archived
    BY DEF Keeps
  <2>2. Sole(d, t) => ~Files(Request(c), t)
    BY <1>0, <2>1 DEF Sole
  <2>. QED  BY <2>1, <2>2 DEF Written
<1>8. \A d \in Conns : Facts(d, conn'[d], thread')
  BY <1>1, <1>4, <1>7, FactsOfAll DEF IInv, s
<1>9. Typed' => IInv'
  BY <1>6, <1>8 DEF IInv
<1>. QED  BY <1>0, <1>1, <1>2, <1>9 DEF r, s

LEMMA RowIsThread ==
    ASSUME NEW r, Row(r)
    PROVE  r # NoThread
<1>1. "archived" \in DOMAIN r
  BY DEF Row
<1>2. "archived" \notin DOMAIN NoThread
  BY DEF NoThread
<1>. QED  BY <1>1, <1>2

LEMMA InsertedRow ==
    ASSUME Typed, NEW t \in Threads, NEW title, NEW n, n = Inserted(thread, t, title)
    PROVE  /\ n = [u \in Threads |-> n[u]] /\ Row(n[t])
           /\ \A u \in Threads : u # t => n[u] = thread[u]
BY DEF Typed, Inserted, Row

LEMMA RetitledRow ==
    ASSUME Typed, NEW t \in Threads, thread[t] # NoThread, NEW title,
           NEW n, n = Retitled(thread, t, title)
    PROVE  /\ n = [u \in Threads |-> n[u]] /\ Row(n[t])
           /\ n[t].archived = thread[t].archived
           /\ \A u \in Threads : u # t => n[u] = thread[u]
<1>1. /\ thread = [u \in Threads |-> thread[u]]
      /\ thread[t] = [title |-> thread[t].title, archived |-> thread[t].archived]
      /\ thread[t].archived \in BOOLEAN
  BY DEF Typed, Row, ThreadExists
<1>. DEFINE x == [thread[t] EXCEPT !.title = title]
<1>2. x = [title |-> title, archived |-> thread[t].archived]
  BY <1>1
<1>3. n = [thread EXCEPT ![t] = x]
  BY DEF Retitled
<1>. HIDE DEF x
<1>4. n[t] = x /\ n = [u \in Threads |-> n[u]] /\ \A u \in Threads : u # t => n[u] = thread[u]
  BY <1>1, <1>3
<1>5. Row(x) /\ x.archived = thread[t].archived
  BY <1>1, <1>2 DEF Row
<1>. QED  BY <1>4, <1>5

LEMMA ArchivedRow ==
    ASSUME Typed, NEW t \in Threads, thread[t] # NoThread, NEW archived \in BOOLEAN,
           NEW n, n = Archived(thread, t, archived)
    PROVE  /\ n = [u \in Threads |-> n[u]] /\ Row(n[t]) /\ n[t].archived = archived
           /\ \A u \in Threads : u # t => n[u] = thread[u]
<1>1. /\ thread = [u \in Threads |-> thread[u]]
      /\ thread[t] = [title |-> thread[t].title, archived |-> thread[t].archived]
  BY DEF Typed, Row, ThreadExists
<1>. DEFINE x == [thread[t] EXCEPT !.archived = archived]
<1>2. x = [title |-> thread[t].title, archived |-> archived]
  BY <1>1
<1>3. n = [thread EXCEPT ![t] = x]
  BY DEF Archived
<1>. HIDE DEF x
<1>4. n[t] = x /\ n = [u \in Threads |-> n[u]] /\ \A u \in Threads : u # t => n[u] = thread[u]
  BY <1>1, <1>3
<1>5. Row(x) /\ x.archived = archived
  BY <1>2 DEF Row
<1>. QED  BY <1>4, <1>5

LEMMA TypedWritten ==
    ASSUME Typed, NEW c \in Conns, OnlyConn(c), conn'[c].at = "open", core.at = "serving",
           NEW t \in Threads, NEW title, Carried(t, title) \/ UNCHANGED hadTitles,
           thread' = [u \in Threads |-> thread'[u]], Row(thread'[t]),
           \A u \in Threads : u # t => thread'[u] = thread[u],
           UNCHANGED <<core, titler, decide>>
    PROVE  Typed'
<1>1. conn' = [d \in Conns |-> conn'[d]] /\ \A d \in Conns : conn'[d].at = "open" => core'.at = "serving"
  BY DEF Typed, OnlyConn
<1>2. \A u \in Threads : /\ thread'[u] # NoThread => Row(thread'[u])
                         /\ thread[u] # NoThread => thread'[u] # NoThread
  BY RowIsThread DEF Typed, ThreadExists
<1>3. hadTitles' = [u \in Threads |-> hadTitles'[u]]
  BY DEF Typed, Carried
<1>4. \A u \in Threads : titler'[u] # NoTitler => thread'[u] # NoThread
  BY <1>2 DEF Typed, ThreadExists
<1>. QED  BY <1>1, <1>2, <1>3, <1>4 DEF Typed, ThreadExists

LEMMA AtStep ==
    ASSUME IInv, NEW c \in Conns, NEW step, At(c, step)
    PROVE  /\ Busy(c) /\ core.at = "serving"
           /\ conn[c].step \in 1..Len(Steps(Request(c).method))
           /\ Steps(Request(c).method)[conn[c].step] = step
           /\ Len(Steps(Request(c).method)) \in 1..4
           /\ Request(c).method \in Changing => Request(c).method \notin Listing
           /\ Request(c).method \in Changing \cup Listing =>
                  Request(c).method \notin {"thread/create", "proposal/decide"}
BY InHandler, StepTells DEF At, Changing, Listing

LEMMA CheckKeeps ==
    ASSUME IInv, NEW c \in Conns, Check(c)
    PROVE  IInv'
<1>1. At(c, "check")
  BY DEF Check, Decoded
<1>2. /\ Busy(c) /\ core.at = "serving" /\ conn[c].step = 1
      /\ Request(c).method \in Changing \cup {"thread/create"}
      /\ Len(Steps(Request(c).method)) > 2 /\ Request(c).method \notin Listing
      /\ Request(c).method \in Changing => Request(c).method # "thread/create"
  BY <1>1, AtStep, StepTells DEF Changing, Listing
<1>3. UNCHANGED <<core, thread, titler, decide, hadTitles>>
  BY DEF Check
<1>4. CASE Fail(c, "invalid_params") \/ Fail(c, "unknown_thread")
  BY <1>2, <1>3, <1>4, FailKeeps DEF Failed
<1>5. CASE EnsureThread(Request(c)) /\ conn' = Forward(conn, c)
  <2>0. /\ conn = [d \in Conns |-> conn[d]] /\ Facts(c, conn[c], thread)
        /\ ConnOK(c, conn[c])
    BY <1>2, InHandler
  <2>1. conn[c].made \in Threads \cup {"none"} /\ (conn[c].made \in Threads => thread[conn[c].made] # NoThread)
    BY <2>0 DEF Facts, ConnOK, InHand
  <2>2. Request(c).method \in Changing =>
            Request(c).thread \in Threads /\ thread'[Request(c).thread] # NoThread
    BY <1>2, <1>3, <1>5 DEF EnsureThread, ThreadExists
  <2>3. conn[c].step < Len(Steps(Request(c).method))
    BY <1>2
  <2>4. OnlyConn(c) /\ WentOn(conn[c], conn'[c])
    BY <1>2, <1>5, <2>0, <2>3, ForwardForm
  <2>5. Written(c, conn'[c])
    BY <1>2, <1>3, <2>4 DEF Written, Filing, WentOn
  <2>6. OnlyConn(c) /\ conn'[c].at = "open" /\ (Typed' => IInv')
    <3>1. Request(c).method = "thread/create" /\ conn[c].step + 1 > 2 => FALSE
      BY <1>2
    <3>. QED  BY <1>2, <1>3, <1>5, <2>1, <2>2, <2>3, <2>5, <3>1, GoesOn
  <2>. QED  BY <1>2, <1>3, <2>6, TypedStays DEF IInv
<1>. QED  BY <1>4, <1>5 DEF Check

LEMMA InsertThreadKeeps ==
    ASSUME IInv, NEW c \in Conns, InsertThread(c)
    PROVE  IInv'
<1>1. At(c, "insert")
  BY DEF InsertThread, Decoded
<1>2. /\ Busy(c) /\ core.at = "serving" /\ conn[c].step = 2
      /\ Request(c).method = "thread/create" /\ Len(Steps(Request(c).method)) = 4
      /\ conn[c].step < Len(Steps(Request(c).method))
      /\ Request(c).method \notin Listing /\ Request(c).method \notin Changing
  BY <1>1, AtStep, StepTells DEF Changing, Listing
<1>3. UNCHANGED <<core, titler, decide>>
  BY DEF InsertThread
<1>4. CASE Fail(c, "provider_not_connected") /\ UNCHANGED <<thread, hadTitles>>
  BY <1>2, <1>3, <1>4, FailKeeps DEF Failed
<1>5. ASSUME NEW t \in Threads, ~ThreadExists(t),
             thread' = Inserted(thread, t, PlaceholderTitle(Request(c).title)),
             Carried(t, PlaceholderTitle(Request(c).title)),
             conn' = [Forward(conn, c) EXCEPT ![c].made = t]
      PROVE  IInv'
  <2>. DEFINE title == PlaceholderTitle(Request(c).title)
  <2>0. /\ conn = [d \in Conns |-> conn[d]] /\ ConnOK(c, conn[c]) /\ Typed
    BY <1>2, InHandler DEF IInv
  <2>1. /\ thread' = [u \in Threads |-> thread'[u]] /\ Row(thread'[t])
        /\ \A u \in Threads : u # t => thread'[u] = thread[u]
    <3>. HIDE DEF title
    <3>1. thread' = Inserted(thread, t, title)
      BY <1>5 DEF title
    <3>. QED  BY <2>0, <3>1, InsertedRow
  <2>2. thread'[t] # NoThread
    BY <2>1, RowIsThread
  <2>3. conn[c].step < Len(Steps(Request(c).method))
    BY <1>2
  <2>4. OnlyConn(c) /\ WentOn(conn[c], conn'[c])
    BY <1>2, <1>5, <2>0, <2>3, ForwardForm
  <2>5. Request(c) = conn[c].sent[conn[c].busy]
    BY DEF Request
  <2>6. \A u \in Threads : ~Filing(conn'[c], u)
    BY <1>2, <2>4, <2>5 DEF Filing, WentOn, Stays, Files
  <2>7. Written(c, conn'[c])
    BY <1>5, <2>1, <2>6 DEF Written, ThreadExists
  <2>8. OnlyConn(c) /\ conn'[c].at = "open" /\ (Typed' => IInv')
    BY <1>2, <1>3, <1>5, <2>2, <2>3, <2>7, GoesOn
  <2>. HIDE DEF title
  <2>9. Typed'
    BY <1>2, <1>3, <1>5, <2>0, <2>1, <2>8, TypedWritten DEF title
  <2>. QED  BY <2>8, <2>9
<1>. QED  BY <1>4, <1>5 DEF InsertThread

LEMMA SpawnKeeps ==
    ASSUME IInv, NEW c \in Conns, SpawnTitleGeneration(c)
    PROVE  IInv'
<1>1. At(c, "title")
  BY DEF SpawnTitleGeneration, Decoded
<1>2. /\ Busy(c) /\ core.at = "serving" /\ conn[c].step = 3
      /\ Request(c).method = "thread/create" /\ Len(Steps(Request(c).method)) = 4
      /\ conn[c].step < Len(Steps(Request(c).method))
      /\ Request(c).method \notin Listing /\ Request(c).method \notin Changing
  BY <1>1, AtStep, StepTells DEF Changing, Listing
<1>3. UNCHANGED <<core, thread, decide, hadTitles>> /\ conn' = Forward(conn, c)
  BY DEF SpawnTitleGeneration
<1>4. /\ conn = [d \in Conns |-> conn[d]] /\ Facts(c, conn[c], thread)
      /\ ConnOK(c, conn[c]) /\ conn[c].busy # Idle
      /\ Request(c) = conn[c].sent[conn[c].busy]
  BY <1>2, InHandler
<1>5. conn[c].made \in Threads /\ thread[conn[c].made] # NoThread
  BY <1>2, <1>4 DEF Facts, InHand, Handled
<1>6. conn[c].step < Len(Steps(Request(c).method))
  BY <1>2
<1>7. OnlyConn(c) /\ WentOn(conn[c], conn'[c])
  BY <1>2, <1>3, <1>4, <1>6, ForwardForm
<1>8. \A u \in Threads : ~Filing(conn'[c], u)
  BY <1>2, <1>4, <1>7 DEF Filing, WentOn, Stays, Files
<1>9. Written(c, conn'[c])
  BY <1>3, <1>8 DEF Written
<1>10. OnlyConn(c) /\ conn'[c].at = "open" /\ (Typed' => IInv')
  BY <1>2, <1>3, <1>5, <1>6, <1>9, GoesOn
<1>11. Typed'
  <2>. DEFINE w == [at |-> "token", conn |-> c, text |-> <<>>, frames |-> 0, title |-> <<>>]
  <2>1. TitlerOK(w) /\ w # NoTitler
    BY DEF TitlerOK, NoTitler
  <2>2. titler' = [titler EXCEPT ![conn[c].made] = w]
    BY DEF SpawnTitleGeneration
  <2>. HIDE DEF w
  <2>3. /\ titler' = [t \in Threads |-> titler'[t]]
        /\ \A t \in Threads : TitlerOK(titler'[t])
        /\ \A t \in Threads : titler'[t] # NoTitler => thread'[t] # NoThread
    BY <1>3, <1>5, <2>1, <2>2 DEF IInv, Typed, ThreadExists
  <2>4. conn' = [d \in Conns |-> conn'[d]] /\ \A d \in Conns : conn'[d].at = "open" => core'.at = "serving"
    BY <1>2, <1>3, <1>10 DEF IInv, Typed, OnlyConn
  <2>. QED  BY <1>2, <1>3, <2>3, <2>4 DEF IInv, Typed, ThreadExists
<1>. QED  BY <1>10, <1>11


\* What a write of an existing Thread's row is made by.
LEMMA AtWrite ==
    ASSUME IInv, NEW c \in Conns, Decoded(c, "write")
    PROVE  /\ Busy(c) /\ core.at = "serving" /\ conn[c].step = 2
           /\ Request(c).method \in Changing /\ Len(Steps(Request(c).method)) = 3
           /\ conn[c].step < Len(Steps(Request(c).method))
           /\ Request(c).method \notin Listing /\ Request(c).method # "thread/create"
           /\ conn = [d \in Conns |-> conn[d]] /\ ConnOK(c, conn[c]) /\ Typed
           /\ Request(c) = conn[c].sent[conn[c].busy] /\ conn[c].busy # Idle
           /\ Request(c).thread \in Threads /\ thread[Request(c).thread] # NoThread
           /\ conn[c].made \in Threads \cup {"none"}
           /\ conn[c].made \in Threads => thread[conn[c].made] # NoThread
<1>1. At(c, "write")
  BY DEF Decoded
<1>2. /\ Busy(c) /\ core.at = "serving" /\ conn[c].step = 2
      /\ Request(c).method \in Changing /\ Len(Steps(Request(c).method)) = 3
      /\ conn[c].step < Len(Steps(Request(c).method))
      /\ Request(c).method \notin Listing /\ Request(c).method # "thread/create"
  <2>1. /\ Busy(c) /\ core.at = "serving"
        /\ conn[c].step \in 1..Len(Steps(Request(c).method))
        /\ Steps(Request(c).method)[conn[c].step] = "write"
        /\ Request(c).method \in Changing => Request(c).method \notin Listing
        /\ Request(c).method \in Changing \cup Listing =>
               Request(c).method \notin {"thread/create", "proposal/decide"}
    BY <1>1, AtStep
  <2>2. conn[c].step = 2 /\ Request(c).method \in Changing /\ Len(Steps(Request(c).method)) = 3
    BY <2>1, StepTells
  <2>. QED  BY <2>1, <2>2
<1>3. /\ conn = [d \in Conns |-> conn[d]] /\ ConnOK(c, conn[c]) /\ Typed
      /\ Request(c) = conn[c].sent[conn[c].busy] /\ conn[c].busy # Idle
      /\ Facts(c, conn[c], thread)
  BY <1>2, InHandler DEF IInv
<1>4. Request(c).thread \in Threads /\ thread[Request(c).thread] # NoThread
  BY <1>2, <1>3 DEF Facts, InHand, Handled
<1>5. /\ conn[c].made \in Threads \cup {"none"}
      /\ conn[c].made \in Threads => thread[conn[c].made] # NoThread
  BY <1>3 DEF Facts, ConnOK, InHand
<1>. QED  BY <1>2, <1>3, <1>4, <1>5

LEMMA WriteKeeps ==
    ASSUME IInv, NEW c \in Conns, Rename(c) \/ Archive(c)
    PROVE  IInv'
<1>. DEFINE t == Request(c).thread
<1>1. Decoded(c, "write") /\ conn' = Forward(conn, c) /\ UNCHANGED <<core, titler, decide>>
  BY DEF Rename, Archive
<1>2. /\ Busy(c) /\ core.at = "serving" /\ conn[c].step = 2
      /\ Request(c).method \in Changing /\ Len(Steps(Request(c).method)) = 3
      /\ conn[c].step < Len(Steps(Request(c).method))
      /\ Request(c).method \notin Listing /\ Request(c).method # "thread/create"
      /\ conn = [d \in Conns |-> conn[d]] /\ ConnOK(c, conn[c]) /\ Typed
      /\ Request(c) = conn[c].sent[conn[c].busy] /\ conn[c].busy # Idle
      /\ t \in Threads /\ thread[t] # NoThread
      /\ conn[c].made \in Threads \cup {"none"}
      /\ conn[c].made \in Threads => thread[conn[c].made] # NoThread
  BY <1>1, AtWrite
<1>3. /\ thread' = [u \in Threads |-> thread'[u]] /\ Row(thread'[t])
      /\ thread'[t].archived = IF Request(c).method = "thread/rename" THEN thread[t].archived
                               ELSE Request(c).method = "thread/archive"
      /\ \A u \in Threads : u # t => thread'[u] = thread[u]
  <2>1. CASE Rename(c)
    <3>1. thread' = Retitled(thread, t, Trim(Request(c).title)) /\ Request(c).method = "thread/rename"
      BY <2>1 DEF Rename
    <3>. HIDE DEF t
    <3>. QED  BY <1>2, <3>1, RetitledRow
  <2>2. CASE Archive(c)
    <3>. DEFINE archived == Request(c).method = "thread/archive"
    <3>1. thread' = Archived(thread, t, archived) /\ Request(c).method # "thread/rename"
      BY <2>2 DEF Archive
    <3>2. archived \in BOOLEAN
      OBVIOUS
    <3>. HIDE DEF t, archived
    <3>3. /\ thread' = [u \in Threads |-> thread'[u]] /\ Row(thread'[t])
          /\ thread'[t].archived = archived
          /\ \A u \in Threads : u # t => thread'[u] = thread[u]
      BY <1>2, <3>1, <3>2, ArchivedRow
    <3>. QED  BY <3>1, <3>3 DEF archived
  <2>. QED  BY <2>1, <2>2
<1>4. /\ thread'[t] # NoThread
      /\ \A u \in Threads : thread[u] # NoThread => thread'[u] # NoThread
  BY <1>2, <1>3, RowIsThread
<1>5. OnlyConn(c) /\ WentOn(conn[c], conn'[c])
  BY <1>1, <1>2, ForwardForm
<1>6. \A u \in Threads : Filing(conn'[c], u) <=> Files(Request(c), u)
  BY <1>2, <1>5 DEF Filing, WentOn, Stays
<1>7. \A u \in Threads :
          Files(Request(c), u) <=> Request(c).method # "thread/rename" /\ u = t
  BY <1>2 DEF Files, Changing
<1>8. Written(c, conn'[c])
  BY <1>2, <1>3, <1>4, <1>6, <1>7 DEF Written
<1>9. OnlyConn(c) /\ conn'[c].at = "open" /\ (Typed' => IInv')
  <2>1. conn[c].made \in Threads => thread'[conn[c].made] # NoThread
    BY <1>2, <1>4
  <2>. QED  BY <1>1, <1>2, <1>4, <1>8, <2>1, GoesOn
<1>10. Typed'
  <2>1. (\E title : Carried(t, title)) \/ UNCHANGED hadTitles
    BY DEF Rename, Archive
  <2>. HIDE DEF t
  <2>. QED  BY <1>1, <1>2, <1>3, <1>9, <2>1, TypedWritten
<1>. QED  BY <1>9, <1>10

LEMMA ReadKeeps ==
    ASSUME IInv, NEW c \in Conns, ReadThreads(c) \/ ReadArchivedThreads(c)
    PROVE  IInv'
<1>. DEFINE rows == IF Request(c).method = "thread/list" THEN ListThreads
                    ELSE ListArchivedThreads
<1>1. /\ At(c, "read") /\ conn' = [Forward(conn, c) EXCEPT ![c].rows = rows]
      /\ UNCHANGED <<core, thread, titler, decide, hadTitles>>
  BY DEF ReadThreads, ReadArchivedThreads, Holds, Decoded
<1>2. /\ Busy(c) /\ core.at = "serving" /\ conn[c].step = 1
      /\ Request(c).method \in Listing /\ Len(Steps(Request(c).method)) = 2
      /\ conn[c].step < Len(Steps(Request(c).method))
      /\ Request(c).method \notin Changing /\ Request(c).method # "thread/create"
  BY <1>1, AtStep, StepTells DEF Changing, Listing
<1>3. /\ conn = [d \in Conns |-> conn[d]] /\ Facts(c, conn[c], thread)
      /\ ConnOK(c, conn[c]) /\ Typed
  BY <1>2, InHandler DEF IInv
<1>4. /\ conn[c].made \in Threads \cup {"none"}
      /\ conn[c].made \in Threads => thread[conn[c].made] # NoThread
  BY <1>3 DEF Facts, ConnOK, InHand
<1>5. \A t \in Threads : thread[t] # NoThread =>
          (t \in rows) = (thread[t].archived
                          = (Request(c).method = "thread/list_archived"))
  BY <1>2, <1>3 DEF Listing, ListThreads, ListArchivedThreads, ThreadExists, Typed, Row
<1>. HIDE DEF rows
<1>6. OnlyConn(c) /\ WentOn(conn[c], conn'[c])
  BY <1>1, <1>2, <1>3, ForwardForm
<1>7. Written(c, conn'[c])
  BY <1>1, <1>2, <1>6 DEF Written, Filing, WentOn
<1>8. OnlyConn(c) /\ conn'[c].at = "open" /\ (Typed' => IInv')
  BY <1>1, <1>2, <1>4, <1>5, <1>7, GoesOn
<1>. QED  BY <1>1, <1>2, <1>3, <1>8, TypedStays


LEMMA RefusalKeeps ==
    ASSUME IInv, NEW c \in Conns, Dispatch(c) \/ DecodeParams(c) \/ StatementFails(c)
    PROVE  IInv'
<1>1. UNCHANGED <<core, thread, titler, decide, hadTitles>>
  BY DEF Dispatch, DecodeParams, StatementFails
<1>2. CASE Dispatch(c)
  <2>1. At(c, "no_method") /\ Fail(c, "method_not_found")
    BY <1>2 DEF Dispatch
  <2>2. Busy(c) /\ Request(c).method \notin Changing
    BY <2>1, AtStep, StepTells
  <2>. QED  BY <1>1, <2>1, <2>2, FailKeeps DEF Failed
<1>3. CASE DecodeParams(c)
  <2>1. Busy(c) /\ conn[c].step # 3 /\ Fail(c, "invalid_params")
    BY <1>3 DEF DecodeParams
  <2>. QED  BY <1>1, <2>1, FailKeeps DEF Failed
<1>4. CASE StatementFails(c)
  <2>1. Fail(c, "internal")
    BY <1>4 DEF StatementFails
  <2>2. PICK step \in {"insert", "write", "read", "family", "check"} : At(c, step)
    BY <1>4 DEF StatementFails, Decoded
  <2>3. Busy(c) /\ conn[c].step # 3
    <3>1. /\ Busy(c) /\ conn[c].step \in 1..Len(Steps(Request(c).method))
          /\ Steps(Request(c).method)[conn[c].step] = step
      BY <2>2, AtStep
    <3>2. conn[c].step = 1 \/ conn[c].step = 2
      BY <2>2, <3>1, StepTells
    <3>. QED  BY <3>1, <3>2
  <2>. QED  BY <1>1, <2>1, <2>3, FailKeeps DEF Failed
<1>. QED  BY <1>2, <1>3, <1>4

LEMMA ResponseKeeps ==
    ASSUME IInv, NEW c \in Conns, SendResponse(c)
    PROVE  IInv'
<1>. DEFINE r == conn[c]
            s == conn'[c]
            code == Code("ok")
<1>1. At(c, "answer") /\ UNCHANGED <<core, thread, titler, decide, hadTitles>>
  BY DEF SendResponse, Decoded
<1>2. /\ Busy(c) /\ core.at = "serving" /\ r.step = Len(Steps(Request(c).method))
      /\ Request(c).method \in Changing => r.step = 3
      /\ Request(c).method \in Listing => r.step = 2
  BY <1>1, AtStep, StepTells
<1>3. /\ conn = [d \in Conns |-> conn[d]] /\ Facts(c, r, thread) /\ ConnOK(c, r)
      /\ r.busy # Idle /\ r.at = "open" /\ Request(c) = r.sent[r.busy] /\ Typed
  BY <1>2, InHandler DEF IInv
<1>4. OnlyConn(c) /\ Ended(r, s, Answer(r.busy, code, r.rows))
  BY <1>2, <1>3, ResponseForm
<1>. HIDE DEF r, s
<1>5. code = 0
  BY OkIsZero
<1>. HIDE DEF code
<1>6. Facts(c, s, thread)
  BY <1>2, <1>3, <1>4, <1>5, EndedKeeps
<1>7. Calm(r, s)
  BY <1>3, <1>4, <1>6, AllCalm DEF Facts
<1>8. Decisions'
  BY <1>1, <1>4, <1>7, DecisionsStay DEF IInv, r, s
<1>9. Typed'
  BY <1>1, <1>2, <1>4, TypedStays DEF IInv
<1>10. \A d \in Conns : Facts(d, conn'[d], thread')
  BY <1>1, <1>4, <1>6, FactsOfAll DEF IInv, Keeps, s
<1>. QED  BY <1>8, <1>9, <1>10 DEF IInv

LEMMA DecideKeeps ==
    ASSUME IInv, NEW c \in Conns, HandleDecide(c)
    PROVE  IInv'
<1>. DEFINE r == conn[c]
            s == conn'[c]
<1>1. At(c, "family") /\ UNCHANGED <<core, thread, titler, hadTitles>>
  BY DEF HandleDecide, Decoded
<1>2. /\ Busy(c) /\ core.at = "serving" /\ r.step = 1
      /\ Request(c).method = "proposal/decide"
      /\ Request(c).method \notin Changing /\ Request(c).method \notin Listing
  BY <1>1, AtStep, StepTells
<1>3. /\ conn = [d \in Conns |-> conn[d]] /\ Facts(c, r, thread) /\ ConnOK(c, r)
      /\ r.busy # Idle /\ r.busy = r.read /\ r.at = "open"
      /\ Request(c) = r.sent[r.busy] /\ Typed /\ Decisions
  BY <1>2, InHandler DEF IInv
<1>4. /\ OnlyConn(c)
      /\ \/ Request(c).write /\ Left(r, s)
         \/ decide' = decide /\ \E code : Ended(r, s, Answer(r.busy, code, {}))
  BY <1>2, <1>3, DecideForm
<1>5. CASE decide' = decide /\ \E code : Ended(r, s, Answer(r.busy, code, {}))
  <2>. HIDE DEF r, s
  <2>1. PICK code : Ended(r, s, Answer(r.busy, code, {}))
    BY <1>5
  <2>2. Facts(c, s, thread)
    BY <1>2, <1>3, <2>1, EndedKeeps
  <2>3. Calm(r, s)
    BY <1>3, <2>1, <2>2, AllCalm DEF Facts
  <2>4. Decisions'
    BY <1>4, <1>5, <2>3, DecisionsStay DEF IInv, r, s
  <2>5. Typed'
    BY <1>1, <1>2, <1>4, <1>5, TypedStays DEF IInv
  <2>6. \A d \in Conns : Facts(d, conn'[d], thread')
    BY <1>1, <1>4, <2>2, FactsOfAll DEF IInv, Keeps, s
  <2>. QED  BY <2>4, <2>5, <2>6 DEF IInv
<1>6. CASE Request(c).write /\ Left(r, s)
  <2>. DEFINE e == [conn |-> c, id |-> r.busy, told |-> FALSE, responded |-> FALSE]
  <2>1. decide' = decide \cup {e}
    BY <1>6 DEF HandleDecide
  <2>2. e.conn = c /\ e.id = r.busy /\ e.responded = FALSE
    OBVIOUS
  <2>3. e \in [conn : Conns, id : Nat, told : BOOLEAN, responded : BOOLEAN]
    BY <1>3 DEF ConnOK
  <2>. HIDE DEF e, r, s
  <2>4. /\ s.at = r.at /\ s.busy = Idle /\ s.step = r.step /\ s.out = r.out /\ s.sent = r.sent
        /\ s.read = r.read /\ s.made = r.made /\ s.rows = r.rows /\ Stays(r, s)
    BY <1>6 DEF Left, Stays
  <2>5. ConnOK(c, s)
    BY <1>2, <1>3, <2>4 DEF ConnOK, Stays
  <2>6. Facts(c, s, thread)
    <3>1. Aside(r, s)
      BY <2>4 DEF Aside
    <3>. QED  BY <1>2, <1>3, <2>5, <3>1, AsideKeeps
  <2>7. Calm(r, s)
    BY <1>3, <1>6, <2>5, AllCalm
  <2>8. Unanswered(s, e)
    <3>1. r.busy \in 1..r.read
      BY <1>3 DEF ConnOK, Idle
    <3>2. \A k \in DOMAIN r.out : IsAnswer(r.out[k]) => r.out[k].id # r.busy
      BY <1>3 DEF Facts, Earlier
    <3>. QED  BY <1>2, <1>3, <1>6, <2>2, <2>4, <3>1, <3>2 DEF Unanswered, Beside
  <2>9. \A d \in decide : Unanswered(conn'[d.conn], d) /\ (d.conn = c => d.id # e.id)
    <3>1. SUFFICES ASSUME NEW d \in decide
                   PROVE  Unanswered(conn'[d.conn], d) /\ (d.conn = c => d.id # e.id)
      OBVIOUS
    <3>2. d.conn \in Conns /\ Unanswered(conn[d.conn], d)
      BY <1>3, <3>1 DEF Typed, Decisions
    <3>3. CASE d.conn = c
      <4>1. Unanswered(s, d)
        BY <2>7, <3>2, <3>3, CalmKeeps DEF r
      <4>2. d.id # r.busy
        BY <1>3, <3>2, <3>3 DEF Unanswered, r
      <4>. QED  BY <2>2, <3>3, <4>1, <4>2 DEF s
    <3>4. CASE d.conn # c
      BY <1>4, <3>2, <3>4 DEF OnlyConn
    <3>. QED  BY <3>3, <3>4
  <2>10. Decisions'
    <3>1. \A d \in decide' : Unanswered(conn'[d.conn], d)
      BY <2>1, <2>2, <2>8, <2>9 DEF s
    <3>2. \A d, f \in decide' : d.conn = f.conn /\ d.id = f.id => d = f
      BY <1>3, <2>1, <2>2, <2>9 DEF Decisions
    <3>. QED  BY <3>1, <3>2 DEF Decisions
  <2>11. Typed'
    <3>1. conn' = [d \in Conns |-> conn'[d]] /\ \A d \in Conns : conn'[d].at = "open" => core'.at = "serving"
      BY <1>1, <1>2, <1>3, <1>4 DEF Typed, OnlyConn
    <3>2. decide' \subseteq [conn : Conns, id : Nat, told : BOOLEAN, responded : BOOLEAN]
      BY <1>3, <2>1, <2>3 DEF Typed
    <3>. QED  BY <1>1, <1>2, <1>3, <3>1, <3>2 DEF Typed, ThreadExists
  <2>12. \A d \in Conns : Facts(d, conn'[d], thread')
    BY <1>1, <1>4, <2>6, FactsOfAll DEF IInv, Keeps, s
  <2>. QED  BY <2>10, <2>11, <2>12 DEF IInv
<1>. QED  BY <1>4, <1>5, <1>6

LEMMA HandleKeeps ==
    ASSUME IInv, NEW c \in Conns, Handle(c)
    PROVE  IInv'
BY CheckKeeps, InsertThreadKeeps, SpawnKeeps, WriteKeeps, ReadKeeps, RefusalKeeps,
   ResponseKeeps, DecideKeeps DEF Handle


(***************************************************************************)
(* A connection's task between two handlers, and its Client.               *)
(***************************************************************************)
LEMMA StepKeeps ==
    ASSUME IInv, NEW c \in Conns, OnlyConn(c), Facts(c, conn'[c], thread),
           Calm(conn[c], conn'[c]), conn'[c].at = "open" => core.at = "serving",
           UNCHANGED <<core, thread, titler, decide, hadTitles>>
    PROVE  IInv'
<1>1. Decisions'
  BY DecisionsStay DEF IInv
<1>2. Typed'
  BY TypedStays DEF IInv
<1>3. \A d \in Conns : Facts(d, conn'[d], thread')
  BY FactsOfAll DEF IInv, Keeps
<1>. QED  BY <1>1, <1>2, <1>3 DEF IInv

LEMMA HandshakeKeeps ==
    ASSUME IInv, NEW c \in Conns, Handshake(c)
    PROVE  IInv'
<1>. DEFINE r == conn[c]
            s == conn'[c]
<1>1. /\ conn = [d \in Conns |-> conn[d]] /\ Facts(c, r, thread) /\ ConnOK(c, r)
      /\ Shape(r)
  BY DEF IInv, Typed, Facts, ConnOK
<1>2. PICK at \in {"open", "refused"} : conn' = [conn EXCEPT ![c].at = at]
  BY DEF Handshake
<1>3. OnlyConn(c) /\ s = [r EXCEPT !.at = at]
  <2>. HIDE DEF r
  <2>. QED  BY <1>1, <1>2 DEF OnlyConn, r
<1>4. r.at = "new" /\ core.at = "serving" /\ UNCHANGED <<core, thread, titler, decide, hadTitles>>
  BY DEF Handshake
<1>. HIDE DEF r, s
<1>5. /\ s.at = at /\ s.sent = r.sent /\ s.read = r.read /\ s.busy = r.busy
      /\ s.step = r.step /\ s.rows = r.rows /\ s.made = r.made /\ s.out = r.out
      /\ s.delivered = r.delivered /\ Shape(s)
  BY <1>1, <1>3 DEF Shape
<1>6. ConnOK(c, s)
  BY <1>1, <1>4, <1>5 DEF ConnOK, Conducts
<1>7. Aside(r, s)
  BY <1>5 DEF Aside
<1>8. Facts(c, s, thread)
  BY <1>1, <1>5, <1>6, <1>7, AsideKeeps
<1>9. Calm(r, s)
  BY <1>2, <1>4, <1>5 DEF Calm
<1>. QED  BY <1>3, <1>4, <1>8, <1>9, StepKeeps DEF r, s

LEMMA SendKeeps ==
    ASSUME IInv, NEW c \in Conns, Send(c)
    PROVE  IInv'
<1>. DEFINE r == conn[c]
            s == conn'[c]
<1>1. /\ conn = [d \in Conns |-> conn[d]] /\ Facts(c, r, thread) /\ ConnOK(c, r)
      /\ Shape(r) /\ core.at = "serving"
  BY DEF IInv, Typed, Facts, ConnOK, Send
<1>2. PICK request \in Scripts[c][Len(r.sent) + 1] :
          conn' = [conn EXCEPT ![c].sent = Append(@, request)]
  BY DEF Send
<1>. DEFINE sent == Append(r.sent, request)
<1>3. OnlyConn(c) /\ s = [r EXCEPT !.sent = sent]
  <2>1. conn' = [conn EXCEPT ![c] = [r EXCEPT !.sent = sent]]
    BY <1>2
  <2>. HIDE DEF r, sent
  <2>. QED  BY <1>1, <2>1 DEF OnlyConn, r
<1>4. r.at = "open" /\ Len(r.sent) < Len(Scripts[c])
      /\ UNCHANGED <<core, thread, titler, decide, hadTitles>>
  BY DEF Send
<1>5. /\ sent \in Seq(UNION ToSet(Scripts[c])) /\ Len(sent) = Len(r.sent) + 1
      /\ Len(r.sent) \in Nat /\ \A i \in 1..Len(r.sent) : sent[i] = r.sent[i]
  <2>. HIDE DEF r
  <2>1. r.sent \in Seq(UNION ToSet(Scripts[c])) /\ Len(r.sent) \in Nat
    BY <1>1, LenProperties DEF ConnOK
  <2>2. Scripts[c] \in Seq(ToSet(Scripts[c])) /\ Len(Scripts[c]) \in Nat
    BY ScriptAssumption, LenProperties
  <2>3. Len(r.sent) + 1 \in 1..Len(Scripts[c])
    BY <1>4, <2>1, <2>2
  <2>4. Scripts[c][Len(r.sent) + 1] \in ToSet(Scripts[c])
    BY <2>2, <2>3, ElementOfSeq
  <2>5. request \in UNION ToSet(Scripts[c])
    BY <1>2, <2>4
  <2>. QED  BY <2>1, <2>5, AppendProperties
<1>. HIDE DEF r, s, sent
<1>6. /\ s.at = r.at /\ s.sent = sent /\ s.read = r.read /\ s.busy = r.busy
      /\ s.step = r.step /\ s.rows = r.rows /\ s.made = r.made /\ s.out = r.out
      /\ s.delivered = r.delivered /\ Shape(s)
  BY <1>1, <1>3 DEF Shape
<1>7. \A i \in 1..r.read : s.sent[i] = r.sent[i]
  BY <1>1, <1>5, <1>6 DEF ConnOK
<1>8. ConnOK(c, s)
  <2>1. s.busy # Idle => s.sent[s.busy] = r.sent[r.busy]
    <3>1. r.busy # Idle => r.busy \in 1..r.read
      BY <1>1 DEF ConnOK, Idle
    <3>. QED  BY <1>6, <1>7, <3>1
  <2>2. s.read <= Len(s.sent)
    BY <1>1, <1>5, <1>6 DEF ConnOK
  <2>. QED  BY <1>1, <1>5, <1>6, <2>1, <2>2 DEF ConnOK
<1>9. Aside(r, s)
  BY <1>6, <1>7 DEF Aside
<1>10. Facts(c, s, thread)
  BY <1>1, <1>6, <1>8, <1>9, AsideKeeps
<1>11. Calm(r, s)
  BY <1>1, <1>6, <1>8, <1>9, AllCalm
<1>. QED  BY <1>1, <1>3, <1>4, <1>10, <1>11, StepKeeps DEF r, s

LEMMA EndKeeps ==
    ASSUME IInv, NEW c \in Conns, CloseOnShutdown(c) \/ ReceiveEnd(c)
    PROVE  IInv'
<1>1. /\ conn = [d \in Conns |-> conn[d]]
      /\ conn' = [conn EXCEPT ![c] = Fresh("closed")]
      /\ UNCHANGED <<core, thread, titler, decide, hadTitles>>
  BY DEF IInv, Typed, CloseOnShutdown, ReceiveEnd
<1>2. OnlyConn(c) /\ conn'[c] = Fresh("closed")
  BY <1>1 DEF OnlyConn
<1>3. Fresh("closed").at = "closed"
  BY DEF Fresh
<1>4. Facts(c, Fresh("closed"), thread)
  BY FreshFacts DEF Conducts
<1>5. Calm(conn[c], Fresh("closed"))
  BY <1>3 DEF Calm
<1>. QED  BY <1>1, <1>2, <1>3, <1>4, <1>5, StepKeeps

LEMMA ReceiveKeeps ==
    ASSUME IInv, NEW c \in Conns, Receive(c)
    PROVE  IInv'
<1>. DEFINE r == conn[c]
            s == conn'[c]
            id == r.read + 1
<1>1. /\ conn = [d \in Conns |-> conn[d]] /\ Facts(c, r, thread) /\ ConnOK(c, r)
      /\ Shape(r) /\ r.at = "open" /\ r.busy = Idle /\ core.at = "serving"
      /\ r.read < Len(r.sent) /\ UNCHANGED <<core, thread, titler, decide, hadTitles>>
  BY DEF IInv, Typed, Facts, ConnOK, Receive, AtSelect
<1>2. PICK busy \in {Idle, id} : conn' = [conn EXCEPT ![c].read = id, ![c].busy = busy]
  BY DEF Receive
<1>3. OnlyConn(c) /\ s = [[r EXCEPT !.read = id] EXCEPT !.busy = busy]
  <2>. HIDE DEF r, id
  <2>. QED  BY <1>1, <1>2 DEF OnlyConn, r
<1>. HIDE DEF r, s, id
<1>4. /\ s.at = r.at /\ s.sent = r.sent /\ s.read = id /\ s.busy = busy
      /\ s.step = r.step /\ s.rows = r.rows /\ s.made = r.made /\ s.out = r.out
      /\ s.delivered = r.delivered /\ Shape(s)
  BY <1>1, <1>3 DEF Shape
<1>5. r.read \in Nat /\ id \in Nat /\ id = r.read + 1 /\ Len(r.sent) \in Nat /\ id <= Len(r.sent)
      /\ r.step = 1
  BY <1>1, LenProperties DEF ConnOK, id
<1>6. ConnOK(c, s)
  <2>1. 1 \in 1..Len(Steps(s.sent[s.busy].method))
    <3>. DEFINE m == s.sent[s.busy].method
    <3>1. m \in Changing \/ m \in Listing \/ m \in Elsewhere \/ m = "thread/create"
          \/ m = "proposal/decide" \/ m \notin Elsewhere \cup Changing \cup Listing
                                              \cup {"thread/create", "proposal/decide"}
      OBVIOUS
    <3>. HIDE DEF m
    <3>2. \/ Steps(m) = <<"check", "insert", "title", "answer">>
          \/ Steps(m) = <<"check", "write", "answer">>
          \/ Steps(m) = <<"read", "answer">> \/ Steps(m) = <<"family">>
          \/ Steps(m) = <<"answer">> \/ Steps(m) = <<"no_method">>
      BY <3>1, StepsOf
    <3>3. 1 \in 1..Len(Steps(m))
      BY <3>2
    <3>. QED  BY <3>3 DEF m
  <2>. QED  BY <1>1, <1>2, <1>4, <1>5, <2>1 DEF ConnOK, Idle
<1>7. Aside(r, s)
  BY <1>2, <1>4, <1>5 DEF Aside
<1>8. Facts(c, s, thread)
  BY <1>1, <1>5, <1>6, <1>7, AsideKeeps
<1>9. Calm(r, s)
  BY <1>1, <1>4, <1>6, <1>7, AllCalm
<1>. QED  BY <1>1, <1>3, <1>8, <1>9, StepKeeps DEF r, s

LEMMA DeliverKeeps ==
    ASSUME IInv, NEW c \in Conns, Deliver(c)
    PROVE  IInv'
<1>. DEFINE r == conn[c]
            s == conn'[c]
            n == r.delivered + 1
<1>1. /\ conn = [d \in Conns |-> conn[d]] /\ Facts(c, r, thread) /\ ConnOK(c, r)
      /\ Shape(r) /\ r.at = "open" /\ core.at = "serving"
      /\ r.delivered < Len(r.out) /\ UNCHANGED <<core, thread, titler, decide, hadTitles>>
  BY DEF IInv, Typed, Facts, ConnOK, Deliver, AtSelect
<1>2. conn' = [conn EXCEPT ![c].delivered = n]
  BY DEF Deliver
<1>3. OnlyConn(c) /\ s = [r EXCEPT !.delivered = n]
  <2>. HIDE DEF r, n
  <2>. QED  BY <1>1, <1>2 DEF OnlyConn, r
<1>. HIDE DEF r, s, n
<1>4. /\ s.at = r.at /\ s.sent = r.sent /\ s.read = r.read /\ s.busy = r.busy
      /\ s.step = r.step /\ s.rows = r.rows /\ s.made = r.made /\ s.out = r.out
      /\ s.delivered = n /\ Shape(s)
  BY <1>1, <1>3 DEF Shape
<1>5. n \in Nat /\ n <= Len(r.out)
  BY <1>1, LenProperties DEF ConnOK, n
<1>6. ConnOK(c, s)
  BY <1>1, <1>4, <1>5 DEF ConnOK
<1>7. Aside(r, s)
  BY <1>4 DEF Aside
<1>8. Facts(c, s, thread)
  BY <1>1, <1>4, <1>6, <1>7, AsideKeeps
<1>9. Calm(r, s)
  BY <1>1, <1>4, <1>6, <1>7, AllCalm
<1>. QED  BY <1>1, <1>3, <1>8, <1>9, StepKeeps DEF r, s


(***************************************************************************)
(* The tasks beside the connections.                                       *)
(***************************************************************************)
\* A Decision says what became of it, and goes on as e or ends.
LEMMA DecisionSays ==
    ASSUME IInv, NEW d \in decide, NEW f, NEW e,
           conn' = Queue(conn, d.conn, <<f>>) \/ conn' = conn,
           IsAnswer(f) => f.id = d.id /\ ~d.responded,
           e \in [conn : Conns, id : Nat, told : BOOLEAN, responded : BOOLEAN],
           e.conn = d.conn, e.id = d.id, IsAnswer(f) \/ d.responded => e.responded,
           decide' = decide \ {d} \/ decide' = (decide \ {d}) \cup {e},
           UNCHANGED <<core, thread, titler, hadTitles>>
    PROVE  IInv'
<1>. DEFINE c == d.conn
            r == conn[c]
            s == conn'[c]
<1>1. /\ conn = [x \in Conns |-> conn[x]] /\ c \in Conns /\ Facts(c, r, thread)
      /\ ConnOK(c, r) /\ Typed /\ Decisions /\ core.at = "serving" /\ Unanswered(r, d)
      /\ decide \subseteq [conn : Conns, id : Nat, told : BOOLEAN, responded : BOOLEAN]
  BY DEF IInv, Typed, Facts, Decisions
<1>2. OnlyConn(c) /\ (s = r \/ (r.at = "open" /\ Said1(r, s, f)))
  <2>1. CASE conn' = Queue(conn, c, <<f>>)
    BY <1>1, <2>1, QueueForm
  <2>2. CASE conn' = conn
    BY <1>1, <2>2 DEF OnlyConn
  <2>. QED  BY <2>1, <2>2
<1>. HIDE DEF r, s, c
<1>3. Facts(c, s, thread)
  <2>1. CASE s = r
    BY <1>1, <2>1
  <2>2. CASE r.at = "open" /\ Said1(r, s, f)
    <3>1. IsAnswer(f) => /\ f.id \in 1..r.read /\ Beside(r, f.id)
                         /\ r.busy # Idle => f.id # r.busy
                         /\ \A k \in DOMAIN r.out : IsAnswer(r.out[k]) => r.out[k].id # f.id
      BY <1>1, <2>2 DEF Unanswered
    <3>. QED  BY <1>1, <2>2, <3>1, SaidKeeps
  <2>. QED  BY <1>2, <2>1, <2>2
<1>4. /\ s.at = r.at /\ s.sent = r.sent /\ s.read = r.read /\ s.busy = r.busy
      /\ \A k \in DOMAIN s.out : IsAnswer(s.out[k]) =>
             \/ k \in DOMAIN r.out /\ s.out[k] = r.out[k]
             \/ IsAnswer(f) /\ s.out[k].id = d.id
  <2>1. CASE s = r
    BY <2>1
  <2>2. CASE Said1(r, s, f)
    <3>1. Stays(r, s) /\ s.busy = r.busy /\ Grown(r.out, s.out, f)
      BY <2>2 DEF Said1
    <3>2. \A k \in DOMAIN s.out : IsAnswer(s.out[k]) =>
              \/ k \in DOMAIN r.out /\ s.out[k] = r.out[k]
              \/ k = Len(r.out) + 1 /\ s.out[k] = f
      BY <3>1, AnswersOf
    <3>. QED  BY <3>1, <3>2 DEF Stays
  <2>. QED  BY <1>2, <2>1, <2>2
<1>5. ASSUME NEW x, Unanswered(r, x), x.id # d.id PROVE Unanswered(s, x)
  BY <1>4, <1>5 DEF Unanswered, Beside
<1>6. Unanswered(s, e)
  BY <1>1, <1>4 DEF Unanswered, Beside
<1>7. Decisions'
  <2>1. \A x \in decide \ {d} : Unanswered(conn'[x.conn], x)
    <3>1. SUFFICES ASSUME NEW x \in decide \ {d} PROVE Unanswered(conn'[x.conn], x)
      OBVIOUS
    <3>2. x.conn \in Conns /\ Unanswered(conn[x.conn], x)
      BY <1>1, <3>1 DEF Decisions
    <3>3. CASE x.conn = c
      <4>1. x.id # d.id
        BY <1>1, <3>1, <3>3 DEF Decisions, c
      <4>. QED  BY <1>5, <3>2, <3>3, <4>1 DEF r, s
    <3>4. CASE x.conn # c
      BY <1>2, <3>2, <3>4 DEF OnlyConn
    <3>. QED  BY <3>3, <3>4
  <2>2. \A x \in decide' : x = e \/ x \in decide \ {d}
    OBVIOUS
  <2>3. \A x \in decide' : Unanswered(conn'[x.conn], x)
    BY <1>6, <2>1, <2>2 DEF s, c
  <2>4. \A x, y \in decide' : x.conn = y.conn /\ x.id = y.id => x = y
    BY <1>1, <2>2 DEF Decisions
  <2>. QED  BY <2>3, <2>4 DEF Decisions
<1>8. Typed'
  <2>1. conn' = [x \in Conns |-> conn'[x]] /\ \A x \in Conns : conn'[x].at = "open" => core'.at = "serving"
    BY <1>1, <1>2 DEF Typed, OnlyConn
  <2>2. decide' \subseteq [conn : Conns, id : Nat, told : BOOLEAN, responded : BOOLEAN]
    BY <1>1
  <2>. QED  BY <1>1, <2>1, <2>2 DEF Typed, ThreadExists
<1>9. \A x \in Conns : Facts(x, conn'[x], thread')
  BY <1>1, <1>2, <1>3, FactsOfAll DEF IInv, Keeps, s
<1>. QED  BY <1>7, <1>8, <1>9 DEF IInv

LEMMA BesideKeeps ==
    ASSUME IInv, NEW d \in decide, Decide(d)
    PROVE  IInv'
<1>. DEFINE record == [conn : Conns, id : Nat, told : BOOLEAN, responded : BOOLEAN]
<1>1. d \in record
  BY DEF IInv, Typed
<1>2. /\ ~IsAnswer(ProposalChanged)
      /\ \A failure : IsAnswer(ErrorAnswer(d.id, failure)) /\ ErrorAnswer(d.id, failure).id = d.id
      /\ IsAnswer(DecideResult(d.id)) /\ DecideResult(d.id).id = d.id
  BY DEF IsAnswer, ProposalChanged, ErrorAnswer, DecideResult, Answer
<1>3. UNCHANGED <<core, thread, titler, hadTitles>>
  BY DEF Decide, NotifyExecuting, HandleDecideTickTickWrite, NotifyDecided, DecideTaskDies
<1>4. CASE NotifyExecuting(d)
  <2>. DEFINE e == [d EXCEPT !.told = TRUE]
  <2>1. e \in record /\ e.conn = d.conn /\ e.id = d.id /\ e.responded = d.responded
    BY <1>1
  <2>2. /\ conn' = Queue(conn, d.conn, <<ProposalChanged>>)
        /\ decide' = (decide \ {d}) \cup {e}
    BY <1>4 DEF NotifyExecuting
  <2>. HIDE DEF e
  <2>. QED  BY <1>2, <1>3, <2>1, <2>2, DecisionSays
<1>5. CASE HandleDecideTickTickWrite(d)
  <2>1. ~d.responded
    BY <1>5 DEF HandleDecideTickTickWrite
  <2>. DEFINE e == [d EXCEPT !.responded = TRUE]
  <2>2. e \in record /\ e.conn = d.conn /\ e.id = d.id /\ e.responded
    BY <1>1
  <2>3. PICK f : /\ IsAnswer(f) /\ f.id = d.id /\ conn' = Queue(conn, d.conn, <<f>>)
                 /\ decide' = decide \ {d} \/ decide' = (decide \ {d}) \cup {e}
    BY <1>2, <1>5 DEF HandleDecideTickTickWrite
  <2>. HIDE DEF e
  <2>. QED  BY <1>2, <1>3, <2>1, <2>2, <2>3, DecisionSays
<1>6. CASE NotifyDecided(d)
  <2>1. /\ conn' = Queue(conn, d.conn, <<ProposalChanged>>) /\ decide' = decide \ {d}
        /\ d.responded
    BY <1>6 DEF NotifyDecided
  <2>. QED  BY <1>1, <1>2, <1>3, <2>1, DecisionSays
<1>7. CASE DecideTaskDies(d) /\ d.responded
  <2>1. conn' = conn /\ decide' = decide \ {d}
    BY <1>7 DEF DecideTaskDies
  <2>. QED  BY <1>1, <1>2, <1>3, <1>7, <2>1, DecisionSays
<1>8. CASE DecideTaskDies(d) /\ ~d.responded
  <2>. DEFINE f == ErrorAnswer(d.id, "internal")
              e == [d EXCEPT !.responded = TRUE]
  <2>1. conn' = Queue(conn, d.conn, <<f>>) /\ decide' = decide \ {d}
    BY <1>8 DEF DecideTaskDies
  <2>2. e \in record /\ e.conn = d.conn /\ e.id = d.id /\ e.responded
    BY <1>1
  <2>3. IsAnswer(f) /\ f.id = d.id
    BY <1>2
  <2>. HIDE DEF e, f
  <2>. QED  BY <1>3, <1>8, <2>1, <2>2, <2>3, DecisionSays
<1>. QED  BY <1>4, <1>5, <1>6, <1>7, <1>8 DEF Decide


(***************************************************************************)
(* The title tasks.                                                        *)
(***************************************************************************)
LEMMA TitlerStep ==
    ASSUME Typed, NEW t \in Threads, NEW w, TitlerOK(w), titler' = [titler EXCEPT ![t] = w],
           titler[t] \notin {NoTitler, Over}, UNCHANGED <<core, decide>>,
           conn' = [d \in Conns |-> conn'[d]], \A d \in Conns : conn'[d].at = conn[d].at,
           thread' = [u \in Threads |-> thread'[u]],
           \A u \in Threads : thread'[u] # NoThread => Row(thread'[u]),
           \A u \in Threads : thread[u] # NoThread => thread'[u] # NoThread,
           hadTitles' = [u \in Threads |-> hadTitles'[u]]
    PROVE  Typed'
<1>1. core'.at = "serving" /\ core' = core
  BY DEF Typed
<1>2. /\ titler' = [u \in Threads |-> titler'[u]]
      /\ \A u \in Threads : TitlerOK(titler'[u])
      /\ \A u \in Threads : titler'[u] # NoTitler => thread'[u] # NoThread
  BY DEF Typed, ThreadExists
<1>. QED  BY <1>1, <1>2 DEF Typed, ThreadExists

LEMMA WorkerOf ==
    ASSUME Typed, NEW t \in Threads,
           titler[t].at \in {"token", "launch", "collect", "write", "tell"}
    PROVE  /\ titler[t] \notin {NoTitler, Over} /\ titler[t].conn \in Conns
           /\ titler[t] = [at |-> titler[t].at, conn |-> titler[t].conn,
                           text |-> titler[t].text, frames |-> titler[t].frames,
                           title |-> titler[t].title]
           /\ titler = [u \in Threads |-> titler[u]] /\ thread[t] # NoThread
<1>1. titler[t] # NoTitler /\ titler[t] # Over
  BY DEF NoTitler, Over
<1>. QED  BY <1>1 DEF Typed, TitlerOK, ThreadExists

\* A title task goes to another of its points, or ends.
LEMMA TitlerGoesTo ==
    ASSUME Typed, NEW t \in Threads,
           titler[t].at \in {"token", "launch", "collect", "write", "tell"},
           NEW at \in {"launch", "collect", "tell", "done"}, TitlerGoes(t, at)
    PROVE  /\ TitlerOK(titler'[t]) /\ titler' = [titler EXCEPT ![t] = titler'[t]]
           /\ at = "done" => titler'[t].at = "done"
           /\ at # "done" => /\ titler'[t].at = at /\ titler'[t].title = titler[t].title
                             /\ titler'[t].text = titler[t].text
<1>. DEFINE r == titler[t]
            w == IF at = "done" THEN Over ELSE [r EXCEPT !.at = at]
<1>1. /\ r = [at |-> r.at, conn |-> r.conn, text |-> r.text, frames |-> r.frames,
              title |-> r.title]
      /\ r.conn \in Conns /\ titler = [u \in Threads |-> titler[u]]
  BY WorkerOf
<1>2. titler' = [titler EXCEPT ![t] = w]
  BY DEF TitlerGoes
<1>3. TitlerOK(w) /\ (at = "done" => w.at = "done")
      /\ (at # "done" => w.at = at /\ w.title = r.title /\ w.text = r.text)
  <2>. HIDE DEF r
  <2>. QED  BY <1>1 DEF TitlerOK, Over
<1>. HIDE DEF w, r
<1>4. titler'[t] = w
  BY <1>1, <1>2
<1>. QED  BY <1>2, <1>3, <1>4 DEF r

\* What no connection and no row sees of a title task.
LEMMA TitlerAlone ==
    ASSUME IInv, NEW t \in Threads,
           titler[t].at \in {"token", "launch", "collect", "write", "tell"},
           TitlerOK(titler'[t]), titler' = [titler EXCEPT ![t] = titler'[t]],
           UNCHANGED <<core, conn, thread, decide, hadTitles>>
    PROVE  IInv'
<1>1. Typed'
  <2>1. Typed /\ titler[t] \notin {NoTitler, Over}
    BY WorkerOf DEF IInv
  <2>2. \A u \in Threads : thread'[u] # NoThread => Row(thread'[u])
    BY <2>1 DEF Typed, ThreadExists
  <2>3. /\ conn' = [d \in Conns |-> conn'[d]] /\ thread' = [u \in Threads |-> thread'[u]]
        /\ hadTitles' = [u \in Threads |-> hadTitles'[u]]
    BY <2>1 DEF Typed
  <2>. QED  BY <2>1, <2>2, <2>3, TitlerStep
<1>2. Decisions'
  BY DEF IInv, Decisions
<1>3. \A d \in Conns : Facts(d, conn'[d], thread')
  BY DEF IInv
<1>. QED  BY <1>1, <1>2, <1>3 DEF IInv

LEMMA UpdateKeeps ==
    ASSUME IInv, NEW t \in Threads, UpdateThreadTitle(t)
    PROVE  IInv'
<1>1. PICK written \in BOOLEAN :
          /\ TitlerGoes(t, AfterUpdate(written))
          /\ IF written
             THEN /\ thread' = Retitled(thread, t, titler[t].title)
                  /\ Carried(t, titler[t].title)
             ELSE UNCHANGED <<thread, hadTitles>>
  BY DEF UpdateThreadTitle
<1>2. Typed /\ titler[t].at = "write" /\ UNCHANGED <<core, conn, decide>>
  BY DEF UpdateThreadTitle, IInv
<1>3. AfterUpdate(written) \in {"launch", "collect", "tell", "done"}
  BY DEF AfterUpdate
<1>4. TitlerOK(titler'[t]) /\ titler' = [titler EXCEPT ![t] = titler'[t]]
  BY <1>1, <1>2, <1>3, TitlerGoesTo
<1>5. titler[t] \notin {NoTitler, Over} /\ thread[t] # NoThread
  BY <1>2, WorkerOf
<1>6. CASE ~written
  BY <1>1, <1>2, <1>4, <1>6, TitlerAlone
<1>7. CASE written
  <2>. DEFINE title == titler[t].title
  <2>1. /\ thread' = [u \in Threads |-> thread'[u]] /\ Row(thread'[t])
        /\ thread'[t].archived = thread[t].archived
        /\ \A u \in Threads : u # t => thread'[u] = thread[u]
    <3>1. thread' = Retitled(thread, t, title)
      BY <1>1, <1>7
    <3>. HIDE DEF title
    <3>. QED  BY <1>2, <1>5, <3>1, RetitledRow
  <2>2. /\ \A u \in Threads : thread'[u] # NoThread => Row(thread'[u])
        /\ \A u \in Threads : thread[u] # NoThread => thread'[u] # NoThread
    BY <1>2, <2>1, RowIsThread DEF Typed, ThreadExists
  <2>3. /\ conn' = [d \in Conns |-> conn'[d]] /\ \A d \in Conns : conn'[d].at = conn[d].at
        /\ hadTitles' = [u \in Threads |-> hadTitles'[u]]
    BY <1>1, <1>2, <1>7 DEF Typed, Carried
  <2>4. Typed'
    BY <1>2, <1>4, <1>5, <2>1, <2>2, <2>3, TitlerStep
  <2>5. Decisions'
    BY <1>2 DEF IInv, Decisions
  <2>6. \A d \in Conns : Keeps(d, thread, thread')
    BY <2>1, <2>2 DEF Keeps
  <2>7. \A d \in Conns : Facts(d, conn'[d], thread')
    BY <1>2, <2>6, RowsMove DEF IInv
  <2>. QED  BY <2>4, <2>5, <2>7 DEF IInv
<1>. QED  BY <1>6, <1>7

LEMMA TellKeeps ==
    ASSUME IInv, NEW t \in Threads, SendThreadTitled(t)
    PROVE  IInv'
<1>. DEFINE c == titler[t].conn
            r == conn[c]
            s == conn'[c]
            f == Titled(t, titler[t].title)
<1>1. /\ titler[t].at = "tell" /\ conn' = Queue(conn, c, <<f>>) /\ TitlerGoes(t, "done")
      /\ UNCHANGED <<core, thread, decide, hadTitles>>
  BY DEF SendThreadTitled
<1>2. ~IsAnswer(f)
  BY DEF IsAnswer, Titled
<1>3. Typed /\ titler[t] \notin {NoTitler, Over} /\ c \in Conns
  BY <1>1, WorkerOf DEF IInv
<1>4. TitlerOK(titler'[t]) /\ titler' = [titler EXCEPT ![t] = titler'[t]]
  BY <1>1, <1>3, TitlerGoesTo
<1>5. /\ conn = [x \in Conns |-> conn[x]] /\ Facts(c, r, thread) /\ ConnOK(c, r)
  BY <1>3 DEF IInv, Typed, Facts
<1>. HIDE DEF f
<1>6. OnlyConn(c) /\ (s = r \/ (r.at = "open" /\ Said1(r, s, f)))
  BY <1>1, <1>3, <1>5, QueueForm
<1>. HIDE DEF c, r, s
<1>7. Facts(c, s, thread)
  BY <1>2, <1>3, <1>5, <1>6, SaidKeeps
<1>8. Calm(r, s)
  <2>1. s = r => Calm(r, s)
    BY <1>5 DEF Calm, ConnOK
  <2>. QED  BY <1>2, <1>3, <1>5, <1>6, <1>7, <2>1, AllCalm DEF Facts
<1>9. Decisions'
  BY <1>1, <1>3, <1>6, <1>8, DecisionsStay DEF IInv, r, s
<1>10. Typed'
  <2>1. conn' = [d \in Conns |-> conn'[d]] /\ \A d \in Conns : conn'[d].at = conn[d].at
    BY <1>6 DEF OnlyConn, r, s, Said1, Stays
  <2>2. \A u \in Threads : thread'[u] # NoThread => Row(thread'[u])
    BY <1>1, <1>3 DEF Typed, ThreadExists
  <2>3. /\ thread' = [u \in Threads |-> thread'[u]]
        /\ hadTitles' = [u \in Threads |-> hadTitles'[u]]
    BY <1>1, <1>3 DEF Typed
  <2>. QED  BY <1>1, <1>3, <1>4, <2>1, <2>2, <2>3, TitlerStep
<1>11. \A x \in Conns : Facts(x, conn'[x], thread')
  BY <1>1, <1>3, <1>6, <1>7, FactsOfAll DEF IInv, Keeps, s
<1>. QED  BY <1>9, <1>10, <1>11 DEF IInv

LEMMA TitleKeeps ==
    ASSUME IInv, NEW t \in Threads, Title(t)
    PROVE  IInv'
<1>1. Typed
  BY DEF IInv
<1>2. CASE ResolveToken(t)
  <2>1. PICK at \in {"launch", "done"} : TitlerGoes(t, at)
    BY <1>2 DEF ResolveToken
  <2>2. titler[t].at = "token" /\ UNCHANGED <<core, conn, thread, decide, hadTitles>>
    BY <1>2 DEF ResolveToken
  <2>3. TitlerOK(titler'[t]) /\ titler' = [titler EXCEPT ![t] = titler'[t]]
    BY <1>1, <2>1, <2>2, TitlerGoesTo
  <2>. QED  BY <2>2, <2>3, TitlerAlone
<1>3. CASE Launch(t)
  <2>1. PICK at \in {"collect", "done"} : TitlerGoes(t, at)
    BY <1>3 DEF Launch
  <2>2. titler[t].at = "launch" /\ UNCHANGED <<core, conn, thread, decide, hadTitles>>
    BY <1>3 DEF Launch
  <2>3. TitlerOK(titler'[t]) /\ titler' = [titler EXCEPT ![t] = titler'[t]]
    BY <1>1, <2>1, <2>2, TitlerGoesTo
  <2>. QED  BY <2>2, <2>3, TitlerAlone
<1>4. CASE CollectFails(t)
  <2>1. /\ titler[t].at = "collect" /\ TitlerGoes(t, "done")
        /\ UNCHANGED <<core, conn, thread, decide, hadTitles>>
    BY <1>4 DEF CollectFails
  <2>3. TitlerOK(titler'[t]) /\ titler' = [titler EXCEPT ![t] = titler'[t]]
    BY <1>1, <2>1, TitlerGoesTo
  <2>. QED  BY <2>1, <2>3, TitlerAlone
<1>5. CASE CollectDelta(t)
  <2>1. titler[t].at = "collect" /\ UNCHANGED <<core, conn, thread, decide, hadTitles>>
    BY <1>5 DEF CollectDelta
  <2>. DEFINE r == titler[t]
  <2>2. /\ r = [at |-> r.at, conn |-> r.conn, text |-> r.text, frames |-> r.frames,
                title |-> r.title]
        /\ r.conn \in Conns /\ titler = [u \in Threads |-> titler[u]]
    BY <1>1, <2>1, WorkerOf
  <2>3. PICK delta \in Deltas :
            titler' = [titler EXCEPT ![t].text = @ \o delta, ![t].frames = @ + 1]
    BY <1>5 DEF CollectDelta
  <2>. DEFINE text == r.text \o delta
              frames == r.frames + 1
              w == [[r EXCEPT !.text = text] EXCEPT !.frames = frames]
  <2>4. titler' = [titler EXCEPT ![t] = w]
    <3>1. titler' = [[titler EXCEPT ![t].text = text] EXCEPT ![t].frames = frames]
      BY <2>2, <2>3
    <3>. HIDE DEF r, text, frames
    <3>. QED  BY <2>2, <3>1 DEF r
  <2>5. TitlerOK(w)
    <3>. HIDE DEF r, text, frames
    <3>1. w = [at |-> r.at, conn |-> r.conn, text |-> text, frames |-> frames,
               title |-> r.title]
      <4>1. [r EXCEPT !.text = text] =
                [at |-> r.at, conn |-> r.conn, text |-> text, frames |-> r.frames,
                 title |-> r.title]
        BY <2>2
      <4>2. [[at |-> r.at, conn |-> r.conn, text |-> text, frames |-> r.frames,
              title |-> r.title] EXCEPT !.frames = frames] =
                [at |-> r.at, conn |-> r.conn, text |-> text, frames |-> frames,
                 title |-> r.title]
        OBVIOUS
      <4>. QED  BY <4>1, <4>2
    <3>2. r.at = "collect"
      BY <2>1 DEF r
    <3>. QED  BY <2>2, <3>1, <3>2 DEF TitlerOK
  <2>. HIDE DEF w
  <2>6. titler'[t] = w
    BY <2>2, <2>4
  <2>. QED  BY <2>1, <2>4, <2>5, <2>6, TitlerAlone
<1>6. CASE CollectEnds(t)
  <2>1. titler[t].at = "collect" /\ UNCHANGED <<core, conn, thread, decide, hadTitles>>
    BY <1>6 DEF CollectEnds
  <2>. DEFINE r == titler[t]
              title == SanitizeTitle(titler[t].text)
              w == IF title = <<>> THEN Over
                   ELSE [[r EXCEPT !.at = "write"] EXCEPT !.title = title]
  <2>2. /\ r = [at |-> r.at, conn |-> r.conn, text |-> r.text, frames |-> r.frames,
                title |-> r.title]
        /\ r.conn \in Conns /\ titler = [u \in Threads |-> titler[u]]
    BY <1>1, <2>1, WorkerOf
  <2>3. titler' = [titler EXCEPT ![t] = w]
    <3>. HIDE DEF title
    <3>. QED  BY <1>6 DEF CollectEnds, title
  <2>4. TitlerOK(w)
    <3>. HIDE DEF r, title
    <3>. QED  BY <2>2 DEF TitlerOK, Over
  <2>. HIDE DEF w
  <2>5. titler'[t] = w
    BY <2>2, <2>3
  <2>. QED  BY <2>1, <2>3, <2>4, <2>5, TitlerAlone
<1>. QED  BY <1>2, <1>3, <1>4, <1>5, <1>6, UpdateKeeps, TellKeeps DEF Title


(***************************************************************************)
(* The process, and the invariant of the whole.                            *)
(***************************************************************************)
LEMMA EndsKeeps ==
    ASSUME IInv, Ends, core.at # "off"
    PROVE  IInv'
<1>1. /\ core' = [core EXCEPT !.at = "off", !.step = 0] /\ decide' = {}
      /\ conn' = [c \in Conns |-> IF conn[c].at = "open" THEN Fresh("closed") ELSE conn[c]]
      /\ titler' = [t \in Threads |-> IF titler[t] = NoTitler THEN NoTitler ELSE Over]
      /\ UNCHANGED <<thread, hadTitles>> /\ Typed
  BY DEF Ends, Closed, IInv
<1>2. core' \in [at : {"off", "booting", "serving"}, step : Nat,
                 boots : 0..MaxBoots, shutdown : BOOLEAN]
  BY <1>1 DEF Typed
<1>3. Fresh("closed").at = "closed"
  BY DEF Fresh
<1>4. \A c \in Conns : conn'[c].at # "open"
  BY <1>1, <1>3
<1>5. /\ titler' = [t \in Threads |-> titler'[t]]
      /\ \A t \in Threads : titler'[t] \in {NoTitler, Over} /\ TitlerOK(titler'[t])
      /\ \A t \in Threads : titler'[t] # NoTitler => thread'[t] # NoThread
  BY <1>1 DEF TitlerOK, Typed, ThreadExists
<1>6. conn' = [c \in Conns |-> conn'[c]]
  BY <1>1
<1>7. Typed'
  BY <1>1, <1>2, <1>4, <1>5, <1>6 DEF Typed, ThreadExists
<1>8. Decisions'
  BY <1>1 DEF Decisions
<1>9. \A c \in Conns : Facts(c, conn'[c], thread')
  BY <1>1, FreshFacts DEF IInv, Conducts
<1>. QED  BY <1>7, <1>8, <1>9 DEF IInv

LEMMA BootKeeps ==
    ASSUME IInv, Start \/ Boot \/ RequestShutdown
    PROVE  IInv'
<1>1. UNCHANGED <<conn, thread, titler, decide, hadTitles>> /\ Typed
  BY DEF Start, Boot, RequestShutdown, IInv
<1>2. /\ core' \in [at : {"off", "booting", "serving"}, step : Nat,
                    boots : 0..MaxBoots, shutdown : BOOLEAN]
      /\ core.at = "serving" => core'.at = "serving"
  <2>1. CASE Start
    <3>1. core.boots + 1 \in 0..MaxBoots
      BY <1>1, <2>1, BoundAssumption DEF Start, Typed
    <3>. QED  BY <2>1, <3>1 DEF Start
  <2>2. CASE Boot
    <3>1. core.at = "booting" /\ core.step \in Nat
      BY <1>1, <2>2 DEF Boot, Typed
    <3>2. \/ core' = [core EXCEPT !.at = "serving"]
          \/ core' = [core EXCEPT !.step = core.step + 1]
          \/ core' = [[core EXCEPT !.at = "off"] EXCEPT !.step = 0]
      BY <2>2 DEF Boot
    <3>3. core \in [at : {"off", "booting", "serving"}, step : Nat,
                    boots : 0..MaxBoots, shutdown : BOOLEAN]
      BY <1>1 DEF Typed
    <3>4. CASE core' = [core EXCEPT !.at = "serving"]
      BY <3>1, <3>3, <3>4
    <3>5. CASE core' = [core EXCEPT !.step = core.step + 1]
      <4>. DEFINE next == core.step + 1
      <4>1. next \in Nat
        BY <3>1
      <4>. HIDE DEF next
      <4>2. core' = [core EXCEPT !.step = next]
        BY <3>5 DEF next
      <4>. QED  BY <3>1, <3>3, <4>1, <4>2
    <3>6. CASE core' = [[core EXCEPT !.at = "off"] EXCEPT !.step = 0]
      BY <3>1, <3>3, <3>6
    <3>. QED  BY <3>2, <3>4, <3>5, <3>6
  <2>3. CASE RequestShutdown
    BY <1>1, <2>3 DEF RequestShutdown, Typed
  <2>. QED  BY <2>1, <2>2, <2>3
<1>3. Typed'
  BY <1>1, <1>2 DEF Typed, ThreadExists
<1>4. Decisions' /\ \A c \in Conns : Facts(c, conn'[c], thread')
  BY <1>1 DEF IInv, Decisions
<1>. QED  BY <1>3, <1>4 DEF IInv

LEMMA InitHolds == Init => IInv
<1>1. SUFFICES ASSUME Init PROVE IInv
  OBVIOUS
<1>2. /\ core = [at |-> "off", step |-> 0, boots |-> 0, shutdown |-> FALSE]
      /\ conn = [c \in Conns |-> Fresh("new")]
      /\ thread = [t \in Threads |-> NoThread]
      /\ titler = [t \in Threads |-> NoTitler] /\ decide = {}
      /\ hadTitles = [t \in Threads |-> {}]
  BY <1>1 DEF Init
<1>3. Fresh("new").at = "new"
  BY DEF Fresh
<1>4. core \in [at : {"off", "booting", "serving"}, step : Nat,
                boots : 0..MaxBoots, shutdown : BOOLEAN]
  BY <1>2, BoundAssumption
<1>5. Typed
  BY <1>2, <1>3, <1>4 DEF Typed, ThreadExists, TitlerOK
<1>6. Decisions
  BY <1>2 DEF Decisions
<1>7. \A c \in Conns : Facts(c, conn[c], thread)
  BY <1>2, FreshFacts DEF Conducts
<1>. QED  BY <1>5, <1>6, <1>7 DEF IInv

LEMMA Invariance == IInv /\ [Next]_vars => IInv'
<1>1. SUFFICES ASSUME IInv, [Next]_vars PROVE IInv'
  OBVIOUS
<1>2. CASE Start \/ Boot \/ RequestShutdown
  BY <1>1, <1>2, BootKeeps
<1>3. CASE Exit \/ Crash
  BY <1>1, <1>3, EndsKeeps DEF Exit, Crash
<1>4. ASSUME NEW c \in Conns,
             \/ Handshake(c) \/ Send(c) \/ CloseOnShutdown(c)
             \/ ReceiveEnd(c) \/ Receive(c) \/ Deliver(c) \/ Handle(c)
      PROVE  IInv'
  BY <1>1, <1>4, HandshakeKeeps, SendKeeps, EndKeeps, ReceiveKeeps, DeliverKeeps,
     HandleKeeps
<1>5. ASSUME NEW d \in decide, Decide(d) PROVE IInv'
  BY <1>1, <1>5, BesideKeeps
<1>6. ASSUME NEW t \in Threads, Title(t) PROVE IInv'
  BY <1>1, <1>6, TitleKeeps
<1>7. CASE UNCHANGED vars
  <2>1. UNCHANGED <<core, conn, thread, titler, decide, hadTitles>>
    BY <1>7 DEF vars
  <2>2. Typed'
    BY <1>1, <2>1 DEF IInv, Typed, ThreadExists
  <2>3. Decisions' /\ \A c \in Conns : Facts(c, conn'[c], thread')
    BY <1>1, <2>1 DEF IInv, Decisions
  <2>. QED  BY <2>2, <2>3 DEF IInv
<1>. QED  BY <1>1, <1>2, <1>3, <1>4, <1>5, <1>6, <1>7 DEF Next

LEMMA AlwaysIInv == Spec => []IInv
BY InitHolds, Invariance, PTL DEF Spec

(***************************************************************************)
(* Answers.                                                                *)
(***************************************************************************)
LEMMA TypesFollow ==
    ASSUME IInv
    PROVE  TypeOK
<1>1. Typed
  BY DEF IInv
<1>2. core.at \in {"off", "booting", "serving"} /\ core.boots \in 0..MaxBoots
  BY <1>1 DEF Typed
<1>3. ASSUME NEW c \in Conns
      PROVE  /\ conn[c].at \in {"new", "open", "refused", "closed"}
             /\ conn[c].busy \in 0..conn[c].read
             /\ conn[c].read <= Len(conn[c].sent)
             /\ conn[c].delivered <= Len(conn[c].out)
             /\ conn[c].at = "open" => core.at = "serving"
             /\ conn[c].made \in Threads => ThreadExists(conn[c].made)
  <2>1. ConnOK(c, conn[c]) /\ InHand(conn[c], thread)
    BY DEF IInv, Facts
  <2>. QED  BY <1>1, <2>1 DEF ConnOK, Conducts, Idle, InHand, Typed, ThreadExists
<1>4. \A t \in Threads : titler[t] # NoTitler => ThreadExists(t)
  BY <1>1 DEF Typed
<1>5. core.at # "serving" => /\ decide = {}
                             /\ \A t \in Threads : titler[t].at \in {"none", "done"}
  BY <1>1 DEF Typed, NoTitler, Over
<1>. QED  BY <1>2, <1>3, <1>4, <1>5 DEF TypeOK

LEMMA OrderFollows ==
    ASSUME IInv
    PROVE  AnsweredOnceInOrder
<1>1. \A c \in Conns : InOrder(conn[c])
  BY DEF IInv, Facts
<1>. QED  BY <1>1 DEF AnsweredOnceInOrder, InOrder, Detached, Beside

\* The last of some requests is one only.
LEMMA LastIsOne ==
    ASSUME NEW s, NEW t, NEW n, NEW i, IsLast(s, t, n, i)
    PROVE  (CHOOSE k \in Changes(s, t, n) : \A j \in Changes(s, t, n) : j <= k) = i
<1>. DEFINE k == CHOOSE k \in Changes(s, t, n) : \A j \in Changes(s, t, n) : j <= k
<1>1. k \in Changes(s, t, n) /\ \A j \in Changes(s, t, n) : j <= k
  BY DEF IsLast
<1>2. Changes(s, t, n) \subseteq Int
  BY DEF Changes
<1>. HIDE DEF k
<1>3. i <= k /\ k <= i /\ i \in Int /\ k \in Int
  BY <1>1, <1>2 DEF IsLast
<1>. QED  BY <1>3 DEF k

LEMMA ChangesFollow ==
    ASSUME IInv
    PROVE  ReadsItsOwnChanges
<1>1. SUFFICES ASSUME NEW c \in Conns, NEW t \in Threads, NEW k \in DOMAIN conn[c].out
               PROVE
    LET answer == conn[c].out[k]
        sent == conn[c].sent
        changes == {i \in 1..(answer.id - 1) :
            /\ Files(sent[i], t)
            /\ \E j \in DOMAIN conn[c].out :
                   LET a == conn[c].out[j]
                   IN  IsAnswer(a) /\ a.id = i /\ a.code = 0}
        last == CHOOSE i \in changes : \A j \in changes : j <= i
    IN  /\ IsAnswer(answer) /\ answer.code = 0
        /\ sent[answer.id].method \in {"thread/list", "thread/list_archived"}
        /\ changes # {}
        /\ \A d \in Conns \ {c} : \A r \in UNION ToSet(Scripts[d]) : ~Files(r, t)
        => (t \in answer.listed)
           = ((sent[last].method = "thread/archive")
              = (sent[answer.id].method = "thread/list_archived"))
  BY Zenon DEF ReadsItsOwnChanges
<1>. DEFINE answer == conn[c].out[k]
            changes == Changes(conn[c], t, answer.id - 1)
            last == CHOOSE i \in changes : \A j \in changes : j <= i
<1>2. changes = {i \in 1..(answer.id - 1) :
            /\ Files(conn[c].sent[i], t)
            /\ \E j \in DOMAIN conn[c].out :
                   LET a == conn[c].out[j]
                   IN  IsAnswer(a) /\ a.id = i /\ a.code = 0}
  BY DEF Changes, Acknowledged
<1>. HIDE DEF changes
<1>3. SUFFICES ASSUME IsAnswer(answer), answer.code = 0,
                      conn[c].sent[answer.id].method \in Listing, changes # {}, Sole(c, t)
               PROVE  (t \in answer.listed)
                      = ((conn[c].sent[last].method = "thread/archive")
                         = (conn[c].sent[answer.id].method = "thread/list_archived"))
  BY <1>2, Zenon DEF Sole, Listing
<1>4. Listed(conn[c], t)
  BY <1>3 DEF IInv, Facts, Filed
<1>5. PICK i \in 1..(answer.id - 1) :
          /\ IsLast(conn[c], t, answer.id - 1, i)
          /\ (t \in answer.listed) =
                 ((conn[c].sent[i].method = "thread/archive")
                  = (conn[c].sent[answer.id].method = "thread/list_archived"))
  BY <1>3, <1>4 DEF Listed, changes
<1>6. last = i
  BY <1>5, LastIsOne DEF changes
<1>. QED  BY <1>5, <1>6

(***************************************************************************)
(* A request is answered once, and those a connection waits for are        *)
(* answered in the order they were sent; a list shows what its Client was  *)
(* told it had made of a Thread no other Client files away; and what serves*)
(* no Client when Core is down holds nothing (main.rs, runs/mod.rs,        *)
(* runs/reply.rs, runs/thread_*.rs).                                       *)
(***************************************************************************)
THEOREM AnswersAlwaysTrue == Spec => []AnswersAreTrue
<1>1. IInv => AnswersAreTrue
  BY TypesFollow, OrderFollows, ChangesFollow DEF AnswersAreTrue
<1>. QED  BY <1>1, AlwaysIInv, PTL


(***************************************************************************)
(* Titles.                                                                 *)
(***************************************************************************)
IsTitled(frame) == frame.kind = "thread/titled"
\* Nobody is told of a title in this step.
NoneTold ==
    \A c \in Conns : \A k \in DOMAIN conn'[c].out :
        IsTitled(conn'[c].out[k]) =>
            k \in DOMAIN conn[c].out /\ conn'[c].out[k] = conn[c].out[k]
\* What a row has been called, it has been called.
Remembers == \A t \in Threads : hadTitles[t] \subseteq hadTitles'[t]

LEMMA QuietFrames ==
    /\ ~IsTitled(ProposalChanged)
    /\ \A id, code, listed : ~IsTitled(Answer(id, code, listed))
    /\ \A id, failure : ~IsTitled(ErrorAnswer(id, failure))
    /\ \A id : ~IsTitled(DecideResult(id))
BY DEF IsTitled, ProposalChanged, Answer, ErrorAnswer, DecideResult

LEMMA TitledOf ==
    ASSUME NEW o, NEW n, NEW f, Grown(o, n, f), NEW k \in DOMAIN n, IsTitled(n[k])
    PROVE  \/ k \in DOMAIN o /\ n[k] = o[k]
           \/ k = Len(o) + 1 /\ n[k] = f
<1>1. ~IsTitled(ProposalChanged)
  BY QuietFrames
<1>2. k \in DOMAIN o \/ k = Len(o) + 1 \/ k > Len(o) + 1
  BY DEF Grown
<1>. QED  BY <1>1, <1>2 DEF Grown

LEMMA QuietStep ==
    ASSUME NEW c \in Conns, OnlyConn(c),
           \/ conn'[c].out = conn[c].out \/ conn'[c].out = <<>>
           \/ \E f : ~IsTitled(f) /\ Grown(conn[c].out, conn'[c].out, f)
    PROVE  NoneTold
<1>1. ASSUME NEW k \in DOMAIN conn'[c].out, IsTitled(conn'[c].out[k])
      PROVE  k \in DOMAIN conn[c].out /\ conn'[c].out[k] = conn[c].out[k]
  BY <1>1, TitledOf
<1>2. \A d \in Conns \ {c} : conn'[d] = conn[d]
  BY DEF OnlyConn
<1>. QED  BY <1>1, <1>2 DEF NoneTold

\* How a handler's step is made.
LEMMA HandleForm ==
    ASSUME IInv, NEW c \in Conns, Handle(c)
    PROVE  /\ OnlyConn(c)
           /\ \/ conn'[c].out = conn[c].out
              \/ \E f : ~IsTitled(f) /\ Grown(conn[c].out, conn'[c].out, f)
<1>1. ASSUME NEW failure, Busy(c), Fail(c, failure)
      PROVE  OnlyConn(c) /\ \E f : ~IsTitled(f) /\ Grown(conn[c].out, conn'[c].out, f)
  <2>1. OnlyConn(c) /\ Ended(conn[c], conn'[c], Answer(conn[c].busy, Code(failure), {}))
    BY <1>1, InHandler, FailForm
  <2>. QED  BY <2>1, QuietFrames DEF Ended
<1>2. ASSUME NEW step \in {"check", "insert", "title", "write", "read"}, At(c, step)
      PROVE  Busy(c) /\ conn[c].step < Len(Steps(Request(c).method))
  <2>1. /\ Busy(c) /\ conn[c].step \in 1..Len(Steps(Request(c).method))
        /\ Steps(Request(c).method)[conn[c].step] = step
        /\ Len(Steps(Request(c).method)) \in 1..4
    BY <1>2, AtStep
  <2>. DEFINE m == Request(c).method
              n == conn[c].step
  <2>. HIDE DEF m, n
  <2>2. n \in 1..Len(Steps(m)) /\ Steps(m)[n] = step
    BY <2>1 DEF m, n
  <2>3. CASE step \in {"check", "insert"}
    <3>1. n \in {1, 2} /\ Len(Steps(m)) > 2 /\ Len(Steps(m)) \in 1..4
      BY <2>2, <2>3, StepTells
    <3>2. n < Len(Steps(m))
      BY <3>1
    <3>. QED  BY <2>1, <3>2 DEF m, n
  <2>4. CASE step = "title"
    <3>1. n = 3 /\ Len(Steps(m)) = 4
      BY <2>2, <2>4, StepTells
    <3>2. n < Len(Steps(m))
      BY <3>1
    <3>. QED  BY <2>1, <3>2 DEF m, n
  <2>5. CASE step = "write"
    <3>1. n = 2 /\ Len(Steps(m)) = 3
      BY <2>2, <2>5, StepTells
    <3>2. n < Len(Steps(m))
      BY <3>1
    <3>. QED  BY <2>1, <3>2 DEF m, n
  <2>6. CASE step = "read"
    <3>1. n = 1 /\ Len(Steps(m)) = 2
      BY <2>2, <2>6, StepTells
    <3>2. n < Len(Steps(m))
      BY <3>1
    <3>. QED  BY <2>1, <3>2 DEF m, n
  <2>. QED  BY <1>2, <2>3, <2>4, <2>5, <2>6
<1>3. ASSUME NEW rows, NEW made, Busy(c),
             conn[c].step < Len(Steps(Request(c).method)),
             \/ conn' = Forward(conn, c) /\ rows = conn[c].rows /\ made = conn[c].made
             \/ conn' = [Forward(conn, c) EXCEPT ![c].rows = rows] /\ made = conn[c].made
             \/ conn' = [Forward(conn, c) EXCEPT ![c].made = made] /\ rows = conn[c].rows
      PROVE  OnlyConn(c) /\ conn'[c].out = conn[c].out
  <2>1. conn = [d \in Conns |-> conn[d]] /\ ConnOK(c, conn[c])
    BY <1>3, InHandler
  <2>2. OnlyConn(c) /\ WentOn(conn[c], conn'[c])
    BY <1>3, <2>1, ForwardForm
  <2>. QED  BY <2>2 DEF WentOn
<1>4. CASE Dispatch(c) \/ DecodeParams(c) \/ StatementFails(c)
  <2>1. Busy(c) /\ \E failure : Fail(c, failure)
    BY <1>4 DEF Dispatch, DecodeParams, StatementFails, Decoded, At
  <2>. QED  BY <1>1, <2>1
<1>5. CASE Check(c)
  <2>1. At(c, "check") /\ (conn' = Forward(conn, c) \/ \E failure : Fail(c, failure))
    BY <1>5 DEF Check, Decoded
  <2>2. Busy(c) /\ conn[c].step < Len(Steps(Request(c).method))
    BY <1>2, <2>1
  <2>. QED  BY <1>1, <1>3, <2>1, <2>2
<1>6. CASE InsertThread(c)
  <2>1. At(c, "insert")
    BY <1>6 DEF InsertThread, Decoded
  <2>2. Busy(c) /\ conn[c].step < Len(Steps(Request(c).method))
    BY <1>2, <2>1
  <2>3. (\E failure : Fail(c, failure)) \/ \E t : conn' = [Forward(conn, c) EXCEPT ![c].made = t]
    BY <1>6 DEF InsertThread
  <2>4. ASSUME NEW t, conn' = [Forward(conn, c) EXCEPT ![c].made = t]
        PROVE  OnlyConn(c) /\ conn'[c].out = conn[c].out
    <3>. DEFINE rows == conn[c].rows
    <3>. HIDE DEF rows
    <3>1. rows = conn[c].rows
      BY DEF rows
    <3>. QED  BY <1>3, <2>2, <2>4, <3>1
  <2>. QED  BY <1>1, <2>2, <2>3, <2>4
<1>7. CASE SpawnTitleGeneration(c) \/ Rename(c) \/ Archive(c)
  <2>1. (At(c, "title") \/ At(c, "write")) /\ conn' = Forward(conn, c)
    BY <1>7 DEF SpawnTitleGeneration, Rename, Archive, Decoded
  <2>2. Busy(c) /\ conn[c].step < Len(Steps(Request(c).method))
    BY <1>2, <2>1
  <2>. QED  BY <1>3, <2>1, <2>2
<1>8. CASE ReadThreads(c) \/ ReadArchivedThreads(c)
  <2>1. At(c, "read") /\ \E rows : conn' = [Forward(conn, c) EXCEPT ![c].rows = rows]
    BY <1>8 DEF ReadThreads, ReadArchivedThreads, Holds, Decoded
  <2>2. Busy(c) /\ conn[c].step < Len(Steps(Request(c).method))
    BY <1>2, <2>1
  <2>. QED  BY <1>3, <2>1, <2>2
<1>9. CASE SendResponse(c)
  <2>1. At(c, "answer")
    BY <1>9 DEF SendResponse, Decoded
  <2>2. Busy(c) /\ conn[c].step = Len(Steps(Request(c).method))
    BY <2>1, AtStep, StepTells
  <2>3. conn = [d \in Conns |-> conn[d]] /\ ConnOK(c, conn[c])
    BY <2>2, InHandler
  <2>4. /\ OnlyConn(c)
        /\ Ended(conn[c], conn'[c], Answer(conn[c].busy, Code("ok"), conn[c].rows))
    BY <1>9, <2>2, <2>3, ResponseForm
  <2>. QED  BY <2>4, QuietFrames DEF Ended
<1>10. CASE HandleDecide(c)
  <2>1. At(c, "family")
    BY <1>10 DEF HandleDecide, Decoded
  <2>2. Busy(c) /\ conn[c].step = 1
    BY <2>1, AtStep, StepTells
  <2>3. conn = [d \in Conns |-> conn[d]] /\ ConnOK(c, conn[c])
    BY <2>2, InHandler
  <2>4. /\ OnlyConn(c)
        /\ \/ Left(conn[c], conn'[c])
           \/ \E code : Ended(conn[c], conn'[c], Answer(conn[c].busy, code, {}))
    BY <1>10, <2>2, <2>3, DecideForm
  <2>. QED  BY <2>4, QuietFrames DEF Ended, Left
<1>. QED  BY <1>4, <1>5, <1>6, <1>7, <1>8, <1>9, <1>10 DEF Handle


\* What is told has been stored, as has what is about to be told.
Stored ==
    \A c \in Conns : \A k \in DOMAIN conn[c].out : IsTitled(conn[c].out[k]) =>
        /\ conn[c].out[k].thread \in Threads
        /\ conn[c].out[k].title \in hadTitles[conn[c].out[k].thread]

LEMMA StoredStays ==
    ASSUME Stored, NoneTold, Remembers
    PROVE  Stored'
<1>1. ASSUME NEW c \in Conns, NEW k \in DOMAIN conn'[c].out, IsTitled(conn'[c].out[k])
      PROVE  /\ conn'[c].out[k].thread \in Threads
             /\ conn'[c].out[k].title \in hadTitles'[conn'[c].out[k].thread]
  <2>1. k \in DOMAIN conn[c].out /\ conn'[c].out[k] = conn[c].out[k]
    BY <1>1 DEF NoneTold
  <2>. QED  BY <1>1, <2>1 DEF Stored, Remembers
<1>. QED  BY <1>1 DEF Stored

LEMMA ToldStays ==
    ASSUME Told, Remembers, titler' = titler
    PROVE  Told'
BY DEF Told, Remembers

LEMMA CarriedGrows ==
    ASSUME Typed, NEW t \in Threads, NEW title, Carried(t, title)
    PROVE  Remembers /\ title \in hadTitles'[t]
BY DEF Typed, Carried, Remembers

LEMMA HandleTells ==
    ASSUME IInv, Told, Stored, NEW c \in Conns, Handle(c)
    PROVE  Told' /\ Stored'
<1>0. Typed
  BY DEF IInv
<1>1. NoneTold
  BY HandleForm, QuietStep
<1>2. CASE hadTitles' = hadTitles /\ titler' = titler
  <2>1. Remembers
    BY <1>2 DEF Remembers
  <2>. QED  BY <1>1, <1>2, <2>1, StoredStays, ToldStays
<1>3. CASE InsertThread(c)
  <2>1. titler' = titler
    BY <1>3 DEF InsertThread
  <2>2. hadTitles' = hadTitles \/ \E t \in Threads : \E title : Carried(t, title)
    BY <1>3 DEF InsertThread
  <2>3. Remembers
    BY <1>0, <2>2, CarriedGrows DEF Remembers
  <2>. QED  BY <1>1, <2>1, <2>3, StoredStays, ToldStays
<1>4. CASE Rename(c)
  <2>1. titler' = titler /\ Decoded(c, "write")
    BY <1>4 DEF Rename
  <2>2. Request(c).thread \in Threads
    BY <2>1, AtWrite
  <2>3. \E title : Carried(Request(c).thread, title)
    BY <1>4 DEF Rename
  <2>4. Remembers
    BY <1>0, <2>2, <2>3, CarriedGrows
  <2>. QED  BY <1>1, <2>1, <2>4, StoredStays, ToldStays
<1>5. CASE SpawnTitleGeneration(c)
  <2>1. hadTitles' = hadTitles
    BY <1>5 DEF SpawnTitleGeneration
  <2>2. \A t \in Threads : titler'[t].at = "tell" => titler'[t] = titler[t]
    BY <1>0, <1>5 DEF SpawnTitleGeneration, Typed
  <2>3. Told'
    BY <2>1, <2>2 DEF Told
  <2>4. Remembers
    BY <2>1 DEF Remembers
  <2>. QED  BY <1>1, <2>3, <2>4, StoredStays
<1>6. CASE Dispatch(c) \/ DecodeParams(c) \/ StatementFails(c) \/ Check(c) \/ Archive(c)
           \/ ReadThreads(c) \/ ReadArchivedThreads(c) \/ SendResponse(c) \/ HandleDecide(c)
  BY <1>2, <1>6 DEF Dispatch, DecodeParams, StatementFails, Check, Archive, ReadThreads,
     ReadArchivedThreads, Holds, SendResponse, HandleDecide
<1>. QED  BY <1>3, <1>4, <1>5, <1>6 DEF Handle

LEMMA ConnTells ==
    ASSUME IInv, Told, Stored, NEW c \in Conns,
           \/ Handshake(c) \/ Send(c) \/ CloseOnShutdown(c)
           \/ ReceiveEnd(c) \/ Receive(c) \/ Deliver(c)
    PROVE  Told' /\ Stored'
<1>1. conn = [d \in Conns |-> conn[d]] /\ Shape(conn[c])
  BY DEF IInv, Typed, Facts, ConnOK
<1>2. OnlyConn(c) /\ (conn'[c].out = conn[c].out \/ conn'[c].out = <<>>)
  <2>. DEFINE r == conn[c]
  <2>1. CASE Handshake(c)
    <3>1. PICK at : conn' = [conn EXCEPT ![c].at = at]
      BY <2>1 DEF Handshake
    <3>2. OnlyConn(c) /\ conn'[c] = [r EXCEPT !.at = at]
      <4>. HIDE DEF r
      <4>. QED  BY <1>1, <3>1 DEF OnlyConn, r
    <3>. HIDE DEF r
    <3>. QED  BY <1>1, <3>2 DEF Shape, r
  <2>2. CASE Send(c)
    <3>1. PICK request : conn' = [conn EXCEPT ![c].sent = Append(@, request)]
      BY <2>2 DEF Send
    <3>. DEFINE sent == Append(r.sent, request)
    <3>2. OnlyConn(c) /\ conn'[c] = [r EXCEPT !.sent = sent]
      <4>1. conn' = [conn EXCEPT ![c] = [r EXCEPT !.sent = sent]]
        BY <3>1
      <4>. HIDE DEF r, sent
      <4>. QED  BY <1>1, <4>1 DEF OnlyConn, r
    <3>. HIDE DEF r, sent
    <3>. QED  BY <1>1, <3>2 DEF Shape, r
  <2>3. CASE CloseOnShutdown(c) \/ ReceiveEnd(c)
    BY <1>1, <2>3 DEF CloseOnShutdown, ReceiveEnd, OnlyConn, Fresh
  <2>4. CASE Receive(c)
    <3>. DEFINE id == r.read + 1
    <3>1. PICK busy \in {Idle, id} : conn' = [conn EXCEPT ![c].read = id, ![c].busy = busy]
      BY <2>4 DEF Receive
    <3>2. OnlyConn(c) /\ conn'[c] = [[r EXCEPT !.read = id] EXCEPT !.busy = busy]
      <4>. HIDE DEF r, id
      <4>. QED  BY <1>1, <3>1 DEF OnlyConn, r
    <3>. HIDE DEF r, id
    <3>. QED  BY <1>1, <3>2 DEF Shape, r
  <2>5. CASE Deliver(c)
    <3>. DEFINE n == r.delivered + 1
    <3>1. conn' = [conn EXCEPT ![c].delivered = n]
      BY <2>5 DEF Deliver
    <3>2. OnlyConn(c) /\ conn'[c] = [r EXCEPT !.delivered = n]
      <4>. HIDE DEF r, n
      <4>. QED  BY <1>1, <3>1 DEF OnlyConn, r
    <3>. HIDE DEF r, n
    <3>. QED  BY <1>1, <3>2 DEF Shape, r
  <2>. QED  BY <2>1, <2>2, <2>3, <2>4, <2>5
<1>3. NoneTold
  BY <1>2, QuietStep
<1>4. hadTitles' = hadTitles /\ titler' = titler
  BY DEF Handshake, Send, CloseOnShutdown, ReceiveEnd, Receive, Deliver
<1>5. Remembers
  BY <1>4 DEF Remembers
<1>. QED  BY <1>3, <1>4, <1>5, StoredStays, ToldStays

LEMMA DecideTells ==
    ASSUME IInv, Told, Stored, NEW d \in decide, Decide(d)
    PROVE  Told' /\ Stored'
<1>1. hadTitles' = hadTitles /\ titler' = titler
  BY DEF Decide, NotifyExecuting, HandleDecideTickTickWrite, NotifyDecided, DecideTaskDies
<1>2. conn' = conn \/ \E f : ~IsTitled(f) /\ conn' = Queue(conn, d.conn, <<f>>)
  BY QuietFrames DEF Decide, NotifyExecuting, HandleDecideTickTickWrite, NotifyDecided,
     DecideTaskDies
<1>3. /\ d.conn \in Conns /\ conn = [c \in Conns |-> conn[c]]
      /\ ConnOK(d.conn, conn[d.conn])
  BY DEF IInv, Typed, Facts
<1>4. NoneTold
  <2>1. CASE conn' = conn
    BY <2>1 DEF NoneTold
  <2>2. ASSUME NEW f, ~IsTitled(f), conn' = Queue(conn, d.conn, <<f>>) PROVE NoneTold
    <3>1. /\ OnlyConn(d.conn)
          /\ \/ Said1(conn[d.conn], conn'[d.conn], f)
             \/ conn'[d.conn] = conn[d.conn]
      BY <1>3, <2>2, QueueForm
    <3>. QED  BY <1>3, <2>2, <3>1, QuietStep DEF Said1
  <2>. QED  BY <1>2, <2>1, <2>2
<1>5. Remembers
  BY <1>1 DEF Remembers
<1>. QED  BY <1>1, <1>4, <1>5, StoredStays, ToldStays


LEMMA TitleTells ==
    ASSUME IInv, Told, Stored, NEW t \in Threads, Title(t)
    PROVE  Told' /\ Stored'
<1>0. Typed
  BY DEF IInv
<1>1. CASE ResolveToken(t) \/ Launch(t) \/ CollectDelta(t) \/ CollectEnds(t) \/ CollectFails(t)
  <2>1. conn' = conn /\ hadTitles' = hadTitles
    BY <1>1 DEF ResolveToken, Launch, CollectDelta, CollectEnds, CollectFails
  <2>2. NoneTold /\ Remembers
    BY <2>1 DEF NoneTold, Remembers
  <2>3. \A u \in Threads : titler'[u].at = "tell" => titler'[u] = titler[u]
    <3>1. titler = [u \in Threads |-> titler[u]]
      BY <1>0 DEF Typed
    <3>2. titler[t].at \in {"token", "launch", "collect", "write", "tell"}
      BY <1>1 DEF ResolveToken, Launch, CollectDelta, CollectEnds, CollectFails
    <3>3. titler[t] = [at |-> titler[t].at, conn |-> titler[t].conn,
                       text |-> titler[t].text, frames |-> titler[t].frames,
                       title |-> titler[t].title]
      BY <1>0, <3>2, WorkerOf
    <3>4. CASE \E at \in {"launch", "collect", "done"} : TitlerGoes(t, at)
      <4>1. PICK at \in {"launch", "collect", "done"} : TitlerGoes(t, at)
        BY <3>4
      <4>2. titler' = [titler EXCEPT ![t] = titler'[t]] /\ titler'[t].at = at
        BY <1>0, <3>2, <4>1, TitlerGoesTo
      <4>. QED  BY <3>1, <4>2
    <3>5. CASE CollectDelta(t)
      <4>1. PICK delta \in Deltas :
                titler' = [titler EXCEPT ![t].text = @ \o delta, ![t].frames = @ + 1]
        BY <3>5 DEF CollectDelta
      <4>. DEFINE text == titler[t].text \o delta
                  frames == titler[t].frames + 1
                  r == titler[t]
                  w == [[r EXCEPT !.text = text] EXCEPT !.frames = frames]
      <4>2. titler' = [titler EXCEPT ![t] = w]
        <5>1. titler' = [[titler EXCEPT ![t].text = text] EXCEPT ![t].frames = frames]
          BY <3>1, <4>1
        <5>. HIDE DEF r, text, frames
        <5>. QED  BY <3>1, <5>1 DEF r
      <4>3. w.at = "collect"
        <5>1. r.at = "collect"
          BY <3>5 DEF CollectDelta
        <5>. HIDE DEF r, text, frames
        <5>2. "at" \in DOMAIN r
          BY <3>3 DEF r
        <5>. QED  BY <5>1, <5>2
      <4>. HIDE DEF w
      <4>. QED  BY <3>1, <4>2, <4>3
    <3>6. CASE CollectEnds(t)
      <4>. DEFINE title == SanitizeTitle(titler[t].text)
                  r == titler[t]
                  w == IF title = <<>> THEN Over
                       ELSE [[r EXCEPT !.at = "write"] EXCEPT !.title = title]
      <4>1. titler' = [titler EXCEPT ![t] = w]
        <5>. HIDE DEF title
        <5>. QED  BY <3>6 DEF CollectEnds, title
      <4>2. w.at # "tell"
        <5>. HIDE DEF r, title
        <5>1. "at" \in DOMAIN r
          BY <3>3 DEF r
        <5>. QED  BY <5>1 DEF Over
      <4>. HIDE DEF w
      <4>. QED  BY <3>1, <4>1, <4>2
    <3>. QED  BY <1>1, <3>4, <3>5, <3>6 DEF ResolveToken, Launch, CollectFails
  <2>4. Told'
    BY <2>1, <2>3 DEF Told
  <2>. QED  BY <2>2, <2>4, StoredStays
<1>2. CASE UpdateThreadTitle(t)
  <2>1. PICK written \in BOOLEAN :
            /\ TitlerGoes(t, AfterUpdate(written))
            /\ IF written
               THEN /\ thread' = Retitled(thread, t, titler[t].title)
                    /\ Carried(t, titler[t].title)
               ELSE UNCHANGED <<thread, hadTitles>>
    BY <1>2 DEF UpdateThreadTitle
  <2>2. titler[t].at = "write" /\ conn' = conn
    BY <1>2 DEF UpdateThreadTitle
  <2>3. AfterUpdate(written) = IF written THEN "tell" ELSE "done"
    BY DEF AfterUpdate
  <2>4. /\ titler' = [titler EXCEPT ![t] = titler'[t]]
        /\ written => titler'[t].title = titler[t].title
        /\ ~written => titler'[t].at = "done"
    BY <1>0, <2>1, <2>2, <2>3, TitlerGoesTo
  <2>5. Remembers /\ (written => titler[t].title \in hadTitles'[t])
    BY <1>0, <2>1, CarriedGrows DEF Remembers
  <2>6. \A u \in Threads : u # t => titler'[u] = titler[u]
    BY <1>0, <2>4 DEF Typed
  <2>7. Told'
    BY <2>4, <2>5, <2>6 DEF Told, Remembers
  <2>8. NoneTold
    BY <2>2 DEF NoneTold
  <2>. QED  BY <2>5, <2>7, <2>8, StoredStays
<1>3. CASE SendThreadTitled(t)
  <2>. DEFINE c == titler[t].conn
              f == Titled(t, titler[t].title)
  <2>1. /\ titler[t].at = "tell" /\ conn' = Queue(conn, c, <<f>>) /\ TitlerGoes(t, "done")
        /\ hadTitles' = hadTitles
    BY <1>3 DEF SendThreadTitled
  <2>2. f.thread \in Threads /\ f.title \in hadTitles[f.thread]
    BY <2>1 DEF Titled, Told
  <2>3. /\ c \in Conns /\ conn = [d \in Conns |-> conn[d]] /\ ConnOK(c, conn[c])
    BY <1>0, <2>1, WorkerOf DEF IInv, Typed, Facts
  <2>4. titler' = [titler EXCEPT ![t] = titler'[t]] /\ titler'[t].at = "done"
    BY <1>0, <2>1, TitlerGoesTo
  <2>5. Told'
    BY <1>0, <2>1, <2>4 DEF Told, Typed
  <2>. HIDE DEF f, c
  <2>6. OnlyConn(c) /\ (Said1(conn[c], conn'[c], f) \/ conn'[c] = conn[c])
    BY <2>1, <2>3, QueueForm
  <2>7. ASSUME NEW d \in Conns, NEW k \in DOMAIN conn'[d].out, IsTitled(conn'[d].out[k])
        PROVE  \/ k \in DOMAIN conn[d].out /\ conn'[d].out[k] = conn[d].out[k]
               \/ conn'[d].out[k] = f
    <3>1. CASE conn'[d] = conn[d]
      BY <2>7, <3>1
    <3>2. CASE d = c /\ Said1(conn[c], conn'[c], f)
      <4>1. Grown(conn[d].out, conn'[d].out, f)
        BY <3>2 DEF Said1
      <4>. QED  BY <2>7, <4>1, TitledOf
    <3>. QED  BY <2>6, <3>1, <3>2 DEF OnlyConn
  <2>8. Stored'
    <3>1. ASSUME NEW d \in Conns, NEW k \in DOMAIN conn'[d].out, IsTitled(conn'[d].out[k])
          PROVE  /\ conn'[d].out[k].thread \in Threads
                 /\ conn'[d].out[k].title \in hadTitles'[conn'[d].out[k].thread]
      BY <2>1, <2>2, <2>7, <3>1 DEF Stored
    <3>. QED  BY <3>1 DEF Stored
  <2>. QED  BY <2>5, <2>8
<1>. QED  BY <1>1, <1>2, <1>3 DEF Title

LEMMA StoredInvariance == IInv /\ Told /\ Stored /\ [Next]_vars => Told' /\ Stored'
<1>1. SUFFICES ASSUME IInv, Told, Stored, [Next]_vars PROVE Told' /\ Stored'
  OBVIOUS
<1>2. CASE Start \/ Boot \/ RequestShutdown \/ UNCHANGED vars
  <2>1. UNCHANGED <<conn, titler, hadTitles>>
    BY <1>2 DEF Start, Boot, RequestShutdown, vars
  <2>2. NoneTold /\ Remembers
    BY <2>1 DEF NoneTold, Remembers
  <2>. QED  BY <1>1, <2>1, <2>2, StoredStays, ToldStays
<1>3. CASE Exit \/ Crash
  <2>1. /\ conn' = [c \in Conns |-> IF conn[c].at = "open" THEN Fresh("closed") ELSE conn[c]]
        /\ titler' = [t \in Threads |-> IF titler[t] = NoTitler THEN NoTitler ELSE Over]
        /\ hadTitles' = hadTitles
    BY <1>3 DEF Exit, Crash, Ends, Closed
  <2>2. Fresh("closed").out = <<>>
    BY DEF Fresh
  <2>3. NoneTold /\ Remembers
    BY <2>1, <2>2 DEF NoneTold, Remembers
  <2>4. Told'
    BY <2>1 DEF Told, NoTitler, Over
  <2>. QED  BY <1>1, <2>3, <2>4, StoredStays
<1>4. ASSUME NEW c \in Conns,
             \/ Handshake(c) \/ Send(c) \/ CloseOnShutdown(c)
             \/ ReceiveEnd(c) \/ Receive(c) \/ Deliver(c) \/ Handle(c)
      PROVE  Told' /\ Stored'
  BY <1>1, <1>4, ConnTells, HandleTells
<1>5. ASSUME NEW d \in decide, Decide(d) PROVE Told' /\ Stored'
  BY <1>1, <1>5, DecideTells
<1>6. ASSUME NEW t \in Threads, Title(t) PROVE Told' /\ Stored'
  BY <1>1, <1>6, TitleTells
<1>. QED  BY <1>1, <1>2, <1>3, <1>4, <1>5, <1>6 DEF Next

(***************************************************************************)
(* The title a Client is told a Thread now carries is one its row has      *)
(* carried: the row is written before the notification is queued, and if   *)
(* the write fails nobody is told (worker/title.rs).                       *)
(***************************************************************************)
THEOREM TitlesToldWereStored == Spec => []ToldTitleWasStored
<1>1. Init => Told /\ Stored
  <2>1. Fresh("new").out = <<>>
    BY DEF Fresh
  <2>. QED  BY <2>1 DEF Init, Told, Stored, NoTitler
<1>2. Stored => ToldTitleWasStored
  BY DEF Stored, ToldTitleWasStored, IsTitled
<1>. QED  BY <1>1, <1>2, AlwaysIInv, StoredInvariance, PTL DEF Spec

(***************************************************************************)
(* Texts: what a part of one keeps of it.                                  *)
(***************************************************************************)
LEMMA NatInduct ==
    ASSUME NEW S, 0 \in S, \A n \in Nat : n \in S => n + 1 \in S
    PROVE  Nat \subseteq S
<1>. DEFINE T == {n \in Nat : n \notin S}
<1>. SUFFICES ASSUME T # {} PROVE FALSE
  OBVIOUS
<1>. HIDE DEF T
<1>1. PICK n \in T : \A m \in T : ~(m < n)
  <2>. DEFINE R == OpToRel(<, Nat)
  <2>1. T \subseteq Nat /\ IsWellFoundedOn(R, Nat)
    BY NatLessThanWellFounded, Zenon DEF T
  <2>2. PICK n \in T : \A m \in T : ~ (<<m, n>> \in R)
    <3>. HIDE DEF R
    <3>. QED  BY <2>1, WFMin
  <2>3. \A m \in T : ~(m < n)
    BY <2>1, <2>2 DEF OpToRel
  <2>. HIDE DEF R
  <2>. QED  BY <2>2, <2>3
<1>2. n \in Nat /\ n \notin S /\ n # 0
  BY <1>1 DEF T
<1>3. n - 1 \in Nat /\ n - 1 < n /\ n = (n - 1) + 1
  BY <1>2
<1>4. n - 1 \in S
  BY <1>1, <1>3 DEF T
<1>. QED  BY <1>2, <1>3, <1>4

LEMMA LeastOf ==
    ASSUME NEW T \in SUBSET Nat, T # {}
    PROVE  \E i \in T : \A j \in T : i <= j
<1>. DEFINE S == {n \in Nat : \A i \in T : n <= i}
<1>. SUFFICES ASSUME \A i \in T : \E j \in T : ~(i <= j) PROVE FALSE
  OBVIOUS
<1>1. 0 \in S
  OBVIOUS
<1>2. ASSUME NEW n \in Nat, n \in S PROVE n + 1 \in S
  <2>1. n \notin T
    BY <1>2
  <2>2. \A i \in T : i \in Nat /\ n <= i /\ i # n
    BY <1>2, <2>1
  <2>. QED  BY <2>2
<1>. HIDE DEF S
<1>3. Nat \subseteq S
  BY <1>1, <1>2, NatInduct
<1>4. PICK i \in T : TRUE
  OBVIOUS
<1>5. i \in Nat /\ i + 1 \in S
  BY <1>3
<1>. QED  BY <1>5 DEF S

LEMMA GreatestOf ==
    ASSUME NEW n \in Nat, NEW T \in SUBSET (1..n), T # {}
    PROVE  \E i \in T : \A j \in T : j <= i
<1>. DEFINE U == {m \in Nat : \E i \in T : m = n - i}
<1>1. U \in SUBSET Nat /\ U # {}
  <2>1. PICK i \in T : TRUE
    OBVIOUS
  <2>2. n - i \in U
    BY <2>1
  <2>. QED  BY <2>2
<1>2. PICK u \in U : \A m \in U : u <= m
  <2>. HIDE DEF U
  <2>. QED  BY <1>1, LeastOf
<1>3. PICK i \in T : u = n - i
  BY <1>2
<1>4. ASSUME NEW j \in T PROVE j <= i
  <2>1. n - j \in U
    OBVIOUS
  <2>2. u <= n - j
    BY <1>2, <2>1
  <2>. QED  BY <1>3, <2>2
<1>. QED  BY <1>4

SingleBlanks(s) == \A i \in 1..(Len(s) - 1) : ~(s[i] = Blank /\ s[i + 1] = Blank)
Starts(s) == s # <<>> => ~IsSpace(s[1])

LEMMA PartOf ==
    ASSUME NEW S, NEW s \in Seq(S), NEW m \in 1..(Len(s) + 1), NEW n \in (m - 1)..Len(s),
           NEW t, t = SubSeq(s, m, n)
    PROVE  /\ t \in Seq(S) /\ Len(t) = n - m + 1
           /\ \A i \in 1..Len(t) : t[i] = s[m + i - 1]
           /\ SingleBlanks(s) => SingleBlanks(t)
<1>1. t \in Seq(S) /\ Len(t) = n - m + 1
  OBVIOUS
<1>2. \A i \in 1..Len(t) : t[i] = s[m + i - 1]
  BY <1>1
<1>3. ASSUME SingleBlanks(s), NEW i \in 1..(Len(t) - 1)
      PROVE  ~(t[i] = Blank /\ t[i + 1] = Blank)
  <2>1. m + i - 1 \in 1..(Len(s) - 1)
    BY <1>1
  <2>2. i \in 1..Len(t) /\ i + 1 \in 1..Len(t) /\ m + (i + 1) - 1 = (m + i - 1) + 1
    BY <1>1
  <2>3. t[i] = s[m + i - 1] /\ t[i + 1] = s[(m + i - 1) + 1]
    BY <1>2, <2>2
  <2>. QED  BY <1>3, <2>1, <2>3 DEF SingleBlanks
<1>. QED  BY <1>1, <1>2, <1>3 DEF SingleBlanks

LEMMA PartIsSingle ==
    ASSUME NEW S, NEW s \in Seq(S), SingleBlanks(s),
           NEW m \in 1..(Len(s) + 1), NEW n \in (m - 1)..Len(s)
    PROVE  SingleBlanks(SubSeq(s, m, n))
BY PartOf

LEMMA Trimmed ==
    ASSUME NEW S, NEW s \in Seq(S), NEW t, t = Trim(s)
    PROVE  /\ t \in Seq(S) /\ Starts(t)
           /\ SingleBlanks(s) => SingleBlanks(t)
<1>. DEFINE solid == {i \in DOMAIN s : ~IsSpace(s[i])}
            Least(i) == i \in solid /\ \A j \in solid : i <= j
            Greatest(i) == i \in solid /\ \A j \in solid : j <= i
            a == CHOOSE i \in solid : \A j \in solid : i <= j
            b == CHOOSE i \in solid : \A j \in solid : j <= i
<1>1. DOMAIN s = 1..Len(s) /\ Len(s) \in Nat
  OBVIOUS
<1>2. CASE solid = {}
  <2>1. t = <<>>
    BY <1>2 DEF Trim
  <2>. QED  BY <2>1 DEF Starts, SingleBlanks
<1>3. CASE solid # {}
  <2>1. t = SubSeq(s, a, b)
    BY <1>3 DEF Trim
  <2>2. solid \in SUBSET Nat /\ solid \in SUBSET (1..Len(s))
    BY <1>1
  <2>. HIDE DEF solid
  <2>3. \E i \in solid : \A j \in solid : i <= j
    BY <1>3, <2>2, LeastOf
  <2>4. \E i \in solid : \A j \in solid : j <= i
    BY <1>1, <1>3, <2>2, GreatestOf
  <2>5. a \in solid /\ b \in solid /\ a <= b
    BY <2>3, <2>4
  <2>. HIDE DEF a, b
  <2>6. a \in 1..(Len(s) + 1) /\ b \in (a - 1)..Len(s) /\ ~IsSpace(s[a])
    BY <1>1, <2>2, <2>5 DEF solid
  <2>7. /\ t \in Seq(S) /\ Len(t) = b - a + 1
        /\ \A i \in 1..Len(t) : t[i] = s[a + i - 1]
        /\ SingleBlanks(s) => SingleBlanks(t)
    BY <2>1, <2>6, PartOf
  <2>8. t[1] = s[a]
    BY <2>2, <2>5, <2>7
  <2>. QED  BY <2>6, <2>7, <2>8 DEF Starts
<1>. QED  BY <1>2, <1>3

LEMMA FirstLineIsOne ==
    ASSUME NEW S, NEW s \in Seq(S), NEW t, t = FirstLine(s)
    PROVE  t \in Seq(S \ {Break})
<1>. DEFINE starts == {i \in DOMAIN s : ~IsSpace(s[i])}
            start == CHOOSE i \in starts : \A j \in starts : i <= j
            ends == {i \in DOMAIN s : i > start /\ s[i] = Break}
            end == CHOOSE i \in ends : \A j \in ends : i <= j
<1>1. DOMAIN s = 1..Len(s) /\ Len(s) \in Nat
  OBVIOUS
<1>2. CASE starts = {}
  BY <1>2 DEF FirstLine
<1>3. CASE starts # {}
  <2>1. t = IF ends = {} THEN SubSeq(s, start, Len(s)) ELSE SubSeq(s, start, end - 1)
    <3>1. t = IF starts = {} THEN <<>>
              ELSE IF ends = {} THEN SubSeq(s, start, Len(s)) ELSE SubSeq(s, start, end - 1)
      BY DEF FirstLine
    <3>. HIDE DEF starts, start, ends, end
    <3>. QED  BY <1>3, <3>1
  <2>2. starts \in SUBSET Nat
    BY <1>1
  <2>. HIDE DEF starts
  <2>3. \E i \in starts : \A j \in starts : i <= j
    BY <1>3, <2>2, LeastOf
  <2>4. start \in starts
    BY <2>3
  <2>5. start \in 1..Len(s) /\ s[start] # Break
    BY <1>1, <2>4 DEF starts, IsSpace
  <2>. HIDE DEF start
  <2>6. PICK n \in (start - 1)..Len(s) :
            t = SubSeq(s, start, n) /\ \A i \in start..n : s[i] # Break
    <3>1. CASE ends = {}
      <4>1. \A i \in start..Len(s) : s[i] # Break
        BY <1>1, <2>5, <3>1
      <4>. QED  BY <1>1, <2>1, <2>5, <3>1, <4>1
    <3>2. CASE ends # {}
      <4>1. ends \in SUBSET Nat
        BY <1>1
      <4>2. \A i \in start..Len(s) : s[i] = Break => i \in ends
        BY <1>1, <2>5
      <4>3. \A i \in ends : i \in 1..Len(s) /\ i > start
        BY <1>1
      <4>. HIDE DEF ends
      <4>4. \E i \in ends : \A j \in ends : i <= j
        BY <3>2, <4>1, LeastOf
      <4>5. end \in ends /\ \A j \in ends : end <= j
        BY <4>4
      <4>. HIDE DEF end
      <4>6. end - 1 \in (start - 1)..Len(s)
        BY <1>1, <2>5, <4>3, <4>5
      <4>7. \A i \in start..(end - 1) : s[i] # Break
        BY <1>1, <2>5, <4>2, <4>3, <4>5
      <4>. QED  BY <2>1, <3>2, <4>6, <4>7
    <3>. QED  BY <3>1, <3>2
  <2>7. start \in 1..(Len(s) + 1)
    BY <2>5
  <2>8. t \in Seq(S) /\ Len(t) = n - start + 1 /\ \A i \in 1..Len(t) : t[i] = s[start + i - 1]
    BY <2>6, <2>7, PartOf
  <2>9. \A i \in 1..Len(t) : t[i] \in S \ {Break}
    <3>1. ASSUME NEW i \in 1..Len(t) PROVE t[i] \in S \ {Break}
      <4>1. start + i - 1 \in start..n
        BY <2>5, <2>6, <2>8
      <4>. QED  BY <2>6, <2>8, <4>1
    <3>. QED  BY <3>1
  <2>. QED  BY <2>8, <2>9
<1>. QED  BY <1>2, <1>3

LEMMA Unquoted ==
    ASSUME NEW S, NEW s \in Seq(S), SingleBlanks(s), Starts(s), NEW t, t = StripWrappingQuotes(s)
    PROVE  t \in Seq(S) /\ SingleBlanks(t) /\ Starts(t)
<1>. DEFINE quoted == Len(s) >= 2 /\ s[1] = Quote /\ s[Len(s)] = Quote
            u == SubSeq(s, 2, Len(s) - 1)
<1>1. CASE quoted
  <2>1. t = Trim(u)
    BY <1>1 DEF StripWrappingQuotes
  <2>2. 2 \in 1..(Len(s) + 1) /\ Len(s) - 1 \in (2 - 1)..Len(s)
    BY <1>1
  <2>3. PICK m, n, v : m = 2 /\ n = Len(s) - 1 /\ v = SubSeq(s, m, n)
    OBVIOUS
  <2>4. m \in 1..(Len(s) + 1) /\ n \in (m - 1)..Len(s)
    BY <2>2, <2>3
  <2>5. v \in Seq(S)
    BY <2>3, <2>4, PartOf
  <2>6. SingleBlanks(v)
    BY <2>3, <2>4, PartIsSingle
  <2>7. t = Trim(v)
    BY <2>1, <2>3
  <2>8. t \in Seq(S) /\ Starts(t)
    BY <2>5, <2>7, Trimmed
  <2>. QED  BY <2>5, <2>6, <2>7, <2>8, Trimmed
<1>2. CASE ~quoted
  BY <1>2 DEF StripWrappingQuotes
<1>. QED  BY <1>1, <1>2

LEMMA Taken ==
    ASSUME NEW S, NEW s \in Seq(S), SingleBlanks(s), Starts(s), NEW n \in Nat \ {0},
           NEW t, t = Take(s, n)
    PROVE  t \in Seq(S) /\ SingleBlanks(t) /\ Starts(t) /\ Len(t) <= n
<1>. DEFINE m == IF n < Len(s) THEN n ELSE Len(s)
<1>1. t = SubSeq(s, 1, m) /\ m \in 0..Len(s) /\ m <= n
  BY DEF Take
<1>. HIDE DEF m
<1>2. PICK one : one = 1
  OBVIOUS
<1>3. one \in 1..(Len(s) + 1) /\ m \in (one - 1)..Len(s) /\ t = SubSeq(s, one, m)
  BY <1>1, <1>2
<1>4. t \in Seq(S) /\ Len(t) = m - one + 1
  BY <1>3, PartOf
<1>5. \A i \in 1..Len(t) : t[i] = s[one + i - 1]
  BY <1>3, PartOf
<1>6. SingleBlanks(t)
  BY <1>3, PartIsSingle
<1>7. Starts(t)
  <2>. SUFFICES ASSUME t # <<>> PROVE ~IsSpace(t[1])
    BY DEF Starts
  <2>1. 1 \in 1..Len(t) /\ s # <<>>
    BY <1>1, <1>2, <1>4
  <2>2. t[1] = s[1]
    BY <1>2, <1>5, <2>1
  <2>. QED  BY <2>1, <2>2 DEF Starts
<1>. QED  BY <1>1, <1>2, <1>4, <1>6, <1>7

(***************************************************************************)
(* One blank for a run of them.                                            *)
(***************************************************************************)
KeepsPiece(s, k, before) ==
    IF ~IsSpace(s[k]) THEN Append(before, s[k])
    ELSE IF IsSpace(s[k - 1]) THEN before
    ELSE Append(before, Blank)
Collapses(s, n, f) == f = [i \in 0..n |-> IF i = 0 THEN <<>> ELSE KeepsPiece(s, i, f[i - 1])]

LEMMA CollapsesExist ==
    ASSUME NEW s, NEW n \in Nat PROVE \E f : Collapses(s, n, f)
<1>. DEFINE S == {m \in Nat : \E f : Collapses(s, m, f)}
<1>1. 0 \in S
  <2>1. Collapses(s, 0, [i \in 0..0 |-> <<>>])
    BY DEF Collapses
  <2>. QED  BY <2>1
<1>2. ASSUME NEW m \in Nat, m \in S PROVE m + 1 \in S
  <2>1. PICK f : Collapses(s, m, f)
    BY <1>2
  <2>. DEFINE h == [i \in 0..m + 1 |-> IF i = m + 1 THEN KeepsPiece(s, i, f[m]) ELSE f[i]]
  <2>2. \A i \in 0..m : h[i] = f[i] /\ f[i] = IF i = 0 THEN <<>> ELSE KeepsPiece(s, i, f[i - 1])
    BY <2>1 DEF Collapses
  <2>3. ASSUME NEW i \in 0..m + 1
        PROVE  h[i] = IF i = 0 THEN <<>> ELSE KeepsPiece(s, i, h[i - 1])
    <3>1. CASE i = m + 1
      <4>1. i # 0 /\ i - 1 = m /\ h[m] = f[m]
        BY <3>1
      <4>. QED  BY <3>1, <4>1
    <3>2. CASE i \in 0..m
      <4>1. i # 0 => i - 1 \in 0..m
        BY <3>2
      <4>2. h[i] = f[i] /\ (i # 0 => h[i - 1] = f[i - 1])
        BY <3>2, <4>1, <2>2
      <4>. HIDE DEF h
      <4>. QED  BY <3>2, <4>2, <2>2
    <3>. QED  BY <3>1, <3>2
  <2>4. Collapses(s, m + 1, h)
    BY <2>3 DEF Collapses
  <2>. QED  BY <2>4
<1>. HIDE DEF S
<1>3. Nat \subseteq S
  BY <1>1, <1>2, NatInduct
<1>. QED  BY <1>3 DEF S

\* What is kept of the pieces so far.
Kept(S, s, k, t) ==
    /\ t \in Seq((S \ {Break}) \cup {Blank}) /\ SingleBlanks(t) /\ Starts(t)
    /\ k = 0 => t = <<>>
    /\ k # 0 => t # <<>> /\ (t[Len(t)] = Blank <=> IsSpace(s[k]))

LEMMA PieceKept ==
    ASSUME NEW S, NEW s \in Seq(S), Starts(s), NEW k \in Nat, k + 1 \in 1..Len(s),
           NEW t, Kept(S, s, k, t), NEW u, u = KeepsPiece(s, k + 1, t)
    PROVE  Kept(S, s, k + 1, u)
<1>. DEFINE P == (S \ {Break}) \cup {Blank}
<1>1. t \in Seq(P) /\ SingleBlanks(t) /\ Starts(t)
  BY DEF Kept
<1>2. s[k + 1] \in S /\ (k + 1) - 1 = k /\ k + 1 # 0
  OBVIOUS
<1>3. ASSUME NEW x \in P, u = Append(t, x), x = Blank <=> IsSpace(s[k + 1]),
             t = <<>> => ~IsSpace(x), t # <<>> /\ t[Len(t)] = Blank => x # Blank
      PROVE  Kept(S, s, k + 1, u)
  <2>1. /\ u \in Seq(P) /\ Len(u) = Len(t) + 1 /\ u[Len(u)] = x
        /\ \A i \in 1..Len(t) : u[i] = t[i]
    <3>. HIDE DEF P
    <3>1. u \in Seq(P) /\ Len(u) = Len(t) + 1 /\ Len(t) \in Nat
      BY <1>1, <1>3
    <3>2. u[Len(t) + 1] = x
      BY <1>1, <1>3
    <3>3. \A i \in 1..Len(t) : u[i] = t[i]
      BY <1>1, <1>3
    <3>. QED  BY <3>1, <3>2, <3>3
  <2>2. u # <<>>
    BY <2>1
  <2>3. SingleBlanks(u)
    <3>1. ASSUME NEW i \in 1..(Len(u) - 1) PROVE ~(u[i] = Blank /\ u[i + 1] = Blank)
      <4>1. Len(t) \in Nat /\ i \in 1..Len(t) /\ u[i] = t[i]
        BY <1>1, <2>1
      <4>2. CASE i = Len(t)
        <5>1. t # <<>> /\ Len(t) = i /\ Len(u) = i + 1
          BY <1>1, <2>1, <4>1, <4>2
        <5>2. u[i] = t[Len(t)] /\ u[i + 1] = x
          BY <2>1, <4>1, <5>1
        <5>. QED  BY <1>3, <5>1, <5>2
      <4>3. CASE i # Len(t)
        <5>1. i \in 1..(Len(t) - 1) /\ i + 1 \in 1..Len(t)
          BY ONLY <4>1, <4>3
        <5>2. u[i + 1] = t[i + 1]
          BY ONLY <2>1, <5>1
        <5>3. ~(t[i] = Blank /\ t[i + 1] = Blank)
          BY ONLY <1>1, <5>1 DEF SingleBlanks
        <5>. QED  BY ONLY <4>1, <5>2, <5>3
      <4>. QED  BY <4>2, <4>3
    <3>. QED  BY <3>1 DEF SingleBlanks
  <2>4. Starts(u)
    <3>1. CASE t = <<>>
      <4>1. u[1] = x
        BY <2>1, <3>1
      <4>. QED  BY <1>3, <3>1, <4>1 DEF Starts
    <3>2. CASE t # <<>>
      <4>1. 1 \in 1..Len(t)
        BY <1>1, <3>2
      <4>2. u[1] = t[1]
        BY <2>1, <4>1
      <4>. QED  BY <1>1, <3>2, <4>2 DEF Starts
    <3>. QED  BY <3>1, <3>2
  <2>. QED  BY <1>2, <1>3, <2>1, <2>2, <2>3, <2>4 DEF Kept
<1>4. CASE ~IsSpace(s[k + 1])
  <2>1. u = Append(t, s[k + 1]) /\ s[k + 1] \in P /\ s[k + 1] # Blank
    BY <1>2, <1>4 DEF KeepsPiece, IsSpace
  <2>. HIDE DEF P
  <2>. QED  BY <1>3, <1>4, <2>1
<1>5. CASE IsSpace(s[k + 1])
  <2>1. k # 0
    <3>1. k = 0 => s # <<>> /\ s[1] = s[k + 1]
      OBVIOUS
    <3>. QED  BY <1>5, <3>1 DEF Starts
  <2>2. t # <<>> /\ (t[Len(t)] = Blank <=> IsSpace(s[k]))
    BY <2>1 DEF Kept
  <2>3. CASE IsSpace(s[k])
    <3>1. u = t
      BY <1>2, <1>5, <2>3 DEF KeepsPiece
    <3>. QED  BY <1>1, <1>2, <1>5, <2>2, <2>3, <3>1 DEF Kept
  <2>4. CASE ~IsSpace(s[k])
    <3>1. u = Append(t, Blank) /\ Blank \in P
      BY <1>2, <1>5, <2>4 DEF KeepsPiece
    <3>. HIDE DEF P
    <3>. QED  BY <1>3, <1>5, <2>2, <2>4, <3>1
  <2>. QED  BY <2>3, <2>4
<1>. QED  BY <1>4, <1>5

LEMMA Collapsed ==
    ASSUME NEW S, NEW text \in Seq(S), NEW c, c = CollapseWhitespace(text)
    PROVE  c \in Seq((S \ {Break}) \cup {Blank}) /\ SingleBlanks(c) /\ Starts(c)
<1>1. PICK s : s = Trim(text)
  OBVIOUS
<1>2. s \in Seq(S) /\ Starts(s) /\ Len(s) \in Nat
  BY <1>1, Trimmed
<1>. DEFINE f == CHOOSE h : Collapses(s, Len(s), h)
<1>3. Collapses(s, Len(s), f)
  BY <1>2, CollapsesExist
<1>4. c = f[Len(s)]
  BY <1>1 DEF CollapseWhitespace, Collapses, KeepsPiece
<1>. HIDE DEF f
<1>. DEFINE T == {k \in Nat : k <= Len(s) => Kept(S, s, k, f[k])}
<1>5. 0 \in T
  <2>1. f[0] = <<>>
    BY <1>2, <1>3 DEF Collapses
  <2>2. Kept(S, s, 0, <<>>)
    BY DEF Kept, SingleBlanks, Starts
  <2>. QED  BY <2>1, <2>2
<1>6. ASSUME NEW k \in Nat, k \in T PROVE k + 1 \in T
  <2>. SUFFICES ASSUME k + 1 <= Len(s) PROVE Kept(S, s, k + 1, f[k + 1])
    OBVIOUS
  <2>1. k + 1 \in 1..Len(s) /\ k <= Len(s) /\ k + 1 \in 0..Len(s) /\ (k + 1) - 1 = k /\ k + 1 # 0
    BY <1>2
  <2>2. Kept(S, s, k, f[k])
    BY <1>6, <2>1
  <2>3. f[k + 1] = KeepsPiece(s, k + 1, f[k])
    BY <1>3, <2>1 DEF Collapses
  <2>. QED  BY <1>2, <2>1, <2>2, <2>3, PieceKept
<1>. HIDE DEF T
<1>7. Nat \subseteq T
  BY <1>5, <1>6, NatInduct
<1>8. Kept(S, s, Len(s), f[Len(s)])
  BY <1>2, <1>7 DEF T
<1>. QED  BY <1>4, <1>8 DEF Kept

(***************************************************************************)
(* The text outside the think blocks.                                      *)
(***************************************************************************)
Outside(text) ==
    {text[i] : i \in {j \in DOMAIN text : text[j] \notin {Open, Close} /\ ~Inside(text, j)}}
Walks(text, n, f) ==
    f = [i \in 0..n |-> IF i = 0 THEN [depth |-> 0, kept |-> <<>>]
                        ELSE PastPiece(f[i - 1], text[i])]

LEMMA WalksExist ==
    ASSUME NEW text, NEW n \in Nat PROVE \E f : Walks(text, n, f)
<1>. DEFINE S == {m \in Nat : \E f : Walks(text, m, f)}
            base == [depth |-> 0, kept |-> <<>>]
<1>1. 0 \in S
  <2>1. Walks(text, 0, [i \in 0..0 |-> base])
    BY DEF Walks
  <2>. QED  BY <2>1
<1>2. ASSUME NEW m \in Nat, m \in S PROVE m + 1 \in S
  <2>1. PICK f : Walks(text, m, f)
    BY <1>2
  <2>. DEFINE h == [i \in 0..m + 1 |-> IF i = m + 1 THEN PastPiece(f[m], text[i]) ELSE f[i]]
  <2>2. \A i \in 0..m : h[i] = f[i] /\ f[i] = IF i = 0 THEN base ELSE PastPiece(f[i - 1], text[i])
    BY <2>1 DEF Walks
  <2>3. ASSUME NEW i \in 0..m + 1
        PROVE  h[i] = IF i = 0 THEN base ELSE PastPiece(h[i - 1], text[i])
    <3>1. CASE i = m + 1
      <4>1. i # 0 /\ i - 1 = m /\ h[m] = f[m]
        BY <3>1
      <4>. QED  BY <3>1, <4>1
    <3>2. CASE i \in 0..m
      <4>1. i # 0 => i - 1 \in 0..m
        BY <3>2
      <4>2. h[i] = f[i] /\ (i # 0 => h[i - 1] = f[i - 1])
        BY <3>2, <4>1, <2>2
      <4>. HIDE DEF h, base
      <4>. QED  BY <3>2, <4>2, <2>2
    <3>. QED  BY <3>1, <3>2
  <2>4. Walks(text, m + 1, h)
    BY <2>3 DEF Walks
  <2>. QED  BY <2>4
<1>. HIDE DEF S
<1>3. Nat \subseteq S
  BY <1>1, <1>2, NatInduct
<1>. QED  BY <1>3 DEF S

LEMMA TagsCount ==
    ASSUME NEW text, NEW tag, NEW j \in Nat, NEW k \in Nat
    PROVE  /\ IsFiniteSet(Tags(text, tag, j, k)) /\ Cardinality(Tags(text, tag, j, k)) \in Nat
           /\ j > k => Cardinality(Tags(text, tag, j, k)) = 0
           /\ j <= k + 1 =>
                Cardinality(Tags(text, tag, j, k + 1)) =
                    Cardinality(Tags(text, tag, j, k)) + (IF text[k + 1] = tag THEN 1 ELSE 0)
<1>. DEFINE T == Tags(text, tag, j, k)
<1>1. IsFiniteSet(j..k)
  BY FS_Interval
<1>2. IsFiniteSet(T) /\ Cardinality(T) \in Nat
  BY <1>1, FS_Subset, FS_CardinalityType DEF Tags
<1>3. j > k => T = {}
  BY DEF Tags
<1>4. ASSUME j <= k + 1
      PROVE  Tags(text, tag, j, k + 1) = IF text[k + 1] = tag THEN T \cup {k + 1} ELSE T
  BY <1>4 DEF Tags
<1>5. k + 1 \notin T
  BY DEF Tags
<1>. HIDE DEF T
<1>6. j > k => Cardinality(T) = 0
  BY <1>3, FS_EmptySet
<1>7. Cardinality(T \cup {k + 1}) = Cardinality(T) + 1
  BY <1>2, <1>5, FS_AddElement
<1>. QED  BY <1>2, <1>4, <1>6, <1>7 DEF T

\* Where the walk stands after k pieces: its depth is at least what any part
\* of the text up to there has opened and not closed.
Walked(text, k, at) ==
    /\ at = [depth |-> at.depth, kept |-> at.kept]
    /\ at.depth \in Nat /\ at.kept \in Seq(Outside(text))
    /\ \A j \in 1..(k + 1) :
           at.depth + Cardinality(Tags(text, Close, j, k)) >= Cardinality(Tags(text, Open, j, k))

LEMMA PieceWalked ==
    ASSUME NEW S, NEW text \in Seq(S), NEW k \in Nat, k + 1 \in 1..Len(text),
           NEW at, Walked(text, k, at), NEW next, next = PastPiece(at, text[k + 1])
    PROVE  Walked(text, k + 1, next)
<1>. DEFINE piece == text[k + 1]
            d == at.depth
            t == at.kept
            step == IF piece = Open THEN d + 1
                    ELSE IF piece = Close THEN IF d = 0 THEN 0 ELSE d - 1 ELSE d
            kept == IF piece \in {Open, Close} \/ d # 0 THEN t ELSE Append(t, piece)
            O(j) == Cardinality(Tags(text, Open, j, k))
            C(j) == Cardinality(Tags(text, Close, j, k))
            O1(j) == Cardinality(Tags(text, Open, j, k + 1))
            C1(j) == Cardinality(Tags(text, Close, j, k + 1))
<1>1. at = [depth |-> d, kept |-> t] /\ d \in Nat /\ t \in Seq(Outside(text))
  BY DEF Walked
<1>2. Open # Close
  BY DEF Open, Close
<1>3. next = [depth |-> step, kept |-> kept]
  <2>1. next = CASE piece = Open -> [at EXCEPT !.depth = d + 1]
                 [] piece = Close -> [at EXCEPT !.depth = IF d = 0 THEN 0 ELSE d - 1]
                 [] OTHER -> IF d = 0 THEN [at EXCEPT !.kept = Append(t, piece)] ELSE at
    BY DEF PastPiece
  <2>. HIDE DEF piece, d, t
  <2>. QED  BY <1>1, <1>2, <2>1
<1>4. \A j \in 1..(k + 1) : d + C(j) >= O(j)
  BY DEF Walked
<1>5. \A j \in 1..(k + 2) : O1(j) \in Nat /\ C1(j) \in Nat
  BY TagsCount
<1>6. \A j \in 1..(k + 1) :
         /\ O(j) \in Nat /\ C(j) \in Nat
         /\ O1(j) = O(j) + (IF piece = Open THEN 1 ELSE 0)
         /\ C1(j) = C(j) + (IF piece = Close THEN 1 ELSE 0)
  BY TagsCount
<1>7. O1(k + 2) = 0
  BY TagsCount
<1>. HIDE DEF O, C, O1, C1
<1>8. step \in Nat
  <2>. HIDE DEF d, piece
  <2>. QED  BY <1>1
<1>9. \A j \in 1..(k + 2) : step + C1(j) >= O1(j)
  <2>. SUFFICES ASSUME NEW j \in 1..(k + 2) PROVE step + C1(j) >= O1(j)
    OBVIOUS
  <2>1. CASE j = k + 2
    <3>. HIDE DEF step
    <3>. QED  BY <1>5, <1>7, <1>8, <2>1
  <2>2. CASE j \in 1..(k + 1)
    <3>1. d + C(j) >= O(j)
      BY <1>4, <2>2
    <3>2. /\ O(j) \in Nat /\ C(j) \in Nat
          /\ O1(j) = O(j) + (IF piece = Open THEN 1 ELSE 0)
          /\ C1(j) = C(j) + (IF piece = Close THEN 1 ELSE 0)
      BY <1>6, <2>2
    <3>. HIDE DEF d, piece
    <3>. QED  BY <1>1, <1>2, <3>1, <3>2
  <2>. QED  BY <2>1, <2>2
<1>10. kept \in Seq(Outside(text))
  <2>1. CASE piece \in {Open, Close} \/ d # 0
    BY <1>1, <2>1
  <2>2. CASE piece \notin {Open, Close} /\ d = 0
    <3>1. ~Inside(text, k + 1)
      <4>1. ASSUME NEW j \in 1..(k + 1), O1(j) > C1(j) PROVE FALSE
        <5>1. d + C(j) >= O(j) /\ O1(j) = O(j) /\ C1(j) = C(j) /\ O(j) \in Nat /\ C(j) \in Nat
          BY <1>4, <1>6, <2>2
        <5>. HIDE DEF d
        <5>. QED  BY <2>2, <4>1, <5>1
      <4>2. ASSUME Inside(text, k + 1) PROVE FALSE
        <5>1. PICK j \in 1..(k + 1) : \A i \in j..(k + 1) :
                  Cardinality(Tags(text, Open, j, i)) > Cardinality(Tags(text, Close, j, i))
          BY <4>2 DEF Inside
        <5>2. k + 1 \in j..(k + 1)
          OBVIOUS
        <5>3. O1(j) > C1(j)
          BY <5>1, <5>2 DEF O1, C1
        <5>. QED  BY <4>1, <5>3
      <4>. QED  BY <4>2
    <3>2. piece \in Outside(text)
      BY <2>2, <3>1 DEF Outside
    <3>. QED  BY <1>1, <2>2, <3>2
  <2>. QED  BY <2>1, <2>2
<1>11. next.depth = step /\ next.kept = kept
  <2>. HIDE DEF step, kept
  <2>. QED  BY <1>3
<1>12. \A j \in 1..((k + 1) + 1) :
          next.depth + Cardinality(Tags(text, Close, j, k + 1)) >= Cardinality(Tags(text, Open, j, k + 1))
  BY <1>9, <1>11 DEF O1, C1
<1>. HIDE DEF step, kept
<1>. QED  BY <1>3, <1>8, <1>10, <1>11, <1>12 DEF Walked

LEMMA Stripped ==
    ASSUME NEW S, NEW text \in Seq(S)
    PROVE  StripThink(text) \in Seq(Outside(text))
<1>1. Len(text) \in Nat
  OBVIOUS
<1>. DEFINE f == CHOOSE h : Walks(text, Len(text), h)
<1>2. Walks(text, Len(text), f)
  BY <1>1, WalksExist
<1>3. StripThink(text) = f[Len(text)].kept
  BY DEF StripThink, Walks
<1>. HIDE DEF f
<1>. DEFINE T == {k \in Nat : k <= Len(text) => Walked(text, k, f[k])}
<1>4. 0 \in T
  <2>1. f[0] = [depth |-> 0, kept |-> <<>>]
    BY <1>1, <1>2 DEF Walks
  <2>2. ASSUME NEW j \in 1..(0 + 1)
        PROVE  0 + Cardinality(Tags(text, Close, j, 0)) >= Cardinality(Tags(text, Open, j, 0))
    BY TagsCount
  <2>3. <<>> \in Seq(Outside(text))
    OBVIOUS
  <2>4. Walked(text, 0, [depth |-> 0, kept |-> <<>>])
    BY <2>2, <2>3 DEF Walked
  <2>. QED  BY <2>1, <2>4
<1>5. ASSUME NEW k \in Nat, k \in T PROVE k + 1 \in T
  <2>. SUFFICES ASSUME k + 1 <= Len(text) PROVE Walked(text, k + 1, f[k + 1])
    OBVIOUS
  <2>1. k + 1 \in 1..Len(text) /\ k <= Len(text) /\ k + 1 \in 0..Len(text) /\ (k + 1) - 1 = k
        /\ k + 1 # 0
    BY <1>1
  <2>2. Walked(text, k, f[k])
    BY <1>5, <2>1
  <2>3. f[k + 1] = PastPiece(f[k], text[k + 1])
    BY <1>2, <2>1 DEF Walks
  <2>. QED  BY <2>1, <2>2, <2>3, PieceWalked
<1>. HIDE DEF T
<1>6. Nat \subseteq T
  BY <1>4, <1>5, NatInduct
<1>7. Walked(text, Len(text), f[Len(text)])
  BY <1>1, <1>6 DEF T
<1>. QED  BY <1>3, <1>7 DEF Walked

(***************************************************************************)
(* What a Worker's reply leaves for a title.                               *)
(***************************************************************************)
LEMMA TitleOfReply ==
    ASSUME NEW S, NEW text \in Seq(S), NEW title, title = SanitizeTitle(text), title # <<>>
    PROVE  /\ OneCleanLine(title) /\ Len(title) <= TitleMax
           /\ \A i \in DOMAIN title : title[i] \in Said(text) \cup {Blank}
<1>. DEFINE P == Outside(text)
            Q == (P \ {Break}) \cup {Blank}
<1>1. PICK a : a = StripThink(text)
  OBVIOUS
<1>2. PICK b : b = FirstLine(a)
  OBVIOUS
<1>3. PICK c : c = CollapseWhitespace(b)
  OBVIOUS
<1>4. PICK e : e = StripWrappingQuotes(c)
  OBVIOUS
<1>5. title = Take(e, TitleMax) /\ TitleMax \in Nat \ {0}
  BY <1>1, <1>2, <1>3, <1>4, CapsAssumption DEF SanitizeTitle
<1>6. a \in Seq(P)
  BY <1>1, Stripped
<1>7. b \in Seq(P \ {Break})
  <2>. HIDE DEF P
  <2>. QED  BY <1>2, <1>6, FirstLineIsOne
<1>8. c \in Seq(Q) /\ SingleBlanks(c) /\ Starts(c)
  <2>. DEFINE R == P \ {Break}
  <2>1. Q = (R \ {Break}) \cup {Blank}
    OBVIOUS
  <2>. HIDE DEF R, P, Q
  <2>2. b \in Seq(R)
    BY <1>7 DEF R
  <2>3. c \in Seq((R \ {Break}) \cup {Blank}) /\ SingleBlanks(c) /\ Starts(c)
    BY <1>3, <2>2, Collapsed
  <2>. QED  BY <2>1, <2>3
<1>. HIDE DEF Q
<1>9. e \in Seq(Q) /\ SingleBlanks(e) /\ Starts(e)
  BY <1>4, <1>8, Unquoted
<1>10. title \in Seq(Q) /\ SingleBlanks(title) /\ Starts(title) /\ Len(title) <= TitleMax
  BY <1>5, <1>9, Taken
<1>11. \A x \in Q : x \notin {Open, Close, Break} /\ x \in Said(text) \cup {Blank}
  BY DEF Q, Outside, Said, Open, Close, Break, Blank
<1>12. \A i \in DOMAIN title : title[i] \in Q
  BY <1>10
<1>13. title[1] # Blank
  BY <1>10 DEF Starts, IsSpace
<1>. QED  BY <1>10, <1>11, <1>12, <1>13 DEF OneCleanLine, SingleBlanks

(***************************************************************************)
(* What a title task has heard, and the title it made of it.               *)
(***************************************************************************)
Pieces == UNION {ToSet(delta) : delta \in Deltas}
Heard(w) ==
    /\ w.at \in {"token", "launch", "collect", "write", "tell"} => w.text \in Seq(Pieces)
    /\ w.at \in {"write", "tell"} => w.title = SanitizeTitle(w.text) /\ w.title # <<>>
AllHeard == \A t \in Threads : Heard(titler[t])

LEMMA DeltaHeard ==
    ASSUME NEW text \in Seq(Pieces), NEW delta \in Deltas
    PROVE  text \o delta \in Seq(Pieces)
<1>1. delta \in Seq(ToSet(delta)) /\ ToSet(delta) \subseteq Pieces
  BY DeltaAssumption DEF Pieces
<1>2. delta \in Seq(Pieces)
  BY <1>1
<1>. QED  BY <1>2

LEMMA GoesHeard ==
    ASSUME Typed, NEW t \in Threads, Heard(titler[t]),
           titler[t].at \in {"token", "launch", "collect", "write", "tell"},
           NEW at \in {"launch", "collect", "tell", "done"}, TitlerGoes(t, at),
           at = "tell" => titler[t].at = "write"
    PROVE  titler' = [titler EXCEPT ![t] = titler'[t]] /\ Heard(titler'[t])
<1>1. /\ titler' = [titler EXCEPT ![t] = titler'[t]]
      /\ at = "done" => titler'[t].at = "done"
      /\ at # "done" => /\ titler'[t].at = at /\ titler'[t].title = titler[t].title
                        /\ titler'[t].text = titler[t].text
  BY TitlerGoesTo
<1>2. Heard(titler'[t])
  BY <1>1 DEF Heard
<1>. QED  BY <1>1, <1>2

LEMMA WorkerChanged ==
    ASSUME NEW r, DOMAIN r = {"at", "conn", "text", "frames", "title"}, NEW a, NEW b, NEW w
    PROVE  /\ w = [[r EXCEPT !.text = a] EXCEPT !.frames = b]
              => w.at = r.at /\ w.text = a /\ w.title = r.title
           /\ w = [[r EXCEPT !.at = a] EXCEPT !.title = b]
              => w.at = a /\ w.text = r.text /\ w.title = b
<1>1. w = [[r EXCEPT !.text = a] EXCEPT !.frames = b]
      => w.at = r.at /\ w.text = a /\ w.title = r.title
  OBVIOUS
<1>2. w = [[r EXCEPT !.at = a] EXCEPT !.title = b]
      => w.at = a /\ w.text = r.text /\ w.title = b
  OBVIOUS
<1>. QED  BY <1>1, <1>2

LEMMA TitleHears ==
    ASSUME Typed, AllHeard, NEW t \in Threads, Title(t)
    PROVE  AllHeard'
<1>1. titler = [u \in Threads |-> titler[u]] /\ Heard(titler[t])
  BY DEF Typed, AllHeard
<1>2. SUFFICES titler' = [titler EXCEPT ![t] = titler'[t]] /\ Heard(titler'[t])
  BY <1>1 DEF AllHeard
<1>3. titler[t].at \in {"token", "launch", "collect", "write", "tell"}
  BY DEF Title, ResolveToken, Launch, CollectDelta, CollectEnds, CollectFails,
     UpdateThreadTitle, SendThreadTitled
<1>4. titler[t] = [at |-> titler[t].at, conn |-> titler[t].conn, text |-> titler[t].text,
                   frames |-> titler[t].frames, title |-> titler[t].title]
  BY <1>3, WorkerOf
<1>5. CASE ResolveToken(t) \/ Launch(t) \/ CollectFails(t) \/ SendThreadTitled(t)
  <2>1. \E at \in {"launch", "collect", "done"} : TitlerGoes(t, at)
    BY <1>5 DEF ResolveToken, Launch, CollectFails, SendThreadTitled
  <2>2. PICK at \in {"launch", "collect", "done"} : TitlerGoes(t, at)
    BY <2>1
  <2>. QED  BY <1>1, <1>3, <2>2, GoesHeard
<1>6. CASE UpdateThreadTitle(t)
  <2>1. titler[t].at = "write" /\ \E written \in BOOLEAN : TitlerGoes(t, AfterUpdate(written))
    BY <1>6 DEF UpdateThreadTitle
  <2>2. PICK at \in {"tell", "done"} : TitlerGoes(t, at)
    BY <2>1 DEF AfterUpdate
  <2>. QED  BY <1>1, <1>3, <2>1, <2>2, GoesHeard
<1>7. PICK r : r = titler[t]
  OBVIOUS
<1>8. DOMAIN r = {"at", "conn", "text", "frames", "title"}
  <2>1. PICK q : q = [at |-> titler[t].at, conn |-> titler[t].conn, text |-> titler[t].text,
                      frames |-> titler[t].frames, title |-> titler[t].title]
    OBVIOUS
  <2>2. DOMAIN q = {"at", "conn", "text", "frames", "title"}
    BY <2>1
  <2>. QED  BY <1>4, <1>7, <2>1, <2>2
<1>9. CASE CollectDelta(t)
  <2>1. PICK delta \in Deltas :
            titler' = [titler EXCEPT ![t].text = @ \o delta, ![t].frames = @ + 1]
    BY <1>9 DEF CollectDelta
  <2>2. PICK text, frames : text = r.text \o delta /\ frames = r.frames + 1
    OBVIOUS
  <2>3. titler' = [[titler EXCEPT ![t].text = text] EXCEPT ![t].frames = frames]
    BY <1>1, <1>7, <2>1, <2>2
  <2>4. PICK w : w = [[r EXCEPT !.text = text] EXCEPT !.frames = frames]
    OBVIOUS
  <2>5. titler' = [titler EXCEPT ![t] = w]
    BY <1>1, <1>7, <2>3, <2>4
  <2>6. w.at = r.at /\ w.text = text
    BY <1>8, <2>4, WorkerChanged
  <2>7. r.at = "collect"
    BY <1>7, <1>9 DEF CollectDelta
  <2>8. r.text \in Seq(Pieces)
    BY <1>1, <1>7, <2>7 DEF Heard
  <2>9. text \in Seq(Pieces)
    BY <2>2, <2>8, DeltaHeard
  <2>10. Heard(w)
    BY <2>6, <2>7, <2>9 DEF Heard
  <2>11. titler'[t] = w
    BY <1>1, <2>5
  <2>. QED  BY <2>5, <2>10, <2>11
<1>10. CASE CollectEnds(t)
  <2>1. PICK title : title = SanitizeTitle(r.text)
    OBVIOUS
  <2>2. PICK v : v = [[r EXCEPT !.at = "write"] EXCEPT !.title = title]
    OBVIOUS
  <2>3. titler' = [titler EXCEPT ![t] = IF title = <<>> THEN Over ELSE v]
    BY <1>7, <1>10, <2>1, <2>2 DEF CollectEnds
  <2>4. PICK w : w = IF title = <<>> THEN Over ELSE v
    OBVIOUS
  <2>5. titler' = [titler EXCEPT ![t] = w]
    BY <2>3, <2>4
  <2>6. r.at = "collect"
    BY <1>7, <1>10 DEF CollectEnds
  <2>7. r.text \in Seq(Pieces)
    BY <1>1, <1>7, <2>6 DEF Heard
  <2>8. PICK a : a = "write"
    OBVIOUS
  <2>9. v = [[r EXCEPT !.at = a] EXCEPT !.title = title]
    BY <2>2, <2>8
  <2>10. v.at = a /\ v.text = r.text /\ v.title = title
    BY <1>8, <2>9, WorkerChanged
  <2>11. Heard(w)
    <3>1. CASE title = <<>>
      BY <2>4, <3>1 DEF Heard, Over
    <3>2. CASE title # <<>>
      BY <2>1, <2>4, <2>7, <2>8, <2>10, <3>2 DEF Heard
    <3>. QED  BY <3>1, <3>2
  <2>12. titler'[t] = w
    BY <1>1, <2>5
  <2>. QED  BY <2>5, <2>11, <2>12
<1>. QED  BY <1>5, <1>6, <1>9, <1>10 DEF Title

LEMMA HeardInvariance == IInv /\ AllHeard /\ [Next]_vars => AllHeard'
<1>1. SUFFICES ASSUME IInv, AllHeard, [Next]_vars PROVE AllHeard'
  OBVIOUS
<1>2. Typed
  BY <1>1 DEF IInv
<1>3. CASE titler' = titler
  BY <1>1, <1>3 DEF AllHeard
<1>4. CASE Exit \/ Crash
  <2>1. titler' = [t \in Threads |-> IF titler[t] = NoTitler THEN NoTitler ELSE Over]
    BY <1>4 DEF Exit, Crash, Ends
  <2>2. Heard(NoTitler) /\ Heard(Over)
    BY DEF Heard, NoTitler, Over
  <2>. QED  BY <2>1, <2>2 DEF AllHeard
<1>5. ASSUME NEW c \in Conns, SpawnTitleGeneration(c) PROVE AllHeard'
  <2>. DEFINE w == [at |-> "token", conn |-> c, text |-> <<>>, frames |-> 0, title |-> <<>>]
  <2>1. titler' = [titler EXCEPT ![conn[c].made] = w]
    BY <1>5 DEF SpawnTitleGeneration
  <2>2. Heard(w)
    BY DEF Heard
  <2>3. titler = [t \in Threads |-> titler[t]]
    BY <1>2 DEF Typed
  <2>. HIDE DEF w
  <2>. QED  BY <1>1, <2>1, <2>2, <2>3 DEF AllHeard
<1>6. ASSUME NEW t \in Threads, Title(t) PROVE AllHeard'
  BY <1>1, <1>2, <1>6, TitleHears
<1>7. CASE Start \/ Boot \/ RequestShutdown \/ UNCHANGED vars
  BY <1>3, <1>7 DEF Start, Boot, RequestShutdown, vars
<1>8. ASSUME NEW c \in Conns,
             \/ Handshake(c) \/ Send(c) \/ CloseOnShutdown(c)
             \/ ReceiveEnd(c) \/ Receive(c) \/ Deliver(c)
      PROVE  AllHeard'
  BY <1>3, <1>8 DEF Handshake, Send, CloseOnShutdown, ReceiveEnd, Receive, Deliver
<1>9. ASSUME NEW c \in Conns, Handle(c) PROVE AllHeard'
  <2>1. titler' = titler \/ SpawnTitleGeneration(c)
    BY <1>9 DEF Handle, Dispatch, DecodeParams, StatementFails, Check, InsertThread, Rename,
       Archive, ReadThreads, ReadArchivedThreads, Holds, SendResponse, HandleDecide
  <2>. QED  BY <1>3, <1>5, <2>1
<1>10. ASSUME NEW d \in decide, Decide(d) PROVE AllHeard'
  BY <1>3, <1>10 DEF Decide, NotifyExecuting, HandleDecideTickTickWrite, NotifyDecided,
     DecideTaskDies
<1>. QED  BY <1>1, <1>4, <1>6, <1>7, <1>8, <1>9, <1>10 DEF Next

(***************************************************************************)
(* A title that is kept is one clean line, no longer than the cap, of      *)
(* nothing but what the Worker said outside its reasoning, whatever tags,  *)
(* blanks and quotes are in its deltas and however they cut them; and what *)
(* a Client is told was stored (runs/title.rs, worker/title.rs).           *)
(***************************************************************************)
THEOREM TitlesAlwaysTrue == Spec => []TitlesAreTrue
<1>1. Init => AllHeard
  BY DEF Init, AllHeard, Heard, NoTitler
<1>2. AllHeard => TitleIsWhatWasSaid
  <2>1. ASSUME AllHeard, NEW t \in Threads, titler[t].at \in {"write", "tell"}
        PROVE  /\ OneCleanLine(titler[t].title)
               /\ Len(titler[t].title) <= TitleMax
               /\ \A i \in DOMAIN titler[t].title :
                      titler[t].title[i] \in Said(titler[t].text) \cup {Blank}
    <3>1. PICK text, title : text = titler[t].text /\ title = titler[t].title
      OBVIOUS
    <3>2. text \in Seq(Pieces) /\ title = SanitizeTitle(text) /\ title # <<>>
      BY <2>1, <3>1 DEF AllHeard, Heard
    <3>3. /\ OneCleanLine(title) /\ Len(title) <= TitleMax
          /\ \A i \in DOMAIN title : title[i] \in Said(text) \cup {Blank}
      BY <3>2, TitleOfReply
    <3>. QED  BY <3>1, <3>3
  <2>. QED  BY <2>1 DEF TitleIsWhatWasSaid
<1>3. ToldTitleWasStored /\ TitleIsWhatWasSaid => TitlesAreTrue
  BY DEF TitlesAreTrue
<1>. QED  BY <1>1, <1>2, <1>3, AlwaysIInv, HeardInvariance, TitlesToldWereStored, PTL DEF Spec
=============================================================================
