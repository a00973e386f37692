------------------------- MODULE Conversation_proofs -------------------------
(***************************************************************************)
(* What a Worker is told of a Thread and what clients are shown of it, for *)
(* every number of Threads, Runs, uploads and steps.                       *)
(***************************************************************************)
EXTENDS Conversation, SequenceTheorems, WellFoundedInduction, TLAPS

(***************************************************************************)
(* Induction.  A set that is closed under successor, or under appending,   *)
(* is all there is: what the library states with an operator as parameter, *)
(* here from the least-element form of well-foundedness.                   *)
(***************************************************************************)
LEMMA NatInduct ==
  ASSUME NEW S, 0 \in S, \A n \in Nat : n \in S => n + 1 \in S
  PROVE  Nat \subseteq S
<1> DEFINE T == {n \in Nat : n \notin S}
<1> SUFFICES ASSUME T # {} PROVE FALSE
  OBVIOUS
<1> HIDE DEF T
<1>1. PICK n \in T : \A m \in T : ~(m < n)
  <2> DEFINE R == OpToRel(<, Nat)
  <2>1. T \subseteq Nat /\ IsWellFoundedOn(R, Nat)
    BY NatLessThanWellFounded, Zenon DEF T
  <2>2. PICK n \in T : \A m \in T : ~ (<<m, n>> \in R)
    <3> HIDE DEF R
    <3> QED BY <2>1, WFMin
  <2>3. \A m \in T : ~(m < n)
    BY <2>1, <2>2 DEF OpToRel
  <2> HIDE DEF R
  <2> QED BY <2>2, <2>3
<1>2. n \in Nat /\ n \notin S /\ n # 0
  BY <1>1 DEF T
<1>3. n - 1 \in Nat /\ n - 1 < n /\ n = (n - 1) + 1
  BY <1>2
<1>4. n - 1 \in S
  BY <1>1, <1>3 DEF T
<1> QED BY <1>2, <1>3, <1>4

LEMMA SeqInduct ==
  ASSUME NEW T, NEW S, <<>> \in S,
         \A s \in Seq(T), x \in T : s \in S => Append(s, x) \in S
  PROVE  Seq(T) \subseteq S
<1> DEFINE N == {n \in Nat : \A s \in Seq(T) : Len(s) = n => s \in S}
<1>1. 0 \in N
  OBVIOUS
<1>2. ASSUME NEW n \in Nat, n \in N PROVE n + 1 \in N
  <2> SUFFICES ASSUME NEW s \in Seq(T), Len(s) = n + 1 PROVE s \in S
    OBVIOUS
  <2> DEFINE t == SubSeq(s, 1, n)
  <2>1. t \in Seq(T) /\ Len(t) = n /\ s[n + 1] \in T
    OBVIOUS
  <2>2. s = Append(t, s[n + 1])
    OBVIOUS
  <2>3. t \in S
    BY <1>2, <2>1
  <2> HIDE DEF t
  <2> QED BY <2>1, <2>2, <2>3
<1> HIDE DEF N
<1>3. Nat \subseteq N
  BY <1>1, <1>2, NatInduct
<1> QED
  <2> SUFFICES ASSUME NEW s \in Seq(T) PROVE s \in S
    OBVIOUS
  <2>1. Len(s) \in N
    BY <1>3
  <2> QED BY <2>1 DEF N

(***************************************************************************)
(* Concat.                                                                 *)
(***************************************************************************)
Joins(s, n, f) == f = [i \in 0 .. n |-> IF i = 0 THEN <<>> ELSE f[i - 1] \o s[i]]

LEMMA JoinsExists ==
  ASSUME NEW s, NEW n \in Nat PROVE \E f : Joins(s, n, f)
<1> DEFINE G == {m \in Nat : \E f : Joins(s, m, f)}
<1>1. 0 \in G
  <2>1. Joins(s, 0, [i \in 0 .. 0 |-> <<>>])
    BY DEF Joins
  <2> QED BY <2>1
<1>2. ASSUME NEW m \in Nat, m \in G PROVE m + 1 \in G
  <2>1. PICK f : Joins(s, m, f)
    BY <1>2
  <2> DEFINE g == [i \in 0 .. m + 1 |-> IF i = m + 1 THEN f[m] \o s[i] ELSE f[i]]
  <2>2. \A i \in 0 .. m : g[i] = f[i] /\ f[i] = IF i = 0 THEN <<>> ELSE f[i - 1] \o s[i]
    BY <2>1 DEF Joins
  <2>3. ASSUME NEW i \in 0 .. m + 1
        PROVE  g[i] = IF i = 0 THEN <<>> ELSE g[i - 1] \o s[i]
    <3>1. CASE i = m + 1
      <4>1. i # 0 /\ i - 1 = m /\ g[m] = f[m]
        BY <3>1
      <4> QED BY <3>1, <4>1
    <3>2. CASE i \in 0 .. m
      <4>1. i # 0 => i - 1 \in 0 .. m
        BY <3>2
      <4>2. g[i] = f[i] /\ (i # 0 => g[i - 1] = f[i - 1])
        BY <3>2, <4>1, <2>2
      <4> HIDE DEF g
      <4> QED BY <3>2, <4>2, <2>2
    <3> QED BY <3>1, <3>2
  <2>4. Joins(s, m + 1, g)
    BY <2>3 DEF Joins
  <2> QED BY <2>4
<1> HIDE DEF G
<1>3. Nat \subseteq G
  BY <1>1, <1>2, NatInduct
<1> QED BY <1>3 DEF G

Begins(s, n, t) == \A i \in 1 .. n : s[i] = t[i]

LEMMA JoinsAgree ==
  ASSUME NEW s, NEW n \in Nat, NEW t, Begins(s, n, t), NEW m \in Nat, n <= m,
         NEW f, Joins(s, n, f), NEW g, Joins(t, m, g)
  PROVE  f[n] = g[n]
<1> DEFINE G == {k \in Nat : k <= n => f[k] = g[k]}
<1>1. /\ \A i \in 0 .. n : f[i] = IF i = 0 THEN <<>> ELSE f[i - 1] \o s[i]
      /\ \A i \in 0 .. m : g[i] = IF i = 0 THEN <<>> ELSE g[i - 1] \o t[i]
  BY DEF Joins
<1>2. 0 \in G
  BY <1>1
<1>3. ASSUME NEW k \in Nat, k \in G PROVE k + 1 \in G
  <2> SUFFICES ASSUME k + 1 <= n PROVE f[k + 1] = g[k + 1]
    OBVIOUS
  <2>1. f[k] = g[k] /\ k + 1 \in 0 .. n /\ k + 1 \in 0 .. m /\ k + 1 # 0 /\ (k + 1) - 1 = k
        /\ s[k + 1] = t[k + 1]
    BY <1>3 DEF Begins
  <2> QED BY <1>1, <2>1
<1> HIDE DEF G
<1>4. Nat \subseteq G
  BY <1>2, <1>3, NatInduct
<1> QED BY <1>4 DEF G

LEMMA ConcatJoins ==
  ASSUME NEW T, NEW seqs \in Seq(T)
  PROVE  \E f : Joins(seqs, Len(seqs), f) /\ Concat(seqs) = f[Len(seqs)]
<1>1. seqs \o <<>> = seqs /\ Len(seqs) \in Nat
  OBVIOUS
<1> DEFINE h == CHOOSE f : Joins(seqs, Len(seqs), f)
<1>2. Joins(seqs, Len(seqs), h)
  BY <1>1, JoinsExists
<1>3. Concat(seqs) = h[Len(seqs)]
  BY <1>1 DEF Concat, Joins
<1> QED BY <1>2, <1>3

LEMMA ConcatEmpty == Concat(<<>>) = <<>>
<1>1. <<>> \in Seq({}) /\ Len(<<>>) = 0
  OBVIOUS
<1>2. PICK f : Joins(<<>>, 0, f) /\ Concat(<<>>) = f[0]
  BY <1>1, ConcatJoins
<1> QED BY <1>2 DEF Joins

LEMMA ConcatAppend ==
  ASSUME NEW T, NEW seqs \in Seq(T), NEW x \in T
  PROVE  Concat(Append(seqs, x)) = Concat(seqs) \o x
<1> DEFINE n == Len(seqs)
           more == Append(seqs, x)
<1>1. n \in Nat /\ more \in Seq(T) /\ Len(more) = n + 1 /\ more[n + 1] = x
      /\ \A i \in 1 .. n : seqs[i] = more[i]
  OBVIOUS
<1>2. PICK f : Joins(seqs, n, f) /\ Concat(seqs) = f[n]
  BY ConcatJoins
<1>3. PICK g : Joins(more, n + 1, g) /\ Concat(more) = g[n + 1]
  BY <1>1, ConcatJoins
<1> HIDE DEF n, more
<1>4. g[n] = f[n]
  <2>1. n <= n + 1 /\ n + 1 \in Nat
    BY <1>1
  <2>2. Begins(seqs, n, more)
    BY <1>1 DEF Begins
  <2>3. Joins(seqs, n, f) /\ Joins(more, n + 1, g)
    BY <1>2, <1>3
  <2>4. f[n] = g[n]
    BY <1>1, <2>1, <2>2, <2>3, JoinsAgree
  <2> QED BY <2>4
<1>5. g[n + 1] = g[n] \o more[n + 1]
  <2>1. n + 1 \in 0 .. n + 1 /\ n + 1 # 0 /\ (n + 1) - 1 = n
    BY <1>1
  <2> QED BY <1>3, <2>1 DEF Joins
<1> QED BY <1>1, <1>2, <1>3, <1>4, <1>5 DEF more

LEMMA ConcatTyped ==
  ASSUME NEW T, NEW seqs \in Seq(Seq(T)) PROVE Concat(seqs) \in Seq(T)
<1> DEFINE S == {s \in Seq(Seq(T)) : Concat(s) \in Seq(T)}
<1>1. <<>> \in S
  <2>1. <<>> \in Seq(Seq(T)) /\ <<>> \in Seq(T)
    OBVIOUS
  <2> QED BY <2>1, ConcatEmpty
<1>2. ASSUME NEW s \in Seq(Seq(T)), NEW x \in Seq(T), s \in S PROVE Append(s, x) \in S
  <2>1. Concat(Append(s, x)) = Concat(s) \o x
    BY ConcatAppend
  <2>2. Append(s, x) \in Seq(Seq(T))
    OBVIOUS
  <2>3. Concat(s) \o x \in Seq(T)
    BY <1>2
  <2> QED BY <2>1, <2>2, <2>3
<1> HIDE DEF S
<1>3. Seq(Seq(T)) \subseteq S
  BY <1>1, <1>2, SeqInduct
<1> QED BY <1>3 DEF S

(***************************************************************************)
(* Where the pieces of a Concat lie.                                       *)
(***************************************************************************)
Placed(whole, piece, o) ==
    /\ o \in Nat /\ o + Len(piece) <= Len(whole)
    /\ \A j \in 1 .. Len(piece) : whole[o + j] = piece[j]
Places(seqs) == \A i \in 1 .. Len(seqs) : \E o \in Nat : Placed(Concat(seqs), seqs[i], o)
Covers(seqs) ==
    \A k \in 1 .. Len(Concat(seqs)) : \E i \in 1 .. Len(seqs), o \in Nat :
        Placed(Concat(seqs), seqs[i], o) /\ k \in o + 1 .. o + Len(seqs[i])

LEMMA PlacedInMore ==
  ASSUME NEW T, NEW whole \in Seq(T), NEW more \in Seq(T), NEW piece \in Seq(T),
         NEW o \in Nat, Placed(whole, piece, o)
  PROVE  Placed(whole \o more, piece, o)
<1>1. Len(whole \o more) = Len(whole) + Len(more) /\ Len(whole) \in Nat /\ Len(more) \in Nat
      /\ Len(piece) \in Nat
  OBVIOUS
<1>2. ASSUME NEW j \in 1 .. Len(piece) PROVE (whole \o more)[o + j] = piece[j]
  <2>1. o + j \in 1 .. Len(whole) /\ whole[o + j] = piece[j]
    BY <1>1 DEF Placed
  <2>2. (whole \o more)[o + j] = whole[o + j]
    BY <2>1
  <2> QED BY <2>1, <2>2
<1> QED BY <1>1, <1>2 DEF Placed

LEMMA PlacedLast ==
  ASSUME NEW T, NEW whole \in Seq(T), NEW piece \in Seq(T)
  PROVE  Placed(whole \o piece, piece, Len(whole))
<1>1. Len(whole \o piece) = Len(whole) + Len(piece) /\ Len(whole) \in Nat /\ Len(piece) \in Nat
  OBVIOUS
<1>2. ASSUME NEW j \in 1 .. Len(piece) PROVE (whole \o piece)[Len(whole) + j] = piece[j]
  OBVIOUS
<1> QED BY <1>1, <1>2 DEF Placed

LEMMA ConcatPieces ==
  ASSUME NEW T, NEW seqs \in Seq(Seq(T)) PROVE Places(seqs) /\ Covers(seqs)
<1> DEFINE S == {s \in Seq(Seq(T)) : Places(s) /\ Covers(s)}
<1>1. <<>> \in S
  <2>1. <<>> \in Seq(Seq(T)) /\ Len(<<>>) = 0
    OBVIOUS
  <2> QED BY <2>1, ConcatEmpty DEF Places, Covers
<1>2. ASSUME NEW s \in Seq(Seq(T)), NEW x \in Seq(T), s \in S PROVE Append(s, x) \in S
  <2> DEFINE more == Append(s, x)
             whole == Concat(s)
             n == Len(s)
  <2>1. /\ n \in Nat /\ more \in Seq(Seq(T)) /\ Len(more) = n + 1 /\ more[n + 1] = x
        /\ \A i \in 1 .. n : more[i] = s[i] /\ s[i] \in Seq(T)
    OBVIOUS
  <2>2. Concat(more) = whole \o x
    BY ConcatAppend
  <2>3. whole \in Seq(T)
    BY ConcatTyped
  <2>4. Places(s) /\ Covers(s)
    BY <1>2
  <2> HIDE DEF more, whole, n
  <2>5. Placed(Concat(more), more[n + 1], Len(whole)) /\ Len(whole) \in Nat
    BY <2>1, <2>2, <2>3, PlacedLast
  <2>6. ASSUME NEW i \in 1 .. n, NEW o \in Nat, Placed(whole, s[i], o)
        PROVE  Placed(Concat(more), more[i], o)
    BY <2>1, <2>2, <2>3, <2>6, PlacedInMore
  <2>7. Places(more)
    <3> SUFFICES ASSUME NEW i \in 1 .. n + 1
                 PROVE  \E o \in Nat : Placed(Concat(more), more[i], o)
      BY <2>1 DEF Places
    <3>1. CASE i = n + 1
      BY <3>1, <2>5
    <3>2. CASE i \in 1 .. n
      <4>1. PICK o \in Nat : Placed(whole, s[i], o)
        BY <3>2, <2>4 DEF Places, whole, n
      <4> QED BY <3>2, <4>1, <2>6
    <3> QED BY <3>1, <3>2, <2>1
  <2>8. Covers(more)
    <3> SUFFICES ASSUME NEW k \in 1 .. Len(Concat(more))
                 PROVE  \E i \in 1 .. n + 1, o \in Nat :
                           Placed(Concat(more), more[i], o) /\ k \in o + 1 .. o + Len(more[i])
      BY <2>1 DEF Covers
    <3>1. Len(Concat(more)) = Len(whole) + Len(x) /\ Len(whole) \in Nat /\ Len(x) \in Nat
      BY <2>2, <2>3
    <3>2. CASE k \in 1 .. Len(whole)
      <4>1. PICK i \in 1 .. n, o \in Nat : Placed(whole, s[i], o) /\ k \in o + 1 .. o + Len(s[i])
        BY <3>2, <2>4 DEF Covers, whole, n
      <4>2. Placed(Concat(more), more[i], o) /\ i \in 1 .. n + 1 /\ more[i] = s[i]
        BY <4>1, <2>6, <2>1
      <4> QED BY <4>1, <4>2
    <3>3. CASE k \in Len(whole) + 1 .. Len(whole) + Len(x)
      BY <3>3, <2>5, <2>1
    <3> QED BY <3>1, <3>2, <3>3
  <2> QED BY <2>1, <2>7, <2>8 DEF more
<1> HIDE DEF S
<1>3. Seq(Seq(T)) \subseteq S
  BY <1>1, <1>2, SeqInduct
<1> QED BY <1>3 DEF S

(***************************************************************************)
(* Spread: each element replaced by a sequence.                            *)
(***************************************************************************)
Each(s, e) == [i \in DOMAIN s |-> e[s[i]]]
Spread(s, e) == Concat(Each(s, e))
Maps(e, T, V) == \A x \in T : e[x] \in V

LEMMA EachTyped ==
  ASSUME NEW T, NEW V, NEW s \in Seq(T), NEW e, Maps(e, T, V)
  PROVE  Each(s, e) \in Seq(V)
<1>1. DOMAIN s = 1 .. Len(s) /\ Len(s) \in Nat /\ \A i \in 1 .. Len(s) : s[i] \in T
  OBVIOUS
<1> QED BY <1>1 DEF Each, Maps

LEMMA EachLength ==
  ASSUME NEW T, NEW s \in Seq(T), NEW e PROVE Len(Each(s, e)) = Len(s)
<1>1. DOMAIN s = 1 .. Len(s) /\ Len(s) \in Nat
  OBVIOUS
<1> QED BY <1>1 DEF Each

LEMMA SpreadEmpty == ASSUME NEW e PROVE Spread(<<>>, e) = <<>>
<1>1. Each(<<>>, e) = <<>>
  BY DEF Each
<1> QED BY <1>1, ConcatEmpty DEF Spread

LEMMA SpreadTyped ==
  ASSUME NEW T, NEW U, NEW s \in Seq(T), NEW e, Maps(e, T, Seq(U))
  PROVE  Spread(s, e) \in Seq(U)
<1>1. Each(s, e) \in Seq(Seq(U))
  BY EachTyped
<1> QED BY <1>1, ConcatTyped DEF Spread

LEMMA SpreadAppend ==
  ASSUME NEW T, NEW U, NEW s \in Seq(T), NEW x \in T, NEW e, Maps(e, T, Seq(U))
  PROVE  Spread(Append(s, x), e) = Spread(s, e) \o e[x]
<1>1. Each(s, e) \in Seq(Seq(U)) /\ Len(Each(s, e)) = Len(s) /\ e[x] \in Seq(U)
  <2>1. Each(s, e) \in Seq(Seq(U))
    BY EachTyped
  <2> QED BY <2>1, EachLength DEF Maps
<1>2. Each(Append(s, x), e) = Append(Each(s, e), e[x])
  <2>1. /\ DOMAIN s = 1 .. Len(s) /\ Len(s) \in Nat /\ DOMAIN Append(s, x) = 1 .. Len(s) + 1
        /\ Append(s, x)[Len(s) + 1] = x /\ \A i \in 1 .. Len(s) : Append(s, x)[i] = s[i]
    OBVIOUS
  <2>2. /\ DOMAIN Append(Each(s, e), e[x]) = 1 .. Len(s) + 1
        /\ Append(Each(s, e), e[x])[Len(s) + 1] = e[x]
        /\ \A i \in 1 .. Len(s) : Append(Each(s, e), e[x])[i] = Each(s, e)[i]
    BY <1>1
  <2>3. Append(Each(s, e), e[x]) \in Seq(Seq(U))
    BY <1>1
  <2>4. Append(Each(s, e), e[x])
          = [i \in 1 .. Len(s) + 1 |-> Append(Each(s, e), e[x])[i]]
    BY <2>2, <2>3
  <2>5. \A i \in 1 .. Len(s) + 1 : Append(Each(s, e), e[x])[i] = e[Append(s, x)[i]]
    <3> SUFFICES ASSUME NEW i \in 1 .. Len(s) + 1
                 PROVE  Append(Each(s, e), e[x])[i] = e[Append(s, x)[i]]
      OBVIOUS
    <3>1. CASE i = Len(s) + 1
      BY <3>1, <2>1, <2>2
    <3>2. CASE i \in 1 .. Len(s)
      <4>1. Each(s, e)[i] = e[s[i]]
        BY <3>2, <2>1 DEF Each
      <4> QED BY <3>2, <4>1, <2>1, <2>2
    <3>3. i = Len(s) + 1 \/ i \in 1 .. Len(s)
      BY <2>1
    <3> QED BY <3>1, <3>2, <3>3
  <2> QED BY <2>1, <2>4, <2>5 DEF Each
<1>3. Concat(Append(Each(s, e), e[x])) = Concat(Each(s, e)) \o e[x]
  BY <1>1, ConcatAppend
<1> QED BY <1>2, <1>3 DEF Spread

\* Two ways to spread that agree on the elements there are.
LEMMA SpreadSame ==
  ASSUME NEW T, NEW s \in Seq(T), NEW e, NEW g, \A i \in 1 .. Len(s) : e[s[i]] = g[s[i]]
  PROVE  Spread(s, e) = Spread(s, g)
<1>1. DOMAIN s = 1 .. Len(s)
  OBVIOUS
<1>2. Each(s, e) = Each(s, g)
  BY <1>1 DEF Each
<1> QED BY <1>2 DEF Spread

LEMMA SpreadOne ==
  ASSUME NEW U, NEW x, NEW e, e[x] \in Seq(U) PROVE Spread(<<x>>, e) = e[x]
<1>1. Each(<<x>>, e) = <<e[x]>>
  BY DEF Each
<1>2. <<e[x]>> = Append(<<>>, e[x]) /\ <<>> \in Seq(Seq(U))
  OBVIOUS
<1>3. Concat(<<e[x]>>) = <<>> \o e[x]
  BY <1>2, ConcatAppend, ConcatEmpty
<1> QED BY <1>1, <1>3 DEF Spread

LEMMA SpreadCat ==
  ASSUME NEW T, NEW U, NEW s \in Seq(T), NEW t \in Seq(T), NEW e, Maps(e, T, Seq(U))
  PROVE  Spread(s \o t, e) = Spread(s, e) \o Spread(t, e)
<1> DEFINE S == {u \in Seq(T) : Spread(s \o u, e) = Spread(s, e) \o Spread(u, e)}
<1>1. <<>> \in S
  <2>1. s \o <<>> = s /\ <<>> \in Seq(T)
    OBVIOUS
  <2>2. Spread(s, e) \in Seq(U)
    BY SpreadTyped
  <2>3. Spread(s, e) \o <<>> = Spread(s, e)
    BY <2>2
  <2> QED BY <2>1, <2>3, SpreadEmpty
<1>2. ASSUME NEW u \in Seq(T), NEW x \in T, u \in S PROVE Append(u, x) \in S
  <2> DEFINE w == s \o u
             a == Spread(s, e)
             b == Spread(u, e)
             c == e[x]
  <2>1. s \o Append(u, x) = Append(w, x) /\ w \in Seq(T) /\ Append(u, x) \in Seq(T)
    OBVIOUS
  <2>2. Spread(w, e) = a \o b
    BY <1>2
  <2>3. a \in Seq(U) /\ b \in Seq(U) /\ c \in Seq(U)
    BY SpreadTyped DEF Maps
  <2>4. Spread(Append(u, x), e) = b \o c
    BY SpreadAppend
  <2> HIDE DEF w
  <2>5. Spread(Append(w, x), e) = Spread(w, e) \o c
    BY <2>1, SpreadAppend
  <2> HIDE DEF a, b, c
  <2>6. (a \o b) \o c = a \o (b \o c)
    BY <2>3, ConcatAssociative
  <2> QED BY <2>1, <2>2, <2>4, <2>5, <2>6 DEF a
<1> HIDE DEF S
<1>3. Seq(T) \subseteq S
  BY <1>1, <1>2, SeqInduct
<1> QED BY <1>3 DEF S

\* To spread what was strung together, spread the pieces.
LEMMA SpreadConcat ==
  ASSUME NEW T, NEW U, NEW seqs \in Seq(Seq(T)), NEW e, Maps(e, T, Seq(U))
  PROVE  Spread(Concat(seqs), e) = Spread(seqs, [x \in Seq(T) |-> Spread(x, e)])
<1> DEFINE g == [x \in Seq(T) |-> Spread(x, e)]
           S == {s \in Seq(Seq(T)) : Spread(Concat(s), e) = Spread(s, g)}
<1>0. Maps(g, Seq(T), Seq(U)) /\ \A x \in Seq(T) : g[x] = Spread(x, e)
  BY SpreadTyped DEF Maps
<1> HIDE DEF g
<1>1. <<>> \in S
  <2>1. <<>> \in Seq(Seq(T))
    OBVIOUS
  <2> QED BY <2>1, SpreadEmpty, ConcatEmpty
<1>2. ASSUME NEW s \in Seq(Seq(T)), NEW x \in Seq(T), s \in S PROVE Append(s, x) \in S
  <2>1. Concat(Append(s, x)) = Concat(s) \o x
    BY ConcatAppend
  <2>2. Concat(s) \in Seq(T)
    BY ConcatTyped
  <2>3. Spread(Concat(s) \o x, e) = Spread(Concat(s), e) \o Spread(x, e)
    BY <2>2, SpreadCat
  <2>4. Spread(Append(s, x), g) = Spread(s, g) \o g[x]
    BY <1>0, SpreadAppend
  <2>5. Append(s, x) \in Seq(Seq(T))
    OBVIOUS
  <2> QED BY <1>0, <1>2, <2>1, <2>3, <2>4, <2>5
<1> HIDE DEF S
<1>3. Seq(Seq(T)) \subseteq S
  BY <1>1, <1>2, SeqInduct
<1> QED BY <1>3 DEF S, g

(***************************************************************************)
(* Only.                                                                   *)
(***************************************************************************)
Keep(S, T) == [x \in T |-> IF x \in S THEN <<x>> ELSE <<>>]

LEMMA OnlySpread ==
  ASSUME NEW T, NEW s \in Seq(T), NEW S
  PROVE  Only(s, S) = Spread(s, Keep(S, T)) /\ Only(s, S) \in Seq(T \cap S)
<1>1. DOMAIN s = 1 .. Len(s) /\ \A i \in 1 .. Len(s) : s[i] \in T
  OBVIOUS
<1>2. [i \in DOMAIN s |-> IF s[i] \in S THEN <<s[i]>> ELSE <<>>] = Each(s, Keep(S, T))
  BY <1>1 DEF Each, Keep
<1>3. Maps(Keep(S, T), T, Seq(T \cap S))
  <2> SUFFICES ASSUME NEW x \in T PROVE Keep(S, T)[x] \in Seq(T \cap S)
    BY DEF Maps
  <2>1. CASE x \in S
    <3>1. x \in T \cap S
      BY <2>1
    <3>2. <<x>> \in Seq(T \cap S)
      BY <3>1
    <3> QED BY <2>1, <3>2 DEF Keep
  <2>2. CASE x \notin S
    BY <2>2 DEF Keep
  <2> QED BY <2>1, <2>2
<1>4. Only(s, S) = Spread(s, Keep(S, T))
  BY <1>2 DEF Only, Spread
<1> QED BY <1>3, <1>4, SpreadTyped

\* Nothing of S is lost.
LEMMA OnlyHas ==
  ASSUME NEW T, NEW s \in Seq(T), NEW S, NEW i \in 1 .. Len(s), s[i] \in S
  PROVE  \E k \in 1 .. Len(Only(s, S)) : Only(s, S)[k] = s[i]
<1> DEFINE q == Each(s, Keep(S, T))
<1>1. s[i] \in T /\ DOMAIN s = 1 .. Len(s)
  OBVIOUS
<1>2. q \in Seq(Seq(T))
  <2>1. Maps(Keep(S, T), T, Seq(T))
    BY DEF Keep, Maps
  <2> QED BY <2>1, EachTyped
<1>3. Len(q) = Len(s) /\ q[i] = <<s[i]>>
  BY <1>1, EachLength DEF Each, Keep
<1>4. Only(s, S) = Concat(q)
  BY OnlySpread DEF Spread
<1> HIDE DEF q
<1>5. PICK o \in Nat : Placed(Concat(q), q[i], o)
  BY <1>2, <1>3, ConcatPieces DEF Places
<1>6. Len(q[i]) = 1 /\ q[i][1] = s[i]
  BY <1>3
<1>7. Len(Concat(q)) \in Nat
  BY <1>2, ConcatTyped
<1>8. o + 1 \in 1 .. Len(Concat(q)) /\ Concat(q)[o + 1] = s[i]
  BY <1>5, <1>6, <1>7 DEF Placed
<1> QED BY <1>4, <1>8

\* Spreading what is left of s is spreading s with nothing for the rest.
LEMMA SpreadOnly ==
  ASSUME NEW T, NEW U, NEW s \in Seq(T), NEW S, NEW e, Maps(e, T, Seq(U))
  PROVE  Spread(Only(s, S), e) = Spread(s, [x \in T |-> IF x \in S THEN e[x] ELSE <<>>])
<1> DEFINE k == Keep(S, T)
           f == [x \in Seq(T) |-> Spread(x, e)]
           h == [x \in T |-> IF x \in S THEN e[x] ELSE <<>>]
<1>1. DOMAIN s = 1 .. Len(s) /\ \A i \in 1 .. Len(s) : s[i] \in T
  OBVIOUS
<1>2. Maps(k, T, Seq(T))
  BY DEF Keep, Maps
<1>3. Each(s, k) \in Seq(Seq(T))
  BY <1>2, EachTyped
<1>4. Spread(Only(s, S), e) = Spread(Each(s, k), f)
  <2>1. Only(s, S) = Concat(Each(s, k))
    BY OnlySpread DEF Spread
  <2> HIDE DEF k
  <2>2. Spread(Concat(Each(s, k)), e) = Spread(Each(s, k), f)
    BY <1>3, SpreadConcat
  <2> QED BY <2>1, <2>2
<1>5. Each(Each(s, k), f) = Each(s, h)
  <2>1. DOMAIN Each(s, k) = 1 .. Len(s)
    BY <1>1 DEF Each
  <2>2. ASSUME NEW i \in 1 .. Len(s) PROVE f[Each(s, k)[i]] = h[s[i]]
    <3>1. Each(s, k)[i] = k[s[i]] /\ s[i] \in T /\ k[s[i]] \in Seq(T)
      BY <1>1, <1>2 DEF Each, Maps
    <3>2. f[k[s[i]]] = Spread(k[s[i]], e)
      BY <3>1
    <3>3. CASE s[i] \in S
      <4>1. k[s[i]] = <<s[i]>> /\ h[s[i]] = e[s[i]] /\ e[s[i]] \in Seq(U)
        BY <3>1, <3>3 DEF Keep, Maps
      <4> QED BY <3>1, <3>2, <4>1, SpreadOne
    <3>4. CASE s[i] \notin S
      <4>1. k[s[i]] = <<>> /\ h[s[i]] = <<>>
        BY <3>1, <3>4 DEF Keep
      <4> QED BY <3>1, <3>2, <4>1, SpreadEmpty
    <3> QED BY <3>3, <3>4
  <2> HIDE DEF k, f, h
  <2> QED BY <1>1, <2>1, <2>2 DEF Each
<1> QED BY <1>4, <1>5 DEF Spread

(***************************************************************************)
(* More about strung and spread sequences.                                 *)
(***************************************************************************)
LEMMA SpreadNothing ==
  ASSUME NEW T, NEW s \in Seq(T), NEW e, \A i \in 1 .. Len(s) : e[s[i]] = <<>>
  PROVE  Spread(s, e) = <<>>
<1> DEFINE z == [x \in T |-> <<>>]
           S == {t \in Seq(T) : Spread(t, z) = <<>>}
<1>1. \A i \in 1 .. Len(s) : s[i] \in T
  OBVIOUS
<1>2. Maps(z, T, Seq({})) /\ \A x \in T : z[x] = <<>>
  BY DEF Maps
<1> HIDE DEF z
<1>3. <<>> \in S
  BY SpreadEmpty
<1>4. ASSUME NEW t \in Seq(T), NEW x \in T, t \in S PROVE Append(t, x) \in S
  <2>1. Spread(Append(t, x), z) = Spread(t, z) \o z[x]
    BY <1>2, SpreadAppend
  <2>2. <<>> \o <<>> = <<>>
    OBVIOUS
  <2>3. Append(t, x) \in Seq(T)
    OBVIOUS
  <2> QED BY <1>2, <1>4, <2>1, <2>2, <2>3
<1> HIDE DEF S
<1>5. Seq(T) \subseteq S
  BY <1>3, <1>4, SeqInduct
<1>6. Spread(s, z) = <<>>
  BY <1>5 DEF S
<1>7. \A i \in 1 .. Len(s) : e[s[i]] = z[s[i]]
  BY <1>1, <1>2
<1> QED BY <1>6, <1>7, SpreadSame

\* Two sequences that spread alike, place by place.
LEMMA SpreadLike ==
  ASSUME NEW T, NEW s \in Seq(T), NEW t \in Seq(T), NEW e, Len(s) = Len(t),
         \A i \in 1 .. Len(s) : e[s[i]] = e[t[i]]
  PROVE  Spread(s, e) = Spread(t, e)
<1>1. DOMAIN s = 1 .. Len(s) /\ DOMAIN t = 1 .. Len(s)
  OBVIOUS
<1>2. Each(s, e) = Each(t, e)
  BY <1>1 DEF Each
<1> QED BY <1>2 DEF Spread

LEMMA ConcatFirst ==
  ASSUME NEW T, NEW seqs \in Seq(Seq(T)), seqs # <<>>, seqs[1] # <<>>
  PROVE  Concat(seqs) # <<>> /\ Concat(seqs)[1] = seqs[1][1]
<1> DEFINE S == {s \in Seq(Seq(T)) : s = <<>> \/ s[1] = <<>>
                                     \/ (Concat(s) # <<>> /\ Concat(s)[1] = s[1][1])}
<1>1. <<>> \in S
  OBVIOUS
<1>2. ASSUME NEW s \in Seq(Seq(T)), NEW x \in Seq(T), s \in S PROVE Append(s, x) \in S
  <2>1. Concat(Append(s, x)) = Concat(s) \o x /\ Concat(s) \in Seq(T)
    BY ConcatAppend, ConcatTyped
  <2>2. Append(s, x) \in Seq(Seq(T))
    OBVIOUS
  <2>3. CASE s = <<>>
    <3>1. Append(s, x)[1] = x
      BY <2>3
    <3>2. Concat(s) \o x = x
      BY <2>3, ConcatEmpty
    <3> QED BY <2>1, <2>2, <3>1, <3>2
  <2>4. CASE s # <<>>
    <3>1. Append(s, x)[1] = s[1]
      BY <2>4
    <3>2. ASSUME Concat(s) # <<>>
          PROVE  Concat(s) \o x # <<>> /\ (Concat(s) \o x)[1] = Concat(s)[1]
      BY <2>1, <3>2
    <3> QED BY <1>2, <2>1, <2>2, <2>4, <3>1, <3>2
  <2> QED BY <2>3, <2>4
<1> HIDE DEF S
<1>3. Seq(Seq(T)) \subseteq S
  BY <1>1, <1>2, SeqInduct
<1> QED BY <1>3 DEF S

LEMMA ConcatLast ==
  ASSUME NEW T, NEW seqs \in Seq(Seq(T)), seqs # <<>>, seqs[Len(seqs)] # <<>>
  PROVE  LET whole == Concat(seqs)
             last == seqs[Len(seqs)]
         IN  whole # <<>> /\ whole[Len(whole)] = last[Len(last)]
<1> DEFINE last == seqs[Len(seqs)]
           front == SubSeq(seqs, 1, Len(seqs) - 1)
<1>1. last \in Seq(T) /\ front \in Seq(Seq(T)) /\ seqs = Append(front, last) /\ last # <<>>
  OBVIOUS
<1> HIDE DEF last, front
<1>2. Concat(seqs) = Concat(front) \o last /\ Concat(front) \in Seq(T)
  BY <1>1, ConcatAppend, ConcatTyped
<1> DEFINE a == Concat(front)
<1> HIDE DEF a
<1>3. a \in Seq(T) /\ Concat(seqs) = a \o last
  BY <1>2 DEF a
<1>4. a \o last # <<>> /\ (a \o last)[Len(a \o last)] = last[Len(last)]
  BY <1>1, <1>3
<1> QED BY <1>3, <1>4 DEF last

\* The first and the last of what is left, when they are left.
LEMMA OnlyEnds ==
  ASSUME NEW T, NEW s \in Seq(T), NEW S, s # <<>>
  PROVE  /\ s[1] \in S => Only(s, S) # <<>> /\ Only(s, S)[1] = s[1]
         /\ s[Len(s)] \in S => Only(s, S) # <<>> /\ Only(s, S)[Len(Only(s, S))] = s[Len(s)]
<1> DEFINE q == Each(s, Keep(S, T))
<1>1. \A i \in 1 .. Len(s) : s[i] \in T /\ q[i] = IF s[i] \in S THEN <<s[i]>> ELSE <<>>
  BY DEF Each, Keep
<1>2. q \in Seq(Seq(T)) /\ Len(q) = Len(s)
  <2>1. Maps(Keep(S, T), T, Seq(T))
    BY DEF Keep, Maps
  <2> QED BY <2>1, EachTyped, EachLength
<1>3. Only(s, S) = Concat(q)
  BY OnlySpread DEF Spread
<1>4. 1 \in 1 .. Len(s) /\ Len(s) \in 1 .. Len(s)
  OBVIOUS
<1> HIDE DEF q
<1>5. q # <<>>
  BY <1>2, <1>4
<1>6. ASSUME s[1] \in S PROVE Concat(q) # <<>> /\ Concat(q)[1] = s[1]
  <2>1. q[1] = <<s[1]>>
    BY <1>1, <1>4, <1>6
  <2> QED BY <1>2, <1>5, <2>1, ConcatFirst
<1>7. ASSUME s[Len(s)] \in S PROVE Concat(q) # <<>> /\ Concat(q)[Len(Concat(q))] = s[Len(s)]
  <2>1. q[Len(q)] = <<s[Len(s)]>>
    BY <1>1, <1>2, <1>4, <1>7
  <2>2. q[Len(q)] # <<>> /\ Len(q[Len(q)]) = 1 /\ q[Len(q)][1] = s[Len(s)]
    BY <2>1
  <2>3. Concat(q) # <<>> /\ Concat(q)[Len(Concat(q))] = q[Len(q)][Len(q[Len(q)])]
    BY <1>2, <1>5, <2>2, ConcatLast
  <2> QED BY <2>2, <2>3
<1> QED BY <1>3, <1>6, <1>7

(***************************************************************************)
(* The inductive invariant.                                                *)
(***************************************************************************)
Texts == Seq({Word})
PartSet == [type : Types, text : Texts]
StepSet ==
    {PromptStep} \cup [kind : {"part"}, part : Nat]
    \cup [kind : {"call"}, result : Results \cup {"pending"}]
    \cup [kind : {"proposal"}, verdict : Verdicts \cup {"pending", "cancelled"}]
Milestones == {"running", "proposal_pending", "proposal_decided", "done", "error", "cancelled"}
Replies == {"streaming", "completed", "incomplete"}
RowSet ==
    [status : RunStatuses, thread : Threads \cup {0}, at : 0 .. MaxNow, prompt : {<<Prompt>>},
     images : Seq(Media), reply : Replies, parts : Seq(PartSet), steps : Seq(StepSet),
     milestone : Milestones]

\* What a status says of the reply and of the latest milestone.
ReplyOf(status) ==
    IF status \in {"running", "parked"} THEN "streaming"
    ELSE IF status = "completed" THEN "completed" ELSE "incomplete"
MilestonesOf(status) ==
    CASE status = "running"   -> {"running", "proposal_decided"}
      [] status = "parked"    -> {"proposal_pending", "proposal_decided"}
      [] status = "completed" -> {"done"}
      [] status = "errored"   -> {"error"}
      [] status = "cancelled" -> {"cancelled"}

\* The part a step of the timeline stands for.
PartNo == [step \in StepSet |-> IF step.kind = "part" THEN <<step.part>> ELSE <<>>]
UpTo(n) == [i \in 1 .. n |-> i]

LastStep(row) == row.steps[Len(row.steps)]

\* A timeline over n parts: it begins with the prompt, and its part steps
\* are the parts of the reply, each once and in order.
Timeline(steps, n) ==
    /\ steps \in Seq(StepSet) /\ steps # <<>> /\ steps[1] = PromptStep
    /\ \A i \in 1 .. Len(steps) : steps[i].kind = "part" => steps[i].part \in 1 .. n
    /\ Spread(steps, PartNo) = UpTo(n)

\* Only a parked Run has an undecided Proposal, and it is the last step.
WaitOK(row) ==
    /\ \A i \in 1 .. Len(row.steps) :
          row.steps[i] = ProposalStep => row.status = "parked" /\ i = Len(row.steps)
    /\ row.status = "parked" =>
          /\ LastStep(row).kind = "proposal" /\ LastStep(row).verdict # "cancelled"
          /\ row.milestone = "proposal_pending" => LastStep(row) = ProposalStep

RowOK(row) ==
    /\ row \in RowSet
    /\ row.reply = ReplyOf(row.status) /\ row.milestone \in MilestonesOf(row.status)
    /\ Timeline(row.steps, Len(row.parts)) /\ WaitOK(row)

MessageSet == [run : Runs, role : {"user", "assistant"}, text : Seq({Prompt, Word})]
Outcomes == Results \cup Verdicts \cup {"pending", "cancelled", "not executed"}
BlockSet ==
    [block : {"user"}, text : {<<Prompt>>}]
    \cup [block : {"assistant"}, text : Texts, type : Types]
    \cup [block : {"call"}] \cup [block : {"result"}, result : Outcomes]
TaskSet ==
    [pc : {"idle", "asked", "persisted", "live", "over"}, at : 0 .. MaxNow,
     thread : Threads \cup {0}, creates : BOOLEAN, images : Seq(Media), open : Nat,
     mode : {"none", "fresh", "resume"}, manifest : Seq(MessageSet) \cup Seq(BlockSet)]

\* A history: prompts and the final answers to them.
History(r, h) ==
    /\ h \in Seq(MessageSet)
    /\ \A i \in 1 .. Len(h) :
          /\ Persisted(h[i].run) /\ h[i].run # r
          /\ h[i] = Message(h[i].run, h[i].role)
          /\ h[i].role = "assistant" =>
                /\ run[h[i].run].reply = "completed"
                /\ i # 1 /\ h[i - 1] = Message(h[i].run, "user")

\* A transcript: from the prompt to the Decision.
Rebuilt(m) ==
    /\ m \in Seq(BlockSet) /\ m # <<>>
    /\ m[1].block = "user"
    /\ m[Len(m)].block = "result" /\ m[Len(m)].result \in {"accepted", "rejected"}
    /\ \A i \in 1 .. Len(m) :
          /\ m[i].block = "call" => i # Len(m) /\ m[i + 1].block = "result"
          /\ m[i].block = "assistant" => m[i].type # "reasoning"

RowsInv == /\ run \in [Runs -> RowSet \cup {NoRow}]
           /\ \A r \in Runs : Persisted(r) => RowOK(run[r])
OrderInv == /\ order \in Seq({r \in Runs : Persisted(r)})
            /\ \A r \in Runs : Persisted(r) => \E k \in 1 .. Len(order) : order[k] = r
TaskInv == /\ task \in [Runs -> TaskSet]
           /\ \A r \in Runs : task[r].pc \in {"persisted", "live"} =>
                 Persisted(r) /\ run[r].status \in {"running", "cancelled"}
           /\ \A r \in Runs : At(r, "live") => task[r].open \in {Closed, Len(run[r].parts)}
UploadSet == [file : {"none", "partial", "whole"}, row : BOOLEAN, pc : {"idle", "write", "insert"}]
MediaInv == /\ media \in [Media -> UploadSet]
            /\ \A m \in Media : /\ media[m].row => media[m].file = "whole" /\ media[m].pc = "idle"
                                /\ media[m].pc = "insert" => media[m].file = "whole"
Readables == {m \in Media : Readable(m)}
ImagesInv == \A r \in Runs : /\ task[r].images \in Seq(Readables)
                             /\ Persisted(r) => run[r].images \in Seq(Readables)
ManifestInv ==
    \A r \in Runs : /\ task[r].mode = "fresh" => History(r, task[r].manifest)
                    /\ task[r].mode = "resume" => Rebuilt(task[r].manifest)
IInv == RowsInv /\ OrderInv /\ TaskInv /\ MediaInv /\ ImagesInv /\ ManifestInv

(***************************************************************************)
(* Timelines.                                                              *)
(***************************************************************************)
LEMMA StepKinds ==
  /\ PromptStep \in StepSet /\ CallStep \in StepSet /\ ProposalStep \in StepSet
  /\ \A n \in Nat : PartStep(n) \in StepSet /\ PartStep(n).kind = "part" /\ PartStep(n).part = n
  /\ \A result \in Results : [CallStep EXCEPT !.result = result] \in StepSet
  /\ \A verdict \in Verdicts \cup {"cancelled"} :
        [ProposalStep EXCEPT !.verdict = verdict] \in StepSet
BY DEF StepSet, PromptStep, CallStep, ProposalStep, PartStep

LEMMA PartNoIs ==
  /\ Maps(PartNo, StepSet, Seq(Nat))
  /\ \A step \in StepSet : PartNo[step] = IF step.kind = "part" THEN <<step.part>> ELSE <<>>
<1>1. \A step \in StepSet : PartNo[step] = IF step.kind = "part" THEN <<step.part>> ELSE <<>>
  BY DEF PartNo
<1>2. \A step \in StepSet : step.kind = "part" => step.part \in Nat
  BY DEF StepSet, PromptStep
<1>3. ASSUME NEW step \in StepSet PROVE PartNo[step] \in Seq(Nat)
  <2>1. CASE step.kind = "part"
    <3>1. step.part \in Nat
      BY <1>2, <2>1
    <3>2. <<step.part>> \in Seq(Nat)
      BY <3>1
    <3> QED BY <1>1, <2>1, <3>2
  <2>2. CASE step.kind # "part"
    <3>1. PartNo[step] = <<>>
      BY <1>1, <2>2
    <3>2. <<>> \in Seq(Nat)
      OBVIOUS
    <3> QED BY <3>1, <3>2
  <2> QED BY <2>1, <2>2
<1> QED BY <1>1, <1>3 DEF Maps

LEMMA UpToNext ==
  ASSUME NEW n \in Nat PROVE UpTo(n) \o <<n + 1>> = UpTo(n + 1) /\ UpTo(n) \in Seq(Nat)
<1> DEFINE u == UpTo(n)
           v == UpTo(n) \o <<n + 1>>
<1>1. u \in Seq(Nat) /\ Len(u) = n /\ \A i \in 1 .. n : u[i] = i
  BY DEF UpTo
<1> HIDE DEF u
<1>2. v \in Seq(Nat) /\ Len(v) = n + 1 /\ v[n + 1] = n + 1 /\ \A i \in 1 .. n : v[i] = i
  BY <1>1 DEF u
<1> HIDE DEF v
<1>3. v = [i \in 1 .. n + 1 |-> v[i]]
  BY <1>2
<1>4. \A i \in 1 .. n + 1 : v[i] = i
  <2> SUFFICES ASSUME NEW i \in 1 .. n + 1 PROVE v[i] = i
    OBVIOUS
  <2>1. i = n + 1 \/ i \in 1 .. n
    OBVIOUS
  <2> QED BY <1>2, <2>1
<1>5. v = UpTo(n + 1)
  BY <1>3, <1>4 DEF UpTo
<1> QED BY <1>1, <1>5 DEF u, v

LEMMA TimelinePart ==
  ASSUME NEW steps, NEW n \in Nat, Timeline(steps, n)
  PROVE  Timeline(Append(steps, PartStep(n + 1)), n + 1)
<1> DEFINE step == PartStep(n + 1)
           more == Append(steps, step)
<1>1. step \in StepSet /\ step.kind = "part" /\ step.part = n + 1
  BY StepKinds
<1>2. steps \in Seq(StepSet) /\ steps # <<>> /\ steps[1] = PromptStep
  BY DEF Timeline
<1> HIDE DEF step
<1>3. /\ more \in Seq(StepSet) /\ more # <<>> /\ Len(more) = Len(steps) + 1 /\ Len(steps) \in Nat
      /\ more[Len(steps) + 1] = step /\ \A i \in 1 .. Len(steps) : more[i] = steps[i]
      /\ more[1] = PromptStep
  BY <1>1, <1>2
<1>4. Spread(more, PartNo) = UpTo(n + 1)
  <2>1. Spread(more, PartNo) = Spread(steps, PartNo) \o PartNo[step]
    BY <1>1, <1>2, PartNoIs, SpreadAppend
  <2>2. PartNo[step] = <<n + 1>>
    BY <1>1, PartNoIs
  <2> QED BY <2>1, <2>2, UpToNext DEF Timeline
<1> HIDE DEF more
<1>5. ASSUME NEW i \in 1 .. Len(more), more[i].kind = "part" PROVE more[i].part \in 1 .. n + 1
  <2>1. CASE i = Len(steps) + 1
    BY <1>1, <1>3, <2>1
  <2>2. CASE i \in 1 .. Len(steps)
    <3>1. steps[i].part \in 1 .. n /\ more[i] = steps[i]
      BY <1>3, <1>5, <2>2 DEF Timeline
    <3> QED BY <3>1
  <2>3. i = Len(steps) + 1 \/ i \in 1 .. Len(steps)
    BY <1>3
  <2> QED BY <2>1, <2>2, <2>3
<1>6. Timeline(more, n + 1)
  BY <1>3, <1>4, <1>5 DEF Timeline
<1> QED BY <1>6 DEF more, step

LEMMA TimelineOther ==
  ASSUME NEW steps, NEW n \in Nat, Timeline(steps, n), NEW step \in StepSet, step.kind # "part"
  PROVE  Timeline(Append(steps, step), n)
<1> DEFINE more == Append(steps, step)
<1>2. steps \in Seq(StepSet) /\ steps # <<>> /\ steps[1] = PromptStep
  BY DEF Timeline
<1>3. /\ more \in Seq(StepSet) /\ more # <<>> /\ Len(more) = Len(steps) + 1 /\ Len(steps) \in Nat
      /\ more[Len(steps) + 1] = step /\ \A i \in 1 .. Len(steps) : more[i] = steps[i]
      /\ more[1] = PromptStep
  BY <1>2
<1>4. Spread(more, PartNo) = UpTo(n)
  <2>1. Spread(more, PartNo) = Spread(steps, PartNo) \o PartNo[step]
    BY <1>2, PartNoIs, SpreadAppend
  <2>2. PartNo[step] = <<>> /\ Spread(steps, PartNo) = UpTo(n)
    BY PartNoIs DEF Timeline
  <2>3. UpTo(n) \o <<>> = UpTo(n)
    <3> DEFINE u == UpTo(n)
    <3>1. u \in Seq(Nat)
      BY UpToNext
    <3> HIDE DEF u
    <3>2. u \o <<>> = u
      BY <3>1
    <3> QED BY <3>2 DEF u
  <2> QED BY <2>1, <2>2, <2>3
<1> HIDE DEF more
<1>5. ASSUME NEW i \in 1 .. Len(more), more[i].kind = "part" PROVE more[i].part \in 1 .. n
  <2>1. i = Len(steps) + 1 \/ i \in 1 .. Len(steps)
    BY <1>3
  <2>2. i \in 1 .. Len(steps)
    BY <1>3, <1>5, <2>1
  <2> QED BY <1>3, <1>5, <2>2 DEF Timeline
<1>6. Timeline(more, n)
  BY <1>3, <1>4, <1>5 DEF Timeline
<1> QED BY <1>6 DEF more

\* Calls and Proposals may change; prompts and parts stay where they are.
Kin(old, new) == new = old \/ (old.kind = new.kind /\ old.kind \in {"call", "proposal"})

LEMMA TimelineLike ==
  ASSUME NEW steps, NEW n \in Nat, Timeline(steps, n), NEW other \in Seq(StepSet),
         Len(other) = Len(steps), \A i \in 1 .. Len(steps) : Kin(steps[i], other[i])
  PROVE  Timeline(other, n)
<1>1. steps \in Seq(StepSet) /\ steps # <<>> /\ steps[1] = PromptStep /\ 1 \in 1 .. Len(steps)
      /\ \A i \in 1 .. Len(steps) : steps[i] \in StepSet
  BY DEF Timeline
<1>2. \A i \in 1 .. Len(other) : other[i] \in StepSet
  OBVIOUS
<1>3. other # <<>> /\ other[1] = PromptStep
  BY <1>1 DEF Kin, PromptStep
<1>4. \A i \in 1 .. Len(steps) : PartNo[steps[i]] = PartNo[other[i]]
  BY <1>1, <1>2, PartNoIs DEF Kin
<1>5. Spread(other, PartNo) = UpTo(n)
  <2>1. Spread(steps, PartNo) = Spread(other, PartNo)
    BY <1>1, <1>4, SpreadLike
  <2> QED BY <2>1 DEF Timeline
<1>6. ASSUME NEW i \in 1 .. Len(other), other[i].kind = "part" PROVE other[i].part \in 1 .. n
  <2>1. other[i] = steps[i]
    BY <1>6 DEF Kin
  <2> QED BY <1>6, <2>1 DEF Timeline
<1> QED BY <1>3, <1>5, <1>6 DEF Timeline

LEMMA TimelineKept ==
  ASSUME NEW steps, NEW n \in Nat, Timeline(steps, n)
  PROVE  LET kept == Only(steps, {step \in Range(steps) : Kept(step)})
         IN  /\ Timeline(kept, 0)
             /\ \A i \in 1 .. Len(kept) : \E k \in 1 .. Len(steps) : kept[i] = steps[k]
<1> DEFINE S == {step \in Range(steps) : Kept(step)}
           kept == Only(steps, S)
<1>1. steps \in Seq(StepSet) /\ steps # <<>> /\ steps[1] = PromptStep /\ 1 \in 1 .. Len(steps)
      /\ DOMAIN steps = 1 .. Len(steps)
  BY DEF Timeline
<1>2. PromptStep \in S
  BY <1>1 DEF Range, Kept, PromptStep
<1> HIDE DEF S
<1>3. kept \in Seq(StepSet \cap S)
  BY <1>1, OnlySpread
<1>4. kept # <<>> /\ kept[1] = PromptStep
  BY <1>1, <1>2, OnlyEnds
<1> HIDE DEF kept
<1>5. kept \in Seq(StepSet) /\ \A i \in 1 .. Len(kept) : kept[i] \in StepSet /\ kept[i] \in S
  BY <1>3
<1>6. \A i \in 1 .. Len(kept) : kept[i].kind # "part" /\ PartNo[kept[i]] = <<>>
  <2>1. \A step \in S : step.kind # "part"
    BY DEF S, Kept
  <2> QED BY <1>5, <2>1, PartNoIs
<1>7. Spread(kept, PartNo) = UpTo(0)
  <2>1. Spread(kept, PartNo) = <<>>
    BY <1>5, <1>6, SpreadNothing
  <2>2. UpTo(0) = <<>>
    BY DEF UpTo
  <2> QED BY <2>1, <2>2
<1>8. Timeline(kept, 0)
  BY <1>4, <1>5, <1>6, <1>7 DEF Timeline
<1>9. \A i \in 1 .. Len(kept) : \E k \in 1 .. Len(steps) : kept[i] = steps[k]
  BY <1>1, <1>5 DEF S, Range
<1> QED BY <1>8, <1>9 DEF kept, S

(***************************************************************************)
(* What each transaction does to the row of its Run.                       *)
(***************************************************************************)
\* A Run keeps what it was started with; an ended reply stands until a retry.
RowMove(old, new) ==
    /\ RowOK(new)
    /\ new.thread = old.thread /\ new.at = old.at
    /\ new.prompt = old.prompt /\ new.images = old.images
    /\ old.reply # "streaming" =>
          \/ new.parts = old.parts /\ new.reply = old.reply
          \/ old.status = "errored" /\ new.parts = <<>>

LEMMA RowStays == ASSUME NEW row, RowOK(row) PROVE RowMove(row, row)
BY DEF RowMove

LEMMA RowFields ==
  ASSUME NEW row, RowOK(row)
  PROVE  /\ row = [status |-> row.status, thread |-> row.thread, at |-> row.at,
                   prompt |-> row.prompt, images |-> row.images, reply |-> row.reply,
                   parts |-> row.parts, steps |-> row.steps, milestone |-> row.milestone]
         /\ row.status \in RunStatuses /\ row.thread \in Threads \cup {0}
         /\ row.at \in 0 .. MaxNow /\ row.prompt = <<Prompt>> /\ row.images \in Seq(Media)
         /\ row.reply \in Replies /\ row.parts \in Seq(PartSet) /\ row.steps \in Seq(StepSet)
         /\ row.milestone \in Milestones
         /\ Len(row.parts) \in Nat /\ DOMAIN row.parts = 1 .. Len(row.parts)
         /\ Len(row.steps) \in Nat /\ DOMAIN row.steps = 1 .. Len(row.steps)
         /\ row.steps # <<>> /\ Len(row.steps) # 0
<1> USE DEF RowOK
<1>1. row \in RowSet
  OBVIOUS
<1>2. /\ row = [status |-> row.status, thread |-> row.thread, at |-> row.at,
                prompt |-> row.prompt, images |-> row.images, reply |-> row.reply,
                parts |-> row.parts, steps |-> row.steps, milestone |-> row.milestone]
      /\ row.status \in RunStatuses /\ row.thread \in Threads \cup {0}
      /\ row.at \in 0 .. MaxNow /\ row.prompt = <<Prompt>> /\ row.images \in Seq(Media)
      /\ row.reply \in Replies /\ row.parts \in Seq(PartSet) /\ row.steps \in Seq(StepSet)
      /\ row.milestone \in Milestones
  BY <1>1 DEF RowSet
<1>3. row.steps # <<>>
  BY DEF Timeline
<1>4. /\ Len(row.parts) \in Nat /\ DOMAIN row.parts = 1 .. Len(row.parts)
      /\ Len(row.steps) \in Nat /\ DOMAIN row.steps = 1 .. Len(row.steps)
      /\ Len(row.steps) # 0
  BY <1>2, <1>3
<1> QED BY <1>2, <1>3, <1>4

\* A new row from its fields.
Row(status, old, reply, parts, steps, milestone) ==
    [status |-> status, thread |-> old.thread, at |-> old.at, prompt |-> old.prompt,
     images |-> old.images, reply |-> reply, parts |-> parts, steps |-> steps,
     milestone |-> milestone]

LEMMA RowMade ==
  ASSUME NEW old, RowOK(old), NEW status \in RunStatuses, NEW reply, NEW parts \in Seq(PartSet),
         NEW steps \in Seq(StepSet), NEW milestone \in Milestones,
         reply = ReplyOf(status), milestone \in MilestonesOf(status),
         Timeline(steps, Len(parts)), WaitOK(Row(status, old, reply, parts, steps, milestone)),
         \/ old.reply = "streaming"
         \/ parts = old.parts /\ reply = old.reply
         \/ old.status = "errored" /\ parts = <<>>
  PROVE  RowMove(old, Row(status, old, reply, parts, steps, milestone))
<1> DEFINE new == Row(status, old, reply, parts, steps, milestone)
<1>1. reply \in Replies
  BY DEF ReplyOf, Replies
<1>2. new \in RowSet
  BY <1>1, RowFields DEF Row, RowSet
<1>3. /\ new.status = status /\ new.thread = old.thread /\ new.at = old.at
      /\ new.prompt = old.prompt /\ new.images = old.images /\ new.reply = reply
      /\ new.parts = parts /\ new.steps = steps /\ new.milestone = milestone
  BY DEF Row
<1> HIDE DEF new
<1>4. RowOK(new)
  BY <1>2, <1>3 DEF RowOK, new
<1>5. RowMove(old, new)
  BY <1>3, <1>4 DEF RowMove
<1> QED BY <1>5 DEF new

\* Where the Proposals are after a step is appended to a timeline.
LEMMA WaitAppend ==
  ASSUME NEW old, RowOK(old), old.status # "parked", NEW step \in StepSet,
         NEW status, NEW reply, NEW parts, NEW milestone,
         step = ProposalStep => status = "parked",
         status = "parked" => step = ProposalStep
  PROVE  WaitOK(Row(status, old, reply, parts, Append(old.steps, step), milestone))
<1> DEFINE more == Append(old.steps, step)
           new == Row(status, old, reply, parts, more, milestone)
<1>1. /\ Len(more) = Len(old.steps) + 1 /\ more[Len(more)] = step /\ Len(old.steps) \in Nat
      /\ \A i \in 1 .. Len(old.steps) : more[i] = old.steps[i]
  BY RowFields
<1>2. new.status = status /\ new.steps = more
  BY DEF Row
<1> HIDE DEF more, new
<1>3. ASSUME NEW i \in 1 .. Len(more), more[i] = ProposalStep
      PROVE  status = "parked" /\ i = Len(more)
  <2>1. i = Len(more) \/ i \in 1 .. Len(old.steps)
    BY <1>1
  <2>2. i \notin 1 .. Len(old.steps)
    BY <1>1, <1>3 DEF RowOK, WaitOK
  <2> QED BY <1>1, <1>3, <2>1, <2>2
<1>4. status = "parked" => /\ LastStep(new).kind = "proposal" /\ LastStep(new).verdict # "cancelled"
                           /\ LastStep(new) = ProposalStep
  BY <1>1, <1>2 DEF LastStep, ProposalStep
<1>5. WaitOK(new)
  BY <1>2, <1>3, <1>4 DEF WaitOK
<1> QED BY <1>5 DEF new, more

LEMMA TwoFields ==
  ASSUME NEW row, NEW x, NEW y
  PROVE  [row EXCEPT !.parts = x, !.steps = y] = [[row EXCEPT !.parts = x] EXCEPT !.steps = y]
BY Zenon

\* The rows the transactions write, by the fields they set.
LEMMA RowForms ==
  ASSUME NEW row, RowOK(row), NEW x, NEW y
  PROVE  /\ [row EXCEPT !.steps = x] =
               Row(row.status, row, row.reply, row.parts, x, row.milestone)
         /\ [row EXCEPT !.parts = x] =
               Row(row.status, row, row.reply, x, row.steps, row.milestone)
         /\ [row EXCEPT !.parts = x, !.steps = y] =
               Row(row.status, row, row.reply, x, y, row.milestone)
         /\ [row EXCEPT !.status = x] =
               Row(x, row, row.reply, row.parts, row.steps, row.milestone)
         /\ [row EXCEPT !.reply = x] =
               Row(row.status, row, x, row.parts, row.steps, row.milestone)
         /\ [row EXCEPT !.milestone = x] =
               Row(row.status, row, row.reply, row.parts, row.steps, x)
<1> DEFINE a == row.status
           b == row.thread
           c == row.at
           d == row.prompt
           e == row.images
           f == row.reply
           g == row.parts
           h == row.steps
           i == row.milestone
<1>1. row = [status |-> a, thread |-> b, at |-> c, prompt |-> d, images |-> e, reply |-> f,
             parts |-> g, steps |-> h, milestone |-> i]
  BY RowFields
<1> HIDE DEF a, b, c, d, e, f, g, h, i
<1>2. [row EXCEPT !.steps = x] =
            [status |-> a, thread |-> b, at |-> c, prompt |-> d, images |-> e, reply |-> f,
             parts |-> g, steps |-> x, milestone |-> i]
  BY <1>1
<1>3. [row EXCEPT !.parts = x] =
            [status |-> a, thread |-> b, at |-> c, prompt |-> d, images |-> e, reply |-> f,
             parts |-> x, steps |-> h, milestone |-> i]
  BY <1>1
<1>4. [row EXCEPT !.parts = x, !.steps = y] =
            [status |-> a, thread |-> b, at |-> c, prompt |-> d, images |-> e, reply |-> f,
             parts |-> x, steps |-> y, milestone |-> i]
  <2>1. [row EXCEPT !.parts = x, !.steps = y] = [[row EXCEPT !.parts = x] EXCEPT !.steps = y]
    BY TwoFields, Zenon
  <2> DEFINE p == [row EXCEPT !.parts = x]
  <2>2. p = [status |-> a, thread |-> b, at |-> c, prompt |-> d, images |-> e, reply |-> f,
             parts |-> x, steps |-> h, milestone |-> i]
    BY <1>3
  <2> HIDE DEF p
  <2>3. [p EXCEPT !.steps = y] =
            [status |-> a, thread |-> b, at |-> c, prompt |-> d, images |-> e, reply |-> f,
             parts |-> x, steps |-> y, milestone |-> i]
    BY <2>2
  <2> QED BY <2>1, <2>3, Zenon DEF p
<1>5. [row EXCEPT !.status = x] =
            [status |-> x, thread |-> b, at |-> c, prompt |-> d, images |-> e, reply |-> f,
             parts |-> g, steps |-> h, milestone |-> i]
  BY <1>1
<1>6. [row EXCEPT !.reply = x] =
            [status |-> a, thread |-> b, at |-> c, prompt |-> d, images |-> e, reply |-> x,
             parts |-> g, steps |-> h, milestone |-> i]
  BY <1>1
<1>7. [row EXCEPT !.milestone = x] =
            [status |-> a, thread |-> b, at |-> c, prompt |-> d, images |-> e, reply |-> f,
             parts |-> g, steps |-> h, milestone |-> x]
  BY <1>1
<1> QED BY <1>2, <1>3, <1>4, <1>5, <1>6, <1>7 DEF Row, a, b, c, d, e, f, g, h, i

\* The same, one at a time.
LEMMA RowSteps ==
  ASSUME NEW row, RowOK(row), NEW x
  PROVE  [row EXCEPT !.steps = x] = Row(row.status, row, row.reply, row.parts, x, row.milestone)
BY RowForms

LEMMA RowPartsSteps ==
  ASSUME NEW row, RowOK(row), NEW x, NEW y
  PROVE  [row EXCEPT !.parts = x, !.steps = y] =
            Row(row.status, row, row.reply, x, y, row.milestone)
<1> DEFINE once == [row EXCEPT !.parts = x]
           made == Row(row.status, row, row.reply, x, row.steps, row.milestone)
<1>1. once = made
  BY RowForms
<1>2. [made EXCEPT !.steps = y] = Row(row.status, row, row.reply, x, y, row.milestone)
  BY DEF Row
<1>3. [row EXCEPT !.parts = x, !.steps = y] = [once EXCEPT !.steps = y]
  BY TwoFields, Zenon
<1> HIDE DEF once, made
<1> QED BY <1>1, <1>2, <1>3

LEMMA RunningRow ==
  ASSUME NEW row, RowOK(row), row.status = "running"
  PROVE  row.reply = "streaming" /\ row.milestone \in MilestonesOf("running")
BY DEF RowOK, ReplyOf

LEMMA RowOpensPart ==
  ASSUME NEW row, RowOK(row), row.status = "running", NEW type \in Types, NEW delta \in Texts
  PROVE  LET new == [row EXCEPT !.parts = Append(@, [type |-> type, text |-> delta]),
                                !.steps = Append(@, PartStep(Len(row.parts) + 1))]
         IN  RowMove(row, new) /\ Len(new.parts) = Len(row.parts) + 1 /\ new.status = row.status
<1> DEFINE part == [type |-> type, text |-> delta]
           step == PartStep(Len(row.parts) + 1)
           parts == Append(row.parts, part)
           steps == Append(row.steps, step)
           new == [row EXCEPT !.parts = parts, !.steps = steps]
<1>1. step \in StepSet /\ step # ProposalStep
  BY RowFields, StepKinds DEF PartStep, ProposalStep
<1>2. part \in PartSet
  BY DEF PartSet
<1> HIDE DEF part, step
<1>3. parts \in Seq(PartSet) /\ Len(parts) = Len(row.parts) + 1 /\ steps \in Seq(StepSet)
  BY <1>1, <1>2, RowFields
<1>4. Timeline(steps, Len(parts))
  BY <1>3, RowFields, TimelinePart DEF RowOK, step
<1>5. WaitOK(Row(row.status, row, row.reply, parts, steps, row.milestone))
  BY <1>1, WaitAppend
<1> HIDE DEF parts, steps
<1>6. new = Row(row.status, row, row.reply, parts, steps, row.milestone)
  BY RowPartsSteps
<1>7. RowMove(row, new)
  <2>1. row.reply = ReplyOf(row.status) /\ row.milestone \in MilestonesOf(row.status)
    BY DEF RowOK
  <2>2. row.reply = "streaming"
    BY RunningRow
  <2> HIDE DEF new
  <2> QED BY <1>3, <1>4, <1>5, <1>6, <2>1, <2>2, RowFields, RowMade
<1>8. new.parts = parts /\ new.status = row.status
  BY <1>6 DEF Row
<1> QED BY <1>3, <1>7, <1>8 DEF new, parts, steps, part, step

LEMMA RowEdits ==
  ASSUME NEW status, NEW old, NEW reply, NEW parts, NEW steps, NEW milestone
  PROVE  LET row == Row(status, old, reply, parts, steps, milestone)
         IN  /\ MarkRunCompleted(row) = Row("completed", old, reply, parts, steps, milestone)
             /\ MarkRunErrored(row) = Row("errored", old, reply, parts, steps, milestone)
             /\ MarkRunParked(row) = Row("parked", old, reply, parts, steps, milestone)
             /\ MarkRunCancelled(row) = Row("cancelled", old, reply, parts, steps, milestone)
             /\ MarkRunRunning(row) = Row("running", old, reply, parts, steps, milestone)
             /\ MarkErroredRunRunning(row) = Row("running", old, reply, parts, steps, milestone)
             /\ MarkCompleted(row) = Row(status, old, "completed", parts, steps, milestone)
             /\ MarkStreaming(row) = Row(status, old, "streaming", parts, steps, milestone)
             /\ MarkIncomplete(row) = Row(status, old, IF reply = "streaming" THEN "incomplete"
                                                       ELSE reply, parts, steps, milestone)
             /\ DeleteMessageParts(row) = Row(status, old, reply, <<>>, steps, milestone)
             /\ \A kind : Logged(row, kind) = Row(status, old, reply, parts, steps, kind)
<1>1. MarkRunCompleted(Row(status, old, reply, parts, steps, milestone))
        = Row("completed", old, reply, parts, steps, milestone)
  BY DEF Row, MarkRunCompleted
<1>2. MarkRunErrored(Row(status, old, reply, parts, steps, milestone))
        = Row("errored", old, reply, parts, steps, milestone)
  BY DEF Row, MarkRunErrored
<1>3. MarkRunParked(Row(status, old, reply, parts, steps, milestone))
        = Row("parked", old, reply, parts, steps, milestone)
  BY DEF Row, MarkRunParked
<1>4. MarkRunCancelled(Row(status, old, reply, parts, steps, milestone))
        = Row("cancelled", old, reply, parts, steps, milestone)
  BY DEF Row, MarkRunCancelled
<1>5. /\ MarkRunRunning(Row(status, old, reply, parts, steps, milestone))
           = Row("running", old, reply, parts, steps, milestone)
      /\ MarkErroredRunRunning(Row(status, old, reply, parts, steps, milestone))
           = Row("running", old, reply, parts, steps, milestone)
  BY DEF Row, MarkRunRunning, MarkErroredRunRunning
<1>6. MarkCompleted(Row(status, old, reply, parts, steps, milestone))
        = Row(status, old, "completed", parts, steps, milestone)
  BY DEF Row, MarkCompleted
<1>7. MarkStreaming(Row(status, old, reply, parts, steps, milestone))
        = Row(status, old, "streaming", parts, steps, milestone)
  BY DEF Row, MarkStreaming
<1>8. MarkIncomplete(Row(status, old, reply, parts, steps, milestone))
        = Row(status, old, IF reply = "streaming" THEN "incomplete" ELSE reply,
              parts, steps, milestone)
  BY DEF Row, MarkIncomplete
<1>9. DeleteMessageParts(Row(status, old, reply, parts, steps, milestone))
        = Row(status, old, reply, <<>>, steps, milestone)
  BY DEF Row, DeleteMessageParts
<1>10. ASSUME NEW kind
       PROVE  Logged(Row(status, old, reply, parts, steps, milestone), kind)
                = Row(status, old, reply, parts, steps, kind)
  BY DEF Row, Logged
<1> QED BY <1>1, <1>2, <1>3, <1>4, <1>5, <1>6, <1>7, <1>8, <1>9, <1>10

LEMMA RowItself ==
  ASSUME NEW row, RowOK(row)
  PROVE  row = Row(row.status, row, row.reply, row.parts, row.steps, row.milestone)
BY RowFields DEF Row

LEMMA RowReads ==
  ASSUME NEW status, NEW old, NEW reply, NEW parts, NEW steps, NEW milestone
  PROVE  LET row == Row(status, old, reply, parts, steps, milestone)
         IN  /\ row.status = status /\ row.reply = reply /\ row.parts = parts
             /\ row.steps = steps /\ row.milestone = milestone
BY DEF Row

LEMMA RowAppendsText ==
  ASSUME NEW row, RowOK(row), row.status = "running", NEW k \in 1 .. Len(row.parts),
         NEW delta \in Texts
  PROVE  LET part == [row.parts[k] EXCEPT !.text = row.parts[k].text \o delta]
             new == [row EXCEPT !.parts = [row.parts EXCEPT ![k] = part]]
         IN  RowMove(row, new) /\ Len(new.parts) = Len(row.parts) /\ new.status = row.status
<1> DEFINE part == [row.parts[k] EXCEPT !.text = row.parts[k].text \o delta]
           parts == [row.parts EXCEPT ![k] = part]
           new == [row EXCEPT !.parts = parts]
<1>1. part \in PartSet
  <2>1. row.parts[k] \in PartSet
    BY RowFields
  <2>2. row.parts[k].text \in Texts
    BY <2>1 DEF PartSet
  <2>3. row.parts[k].text \o delta \in Texts
    BY <2>2 DEF Texts
  <2> QED BY <2>1, <2>3 DEF PartSet
<1> HIDE DEF part
<1>2. parts \in Seq(PartSet) /\ Len(parts) = Len(row.parts)
  BY <1>1, RowFields
<1> HIDE DEF parts
<1>3. new = Row(row.status, row, row.reply, parts, row.steps, row.milestone)
  BY RowForms
<1> HIDE DEF new
<1>4. WaitOK(new)
  <2>1. WaitOK(row)
    BY DEF RowOK
  <2>2. new.status = row.status /\ new.steps = row.steps /\ new.milestone = row.milestone
    BY <1>3, RowReads
  <2> QED BY <2>1, <2>2 DEF WaitOK, LastStep
<1>5. Timeline(row.steps, Len(parts)) /\ row.reply = ReplyOf(row.status)
      /\ row.milestone \in MilestonesOf(row.status) /\ row.reply = "streaming"
  BY <1>2, RunningRow DEF RowOK
<1>6. RowMove(row, new)
  BY <1>2, <1>3, <1>4, <1>5, RowFields, RowMade
<1>7. new.parts = parts /\ new.status = row.status
  BY <1>3, RowReads
<1> QED BY <1>2, <1>6, <1>7 DEF new, parts, part

LEMMA RowCalls ==
  ASSUME NEW row, RowOK(row), row.status = "running"
  PROVE  LET new == [row EXCEPT !.steps = Append(row.steps, CallStep)]
         IN  RowMove(row, new) /\ new.parts = row.parts /\ new.status = row.status
<1> DEFINE steps == Append(row.steps, CallStep)
           new == [row EXCEPT !.steps = steps]
<1>1. CallStep \in StepSet /\ CallStep # ProposalStep /\ CallStep.kind # "part"
  BY StepKinds DEF CallStep, ProposalStep
<1>2. steps \in Seq(StepSet)
  BY <1>1, RowFields
<1>3. Timeline(steps, Len(row.parts))
  BY <1>1, RowFields, TimelineOther DEF RowOK
<1>4. WaitOK(Row(row.status, row, row.reply, row.parts, steps, row.milestone))
  BY <1>1, WaitAppend
<1> HIDE DEF steps
<1>5. new = Row(row.status, row, row.reply, row.parts, steps, row.milestone)
  BY RowSteps
<1> HIDE DEF new
<1>6. row.reply = ReplyOf(row.status) /\ row.milestone \in MilestonesOf(row.status)
  BY DEF RowOK
<1>7. RowMove(row, new)
  BY <1>2, <1>3, <1>4, <1>5, <1>6, RowFields, RowMade
<1>8. new.parts = row.parts /\ new.status = row.status
  BY <1>5, RowReads
<1> QED BY <1>7, <1>8 DEF new, steps

LEMMA RowParks ==
  ASSUME NEW row, RowOK(row), row.status = "running"
  PROVE  LET new == Logged(MarkRunParked([row EXCEPT !.steps = Append(row.steps, ProposalStep)]),
                           "proposal_pending")
         IN  RowMove(row, new)
<1> DEFINE steps == Append(row.steps, ProposalStep)
           made == Row("parked", row, row.reply, row.parts, steps, "proposal_pending")
<1>1. ProposalStep \in StepSet /\ ProposalStep.kind # "part"
  BY StepKinds DEF ProposalStep
<1>2. steps \in Seq(StepSet)
  BY <1>1, RowFields
<1>3. Timeline(steps, Len(row.parts))
  BY <1>1, RowFields, TimelineOther DEF RowOK
<1>4. WaitOK(made)
  BY <1>1, WaitAppend
<1> HIDE DEF steps
<1>5. Logged(MarkRunParked([row EXCEPT !.steps = steps]), "proposal_pending") = made
  <2>1. [row EXCEPT !.steps = steps] = Row(row.status, row, row.reply, row.parts, steps, row.milestone)
    BY RowSteps
  <2> QED BY <2>1, RowEdits
<1>6. /\ row.reply = ReplyOf("parked") /\ "proposal_pending" \in MilestonesOf("parked")
      /\ "parked" \in RunStatuses /\ "proposal_pending" \in Milestones
  BY RunningRow DEF ReplyOf, MilestonesOf, RunStatuses, Milestones
<1>7. RowMove(row, made)
  BY <1>2, <1>3, <1>4, <1>6, RowFields, RowMade, RunningRow
<1> QED BY <1>5, <1>7 DEF steps

LEMMA RowCompletes ==
  ASSUME NEW row, RowOK(row), row.status = "running"
  PROVE  RowMove(row, Logged(MarkCompleted(MarkRunCompleted(row)), "done"))
<1> DEFINE made == Row("completed", row, "completed", row.parts, row.steps, "done")
<1>1. Logged(MarkCompleted(MarkRunCompleted(row)), "done") = made
  BY RowItself, RowEdits
<1>2. WaitOK(made)
  <2>1. made.status = "completed" /\ made.steps = row.steps
    BY RowReads
  <2> QED BY <2>1 DEF WaitOK, RowOK
<1>3. /\ "completed" = ReplyOf("completed") /\ "done" \in MilestonesOf("completed")
      /\ "completed" \in RunStatuses /\ "done" \in Milestones
  BY DEF ReplyOf, MilestonesOf, RunStatuses, Milestones
<1>4. RowMove(row, made)
  BY <1>2, <1>3, RowFields, RowMade, RunningRow DEF RowOK
<1> QED BY <1>1, <1>4

LEMMA RowErrs ==
  ASSUME NEW row, RowOK(row), row.status = "running"
  PROVE  RowMove(row, Errored(row))
<1> DEFINE made == Row("errored", row, "incomplete", row.parts, row.steps, "error")
<1>1. Errored(row) = made
  <2>1. MarkRunErrored(row) = Row("errored", row, "streaming", row.parts, row.steps, row.milestone)
    BY RowItself, RowEdits, RunningRow
  <2>2. MarkIncomplete(MarkRunErrored(row))
           = Row("errored", row, "incomplete", row.parts, row.steps, row.milestone)
    BY <2>1, RowEdits
  <2> QED BY <2>2, RowEdits DEF Errored
<1>2. WaitOK(made)
  <2>1. made.status = "errored" /\ made.steps = row.steps
    BY RowReads
  <2> QED BY <2>1 DEF WaitOK, RowOK
<1>3. /\ "incomplete" = ReplyOf("errored") /\ "error" \in MilestonesOf("errored")
      /\ "errored" \in RunStatuses /\ "error" \in Milestones
  BY DEF ReplyOf, MilestonesOf, RunStatuses, Milestones
<1>4. RowMove(row, made)
  BY <1>2, <1>3, RowFields, RowMade, RunningRow DEF RowOK
<1> QED BY <1>1, <1>4

\* A timeline with one step changed, or with some.
LEMMA StepChanged ==
  ASSUME NEW row, RowOK(row), NEW i \in 1 .. Len(row.steps), NEW step \in StepSet,
         Kin(row.steps[i], step)
  PROVE  LET steps == [row.steps EXCEPT ![i] = step]
         IN  /\ steps \in Seq(StepSet) /\ Len(steps) = Len(row.steps)
             /\ Timeline(steps, Len(row.parts))
<1> DEFINE steps == [row.steps EXCEPT ![i] = step]
<1>1. /\ steps \in Seq(StepSet) /\ Len(steps) = Len(row.steps)
      /\ \A k \in 1 .. Len(row.steps) : steps[k] = IF k = i THEN step ELSE row.steps[k]
  BY RowFields
<1> HIDE DEF steps
<1>2. \A k \in 1 .. Len(row.steps) : Kin(row.steps[k], steps[k])
  BY <1>1 DEF Kin
<1>3. Timeline(steps, Len(row.parts))
  BY <1>1, <1>2, RowFields, TimelineLike DEF RowOK
<1> QED BY <1>1, <1>3 DEF steps

LEMMA RowResolves ==
  ASSUME NEW row, RowOK(row), row.status # "parked",
         NEW i \in 1 .. Len(row.steps), row.steps[i] = CallStep, NEW result \in Results
  PROVE  LET step == [CallStep EXCEPT !.result = result]
             new == [row EXCEPT !.steps = [row.steps EXCEPT ![i] = step]]
         IN  RowMove(row, new) /\ new.parts = row.parts /\ new.status = row.status
<1> DEFINE step == [CallStep EXCEPT !.result = result]
           steps == [row.steps EXCEPT ![i] = step]
           new == [row EXCEPT !.steps = steps]
<1>1. step \in StepSet /\ Kin(CallStep, step) /\ step # ProposalStep
  BY StepKinds DEF Kin, CallStep, ProposalStep
<1> HIDE DEF step
<1>2. steps \in Seq(StepSet) /\ Len(steps) = Len(row.steps) /\ Timeline(steps, Len(row.parts))
  BY <1>1, StepChanged
<1>3. \A k \in 1 .. Len(row.steps) : steps[k] # ProposalStep
  <2>1. \A k \in 1 .. Len(row.steps) : steps[k] = IF k = i THEN step ELSE row.steps[k]
    BY RowFields
  <2> HIDE DEF steps
  <2> QED BY <1>1, <2>1 DEF RowOK, WaitOK
<1> HIDE DEF steps
<1>4. new = Row(row.status, row, row.reply, row.parts, steps, row.milestone)
  BY RowSteps
<1> HIDE DEF new
<1>5. new.status = row.status /\ new.steps = steps /\ new.parts = row.parts
  BY <1>4, RowReads
<1>6. WaitOK(new)
  BY <1>2, <1>3, <1>5 DEF WaitOK
<1>7. RowMove(row, new)
  BY <1>2, <1>4, <1>6, RowFields, RowMade DEF RowOK
<1> QED BY <1>5, <1>7 DEF new, steps, step

LEMMA RowDecides ==
  ASSUME NEW row, RowOK(row), row.status = "parked",
         NEW i \in 1 .. Len(row.steps), row.steps[i] = ProposalStep, NEW verdict \in Verdicts
  PROVE  LET step == [ProposalStep EXCEPT !.verdict = verdict]
             new == Logged([row EXCEPT !.steps = [row.steps EXCEPT ![i] = step]], "proposal_decided")
         IN  RowMove(row, new) /\ new.status = row.status
<1> DEFINE step == [ProposalStep EXCEPT !.verdict = verdict]
           steps == [row.steps EXCEPT ![i] = step]
           made == Row("parked", row, row.reply, row.parts, steps, "proposal_decided")
<1>1. /\ step \in StepSet /\ Kin(ProposalStep, step) /\ step # ProposalStep
      /\ step.kind = "proposal" /\ step.verdict # "cancelled"
  BY StepKinds, OutcomeAssumption DEF Kin, ProposalStep
<1> HIDE DEF step
<1>2. steps \in Seq(StepSet) /\ Len(steps) = Len(row.steps) /\ Timeline(steps, Len(row.parts))
  BY <1>1, StepChanged
<1>3. i = Len(row.steps)
  BY DEF RowOK, WaitOK
<1>4. steps[Len(steps)] = step /\ \A k \in 1 .. Len(row.steps) : steps[k] # ProposalStep
  <2>1. \A k \in 1 .. Len(row.steps) : steps[k] = IF k = i THEN step ELSE row.steps[k]
    BY RowFields
  <2> HIDE DEF steps
  <2> QED BY <1>1, <1>2, <1>3, <2>1 DEF RowOK, WaitOK
<1> HIDE DEF steps
<1>5. Logged([row EXCEPT !.steps = steps], "proposal_decided") = made
  <2>1. [row EXCEPT !.steps = steps] = Row("parked", row, row.reply, row.parts, steps, row.milestone)
    BY RowSteps
  <2> QED BY <2>1, RowEdits
<1>6. made.status = "parked" /\ made.steps = steps /\ made.milestone = "proposal_decided"
  BY RowReads
<1> HIDE DEF made
<1>7. WaitOK(made)
  BY <1>1, <1>2, <1>4, <1>6 DEF WaitOK, LastStep
<1>8. "proposal_decided" \in MilestonesOf("parked") /\ "proposal_decided" \in Milestones
  BY DEF MilestonesOf, Milestones
<1>9. RowMove(row, made)
  BY <1>2, <1>7, <1>8, RowFields, RowMade DEF RowOK, made
<1> QED BY <1>5, <1>6, <1>9 DEF steps, step

LEMMA RowResumes ==
  ASSUME NEW row, RowOK(row), row.status = "parked",
         \A i \in 1 .. Len(row.steps) : row.steps[i] # ProposalStep
  PROVE  RowMove(row, MarkRunRunning(row))
<1> DEFINE made == Row("running", row, row.reply, row.parts, row.steps, row.milestone)
<1>1. MarkRunRunning(row) = made
  BY RowItself, RowEdits
<1>2. row.milestone = "proposal_decided"
  BY RowFields DEF RowOK, WaitOK, LastStep, MilestonesOf
<1>3. WaitOK(made)
  <2>1. made.status = "running" /\ made.steps = row.steps
    BY RowReads
  <2> QED BY <2>1 DEF WaitOK
<1>4. row.reply = ReplyOf("running") /\ row.milestone \in MilestonesOf("running")
      /\ "running" \in RunStatuses
  BY <1>2 DEF RowOK, ReplyOf, MilestonesOf, RunStatuses
<1>5. RowMove(row, made)
  BY <1>3, <1>4, RowFields, RowMade DEF RowOK
<1> QED BY <1>1, <1>5

LEMMA RowCancels ==
  ASSUME NEW row, RowOK(row), row.status \in {"running", "parked"}
  PROVE  LET new == Logged(MarkIncomplete(MarkRunCancelled(MarkProposalCancelled(row))), "cancelled")
         IN  RowMove(row, new) /\ new.status = "cancelled" /\ new.parts = row.parts
<1> DEFINE end == [ProposalStep EXCEPT !.verdict = "cancelled"]
           steps == [i \in DOMAIN row.steps |->
                        IF row.steps[i] = ProposalStep
                        THEN [row.steps[i] EXCEPT !.verdict = "cancelled"] ELSE row.steps[i]]
           made == Row("cancelled", row, "incomplete", row.parts, steps, "cancelled")
<1>1. end \in StepSet /\ Kin(ProposalStep, end) /\ end # ProposalStep
  BY StepKinds DEF Kin, ProposalStep
<1>2. \A i \in 1 .. Len(row.steps) :
         steps[i] = IF row.steps[i] = ProposalStep THEN end ELSE row.steps[i]
  BY RowFields
<1>3. steps \in Seq(StepSet) /\ Len(steps) = Len(row.steps)
  <2>1. DOMAIN steps = 1 .. Len(row.steps) /\ steps = [i \in DOMAIN steps |-> steps[i]]
    BY RowFields
  <2>2. \A i \in 1 .. Len(row.steps) : row.steps[i] \in StepSet
    BY RowFields
  <2> HIDE DEF steps, end
  <2>3. \A i \in 1 .. Len(row.steps) : steps[i] \in StepSet
    BY <1>1, <1>2, <2>2
  <2>4. Len(row.steps) \in Nat
    BY RowFields
  <2>5. steps \in [1 .. Len(row.steps) -> StepSet]
    BY <2>1, <2>3
  <2> QED BY <2>4, <2>5
<1>4. MarkProposalCancelled(row) = [row EXCEPT !.steps = steps]
  BY DEF MarkProposalCancelled
<1> HIDE DEF steps, end
<1>5. Timeline(steps, Len(row.parts))
  <2>1. \A i \in 1 .. Len(row.steps) : Kin(row.steps[i], steps[i])
    BY <1>1, <1>2 DEF Kin
  <2> QED BY <1>3, <2>1, RowFields, TimelineLike DEF RowOK
<1>6. \A i \in 1 .. Len(steps) : steps[i] # ProposalStep
  BY <1>1, <1>2, <1>3
<1>7. row.reply = "streaming"
  BY DEF RowOK, ReplyOf
<1>8. Logged(MarkIncomplete(MarkRunCancelled(MarkProposalCancelled(row))), "cancelled") = made
  <2>1. MarkProposalCancelled(row) = Row(row.status, row, "streaming", row.parts, steps, row.milestone)
    BY <1>4, <1>7, RowSteps
  <2>2. MarkRunCancelled(MarkProposalCancelled(row))
          = Row("cancelled", row, "streaming", row.parts, steps, row.milestone)
    BY <2>1, RowEdits
  <2>3. MarkIncomplete(MarkRunCancelled(MarkProposalCancelled(row)))
          = Row("cancelled", row, "incomplete", row.parts, steps, row.milestone)
    BY <2>2, RowEdits
  <2> QED BY <2>3, RowEdits
<1>9. made.status = "cancelled" /\ made.steps = steps /\ made.parts = row.parts
  BY RowReads
<1> HIDE DEF made
<1>10. WaitOK(made)
  BY <1>6, <1>9 DEF WaitOK
<1>11. /\ "incomplete" = ReplyOf("cancelled") /\ "cancelled" \in MilestonesOf("cancelled")
       /\ "cancelled" \in RunStatuses /\ "cancelled" \in Milestones
  BY DEF ReplyOf, MilestonesOf, RunStatuses, Milestones
<1>12. RowMove(row, made)
  BY <1>3, <1>5, <1>7, <1>10, <1>11, RowFields, RowMade DEF made
<1> QED BY <1>8, <1>9, <1>12

LEMMA RowRetries ==
  ASSUME NEW row, RowOK(row), row.status = "errored"
  PROVE  LET new == MarkStreaming(DeleteMessageParts(DeleteSteps(
                        Logged(MarkErroredRunRunning(row), "running"))))
         IN  RowMove(row, new) /\ new.status = "running"
<1> DEFINE kept == Only(row.steps, {step \in Range(row.steps) : Kept(step)})
           made == Row("running", row, "streaming", <<>>, kept, "running")
<1>1. Timeline(kept, 0) /\ \A i \in 1 .. Len(kept) : \E k \in 1 .. Len(row.steps) : kept[i] = row.steps[k]
  BY RowFields, TimelineKept DEF RowOK
<1>2. \A i \in 1 .. Len(kept) : kept[i] # ProposalStep
  BY <1>1 DEF RowOK, WaitOK
<1>3. MarkStreaming(DeleteMessageParts(DeleteSteps(
           Logged(MarkErroredRunRunning(row), "running")))) = made
  <2> DEFINE a == Logged(MarkErroredRunRunning(row), "running")
             b == Row("running", row, row.reply, row.parts, row.steps, "running")
  <2>1. a = b
    BY RowItself, RowEdits
  <2>2. b.steps = row.steps
    BY RowReads
  <2>3. DeleteSteps(b) = Row("running", row, row.reply, row.parts, kept, "running")
    <3>1. DeleteSteps(b) = [b EXCEPT !.steps = kept]
      BY <2>2 DEF DeleteSteps
    <3> HIDE DEF kept
    <3>2. [b EXCEPT !.steps = kept] = Row("running", row, row.reply, row.parts, kept, "running")
      BY DEF Row
    <3> QED BY <3>1, <3>2
  <2> HIDE DEF kept, a, b
  <2>4. DeleteMessageParts(DeleteSteps(b)) = Row("running", row, row.reply, <<>>, kept, "running")
    BY <2>3, RowEdits
  <2>5. MarkStreaming(DeleteMessageParts(DeleteSteps(b))) = made
    BY <2>4, RowEdits
  <2> QED BY <2>1, <2>5 DEF a
<1>4. made.status = "running" /\ made.steps = kept
  BY RowReads
<1> HIDE DEF made, kept
<1>5. WaitOK(made)
  BY <1>2, <1>4 DEF WaitOK
<1>6. /\ "streaming" = ReplyOf("running") /\ "running" \in MilestonesOf("running")
      /\ "running" \in RunStatuses /\ "running" \in Milestones
  BY DEF ReplyOf, MilestonesOf, RunStatuses, Milestones
<1>7. kept \in Seq(StepSet)
  BY <1>1 DEF Timeline
<1>8. <<>> \in Seq(PartSet) /\ Len(<<>>) = 0
  OBVIOUS
<1>9. RowMove(row, made)
  BY <1>1, <1>5, <1>6, <1>7, <1>8, RowMade DEF made
<1> QED BY <1>3, <1>4, <1>9

LEMMA FirstRow ==
  ASSUME NEW q \in TaskSet
  PROVE  LET new == InitialRows(q)
         IN  RowOK(new) /\ new # NoRow /\ new.images = q.images /\ new.status = "running"
<1> DEFINE new == InitialRows(q)
<1>1. q.at \in 0 .. MaxNow /\ q.thread \in Threads \cup {0} /\ q.images \in Seq(Media)
  BY DEF TaskSet
<1>2. PromptStep \in StepSet /\ PromptStep # ProposalStep /\ PromptStep.kind # "part"
  BY StepKinds DEF PromptStep, ProposalStep
<1> DEFINE steps == <<PromptStep>>
<1>3. /\ steps \in Seq(StepSet) /\ Len(steps) = 1 /\ steps[1] = PromptStep /\ steps # <<>>
      /\ \A i \in 1 .. Len(steps) : i = 1
  BY <1>2
<1>4. Timeline(steps, 0)
  <2>1. \A i \in 1 .. Len(steps) : PartNo[steps[i]] = <<>>
    BY <1>2, <1>3, PartNoIs
  <2> HIDE DEF steps
  <2>2. Spread(steps, PartNo) = <<>>
    BY <1>3, <2>1, SpreadNothing
  <2>3. UpTo(0) = <<>>
    BY DEF UpTo
  <2> QED BY <1>2, <1>3, <2>2, <2>3 DEF Timeline
<1>5. /\ new.status = "running" /\ new.thread = q.thread /\ new.at = q.at /\ new.prompt = <<Prompt>>
      /\ new.images = q.images /\ new.reply = "streaming" /\ new.parts = <<>>
      /\ new.steps = steps /\ new.milestone = "running"
  BY DEF InitialRows
<1> HIDE DEF steps
<1>6. new \in RowSet
  <2>1. <<>> \in Seq(PartSet)
    OBVIOUS
  <2> QED BY <1>1, <1>3, <2>1 DEF InitialRows, RowSet, RunStatuses, Replies, Milestones, steps
<1> HIDE DEF new
<1>7. new # NoRow
  BY <1>5 DEF NoRow
<1>8. RowOK(new)
  <2>1. WaitOK(new)
    BY <1>2, <1>3, <1>5 DEF WaitOK
  <2>2. Len(<<>>) = 0
    OBVIOUS
  <2>3. "streaming" = ReplyOf("running") /\ "running" \in MilestonesOf("running")
    BY DEF ReplyOf, MilestonesOf
  <2> QED BY <1>4, <1>5, <1>6, <2>1, <2>2, <2>3 DEF RowOK
<1> QED BY <1>5, <1>7, <1>8 DEF new

(***************************************************************************)
(* The Runs of a Thread, their messages, and what a Worker is told.        *)
(***************************************************************************)
In(t) == {r \in Runs : Persisted(r) /\ run[r].thread = t}

LEMMA ByTimePieces ==
  ASSUME RowsInv, OrderInv, NEW t
  PROVE  LET all == [i \in 1 .. MaxNow + 1 |-> Only(order, RunsAt(t, i - 1))]
         IN  all \in Seq(Seq(In(t))) /\ Len(all) = MaxNow + 1 /\ ByTime(t) = Concat(all)
<1> DEFINE all == [i \in 1 .. MaxNow + 1 |-> Only(order, RunsAt(t, i - 1))]
           P == {r \in Runs : Persisted(r)}
<1>1. MaxNow + 1 \in Nat
  BY BoundAssumption
<1>2. ASSUME NEW i \in 1 .. MaxNow + 1 PROVE Only(order, RunsAt(t, i - 1)) \in Seq(In(t))
  <2>1. Only(order, RunsAt(t, i - 1)) \in Seq(P \cap RunsAt(t, i - 1))
    BY OnlySpread DEF OrderInv
  <2>2. P \cap RunsAt(t, i - 1) \subseteq In(t)
    BY DEF In, RunsAt
  <2> HIDE DEF P
  <2> QED BY <2>1, <2>2
<1>3. all \in [1 .. MaxNow + 1 -> Seq(In(t))]
  BY <1>2
<1>4. ByTime(t) = Concat(all)
  BY DEF ByTime
<1> HIDE DEF all
<1>5. all \in Seq(Seq(In(t))) /\ Len(all) = MaxNow + 1
  BY <1>1, <1>3
<1> QED BY <1>4, <1>5 DEF all

LEMMA ByTimeTyped ==
  ASSUME RowsInv, OrderInv, NEW t PROVE ByTime(t) \in Seq(In(t))
BY ByTimePieces, ConcatTyped

LEMMA ByTimeHas ==
  ASSUME RowsInv, OrderInv, NEW t, NEW r \in In(t)
  PROVE  \E k \in 1 .. Len(ByTime(t)) : ByTime(t)[k] = r
<1> DEFINE all == [i \in 1 .. MaxNow + 1 |-> Only(order, RunsAt(t, i - 1))]
           i == run[r].at + 1
<1>1. Persisted(r) /\ run[r].thread = t /\ r \in Runs
  BY DEF In
<1>2. run[r].at \in 0 .. MaxNow
  BY <1>1, RowFields DEF RowsInv
<1>3. i \in 1 .. MaxNow + 1 /\ i - 1 = run[r].at
  BY <1>2, BoundAssumption
<1>4. PICK k \in 1 .. Len(order) : order[k] = r
  BY <1>1 DEF OrderInv
<1>5. order[k] \in RunsAt(t, i - 1)
  <2>1. r \in Range(order)
    BY <1>4 DEF Range, OrderInv
  <2> QED BY <1>1, <1>3, <1>4, <2>1 DEF RunsAt
<1>6. PICK j \in 1 .. Len(Only(order, RunsAt(t, i - 1))) : Only(order, RunsAt(t, i - 1))[j] = r
  <2> DEFINE S == RunsAt(t, i - 1)
  <2>1. order \in Seq({s \in Runs : Persisted(s)}) /\ order[k] \in S
    BY <1>5 DEF OrderInv
  <2> HIDE DEF S
  <2>2. PICK j \in 1 .. Len(Only(order, S)) : Only(order, S)[j] = order[k]
    BY <2>1, OnlyHas
  <2> QED BY <1>4, <2>2 DEF S
<1>7. all \in Seq(Seq(In(t))) /\ Len(all) = MaxNow + 1 /\ ByTime(t) = Concat(all)
  BY ByTimePieces
<1>8. all[i] = Only(order, RunsAt(t, i - 1))
  BY <1>3
<1> HIDE DEF all, i
<1>9. PICK o \in Nat : Placed(Concat(all), all[i], o)
  BY <1>3, <1>7, ConcatPieces DEF Places
<1>10. Len(all[i]) \in Nat /\ Len(Concat(all)) \in Nat
  BY <1>3, <1>7, ConcatTyped
<1>11. o + j \in 1 .. Len(Concat(all)) /\ Concat(all)[o + j] = r
  BY <1>6, <1>8, <1>9, <1>10 DEF Placed
<1> QED BY <1>7, <1>11

LEMMA RunRow ==
  ASSUME RowsInv, NEW r \in Runs, Persisted(r) PROVE RowOK(run[r])
BY DEF RowsInv

LEMMA PartTexts ==
  ASSUME NEW part \in PartSet
  PROVE  part.text \in Texts /\ part.type \in Types /\ TextOf(part) \in Texts
<1>1. part.text \in Texts /\ part.type \in Types
  BY DEF PartSet
<1>2. <<>> \in Texts
  BY DEF Texts
<1> QED BY <1>1, <1>2 DEF TextOf

LEMMA ReplyTyped ==
  ASSUME RowsInv, NEW r \in Runs, Persisted(r) PROVE ReplyText(r) \in Texts
<1> DEFINE parts == run[r].parts
           all == [i \in DOMAIN parts |-> TextOf(parts[i])]
<1>1. parts \in Seq(PartSet)
  BY RunRow, RowFields
<1> HIDE DEF parts
<1>2. all \in Seq(Texts)
  <2>1. DOMAIN parts = 1 .. Len(parts) /\ Len(parts) \in Nat
    BY <1>1
  <2>2. \A i \in 1 .. Len(parts) : TextOf(parts[i]) \in Texts
    BY <1>1, PartTexts
  <2> QED BY <2>1, <2>2
<1>3. ReplyText(r) = Concat(all)
  BY DEF ReplyText, parts
<1> HIDE DEF all
<1> QED BY <1>2, <1>3, ConcatTyped DEF Texts

LEMMA MessageTyped ==
  ASSUME RowsInv, NEW r \in Runs, Persisted(r), NEW role \in {"user", "assistant"}
  PROVE  /\ Message(r, role) \in MessageSet
         /\ Message(r, role).run = r /\ Message(r, role).role = role
         /\ Message(r, role).text = IF role = "user" THEN <<Prompt>> ELSE ReplyText(r)
<1>1. run[r].prompt = <<Prompt>>
  BY RunRow, RowFields
<1>2. ReplyText(r) \in Seq({Prompt, Word})
  <2>1. ReplyText(r) \in Seq({Word})
    BY ReplyTyped DEF Texts
  <2> DEFINE text == ReplyText(r)
  <2> HIDE DEF text
  <2>2. text \in Seq({Word}) => text \in Seq({Prompt, Word})
    OBVIOUS
  <2> QED BY <2>1, <2>2 DEF text
<1>3. <<Prompt>> \in Seq({Prompt, Word})
  OBVIOUS
<1>4. /\ Message(r, role).run = r /\ Message(r, role).role = role
      /\ Message(r, role).text = IF role = "user" THEN <<Prompt>> ELSE ReplyText(r)
  BY <1>1 DEF Message
<1>5. Message(r, role).text \in Seq({Prompt, Word})
  BY <1>2, <1>3, <1>4
<1>6. Message(r, role) = [run |-> r, role |-> role, text |-> Message(r, role).text]
  BY DEF Message
<1>7. Message(r, role) \in MessageSet
  BY <1>5, <1>6 DEF MessageSet
<1> QED BY <1>4, <1>7

LEMMA TwoOf == ASSUME NEW a, NEW b PROVE <<a>> \o <<b>> = <<a, b>>
<1> DEFINE c == <<a>> \o <<b>>
<1>1. c \in Seq({a, b}) /\ Len(c) = 2 /\ c[1] = a /\ c[2] = b
  OBVIOUS
<1> HIDE DEF c
<1>2. c = [i \in 1 .. 2 |-> c[i]]
  BY <1>1
<1>3. \A i \in 1 .. 2 : c[i] = <<a, b>>[i]
  BY <1>1
<1>4. <<a, b>> = [i \in 1 .. 2 |-> <<a, b>>[i]]
  OBVIOUS
<1>5. c = <<a, b>>
  BY <1>2, <1>3, <1>4
<1> QED BY <1>5 DEF c

\* What the Worker of a fresh Run is told.
LEMMA HistoryTold ==
  ASSUME RowsInv, OrderInv, NEW r \in Runs PROVE History(r, HistoryFor(r))
<1> DEFINE P == {s \in Runs : Persisted(s) /\ s # r}
           before == Only(ByTime(run[r].thread), Runs \ {r})
           piece(i) == <<Message(before[i], "user")>> \o
                       (IF run[before[i]].reply = "completed"
                        THEN <<Message(before[i], "assistant")>> ELSE <<>>)
           all == [i \in DOMAIN before |-> piece(i)]
           h == HistoryFor(r)
<1>1. before \in Seq(P)
  <2>1. before \in Seq(In(run[r].thread) \cap (Runs \ {r}))
    BY ByTimeTyped, OnlySpread
  <2>2. In(run[r].thread) \cap (Runs \ {r}) \subseteq P
    BY DEF In
  <2> HIDE DEF P, before
  <2> QED BY <2>1, <2>2
<1>2. h = Concat(all)
  BY DEF HistoryFor
<1> HIDE DEF before, h
<1>3. ASSUME NEW i \in 1 .. Len(before)
      PROVE  /\ piece(i) \in Seq(MessageSet) /\ Len(piece(i)) \in {1, 2}
             /\ before[i] \in Runs /\ Persisted(before[i]) /\ before[i] # r
             /\ piece(i)[1] = Message(before[i], "user")
             /\ Len(piece(i)) = 2 => /\ run[before[i]].reply = "completed"
                                     /\ piece(i)[2] = Message(before[i], "assistant")
  <2> DEFINE s == before[i]
             u == Message(s, "user")
             a == Message(s, "assistant")
  <2>1. s \in Runs /\ Persisted(s) /\ s # r
    BY <1>1
  <2>2. u \in MessageSet /\ a \in MessageSet
    BY <2>1, MessageTyped
  <2> HIDE DEF u, a
  <2>3. CASE run[s].reply = "completed"
    <3>1. <<u>> \o <<a>> = <<u, a>>
      BY TwoOf
    <3>2. piece(i) = <<u, a>>
      BY <2>3, <3>1 DEF u, a
    <3>3. <<u, a>> \in Seq(MessageSet) /\ Len(<<u, a>>) = 2 /\ <<u, a>>[1] = u /\ <<u, a>>[2] = a
      BY <2>2
    <3> QED BY <2>1, <2>3, <3>2, <3>3 DEF u, a
  <2>4. CASE run[s].reply # "completed"
    <3>1. <<u>> \o <<>> = <<u>>
      OBVIOUS
    <3>2. piece(i) = <<u>>
      BY <2>4, <3>1 DEF u, a
    <3>3. <<u>> \in Seq(MessageSet) /\ Len(<<u>>) = 1 /\ <<u>>[1] = u
      BY <2>2
    <3> QED BY <2>1, <3>2, <3>3 DEF u
  <2> QED BY <2>3, <2>4
<1> HIDE DEF piece
<1>4. DOMAIN before = 1 .. Len(before) /\ Len(before) \in Nat
  BY <1>1
<1>5. all \in Seq(Seq(MessageSet)) /\ Len(all) = Len(before) /\ \A i \in 1 .. Len(before) : all[i] = piece(i)
  BY <1>3, <1>4
<1> HIDE DEF all
<1>6. h \in Seq(MessageSet)
  BY <1>2, <1>5, ConcatTyped
<1>7. ASSUME NEW k \in 1 .. Len(h)
      PROVE  /\ Persisted(h[k].run) /\ h[k].run # r
             /\ h[k] = Message(h[k].run, h[k].role)
             /\ h[k].role = "assistant" =>
                   /\ run[h[k].run].reply = "completed"
                   /\ k # 1 /\ h[k - 1] = Message(h[k].run, "user")
  <2>1. PICK i \in 1 .. Len(all), o \in Nat : Placed(h, all[i], o) /\ k \in o + 1 .. o + Len(all[i])
    BY <1>2, <1>5, ConcatPieces DEF Covers
  <2> DEFINE s == before[i]
             p == piece(i)
  <2>2. /\ all[i] = p /\ Len(p) \in {1, 2} /\ s \in Runs /\ Persisted(s) /\ s # r
        /\ p[1] = Message(s, "user")
        /\ Len(p) = 2 => run[s].reply = "completed" /\ p[2] = Message(s, "assistant")
    BY <1>3, <1>5, <2>1
  <2> HIDE DEF s, p
  <2>3. Placed(h, p, o) /\ k \in o + 1 .. o + Len(p)
    BY <2>1, <2>2
  <2>4. /\ Message(s, "user").run = s /\ Message(s, "user").role = "user"
        /\ Message(s, "assistant").run = s /\ Message(s, "assistant").role = "assistant"
    BY <2>2, MessageTyped
  <2>5. CASE k = o + 1
    <3>1. h[k] = Message(s, "user")
      BY <2>2, <2>3, <2>5 DEF Placed
    <3> QED BY <2>2, <2>4, <3>1
  <2>6. CASE k = o + 2 /\ Len(p) = 2
    <3>1. h[k] = Message(s, "assistant") /\ h[o + 1] = Message(s, "user")
      BY <2>2, <2>3, <2>6 DEF Placed
    <3>2. k # 1 /\ k - 1 = o + 1
      BY <2>1, <2>6
    <3>3. h[k].run = s /\ h[k].role = "assistant"
      BY <2>4, <3>1
    <3> QED BY <2>2, <2>6, <3>1, <3>2, <3>3
  <2>7. k = o + 1 \/ (k = o + 2 /\ Len(p) = 2)
    <3>1. o \in Nat /\ k \in o + 1 .. o + Len(p) /\ (Len(p) = 1 \/ Len(p) = 2)
      BY <2>1, <2>2, <2>3
    <3>2. CASE Len(p) = 1
      BY <3>1, <3>2
    <3>3. CASE Len(p) = 2
      BY <3>1, <3>3
    <3> QED BY <3>1, <3>2, <3>3
  <2> QED BY <2>5, <2>6, <2>7
<1> QED BY <1>6, <1>7 DEF History, h

\* One step of the transcript: nothing, one message, or a call and its result.
Turn(b) ==
    /\ b \in Seq(BlockSet)
    /\ \/ b = <<>>
       \/ /\ Len(b) = 1 /\ b[1].block \in {"user", "assistant"}
          /\ b[1].block = "assistant" => b[1].type # "reasoning"
       \/ Len(b) = 2 /\ b[1].block = "call" /\ b[2].block = "result"

LEMMA BlocksTurn ==
  ASSUME RowsInv, NEW r \in Runs, Persisted(r), NEW step \in StepSet, Replayed(r, step),
         step.kind = "part" => step.part \in 1 .. Len(run[r].parts)
  PROVE  /\ Turn(Blocks(r, step))
         /\ step = PromptStep => Blocks(r, step) # <<>> /\ Blocks(r, step)[1].block = "user"
         /\ step.kind = "proposal" =>
               LET b == Blocks(r, step)
               IN  b # <<>> /\ b[Len(b)].block = "result" /\ b[Len(b)].result = step.verdict
<1> DEFINE b == Blocks(r, step)
<1>0. step.kind \in {"prompt", "part", "call", "proposal"}
  BY DEF StepSet, PromptStep
<1>1. CASE step.kind = "prompt"
  <2> DEFINE u == [block |-> "user", text |-> run[r].prompt]
  <2>1. b = <<u>>
    BY <1>1 DEF Blocks
  <2>2. run[r].prompt = <<Prompt>>
    BY RunRow, RowFields
  <2>3. u \in BlockSet /\ u.block = "user"
    BY <2>2 DEF BlockSet
  <2> HIDE DEF u, b
  <2>4. b \in Seq(BlockSet) /\ Len(b) = 1 /\ b[1] = u /\ b # <<>>
    BY <2>1, <2>3
  <2> QED BY <1>1, <2>3, <2>4 DEF Turn, b
<1>2. CASE step.kind = "part"
  <2> DEFINE part == run[r].parts[step.part]
             a == [block |-> "assistant", text |-> part.text, type |-> part.type]
  <2>1. part \in PartSet
    BY <1>2, RunRow, RowFields
  <2>2. part.text \in Texts /\ part.type \in Types /\ part.type # "reasoning"
    BY <1>2, <2>1, PartTexts DEF Replayed
  <2>3. step # PromptStep
    BY <1>2 DEF PromptStep
  <2>4. CASE part.text = <<>>
    <3>1. b = <<>>
      BY <1>2, <2>4 DEF Blocks
    <3>2. <<>> \in Seq(BlockSet)
      OBVIOUS
    <3> HIDE DEF b
    <3> QED BY <1>2, <2>3, <3>1, <3>2 DEF Turn, b
  <2>5. CASE part.text # <<>>
    <3>1. b = <<a>>
      BY <1>2, <2>5 DEF Blocks
    <3> HIDE DEF part
    <3>2. a \in BlockSet /\ a.block = "assistant" /\ a.type # "reasoning"
      BY <2>2 DEF BlockSet
    <3> HIDE DEF a, b
    <3>3. b \in Seq(BlockSet) /\ Len(b) = 1 /\ b[1] = a
      BY <3>1, <3>2
    <3> QED BY <1>2, <2>3, <3>2, <3>3 DEF Turn, b
  <2> QED BY <2>4, <2>5
<1>3. CASE step.kind \in {"call", "proposal"}
  <2> DEFINE x == IF step.kind = "proposal" THEN step.verdict
                  ELSE IF step.result = "pending" THEN "not executed" ELSE step.result
             c == [block |-> "call"]
             a == [block |-> "result", result |-> x]
  <2>1. b = <<c, a>>
    BY <1>3 DEF Blocks
  <2>2. x \in Outcomes
    <3>1. step.kind = "proposal" => step.verdict \in Verdicts \cup {"pending", "cancelled"}
      BY DEF StepSet, PromptStep
    <3>2. step.kind = "call" => step.result \in Results \cup {"pending"}
      BY DEF StepSet, PromptStep
    <3> QED BY <1>3, <3>1, <3>2 DEF Outcomes
  <2>3. step # PromptStep
    BY <1>3 DEF PromptStep
  <2>4. step.kind = "proposal" => x = step.verdict
    OBVIOUS
  <2> HIDE DEF x
  <2>5. c \in BlockSet /\ a \in BlockSet /\ c.block = "call" /\ a.block = "result" /\ a.result = x
    BY <2>2 DEF BlockSet
  <2> HIDE DEF a, b, c
  <2>6. b \in Seq(BlockSet) /\ Len(b) = 2 /\ b[1] = c /\ b[2] = a /\ b # <<>>
    BY <2>1, <2>5
  <2> QED BY <2>3, <2>4, <2>5, <2>6 DEF Turn, b
<1> QED BY <1>0, <1>1, <1>2, <1>3

\* What a resumed Worker is told.
LEMMA TranscriptRebuilt ==
  ASSUME RowsInv, NEW r \in Runs, Persisted(r),
         LastStep(run[r]).kind = "proposal", LastStep(run[r]).verdict \in {"accepted", "rejected"}
  PROVE  Rebuilt(Transcript(r))
<1> DEFINE steps == run[r].steps
           S == {s \in Range(steps) : Replayed(r, s)}
           kept == Only(steps, S)
           all == [i \in DOMAIN kept |-> Blocks(r, kept[i])]
           m == Transcript(r)
<1>1. /\ steps \in Seq(StepSet) /\ steps # <<>> /\ steps[1] = PromptStep
      /\ DOMAIN steps = 1 .. Len(steps) /\ 1 \in 1 .. Len(steps) /\ Len(steps) \in 1 .. Len(steps)
      /\ \A i \in 1 .. Len(steps) :
            steps[i].kind = "part" => steps[i].part \in 1 .. Len(run[r].parts)
  <2>1. steps \in Seq(StepSet) /\ steps # <<>> /\ steps[1] = PromptStep
        /\ \A i \in 1 .. Len(steps) :
              steps[i].kind = "part" => steps[i].part \in 1 .. Len(run[r].parts)
    BY RunRow DEF RowOK, Timeline
  <2> HIDE DEF steps
  <2> QED BY <2>1
<1>2. LastStep(run[r]) = steps[Len(steps)]
  BY DEF LastStep
<1>3. m = Concat(all)
  BY DEF Transcript
<1> HIDE DEF steps, m
<1>4. steps[1] \in S /\ steps[Len(steps)] \in S
  BY <1>1, <1>2 DEF Range, Replayed, PromptStep
<1>5. \A s \in S : /\ s \in StepSet /\ Replayed(r, s)
                   /\ s.kind = "part" => s.part \in 1 .. Len(run[r].parts)
  BY <1>1 DEF Range
<1> HIDE DEF S
<1>6. kept \in Seq(StepSet \cap S) /\ kept # <<>>
      /\ kept[1] = PromptStep /\ kept[Len(kept)] = LastStep(run[r])
  BY <1>1, <1>2, <1>4, OnlySpread, OnlyEnds
<1> HIDE DEF kept
<1>7. /\ DOMAIN kept = 1 .. Len(kept) /\ Len(kept) \in Nat
      /\ 1 \in 1 .. Len(kept) /\ Len(kept) \in 1 .. Len(kept)
      /\ \A i \in 1 .. Len(kept) : kept[i] \in S /\ kept[i] \in StepSet
  BY <1>6
<1>8. \A i \in 1 .. Len(kept) : Turn(all[i])
  BY <1>5, <1>7, BlocksTurn
<1>9. /\ all[1] # <<>> /\ all[1][1].block = "user"
      /\ all[Len(kept)] # <<>>
      /\ all[Len(kept)][Len(all[Len(kept)])].block = "result"
      /\ all[Len(kept)][Len(all[Len(kept)])].result = LastStep(run[r]).verdict
  <2>1. all[1] = Blocks(r, PromptStep) /\ all[Len(kept)] = Blocks(r, LastStep(run[r]))
    BY <1>6, <1>7
  <2>2. Blocks(r, PromptStep) # <<>> /\ Blocks(r, PromptStep)[1].block = "user"
    BY <1>5, <1>6, <1>7, BlocksTurn
  <2> DEFINE b == Blocks(r, LastStep(run[r]))
  <2>3. b # <<>> /\ b[Len(b)].block = "result" /\ b[Len(b)].result = LastStep(run[r]).verdict
    BY <1>5, <1>6, <1>7, BlocksTurn
  <2> HIDE DEF b, all
  <2> QED BY <2>1, <2>2, <2>3 DEF b
<1>10. all \in Seq(Seq(BlockSet)) /\ Len(all) = Len(kept) /\ all # <<>>
  <2>1. \A i \in 1 .. Len(kept) : all[i] \in Seq(BlockSet)
    BY <1>8 DEF Turn
  <2>2. all \in [1 .. Len(kept) -> Seq(BlockSet)]
    BY <1>7, <2>1
  <2> HIDE DEF all
  <2> QED BY <1>7, <2>2
<1> HIDE DEF all
<1>11. m \in Seq(BlockSet) /\ m # <<>> /\ m[1].block = "user"
       /\ m[Len(m)].block = "result" /\ m[Len(m)].result \in {"accepted", "rejected"}
  <2>1. m \in Seq(BlockSet)
    BY <1>3, <1>10, ConcatTyped
  <2>2. m # <<>> /\ m[1] = all[1][1]
    BY <1>3, <1>9, <1>10, ConcatFirst
  <2>3. m[Len(m)] = all[Len(all)][Len(all[Len(all)])]
    BY <1>3, <1>9, <1>10, ConcatLast
  <2> QED BY <1>9, <1>10, <2>1, <2>2, <2>3
<1>12. ASSUME NEW k \in 1 .. Len(m)
       PROVE  /\ m[k].block = "call" => k # Len(m) /\ m[k + 1].block = "result"
              /\ m[k].block = "assistant" => m[k].type # "reasoning"
  <2>1. PICK i \in 1 .. Len(all), o \in Nat : Placed(m, all[i], o) /\ k \in o + 1 .. o + Len(all[i])
    BY <1>3, <1>10, ConcatPieces DEF Covers
  <2> DEFINE b == all[i]
  <2>2. Turn(b)
    BY <1>8, <1>10, <2>1
  <2>3. Placed(m, b, o) /\ k \in o + 1 .. o + Len(b) /\ o \in Nat /\ Len(m) \in Nat
    BY <1>11, <2>1
  <2> HIDE DEF b
  <2>4. CASE Len(b) = 1
    <3>1. k = o + 1 /\ 1 \in 1 .. Len(b)
      BY <2>3, <2>4
    <3>2. m[k] = b[1]
      BY <2>3, <3>1 DEF Placed
    <3>3. b[1].block \in {"user", "assistant"} /\ (b[1].block = "assistant" => b[1].type # "reasoning")
      <4>1. b # <<>> /\ Len(b) # 2
        <5>1. b = <<>> => Len(b) = 0
          OBVIOUS
        <5> QED BY <2>4, <5>1
      <4> QED BY <2>2, <4>1 DEF Turn
    <3> QED BY <3>2, <3>3
  <2>5. CASE Len(b) = 2
    <3>1. b[1].block = "call" /\ b[2].block = "result"
      BY <2>2, <2>5 DEF Turn
    <3>2. m[o + 1] = b[1] /\ m[o + 2] = b[2] /\ o + 2 <= Len(m)
      BY <2>3, <2>5 DEF Placed
    <3>3. k = o + 1 \/ k = o + 2
      BY <2>3, <2>5
    <3>4. CASE k = o + 1
      <4>1. k # Len(m) /\ k + 1 = o + 2
        BY <2>3, <3>2, <3>4
      <4> QED BY <3>1, <3>2, <3>4, <4>1
    <3>5. CASE k = o + 2
      BY <3>1, <3>2, <3>5
    <3> QED BY <3>3, <3>4, <3>5
  <2>6. Len(b) = 1 \/ Len(b) = 2
    <3>1. b # <<>>
      BY <2>3
    <3> QED BY <2>2, <3>1 DEF Turn
  <2> QED BY <2>4, <2>5, <2>6
<1> QED BY <1>11, <1>12 DEF Rebuilt, m

(***************************************************************************)
(* Steps.                                                                  *)
(***************************************************************************)
\* What every step does to the rows that are there.
Grows == \A r \in Runs : Persisted(r) => run'[r] # NoRow /\ RowMove(run[r], run'[r])

LEMMA RowIsThere == ASSUME NEW row, RowOK(row) PROVE row # NoRow
BY RowFields DEF NoRow, RunStatuses

LEMMA MessageStays ==
  ASSUME RowsInv, Grows, NEW r \in Runs, Persisted(r), NEW role,
         role = "user" \/ run[r].reply = "completed"
  PROVE  /\ Message(r, role)' = Message(r, role)
         /\ run[r].reply = "completed" => run'[r].reply = "completed"
<1>1. RowMove(run[r], run'[r]) /\ RowOK(run[r])
  BY RunRow DEF Grows
<1>2. run[r].prompt = run'[r].prompt
  BY <1>1 DEF RowMove
<1>3. run[r].reply = "completed" => run'[r].parts = run[r].parts /\ run'[r].reply = "completed"
  <2>1. run[r].reply = "completed" => run[r].status # "errored"
    BY <1>1 DEF RowOK, ReplyOf
  <2> QED BY <1>1, <2>1 DEF RowMove
<1>4. run[r].reply = "completed" => ReplyText(r)' = ReplyText(r)
  BY <1>3 DEF ReplyText
<1> QED BY <1>2, <1>3, <1>4 DEF Message

LEMMA HistoryStays ==
  ASSUME RowsInv, Grows, NEW r \in Runs, NEW h, History(r, h)
  PROVE  History(r, h)'
<1>1. h \in Seq(MessageSet) /\ \A i \in 1 .. Len(h) : h[i] \in MessageSet
  BY DEF History
<1> SUFFICES ASSUME NEW i \in 1 .. Len(h)
             PROVE  /\ Persisted(h[i].run)' /\ h[i].run # r
                    /\ h[i] = Message(h[i].run, h[i].role)'
                    /\ h[i].role = "assistant" =>
                          /\ run'[h[i].run].reply = "completed"
                          /\ i # 1 /\ h[i - 1] = Message(h[i].run, "user")'
  BY <1>1 DEF History
<1> DEFINE s == h[i].run
           role == h[i].role
<1>2. s \in Runs /\ role \in {"user", "assistant"}
  BY <1>1 DEF MessageSet
<1>3. /\ Persisted(s) /\ s # r /\ h[i] = Message(s, role)
      /\ role = "assistant" => /\ run[s].reply = "completed"
                               /\ i # 1 /\ h[i - 1] = Message(s, "user")
  BY DEF History
<1> HIDE DEF s, role
<1>4. Persisted(s)'
  BY <1>2, <1>3 DEF Grows, Persisted
<1>5. h[i] = Message(s, role)'
  BY <1>2, <1>3, MessageStays
<1>6. role = "assistant" => run'[s].reply = "completed" /\ h[i - 1] = Message(s, "user")'
  BY <1>2, <1>3, MessageStays
<1> QED BY <1>3, <1>4, <1>5, <1>6 DEF s, role

\* What the task of a Run must be, next to the Run's row.
TaskFits(r, q, row) ==
    /\ q.pc \in {"persisted", "live"} => row # NoRow /\ row.status \in {"running", "cancelled"}
    /\ q.pc = "live" => q.open \in {Closed, Len(row.parts)}
    /\ q.images \in Seq(Readables)
    /\ q.mode = "fresh" => History(r, q.manifest)
    /\ q.mode = "resume" => Rebuilt(q.manifest)

LEMMA TaskFitsNow ==
  ASSUME IInv, NEW r \in Runs PROVE task[r] \in TaskSet /\ TaskFits(r, task[r], run[r])
BY DEF IInv, TaskInv, ImagesInv, ManifestInv, TaskFits, At, Persisted

\* A step that touches one Run: its row, its task or both.
LEMMA OneRun ==
  ASSUME IInv, NEW r \in Runs, NEW new, new = run[r] \/ (Persisted(r) /\ RowMove(run[r], new)),
         run' = [run EXCEPT ![r] = new],
         NEW q \in TaskSet, task' = [task EXCEPT ![r] = q], TaskFits(r, q, new),
         UNCHANGED <<order, media>>
  PROVE  IInv' /\ Grows
<1>1. run \in [Runs -> RowSet \cup {NoRow}] /\ task \in [Runs -> TaskSet]
  BY DEF IInv, RowsInv, TaskInv
<1>2. /\ \A s \in Runs : run'[s] = IF s = r THEN new ELSE run[s]
      /\ \A s \in Runs : task'[s] = IF s = r THEN q ELSE task[s]
  BY <1>1
<1>3. task' \in [Runs -> TaskSet]
  BY <1>1
<1>4. ASSUME NEW s \in Runs
      PROVE  /\ Persisted(s)' <=> Persisted(s)
             /\ Persisted(s) => RowMove(run[s], run'[s]) /\ run'[s] # NoRow
  <2>1. Persisted(s) => RowMove(run[s], run[s]) /\ RowOK(run[s])
    BY RunRow, RowStays DEF IInv
  <2>2. Persisted(s) => RowMove(run[s], run'[s])
    BY <1>2, <2>1
  <2>3. Persisted(s) => run'[s] # NoRow
    BY <2>2, RowIsThere DEF RowMove
  <2>4. ~Persisted(s) => run'[s] = NoRow
    BY <1>2 DEF Persisted
  <2> QED BY <2>2, <2>3, <2>4 DEF Persisted
<1>5. Grows
  BY <1>4 DEF Grows
<1>6. RowsInv'
  <2>1. \A s \in Runs : Persisted(s)' => RowOK(run'[s]) /\ run'[s] \in RowSet
    BY <1>4 DEF RowMove, RowOK
  <2>2. \A s \in Runs : ~Persisted(s)' => run'[s] = NoRow
    BY DEF Persisted
  <2>3. run' = [s \in Runs |-> run'[s]]
    BY <1>1
  <2>4. run' \in [Runs -> RowSet \cup {NoRow}]
    BY <2>1, <2>2, <2>3
  <2> QED BY <2>1, <2>4 DEF RowsInv
<1>7. OrderInv'
  <2>1. {s \in Runs : Persisted(s)}' = {s \in Runs : Persisted(s)}
    BY <1>4
  <2> QED BY <1>4, <2>1 DEF IInv, OrderInv
<1>8. ASSUME NEW s \in Runs PROVE TaskFits(s, task'[s], run'[s])
  BY <1>2, TaskFitsNow
<1>9. TaskInv'
  BY <1>3, <1>8 DEF TaskInv, TaskFits, At, Persisted
<1>10. MediaInv'
  BY DEF IInv, MediaInv
<1>11. Readables' = Readables
  BY DEF Readables, Readable, GetMedia
<1>12. ImagesInv'
  <2>1. \A s \in Runs : task'[s].images \in Seq(Readables')
    BY <1>8, <1>11 DEF TaskFits
  <2>2. \A s \in Runs : Persisted(s)' => run'[s].images \in Seq(Readables')
    BY <1>4, <1>11 DEF IInv, ImagesInv, RowMove
  <2> QED BY <2>1, <2>2 DEF ImagesInv
<1>13. ManifestInv'
  <2>1. ASSUME NEW s \in Runs, task'[s].mode = "fresh" PROVE History(s, task[s].manifest)'
    <3>1. PICK h : h = task'[s].manifest
      OBVIOUS
    <3>2. History(s, h)
      BY <1>8, <2>1, <3>1 DEF TaskFits
    <3>3. History(s, h)'
      BY <1>5, <3>2, HistoryStays DEF IInv
    <3> QED BY <3>1, <3>3 DEF History
  <2>2. \A s \in Runs : task'[s].mode = "resume" => Rebuilt(task'[s].manifest)
    BY <1>8 DEF TaskFits
  <2> QED BY <2>1, <2>2 DEF ManifestInv
<1> QED BY <1>5, <1>6, <1>7, <1>9, <1>10, <1>12, <1>13 DEF IInv

LEMMA TaskFields ==
  ASSUME NEW q \in TaskSet
  PROVE  /\ q = [pc |-> q.pc, at |-> q.at, thread |-> q.thread, creates |-> q.creates,
                 images |-> q.images, open |-> q.open, mode |-> q.mode, manifest |-> q.manifest]
         /\ q.pc \in {"idle", "asked", "persisted", "live", "over"} /\ q.at \in 0 .. MaxNow
         /\ q.thread \in Threads \cup {0} /\ q.creates \in BOOLEAN /\ q.images \in Seq(Media)
         /\ q.open \in Nat /\ q.mode \in {"none", "fresh", "resume"}
         /\ q.manifest \in Seq(MessageSet) \cup Seq(BlockSet)
BY DEF TaskSet

LEMMA TaskGoes ==
  ASSUME NEW q \in TaskSet, NEW pc \in {"idle", "asked", "persisted", "live", "over"}
  PROVE  LET p == [q EXCEPT !.pc = pc]
         IN  /\ p \in TaskSet /\ p.pc = pc /\ p.images = q.images /\ p.open = q.open
             /\ p.mode = q.mode /\ p.manifest = q.manifest
BY DEF TaskSet

LEMMA TaskOpens ==
  ASSUME NEW q \in TaskSet, NEW n \in Nat
  PROVE  LET p == [q EXCEPT !.open = n]
         IN  /\ p \in TaskSet /\ p.pc = q.pc /\ p.images = q.images /\ p.open = n
             /\ p.mode = q.mode /\ p.manifest = q.manifest
BY DEF TaskSet

LEMMA TaskEnds ==
  ASSUME NEW q \in TaskSet
  PROVE  /\ Ended(q) \in TaskSet /\ Ended(q).pc = "over" /\ Ended(q).images = <<>>
         /\ Ended(q).mode = q.mode /\ Ended(q).manifest = q.manifest
<1>1. <<>> \in Seq(Media)
  OBVIOUS
<1>2. 0 \in 0 .. MaxNow
  BY BoundAssumption
<1> QED BY <1>1, <1>2 DEF TaskSet, Ended, Idle, Closed

LEMMA NoImages == <<>> \in Seq(Readables) /\ \A r : History(r, <<>>)
<1>1. <<>> \in Seq(Readables)
  OBVIOUS
<1>2. <<>> \in Seq(MessageSet) /\ Len(<<>>) = 0
  OBVIOUS
<1> QED BY <1>1, <1>2 DEF History

LEMMA InitIInv == Init => IInv
<1> SUFFICES ASSUME Init PROVE IInv
  OBVIOUS
<1> USE DEF Init
<1>1. /\ \A r \in Runs : ~Persisted(r) /\ task[r] = Idle
      /\ \A m \in Media : media[m] = [file |-> "none", row |-> FALSE, pc |-> "idle"]
  BY DEF Persisted
<1>2. RowsInv
  BY <1>1 DEF RowsInv
<1>3. OrderInv
  <2>1. <<>> \in Seq({r \in Runs : Persisted(r)})
    OBVIOUS
  <2> QED BY <1>1, <2>1 DEF OrderInv
<1>4. Idle \in TaskSet /\ Idle.pc = "idle" /\ Idle.mode = "none" /\ Idle.images = <<>>
  <2>1. <<>> \in Seq(Media) /\ <<>> \in Seq(MessageSet)
    OBVIOUS
  <2>2. 0 \in 0 .. MaxNow
    BY BoundAssumption
  <2> QED BY <2>1, <2>2 DEF Idle, TaskSet, Closed
<1>5. TaskInv
  BY <1>1, <1>4 DEF TaskInv, At
<1>6. MediaInv
  BY <1>1 DEF MediaInv, UploadSet
<1>7. ImagesInv
  BY <1>1, <1>4, NoImages DEF ImagesInv
<1>8. ManifestInv
  BY <1>1, <1>4 DEF ManifestInv
<1> QED BY <1>2, <1>3, <1>5, <1>6, <1>7, <1>8 DEF IInv

(***************************************************************************)
(* One lemma per action.                                                   *)
(***************************************************************************)
\* A step that leaves rows and tasks, and keeps what can be read.
LEMMA UploadStep ==
  ASSUME IInv, MediaInv', \A m \in Media : Readable(m) => Readable(m)',
         UNCHANGED <<run, order, task>>
  PROVE  IInv' /\ Grows
<1>1. RowsInv' /\ OrderInv' /\ TaskInv'
  BY DEF IInv, RowsInv, OrderInv, TaskInv, Persisted, At
<1>2. Grows
  BY RunRow, RowStays DEF Grows, IInv, Persisted
<1>3. ManifestInv'
  <2>1. ASSUME NEW r \in Runs, task'[r].mode = "fresh" PROVE History(r, task[r].manifest)'
    <3>1. PICK h : h = task'[r].manifest
      OBVIOUS
    <3>2. History(r, h)
      BY <2>1, <3>1 DEF IInv, ManifestInv
    <3>3. History(r, h)'
      BY <1>2, <3>2, HistoryStays DEF IInv
    <3> QED BY <3>1, <3>3 DEF History
  <2>2. \A r \in Runs : task'[r].mode = "resume" => Rebuilt(task'[r].manifest)
    BY DEF IInv, ManifestInv
  <2> QED BY <2>1, <2>2 DEF ManifestInv
<1>4. \A s : s \in Seq(Readables) => s \in Seq(Readables')
  <2>1. Readables \subseteq Readables'
    BY DEF Readables
  <2> DEFINE A == Readables
             B == Readables'
  <2>2. A \subseteq B
    BY <2>1
  <2> HIDE DEF A, B
  <2>3. \A s : s \in Seq(A) => s \in Seq(B)
    BY <2>2
  <2> QED BY <2>3 DEF A, B
<1>5. ImagesInv'
  BY <1>4 DEF IInv, ImagesInv, Persisted
<1> QED BY <1>1, <1>2, <1>3, <1>5 DEF IInv

LEMMA Uploading ==
  ASSUME IInv, NEW m \in Media, WriteBytes(m) \/ EndWrite(m) \/ InsertMedia(m)
  PROVE  IInv' /\ Grows
<1>1. UNCHANGED <<run, order, task>>
  BY DEF WriteBytes, EndWrite, InsertMedia
<1>2. media \in [Media -> UploadSet] /\ media[m] \in UploadSet
      /\ \A n \in Media : /\ media[n].row => media[n].file = "whole" /\ media[n].pc = "idle"
                          /\ media[n].pc = "insert" => media[n].file = "whole"
  BY DEF IInv, MediaInv
<1>3. \E u \in UploadSet :
         /\ media' = [media EXCEPT ![m] = u]
         /\ u.row => u.file = "whole" /\ u.pc = "idle"
         /\ u.pc = "insert" => u.file = "whole"
         /\ media[m].row => u.row
  <2>1. CASE WriteBytes(m)
    <3> DEFINE u == [file |-> "partial", row |-> FALSE, pc |-> "write"]
    <3>1. media' = [media EXCEPT ![m] = u] /\ ~media[m].row
      BY <1>2, <2>1 DEF WriteBytes
    <3>2. u \in UploadSet
      BY DEF UploadSet
    <3> QED BY <3>1, <3>2
  <2>2. CASE EndWrite(m)
    <3> DEFINE u == [media[m] EXCEPT !.file = "whole", !.pc = "insert"]
               v == [media[m] EXCEPT !.file = "none", !.pc = "idle"]
    <3>1. ~media[m].row
      BY <1>2, <2>2 DEF EndWrite
    <3>2. u \in UploadSet /\ u.file = "whole" /\ u.pc = "insert" /\ u.row = FALSE
      BY <1>2, <3>1 DEF UploadSet
    <3>3. v \in UploadSet /\ v.file = "none" /\ v.pc = "idle" /\ v.row = FALSE
      BY <1>2, <3>1 DEF UploadSet
    <3>4. media' = [media EXCEPT ![m] = u] \/ media' = [media EXCEPT ![m] = v]
      BY <2>2 DEF EndWrite
    <3> HIDE DEF u, v
    <3> QED BY <3>1, <3>2, <3>3, <3>4
  <2>3. CASE InsertMedia(m)
    <3> DEFINE u == [media[m] EXCEPT !.row = TRUE, !.pc = "idle"]
               v == [media[m] EXCEPT !.file = "none", !.pc = "idle"]
    <3>1. ~media[m].row /\ media[m].file = "whole"
      BY <1>2, <2>3 DEF InsertMedia
    <3>2. u \in UploadSet /\ u.file = "whole" /\ u.pc = "idle"
      BY <1>2, <3>1 DEF UploadSet
    <3>3. v \in UploadSet /\ v.file = "none" /\ v.pc = "idle" /\ v.row = FALSE
      BY <1>2, <3>1 DEF UploadSet
    <3>4. media' = [media EXCEPT ![m] = u] \/ media' = [media EXCEPT ![m] = v]
      BY <2>3 DEF InsertMedia
    <3> HIDE DEF u, v
    <3> QED BY <3>1, <3>2, <3>3, <3>4
  <2> QED BY <2>1, <2>2, <2>3
<1>4. PICK u \in UploadSet :
         /\ media' = [media EXCEPT ![m] = u]
         /\ u.row => u.file = "whole" /\ u.pc = "idle"
         /\ u.pc = "insert" => u.file = "whole"
         /\ media[m].row => u.row
  BY <1>3
<1>5. \A n \in Media : media'[n] = IF n = m THEN u ELSE media[n]
  BY <1>2, <1>4
<1>6. MediaInv'
  <2>1. media' \in [Media -> UploadSet]
    BY <1>2, <1>4
  <2> QED BY <1>2, <1>4, <1>5, <2>1 DEF MediaInv
<1>7. \A n \in Media : Readable(n) => Readable(n)'
  <2> SUFFICES ASSUME NEW n \in Media, media[n].row
               PROVE  media'[n].row /\ media'[n].file # "none"
    BY DEF Readable, GetMedia
  <2>1. media'[n].row
    BY <1>4, <1>5
  <2>2. media'[n].row => media'[n].file = "whole"
    BY <1>6 DEF MediaInv
  <2> QED BY <2>1, <2>2
<1> QED BY <1>1, <1>6, <1>7, UploadStep

\* A step that touches a task only.
LEMMA OneTask ==
  ASSUME IInv, NEW r \in Runs, NEW q \in TaskSet, task' = [task EXCEPT ![r] = q],
         TaskFits(r, q, run[r]), UNCHANGED <<run, order, media>>
  PROVE  IInv' /\ Grows
<1>1. run' = [run EXCEPT ![r] = run[r]]
  BY DEF IInv, RowsInv
<1> DEFINE new == run[r]
<1>2. new = run[r] /\ run' = [run EXCEPT ![r] = new] /\ TaskFits(r, q, new)
  BY <1>1
<1> HIDE DEF new
<1> QED BY <1>2, OneRun

\* A step that touches a row only.
LEMMA OneRow ==
  ASSUME IInv, NEW r \in Runs, Persisted(r), NEW new, RowMove(run[r], new),
         run' = [run EXCEPT ![r] = new],
         task[r].pc \in {"persisted", "live"} => new.status \in {"running", "cancelled"},
         task[r].pc = "live" => Len(new.parts) = Len(run[r].parts),
         UNCHANGED <<order, task, media>>
  PROVE  IInv' /\ Grows
<1> DEFINE q == task[r]
<1>1. q \in TaskSet /\ TaskFits(r, q, run[r])
  BY TaskFitsNow
<1>2. task' = [task EXCEPT ![r] = q]
  BY DEF IInv, TaskInv
<1>3. new # NoRow
  BY RowIsThere DEF RowMove
<1> HIDE DEF q
<1>4. TaskFits(r, q, new)
  BY <1>1, <1>3 DEF TaskFits, q
<1> QED BY <1>1, <1>2, <1>4, OneRun

LEMMA Asking ==
  ASSUME IInv, NEW r \in Runs, NEW t \in Threads, NEW images \in Images,
         Create(r, t, images) \/ PostMessage(r, t, images)
  PROVE  IInv' /\ Grows
<1>1. PICK creates \in BOOLEAN : Ask(r, t, creates, images)
  BY DEF Create, PostMessage
<1>2. PICK now \in 0 .. MaxNow :
         task' = [task EXCEPT ![r] = [Idle EXCEPT !.pc = "asked", !.at = now,
                          !.thread = t, !.creates = creates, !.images = images]]
  BY <1>1 DEF Ask
<1> DEFINE q == [Idle EXCEPT !.pc = "asked", !.at = now,
                          !.thread = t, !.creates = creates, !.images = images]
<1>3. images \in Seq(Readables)
  <2>1. CASE images = <<>>
    BY <2>1, NoImages
  <2>2. ASSUME NEW m \in Media, images = <<m>> PROVE images \in Seq(Readables)
    <3>1. Readable(m)
      BY <1>1, <2>2 DEF Ask
    <3>2. m \in Readables
      BY <3>1 DEF Readables
    <3> QED BY <2>2, <3>2
  <2> QED BY <2>1, <2>2 DEF Images
<1>4. images \in Seq(Media)
  <2>1. images = <<>> \/ \E m \in Media : images = <<m>>
    BY DEF Images
  <2>2. <<>> \in Seq(Media) /\ \A m \in Media : <<m>> \in Seq(Media)
    OBVIOUS
  <2> QED BY <2>1, <2>2
<1>5. q \in TaskSet /\ q.pc = "asked" /\ q.images = images /\ q.mode = "none"
  <2>1. <<>> \in Seq(MessageSet)
    OBVIOUS
  <2> QED BY <1>4, <2>1 DEF TaskSet, Idle, Closed
<1> HIDE DEF q
<1>6. TaskFits(r, q, run[r])
  BY <1>3, <1>5 DEF TaskFits
<1>7. UNCHANGED <<run, order, media>>
  BY <1>1 DEF Ask
<1> QED BY <1>2, <1>5, <1>6, <1>7, OneTask DEF q

LEMMA Ending ==
  ASSUME IInv, NEW r \in Runs, NEW row
  PROVE  Ended(task[r]) \in TaskSet /\ TaskFits(r, Ended(task[r]), row)
BY TaskFitsNow, TaskEnds, NoImages DEF TaskFits

LEMMA Refusing ==
  ASSUME IInv, NEW r \in Runs, Refuse(r) \/ LoopStops(r) PROVE IInv' /\ Grows
BY Ending, OneTask DEF Refuse, LoopStops, Over

LEMMA Spawning ==
  ASSUME IInv, NEW r \in Runs, Spawn(r) PROVE IInv' /\ Grows
<1>1. PICK history \in {<<>>, HistoryFor(r)} :
         task' = [task EXCEPT ![r] = [task[r] EXCEPT !.pc = "live", !.open = Closed,
                       !.mode = "fresh", !.manifest = history]]
  BY DEF Spawn
<1> DEFINE q == [task[r] EXCEPT !.pc = "live", !.open = Closed,
                       !.mode = "fresh", !.manifest = history]
<1>2. task[r] \in TaskSet /\ TaskFits(r, task[r], run[r])
  BY TaskFitsNow
<1>3. History(r, history)
  BY <1>1, HistoryTold, NoImages DEF IInv
<1>4. history \in Seq(MessageSet)
  BY <1>3 DEF History
<1>5. /\ q \in TaskSet /\ q.pc = "live" /\ q.open = Closed /\ q.mode = "fresh"
      /\ q.manifest = history /\ q.images = task[r].images
  BY <1>2, <1>4 DEF TaskSet, Closed
<1>6. task[r].pc = "persisted"
  BY DEF Spawn, At
<1> HIDE DEF q
<1>7. TaskFits(r, q, run[r])
  BY <1>2, <1>3, <1>5, <1>6 DEF TaskFits
<1> QED BY <1>1, <1>5, <1>7, OneTask DEF Spawn, q

LEMMA AskingRetry ==
  ASSUME IInv, NEW r \in Runs, AskRetry(r) PROVE IInv' /\ Grows
<1> DEFINE q == [task[r] EXCEPT !.pc = "asked", !.creates = FALSE]
<1>1. task' = [task EXCEPT ![r] = q] /\ UNCHANGED <<run, order, media>>
  BY DEF AskRetry
<1>2. task[r] \in TaskSet /\ TaskFits(r, task[r], run[r])
  BY TaskFitsNow
<1>3. /\ q \in TaskSet /\ q.pc = "asked" /\ q.images = task[r].images /\ q.mode = task[r].mode
      /\ q.manifest = task[r].manifest
  BY <1>2 DEF TaskSet
<1> HIDE DEF q
<1>4. TaskFits(r, q, run[r])
  BY <1>2, <1>3 DEF TaskFits
<1> QED BY <1>1, <1>3, <1>4, OneTask

LEMMA Retrying ==
  ASSUME IInv, NEW r \in Runs, PrepareRetry(r) PROVE IInv' /\ Grows
<1>1. Persisted(r) /\ RowOK(run[r]) /\ task[r] \in TaskSet /\ TaskFits(r, task[r], run[r])
      /\ UNCHANGED <<order, media>>
  BY RunRow, TaskFitsNow DEF PrepareRetry, IInv
<1>2. CASE Over(r) /\ UNCHANGED run
  BY <1>1, <1>2, Ending, OneTask DEF Over
<1>3. CASE /\ run[r].status = "errored"
           /\ run' = [run EXCEPT ![r] = MarkStreaming(DeleteMessageParts(DeleteSteps(
                         Logged(MarkErroredRunRunning(@), "running"))))]
           /\ Goto(r, "persisted")
  <2> DEFINE new == MarkStreaming(DeleteMessageParts(DeleteSteps(
                         Logged(MarkErroredRunRunning(run[r]), "running"))))
             q == [task[r] EXCEPT !.pc = "persisted"]
  <2>1. RowMove(run[r], new) /\ new.status = "running"
    BY <1>1, <1>3, RowRetries
  <2>2. run' = [run EXCEPT ![r] = new] /\ task' = [task EXCEPT ![r] = q]
    BY <1>3 DEF Goto
  <2>3. /\ q \in TaskSet /\ q.pc = "persisted" /\ q.images = task[r].images
        /\ q.mode = task[r].mode /\ q.manifest = task[r].manifest
    BY <1>1, TaskGoes
  <2> HIDE DEF new, q
  <2>4. new # NoRow
    BY <2>1, RowIsThere DEF RowMove
  <2>5. TaskFits(r, q, new)
    BY <1>1, <2>1, <2>3, <2>4 DEF TaskFits
  <2> QED BY <1>1, <2>1, <2>2, <2>3, <2>5, OneRun
<1> QED BY <1>2, <1>3 DEF PrepareRetry

LEMMA Persisting ==
  ASSUME IInv, NEW r \in Runs, Persist(r) PROVE IInv' /\ Grows
<1> DEFINE new == InitialRows(task[r])
           q == [task[r] EXCEPT !.pc = "persisted"]
           P == {s \in Runs : Persisted(s)}
<1>1. /\ ~Persisted(r) /\ run' = [run EXCEPT ![r] = new] /\ order' = Append(order, r)
      /\ task' = [task EXCEPT ![r] = q] /\ media' = media
  BY DEF Persist, Goto
<1>2. task[r] \in TaskSet /\ TaskFits(r, task[r], run[r])
  BY TaskFitsNow
<1>3. RowOK(new) /\ new # NoRow /\ new.images = task[r].images /\ new.status = "running"
  BY <1>2, FirstRow
<1>4. /\ q \in TaskSet /\ q.pc = "persisted" /\ q.images = task[r].images
      /\ q.mode = task[r].mode /\ q.manifest = task[r].manifest
  BY <1>2, TaskGoes
<1> HIDE DEF new, q
<1>5. TaskFits(r, q, new)
  BY <1>2, <1>3, <1>4 DEF TaskFits
<1>6. run \in [Runs -> RowSet \cup {NoRow}] /\ task \in [Runs -> TaskSet]
  BY DEF IInv, RowsInv, TaskInv
<1>7. /\ \A s \in Runs : run'[s] = IF s = r THEN new ELSE run[s]
      /\ \A s \in Runs : task'[s] = IF s = r THEN q ELSE task[s]
  BY <1>1, <1>6
<1>8. \A s \in Runs : Persisted(s)' <=> s = r \/ Persisted(s)
  BY <1>3, <1>7 DEF Persisted
<1>9. Grows
  <2> SUFFICES ASSUME NEW s \in Runs, Persisted(s) PROVE run'[s] # NoRow /\ RowMove(run[s], run'[s])
    BY DEF Grows
  <2>1. run'[s] = run[s]
    BY <1>1, <1>7
  <2>2. RowMove(run[s], run[s])
    BY RunRow, RowStays DEF IInv
  <2> QED BY <2>1, <2>2 DEF Persisted
<1>10. RowsInv'
  <2>1. new \in RowSet
    BY <1>3 DEF RowOK
  <2>2. run' \in [Runs -> RowSet \cup {NoRow}]
    BY <1>1, <1>6, <2>1
  <2>3. \A s \in Runs : Persisted(s)' => RowOK(run'[s])
    BY <1>3, <1>7, <1>8, RunRow DEF IInv
  <2> QED BY <2>2, <2>3 DEF RowsInv
<1>11. OrderInv'
  <2>1. order \in Seq(P) /\ \A s \in Runs : Persisted(s) => \E k \in 1 .. Len(order) : order[k] = s
    BY DEF IInv, OrderInv
  <2> DEFINE Q == P \cup {r}
  <2>2. {s \in Runs : Persisted(s)}' = Q
    BY <1>8
  <2> HIDE DEF P
  <2>3. order \in Seq(Q)
    BY <2>1
  <2>4. r \in Q
    OBVIOUS
  <2> HIDE DEF Q
  <2>5. order' \in Seq(Q) /\ Len(order') = Len(order) + 1 /\ Len(order) \in Nat
        /\ order'[Len(order) + 1] = r /\ \A k \in 1 .. Len(order) : order'[k] = order[k]
    BY <1>1, <2>3, <2>4
  <2>6. ASSUME NEW s \in Runs, Persisted(s)' PROVE \E k \in 1 .. Len(order') : order'[k] = s
    <3>1. CASE s = r
      <4>1. Len(order) + 1 \in 1 .. Len(order')
        BY <2>5
      <4> QED BY <2>5, <3>1, <4>1
    <3>2. CASE Persisted(s)
      <4>1. PICK k \in 1 .. Len(order) : order[k] = s
        BY <2>1, <3>2
      <4>2. k \in 1 .. Len(order') /\ order'[k] = s
        BY <2>5, <4>1
      <4> QED BY <4>2
    <3> QED BY <1>8, <2>6, <3>1, <3>2
  <2> QED BY <2>2, <2>5, <2>6 DEF OrderInv
<1>12. ASSUME NEW s \in Runs PROVE task'[s] \in TaskSet /\ TaskFits(s, task'[s], run'[s])
  BY <1>4, <1>5, <1>7, TaskFitsNow
<1>13. TaskInv'
  <2>1. task' \in [Runs -> TaskSet]
    BY <1>1, <1>4, <1>6
  <2> QED BY <1>12, <2>1 DEF TaskInv, TaskFits, At, Persisted
<1>14. MediaInv' /\ Readables' = Readables
  BY <1>1 DEF IInv, MediaInv, Readables, Readable, GetMedia
<1>15. ImagesInv'
  <2>1. \A s \in Runs : task'[s].images \in Seq(Readables')
    BY <1>12, <1>14 DEF TaskFits
  <2>2. task[r].images \in Seq(Readables)
    BY <1>2 DEF TaskFits
  <2>3. \A s \in Runs : Persisted(s)' => run'[s].images \in Seq(Readables')
    BY <1>3, <1>7, <1>8, <1>14, <2>2 DEF IInv, ImagesInv
  <2> QED BY <2>1, <2>3 DEF ImagesInv
<1>16. ManifestInv'
  <2>1. ASSUME NEW s \in Runs, task'[s].mode = "fresh" PROVE History(s, task[s].manifest)'
    <3>1. PICK h : h = task'[s].manifest
      OBVIOUS
    <3>2. History(s, h)
      BY <1>12, <2>1, <3>1 DEF TaskFits
    <3>3. History(s, h)'
      BY <1>9, <3>2, HistoryStays DEF IInv
    <3> QED BY <3>1, <3>3 DEF History
  <2>2. \A s \in Runs : task'[s].mode = "resume" => Rebuilt(task'[s].manifest)
    BY <1>12 DEF TaskFits
  <2> QED BY <2>1, <2>2 DEF ManifestInv
<1> QED BY <1>9, <1>10, <1>11, <1>13, <1>14, <1>15, <1>16 DEF IInv

LEMMA LiveRow ==
  ASSUME IInv, NEW r \in Runs, At(r, "live")
  PROVE  /\ Persisted(r) /\ RowOK(run[r]) /\ run[r].status \in {"running", "cancelled"}
         /\ task[r].open \in {Closed, Len(run[r].parts)}
         /\ Streaming(r) => run[r].status = "running"
<1>1. Persisted(r) /\ run[r].status \in {"running", "cancelled"}
      /\ task[r].open \in {Closed, Len(run[r].parts)}
  BY DEF IInv, TaskInv, At
<1>2. RowOK(run[r])
  BY <1>1, RunRow DEF IInv
<1>3. Streaming(r) => run[r].status = "running"
  BY <1>1, <1>2 DEF Streaming, RowOK, ReplyOf
<1> QED BY <1>1, <1>2, <1>3

LEMMA OpeningPart ==
  ASSUME IInv, NEW r \in Runs, NEW type \in Types, NEW delta \in Deltas(type),
         OpenPart(r, type, delta)
  PROVE  IInv' /\ Grows
<1> DEFINE n == Len(run[r].parts) + 1
           new == [run[r] EXCEPT !.parts = Append(@, [type |-> type, text |-> delta]),
                                 !.steps = Append(@, PartStep(Len(run[r].parts) + 1))]
           q == [task[r] EXCEPT !.open = n]
<1>0. run' = [run EXCEPT ![r] = new]
  BY Zenon DEF OpenPart
<1>1. /\ At(r, "live") /\ Streaming(r) /\ run' = [run EXCEPT ![r] = new]
      /\ task' = [task EXCEPT ![r] = q] /\ UNCHANGED <<order, media>>
  BY <1>0 DEF OpenPart
<1>2. Persisted(r) /\ RowOK(run[r]) /\ run[r].status = "running"
  BY <1>1, LiveRow
<1>3. delta \in Texts
  <2>1. <<>> \in Seq({Word}) /\ <<Word>> \in Seq({Word})
    OBVIOUS
  <2> QED BY <2>1 DEF Deltas, Texts
<1>4. RowMove(run[r], new) /\ Len(new.parts) = n /\ new.status = run[r].status
  BY <1>2, <1>3, RowOpensPart
<1>5. task[r] \in TaskSet /\ TaskFits(r, task[r], run[r]) /\ n \in Nat
  BY <1>2, TaskFitsNow, RowFields
<1> HIDE DEF n
<1>6. /\ q \in TaskSet /\ q.pc = task[r].pc /\ q.images = task[r].images /\ q.open = n
      /\ q.mode = task[r].mode /\ q.manifest = task[r].manifest
  BY <1>5, TaskOpens
<1>7. new # NoRow
  BY <1>4, RowIsThere DEF RowMove
<1> HIDE DEF new, q
<1>8. TaskFits(r, q, new)
  BY <1>2, <1>4, <1>5, <1>6, <1>7 DEF TaskFits
<1> QED BY <1>1, <1>2, <1>4, <1>6, <1>8, OneRun

LEMMA AppendingPart ==
  ASSUME IInv, NEW r \in Runs, AppendPart(r, <<Word>>) PROVE IInv' /\ Grows
<1> DEFINE k == task[r].open
           part == [run[r].parts[k] EXCEPT !.text = run[r].parts[k].text \o <<Word>>]
           new == [run[r] EXCEPT !.parts = [run[r].parts EXCEPT ![k] = part]]
<1>1. /\ At(r, "live") /\ Streaming(r) /\ k # Closed /\ UNCHANGED <<order, task, media>>
      /\ run' = [run EXCEPT ![r].parts[task[r].open].text = @ \o <<Word>>]
  BY DEF AppendPart
<1>2. Persisted(r) /\ RowOK(run[r]) /\ run[r].status = "running" /\ k = Len(run[r].parts)
  BY <1>1, LiveRow
<1>3. k \in 1 .. Len(run[r].parts)
  BY <1>1, <1>2, RowFields DEF Closed
<1>4. run' = [run EXCEPT ![r] = new]
  BY <1>1
<1>5. <<Word>> \in Texts
  <2>1. <<Word>> \in Seq({Word})
    OBVIOUS
  <2> QED BY <2>1 DEF Texts
<1>6. RowMove(run[r], new) /\ Len(new.parts) = Len(run[r].parts) /\ new.status = run[r].status
  BY <1>2, <1>3, <1>5, RowAppendsText
<1> HIDE DEF new, part
<1> QED BY <1>1, <1>2, <1>4, <1>6, OneRow

LEMMA Calling ==
  ASSUME IInv, NEW r \in Runs, Call(r) PROVE IInv' /\ Grows
<1> DEFINE new == [run[r] EXCEPT !.steps = Append(run[r].steps, CallStep)]
           q == [task[r] EXCEPT !.open = 0]
<1>1. /\ At(r, "live") /\ run[r].status = "running" /\ UNCHANGED <<order, media>>
      /\ run' = [run EXCEPT ![r] = new] /\ task' = [task EXCEPT ![r] = q]
  BY DEF Call, Closed
<1>2. Persisted(r) /\ RowOK(run[r])
  BY <1>1, LiveRow
<1>3. RowMove(run[r], new) /\ new.status = "running"
  BY <1>1, <1>2, RowCalls
<1>4. task[r] \in TaskSet /\ TaskFits(r, task[r], run[r])
  BY TaskFitsNow
<1>5. /\ q \in TaskSet /\ q.pc = task[r].pc /\ q.images = task[r].images /\ q.open = 0
      /\ q.mode = task[r].mode /\ q.manifest = task[r].manifest
  BY <1>4, TaskOpens
<1>6. new # NoRow
  BY <1>3, RowIsThere DEF RowMove
<1> HIDE DEF new, q
<1>7. TaskFits(r, q, new)
  BY <1>3, <1>4, <1>5, <1>6 DEF TaskFits, Closed
<1> QED BY <1>1, <1>2, <1>3, <1>5, <1>7, OneRun

LEMMA Resolving ==
  ASSUME IInv, NEW r \in Runs, NEW i \in DOMAIN run[r].steps, ResolveCall(r, i)
  PROVE  IInv' /\ Grows
<1>1. /\ At(r, "live") /\ run[r].steps[i] = CallStep /\ UNCHANGED <<order, task, media>>
      /\ \E result \in Results : run' = [run EXCEPT ![r].steps[i].result = result]
  BY DEF ResolveCall
<1>2. PICK result \in Results : run' = [run EXCEPT ![r].steps[i].result = result]
  BY <1>1
<1>3. Persisted(r) /\ RowOK(run[r]) /\ run[r].status \in {"running", "cancelled"}
  BY <1>1, LiveRow
<1> DEFINE step == [CallStep EXCEPT !.result = result]
           new == [run[r] EXCEPT !.steps = [run[r].steps EXCEPT ![i] = step]]
<1>4. run' = [run EXCEPT ![r] = new]
  BY <1>1, <1>2
<1>5. i \in 1 .. Len(run[r].steps)
  BY <1>3, RowFields
<1>6. RowMove(run[r], new) /\ new.parts = run[r].parts /\ new.status = run[r].status
  BY <1>1, <1>3, <1>5, RowResolves
<1> HIDE DEF new, step
<1> QED BY <1>1, <1>3, <1>4, <1>6, OneRow

\* A Run's own ending, or its park: the row moves and the task is gone.
LEMMA Leaving ==
  ASSUME IInv, NEW r \in Runs, Persisted(r), NEW new, RowMove(run[r], new),
         run' = [run EXCEPT ![r] = new], Over(r), UNCHANGED <<order, media>>
  PROVE  IInv' /\ Grows
<1> DEFINE q == Ended(task[r])
<1>1. task' = [task EXCEPT ![r] = q] /\ q \in TaskSet /\ TaskFits(r, q, new)
  BY Ending DEF Over
<1> HIDE DEF q
<1> QED BY <1>1, OneRun

LEMMA LivesOut ==
  ASSUME IInv, NEW r \in Runs, Park(r) \/ Complete(r) \/ Fail(r) PROVE IInv' /\ Grows
<1>1. Persisted(r) /\ RowOK(run[r]) /\ run[r].status = "running" /\ Over(r)
      /\ UNCHANGED <<order, media>>
  BY LiveRow DEF Park, Complete, Fail
<1>2. CASE Park(r)
  <2> DEFINE new == Logged(MarkRunParked([run[r] EXCEPT !.steps = Append(run[r].steps, ProposalStep)]),
                           "proposal_pending")
  <2>1. RowMove(run[r], new)
    BY <1>1, RowParks
  <2>2. run' = [run EXCEPT ![r] = new]
    BY <1>2, Zenon DEF Park
  <2> HIDE DEF new
  <2> QED BY <1>1, <2>1, <2>2, Leaving
<1>3. CASE Complete(r)
  <2> DEFINE new == Logged(MarkCompleted(MarkRunCompleted(run[r])), "done")
  <2>1. RowMove(run[r], new) /\ run' = [run EXCEPT ![r] = new]
    BY <1>1, <1>3, RowCompletes DEF Complete
  <2> HIDE DEF new
  <2> QED BY <1>1, <2>1, Leaving
<1>4. CASE Fail(r)
  <2> DEFINE new == Errored(run[r])
  <2>1. RowMove(run[r], new) /\ run' = [run EXCEPT ![r] = new]
    BY <1>1, <1>4, RowErrs DEF Fail
  <2> HIDE DEF new
  <2> QED BY <1>1, <2>1, Leaving
<1> QED BY <1>2, <1>3, <1>4

LEMMA Deciding ==
  ASSUME IInv, NEW r \in Runs, Persisted(r), NEW i \in DOMAIN run[r].steps, Decide(r, i)
  PROVE  IInv' /\ Grows
<1>1. /\ run[r].status = "parked" /\ run[r].steps[i] = ProposalStep /\ UNCHANGED <<order, task, media>>
      /\ \E verdict \in Verdicts :
            run' = [run EXCEPT ![r] = Logged([@ EXCEPT !.steps[i].verdict = verdict], "proposal_decided")]
  BY DEF Decide
<1>2. PICK verdict \in Verdicts :
         run' = [run EXCEPT ![r] = Logged([@ EXCEPT !.steps[i].verdict = verdict], "proposal_decided")]
  BY <1>1
<1>3. RowOK(run[r])
  BY RunRow DEF IInv
<1> DEFINE step == [ProposalStep EXCEPT !.verdict = verdict]
           edit == [run[r] EXCEPT !.steps = [run[r].steps EXCEPT ![i] = step]]
           new == Logged(edit, "proposal_decided")
<1>4. run' = [run EXCEPT ![r] = new]
  <2>1. [run[r] EXCEPT !.steps[i].verdict = verdict] = edit
    BY <1>1
  <2> HIDE DEF edit
  <2> QED BY <1>2, <2>1
<1>5. i \in 1 .. Len(run[r].steps)
  BY <1>3, RowFields
<1>6. RowMove(run[r], new) /\ new.status = "parked"
  BY <1>1, <1>3, <1>5, RowDecides
<1>7. task[r].pc \notin {"persisted", "live"}
  BY <1>1 DEF IInv, TaskInv
<1> HIDE DEF new, edit, step
<1> QED BY <1>1, <1>4, <1>6, <1>7, OneRow

LEMMA Resuming ==
  ASSUME IInv, NEW r \in Runs, Resume(r) PROVE IInv' /\ Grows
<1> DEFINE new == MarkRunRunning(run[r])
           m == Transcript(r)
           q == [task[r] EXCEPT !.pc = "live", !.open = Closed, !.mode = "resume", !.manifest = m]
<1>1. /\ run[r].status = "parked" /\ \A i \in DOMAIN run[r].steps : run[r].steps[i] # ProposalStep
      /\ run' = [run EXCEPT ![r] = new] /\ task' = [task EXCEPT ![r] = q]
      /\ UNCHANGED <<order, media>>
  BY DEF Resume
<1>2. Persisted(r)
  BY <1>1 DEF Persisted, NoRow
<1>3. RowOK(run[r]) /\ DOMAIN run[r].steps = 1 .. Len(run[r].steps)
      /\ run[r].steps \in Seq(StepSet) /\ run[r].steps # <<>>
  BY <1>2, RunRow, RowFields DEF IInv
<1>4. RowMove(run[r], new)
  BY <1>1, <1>3, RowResumes
<1>5. new.status = "running"
  BY <1>3, RowItself, RowEdits, RowReads
<1>6. LastStep(run[r]).kind = "proposal" /\ LastStep(run[r]).verdict \in {"accepted", "rejected"}
  <2>1. LastStep(run[r]).kind = "proposal" /\ LastStep(run[r]).verdict # "cancelled"
    BY <1>1, <1>3 DEF RowOK, WaitOK
  <2>2. LastStep(run[r]) \in StepSet /\ LastStep(run[r]) # ProposalStep
    <3>1. Len(run[r].steps) \in 1 .. Len(run[r].steps)
      BY <1>3
    <3> QED BY <1>1, <1>3, <3>1 DEF LastStep
  <2>3. LastStep(run[r]) \in [kind : {"proposal"}, verdict : Verdicts \cup {"pending", "cancelled"}]
    BY <2>1, <2>2 DEF StepSet, PromptStep
  <2>4. LastStep(run[r]).verdict # "pending"
    BY <2>2, <2>3 DEF ProposalStep
  <2> QED BY <2>1, <2>3, <2>4, OutcomeAssumption
<1>7. Rebuilt(m)
  BY <1>2, <1>6, TranscriptRebuilt DEF IInv
<1>8. m \in Seq(BlockSet)
  BY <1>7 DEF Rebuilt
<1> HIDE DEF m
<1>9. task[r] \in TaskSet /\ TaskFits(r, task[r], run[r])
  BY TaskFitsNow
<1>10. /\ q \in TaskSet /\ q.pc = "live" /\ q.open = Closed /\ q.mode = "resume"
       /\ q.manifest = m /\ q.images = task[r].images
  BY <1>8, <1>9 DEF TaskSet, Closed
<1>11. new # NoRow
  BY <1>4, RowIsThere DEF RowMove
<1> HIDE DEF new, q
<1>12. TaskFits(r, q, new)
  BY <1>5, <1>7, <1>9, <1>10, <1>11 DEF TaskFits
<1> QED BY <1>1, <1>2, <1>4, <1>10, <1>12, OneRun

LEMMA Cancelling ==
  ASSUME IInv, NEW r \in Runs, CancelRun(r) PROVE IInv' /\ Grows
<1> DEFINE new == Logged(MarkIncomplete(MarkRunCancelled(MarkProposalCancelled(run[r]))), "cancelled")
<1>1. /\ run[r].status \in {"running", "parked"} /\ run' = [run EXCEPT ![r] = new]
      /\ UNCHANGED <<order, task, media>>
  BY DEF CancelRun
<1>2. Persisted(r)
  BY <1>1 DEF Persisted, NoRow
<1>3. RowOK(run[r])
  BY <1>2, RunRow DEF IInv
<1>4. RowMove(run[r], new) /\ new.status = "cancelled" /\ new.parts = run[r].parts
  BY <1>1, <1>3, RowCancels
<1> HIDE DEF new
<1> QED BY <1>1, <1>2, <1>4, OneRow

\* A crash, and the boot after it: what ran is errored, no task is left.
LEMMA Crashing ==
  ASSUME IInv, Crash PROVE IInv' /\ Grows
<1>1. /\ run' = [r \in Runs |-> IF run[r].status = "running" THEN Errored(run[r]) ELSE run[r]]
      /\ task' = [r \in Runs |-> IF task[r] = Idle THEN Idle ELSE Ended(task[r])]
      /\ media' = [m \in Media |-> IF media[m].row THEN [media[m] EXCEPT !.pc = "idle"]
                                   ELSE [file |-> "none", row |-> FALSE, pc |-> "idle"]]
      /\ order' = order
  BY DEF Crash
<1>2. RowsInv /\ OrderInv /\ TaskInv /\ MediaInv /\ ImagesInv /\ ManifestInv
  BY DEF IInv
<1>3. ASSUME NEW r \in Runs
      PROVE  /\ Persisted(r)' <=> Persisted(r)
             /\ Persisted(r) => RowMove(run[r], run'[r]) /\ run'[r] # NoRow
  <2>1. run'[r] = IF run[r].status = "running" THEN Errored(run[r]) ELSE run[r]
    BY <1>1
  <2>2. CASE Persisted(r)
    <3>1. RowOK(run[r])
      BY <1>2, <2>2, RunRow
    <3>2. RowMove(run[r], run'[r])
      BY <2>1, <3>1, RowErrs, RowStays
    <3>3. run'[r] # NoRow
      BY <3>2, RowIsThere DEF RowMove
    <3> QED BY <2>2, <3>2, <3>3 DEF Persisted
  <2>3. CASE ~Persisted(r)
    <3>1. run'[r] = NoRow
      BY <2>1, <2>3 DEF Persisted, NoRow
    <3> QED BY <2>3, <3>1 DEF Persisted
  <2> QED BY <2>2, <2>3
<1>4. Grows
  BY <1>3 DEF Grows
<1>5. RowsInv'
  <2>1. \A s \in Runs : Persisted(s)' => RowOK(run'[s]) /\ run'[s] \in RowSet
    BY <1>3 DEF RowMove, RowOK
  <2>2. \A s \in Runs : ~Persisted(s)' => run'[s] = NoRow
    BY DEF Persisted
  <2>3. run' = [s \in Runs |-> run'[s]]
    BY <1>1
  <2>4. run' \in [Runs -> RowSet \cup {NoRow}]
    BY <2>1, <2>2, <2>3
  <2> QED BY <2>1, <2>4 DEF RowsInv
<1>6. OrderInv'
  <2>1. {s \in Runs : Persisted(s)}' = {s \in Runs : Persisted(s)}
    BY <1>3
  <2> QED BY <1>1, <1>2, <1>3, <2>1 DEF OrderInv
<1>7. Idle \in TaskSet /\ Idle.pc = "idle" /\ Idle.images = <<>> /\ Idle.mode = "none"
  <2>1. <<>> \in Seq(Media) /\ <<>> \in Seq(MessageSet)
    OBVIOUS
  <2> QED BY <2>1, BoundAssumption DEF Idle, TaskSet, Closed
<1>8. ASSUME NEW r \in Runs
      PROVE  /\ task'[r] \in TaskSet /\ task'[r].pc \in {"idle", "over"}
             /\ task'[r].images = <<>>
             /\ task'[r].mode \in {"fresh", "resume"} =>
                   task'[r].mode = task[r].mode /\ task'[r].manifest = task[r].manifest
  <2>1. task'[r] = IF task[r] = Idle THEN Idle ELSE Ended(task[r])
    BY <1>1
  <2>2. task[r] \in TaskSet
    BY <1>2 DEF TaskInv
  <2>3. /\ Ended(task[r]) \in TaskSet /\ Ended(task[r]).pc = "over"
        /\ Ended(task[r]).images = <<>>
        /\ Ended(task[r]).mode = task[r].mode /\ Ended(task[r]).manifest = task[r].manifest
    BY <2>2, TaskEnds
  <2> HIDE DEF Idle
  <2> QED BY <1>7, <2>1, <2>3
<1>9. TaskInv'
  <2>1. task' \in [Runs -> TaskSet]
    BY <1>1, <1>8
  <2> QED BY <1>8, <2>1 DEF TaskInv, At
<1>10. ASSUME NEW m \in Media
       PROVE  /\ media'[m] \in UploadSet /\ media'[m].pc = "idle"
              /\ media'[m].row = media[m].row
              /\ media'[m].row => media'[m].file = media[m].file
  <2>1. media[m] \in UploadSet
    BY <1>2 DEF MediaInv
  <2>2. media'[m] = IF media[m].row THEN [media[m] EXCEPT !.pc = "idle"]
                    ELSE [file |-> "none", row |-> FALSE, pc |-> "idle"]
    BY <1>1
  <2>3. CASE media[m].row
    BY <2>1, <2>2, <2>3 DEF UploadSet
  <2>4. CASE ~media[m].row
    <3>1. media[m].row = FALSE
      BY <2>1, <2>4 DEF UploadSet
    <3> DEFINE gone == [file |-> "none", row |-> FALSE, pc |-> "idle"]
    <3>2. gone \in UploadSet /\ gone.pc = "idle" /\ gone.row = FALSE
      BY DEF UploadSet
    <3>3. media'[m] = gone
      BY <2>2, <2>4
    <3> HIDE DEF gone
    <3> QED BY <3>1, <3>2, <3>3
  <2> QED BY <2>3, <2>4
<1>11. MediaInv'
  <2>1. media' \in [Media -> UploadSet]
    BY <1>1, <1>10
  <2> QED BY <1>2, <1>10, <2>1 DEF MediaInv
<1>12. Readables' = Readables
  <2>1. \A m \in Media : Readable(m)' <=> Readable(m)
    BY <1>10 DEF Readable, GetMedia
  <2> QED BY <2>1 DEF Readables
<1>13. ImagesInv'
  <2>1. <<>> \in Seq(Readables)
    OBVIOUS
  <2>2. \A s \in Runs : task'[s].images \in Seq(Readables')
    BY <1>8, <1>12, <2>1
  <2>3. \A s \in Runs : Persisted(s)' => run'[s].images \in Seq(Readables')
    BY <1>2, <1>3, <1>12 DEF ImagesInv, RowMove
  <2> QED BY <2>2, <2>3 DEF ImagesInv
<1>14. ManifestInv'
  <2>1. ASSUME NEW s \in Runs, task'[s].mode = "fresh" PROVE History(s, task[s].manifest)'
    <3>1. PICK h : h = task'[s].manifest
      OBVIOUS
    <3>2. History(s, h)
      BY <1>2, <1>8, <2>1, <3>1 DEF ManifestInv
    <3>3. History(s, h)'
      BY <1>2, <1>4, <3>2, HistoryStays
    <3> QED BY <3>1, <3>3 DEF History
  <2>2. \A s \in Runs : task'[s].mode = "resume" => Rebuilt(task'[s].manifest)
    BY <1>2, <1>8 DEF ManifestInv
  <2> QED BY <2>1, <2>2 DEF ManifestInv
<1> QED BY <1>4, <1>5, <1>6, <1>9, <1>11, <1>13, <1>14 DEF IInv

LEMMA Stuttering == ASSUME IInv, UNCHANGED vars PROVE IInv' /\ Grows
<1>1. MediaInv' /\ \A m \in Media : Readable(m) => Readable(m)'
  BY DEF IInv, vars, MediaInv, Readable, GetMedia
<1> QED BY <1>1, UploadStep DEF vars

\* Every step keeps the invariant, and keeps the rows that are there.
LEMMA EveryStep == IInv /\ [Next]_vars => IInv' /\ Grows
<1> SUFFICES ASSUME IInv, [Next]_vars PROVE IInv' /\ Grows
  OBVIOUS
<1>1. CASE Crash
  BY <1>1, Crashing
<1>2. ASSUME NEW m \in Media, WriteBytes(m) \/ EndWrite(m) \/ InsertMedia(m) PROVE IInv' /\ Grows
  BY <1>2, Uploading
<1>3. ASSUME NEW r \in Runs, NEW t \in Threads, NEW images \in Images,
             Create(r, t, images) \/ PostMessage(r, t, images)
      PROVE  IInv' /\ Grows
  BY <1>3, Asking
<1>4. ASSUME NEW r \in Runs, Refuse(r) \/ Persist(r) \/ Spawn(r) \/ AskRetry(r) \/ PrepareRetry(r)
      PROVE  IInv' /\ Grows
  BY <1>4, Refusing, Persisting, Spawning, AskingRetry, Retrying
<1>5. ASSUME NEW r \in Runs, NEW type \in Types, NEW delta \in Deltas(type),
             OpenPart(r, type, delta)
      PROVE  IInv' /\ Grows
  BY <1>5, OpeningPart
<1>6. ASSUME NEW r \in Runs, AppendPart(r, <<Word>>) PROVE IInv' /\ Grows
  BY <1>6, AppendingPart
<1>7. ASSUME NEW r \in Runs, Call(r) \/ Park(r) \/ Resume(r) \/ Complete(r) \/ Fail(r)
                             \/ CancelRun(r) \/ LoopStops(r)
      PROVE  IInv' /\ Grows
  BY <1>7, Calling, LivesOut, Resuming, Cancelling, Refusing
<1>8. ASSUME NEW r \in Runs, Persisted(r), NEW i \in DOMAIN run[r].steps,
             ResolveCall(r, i) \/ Decide(r, i)
      PROVE  IInv' /\ Grows
  BY <1>8, Resolving, Deciding
<1>9. CASE UNCHANGED vars
  BY <1>9, Stuttering
<1> QED BY <1>1, <1>2, <1>3, <1>4, <1>5, <1>6, <1>7, <1>8, <1>9 DEF Next

(***************************************************************************)
(* Theorems.                                                               *)
(***************************************************************************)
\* The invariant holds in every state.
THEOREM Invariant == SpecConversation => []IInv
<1>1. IInv /\ [Next]_vars => IInv'
  BY EveryStep
<1> QED BY <1>1, InitIInv, PTL DEF SpecConversation

LEMMA ManifestTrue == IInv => ManifestIsFaithful
<1> SUFFICES ASSUME IInv PROVE ManifestIsFaithful
  OBVIOUS
<1>1. RowsInv /\ TaskInv /\ ManifestInv
  BY DEF IInv
<1>2. TypeOK
  <2> SUFFICES ASSUME NEW r \in Runs, Persisted(r)
               PROVE  /\ run[r].status \in RunStatuses
                      /\ run[r].reply \in {"streaming", "completed", "incomplete"}
                      /\ \A i \in DOMAIN run[r].parts : run[r].parts[i].type \in Types
                      /\ \A i \in DOMAIN run[r].steps :
                            run[r].steps[i].kind = "part" => run[r].steps[i].part \in DOMAIN run[r].parts
                      /\ At(r, "live") => task[r].open \in {Closed, Len(run[r].parts)}
    BY DEF TypeOK
  <2>1. RowOK(run[r])
    BY <1>1, RunRow
  <2>2. \A i \in DOMAIN run[r].parts : run[r].parts[i].type \in Types
    <3>1. \A i \in DOMAIN run[r].parts : run[r].parts[i] \in PartSet
      BY <2>1, RowFields
    <3> QED BY <3>1, PartTexts
  <2>3. \A i \in DOMAIN run[r].steps :
           run[r].steps[i].kind = "part" => run[r].steps[i].part \in DOMAIN run[r].parts
    BY <2>1, RowFields DEF RowOK, Timeline
  <2>4. At(r, "live") => task[r].open \in {Closed, Len(run[r].parts)}
    BY <1>1 DEF TaskInv
  <2> QED BY <2>1, <2>2, <2>3, <2>4, RowFields DEF Replies
<1>3. HistoryIsFaithful
  <2> SUFFICES ASSUME NEW r \in Runs, task[r].mode = "fresh", NEW i \in DOMAIN task[r].manifest
               PROVE  LET h == task[r].manifest
                      IN  /\ h[i].run # r
                          /\ h[i] = Message(h[i].run, h[i].role)
                          /\ h[i].role = "assistant" => h[i - 1] = Message(h[i].run, "user")
    BY DEF HistoryIsFaithful
  <2>1. History(r, task[r].manifest)
    BY <1>1 DEF ManifestInv
  <2>2. DOMAIN task[r].manifest = 1 .. Len(task[r].manifest)
    BY <2>1 DEF History
  <2> QED BY <2>1, <2>2 DEF History
<1>4. ResumeTranscript
  <2> SUFFICES ASSUME NEW r \in Runs, task[r].mode = "resume"
               PROVE  LET m == task[r].manifest IN
                      /\ m # <<>> /\ m[1].block = "user"
                      /\ m[Len(m)].block = "result" /\ m[Len(m)].result \in {"accepted", "rejected"}
                      /\ \A i \in DOMAIN m : /\ m[i].block = "call" => m[i + 1].block = "result"
                                             /\ m[i].block = "assistant" => m[i].type # "reasoning"
    BY DEF ResumeTranscript
  <2>1. Rebuilt(task[r].manifest)
    BY <1>1 DEF ManifestInv
  <2>2. DOMAIN task[r].manifest = 1 .. Len(task[r].manifest)
    BY <2>1 DEF Rebuilt
  <2> QED BY <2>1, <2>2 DEF Rebuilt
<1> QED BY <1>2, <1>3, <1>4 DEF ManifestIsFaithful

\* What a Worker was told stays true: the history of a fresh Run, read after
\* its rows are committed while other Runs of the Thread stream, end and are
\* retried (start_run.rs), and the transcript of a resumed one (resume.rs).
THEOREM ManifestHolds == SpecConversation => []ManifestIsFaithful
BY Invariant, ManifestTrue, PTL

\* Once a reply has ended, its text changes only by a retry, which starts it
\* over: a delta in the loop's hands when the Run is stopped is dropped
\* (db/runs.rs append_text_part, mark_streaming_messages_incomplete).
THEOREM EndedTextHolds == SpecConversation => EndedTextStands
<1> DEFINE Stands == \A r \in Runs : Persisted(r) /\ run[r].reply # "streaming" =>
              run'[r].parts = run[r].parts \/ (run[r].status = "errored" /\ run'[r].parts = <<>>)
<1>1. IInv /\ [Next]_vars => Stands
  BY EveryStep DEF Grows, RowMove
<1>2. IInv /\ [Next]_vars => [Stands]_vars
  BY <1>1
<1>3. SpecConversation => [][Stands]_vars
  <2> HIDE DEF Stands
  <2> QED BY <1>2, Invariant, PTL DEF SpecConversation
<1> QED BY <1>3 DEF EndedTextStands

(***************************************************************************)
(* The text of a message, by every way it is read.                         *)
(***************************************************************************)
\* What a segment may be, and the text it holds.
PromptPart == [type |-> "text", text |-> <<Prompt>>]
SegmentSet == PartSet \cup StepSet \cup {AttachmentPart(m) : m \in Media} \cup {PromptPart}
Said == [x \in SegmentSet |-> IF IsText(x) THEN x.text ELSE <<>>]
Letters == Seq({Prompt, Word})

LEMMA SaidIs ==
  /\ Maps(Said, SegmentSet, Letters)
  /\ \A step \in StepSet : step \in SegmentSet /\ Said[step] = <<>>
  /\ \A part \in PartSet : part \in SegmentSet /\ Said[part] = TextOf(part)
  /\ \A m \in Media : AttachmentPart(m) \in SegmentSet /\ Said[AttachmentPart(m)] = <<>>
  /\ PromptPart \in SegmentSet /\ Said[PromptPart] = <<Prompt>>
<1>1. ASSUME NEW step \in StepSet PROVE step \in SegmentSet /\ ~IsText(step)
  <2>1. "type" \notin DOMAIN step
    BY DEF StepSet, PromptStep
  <2> QED BY <2>1 DEF SegmentSet, IsText
<1>2. ASSUME NEW part \in PartSet
      PROVE  part \in SegmentSet /\ (IsText(part) <=> part.type = "text")
  <2>1. "type" \in DOMAIN part
    BY DEF PartSet
  <2> QED BY <2>1 DEF SegmentSet, IsText
<1>3. ASSUME NEW m \in Media PROVE AttachmentPart(m) \in SegmentSet /\ ~IsText(AttachmentPart(m))
  <2>1. AttachmentPart(m).type # "text"
    BY DEF AttachmentPart
  <2> QED BY <2>1 DEF SegmentSet, IsText
<1>4. PromptPart \in SegmentSet /\ IsText(PromptPart) /\ PromptPart.text = <<Prompt>>
  BY DEF SegmentSet, PromptPart, IsText
<1>5. \A x \in SegmentSet : Said[x] = IF IsText(x) THEN x.text ELSE <<>>
  BY DEF Said
<1>6. \A part \in PartSet : Said[part] = TextOf(part)
  BY <1>2, <1>5 DEF TextOf
<1>7. <<>> \in Letters /\ <<Prompt>> \in Letters
  BY DEF Letters
<1>8. \A part \in PartSet : TextOf(part) \in Letters
  <2>1. ASSUME NEW s \in Seq({Word}) PROVE s \in Seq({Prompt, Word})
    OBVIOUS
  <2> QED BY <2>1, PartTexts DEF Texts, Letters
<1>9. \A x \in SegmentSet : Said[x] \in Letters
  <2> SUFFICES ASSUME NEW x \in SegmentSet PROVE Said[x] \in Letters
    OBVIOUS
  <2>1. x \in PartSet \/ x \in StepSet \/ (\E m \in Media : x = AttachmentPart(m)) \/ x = PromptPart
    BY DEF SegmentSet
  <2> QED BY <2>1, <1>1, <1>3, <1>4, <1>5, <1>6, <1>7, <1>8
<1> QED BY <1>1, <1>2, <1>3, <1>4, <1>5, <1>6, <1>9 DEF Maps

LEMMA FlatSaid ==
  ASSUME NEW view, view.segments \in Seq(SegmentSet)
  PROVE  FlatText(view) = Spread(view.segments, Said)
<1> DEFINE s == view.segments
<1>1. DOMAIN s = 1 .. Len(s) /\ \A i \in 1 .. Len(s) : s[i] \in SegmentSet
  OBVIOUS
<1>2. [i \in DOMAIN s |-> IF IsText(s[i]) THEN s[i].text ELSE <<>>] = Each(s, Said)
  BY <1>1 DEF Each, Said
<1> QED BY <1>2 DEF FlatText, Spread

\* What says nothing may be left out.
LEMMA OnlySaid ==
  ASSUME NEW T, NEW U, NEW s \in Seq(T), NEW S, NEW e, Maps(e, T, Seq(U)),
         \A i \in 1 .. Len(s) : s[i] \in S \/ e[s[i]] = <<>>
  PROVE  Spread(Only(s, S), e) = Spread(s, e)
<1> DEFINE g == [x \in T |-> IF x \in S THEN e[x] ELSE <<>>]
<1>1. \A i \in 1 .. Len(s) : s[i] \in T
  OBVIOUS
<1>2. \A i \in 1 .. Len(s) : g[s[i]] = e[s[i]]
  BY <1>1
<1>3. Spread(Only(s, S), e) = Spread(s, g)
  BY SpreadOnly
<1> HIDE DEF g
<1> QED BY <1>2, <1>3, SpreadSame

LEMMA ReplySaid ==
  ASSUME RowsInv, NEW r \in Runs, Persisted(r), NEW pending
  PROVE  /\ Segments(r, pending) \in Seq(SegmentSet)
         /\ Spread(Segments(r, pending), Said) = ReplyText(r)
<1> DEFINE parts == run[r].parts
           n == Len(parts)
           line == run[r].steps
           S == {s \in Range(line) : s.kind # "prompt"}
           steps == Only(line, S)
           segment(i) == IF ~Shown(r, steps, i, pending) THEN <<>>
                         ELSE IF steps[i].kind = "part" THEN <<parts[steps[i].part]>>
                         ELSE <<steps[i]>>
           all == [i \in DOMAIN steps |-> segment(i)]
           h == [k \in Nat |-> IF k \in 1 .. n THEN TextOf(parts[k]) ELSE <<>>]
           g == [step \in StepSet |-> IF step.kind = "part" THEN h[step.part] ELSE <<>>]
           F == [x \in Seq(SegmentSet) |-> Spread(x, Said)]
           G == [x \in Seq(Nat) |-> Spread(x, h)]
<1>1. /\ parts \in Seq(PartSet) /\ line \in Seq(StepSet) /\ DOMAIN line = 1 .. Len(line)
      /\ DOMAIN parts = 1 .. n /\ n \in Nat /\ Len(line) \in Nat
      /\ \A i \in 1 .. Len(line) : line[i].kind = "part" => line[i].part \in 1 .. n
      /\ Spread(line, PartNo) = UpTo(n)
  BY RunRow, RowFields DEF RowOK, Timeline
<1>2. Segments(r, pending) = Concat(all)
  BY DEF Segments, SegmentTimeline
<1>3. ReplyText(r) = Concat([i \in DOMAIN parts |-> TextOf(parts[i])])
  BY DEF ReplyText
<1> HIDE DEF parts, n, line
<1>4. /\ steps \in Seq(StepSet \cap S) /\ DOMAIN steps = 1 .. Len(steps) /\ Len(steps) \in Nat
      /\ \A i \in 1 .. Len(steps) :
            /\ steps[i] \in StepSet
            /\ steps[i].kind = "part" => steps[i].part \in 1 .. n
  <2>1. steps \in Seq(StepSet \cap S)
    BY <1>1, OnlySpread
  <2>2. \A s \in S : s.kind = "part" => s.part \in 1 .. n
    BY <1>1 DEF Range
  <2> HIDE DEF S, steps
  <2> QED BY <2>1, <2>2
<1>5. \A step \in StepSet : g[step] = IF step.kind = "part" THEN h[step.part] ELSE <<>>
  OBVIOUS
<1>6. \A k \in 1 .. n : k \in Nat /\ h[k] = TextOf(parts[k]) /\ parts[k] \in PartSet
  BY <1>1
<1>7. Maps(h, Nat, Texts) /\ Maps(g, StepSet, Texts)
  <2>1. \A k \in 1 .. n : TextOf(parts[k]) \in Texts
    BY <1>6, PartTexts
  <2>2. <<>> \in Texts
    BY DEF Texts
  <2>3. \A k \in Nat : h[k] \in Texts
    BY <2>1, <2>2
  <2>4. \A step \in StepSet : step.kind = "part" => step.part \in Nat
    BY DEF StepSet, PromptStep
  <2> HIDE DEF h
  <2>5. \A step \in StepSet : g[step] \in Texts
    BY <1>5, <2>2, <2>3, <2>4
  <2> QED BY <2>3, <2>5 DEF Maps
<1> HIDE DEF g, h
<1>8. ASSUME NEW i \in 1 .. Len(steps)
      PROVE  segment(i) \in Seq(SegmentSet) /\ Spread(segment(i), Said) = g[steps[i]]
  <2> DEFINE step == steps[i]
             part == parts[step.part]
  <2>1. step \in StepSet /\ (step.kind = "part" => step.part \in 1 .. n)
    BY <1>4
  <2>2. segment(i) = IF ~Shown(r, steps, i, pending) THEN <<>>
                     ELSE IF step.kind = "part" THEN <<part>> ELSE <<step>>
    OBVIOUS
  <2>3. step.kind = "part" => /\ part \in PartSet /\ g[step] = TextOf(part)
                              /\ ~Shown(r, steps, i, pending) => part.text = <<>>
    BY <1>5, <1>6, <2>1 DEF Shown, parts
  <2>4. step.kind # "part" => g[step] = <<>>
    BY <1>5, <2>1
  <2> HIDE DEF steps, step, part, segment
  <2>5. <<>> \in Seq(SegmentSet) /\ Spread(<<>>, Said) = <<>>
    BY SpreadEmpty
  <2>6. CASE ~Shown(r, steps, i, pending)
    <3>1. g[step] = <<>>
      BY <2>3, <2>4, <2>6 DEF TextOf
    <3> QED BY <2>2, <2>5, <2>6, <3>1 DEF step
  <2>7. CASE Shown(r, steps, i, pending) /\ step.kind = "part"
    <3>1. part \in SegmentSet /\ Said[part] = TextOf(part) /\ Said[part] \in Letters
      BY <2>3, <2>7, SaidIs DEF Maps
    <3>2. Spread(<<part>>, Said) = Said[part]
      BY <3>1, SpreadOne DEF Letters
    <3>3. <<part>> \in Seq(SegmentSet)
      BY <3>1
    <3> QED BY <2>2, <2>3, <2>7, <3>1, <3>2, <3>3 DEF step
  <2>8. CASE Shown(r, steps, i, pending) /\ step.kind # "part"
    <3>1. step \in SegmentSet /\ Said[step] = <<>> /\ Said[step] \in Letters
      BY <2>1, SaidIs DEF Maps
    <3>2. Spread(<<step>>, Said) = Said[step]
      BY <3>1, SpreadOne DEF Letters
    <3>3. <<step>> \in Seq(SegmentSet)
      BY <3>1
    <3> QED BY <2>2, <2>4, <2>8, <3>1, <3>2, <3>3 DEF step
  <2> QED BY <2>6, <2>7, <2>8 DEF step
<1> HIDE DEF segment
<1>9. all \in Seq(Seq(SegmentSet)) /\ Len(all) = Len(steps)
      /\ \A i \in 1 .. Len(steps) : all[i] = segment(i)
  BY <1>4, <1>8
<1>10. Concat(all) \in Seq(SegmentSet)
  BY <1>9, ConcatTyped
<1>11. Spread(Concat(all), Said) = Spread(steps, g)
  <2>1. Spread(Concat(all), Said) = Spread(all, F)
    BY <1>9, SaidIs, SpreadConcat DEF Letters
  <2>2. \A i \in 1 .. Len(steps) : F[all[i]] = g[steps[i]]
    BY <1>8, <1>9
  <2>3. DOMAIN all = 1 .. Len(steps)
    BY <1>4
  <2> HIDE DEF all, steps, F
  <2>4. Each(all, F) = Each(steps, g)
    BY <1>4, <2>2, <2>3 DEF Each
  <2> QED BY <2>1, <2>4 DEF Spread
<1>12. Spread(steps, g) = Spread(line, g)
  <2>1. \A i \in 1 .. Len(line) : line[i] \in S \/ g[line[i]] = <<>>
    <3>1. \A i \in 1 .. Len(line) : line[i] \in StepSet /\ line[i] \in Range(line)
      BY <1>1 DEF Range
    <3> QED BY <1>5, <3>1
  <2> HIDE DEF S
  <2> QED BY <1>1, <1>7, <2>1, OnlySaid DEF Texts
<1>13. Spread(line, g) = Spread(UpTo(n), h)
  <2> DEFINE q == Each(line, PartNo)
  <2>1. q \in Seq(Seq(Nat)) /\ DOMAIN q = 1 .. Len(line) /\ UpTo(n) = Concat(q)
    <3>1. q \in Seq(Seq(Nat))
      BY <1>1, PartNoIs, EachTyped
    <3> QED BY <1>1, <3>1 DEF Each, Spread
  <2>2. \A i \in 1 .. Len(line) : q[i] = PartNo[line[i]] /\ line[i] \in StepSet
    BY <1>1 DEF Each
  <2> HIDE DEF q
  <2>3. Spread(UpTo(n), h) = Spread(q, G)
    BY <1>7, <2>1, SpreadConcat DEF Texts
  <2>4. ASSUME NEW i \in 1 .. Len(line) PROVE G[q[i]] = g[line[i]]
    <3> DEFINE step == line[i]
    <3>1. step \in StepSet /\ q[i] = PartNo[step] /\ PartNo[step] \in Seq(Nat)
      BY <2>2, PartNoIs DEF Maps
    <3>2. (step.kind = "part" => step.part \in 1 .. n)
      BY <1>1
    <3> HIDE DEF step
    <3>3. G[q[i]] = Spread(PartNo[step], h)
      BY <3>1
    <3>4. CASE step.kind = "part"
      <4>1. step.part \in Nat /\ h[step.part] \in Texts
        BY <1>6, <1>7, <3>2, <3>4 DEF Maps
      <4>2. PartNo[step] = <<step.part>>
        BY <3>1, <3>4, PartNoIs
      <4>3. Spread(<<step.part>>, h) = h[step.part]
        BY <4>1, SpreadOne DEF Texts
      <4> QED BY <1>5, <3>1, <3>3, <3>4, <4>2, <4>3 DEF step
    <3>5. CASE step.kind # "part"
      <4>1. PartNo[step] = <<>>
        BY <3>1, <3>5, PartNoIs
      <4> QED BY <1>5, <3>1, <3>3, <3>5, <4>1, SpreadEmpty DEF step
    <3> QED BY <3>4, <3>5
  <2> HIDE DEF G
  <2>5. Each(q, G) = Each(line, g)
    BY <1>1, <2>1, <2>4 DEF Each
  <2> QED BY <2>3, <2>5 DEF Spread
<1>14. Spread(UpTo(n), h) = Concat([i \in DOMAIN parts |-> TextOf(parts[i])])
  <2>1. DOMAIN UpTo(n) = 1 .. n /\ \A i \in 1 .. n : UpTo(n)[i] = i
    BY DEF UpTo
  <2>2. Each(UpTo(n), h) = [i \in DOMAIN parts |-> TextOf(parts[i])]
    BY <1>1, <1>6, <2>1 DEF Each
  <2> QED BY <2>2 DEF Spread
<1> QED BY <1>2, <1>3, <1>10, <1>11, <1>12, <1>13, <1>14

LEMMA UserSaid ==
  ASSUME RowsInv, ImagesInv, NEW r \in Runs, Persisted(r)
  PROVE  /\ UserSegments(r) \in Seq(SegmentSet) /\ Spread(UserSegments(r), Said) = <<Prompt>>
         /\ LET ids == MediaIdsForMessage(r)
            IN  \A i \in DOMAIN ids : ids[i] \in Readables
<1> DEFINE images == run[r].images
           A == {AttachmentPart(m) : m \in Readables}
           rest == [i \in DOMAIN images |-> AttachmentPart(images[i])]
           P == {PromptPart} \cup A
           parts == UserParts(r)
           S == {p \in Range(parts) : p.type = "text" /\ p.text # <<>>}
           M == {p \in Range(parts) : p.type = "attachment"}
<1>1. images \in Seq(Readables) /\ run[r].prompt = <<Prompt>>
  BY RunRow, RowFields DEF ImagesInv
<1>2. rest \in Seq(A)
  <2> HIDE DEF images
  <2>1. DOMAIN images = 1 .. Len(images) /\ Len(images) \in Nat
        /\ \A i \in 1 .. Len(images) : images[i] \in Readables
    BY <1>1
  <2>2. rest \in [1 .. Len(images) -> A]
    BY <2>1
  <2> HIDE DEF rest, A
  <2> QED BY <2>1, <2>2
<1>3. parts = <<PromptPart>> \o rest
  BY <1>1 DEF UserParts, PromptPart
<1> HIDE DEF images
<1>4. /\ \A m \in Readables : /\ AttachmentPart(m).type = "attachment" /\ AttachmentPart(m).media = m
                              /\ AttachmentPart(m) \in SegmentSet /\ Said[AttachmentPart(m)] = <<>>
      /\ PromptPart.type = "text" /\ PromptPart.text # <<>>
  BY SaidIs DEF AttachmentPart, PromptPart, Readables
<1>5. /\ \A a \in A : /\ a \in SegmentSet /\ Said[a] = <<>> /\ a.type = "attachment"
                      /\ a.media \in Readables
      /\ PromptPart \in SegmentSet /\ Said[PromptPart] = <<Prompt>>
  BY <1>4, SaidIs
<1> HIDE DEF rest, A
<1>6. /\ parts \in Seq(P) /\ \A i \in 1 .. Len(parts) : parts[i] \in P /\ parts[i] \in Range(parts)
      /\ parts \in Seq(SegmentSet)
  <2>1. parts \in Seq(P)
    BY <1>2, <1>3
  <2> HIDE DEF parts, P
  <2>2. \A i \in 1 .. Len(parts) : parts[i] \in P /\ parts[i] \in Range(parts)
    BY <2>1 DEF Range
  <2>3. P \subseteq SegmentSet
    BY <1>5 DEF P
  <2> QED BY <2>1, <2>2, <2>3
<1>7. Spread(parts, Said) = <<Prompt>>
  <2>1. <<PromptPart>> \in Seq(SegmentSet) /\ rest \in Seq(SegmentSet)
        /\ \A i \in 1 .. Len(rest) : rest[i] \in A
    BY <1>2, <1>5
  <2>2. Spread(rest, Said) = <<>>
    BY <1>2, <1>5, <2>1, SpreadNothing
  <2>3. <<Prompt>> \in Letters
    BY DEF Letters
  <2>4. Spread(<<PromptPart>>, Said) = <<Prompt>>
    BY <1>5, <2>3, SpreadOne DEF Letters
  <2>5. Spread(parts, Said) = Spread(<<PromptPart>>, Said) \o Spread(rest, Said)
    <3>1. Maps(Said, SegmentSet, Seq({Prompt, Word}))
      BY SaidIs DEF Letters
    <3> DEFINE c == <<PromptPart>>
    <3>2. c \in Seq(SegmentSet) /\ parts = c \o rest
      BY <1>3, <2>1
    <3> HIDE DEF c, parts
    <3>3. Spread(c \o rest, Said) = Spread(c, Said) \o Spread(rest, Said)
      BY <2>1, <3>1, <3>2, SpreadCat
    <3> QED BY <3>2, <3>3 DEF c
  <2>6. <<Prompt>> \o <<>> = <<Prompt>>
    OBVIOUS
  <2> QED BY <2>2, <2>4, <2>5, <2>6
<1>8. UserSegments(r) = Only(parts, S) \o Only(parts, M)
  BY DEF UserSegments
<1>9. MediaIdsForMessage(r) = [i \in DOMAIN Only(parts, M) |-> Only(parts, M)[i].media]
  BY DEF MediaIdsForMessage
<1> HIDE DEF parts
<1>10. S \cap P \subseteq SegmentSet /\ M \cap P \subseteq A
  BY <1>4, <1>5
<1>11. \A i \in 1 .. Len(parts) : parts[i] \in S \/ Said[parts[i]] = <<>>
  BY <1>4, <1>5, <1>6
<1> HIDE DEF S, M, P
<1>12. Only(parts, S) \in Seq(SegmentSet) /\ Only(parts, M) \in Seq(A)
       /\ Only(parts, M) \in Seq(SegmentSet)
  <2>1. Only(parts, S) \in Seq(P \cap S) /\ Only(parts, M) \in Seq(P \cap M)
    BY <1>6, OnlySpread
  <2> DEFINE a == Only(parts, S)
             b == Only(parts, M)
  <2> HIDE DEF a, b
  <2>2. a \in Seq(P \cap S) => a \in Seq(SegmentSet)
    BY <1>10
  <2>3. b \in Seq(P \cap M) => b \in Seq(A)
    BY <1>10
  <2>4. b \in Seq(A) => b \in Seq(SegmentSet)
    BY <1>5
  <2> QED BY <2>1, <2>2, <2>3, <2>4 DEF a, b
<1>13. Spread(Only(parts, S), Said) = <<Prompt>>
  BY <1>6, <1>7, <1>11, SaidIs, OnlySaid DEF Letters
<1> DEFINE a == Only(parts, S)
           b == Only(parts, M)
<1> HIDE DEF a, b
<1>14. a \in Seq(SegmentSet) /\ b \in Seq(A) /\ b \in Seq(SegmentSet) /\ Spread(a, Said) = <<Prompt>>
       /\ UserSegments(r) = a \o b /\ MediaIdsForMessage(r) = [i \in DOMAIN b |-> b[i].media]
  BY <1>8, <1>9, <1>12, <1>13 DEF a, b
<1>15. Spread(b, Said) = <<>>
  <2>1. \A i \in 1 .. Len(b) : Said[b[i]] = <<>>
    BY <1>5, <1>14
  <2> QED BY <1>14, <2>1, SpreadNothing
<1>16. Spread(a \o b, Said) = <<Prompt>>
  <2>1. Spread(a \o b, Said) = Spread(a, Said) \o Spread(b, Said)
    <3>1. Maps(Said, SegmentSet, Seq({Prompt, Word}))
      BY SaidIs DEF Letters
    <3>2. a \in Seq(SegmentSet) /\ b \in Seq(SegmentSet)
      BY <1>14
    <3> QED BY <3>1, <3>2, SpreadCat
  <2>2. <<Prompt>> \o <<>> = <<Prompt>>
    OBVIOUS
  <2> QED BY <1>14, <1>15, <2>1, <2>2
<1>17. \A i \in DOMAIN b : b[i].media \in Readables
  BY <1>5, <1>14
<1> QED BY <1>14, <1>16, <1>17

\* Every way of reading a message tells the same text.
LEMMA ViewSaid ==
  ASSUME RowsInv, ImagesInv, NEW r \in Runs, Persisted(r), NEW role \in {"user", "assistant"}
  PROVE  LET view == MessageView(r, role)
         IN  /\ view.run = r /\ view.role = role
             /\ view.status = IF role = "user" THEN "completed" ELSE run[r].reply
             /\ ReadThread(view) = Message(r, role)
             /\ role = "assistant" =>
                   Message(r, role).text = FlatText([segments |-> LiveSegments(r)])
<1> DEFINE view == MessageView(r, role)
           live == [segments |-> LiveSegments(r)]
<1>1. /\ view.run = r /\ view.role = role
      /\ view.status = IF role = "user" THEN "completed" ELSE run[r].reply
      /\ view.segments = IF role = "user" THEN UserSegments(r) ELSE Segments(r, FALSE)
  BY DEF MessageView
<1> HIDE DEF view
<1>2. /\ Message(r, role).text = IF role = "user" THEN <<Prompt>> ELSE ReplyText(r)
      /\ Message(r, role) = [run |-> r, role |-> role, text |-> Message(r, role).text]
  BY MessageTyped DEF Message
<1>3. FlatText(view) = Message(r, role).text
  <2>1. CASE role = "user"
    <3>1. view.segments \in Seq(SegmentSet) /\ Spread(view.segments, Said) = <<Prompt>>
      BY <1>1, <2>1, UserSaid
    <3> QED BY <1>2, <2>1, <3>1, FlatSaid
  <2>2. CASE role = "assistant"
    <3>1. view.segments \in Seq(SegmentSet) /\ Spread(view.segments, Said) = ReplyText(r)
      BY <1>1, <2>2, ReplySaid
    <3> QED BY <1>2, <2>2, <3>1, FlatSaid
  <2> QED BY <2>1, <2>2
<1>4. ReadThread(view) = Message(r, role)
  BY <1>1, <1>2, <1>3 DEF ReadThread
<1>5. FlatText(live) = ReplyText(r)
  <2>1. live.segments = Segments(r, TRUE)
    BY DEF LiveSegments
  <2>2. live.segments \in Seq(SegmentSet) /\ Spread(live.segments, Said) = ReplyText(r)
    BY <2>1, ReplySaid
  <2> HIDE DEF live
  <2> QED BY <2>2, FlatSaid
<1> QED BY <1>1, <1>2, <1>4, <1>5 DEF view

\* A Thread shows the two messages of each of its Runs, and only those.
LEMMA ViewsAre ==
  ASSUME RowsInv, OrderInv, NEW t
  PROVE  LET views == ThreadMessages(t)
         IN  /\ DOMAIN views = 1 .. Len(views)
             /\ \A i \in 1 .. Len(views) : \E r \in In(t), role \in {"user", "assistant"} :
                   views[i] = MessageView(r, role)
             /\ \A r \in In(t), role \in {"user", "assistant"} : \E i \in 1 .. Len(views) :
                   views[i] = MessageView(r, role)
<1> DEFINE runs == ByTime(t)
           V == {MessageView(r, role) : r \in In(t), role \in {"user", "assistant"}}
           pair(i) == <<MessageView(runs[i], "user"), MessageView(runs[i], "assistant")>>
           all == [i \in DOMAIN runs |-> pair(i)]
           views == ThreadMessages(t)
<1>1. runs \in Seq(In(t))
  BY ByTimeTyped
<1>2. views = Concat(all)
  BY DEF ThreadMessages
<1>3. \A r \in In(t) : \E k \in 1 .. Len(runs) : runs[k] = r
  BY ByTimeHas
<1> HIDE DEF runs, views
<1>4. DOMAIN runs = 1 .. Len(runs) /\ Len(runs) \in Nat
  BY <1>1
<1>5. ASSUME NEW i \in 1 .. Len(runs)
      PROVE  /\ pair(i) \in Seq(V) /\ Len(pair(i)) = 2
             /\ pair(i)[1] = MessageView(runs[i], "user")
             /\ pair(i)[2] = MessageView(runs[i], "assistant")
  <2> DEFINE u == MessageView(runs[i], "user")
             a == MessageView(runs[i], "assistant")
  <2>1. u \in V /\ a \in V
    BY <1>1
  <2> HIDE DEF u, a, V
  <2> QED BY <2>1 DEF u, a
<1> HIDE DEF pair
<1>6. all \in Seq(Seq(V)) /\ Len(all) = Len(runs) /\ \A i \in 1 .. Len(runs) : all[i] = pair(i)
  <2> HIDE DEF V
  <2> QED BY <1>4, <1>5
<1> HIDE DEF all
<1>7. views \in Seq(V) /\ DOMAIN views = 1 .. Len(views) /\ Len(views) \in Nat
  <2> HIDE DEF V
  <2>1. views \in Seq(V)
    BY <1>2, <1>6, ConcatTyped
  <2> QED BY <2>1
<1>8. \A i \in 1 .. Len(views) : views[i] \in V
  <2> HIDE DEF V
  <2> QED BY <1>7
<1>9. ASSUME NEW r \in In(t), NEW role \in {"user", "assistant"}
      PROVE  \E i \in 1 .. Len(views) : views[i] = MessageView(r, role)
  <2>1. PICK k \in 1 .. Len(runs) : runs[k] = r
    BY <1>3
  <2>2. PICK o \in Nat : Placed(views, all[k], o)
    <3> HIDE DEF V
    <3> QED BY <1>2, <1>6, ConcatPieces DEF Places
  <2>3. /\ Len(all[k]) = 2 /\ all[k][1] = MessageView(r, "user")
        /\ all[k][2] = MessageView(r, "assistant")
    <3>1. all[k] = pair(k)
      BY <1>6, <2>1
    <3> HIDE DEF V
    <3> QED BY <1>5, <2>1, <3>1
  <2> HIDE DEF V
  <2>4. /\ o + 1 \in 1 .. Len(views) /\ views[o + 1] = MessageView(r, "user")
        /\ o + 2 \in 1 .. Len(views) /\ views[o + 2] = MessageView(r, "assistant")
    BY <1>7, <2>2, <2>3 DEF Placed
  <2> QED BY <2>4
<1>10. \A i \in 1 .. Len(views) : \E r \in In(t), role \in {"user", "assistant"} :
          views[i] = MessageView(r, role)
  BY <1>8
<1> HIDE DEF V
<1> QED BY <1>7, <1>9, <1>10 DEF views

LEMMA TextsAgree == IInv => OneText
<1> SUFFICES ASSUME IInv, NEW t \in Threads, Exists(t) PROVE
      LET views == ThreadGet(t).messages
          hits == {hit \in SearchHits(Word) : hit.thread = t}
      IN  /\ \A i \in DOMAIN views :
                LET view == views[i]
                    told == ReadThread(view)
                    hit == [thread |-> t, run |-> view.run, role |-> view.role]
                IN  /\ told = Message(view.run, view.role)
                    /\ view.role = "assistant" =>
                          told.text = FlatText([segments |-> LiveSegments(view.run)])
                    /\ hit \in hits <=>
                          view.status = "completed" /\ Word \in Range(told.text)
          /\ \A hit \in hits : \E i \in DOMAIN views :
                views[i].run = hit.run /\ views[i].role = hit.role
  BY DEF OneText
<1> DEFINE views == ThreadGet(t).messages
           hits == {hit \in SearchHits(Word) : hit.thread = t}
           Roles == {"user", "assistant"}
<1>1. RowsInv /\ OrderInv /\ ImagesInv
  BY DEF IInv
<1>2. views = ThreadMessages(t)
  BY DEF ThreadGet
<1>3. /\ DOMAIN views = 1 .. Len(views)
      /\ \A i \in 1 .. Len(views) : \E r \in In(t), role \in Roles : views[i] = MessageView(r, role)
      /\ \A r \in In(t), role \in Roles : \E i \in 1 .. Len(views) : views[i] = MessageView(r, role)
  <2> HIDE DEF views
  <2> DEFINE told == ThreadMessages(t)
  <2>1. /\ DOMAIN told = 1 .. Len(told)
        /\ \A i \in 1 .. Len(told) : \E r \in In(t), role \in Roles : told[i] = MessageView(r, role)
        /\ \A r \in In(t), role \in Roles : \E i \in 1 .. Len(told) : told[i] = MessageView(r, role)
    BY <1>1, ViewsAre
  <2> HIDE DEF told, Roles
  <2>2. views = told
    BY <1>2 DEF told
  <2> QED BY <2>1, <2>2
<1> HIDE DEF views
<1>4. \A r \in In(t) : r \in Runs /\ Persisted(r) /\ run[r].thread = t
  BY DEF In
\* Where a hit comes from.
<1>5. ASSUME NEW r \in Runs, NEW role \in Roles
      PROVE  [thread |-> t, run |-> r, role |-> role] \in hits <=>
                /\ r \in In(t)
                /\ role = "user" \/ run[r].reply = "completed"
                /\ Word \in Range(Message(r, role).text)
  <2> DEFINE hit == [thread |-> t, run |-> r, role |-> role]
  <2>1. ASSUME hit \in hits
        PROVE  /\ r \in In(t) /\ (role = "user" \/ run[r].reply = "completed")
               /\ Word \in Range(Message(r, role).text)
    <3>1. PICK pair \in Hits(Word) :
             hit = [thread |-> run[pair[1]].thread, run |-> pair[1], role |-> pair[2]]
      BY <2>1 DEF SearchHits
    <3>2. pair[1] = r /\ pair[2] = role /\ run[r].thread = t
      BY <3>1
    <3> QED BY <3>1, <3>2 DEF Hits, In
  <2>2. ASSUME r \in In(t), role = "user" \/ run[r].reply = "completed",
               Word \in Range(Message(r, role).text)
        PROVE  hit \in hits
    <3> DEFINE pair == <<r, role>>
    <3>1. pair \in Hits(Word) /\ pair[1] = r /\ pair[2] = role
      BY <1>4, <2>2 DEF Hits
    <3>2. hit = [thread |-> run[pair[1]].thread, run |-> pair[1], role |-> pair[2]]
      BY <1>4, <2>2, <3>1
    <3> HIDE DEF pair, hit
    <3>3. hit \in SearchHits(Word)
      BY <3>1, <3>2 DEF SearchHits
    <3>4. hit.thread = t
      BY DEF hit
    <3> QED BY <3>3, <3>4
  <2> QED BY <2>1, <2>2
<1>6. \A hit \in hits : hit = [thread |-> t, run |-> hit.run, role |-> hit.role]
                        /\ hit.run \in Runs /\ hit.role \in Roles
  BY DEF SearchHits, Hits
<1> HIDE DEF hits
<1>7. ASSUME NEW i \in DOMAIN views
      PROVE  LET view == views[i]
                 told == ReadThread(view)
                 hit == [thread |-> t, run |-> view.run, role |-> view.role]
             IN  /\ told = Message(view.run, view.role)
                 /\ view.role = "assistant" =>
                       told.text = FlatText([segments |-> LiveSegments(view.run)])
                 /\ hit \in hits <=>
                       view.status = "completed" /\ Word \in Range(told.text)
  <2>1. PICK r \in In(t), role \in Roles : views[i] = MessageView(r, role)
    BY <1>3
  <2> DEFINE view == MessageView(r, role)
             told == ReadThread(view)
  <2>2. /\ view.run = r /\ view.role = role
        /\ view.status = IF role = "user" THEN "completed" ELSE run[r].reply
        /\ told = Message(r, role)
        /\ role = "assistant" =>
              Message(r, role).text = FlatText([segments |-> LiveSegments(r)])
    BY <1>1, <1>4, ViewSaid
  <2> HIDE DEF view, told
  <2>3. role = "user" \/ run[r].reply = "completed" <=> view.status = "completed"
    BY <2>2
  <2>4. [thread |-> t, run |-> r, role |-> role] \in hits <=>
           view.status = "completed" /\ Word \in Range(told.text)
    BY <1>4, <1>5, <2>2, <2>3
  <2> QED BY <2>1, <2>2, <2>4 DEF view, told
<1>8. ASSUME NEW hit \in hits
      PROVE  \E i \in DOMAIN views : views[i].run = hit.run /\ views[i].role = hit.role
  <2>1. hit.run \in In(t) /\ hit.role \in Roles
    BY <1>5, <1>6
  <2>2. PICK i \in 1 .. Len(views) : views[i] = MessageView(hit.run, hit.role)
    BY <1>3, <2>1
  <2>3. views[i].run = hit.run /\ views[i].role = hit.role
    BY <2>2 DEF MessageView
  <2> QED BY <1>3, <2>3
<1> QED BY <1>7, <1>8 DEF views, hits

LEMMA ShownTrue == IInv => ShownIsTrue
<1> SUFFICES ASSUME IInv PROVE ShownIsTrue
  OBVIOUS
<1>1. RowsInv /\ MediaInv /\ ImagesInv
  BY DEF IInv
<1>2. FeedIsTrue
  <2> SUFFICES ASSUME NEW item \in RunHistory PROVE item.kind \in MilestonesOf(run[item.run].status)
    BY DEF FeedIsTrue, MilestonesOf
  <2>1. item.run \in Runs /\ Persisted(item.run) /\ item.kind = run[item.run].milestone
    BY DEF RunHistory
  <2> QED BY <1>1, <2>1, RunRow DEF RowOK
<1>3. MediaReadable
  <2>1. ASSUME NEW m \in Media, GetMedia(m) PROVE ServeMedia(m) = "whole"
    BY <1>1, <2>1 DEF MediaInv, GetMedia, ServeMedia
  <2>2. ASSUME NEW r \in Runs, Persisted(r), NEW i \in DOMAIN MediaIdsForMessage(r)
        PROVE  Readable(MediaIdsForMessage(r)[i])
    BY <1>1, <2>2, UserSaid DEF Readables
  <2> QED BY <2>1, <2>2 DEF MediaReadable
<1> QED BY <1>2, <1>3, TextsAgree DEF ShownIsTrue

\* What clients are shown is true and the same wherever they look: the text of
\* a message by parts and by timeline, by thread/get, read_thread, search and
\* a live subscription; the feed of Runs; the images (runs/thread_get.rs,
\* runs/message.rs, runs/run_history.rs, db/media.rs).
THEOREM ShownHolds == SpecConversation => []ShownIsTrue
BY Invariant, ShownTrue, PTL
=============================================================================
