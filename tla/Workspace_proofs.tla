-------------------------- MODULE Workspace_proofs ---------------------------
(***************************************************************************)
(* Theorems about Workspace, and about Payloads and LocalTime beneath it.  *)
(* Workspace: for every number of Entities, references, people in a        *)
(* capture, Proposals and requests, whatever tier 2 refers to is there, a  *)
(* capture mints no twin of a person who is there, and an accepted         *)
(* Proposal changes no entry of another Thread.  Payloads: every day has   *)
(* its date on the calendar, the readers of a payload agree, and what is   *)
(* stored can be edited.                                                   *)
(*                                                                         *)
(* The argument for Workspace: the tables are well shaped and linked       *)
(* (Good, which is Consistent taken apart), and each open request was      *)
(* checked against tables that have only grown since, where to grow is to  *)
(* delete but never to reuse (Grows).  A graph is applied node by node, so *)
(* what its operators compute is shown by induction on the nodes.          *)
(*                                                                         *)
(* The argument for Payloads: each day lies in one year that begins on a   *)
(* first of March and is one day of it, so that the arithmetic of days     *)
(* counts as the calendar does (Clock); and every field of every contract  *)
(* admits what its own schema admits (Tidy), so that field by field (Part) *)
(* what one reader lets through the next one does too.                     *)
(***************************************************************************)
EXTENDS Workspace, Payloads, SequenceTheorems, FiniteSetTheorems, WellFoundedInduction, TLAPS

(***************************************************************************)
(* Tables by their shape alone, and the links between rows apart from it:  *)
(* together they are consistent tables.                                    *)
(***************************************************************************)
BroadNode == {Text(l) : l \in Labels} \cup {Chip(s, t) : s \in Nat, t \in Nat}
BroadRow ==
    [type : EntityType, name : Labels, body : Seq(BroadNode),
     origin : Threads \cup {NoThread}, by : SUBSET Proposals]
BroadRef == [source : Nat, target : Nat, label : Labels]
Checkin == [habit : Nat, past : SUBSET Nat]
Db == [ent : Seq({Gone} \cup BroadRow), refs : SUBSET BroadRef, obs : Seq(Checkin)]

EntriesHaveBodies(d) ==
    \A e \in Ids(d) :
        d.ent[e] # Gone => (d.ent[e].type = "journal_entry" <=> d.ent[e].body # <<>>)
RefsHold(d) ==
    \A r \in d.refs : r.source \in Live(d, "journal_entry") /\ r.target \in Live(d, "person")
Links(d) == EntriesHaveBodies(d) /\ RefsHold(d) /\ ChipsResolve(d) /\ CheckinsKeepHabits(d)

LEMMA SeqIf ==
  ASSUME NEW S, NEW n \in Nat, NEW f, f = [i \in 1 .. n |-> f[i]], \A i \in 1 .. n : f[i] \in S
  PROVE  f \in Seq(S) /\ Len(f) = n
OBVIOUS

LEMMA CatForms ==
  ASSUME NEW S, NEW s \in Seq(S), NEW t \in Seq(S)
  PROVE  /\ s \o t \in Seq(S) /\ Len(s \o t) = Len(s) + Len(t)
         /\ DOMAIN (s \o t) = 1 .. (Len(s) + Len(t))
         /\ \A i \in 1 .. Len(s) : (s \o t)[i] = s[i]
         /\ \A i \in 1 .. Len(t) : (s \o t)[Len(s) + i] = t[i]
OBVIOUS

\* A text is no chip, and a chip is made of its parts.
LEMMA NodeForms ==
  ASSUME NEW x \in BroadNode
  PROVE  \/ x[1] = "text" /\ \E l \in Labels : x = Text(l)
         \/ x[1] = "chip" /\ x[2] \in Nat /\ x[3] \in Nat /\ x = Chip(x[2], x[3])
BY DEF BroadNode, Text, Chip

LEMMA TextNode == ASSUME NEW l \in Labels PROVE Text(l) \in BroadNode /\ Text(l)[1] = "text"
BY DEF BroadNode, Text

LEMMA ChipNode ==
  ASSUME NEW s \in Nat, NEW t \in Nat
  PROVE  Chip(s, t) \in BroadNode /\ Chip(s, t)[1] = "chip"
         /\ Chip(s, t)[2] = s /\ Chip(s, t)[3] = t
BY DEF BroadNode, Chip

LEMMA DbParts ==
  ASSUME NEW d \in Db
  PROVE  /\ d.ent \in Seq({Gone} \cup BroadRow) /\ d.refs \subseteq BroadRef /\ d.obs \in Seq(Checkin)
         /\ Len(d.ent) \in Nat /\ Ids(d) = 1 .. Len(d.ent) /\ DOMAIN d.ent = 1 .. Len(d.ent)
         /\ DOMAIN d.obs = 1 .. Len(d.obs) /\ Len(d.obs) \in Nat
         /\ \A e \in Ids(d) : e \in Nat /\ d.ent[e] \in {Gone} \cup BroadRow
         /\ \A o \in DOMAIN d.obs : d.obs[o] \in Checkin
         /\ d = [ent |-> d.ent, refs |-> d.refs, obs |-> d.obs]
<1>1. d.ent \in Seq({Gone} \cup BroadRow) /\ d.refs \subseteq BroadRef /\ d.obs \in Seq(Checkin)
      /\ d = [ent |-> d.ent, refs |-> d.refs, obs |-> d.obs]
  BY DEF Db
<1> QED BY <1>1 DEF Ids

LEMMA RowForms ==
  ASSUME NEW x \in {Gone} \cup BroadRow
  PROVE  /\ x = Gone <=> x.type = "gone"
         /\ x # Gone <=> x \in BroadRow
         /\ x # Gone => /\ x.type \in EntityType /\ x.name \in Labels /\ x.body \in Seq(BroadNode)
                        /\ x.origin \in Threads \cup {NoThread} /\ x.by \in SUBSET Proposals
BY DEF BroadRow, Gone, EntityType

LEMMA NodesAreBroad ==
  ASSUME NEW d, Len(d.ent) \in Nat PROVE Node(d) \subseteq BroadNode
BY DEF Node, BroadNode, Ids

LEMMA ConsistentIs == ASSUME NEW d PROVE Consistent(d) <=> d \in Db /\ Links(d)
<1>1. ASSUME Consistent(d) PROVE d \in Db /\ Links(d)
  <2>1. Tables(d)
    BY <1>1 DEF Consistent
  <2>2. /\ d.ent \in Seq({Gone} \cup EntityRow(d)) /\ d.refs \in SUBSET RefRow(d)
        /\ d.obs \in Seq(ObservationRow(d))
        /\ d = [ent |-> d.ent, refs |-> d.refs, obs |-> d.obs]
    BY <2>1 DEF Tables
  <2>3. Len(d.ent) \in Nat /\ Ids(d) \subseteq Nat
    BY <2>2 DEF Ids
  <2>4. Seq(Node(d)) \subseteq Seq(BroadNode)
    BY <2>3, NodesAreBroad
  <2>5. EntityRow(d) \subseteq BroadRow
    BY <2>4 DEF EntityRow, BroadRow
  <2>6. d.ent \in Seq({Gone} \cup BroadRow)
    BY <2>2, <2>5
  <2>7. RefRow(d) \subseteq BroadRef
    BY <2>3 DEF RefRow, BroadRef, Live
  <2>8. ObservationRow(d) \subseteq Checkin
    BY <2>3 DEF ObservationRow, Checkin
  <2>9. d.obs \in Seq(Checkin)
    BY <2>2, <2>8
  <2>10. d \in Db
    BY <2>2, <2>6, <2>7, <2>9 DEF Db
  <2>11. EntriesHaveBodies(d)
    BY <2>1 DEF Tables, EntriesHaveBodies
  <2>12. RefsHold(d)
    BY <2>2 DEF RefsHold, RefRow
  <2> QED BY <1>1, <2>10, <2>11, <2>12 DEF Consistent, Links
<1>2. ASSUME d \in Db, Links(d) PROVE Consistent(d)
  <2>1. ASSUME NEW e \in Ids(d) PROVE d.ent[e] \in {Gone} \cup EntityRow(d)
    <3> SUFFICES ASSUME d.ent[e] # Gone PROVE d.ent[e] \in EntityRow(d)
      OBVIOUS
    <3>1. d.ent[e] \in BroadRow
      BY <1>2, DbParts
    <3> DEFINE b == d.ent[e].body
    <3>2. b \in Seq(BroadNode)
      BY <3>1 DEF BroadRow
    <3>3. b \in Seq(Node(d))
      <4>1. CASE d.ent[e].type = "journal_entry"
        <5>1. e \in Live(d, "journal_entry")
          BY <4>1 DEF Live, EntityIsType
        <5>2. ASSUME NEW i \in DOMAIN b PROVE b[i] \in Node(d)
          <6>1. b[i] \in BroadNode
            BY <3>2
          <6>2. CASE b[i][1] = "text"
            <7>1. PICK l \in Labels : b[i] = Text(l)
              BY <6>1, <6>2, NodeForms
            <7> QED BY <7>1 DEF Node
          <6>3. CASE b[i][1] = "chip"
            <7>1. b[i] = Chip(b[i][2], b[i][3])
              BY <6>1, <6>3, NodeForms
            <7>2. b[i][2] = e /\ EntityRef(d, e, b[i][3]) # {}
              BY <1>2, <5>1, <6>3 DEF Links, ChipsResolve
            <7>3. PICK r \in d.refs : r.target = b[i][3]
              BY <7>2 DEF EntityRef
            <7>4. b[i][3] \in Ids(d)
              BY <1>2, <7>3 DEF Links, RefsHold, Live
            <7> QED BY <7>1, <7>2, <7>4 DEF Node
          <6> QED BY <6>1, <6>2, <6>3, NodeForms
        <5> HIDE DEF b
        <5> QED BY <3>2, <5>2
      <4>2. CASE d.ent[e].type # "journal_entry"
        <5>1. b = <<>>
          BY <1>2, <4>2 DEF Links, EntriesHaveBodies
        <5> HIDE DEF b
        <5> QED BY <5>1
      <4> QED BY <4>1, <4>2
    <3> QED BY <3>1, <3>3 DEF BroadRow, EntityRow
  <2>2. d.ent \in Seq({Gone} \cup EntityRow(d))
    BY <1>2, <2>1, DbParts
  <2>3. d.refs \in SUBSET RefRow(d)
    <3> SUFFICES ASSUME NEW r \in d.refs PROVE r \in RefRow(d)
      OBVIOUS
    <3>1. r \in BroadRef
      BY <1>2, DbParts
    <3>2. r.source \in Live(d, "journal_entry") /\ r.target \in Live(d, "person")
      BY <1>2 DEF Links, RefsHold
    <3> QED BY <3>1, <3>2 DEF BroadRef, RefRow
  <2>4. d.obs \in Seq(ObservationRow(d))
    <3>1. ASSUME NEW o \in DOMAIN d.obs PROVE d.obs[o] \in ObservationRow(d)
      <4>1. d.obs[o] \in Checkin
        BY <1>2, DbParts
      <4>2. ({d.obs[o].habit} \cup d.obs[o].past) \ {0} \subseteq Ids(d)
        BY <1>2 DEF Links, CheckinsKeepHabits, Live
      <4> QED BY <4>1, <4>2 DEF Checkin, ObservationRow
    <3> QED BY <1>2, <3>1, DbParts
  <2>5. Tables(d)
    <3>1. d = [ent |-> d.ent, refs |-> d.refs, obs |-> d.obs]
      BY <1>2, DbParts
    <3> QED BY <1>2, <2>2, <2>3, <2>4, <3>1 DEF Tables, Links, EntriesHaveBodies
  <2> QED BY <1>2, <2>5 DEF Consistent, Links
<1> QED BY <1>1, <1>2

(***************************************************************************)
(* Induction: a set with 0 that is closed under successor holds every      *)
(* number, from the least-element form of well-foundedness.                *)
(***************************************************************************)
LEMMA NatInduct ==
  ASSUME NEW S, 0 \in S, \A n \in Nat : n \in S => n + 1 \in S
  PROVE  Nat \subseteq S
<1> DEFINE T == {n \in Nat : n \notin S}
<1> SUFFICES ASSUME T # {} PROVE FALSE
  OBVIOUS
<1> HIDE DEF T
<1>1. PICK n \in T : \A m \in T : ~(m < n)
  <2> DEFINE R == OpToRel(<, Nat)
  <2>1. T \subseteq Nat /\ IsWellFoundedOn(R, Nat)
    BY NatLessThanWellFounded, Zenon DEF T
  <2>2. PICK n \in T : \A m \in T : ~ (<<m, n>> \in R)
    <3> HIDE DEF R
    <3> QED BY <2>1, WFMin
  <2>3. \A m \in T : ~(m < n)
    BY <2>1, <2>2 DEF OpToRel
  <2> HIDE DEF R
  <2> QED BY <2>2, <2>3
<1>2. n \in Nat /\ n \notin S /\ n # 0
  BY <1>1 DEF T
<1>3. n - 1 \in Nat /\ n - 1 < n /\ n = (n - 1) + 1
  BY <1>2
<1>4. n - 1 \in S
  BY <1>1, <1>3 DEF T
<1> QED BY <1>2, <1>3, <1>4

(***************************************************************************)
(* Minting: the n-th new row is the row of the n-th node to be created.    *)
(***************************************************************************)
LEMMA CreatesCount ==
  ASSUME NEW plan, NEW k \in Nat
  PROVE  IsFiniteSet(Creates(plan, k)) /\ Cardinality(Creates(plan, k)) \in Nat
         /\ Creates(plan, k) \subseteq 1 .. k
<1>1. IsFiniteSet(1 .. k)
  BY FS_Interval
<1>2. Creates(plan, k) \subseteq 1 .. k
  BY DEF Creates
<1>3. IsFiniteSet(Creates(plan, k))
  BY <1>1, <1>2, FS_Subset
<1> QED BY <1>2, <1>3, FS_CardinalityType

LEMMA RankBounds ==
  ASSUME NEW plan, NEW n \in Nat, NEW k \in Creates(plan, n)
  PROVE  Cardinality(Creates(plan, k)) \in 1 .. Cardinality(Creates(plan, n))
<1>1. k \in 1 .. n /\ k \in Nat
  BY DEF Creates
<1>2. Creates(plan, k) \subseteq Creates(plan, n) /\ k \in Creates(plan, k)
  BY <1>1 DEF Creates
<1>3. Cardinality(Creates(plan, k)) <= Cardinality(Creates(plan, n))
  BY <1>2, CreatesCount, FS_Subset
<1>4. Cardinality(Creates(plan, k)) # 0
  BY <1>1, <1>2, CreatesCount, FS_EmptySet
<1> QED BY <1>1, <1>3, <1>4, CreatesCount

LEMMA RankOnto ==
  ASSUME NEW plan, NEW n \in Nat, NEW m \in 1 .. Cardinality(Creates(plan, n))
  PROVE  \E k \in Creates(plan, n) : Cardinality(Creates(plan, k)) = m
<1> DEFINE Card(k) == Cardinality(Creates(plan, k))
           Onto(k) == \A i \in 1 .. Card(k) : \E j \in Creates(plan, k) : Card(j) = i
           S == {k \in Nat : Onto(k)}
<1>1. 0 \in S
  <2>1. Creates(plan, 0) = {}
    BY DEF Creates
  <2>2. Card(0) = 0
    BY <2>1, FS_EmptySet
  <2> QED BY <2>2
<1>2. ASSUME NEW k \in Nat, k \in S PROVE k + 1 \in S
  <2>1. k + 1 \in Nat /\ Card(k) \in Nat /\ Card(k + 1) \in Nat
    BY CreatesCount
  <2> SUFFICES ASSUME NEW i \in 1 .. Card(k + 1)
               PROVE  \E j \in Creates(plan, k + 1) : Card(j) = i
    BY <2>1
  <2>2. Creates(plan, k) \subseteq Creates(plan, k + 1)
    BY DEF Creates
  <2>3. CASE k + 1 \in Creates(plan, k + 1)
    <3>1. Creates(plan, k + 1) = Creates(plan, k) \cup {k + 1} /\ k + 1 \notin Creates(plan, k)
      BY <2>3 DEF Creates
    <3>2. Card(k + 1) = Card(k) + 1
      BY <3>1, CreatesCount, FS_AddElement
    <3>3. CASE i = Card(k + 1)
      BY <3>3, <2>3
    <3>4. CASE i \in 1 .. Card(k)
      <4>1. PICK j \in Creates(plan, k) : Card(j) = i
        BY <3>4, <1>2
      <4> QED BY <4>1, <2>2
    <3> HIDE DEF Card
    <3> QED BY <3>2, <3>3, <3>4, <2>1
  <2>4. CASE k + 1 \notin Creates(plan, k + 1)
    <3>1. Creates(plan, k + 1) = Creates(plan, k)
      BY <2>4 DEF Creates
    <3> QED BY <3>1, <1>2
  <2> QED BY <2>3, <2>4
<1> HIDE DEF S
<1>3. Nat \subseteq S
  BY <1>1, <1>2, NatInduct
<1> QED BY <1>3 DEF S

LEMMA MintedFromCreate ==
  ASSUME NEW plan, Len(plan) \in Nat,
         NEW n \in 1 .. Cardinality(Creates(plan, Len(plan)))
  PROVE  MintedFrom(plan, n) \in Creates(plan, Len(plan))
BY RankOnto DEF MintedFrom

(***************************************************************************)
(* What a write leaves of the rows that were there: an Entity keeps its    *)
(* type and its origin until it is deleted, and a deleted one stays away.  *)
(***************************************************************************)
Heir(old, new) ==
    \/ new = Gone
    \/ old # Gone /\ new # Gone /\ new.type = old.type /\ new.origin = old.origin
Grows(d, d2) ==
    /\ Ids(d) \subseteq Ids(d2)
    /\ \A e \in Ids(d) : Heir(d.ent[e], d2.ent[e])
Good(d) == d \in Db /\ Links(d)

OwnChips(d, e, body) ==
    \A i \in DOMAIN body :
        body[i][1] = "chip" => body[i][2] = e /\ EntityRef(d, e, body[i][3]) # {}
NoChips(body) == \A i \in DOMAIN body : body[i][1] # "chip"
FreshRow(row) ==
    /\ row \in BroadRow
    /\ row.type = "journal_entry" <=> row.body # <<>>

LEMMA LiveIs ==
  ASSUME NEW d \in Db, NEW type \in EntityType, NEW e
  PROVE  e \in Live(d, type) <=> e \in Ids(d) /\ d.ent[e] \in BroadRow /\ d.ent[e].type = type
<1>1. \A x \in Ids(d) : d.ent[x] \in {Gone} \cup BroadRow
  BY DbParts
<1>2. type # "gone"
  BY DEF EntityType
<1> QED BY <1>1, <1>2, RowForms DEF Live, EntityIsType

LEMMA EntryRow ==
  ASSUME NEW d, Good(d), NEW e \in Live(d, "journal_entry")
  PROVE  e \in Ids(d) /\ d.ent[e] \in BroadRow /\ d.ent[e].body \in Seq(BroadNode)
         /\ d.ent[e].body # <<>> /\ OwnChips(d, e, d.ent[e].body)
<1>1. e \in Ids(d) /\ d.ent[e] \in BroadRow /\ d.ent[e].type = "journal_entry"
  BY LiveIs DEF Good, EntityType
<1>2. d.ent[e] # Gone
  BY <1>1, RowForms
<1> QED BY <1>1, <1>2 DEF Good, Links, ChipsResolve, OwnChips, EntriesHaveBodies, BroadRow

\* Links, from what they say row by row.
LEMMA GoodIf ==
  ASSUME NEW d \in Db,
         \A r \in d.refs : r.source \in Live(d, "journal_entry") /\ r.target \in Live(d, "person"),
         \A e \in Ids(d) : d.ent[e] # Gone => FreshRow(d.ent[e]) /\ OwnChips(d, e, d.ent[e].body),
         CheckinsKeepHabits(d)
  PROVE  Good(d)
<1>1. EntriesHaveBodies(d)
  BY DEF EntriesHaveBodies, FreshRow
<1>2. ASSUME NEW e \in Live(d, "journal_entry")
      PROVE  OwnChips(d, e, d.ent[e].body)
  <2>1. e \in Ids(d) /\ d.ent[e] # Gone
    BY LiveIs, RowForms DEF EntityType
  <2> QED BY <2>1
<1>3. ChipsResolve(d)
  BY <1>2 DEF ChipsResolve, OwnChips
<1> QED BY <1>1, <1>3 DEF Good, Links, RefsHold

LEMMA GoodRows ==
  ASSUME NEW d, Good(d), NEW e \in Ids(d), d.ent[e] # Gone
  PROVE  FreshRow(d.ent[e]) /\ OwnChips(d, e, d.ent[e].body)
<1>1. d.ent[e] \in BroadRow
  BY DbParts, RowForms DEF Good
<1>2. FreshRow(d.ent[e])
  BY <1>1 DEF Good, Links, EntriesHaveBodies, FreshRow
<1>3. CASE d.ent[e].type = "journal_entry"
  <2>1. e \in Live(d, "journal_entry")
    BY <1>3 DEF Live, EntityIsType
  <2> QED BY <1>2, <2>1, EntryRow
<1>4. CASE d.ent[e].type # "journal_entry"
  <2>1. d.ent[e].body = <<>>
    BY <1>2, <1>4 DEF FreshRow
  <2> QED BY <1>2, <2>1 DEF OwnChips
<1> QED BY <1>3, <1>4

LEMMA NoChipsOwn == ASSUME NEW d, NEW e, NEW body, NoChips(body) PROVE OwnChips(d, e, body)
BY DEF NoChips, OwnChips

LEMMA OwnChipsStay ==
  ASSUME NEW d, NEW d2, NEW e, NEW body, OwnChips(d, e, body),
         \A t : EntityRef(d, e, t) # {} => EntityRef(d2, e, t) # {}
  PROVE  OwnChips(d2, e, body)
BY DEF OwnChips

\* New rows without chips, at the end.
LEMMA RowsAppended ==
  ASSUME NEW d, Good(d), NEW rows \in Seq(BroadRow),
         \A i \in 1 .. Len(rows) : FreshRow(rows[i]) /\ NoChips(rows[i].body),
         NEW d2, d2 = [ent |-> d.ent \o rows, refs |-> d.refs, obs |-> d.obs]
  PROVE  /\ Good(d2) /\ Grows(d, d2)
         /\ d2.refs = d.refs /\ d2.obs = d.obs
         /\ Len(d2.ent) = Len(d.ent) + Len(rows)
         /\ Ids(d2) = 1 .. (Len(d.ent) + Len(rows))
         /\ \A e \in Ids(d) : d2.ent[e] = d.ent[e]
         /\ \A i \in 1 .. Len(rows) : d2.ent[Len(d.ent) + i] = rows[i]
<1>1. d \in Db
  BY DEF Good
<1> DEFINE n == Len(d.ent)
           m == Len(rows)
<1>2. n \in Nat /\ m \in Nat /\ d.ent \in Seq({Gone} \cup BroadRow) /\ Ids(d) = 1 .. n
      /\ d = [ent |-> d.ent, refs |-> d.refs, obs |-> d.obs] /\ d.refs \subseteq BroadRef
      /\ d.obs \in Seq(Checkin)
  BY <1>1, DbParts
<1>3. d2 = [ent |-> d.ent \o rows, refs |-> d.refs, obs |-> d.obs]
  OBVIOUS
<1>4. rows \in Seq({Gone} \cup BroadRow)
  OBVIOUS
<1>5. d.ent \o rows \in Seq({Gone} \cup BroadRow) /\ Len(d.ent \o rows) = n + m
      /\ \A e \in 1 .. n : (d.ent \o rows)[e] = d.ent[e]
      /\ \A i \in 1 .. m : (d.ent \o rows)[n + i] = rows[i]
  BY <1>2, <1>4
<1>6. d2 \in Db
  BY <1>2, <1>3, <1>5 DEF Db
<1>7. d2.refs = d.refs /\ d2.obs = d.obs /\ Len(d2.ent) = n + m /\ Ids(d2) = 1 .. (n + m)
      /\ (\A e \in Ids(d) : d2.ent[e] = d.ent[e])
      /\ \A i \in 1 .. m : d2.ent[n + i] = rows[i]
  BY <1>2, <1>3, <1>5 DEF Ids
<1> HIDE DEF n, m
<1>8. Ids(d) \subseteq Ids(d2)
  BY <1>2, <1>7
<1>9. \A type : Live(d, type) \subseteq Live(d2, type)
  BY <1>7, <1>8 DEF Live, EntityIsType
<1>10. \A e, t : EntityRef(d2, e, t) = EntityRef(d, e, t)
  BY <1>7 DEF EntityRef
<1>11. ASSUME NEW e \in Ids(d2), d2.ent[e] # Gone
       PROVE  FreshRow(d2.ent[e]) /\ OwnChips(d2, e, d2.ent[e].body)
  <2>1. CASE e \in Ids(d)
    <3>1. FreshRow(d.ent[e]) /\ OwnChips(d, e, d.ent[e].body)
      BY <2>1, <1>7, <1>11, GoodRows
    <3>2. d2.ent[e] = d.ent[e]
      BY <2>1, <1>7
    <3>3. \A t : EntityRef(d, e, t) # {} => EntityRef(d2, e, t) # {}
      BY <1>10
    <3>4. OwnChips(d2, e, d.ent[e].body)
      BY <3>1, <3>3, OwnChipsStay
    <3> QED BY <3>1, <3>2, <3>4
  <2>2. CASE e \notin Ids(d)
    <3>1. e - n \in 1 .. m /\ e = n + (e - n)
      BY <2>2, <1>2, <1>7
    <3>2. FreshRow(d2.ent[e]) /\ NoChips(d2.ent[e].body)
      BY <3>1, <1>7 DEF m
    <3> QED BY <3>2, NoChipsOwn
  <2> QED BY <2>1, <2>2
<1>12. \A r \in d2.refs : r.source \in Live(d2, "journal_entry") /\ r.target \in Live(d2, "person")
  BY <1>7, <1>9 DEF Good, Links, RefsHold
<1>13. CheckinsKeepHabits(d2)
  <2>1. CheckinsKeepHabits(d)
    BY DEF Good, Links
  <2> QED BY <2>1, <1>7, <1>9 DEF CheckinsKeepHabits
<1>14. Good(d2)
  BY <1>6, <1>11, <1>12, <1>13, GoodIf
<1>15. Grows(d, d2)
  BY <1>7, <1>8 DEF Grows, Heir
<1> QED BY <1>7, <1>14, <1>15 DEF n, m

\* More references, from entries to people.
LEMMA RefsAdded ==
  ASSUME NEW d, Good(d), NEW R \in SUBSET BroadRef,
         \A r \in R : r.source \in Live(d, "journal_entry") /\ r.target \in Live(d, "person"),
         NEW d2, d2 = [ent |-> d.ent, refs |-> d.refs \cup R, obs |-> d.obs]
  PROVE  /\ Good(d2) /\ Grows(d, d2) /\ Ids(d2) = Ids(d)
         /\ d2.ent = d.ent /\ d2.obs = d.obs /\ d2.refs = d.refs \cup R
         /\ \A e, t : EntityRef(d, e, t) # {} => EntityRef(d2, e, t) # {}
<1>1. d \in Db /\ Links(d)
  BY DEF Good
<1>3. d2.ent = d.ent /\ d2.obs = d.obs /\ d2.refs = d.refs \cup R /\ Ids(d2) = Ids(d)
  BY DEF Ids
<1>4. d2 \in Db
  BY <1>1, DbParts DEF Db
<1>5. \A e, t : EntityRef(d, e, t) # {} => EntityRef(d2, e, t) # {}
  BY <1>3 DEF EntityRef
<1>6. \A type : Live(d2, type) = Live(d, type)
  BY <1>3 DEF Live, EntityIsType
<1>7. ASSUME NEW e \in Ids(d2), d2.ent[e] # Gone
      PROVE  FreshRow(d2.ent[e]) /\ OwnChips(d2, e, d2.ent[e].body)
  <2>1. d2.ent[e] = d.ent[e]
    BY <1>3
  <2>2. FreshRow(d.ent[e]) /\ OwnChips(d, e, d.ent[e].body)
    BY <1>3, <1>7, <2>1, GoodRows
  <2>3. \A t : EntityRef(d, e, t) # {} => EntityRef(d2, e, t) # {}
    BY <1>5
  <2>4. OwnChips(d2, e, d.ent[e].body)
    BY <2>2, <2>3, OwnChipsStay
  <2> QED BY <2>1, <2>2, <2>4
<1>8. \A r \in d2.refs : r.source \in Live(d2, "journal_entry") /\ r.target \in Live(d2, "person")
  BY <1>1, <1>3, <1>6 DEF Links, RefsHold
<1>9. CheckinsKeepHabits(d2)
  <2>1. CheckinsKeepHabits(d)
    BY <1>1 DEF Links
  <2> QED BY <2>1, <1>3, <1>6 DEF CheckinsKeepHabits
<1>10. Good(d2)
  BY <1>4, <1>7, <1>8, <1>9, GoodIf
<1>11. Grows(d, d2)
  <2>1. \A e \in Ids(d) : Heir(d.ent[e], d2.ent[e])
    BY <1>3 DEF Heir
  <2> QED BY <1>3, <2>1 DEF Grows
<1> QED BY <1>3, <1>5, <1>10, <1>11

LEMMA SameRow ==
  ASSUME NEW x \in BroadRow, NEW y \in BroadRow, x.type = y.type, x.name = y.name,
         x.body = y.body, x.origin = y.origin, x.by = y.by
  PROVE  x = y
BY DEF BroadRow

LEMMA UpdateForm ==
  ASSUME NEW d \in Db, NEW e \in Ids(d), d.ent[e] # Gone,
         NEW name \in Labels, NEW body \in Seq(BroadNode), NEW who \in Proposals \cup {User},
         NEW row \in BroadRow, row.type = d.ent[e].type, row.name = name, row.body = body,
         row.origin = d.ent[e].origin, row.by = d.ent[e].by \cup ({who} \ {User}),
         NEW d2, d2 = UpdateEntity(d, e, name, body, who)
  PROVE  d2 = [ent |-> [d.ent EXCEPT ![e] = row], refs |-> d.refs, obs |-> d.obs]
<1> DEFINE old == d.ent[e]
           new == [old EXCEPT !.name = name, !.body = body, !.by = @ \cup ({who} \ {User})]
<1>1. old \in BroadRow
  BY DbParts, RowForms
<1>2. new = row
  <2>1. old.by \cup ({who} \ {User}) \in SUBSET Proposals
    BY <1>1 DEF BroadRow
  <2>2. /\ new \in BroadRow /\ new.type = old.type /\ new.origin = old.origin
        /\ new.body = body /\ new.name = name /\ new.by = old.by \cup ({who} \ {User})
    BY <1>1, <2>1 DEF BroadRow
  <2> HIDE DEF new
  <2> QED BY <2>2, SameRow
<1>3. d.ent \in Seq({Gone} \cup BroadRow) /\ DOMAIN d.ent = 1 .. Len(d.ent) /\ Ids(d) = 1 .. Len(d.ent)
      /\ Len(d.ent) \in Nat
      /\ d = [ent |-> d.ent, refs |-> d.refs, obs |-> d.obs]
  BY DbParts
<1>4. d2 = [ent |-> [d.ent EXCEPT ![e] = new], refs |-> d.refs, obs |-> d.obs]
  <2>1. [d.ent EXCEPT ![e].name = name, ![e].body = body, ![e].by = @ \cup ({who} \ {User})]
          = [d.ent EXCEPT ![e] = new]
    BY <1>3
  <2> QED BY <1>3, <2>1 DEF UpdateEntity
<1> HIDE DEF new
<1> QED BY <1>2, <1>4

\* One row rewritten under its type, with a body of texts and its own chips.
LEMMA RowUpdated ==
  ASSUME NEW d, Good(d), NEW e \in Ids(d), d.ent[e] # Gone,
         NEW name \in Labels, NEW body \in Seq(BroadNode),
         d.ent[e].type = "journal_entry" <=> body # <<>>, OwnChips(d, e, body),
         NEW who \in Proposals \cup {User},
         NEW d2, d2 = UpdateEntity(d, e, name, body, who)
  PROVE  /\ Good(d2) /\ Grows(d, d2) /\ Ids(d2) = Ids(d)
         /\ d2.refs = d.refs /\ d2.obs = d.obs
         /\ \A x \in Ids(d) \ {e} : d2.ent[x] = d.ent[x]
         /\ d2.ent[e] # Gone /\ d2.ent[e].type = d.ent[e].type
<1>1. d \in Db /\ Links(d)
  BY DEF Good
<1> DEFINE old == d.ent[e]
           new == [old EXCEPT !.name = name, !.body = body, !.by = @ \cup ({who} \ {User})]
<1>2. old \in BroadRow
  BY <1>1, DbParts, RowForms
<1>3. new \in BroadRow /\ new.type = old.type /\ new.origin = old.origin /\ new.body = body
  <2>1. old.by \cup ({who} \ {User}) \in SUBSET Proposals
    BY <1>2 DEF BroadRow
  <2> QED BY <1>2, <2>1 DEF BroadRow
<1>4. d.ent \in Seq({Gone} \cup BroadRow) /\ DOMAIN d.ent = 1 .. Len(d.ent) /\ Ids(d) = 1 .. Len(d.ent)
      /\ Len(d.ent) \in Nat
      /\ d = [ent |-> d.ent, refs |-> d.refs, obs |-> d.obs]
  BY <1>1, DbParts
<1>5. d2 = [ent |-> [d.ent EXCEPT ![e] = new], refs |-> d.refs, obs |-> d.obs]
  <2>1. [d.ent EXCEPT ![e].name = name, ![e].body = body, ![e].by = @ \cup ({who} \ {User})]
          = [d.ent EXCEPT ![e] = new]
    BY <1>4
  <2> QED BY <1>4, <2>1 DEF UpdateEntity
<1> HIDE DEF new
<1>6. [d.ent EXCEPT ![e] = new] \in Seq({Gone} \cup BroadRow)
      /\ Len([d.ent EXCEPT ![e] = new]) = Len(d.ent)
  BY <1>3, <1>4
<1>7. /\ d2.refs = d.refs /\ d2.obs = d.obs /\ d2.ent = [d.ent EXCEPT ![e] = new]
      /\ Ids(d2) = Ids(d) /\ d2.ent[e] = new
      /\ \A x \in Ids(d) \ {e} : d2.ent[x] = d.ent[x]
  BY <1>4, <1>5, <1>6 DEF Ids
<1>8. d2 \in Db
  BY <1>1, <1>5, <1>6, DbParts DEF Db
<1>9. new # Gone
  BY <1>3, RowForms
<1>10. \A x, t : EntityRef(d2, x, t) = EntityRef(d, x, t)
  BY <1>7 DEF EntityRef
<1>11. \A type : Live(d2, type) = Live(d, type)
  <2>1. ASSUME NEW type, NEW x \in Ids(d) PROVE d2.ent[x].type = d.ent[x].type
    BY <1>3, <1>7
  <2> QED BY <1>7, <2>1 DEF Live, EntityIsType
<1>12. ASSUME NEW x \in Ids(d2), d2.ent[x] # Gone
       PROVE  FreshRow(d2.ent[x]) /\ OwnChips(d2, x, d2.ent[x].body)
  <2>1. CASE x = e
    <3>1. FreshRow(new)
      BY <1>3 DEF FreshRow
    <3>2. OwnChips(d2, e, body)
      BY <1>10, OwnChipsStay
    <3> QED BY <2>1, <3>1, <3>2, <1>3, <1>7
  <2>2. CASE x # e
    <3>1. d2.ent[x] = d.ent[x] /\ x \in Ids(d)
      BY <2>2, <1>7
    <3>2. FreshRow(d.ent[x]) /\ OwnChips(d, x, d.ent[x].body)
      BY <1>12, <3>1, GoodRows
    <3>3. OwnChips(d2, x, d.ent[x].body)
      BY <3>2, <1>10, OwnChipsStay
    <3> QED BY <3>1, <3>2, <3>3
  <2> QED BY <2>1, <2>2
<1>13. \A r \in d2.refs : r.source \in Live(d2, "journal_entry") /\ r.target \in Live(d2, "person")
  BY <1>1, <1>7, <1>11 DEF Links, RefsHold
<1>14. CheckinsKeepHabits(d2)
  <2>1. CheckinsKeepHabits(d)
    BY <1>1 DEF Links
  <2> QED BY <2>1, <1>7, <1>11 DEF CheckinsKeepHabits
<1>15. Good(d2)
  BY <1>8, <1>12, <1>13, <1>14, GoodIf
<1>16. Grows(d, d2)
  <2>1. ASSUME NEW x \in Ids(d) PROVE Heir(d.ent[x], d2.ent[x])
    <3>1. CASE x = e
      BY <3>1, <1>3, <1>7, <1>9 DEF Heir
    <3>2. CASE x # e
      BY <3>2, <1>7 DEF Heir
    <3> QED BY <3>1, <3>2
  <2> QED BY <1>7, <2>1 DEF Grows
<1> QED BY <1>3, <1>7, <1>9, <1>15, <1>16

\* The chips of a person about to be deleted, turned into text.
Textualized(old, new, e, target) ==
    /\ DOMAIN new = DOMAIN old
    /\ \A i \in DOMAIN old :
          \/ new[i] = old[i] /\ old[i] # Chip(e, target)
          \/ old[i] = Chip(e, target) /\ new[i][1] = "text"
RowTextualized(old, new, e, target) ==
    \/ new = old
    \/ /\ old # Gone /\ new # Gone
       /\ new.type = old.type /\ new.origin = old.origin
       /\ Textualized(old.body, new.body, e, target)

LEMMA LabelsTyped ==
  ASSUME NEW d, Good(d), NEW r \in d.refs
  PROVE  LabelAtDeletion(d, r) \in Labels
<1>1. r.label \in Labels
  BY DbParts DEF Good, BroadRef
<1>2. r.target \in Live(d, "person")
  BY DEF Good, Links, RefsHold
<1>3. d.ent[r.target] \in BroadRow
  BY <1>2, LiveIs DEF Good, EntityType
<1>4. d.ent[r.target].name \in Labels
  BY <1>3 DEF BroadRow
<1> QED BY <1>1, <1>4 DEF LabelAtDeletion

LEMMA RowTextualizes ==
  ASSUME NEW d, Good(d), NEW target, NEW who \in Proposals \cup {User},
         NEW e \in Ids(d), EntityRef(d, e, target) # {},
         NEW new, new = WithoutChips(d, e, target, who)
  PROVE  /\ new \in BroadRow /\ FreshRow(new)
         /\ RowTextualized(d.ent[e], new, e, target)
         /\ \A i \in DOMAIN new.body : new.body[i] # Chip(e, target)
         /\ OwnChips(d, e, new.body)
<1>1. PICK r \in d.refs : r.source = e /\ r.target = target
  BY DEF EntityRef
<1>2. e \in Live(d, "journal_entry") /\ target \in Live(d, "person")
  BY <1>1 DEF Good, Links, RefsHold
<1>3. e \in Nat /\ target \in Nat
  BY <1>2, DbParts DEF Good, Live
<1> DEFINE old == d.ent[e].body
           ref == CHOOSE x \in EntityRef(d, e, target) : TRUE
           label == LabelAtDeletion(d, ref)
           body == [i \in DOMAIN old |-> IF old[i] = Chip(e, target) THEN Text(label) ELSE old[i]]
<1>0. label \in Labels
  <2>1. ref \in d.refs
    BY DEF EntityRef
  <2> HIDE DEF ref
  <2> QED BY <2>1, LabelsTyped
<1>14. new = [d.ent[e] EXCEPT !.body = body, !.by = @ \cup ({who} \ {User})]
  BY DEF WithoutChips
<1> HIDE DEF label
<1>4. d.ent[e] \in BroadRow /\ old \in Seq(BroadNode) /\ old # <<>> /\ OwnChips(d, e, old)
      /\ FreshRow(d.ent[e])
  <2>1. d.ent[e] \in BroadRow /\ old \in Seq(BroadNode) /\ old # <<>> /\ OwnChips(d, e, old)
    BY <1>2, EntryRow
  <2> QED BY <2>1, GoodRows, RowForms
<1>5. \A i \in DOMAIN old : old[i] \in BroadNode
  BY <1>4
<1> HIDE DEF old
<1>6. ASSUME NEW i \in DOMAIN old
      PROVE  /\ body[i] \in BroadNode
             /\ \/ body[i] = old[i] /\ old[i] # Chip(e, target)
                \/ old[i] = Chip(e, target) /\ body[i][1] = "text"
             /\ body[i] # Chip(e, target)
  <2>1. CASE old[i] = Chip(e, target)
    <3>1. body[i] = Text(label)
      BY <2>1
    <3>2. Text(label) # Chip(e, target) /\ Text(label) \in BroadNode /\ Text(label)[1] = "text"
      BY <1>0, <1>3, TextNode, ChipNode
    <3> QED BY <2>1, <3>1, <3>2
  <2>2. CASE old[i] # Chip(e, target)
    <3>1. body[i] = old[i]
      BY <2>2
    <3> QED BY <2>2, <3>1, <1>5
  <2> QED BY <2>1, <2>2
<1>7. DOMAIN body = DOMAIN old
  OBVIOUS
<1>8. body \in Seq(BroadNode) /\ body # <<>>
  <2> HIDE DEF body
  <2>1. DOMAIN old = 1 .. Len(old) /\ Len(old) \in Nat /\ Len(old) # 0
    BY <1>4
  <2>2. body = [i \in 1 .. Len(old) |-> body[i]]
    BY <2>1, <1>7 DEF body
  <2>5. \A i \in 1 .. Len(old) : body[i] \in BroadNode
    BY <2>1, <1>6
  <2>4. body \in Seq(BroadNode) /\ Len(body) = Len(old)
    BY <2>1, <2>2, <2>5, SeqIf
  <2> QED BY <2>1, <2>4
<1>9. OwnChips(d, e, body)
  <2> SUFFICES ASSUME NEW i \in DOMAIN body, body[i][1] = "chip"
               PROVE  body[i][2] = e /\ EntityRef(d, e, body[i][3]) # {}
    BY DEF OwnChips
  <2>1. body[i] = old[i] /\ i \in DOMAIN old
    BY <1>6, <1>7
  <2> QED BY <2>1, <1>4 DEF OwnChips
<1> HIDE DEF body
<1>10. new \in BroadRow /\ new.type = d.ent[e].type /\ new.origin = d.ent[e].origin /\ new.body = body
  <2>1. d.ent[e].by \cup ({who} \ {User}) \in SUBSET Proposals
    BY <1>4 DEF BroadRow
  <2> QED BY <1>4, <1>8, <1>14, <2>1 DEF BroadRow
<1>11. FreshRow(new)
  BY <1>4, <1>8, <1>10 DEF FreshRow, old
<1>12. Textualized(old, body, e, target)
  BY <1>6, <1>7 DEF Textualized
<1>13. RowTextualized(d.ent[e], new, e, target)
  BY <1>4, <1>10, <1>12, RowForms DEF RowTextualized, old
<1> QED BY <1>6, <1>7, <1>9, <1>10, <1>11, <1>13

LEMMA Textualizes ==
  ASSUME NEW d, Good(d), NEW target, NEW who \in Proposals \cup {User},
         NEW d2, d2 = Textualize(d, target, who)
  PROVE  /\ Good(d2) /\ Grows(d, d2) /\ Ids(d2) = Ids(d)
         /\ d2.refs = d.refs /\ d2.obs = d.obs
         /\ \A e \in Ids(d) : RowTextualized(d.ent[e], d2.ent[e], e, target)
         /\ \A e \in Ids(d) : d2.ent[e] # Gone =>
               \A i \in DOMAIN d2.ent[e].body : d2.ent[e].body[i] # Chip(e, target)
<1>1. d \in Db /\ Links(d)
  BY DEF Good
<1>2. d.ent \in Seq({Gone} \cup BroadRow) /\ DOMAIN d.ent = 1 .. Len(d.ent) /\ Ids(d) = 1 .. Len(d.ent)
      /\ Len(d.ent) \in Nat
      /\ d = [ent |-> d.ent, refs |-> d.refs, obs |-> d.obs]
  BY <1>1, DbParts
<1> DEFINE New(e) == WithoutChips(d, e, target, who)
           rows == [e \in DOMAIN d.ent |-> IF EntityRef(d, e, target) = {} THEN d.ent[e] ELSE New(e)]
<1>3. d2 = [ent |-> rows, refs |-> d.refs, obs |-> d.obs]
  <2>1. d2 = [d EXCEPT !.ent = rows]
    BY DEF Textualize
  <2> HIDE DEF rows
  <2> QED BY <1>2, <2>1
<1>4. ASSUME NEW e \in Ids(d), EntityRef(d, e, target) # {}
      PROVE  /\ New(e) \in BroadRow /\ FreshRow(New(e))
             /\ RowTextualized(d.ent[e], New(e), e, target)
             /\ \A i \in DOMAIN New(e).body : New(e).body[i] # Chip(e, target)
             /\ OwnChips(d, e, New(e).body)
  BY <1>4, RowTextualizes
<1> HIDE DEF New
<1>5. /\ d2.refs = d.refs /\ d2.obs = d.obs /\ d2.ent = rows
      /\ \A e \in Ids(d) : d2.ent[e] = IF EntityRef(d, e, target) = {} THEN d.ent[e] ELSE New(e)
  BY <1>2, <1>3
<1>6. \A e \in Ids(d) : d2.ent[e] \in {Gone} \cup BroadRow
  BY <1>1, <1>4, <1>5, DbParts
<1>7. rows \in Seq({Gone} \cup BroadRow) /\ Len(rows) = Len(d.ent)
  <2>1. rows = [e \in 1 .. Len(d.ent) |-> rows[e]]
    BY <1>2
  <2>2. \A e \in 1 .. Len(d.ent) : rows[e] \in {Gone} \cup BroadRow
    BY <1>2, <1>5, <1>6
  <2> HIDE DEF rows
  <2> QED BY <1>2, <2>1, <2>2
<1>8. d2 \in Db /\ Ids(d2) = Ids(d)
  BY <1>1, <1>3, <1>5, <1>7, DbParts DEF Db, Ids
<1> HIDE DEF rows
<1>9. \A e, t : EntityRef(d2, e, t) = EntityRef(d, e, t)
  BY <1>5 DEF EntityRef
<1>10. ASSUME NEW e \in Ids(d)
       PROVE  /\ RowTextualized(d.ent[e], d2.ent[e], e, target)
              /\ d2.ent[e] # Gone => /\ FreshRow(d2.ent[e]) /\ OwnChips(d2, e, d2.ent[e].body)
                                     /\ \A i \in DOMAIN d2.ent[e].body : d2.ent[e].body[i] # Chip(e, target)
  <2>1. CASE EntityRef(d, e, target) # {}
    <3>1. d2.ent[e] = New(e)
      BY <2>1, <1>5
    <3>2. OwnChips(d2, e, New(e).body)
      <4>1. OwnChips(d, e, New(e).body)
        BY <2>1, <1>4
      <4> QED BY <4>1, <1>9, OwnChipsStay
    <3> QED BY <2>1, <3>1, <3>2, <1>4
  <2>2. CASE EntityRef(d, e, target) = {}
    <3>1. d2.ent[e] = d.ent[e]
      BY <2>2, <1>5
    <3> SUFFICES ASSUME d.ent[e] # Gone
                 PROVE  /\ FreshRow(d.ent[e]) /\ OwnChips(d2, e, d.ent[e].body)
                        /\ \A i \in DOMAIN d.ent[e].body : d.ent[e].body[i] # Chip(e, target)
      BY <3>1 DEF RowTextualized
    <3>2. FreshRow(d.ent[e]) /\ OwnChips(d, e, d.ent[e].body)
      BY GoodRows
    <3>3. OwnChips(d2, e, d.ent[e].body)
      BY <3>2, <1>9, OwnChipsStay
    <3>4. ASSUME NEW i \in DOMAIN d.ent[e].body, d.ent[e].body[i] = Chip(e, target) PROVE FALSE
      <4>1. d.ent[e].body[i][1] = "chip" /\ d.ent[e].body[i][3] = target
        BY <3>4 DEF Chip
      <4> QED BY <4>1, <3>2, <2>2 DEF OwnChips
    <3> QED BY <3>2, <3>3, <3>4
  <2> QED BY <2>1, <2>2
<1>11. ASSUME NEW e \in Ids(d)
       PROVE  (d2.ent[e] = Gone <=> d.ent[e] = Gone) /\ d2.ent[e].type = d.ent[e].type
              /\ Heir(d.ent[e], d2.ent[e])
  BY <1>10 DEF RowTextualized, Heir
<1>12. \A type : Live(d2, type) = Live(d, type)
  BY <1>8, <1>11 DEF Live, EntityIsType
<1>13. \A r \in d2.refs : r.source \in Live(d2, "journal_entry") /\ r.target \in Live(d2, "person")
  BY <1>1, <1>5, <1>12 DEF Links, RefsHold
<1>14. CheckinsKeepHabits(d2)
  <2>1. CheckinsKeepHabits(d)
    BY <1>1 DEF Links
  <2> QED BY <2>1, <1>5, <1>12 DEF CheckinsKeepHabits
<1>15. Good(d2)
  BY <1>8, <1>10, <1>13, <1>14, GoodIf
<1>16. Grows(d, d2)
  BY <1>8, <1>11 DEF Grows
<1> QED BY <1>5, <1>8, <1>10, <1>15, <1>16

\* An Entity deleted that no chip and no check-in names any more.
ChipTo(d, target) ==
    \E e \in Ids(d) : d.ent[e] # Gone /\ \E i \in DOMAIN d.ent[e].body : d.ent[e].body[i] = Chip(e, target)

LEMMA RowDeleted ==
  ASSUME NEW d, Good(d), NEW e \in Ids(d), ~ChipTo(d, e), ~ReferencedByObservation(d, e),
         NEW d2, d2 = DeleteEntity(d, e)
  PROVE  /\ Good(d2) /\ Grows(d, d2) /\ Ids(d2) = Ids(d) /\ d2.obs = d.obs
         /\ d2.ent[e] = Gone
         /\ \A x \in Ids(d) \ {e} : d2.ent[x] = d.ent[x]
<1>1. d \in Db /\ Links(d)
  BY DEF Good
<1>2. d.ent \in Seq({Gone} \cup BroadRow) /\ DOMAIN d.ent = 1 .. Len(d.ent) /\ Ids(d) = 1 .. Len(d.ent)
      /\ Len(d.ent) \in Nat
      /\ d = [ent |-> d.ent, refs |-> d.refs, obs |-> d.obs]
      /\ d.refs \subseteq BroadRef
  BY <1>1, DbParts
<1> DEFINE kept == {r \in d.refs : r.source # e /\ r.target # e}
<1>3. d2 = [ent |-> [d.ent EXCEPT ![e] = Gone], refs |-> kept, obs |-> d.obs]
  BY <1>2 DEF DeleteEntity
<1>4. [d.ent EXCEPT ![e] = Gone] \in Seq({Gone} \cup BroadRow)
      /\ Len([d.ent EXCEPT ![e] = Gone]) = Len(d.ent)
  BY <1>2
<1>5. /\ d2.refs = kept /\ d2.obs = d.obs /\ Ids(d2) = Ids(d)
      /\ d2.ent[e] = Gone /\ \A x \in Ids(d) \ {e} : d2.ent[x] = d.ent[x]
  BY <1>2, <1>3, <1>4 DEF Ids
<1>6. d2 \in Db
  <2>1. kept \subseteq BroadRef
    BY <1>2
  <2> HIDE DEF kept
  <2> QED BY <1>1, <1>3, <1>4, <2>1, DbParts DEF Db
<1>7. ASSUME NEW type \in EntityType
      PROVE  Live(d2, type) = Live(d, type) \ {e}
  BY <1>5, <1>7 DEF Live, EntityIsType, Gone, EntityType
<1>8. ASSUME NEW x \in Ids(d2), d2.ent[x] # Gone
      PROVE  FreshRow(d2.ent[x]) /\ OwnChips(d2, x, d2.ent[x].body)
  <2>1. x # e /\ x \in Ids(d) /\ d2.ent[x] = d.ent[x]
    BY <1>5, <1>8
  <2>2. FreshRow(d.ent[x]) /\ OwnChips(d, x, d.ent[x].body)
    BY <1>8, <2>1, GoodRows
  <2> DEFINE b == d.ent[x].body
  <2>3. b \in Seq(BroadNode)
    BY <2>2 DEF FreshRow, BroadRow
  <2>4. ASSUME NEW i \in DOMAIN b, b[i][1] = "chip"
        PROVE  b[i][2] = x /\ EntityRef(d2, x, b[i][3]) # {}
    <3>1. b[i][2] = x /\ EntityRef(d, x, b[i][3]) # {}
      BY <2>2, <2>4 DEF OwnChips
    <3>2. b[i] = Chip(x, b[i][3])
      <4>1. b[i] \in BroadNode
        BY <2>3
      <4> QED BY <3>1, <4>1, <2>4, NodeForms
    <3>3. b[i][3] # e
      BY <3>2, <2>1, <1>8 DEF ChipTo
    <3>4. PICK r \in d.refs : r.source = x /\ r.target = b[i][3]
      BY <3>1 DEF EntityRef
    <3>5. r \in d2.refs
      BY <3>3, <3>4, <2>1, <1>5
    <3> QED BY <3>1, <3>4, <3>5 DEF EntityRef
  <2>5. OwnChips(d2, x, b)
    BY <2>4 DEF OwnChips
  <2> QED BY <2>1, <2>2, <2>5
<1>9. \A r \in d2.refs : r.source \in Live(d2, "journal_entry") /\ r.target \in Live(d2, "person")
  <2>1. "journal_entry" \in EntityType /\ "person" \in EntityType
    BY DEF EntityType
  <2> QED BY <1>1, <1>5, <1>7, <2>1 DEF Links, RefsHold
<1>10. CheckinsKeepHabits(d2)
  <2>1. CheckinsKeepHabits(d)
    BY <1>1 DEF Links
  <2>2. Live(d2, "habit") = Live(d, "habit") \ {e}
    BY <1>7 DEF EntityType
  <2>3. \A o \in DOMAIN d.obs : e \notin {d.obs[o].habit} \cup d.obs[o].past
    BY DEF ReferencedByObservation
  <2> QED BY <2>1, <2>2, <2>3, <1>5 DEF CheckinsKeepHabits
<1>11. Good(d2)
  BY <1>6, <1>8, <1>9, <1>10, GoodIf
<1>12. Grows(d, d2)
  BY <1>5 DEF Grows, Heir
<1> QED BY <1>5, <1>11, <1>12

LEMMA OnlyPeopleAreMentioned ==
  ASSUME NEW d, Good(d), NEW e \in Ids(d), ~EntityIsType(d, e, "person")
  PROVE  ~ChipTo(d, e)
<1> SUFFICES ASSUME NEW x \in Ids(d), d.ent[x] # Gone, NEW i \in DOMAIN d.ent[x].body,
                    d.ent[x].body[i] = Chip(x, e)
             PROVE  FALSE
  BY DEF ChipTo
<1>1. d.ent[x].body[i][1] = "chip" /\ d.ent[x].body[i][3] = e
  BY DEF Chip
<1>2. EntityRef(d, x, e) # {}
  BY <1>1, GoodRows DEF OwnChips
<1>3. PICK r \in d.refs : r.target = e
  BY <1>2 DEF EntityRef
<1> QED BY <1>3 DEF Good, Links, RefsHold, Live

LEMMA OnlyHabitsAreObserved ==
  ASSUME NEW d, Good(d), NEW e \in Ids(d), ~EntityIsType(d, e, "habit")
  PROVE  ~ReferencedByObservation(d, e)
<1>1. e # 0
  BY DbParts DEF Good
<1> QED BY <1>1 DEF Good, Links, CheckinsKeepHabits, ReferencedByObservation, Live

(***************************************************************************)
(* Observations.                                                           *)
(***************************************************************************)
LEMMA ObservationsWritten ==
  ASSUME NEW d, Good(d), NEW obs \in Seq(Checkin),
         \A o \in DOMAIN obs : ({obs[o].habit} \cup obs[o].past) \ {0} \subseteq Live(d, "habit"),
         NEW d2, d2 = [d EXCEPT !.obs = obs]
  PROVE  Good(d2) /\ Grows(d, d2) /\ d2.ent = d.ent /\ Ids(d2) = Ids(d)
<1>1. d \in Db /\ Links(d)
  BY DEF Good
<1>2. d2 = [ent |-> d.ent, refs |-> d.refs, obs |-> obs]
  <2>1. d = [ent |-> d.ent, refs |-> d.refs, obs |-> d.obs]
    BY <1>1, DbParts
  <2> QED BY <2>1
<1>3. d2.ent = d.ent /\ d2.refs = d.refs /\ d2.obs = obs /\ Ids(d2) = Ids(d)
  BY <1>2 DEF Ids
<1>4. d2 \in Db
  BY <1>1, <1>2, DbParts DEF Db
<1>5. (\A type : Live(d2, type) = Live(d, type)) /\ \A e, t : EntityRef(d2, e, t) = EntityRef(d, e, t)
  BY <1>3 DEF Live, EntityIsType, EntityRef
<1>6. EntriesHaveBodies(d2)
  BY <1>1, <1>3 DEF Links, EntriesHaveBodies
<1>7. RefsHold(d2)
  BY <1>1, <1>3, <1>5 DEF Links, RefsHold
<1>8. ChipsResolve(d2)
  BY <1>1, <1>3, <1>5 DEF Links, ChipsResolve
<1>9. CheckinsKeepHabits(d2)
  BY <1>3, <1>5 DEF CheckinsKeepHabits
<1>10. Good(d2)
  BY <1>4, <1>6, <1>7, <1>8, <1>9 DEF Good, Links
<1>11. Grows(d, d2)
  <2>1. \A e \in Ids(d) : Heir(d.ent[e], d2.ent[e])
    BY <1>3 DEF Heir
  <2> QED BY <1>3, <2>1 DEF Grows
<1> QED BY <1>3, <1>10, <1>11

BatchShape ==
    [kind : {<<"record", "observations">>}, evidence : Nat, drafts : Seq(Nat)]

LEMMA BatchRecorded ==
  ASSUME NEW d, Good(d), NEW batch \in BatchShape, BatchCommits(d, batch),
         NEW d2, d2 = InsertObservations(d, batch)
  PROVE  Good(d2) /\ Grows(d, d2) /\ d2.ent = d.ent /\ Ids(d2) = Ids(d)
<1> DEFINE n == Len(batch.drafts)
           more == [k \in DOMAIN batch.drafts |-> [habit |-> batch.drafts[k], past |-> {}]]
           obs == d.obs \o more
<1>1. batch.drafts \in Seq(Nat) /\ DOMAIN batch.drafts = 1 .. n /\ n \in Nat
  BY DEF BatchShape
<1>2. \A k \in 1 .. n : batch.drafts[k] \in Nat /\ more[k] = [habit |-> batch.drafts[k], past |-> {}]
                        /\ more[k] \in Checkin
  BY <1>1 DEF Checkin
<1>3. more = [k \in 1 .. n |-> more[k]]
  BY <1>1
<1> HIDE DEF more, n
<1>4. more \in Seq(Checkin) /\ Len(more) = n
  BY <1>1, <1>2, <1>3, SeqIf
<1>5. d.obs \in Seq(Checkin) /\ Len(d.obs) \in Nat
  BY DbParts DEF Good
<1>6. obs \in Seq(Checkin) /\ Len(obs) = Len(d.obs) + n /\ DOMAIN obs = 1 .. (Len(d.obs) + n)
      /\ (\A o \in 1 .. Len(d.obs) : obs[o] = d.obs[o])
      /\ \A k \in 1 .. n : obs[Len(d.obs) + k] = more[k]
  <2>1. obs \in Seq(Checkin)
    BY <1>4, <1>5
  <2>2. Len(obs) = Len(d.obs) + Len(more) /\ DOMAIN obs = 1 .. (Len(d.obs) + Len(more))
    BY <1>4, <1>5
  <2>3. \A o \in 1 .. Len(d.obs) : obs[o] = d.obs[o]
    BY <1>4, <1>5
  <2>4. \A k \in 1 .. Len(more) : obs[Len(d.obs) + k] = more[k]
    BY <1>4, <1>5
  <2> HIDE DEF obs
  <2> QED BY <1>4, <2>1, <2>2, <2>3, <2>4
<1>7. ASSUME NEW o \in DOMAIN obs
      PROVE  ({obs[o].habit} \cup obs[o].past) \ {0} \subseteq Live(d, "habit")
  <2>1. o \in 1 .. (Len(d.obs) + n)
    BY <1>6
  <2>2. CASE o \in 1 .. Len(d.obs)
    <3>1. obs[o] = d.obs[o] /\ o \in DOMAIN d.obs
      BY <2>2, <1>5, <1>6
    <3>2. ({d.obs[o].habit} \cup d.obs[o].past) \ {0} \subseteq Live(d, "habit")
      BY <3>1 DEF Good, Links, CheckinsKeepHabits
    <3> HIDE DEF obs
    <3> QED BY <3>1, <3>2
  <2>3. CASE o \notin 1 .. Len(d.obs)
    <3> HIDE DEF obs
    <3>8. PICK l \in Nat : l = Len(d.obs)
      BY <1>5
    <3>9. PICK k \in Int : k = o - l
      BY <2>1, <1>1, <3>8
    <3>1. k \in 1 .. n /\ o = Len(d.obs) + k
      BY <2>1, <2>3, <1>1, <3>8, <3>9
    <3>2. obs[o].habit = batch.drafts[k] /\ obs[o].past = {} /\ batch.drafts[k] \in Nat
      <4>1. obs[o] = more[k]
        BY <3>1, <1>6
      <4>2. more[k] = [habit |-> batch.drafts[k], past |-> {}] /\ batch.drafts[k] \in Nat
        BY <3>1, <1>2
      <4> QED BY <4>1, <4>2
    <3>3. batch.drafts[k] = 0 \/ EntityIsType(d, batch.drafts[k], "habit")
      BY <3>1, <1>1 DEF BatchCommits, InvalidRelation
    <3> QED BY <3>2, <3>3 DEF Live, EntityIsType
  <2> QED BY <2>2, <2>3
<1>8. d2 = [d EXCEPT !.obs = obs]
  BY DEF InsertObservations, more
<1> HIDE DEF obs
<1> QED BY <1>6, <1>7, <1>8, ObservationsWritten

LEMMA ObservationCorrected ==
  ASSUME NEW d, Good(d), NEW o \in DOMAIN d.obs, NEW habit \in Nat, ~InvalidRelation(d, habit),
         NEW d2, d2 = CorrectObservation(d, o, habit)
  PROVE  Good(d2) /\ Grows(d, d2) /\ d2.ent = d.ent /\ Ids(d2) = Ids(d)
<1> DEFINE new == [habit |-> habit, past |-> d.obs[o].past \cup {d.obs[o].habit}]
           obs == [d.obs EXCEPT ![o] = new]
<1>1. d.obs \in Seq(Checkin) /\ d.obs[o] \in Checkin /\ DOMAIN d.obs = 1 .. Len(d.obs)
  BY DbParts DEF Good
<1>2. new \in Checkin /\ d.obs[o] = [habit |-> d.obs[o].habit, past |-> d.obs[o].past]
  BY <1>1 DEF Checkin
<1>3. obs \in Seq(Checkin)
  BY <1>1, <1>2
<1>4. d2 = [d EXCEPT !.obs = obs]
  BY DEF CorrectObservation
<1>5. ASSUME NEW x \in DOMAIN obs
      PROVE  ({obs[x].habit} \cup obs[x].past) \ {0} \subseteq Live(d, "habit")
  <2>1. x \in DOMAIN d.obs
    BY <1>1
  <2>2. \A y \in DOMAIN d.obs : ({d.obs[y].habit} \cup d.obs[y].past) \ {0} \subseteq Live(d, "habit")
    BY DEF Good, Links, CheckinsKeepHabits
  <2>3. CASE x = o
    <3>1. obs[x] = new
      BY <2>1, <2>3
    <3>2. habit = 0 \/ habit \in Live(d, "habit")
      BY DEF InvalidRelation, Live, EntityIsType
    <3> QED BY <2>2, <2>3, <3>1, <3>2
  <2>4. CASE x # o
    <3>1. obs[x] = d.obs[x]
      BY <2>1, <2>4
    <3> HIDE DEF obs
    <3> QED BY <2>1, <2>2, <3>1
  <2> QED BY <2>3, <2>4
<1> HIDE DEF obs
<1> QED BY <1>3, <1>4, <1>5, ObservationsWritten

(***************************************************************************)
(* One mutation of one Entity.                                             *)
(***************************************************************************)
Written == {"person", "journal_entry", "habit"}
Kinds == ({"create", "update", "delete"} \X Written) \cup {<<"reference", "journal_entry">>}
MutationShape ==
    [kind : Kinds, target : Nat, name : Labels, body : Seq(BroadNode) \cup {<<Hole(1)>>},
     other : Nat, label : Labels]
Shaped(m) ==
    /\ m \in MutationShape
    /\ m.kind[1] \in {"create", "update"} =>
          m.body \in Seq(BroadNode) /\ (m.kind[2] = "journal_entry" <=> m.body # <<>>)
    /\ m.kind[1] = "create" => NoChips(m.body)
    /\ m.kind[1] = "reference" => m.body = <<Hole(1)>>

\* An entry as it was, but for chips of people that are gone.
Untouched(d, d2, e) ==
    /\ EntityIsType(d2, e, "journal_entry")
    /\ Len(d2.ent[e].body) = Len(d.ent[e].body)
    /\ \A i \in DOMAIN d.ent[e].body :
          \/ d2.ent[e].body[i] = d.ent[e].body[i]
          \/ d.ent[e].body[i][1] = "chip" /\ d2.ent[d.ent[e].body[i][3]] = Gone

OwnEntry(m, e) ==
    /\ m.target = e
    /\ m.kind \in {<<"update", "journal_entry">>, <<"delete", "journal_entry">>,
                   <<"reference", "journal_entry">>}

LEMMA KindForms ==
  ASSUME NEW k \in Kinds
  PROVE  /\ k = <<k[1], k[2]>> /\ k[2] \in Written /\ k[2] \in EntityType
         /\ k[1] \in {"create", "update", "delete", "reference"}
         /\ k[1] = "reference" => k[2] = "journal_entry"
BY DEF Kinds, Written, EntityType

LEMMA SameIsUntouched ==
  ASSUME NEW d, NEW d2, NEW e \in Live(d, "journal_entry"), Ids(d) \subseteq Ids(d2),
         d2.ent[e] = d.ent[e]
  PROVE  Untouched(d, d2, e)
BY DEF Untouched, Live, EntityIsType

LEMMA RowTyped ==
  ASSUME NEW type \in EntityType, NEW name \in Labels, NEW body \in Seq(BroadNode),
         NEW origin \in Threads \cup {NoThread}, NEW who \in Proposals \cup {User},
         type = "journal_entry" <=> body # <<>>
  PROVE  /\ FreshRow(Row(type, name, body, origin, who)) /\ Row(type, name, body, origin, who) \in BroadRow
         /\ Row(type, name, body, origin, who) # Gone
         /\ Row(type, name, body, origin, who).type = type
         /\ Row(type, name, body, origin, who).name = name
         /\ Row(type, name, body, origin, who).body = body
         /\ Row(type, name, body, origin, who).origin = origin
<1> DEFINE row == Row(type, name, body, origin, who)
<1>1. row.type = type /\ row.name = name /\ row.body = body /\ row.origin = origin
      /\ row.by = {who} \ {User}
      /\ row \in BroadRow
  BY DEF Row, BroadRow
<1> HIDE DEF row
<1>2. row # Gone
  BY <1>1, RowForms
<1>3. FreshRow(row)
  BY <1>1 DEF FreshRow
<1> QED BY <1>1, <1>2, <1>3 DEF row

LEMMA RowsStay ==
  ASSUME NEW d, Good(d), NEW rows \in Seq(BroadRow),
         NEW d2, d2 = [ent |-> d.ent \o rows, refs |-> d.refs, obs |-> d.obs]
  PROVE  \A e \in Ids(d) : d2.ent[e] = d.ent[e]
<1>1. d.ent \in Seq({Gone} \cup BroadRow) /\ Ids(d) = 1 .. Len(d.ent)
  BY DbParts DEF Good
<1>2. rows \in Seq({Gone} \cup BroadRow)
  OBVIOUS
<1>3. \A i \in 1 .. Len(d.ent) : (d.ent \o rows)[i] = d.ent[i]
  BY <1>1, <1>2, CatForms
<1>4. d2.ent = d.ent \o rows
  OBVIOUS
<1> QED BY <1>1, <1>3, <1>4

LEMMA RowAdded ==
  ASSUME NEW d, Good(d), NEW row, FreshRow(row), NoChips(row.body),
         NEW d2, d2 = InsertEntity(d, row)
  PROVE  Good(d2) /\ Grows(d, d2) /\ \A e \in Ids(d) : d2.ent[e] = d.ent[e]
<1> DEFINE rows == <<row>>
<1>1. d.ent \in Seq({Gone} \cup BroadRow) /\ row \in BroadRow
  BY DbParts DEF Good, FreshRow
<1>2. Append(d.ent, row) = d.ent \o rows
  BY <1>1
<1>3. d2 = [ent |-> d.ent \o rows, refs |-> d.refs, obs |-> d.obs]
  <2>1. d = [ent |-> d.ent, refs |-> d.refs, obs |-> d.obs]
    BY DbParts DEF Good
  <2> QED BY <1>2, <2>1 DEF InsertEntity
<1>4. rows \in Seq(BroadRow) /\ \A i \in 1 .. Len(rows) : FreshRow(rows[i]) /\ NoChips(rows[i].body)
  BY <1>1
<1> HIDE DEF rows
<1>5. PICK new : new = rows
  OBVIOUS
<1>6. new \in Seq(BroadRow) /\ \A i \in 1 .. Len(new) : FreshRow(new[i]) /\ NoChips(new[i].body)
  BY <1>4, <1>5
<1>7. d2 = [ent |-> d.ent \o new, refs |-> d.refs, obs |-> d.obs]
  BY <1>3, <1>5
<1>8. Good(d2) /\ Grows(d, d2)
  BY <1>6, <1>7, RowsAppended
<1>9. \A e \in Ids(d) : d2.ent[e] = d.ent[e]
  BY <1>6, <1>7, RowsStay
<1> QED BY <1>8, <1>9

LEMMA Created ==
  ASSUME NEW d, Good(d), NEW m, Shaped(m), m.kind[1] = "create",
         NEW origin \in Threads \cup {NoThread}, NEW who \in Proposals \cup {User},
         NEW d2, d2 = ApplyEntityMutation(d, m, origin, who)
  PROVE  Good(d2) /\ Grows(d, d2) /\ \A e \in Ids(d) : d2.ent[e] = d.ent[e]
<1> DEFINE from == IF m.other = 0 THEN origin ELSE NoThread
           type == m.kind[2]
           name == m.name
           body == m.body
           row == Row(type, name, body, from, who)
<1>1. m.kind \in Kinds /\ name \in Labels
  BY DEF Shaped, MutationShape
<1>2. type \in EntityType
  BY <1>1, KindForms
<1>3. body \in Seq(BroadNode) /\ (type = "journal_entry" <=> body # <<>>) /\ NoChips(body)
  BY DEF Shaped
<1>4. from \in Threads \cup {NoThread}
  OBVIOUS
<1>5. d2 = InsertEntity(d, row)
  BY DEF ApplyEntityMutation
<1> HIDE DEF from, type, name, body
<1>6. FreshRow(row) /\ row.body = body
  BY <1>1, <1>2, <1>3, <1>4, RowTyped
<1> HIDE DEF row
<1> QED BY <1>3, <1>5, <1>6, RowAdded

LEMMA Updated ==
  ASSUME NEW d, Good(d), NEW m, Shaped(m), m.kind[1] = "update", Commits(d, m),
         NEW origin \in Threads \cup {NoThread}, NEW who \in Proposals \cup {User},
         NEW d2, d2 = ApplyEntityMutation(d, m, origin, who)
  PROVE  /\ Good(d2) /\ Grows(d, d2) /\ \A e \in Ids(d) \ {m.target} : d2.ent[e] = d.ent[e]
         /\ EntityIsType(d, m.target, m.kind[2])
<1>1. m.kind \in Kinds /\ m.name \in Labels
  BY DEF Shaped, MutationShape
<1>2. m.body \in Seq(BroadNode) /\ (m.kind[2] = "journal_entry" <=> m.body # <<>>)
  BY DEF Shaped
<1>3. EntityIsType(d, m.target, m.kind[2]) /\ BodyRefsBelong(d, m)
  BY DEF Commits
<1>4. m.target \in Ids(d) /\ d.ent[m.target] # Gone /\ d.ent[m.target].type = m.kind[2]
  <2>1. m.kind[2] # "gone"
    BY <1>1, KindForms DEF EntityType
  <2> QED BY <1>3, <2>1 DEF EntityIsType, Gone
<1>5. OwnChips(d, m.target, m.body)
  BY <1>3 DEF BodyRefsBelong, EntityRefBelongs, OwnChips
<1>6. d2 = UpdateEntity(d, m.target, m.name, m.body, who)
  BY DEF ApplyEntityMutation
<1> QED BY <1>1, <1>2, <1>3, <1>4, <1>5, <1>6, RowUpdated

LEMMA Filled ==
  ASSUME NEW s, NEW t
  PROVE  FillHole(<<Hole(1)>>, Chip(s, t)) = <<Chip(s, t)>>
<1>1. <<Hole(1)>>[1][1] = "hole" /\ DOMAIN <<Hole(1)>> = 1 .. 1
  BY DEF Hole
<1>2. FillHole(<<Hole(1)>>, Chip(s, t)) = [i \in 1 .. 1 |-> Chip(s, t)]
  BY <1>1 DEF FillHole
<1> QED BY <1>2

LEMMA Referenced ==
  ASSUME NEW d, Good(d), NEW m, Shaped(m), m.kind[1] = "reference", Commits(d, m),
         NEW origin \in Threads \cup {NoThread}, NEW who \in Proposals \cup {User},
         NEW d2, d2 = ApplyEntityMutation(d, m, origin, who)
  PROVE  Good(d2) /\ Grows(d, d2) /\ \A e \in Ids(d) \ {m.target} : d2.ent[e] = d.ent[e]
<1>1. m.target \in Nat /\ m.other \in Nat /\ m.label \in Labels /\ m.name \in Labels
      /\ m.body = <<Hole(1)>>
  BY DEF Shaped, MutationShape
<1>2. EntityIsType(d, m.target, "journal_entry") /\ EntityIsType(d, m.other, "person")
  BY DEF Commits
<1>3. m.target \in Live(d, "journal_entry") /\ m.other \in Live(d, "person")
  BY <1>2 DEF Live, EntityIsType
<1> DEFINE R == IF EntityRef(d, m.target, m.other) # {} THEN {}
                ELSE {[source |-> m.target, target |-> m.other, label |-> m.label]}
           d1 == InsertEntityRef(d, m.target, m.other, m.label)
<1>4. R \in SUBSET BroadRef
      /\ \A r \in R : r.source \in Live(d, "journal_entry") /\ r.target \in Live(d, "person")
  BY <1>1, <1>3 DEF BroadRef
<1>5. d1 = [ent |-> d.ent, refs |-> d.refs \cup R, obs |-> d.obs]
  <2>1. d = [ent |-> d.ent, refs |-> d.refs, obs |-> d.obs]
    BY DbParts DEF Good
  <2> QED BY <2>1 DEF InsertEntityRef
<1>6. EntityRef(d, m.target, m.other) # {} \/ R # {}
  OBVIOUS
<1>7. R # {} => \E r \in R : r.source = m.target /\ r.target = m.other
  OBVIOUS
<1> HIDE DEF R, d1
<1>8. /\ Good(d1) /\ Grows(d, d1) /\ Ids(d1) = Ids(d) /\ d1.ent = d.ent /\ d1.refs = d.refs \cup R
      /\ EntityRef(d, m.target, m.other) # {} => EntityRef(d1, m.target, m.other) # {}
  <2>1. Good(d1) /\ Grows(d, d1) /\ Ids(d1) = Ids(d)
    BY <1>4, <1>5, RefsAdded
  <2>2. d1.ent = d.ent /\ d1.refs = d.refs \cup R
    BY <1>5
  <2> QED BY <2>1, <2>2 DEF EntityRef
<1>9. EntityRef(d1, m.target, m.other) # {}
  BY <1>6, <1>7, <1>8 DEF EntityRef
<1> DEFINE body == <<Chip(m.target, m.other)>>
<1>10. body \in Seq(BroadNode) /\ body # <<>> /\ OwnChips(d1, m.target, body)
  <2>1. body \in Seq(BroadNode) /\ DOMAIN body = 1 .. 1 /\ body[1] = Chip(m.target, m.other)
    BY <1>1, ChipNode
  <2>2. Chip(m.target, m.other)[2] = m.target /\ Chip(m.target, m.other)[3] = m.other
    BY <1>1, ChipNode
  <2>3. OwnChips(d1, m.target, body)
    BY <2>1, <2>2, <1>9 DEF OwnChips
  <2> QED BY <2>1, <2>3
<1>11. m.target \in Ids(d1) /\ d1.ent[m.target] # Gone /\ d1.ent[m.target].type = "journal_entry"
  BY <1>2, <1>8 DEF EntityIsType, Gone
<1>12. d2 = UpdateEntity(d1, m.target, m.name, body, who)
  <2>1. d2 = UpdateEntity(d1, m.target, m.name, FillHole(m.body, Chip(m.target, m.other)), who)
    BY DEF ApplyEntityMutation, d1
  <2> QED BY <2>1, <1>1, Filled
<1> HIDE DEF body
<1>13. Good(d2) /\ Grows(d1, d2) /\ \A e \in Ids(d1) \ {m.target} : d2.ent[e] = d1.ent[e]
  BY <1>1, <1>8, <1>10, <1>11, <1>12, RowUpdated
<1> QED BY <1>8, <1>13 DEF Grows

LEMMA TextualizedUntouched ==
  ASSUME NEW d, Good(d), NEW d1, NEW d2, NEW target, Good(d1),
         Ids(d1) = Ids(d), Ids(d2) = Ids(d1), NEW e \in Live(d, "journal_entry"), e # target,
         RowTextualized(d.ent[e], d1.ent[e], e, target),
         d2.ent[e] = d1.ent[e], d2.ent[target] = Gone
  PROVE  Untouched(d, d2, e)
<1>1. e \in Ids(d) /\ d.ent[e] \in BroadRow /\ d.ent[e].body \in Seq(BroadNode) /\ d.ent[e].type = "journal_entry"
  BY EntryRow, LiveIs DEF Good, EntityType
<1>2. CASE d1.ent[e] = d.ent[e]
  BY <1>2, SameIsUntouched
<1>3. CASE d1.ent[e] # d.ent[e]
  <2>1. d1.ent[e] # Gone /\ d1.ent[e].type = "journal_entry"
        /\ Textualized(d.ent[e].body, d1.ent[e].body, e, target)
    BY <1>1, <1>3 DEF RowTextualized
  <2>2. d1.ent[e].body \in Seq(BroadNode)
    BY <2>1, <1>1, GoodRows DEF FreshRow, BroadRow
  <2> DEFINE old == d.ent[e].body
             new == d2.ent[e].body
  <2>3. old \in Seq(BroadNode) /\ new \in Seq(BroadNode) /\ Textualized(old, new, e, target)
    BY <1>1, <2>1, <2>2
  <2> HIDE DEF old, new
  <2>4. Len(new) = Len(old)
    BY <2>3 DEF Textualized
  <2>5. ASSUME NEW i \in DOMAIN old
        PROVE  new[i] = old[i] \/ (old[i][1] = "chip" /\ d2.ent[old[i][3]] = Gone)
    <3>1. CASE old[i] = Chip(e, target)
      <4>1. old[i][1] = "chip" /\ old[i][3] = target
        BY <3>1 DEF Chip
      <4> QED BY <4>1
    <3>2. CASE old[i] # Chip(e, target)
      BY <3>2, <2>3 DEF Textualized
    <3> QED BY <3>1, <3>2
  <2>6. EntityIsType(d2, e, "journal_entry")
    BY <1>1, <2>1 DEF EntityIsType
  <2> QED BY <2>4, <2>5, <2>6 DEF Untouched, old, new
<1> QED BY <1>2, <1>3

LEMMA Deleted ==
  ASSUME NEW d, Good(d), NEW m, Shaped(m), m.kind[1] = "delete", Commits(d, m),
         NEW origin \in Threads \cup {NoThread}, NEW who \in Proposals \cup {User},
         NEW d2, d2 = ApplyEntityMutation(d, m, origin, who)
  PROVE  /\ Good(d2) /\ Grows(d, d2)
         /\ \A e \in Live(d, "journal_entry") : e = m.target \/ Untouched(d, d2, e)
         /\ EntityIsType(d, m.target, m.kind[2])
<1>1. m.kind \in Kinds
  BY DEF Shaped, MutationShape
<1>2. /\ EntityIsType(d, m.target, m.kind[2])
      /\ m.kind[2] = "habit" => ~ReferencedByObservation(d, m.target)
  BY DEF Commits
<1>3. m.target \in Ids(d) /\ d.ent[m.target].type = m.kind[2]
  BY <1>2 DEF EntityIsType
<1>4. ~ReferencedByObservation(d, m.target)
  <2>1. CASE m.kind[2] = "habit"
    BY <2>1, <1>2
  <2>2. CASE m.kind[2] # "habit"
    BY <2>2, <1>3, OnlyHabitsAreObserved DEF EntityIsType
  <2> QED BY <2>1, <2>2
<1>5. CASE m.kind[2] \in Referenceable
  <2> DEFINE d1 == Textualize(d, m.target, who)
  <2>1. d2 = DeleteEntity(d1, m.target)
    BY <1>5 DEF ApplyEntityMutation
  <2> HIDE DEF d1
  <2>2. /\ Good(d1) /\ Grows(d, d1) /\ Ids(d1) = Ids(d) /\ d1.obs = d.obs
        /\ \A e \in Ids(d) : RowTextualized(d.ent[e], d1.ent[e], e, m.target)
        /\ \A e \in Ids(d) : d1.ent[e] # Gone =>
              \A i \in DOMAIN d1.ent[e].body : d1.ent[e].body[i] # Chip(e, m.target)
    BY Textualizes DEF d1
  <2>3. ~ChipTo(d1, m.target)
    BY <2>2 DEF ChipTo
  <2>4. ~ReferencedByObservation(d1, m.target)
    BY <1>4, <2>2 DEF ReferencedByObservation
  <2>5. /\ Good(d2) /\ Grows(d1, d2) /\ Ids(d2) = Ids(d1) /\ d2.ent[m.target] = Gone
        /\ \A x \in Ids(d1) \ {m.target} : d2.ent[x] = d1.ent[x]
    BY <2>1, <2>2, <2>3, <2>4, <1>3, RowDeleted
  <2>6. ASSUME NEW e \in Live(d, "journal_entry"), e # m.target PROVE Untouched(d, d2, e)
    <3>1. e \in Ids(d)
      BY DEF Live
    <3>2. RowTextualized(d.ent[e], d1.ent[e], e, m.target) /\ d2.ent[e] = d1.ent[e]
      BY <3>1, <2>2, <2>5, <2>6
    <3> QED BY <2>2, <2>5, <2>6, <3>2, TextualizedUntouched
  <2>7. Grows(d, d2)
    BY <2>2, <2>5 DEF Grows, Heir
  <2> QED BY <1>2, <2>5, <2>6, <2>7
<1>6. CASE m.kind[2] \notin Referenceable
  <2>1. d2 = DeleteEntity(d, m.target)
    BY <1>6 DEF ApplyEntityMutation
  <2>2. ~EntityIsType(d, m.target, "person")
    BY <1>3, <1>6 DEF Referenceable, EntityIsType
  <2>3. ~ChipTo(d, m.target)
    BY <1>3, <2>2, OnlyPeopleAreMentioned
  <2>4. /\ Good(d2) /\ Grows(d, d2) /\ Ids(d2) = Ids(d)
        /\ \A x \in Ids(d) \ {m.target} : d2.ent[x] = d.ent[x]
    BY <2>1, <2>3, <1>3, <1>4, RowDeleted
  <2>5. ASSUME NEW e \in Live(d, "journal_entry"), e # m.target PROVE Untouched(d, d2, e)
    <3>1. d2.ent[e] = d.ent[e]
      BY <2>4, <2>5 DEF Live
    <3> QED BY <3>1, <2>4, SameIsUntouched
  <2> QED BY <1>2, <2>4, <2>5
<1> QED BY <1>5, <1>6

LEMMA MutationApplied ==
  ASSUME NEW d, Good(d), NEW m, Shaped(m), Commits(d, m),
         NEW origin \in Threads \cup {NoThread}, NEW who \in Proposals \cup {User},
         NEW d2, d2 = ApplyEntityMutation(d, m, origin, who)
  PROVE  /\ Good(d2) /\ Grows(d, d2)
         /\ \A e \in Live(d, "journal_entry") : OwnEntry(m, e) \/ Untouched(d, d2, e)
<1>1. m.kind \in Kinds
  BY DEF Shaped, MutationShape
<1>2. m.kind = <<m.kind[1], m.kind[2]>> /\ m.kind[1] \in {"create", "update", "delete", "reference"}
      /\ (m.kind[1] = "reference" => m.kind[2] = "journal_entry")
  BY <1>1, KindForms
<1>3. ASSUME NEW e \in Live(d, "journal_entry"), e = m.target,
             m.kind[1] = "reference" \/ EntityIsType(d, m.target, m.kind[2]), m.kind[1] # "create"
      PROVE  OwnEntry(m, e)
  <2>1. m.kind[2] = "journal_entry"
    BY <1>2, <1>3 DEF Live, EntityIsType
  <2> QED BY <1>2, <1>3, <2>1 DEF OwnEntry
<1>4. ASSUME Grows(d, d2), NEW e \in Live(d, "journal_entry"), d2.ent[e] = d.ent[e]
      PROVE  Untouched(d, d2, e)
  BY <1>4, SameIsUntouched DEF Grows
<1>5. CASE m.kind[1] = "create"
  <2>1. Good(d2) /\ Grows(d, d2) /\ \A e \in Ids(d) : d2.ent[e] = d.ent[e]
    BY <1>5, Created
  <2> QED BY <2>1, <1>4 DEF Live
<1>6. CASE m.kind[1] = "update"
  <2>1. /\ Good(d2) /\ Grows(d, d2) /\ \A e \in Ids(d) \ {m.target} : d2.ent[e] = d.ent[e]
        /\ EntityIsType(d, m.target, m.kind[2])
    BY <1>6, Updated
  <2> QED BY <2>1, <1>3, <1>4, <1>6 DEF Live
<1>7. CASE m.kind[1] = "reference"
  <2>1. Good(d2) /\ Grows(d, d2) /\ \A e \in Ids(d) \ {m.target} : d2.ent[e] = d.ent[e]
    BY <1>7, Referenced
  <2> QED BY <2>1, <1>3, <1>4, <1>7 DEF Live
<1>8. CASE m.kind[1] = "delete"
  <2>1. /\ Good(d2) /\ Grows(d, d2)
        /\ \A e \in Live(d, "journal_entry") : e = m.target \/ Untouched(d, d2, e)
        /\ EntityIsType(d, m.target, m.kind[2])
    BY <1>8, Deleted
  <2> QED BY <2>1, <1>3, <1>8
<1> QED BY <1>2, <1>5, <1>6, <1>7, <1>8


(***************************************************************************)
(* Intent graphs: what a plan holds, and the rows it mints.                *)
(***************************************************************************)
Mention == [name : Names, hint : Nat]
GraphShaped(g) ==
    /\ g.kind = <<"graph", "journal_entry">> /\ g.mode \in {"none", "new", "reuse"}
    /\ g.nodes \in Seq(Mention) /\ g.nodes # <<>>
    /\ g.mode = "new" => g.body = [k \in DOMAIN g.nodes |-> Hole(k)]
    /\ g.entry \in Nat
DecisionShaped(g, decisions) ==
    \A k \in DOMAIN g.nodes :
        \/ decisions.nodes[k][1] \in {"accept", "reject"}
        \/ decisions.nodes[k][1] = "override" /\ decisions.nodes[k][2] \in Nat
        \/ decisions.nodes[k][1] = "edit" /\ decisions.nodes[k][2] \in Names
PlanStep(d, step) ==
    /\ step.op \in {"reuse", "create", "drop", "fail"}
    /\ step.op = "reuse" => step.id \in Live(d, "person")
    /\ step.op = "create" => step.name \in Names

LEMMA StepForms ==
  /\ \A e : Reuse(e).op = "reuse" /\ Reuse(e).id = e
  /\ \A n : Create(n).op = "create" /\ Create(n).name = n
  /\ Drop.op = "drop" /\ Fail.op = "fail"
BY DEF Reuse, Create, Drop, Fail

LEMMA ByLabel ==
  ASSUME NEW d, NEW node \in Mention
  PROVE  /\ PlanStep(d, ResolveByLabel(d, node))
         /\ ResolveByLabel(d, node).op = "create" =>
               ResolveByLabel(d, node).name = node.name /\ ExactLabelMatches(d, node.name) = {}
<1> DEFINE matches == ExactLabelMatches(d, node.name)
           one == CHOOSE e \in matches : TRUE
<1>1. node.name \in Names
  BY DEF Mention
<1>2. CASE matches = {}
  <2>1. ResolveByLabel(d, node) = Create(node.name)
    BY <1>2, FS_EmptySet DEF ResolveByLabel
  <2> DEFINE step == ResolveByLabel(d, node)
  <2> HIDE DEF step
  <2>a. step = Create(node.name)
    BY <2>1 DEF step
  <2>2. step.op = "create" /\ step.name = node.name
    BY <2>a, StepForms
  <2>3. PlanStep(d, step)
    BY <1>1, <2>2 DEF PlanStep
  <2> QED BY <1>2, <2>2, <2>3 DEF step
<1>3. CASE matches # {} /\ Cardinality(matches) = 1
  <2>1. ResolveByLabel(d, node) = Reuse(one)
    BY <1>3 DEF ResolveByLabel
  <2>2. one \in matches
    BY <1>3
  <2>3. one \in Live(d, "person")
    BY <2>2 DEF ExactLabelMatches
  <2> HIDE DEF one
  <2> QED BY <2>1, <2>3, StepForms DEF PlanStep
<1>4. CASE matches # {} /\ Cardinality(matches) # 1
  <2>1. ResolveByLabel(d, node) = Fail
    BY <1>4 DEF ResolveByLabel
  <2> QED BY <2>1, StepForms DEF PlanStep
<1> QED BY <1>2, <1>3, <1>4

LEMMA PersonIsLive ==
  ASSUME NEW d, NEW e, EntityIsType(d, e, "person") PROVE e \in Live(d, "person")
BY DEF EntityIsType, Live

LEMMA ByDisposition ==
  ASSUME NEW d, NEW node \in Mention
  PROVE  /\ PlanStep(d, ResolveDisposition(d, node))
         /\ ResolveDisposition(d, node).op = "create" =>
               /\ ResolveDisposition(d, node).name = node.name
               /\ ExactLabelMatches(d, node.name) = {}
<1>1. CASE EntityIsType(d, node.hint, "person")
  <2>1. ResolveDisposition(d, node) = Reuse(node.hint)
    BY <1>1 DEF ResolveDisposition
  <2> QED BY <1>1, <2>1, StepForms, PersonIsLive DEF PlanStep
<1>2. CASE ~EntityIsType(d, node.hint, "person")
  <2>1. ResolveDisposition(d, node) = ResolveByLabel(d, node)
    BY <1>2 DEF ResolveDisposition
  <2> QED BY <2>1, ByLabel
<1> QED BY <1>1, <1>2

LEMMA Resolved ==
  ASSUME NEW d, NEW node \in Mention, NEW decision,
         \/ decision[1] \in {"accept", "reject"}
         \/ decision[1] = "override" /\ decision[2] \in Nat
         \/ decision[1] = "edit" /\ decision[2] \in Names
  PROVE  /\ PlanStep(d, ResolveNode(d, node, decision))
         /\ ResolveNode(d, node, decision).op = "create" /\ decision[1] # "edit" =>
               /\ ResolveNode(d, node, decision).name = node.name
               /\ ExactLabelMatches(d, node.name) = {}
<1>1. CASE decision[1] = "reject"
  <2>1. ResolveNode(d, node, decision) = Drop
    BY <1>1 DEF ResolveNode
  <2> QED BY <2>1, StepForms DEF PlanStep
<1>2. CASE decision[1] = "override"
  <2>1. ResolveNode(d, node, decision) =
          IF EntityIsType(d, decision[2], "person") THEN Reuse(decision[2]) ELSE Fail
    BY <1>2 DEF ResolveNode
  <2> QED BY <2>1, StepForms, PersonIsLive DEF PlanStep
<1>3. CASE decision[1] = "accept"
  <2>1. ResolveNode(d, node, decision) = ResolveDisposition(d, node)
    BY <1>3 DEF ResolveNode
  <2> QED BY <2>1, ByDisposition
<1>4. CASE decision[1] = "edit"
  <2>1. ResolveNode(d, node, decision) =
          IF ResolveDisposition(d, node).op = "create" THEN Create(decision[2]) ELSE Fail
    BY <1>4 DEF ResolveNode
  <2> QED BY <1>4, <2>1, StepForms DEF PlanStep
<1> QED BY <1>1, <1>2, <1>3, <1>4

LEMMA PlanSpans ==
  ASSUME NEW d, NEW g, GraphShaped(g), NEW decisions, NEW plan, plan = GraphPlan(d, g, decisions)
  PROVE  DOMAIN plan = 1 .. Len(g.nodes) /\ Len(plan) = Len(g.nodes)
<1>1. Len(g.nodes) \in Nat /\ DOMAIN g.nodes = 1 .. Len(g.nodes)
  BY DEF GraphShaped
<1>2. plan = [k \in 1 .. Len(g.nodes) |-> ResolveNode(d, g.nodes[k], decisions.nodes[k])]
  BY <1>1 DEF GraphPlan
<1> QED BY <1>1, <1>2

LEMMA PlanShape ==
  ASSUME NEW d, NEW g, GraphShaped(g), NEW decisions, DecisionShaped(g, decisions),
         NEW plan, plan = GraphPlan(d, g, decisions)
  PROVE  /\ DOMAIN plan = 1 .. Len(g.nodes) /\ Len(plan) = Len(g.nodes) /\ Len(g.nodes) \in Nat
         /\ DOMAIN g.nodes = 1 .. Len(g.nodes)
         /\ \A k \in DOMAIN plan :
               /\ PlanStep(d, plan[k])
               /\ plan[k].op = "create" /\ decisions.nodes[k][1] # "edit" =>
                     plan[k].name = g.nodes[k].name /\ ExactLabelMatches(d, g.nodes[k].name) = {}
<1>1. g.nodes \in Seq(Mention) /\ DOMAIN g.nodes = 1 .. Len(g.nodes) /\ Len(g.nodes) \in Nat
  BY DEF GraphShaped
<1>2. plan = [k \in 1 .. Len(g.nodes) |-> ResolveNode(d, g.nodes[k], decisions.nodes[k])]
  BY <1>1 DEF GraphPlan
<1>3. DOMAIN plan = 1 .. Len(g.nodes) /\ Len(plan) = Len(g.nodes)
  BY <1>1, <1>2
<1>4. ASSUME NEW k \in 1 .. Len(g.nodes)
      PROVE  /\ PlanStep(d, plan[k])
             /\ plan[k].op = "create" /\ decisions.nodes[k][1] # "edit" =>
                   plan[k].name = g.nodes[k].name /\ ExactLabelMatches(d, g.nodes[k].name) = {}
  <2> DEFINE node == g.nodes[k]
             decision == decisions.nodes[k]
  <2>1. node \in Mention
    BY <1>1
  <2>2. \/ decision[1] \in {"accept", "reject"}
        \/ decision[1] = "override" /\ decision[2] \in Nat
        \/ decision[1] = "edit" /\ decision[2] \in Names
    BY <1>1 DEF DecisionShaped
  <2>3. plan[k] = ResolveNode(d, node, decision)
    BY <1>2
  <2> DEFINE step == ResolveNode(d, node, decision)
  <2> HIDE DEF node, decision
  <2>4. /\ PlanStep(d, step)
        /\ step.op = "create" /\ decision[1] # "edit" =>
              step.name = node.name /\ ExactLabelMatches(d, node.name) = {}
    BY <2>1, <2>2, Resolved
  <2> HIDE DEF step
  <2>5. /\ PlanStep(d, plan[k])
        /\ plan[k].op = "create" /\ decision[1] # "edit" =>
              plan[k].name = node.name /\ ExactLabelMatches(d, node.name) = {}
    BY <2>3, <2>4 DEF step
  <2>6. node = g.nodes[k] /\ decision = decisions.nodes[k]
    BY DEF node, decision
  <2> QED BY <2>5, <2>6
<1> QED BY <1>1, <1>3, <1>4

LEMMA Minted ==
  ASSUME NEW d, Good(d), NEW plan, NEW n \in Nat, DOMAIN plan = 1 .. n, Len(plan) = n,
         \A k \in DOMAIN plan : PlanStep(d, plan[k]), NEW p \in Proposals,
         NEW d2, d2 = MintCreates(d, plan, p)
  PROVE  /\ Good(d2) /\ Grows(d, d2) /\ d2.refs = d.refs
         /\ \A e \in Ids(d) : d2.ent[e] = d.ent[e]
         /\ \A e \in Ids(d2) \ Ids(d) :
               d2.ent[e].type = "person"
               /\ \E k \in DOMAIN plan : plan[k].op = "create" /\ d2.ent[e].name = plan[k].name
         /\ \A k \in DOMAIN plan :
               HandleToId(d, plan)[k] # 0 => HandleToId(d, plan)[k] \in Live(d2, "person")
<1> DEFINE c == Cardinality(Creates(plan, Len(plan)))
           row(i) == Row("person", plan[MintedFrom(plan, i)].name, <<>>, NoThread, p)
           rows == [i \in 1 .. c |-> row(i)]
<1>1. c \in Nat
  BY CreatesCount
<1>2. d2 = [ent |-> d.ent \o rows, refs |-> d.refs, obs |-> d.obs]
  <2>1. d = [ent |-> d.ent, refs |-> d.refs, obs |-> d.obs]
    BY DbParts DEF Good
  <2> QED BY <2>1 DEF MintCreates
<1>3. ASSUME NEW i \in 1 .. c
      PROVE  /\ FreshRow(row(i)) /\ NoChips(row(i).body) /\ row(i) \in BroadRow
             /\ row(i).type = "person"
             /\ \E k \in DOMAIN plan : plan[k].op = "create" /\ row(i).name = plan[k].name
  <2> DEFINE k == MintedFrom(plan, i)
             type == "person"
             name == plan[k].name
             body == <<>>
  <2>1. k \in Creates(plan, n)
    BY MintedFromCreate
  <2>2. k \in DOMAIN plan /\ plan[k].op = "create"
    BY <2>1 DEF Creates
  <2>3. name \in Labels /\ type \in EntityType /\ body \in Seq(BroadNode)
    BY <2>2 DEF PlanStep, Labels, EntityType
  <2>4. type = "journal_entry" <=> body # <<>>
    OBVIOUS
  <2>5. NoThread \in Threads \cup {NoThread} /\ p \in Proposals \cup {User}
    OBVIOUS
  <2>6. NoChips(body)
    BY DEF NoChips
  <2> DEFINE r == Row(type, name, body, NoThread, p)
  <2> HIDE DEF k, type, name, body
  <2>7. FreshRow(r) /\ r \in BroadRow /\ r.type = type /\ r.name = name /\ r.body = body
    BY <2>3, <2>4, <2>5, RowTyped
  <2>8. row(i) = r
    BY DEF k, type, name, body
  <2> HIDE DEF r
  <2> QED BY <2>2, <2>6, <2>7, <2>8 DEF type, name
<1> HIDE DEF row
<1>4. rows \in Seq(BroadRow) /\ Len(rows) = c /\ \A i \in 1 .. c : rows[i] = row(i)
  BY <1>1, <1>3
<1>5. \A i \in 1 .. Len(rows) : FreshRow(rows[i]) /\ NoChips(rows[i].body)
  BY <1>3, <1>4
<1> HIDE DEF rows, c
<1>6. PICK new : new = rows
  OBVIOUS
<1>7. new \in Seq(BroadRow) /\ Len(new) = c /\ \A i \in 1 .. c : new[i] = row(i)
  BY <1>4, <1>6
<1>8. \A i \in 1 .. Len(new) : FreshRow(new[i]) /\ NoChips(new[i].body)
  BY <1>5, <1>6
<1>9. d2 = [ent |-> d.ent \o new, refs |-> d.refs, obs |-> d.obs]
  BY <1>2, <1>6
<1>10. new \in Seq(BroadRow)
  BY <1>7
<1>11. Good(d2) /\ Grows(d, d2) /\ d2.refs = d.refs
  <2>1. Good(d2) /\ Grows(d, d2)
    BY <1>8, <1>9, <1>10, RowsAppended
  <2> QED BY <1>9, <2>1
<1>12. Ids(d2) = 1 .. (Len(d.ent) + Len(new))
  BY <1>8, <1>9, <1>10, RowsAppended
<1>13. \A e \in Ids(d) : d2.ent[e] = d.ent[e]
  BY <1>9, <1>10, RowsStay
<1>14. \A i \in 1 .. Len(new) : d2.ent[Len(d.ent) + i] = new[i]
  BY <1>8, <1>9, <1>10, RowsAppended
<1>15. Len(d.ent) \in Nat /\ Ids(d) = 1 .. Len(d.ent)
  BY DbParts DEF Good
<1>16. ASSUME NEW e \in Ids(d2) \ Ids(d)
      PROVE  /\ d2.ent[e].type = "person"
             /\ \E k \in DOMAIN plan : plan[k].op = "create" /\ d2.ent[e].name = plan[k].name
  <2>1. e - Len(d.ent) \in 1 .. c /\ e = Len(d.ent) + (e - Len(d.ent))
    BY <1>1, <1>7, <1>11, <1>12, <1>13, <1>14, <1>15
  <2>2. d2.ent[e] = row(e - Len(d.ent))
    BY <2>1, <1>7, <1>11, <1>12, <1>13, <1>14
  <2> QED BY <2>1, <2>2, <1>3
<1>17. ASSUME NEW k \in DOMAIN plan, HandleToId(d, plan)[k] # 0
      PROVE  HandleToId(d, plan)[k] \in Live(d2, "person")
  <2> DEFINE id == HandleToId(d, plan)[k]
             rank == Cardinality(Creates(plan, k))
  <2>1. CASE plan[k].op = "reuse"
    <3>1. id = plan[k].id /\ id \in Live(d, "person")
      BY <2>1 DEF HandleToId, PlanStep
    <3> HIDE DEF id
    <3>2. id \in Live(d2, "person")
      BY <3>1, <1>11, <1>12, <1>13, <1>14, <1>15 DEF Live, EntityIsType, Grows
    <3> QED BY <3>2 DEF id
  <2>2. CASE plan[k].op = "create"
    <3>1. id = Len(d.ent) + rank
      BY <2>2 DEF HandleToId
    <3>2. k \in Creates(plan, n)
      BY <2>2 DEF Creates
    <3>3. rank \in 1 .. c
      BY <3>2, RankBounds DEF c
    <3> HIDE DEF rank, id
    <3>4. id \in Ids(d2) \ Ids(d)
      BY <1>1, <1>7, <1>11, <1>12, <1>13, <1>14, <1>15, <3>1, <3>3
    <3>5. id \in Live(d2, "person")
      BY <1>16, <3>4 DEF Live, EntityIsType
    <3> QED BY <3>5 DEF id
  <2>3. CASE plan[k].op \notin {"reuse", "create"}
    BY <1>17, <2>3 DEF HandleToId
  <2> QED BY <2>1, <2>2, <2>3
<1> QED BY <1>11, <1>12, <1>13, <1>14, <1>16, <1>17

(***************************************************************************)
(* The references a graph weaves, and the body it leaves.                  *)
(***************************************************************************)
LEMMA LeastNat ==
  ASSUME NEW S \in SUBSET Nat, S # {} PROVE \E n \in S : \A m \in S : n <= m
<1> DEFINE R == OpToRel(<, Nat)
<1>1. IsWellFoundedOn(R, Nat)
  BY NatLessThanWellFounded, Zenon
<1>2. PICK n \in S : \A m \in S : ~(<<m, n>> \in R)
  <2> HIDE DEF R
  <2> QED BY <1>1, WFMin
<1>3. \A m \in S : ~(m < n)
  BY <1>2 DEF OpToRel
<1> HIDE DEF R
<1> QED BY <1>2, <1>3

Mentions(d, ids) == \A k \in DOMAIN ids : ids[k] # 0 => ids[k] \in Live(d, "person")

LEMMA MentionNamed ==
  ASSUME NEW g, GraphShaped(g), NEW k \in 1 .. Len(g.nodes)
  PROVE  g.nodes[k].name \in Names /\ g.nodes[k].name \in Labels
<1>1. g.nodes[k] \in Mention
  BY DEF GraphShaped
<1> QED BY <1>1 DEF Mention, Labels

LEMMA EntryTyped ==
  ASSUME NEW body \in Seq(BroadNode), body # <<>>, NEW thread \in Threads, NEW p \in Proposals,
         NEW row, row = Row("journal_entry", NoLabel, body, thread, p)
  PROVE  /\ row \in BroadRow /\ FreshRow(row) /\ row # Gone
         /\ row.type = "journal_entry" /\ row.body = body
         /\ row = [type |-> "journal_entry", name |-> NoLabel, body |-> body,
                   origin |-> thread, by |-> {p} \ {User}]
<1>1. row = [type |-> "journal_entry", name |-> NoLabel, body |-> body,
             origin |-> thread, by |-> {p} \ {User}]
  BY DEF Row
<1>2. row \in BroadRow
  BY <1>1 DEF BroadRow, Labels, EntityType
<1>3. row # Gone
  BY <1>2, RowForms
<1> QED BY <1>1, <1>2, <1>3 DEF FreshRow

\* The references woven: they depend on the references there are.
WovenRefs(d, entry, g, ids) ==
    LET linked == {k \in DOMAIN ids : ids[k] # 0}
        first == {k \in linked : \A j \in linked : ids[j] = ids[k] => k <= j}
        fresh == {k \in first : EntityRef(d, entry, ids[k]) = {}}
    IN  {[source |-> entry, target |-> ids[k], label |-> g.nodes[k].name] : k \in fresh}

LEMMA WovenSame ==
  ASSUME NEW d, NEW e, d.refs = e.refs, NEW entry, NEW g, NEW ids
  PROVE  WovenRefs(d, entry, g, ids) = WovenRefs(e, entry, g, ids)
<1> DEFINE linked == {k \in DOMAIN ids : ids[k] # 0}
           first == {k \in linked : \A j \in linked : ids[j] = ids[k] => k <= j}
           fresh(x) == {k \in first : EntityRef(x, entry, ids[k]) = {}}
           ref(k) == [source |-> entry, target |-> ids[k], label |-> g.nodes[k].name]
<1>1. WovenRefs(d, entry, g, ids) = {ref(k) : k \in fresh(d)}
      /\ WovenRefs(e, entry, g, ids) = {ref(k) : k \in fresh(e)}
  BY DEF WovenRefs
<1>2. \A t : EntityRef(d, entry, t) = EntityRef(e, entry, t)
  BY DEF EntityRef
<1> HIDE DEF first
<1>3. fresh(d) = fresh(e)
  BY <1>2
<1> HIDE DEF fresh
<1> QED BY <1>1, <1>3

LEMMA WeaveForm ==
  ASSUME NEW d, d = [ent |-> d.ent, refs |-> d.refs, obs |-> d.obs],
         NEW entry, NEW g, NEW ids
  PROVE  WeaveRefs(d, entry, g, ids)
           = [ent |-> d.ent, refs |-> d.refs \cup WovenRefs(d, entry, g, ids), obs |-> d.obs]
<1> DEFINE R == WovenRefs(d, entry, g, ids)
<1>1. WeaveRefs(d, entry, g, ids) = [d EXCEPT !.refs = @ \cup R]
  BY DEF WeaveRefs, WovenRefs
<1> HIDE DEF R
<1>2. WeaveRefs(d, entry, g, ids) = [ent |-> d.ent, refs |-> d.refs \cup R, obs |-> d.obs]
  BY <1>1
<1> QED BY <1>2 DEF R

\* Every link has its row afterwards: its own, or that of the first link to
\* the same Entity.
LEMMA RefsWoven ==
  ASSUME NEW d, Good(d), NEW entry \in Live(d, "journal_entry"), NEW g, GraphShaped(g),
         NEW ids, DOMAIN ids = 1 .. Len(g.nodes), Mentions(d, ids),
         NEW d2, d2 = WeaveRefs(d, entry, g, ids)
  PROVE  /\ Good(d2) /\ Grows(d, d2) /\ d2.ent = d.ent
         /\ \A e, t : EntityRef(d, e, t) # {} => EntityRef(d2, e, t) # {}
         /\ \A k \in DOMAIN ids : ids[k] # 0 => EntityRef(d2, entry, ids[k]) # {}
<1> DEFINE linked == {k \in DOMAIN ids : ids[k] # 0}
           first == {k \in linked : \A j \in linked : ids[j] = ids[k] => k <= j}
           fresh == {k \in first : EntityRef(d, entry, ids[k]) = {}}
           ref(k) == [source |-> entry, target |-> ids[k], label |-> g.nodes[k].name]
           R == {ref(k) : k \in fresh}
<1>1. d2 = [ent |-> d.ent, refs |-> d.refs \cup R, obs |-> d.obs]
  <2>1. d = [ent |-> d.ent, refs |-> d.refs, obs |-> d.obs]
    BY DbParts DEF Good
  <2>2. d2 = [ent |-> d.ent, refs |-> d.refs \cup WovenRefs(d, entry, g, ids), obs |-> d.obs]
    BY <2>1, WeaveForm
  <2>3. WovenRefs(d, entry, g, ids) = R
    BY DEF WovenRefs
  <2> QED BY <2>2, <2>3
<1>2. g.nodes \in Seq(Mention) /\ Len(g.nodes) \in Nat
  BY DEF GraphShaped
<1>3. entry \in Nat /\ \A k \in linked : ids[k] \in Nat /\ ids[k] \in Live(d, "person")
  <2>1. Ids(d) \subseteq Nat
    BY DbParts DEF Good
  <2> QED BY <2>1 DEF Mentions, Live
<1>4. ASSUME NEW r \in R
      PROVE  r \in BroadRef /\ r.source \in Live(d, "journal_entry") /\ r.target \in Live(d, "person")
  <2>1. PICK k \in linked : r = ref(k)
    BY <1>4
  <2>2. k \in 1 .. Len(g.nodes)
    BY <2>1
  <2>3. g.nodes[k].name \in Labels
    BY <2>2, MentionNamed
  <2> QED BY <1>3, <2>1, <2>3 DEF BroadRef
<1> HIDE DEF R
<1>5. R \in SUBSET BroadRef
      /\ \A r \in R : r.source \in Live(d, "journal_entry") /\ r.target \in Live(d, "person")
  BY <1>4
<1>6. Good(d2) /\ Grows(d, d2) /\ d2.ent = d.ent /\ d2.refs = d.refs \cup R
  <2>1. PICK S : S = R
    OBVIOUS
  <2>2. S \in SUBSET BroadRef
        /\ \A r \in S : r.source \in Live(d, "journal_entry") /\ r.target \in Live(d, "person")
    BY <1>5, <2>1
  <2>3. d2 = [ent |-> d.ent, refs |-> d.refs \cup S, obs |-> d.obs]
    BY <1>1, <2>1
  <2>4. Good(d2)
    BY <2>2, <2>3, RefsAdded
  <2>5. Grows(d, d2)
    BY <2>2, <2>3, RefsAdded
  <2> QED BY <1>1, <2>4, <2>5
<1>7. \A e, t : EntityRef(d, e, t) # {} => EntityRef(d2, e, t) # {}
  BY <1>6 DEF EntityRef
<1>8. ASSUME NEW k \in DOMAIN ids, ids[k] # 0
      PROVE  EntityRef(d2, entry, ids[k]) # {}
  <2> DEFINE same == {j \in linked : ids[j] = ids[k]}
  <2>1. same \in SUBSET Nat /\ same # {}
    BY <1>2, <1>8
  <2>2. PICK j \in same : \A i \in same : j <= i
    BY <2>1, LeastNat
  <2>3. j \in first /\ ids[j] = ids[k]
    BY <2>2
  <2>4. CASE EntityRef(d, entry, ids[k]) # {}
    BY <2>4, <1>7
  <2>5. CASE EntityRef(d, entry, ids[k]) = {}
    <3>1. j \in fresh
      BY <2>3, <2>5
    <3>2. ref(j) \in R
      BY <3>1 DEF R
    <3>3. ref(j) \in d2.refs /\ ref(j).source = entry /\ ref(j).target = ids[k]
      BY <1>6, <2>3, <3>2
    <3> QED BY <3>3 DEF EntityRef
  <2> QED BY <2>4, <2>5
<1> QED BY <1>6, <1>7, <1>8

\* A new entry is first one without chips, then its references, then its body.
LEMMA EntryWoven ==
  ASSUME NEW d, Good(d), NEW g, GraphShaped(g), g.mode = "new",
         NEW ids, DOMAIN ids = 1 .. Len(g.nodes), Mentions(d, ids),
         NEW thread \in Threads, NEW p \in Proposals,
         NEW d2, d2 = WeaveAndMint(d, g, ids, thread, p)
  PROVE  /\ Good(d2) /\ Grows(d, d2)
         /\ \A e \in Ids(d) : d2.ent[e] = d.ent[e]
         /\ \A e \in Ids(d2) \ Ids(d) : d2.ent[e].type = "journal_entry"
<1> DEFINE n == Len(d.ent)
           entry == n + 1
           body == [i \in DOMAIN g.body |->
                     IF g.body[i][1] # "hole" THEN g.body[i]
                     ELSE LET k == g.body[i][2]
                          IN  IF ids[k] = 0 THEN Text(g.nodes[k].name) ELSE Chip(entry, ids[k])]
           woven == [i \in 1 .. Len(g.nodes) |->
                       IF ids[i] = 0 THEN Text(g.nodes[i].name) ELSE Chip(entry, ids[i])]
           draft == <<Text(NoLabel)>>
           blank == Row("journal_entry", NoLabel, draft, thread, p)
           row == Row("journal_entry", NoLabel, woven, thread, p)
           d0 == InsertEntity(d, blank)
           d1 == WeaveRefs(d0, entry, g, ids)
<1>1. g.nodes \in Seq(Mention) /\ DOMAIN g.nodes = 1 .. Len(g.nodes) /\ Len(g.nodes) \in Nat
      /\ g.nodes # <<>> /\ g.body = [k \in DOMAIN g.nodes |-> Hole(k)]
  BY DEF GraphShaped
<1>2. body = woven
  <2>1. \A i \in 1 .. Len(g.nodes) : g.body[i][1] = "hole" /\ g.body[i][2] = i
    BY <1>1 DEF Hole
  <2>2. DOMAIN g.body = 1 .. Len(g.nodes)
    BY <1>1
  <2>3. \A i \in 1 .. Len(g.nodes) : body[i] = woven[i]
    BY <2>1, <2>2
  <2>4. DOMAIN body = DOMAIN woven
    BY <2>2
  <2> QED BY <2>2, <2>3, <2>4
<1>3. d2 = WeaveRefs(InsertEntity(d, row), entry, g, ids)
  BY <1>2 DEF WeaveAndMint
<1>4. n \in Nat /\ d.ent \in Seq({Gone} \cup BroadRow) /\ Ids(d) = 1 .. n
      /\ d = [ent |-> d.ent, refs |-> d.refs, obs |-> d.obs]
  BY DbParts DEF Good
<1> HIDE DEF body
<1>5. woven \in Seq(BroadNode) /\ woven # <<>> /\ Len(woven) = Len(g.nodes)
      /\ \A i \in DOMAIN woven : woven[i][1] = "chip" =>
            ids[i] # 0 /\ woven[i][2] = entry /\ woven[i][3] = ids[i] /\ i \in DOMAIN ids
  <2>1. ASSUME NEW i \in 1 .. Len(g.nodes)
        PROVE  /\ woven[i] \in BroadNode
               /\ woven[i][1] = "chip" => ids[i] # 0 /\ woven[i][2] = entry /\ woven[i][3] = ids[i]
    <3>1. CASE ids[i] = 0
      <4>1. woven[i] = Text(g.nodes[i].name) /\ g.nodes[i].name \in Labels
        BY <3>1, MentionNamed
      <4> QED BY <4>1, TextNode
    <3>2. CASE ids[i] # 0
      <4>1. woven[i] = Chip(entry, ids[i])
        BY <3>2
      <4>2. ids[i] \in Nat /\ entry \in Nat
        BY <1>4, <3>2 DEF Mentions, Live
      <4> QED BY <3>2, <4>1, <4>2, ChipNode
    <3> QED BY <3>1, <3>2
  <2>2. DOMAIN woven = 1 .. Len(g.nodes) /\ woven = [i \in 1 .. Len(g.nodes) |-> woven[i]]
    OBVIOUS
  <2> HIDE DEF woven
  <2>3. woven \in Seq(BroadNode) /\ Len(woven) = Len(g.nodes)
    <3>1. \A i \in 1 .. Len(g.nodes) : woven[i] \in BroadNode
      BY <2>1
    <3>2. Len(g.nodes) \in Nat
      BY <1>1
    <3> QED BY <2>2, <3>1, <3>2, SeqIf
  <2>4. Len(g.nodes) # 0
    BY <1>1
  <2>5. woven # <<>>
    BY <2>3, <2>4
  <2> QED BY <2>1, <2>2, <2>3, <2>5
<1> HIDE DEF woven
<1>6. draft \in Seq(BroadNode) /\ draft # <<>> /\ NoChips(draft)
  <2>1. NoLabel \in Labels
    BY DEF Labels
  <2>2. Text(NoLabel) \in BroadNode /\ Text(NoLabel)[1] # "chip"
    BY <2>1, TextNode
  <2> QED BY <2>2 DEF NoChips
<1> HIDE DEF draft
<1>7. /\ blank \in BroadRow /\ FreshRow(blank) /\ blank # Gone
      /\ blank.type = "journal_entry" /\ blank.body = draft
      /\ blank = [type |-> "journal_entry", name |-> NoLabel, body |-> draft,
                 origin |-> thread, by |-> {p} \ {User}]
  BY <1>6, EntryTyped
<1>8. /\ row \in BroadRow
      /\ row = [type |-> "journal_entry", name |-> NoLabel, body |-> woven,
               origin |-> thread, by |-> {p} \ {User}]
  BY <1>5, EntryTyped
<1> HIDE DEF blank, row
<1>9. Good(d0) /\ Grows(d, d0) /\ \A e \in Ids(d) : d0.ent[e] = d.ent[e]
  <2>1. FreshRow(blank) /\ NoChips(blank.body)
    BY <1>6, <1>7
  <2>2. d0 = InsertEntity(d, blank)
    OBVIOUS
  <2> HIDE DEF d0
  <2> QED BY <2>1, <2>2, RowAdded
<1>10. d0 = [ent |-> Append(d.ent, blank), refs |-> d.refs, obs |-> d.obs]
  BY <1>4 DEF InsertEntity
<1>11. InsertEntity(d, row) = [ent |-> Append(d.ent, row), refs |-> d.refs, obs |-> d.obs]
  BY <1>4 DEF InsertEntity
<1> HIDE DEF d0
<1>12. /\ d0.ent = Append(d.ent, blank) /\ d0.ent \in Seq({Gone} \cup BroadRow)
       /\ Len(d0.ent) = n + 1 /\ d0.ent[entry] = blank /\ DOMAIN d0.ent = 1 .. (n + 1)
  BY <1>4, <1>7, <1>10
<1>13. Ids(d0) = 1 .. (n + 1) /\ Append(d.ent, row) = [d0.ent EXCEPT ![entry] = row]
  <2>1. Ids(d0) = 1 .. (n + 1)
    BY <1>12 DEF Ids
  <2> DEFINE s == Append(d.ent, row)
             t == [d0.ent EXCEPT ![entry] = row]
  <2>2. s \in Seq({Gone} \cup BroadRow) /\ DOMAIN s = 1 .. (n + 1) /\ s[n + 1] = row
        /\ \A i \in 1 .. n : s[i] = d.ent[i]
    BY <1>4, <1>8
  <2>3. t = [i \in 1 .. (n + 1) |-> IF i = n + 1 THEN row ELSE d0.ent[i]]
    BY <1>12
  <2>4. \A i \in 1 .. n : d0.ent[i] = d.ent[i]
    BY <1>4, <1>7, <1>12
  <2>5. s = [i \in 1 .. (n + 1) |-> s[i]]
    BY <2>2
  <2> HIDE DEF s, t
  <2>6. \A i \in 1 .. (n + 1) : s[i] = IF i = n + 1 THEN row ELSE d0.ent[i]
    BY <1>4, <2>2, <2>4
  <2>7. s = t
    BY <2>3, <2>5, <2>6
  <2> QED BY <2>1, <2>7 DEF s, t
<1>14. entry \in Live(d0, "journal_entry")
  BY <1>4, <1>7, <1>12, <1>13 DEF Live, EntityIsType
<1>15. Mentions(d0, ids)
  BY <1>9, <1>4, <1>12, <1>13 DEF Mentions, Live, EntityIsType
<1>16. /\ Good(d1) /\ Grows(d0, d1) /\ d1.ent = d0.ent
       /\ \A k \in DOMAIN ids : ids[k] # 0 => EntityRef(d1, entry, ids[k]) # {}
  BY <1>9, <1>14, <1>15, RefsWoven
<1>17. d2 = UpdateEntity(d1, entry, NoLabel, woven, p)
  <2> DEFINE d9 == InsertEntity(d, row)
             new == Append(d.ent, row)
             R == WovenRefs(d0, entry, g, ids)
  <2>1. d9 = [ent |-> new, refs |-> d.refs, obs |-> d.obs]
    BY <1>11
  <2>2. d0 = [ent |-> d0.ent, refs |-> d.refs, obs |-> d.obs]
    BY <1>10
  <2>3. d2 = WeaveRefs(d9, entry, g, ids)
    BY <1>3
  <2> HIDE DEF d9, new
  <2>4. d9.refs = d0.refs
    BY <2>1, <2>2
  <2>5. WovenRefs(d9, entry, g, ids) = R
    BY <2>4, WovenSame
  <2>6. d2 = [ent |-> new, refs |-> d.refs \cup R, obs |-> d.obs]
    <3>1. WeaveRefs(d9, entry, g, ids)
            = [ent |-> d9.ent, refs |-> d9.refs \cup WovenRefs(d9, entry, g, ids), obs |-> d9.obs]
      <4>1. d9 = [ent |-> d9.ent, refs |-> d9.refs, obs |-> d9.obs]
        BY <2>1
      <4> HIDE DEF n, entry
      <4> QED BY <4>1, WeaveForm
    <3> QED BY <2>1, <2>3, <2>5, <3>1
  <2>7. d1 = [ent |-> d0.ent, refs |-> d.refs \cup R, obs |-> d.obs]
    <3>1. WeaveRefs(d0, entry, g, ids)
            = [ent |-> d0.ent, refs |-> d0.refs \cup WovenRefs(d0, entry, g, ids), obs |-> d0.obs]
      <4>1. d0 = [ent |-> d0.ent, refs |-> d0.refs, obs |-> d0.obs]
        BY <2>2
      <4> HIDE DEF n, entry
      <4> QED BY <4>1, WeaveForm
    <3>2. d0.refs = d.refs /\ d0.obs = d.obs
      BY <2>2
    <3> QED BY <3>1, <3>2
  <2> HIDE DEF R, d1
  <2>10. d1.ent = d0.ent /\ d1.refs = d.refs \cup R /\ d1.obs = d.obs
         /\ d1 = [ent |-> d1.ent, refs |-> d1.refs, obs |-> d1.obs]
         /\ d1 \in Db /\ entry \in Ids(d1) /\ d1.ent[entry] = blank
    BY <2>7, <1>16, <1>4, <1>12 DEF Good, Ids
  <2>11. d2 = [ent |-> [d0.ent EXCEPT ![entry] = row], refs |-> d.refs \cup R, obs |-> d.obs]
    BY <2>6, <1>13 DEF new
  <2> DEFINE d3 == UpdateEntity(d1, entry, NoLabel, woven, p)
  <2>12. d3 = [ent |-> [d1.ent EXCEPT ![entry] = row], refs |-> d1.refs, obs |-> d1.obs]
    <3>1. d1.ent[entry] # Gone /\ d1 \in Db /\ entry \in Ids(d1)
      BY <2>10, <1>7
    <3>2. NoLabel \in Labels /\ woven \in Seq(BroadNode) /\ p \in Proposals \cup {User} /\ row \in BroadRow
      BY <1>5, <1>8 DEF Labels
    <3>3. row.type = d1.ent[entry].type /\ row.name = NoLabel /\ row.body = woven
      BY <1>7, <1>8, <2>10
    <3>4. row.origin = d1.ent[entry].origin
      BY <1>7, <1>8, <2>10
    <3>5. row.by = d1.ent[entry].by \cup ({p} \ {User})
      BY <1>7, <1>8, <2>10
    <3> HIDE DEF n, entry
    <3> QED BY <3>1, <3>2, <3>3, <3>4, <3>5, UpdateForm
  <2> HIDE DEF d3
  <2> QED BY <2>10, <2>11, <2>12 DEF d3
<1> HIDE DEF d1
<1>18. OwnChips(d1, entry, woven)
  BY <1>5, <1>16 DEF OwnChips
<1>19. entry \in Ids(d1) /\ d1.ent[entry] = blank
  BY <1>12, <1>16, <1>4 DEF Ids
<1>20. /\ Good(d2) /\ Grows(d1, d2) /\ Ids(d2) = Ids(d1)
       /\ \A x \in Ids(d1) \ {entry} : d2.ent[x] = d1.ent[x]
       /\ d2.ent[entry].type = "journal_entry"
  <2>1. NoLabel \in Labels /\ p \in Proposals \cup {User}
    BY DEF Labels
  <2> QED BY <1>5, <1>7, <1>16, <1>17, <1>18, <1>19, <2>1, RowUpdated
<1>21. Ids(d1) = 1 .. (n + 1)
  BY <1>12, <1>16 DEF Ids
<1>22. Grows(d, d2)
  BY <1>9, <1>16, <1>20 DEF Grows, Heir
<1>23. \A e \in Ids(d) : d2.ent[e] = d.ent[e]
  BY <1>4, <1>9, <1>16, <1>20, <1>21
<1>24. \A e \in Ids(d2) \ Ids(d) : d2.ent[e].type = "journal_entry"
  BY <1>4, <1>20, <1>21
<1> QED BY <1>20, <1>22, <1>23, <1>24

(***************************************************************************)
(* An entry already there: the links find their places one after another.  *)
(***************************************************************************)
Placed(g, ids, k, body) ==
    IF ids[k] = 0 \/ body = LostText THEN body
    ELSE PlaceChip(body, g.nodes[k].name, g.append, Chip(g.entry, ids[k]))
Places(body, g, ids, n, f) ==
    f = [k \in 0 .. n |-> IF k = 0 THEN body ELSE Placed(g, ids, k, f[k - 1])]

LEMMA PlacesExist ==
  ASSUME NEW body, NEW g, NEW ids, NEW n \in Nat PROVE \E f : Places(body, g, ids, n, f)
<1> DEFINE S == {m \in Nat : \E f : Places(body, g, ids, m, f)}
<1>1. 0 \in S
  <2>1. Places(body, g, ids, 0, [k \in 0 .. 0 |-> body])
    BY DEF Places
  <2> QED BY <2>1
<1>2. ASSUME NEW m \in Nat, m \in S PROVE m + 1 \in S
  <2>1. PICK f : Places(body, g, ids, m, f)
    BY <1>2
  <2> DEFINE h == [k \in 0 .. m + 1 |-> IF k = m + 1 THEN Placed(g, ids, k, f[m]) ELSE f[k]]
  <2>2. \A k \in 0 .. m : h[k] = f[k] /\ f[k] = IF k = 0 THEN body ELSE Placed(g, ids, k, f[k - 1])
    BY <2>1 DEF Places
  <2>3. ASSUME NEW k \in 0 .. m + 1
        PROVE  h[k] = IF k = 0 THEN body ELSE Placed(g, ids, k, h[k - 1])
    <3>1. CASE k = m + 1
      <4>1. k # 0 /\ k - 1 = m /\ h[m] = f[m]
        BY <3>1
      <4> QED BY <3>1, <4>1
    <3>2. CASE k \in 0 .. m
      <4>1. k # 0 => k - 1 \in 0 .. m
        BY <3>2
      <4>2. h[k] = f[k] /\ (k # 0 => h[k - 1] = f[k - 1])
        BY <3>2, <4>1, <2>2
      <4> HIDE DEF h
      <4> QED BY <3>2, <4>2, <2>2
    <3> QED BY <3>1, <3>2
  <2>4. Places(body, g, ids, m + 1, h)
    BY <2>3 DEF Places
  <2> QED BY <2>4
<1> HIDE DEF S
<1>3. Nat \subseteq S
  BY <1>1, <1>2, NatInduct
<1> QED BY <1>3 DEF S

LEMMA SplicedPlaces ==
  ASSUME NEW body, NEW g, NEW ids, Len(ids) \in Nat
  PROVE  \E f : Places(body, g, ids, Len(ids), f) /\ SplicedBody(body, g, ids) = f[Len(ids)]
<1> DEFINE h == CHOOSE f : Places(body, g, ids, Len(ids), f)
<1>1. Places(body, g, ids, Len(ids), h)
  BY PlacesExist
<1>2. SplicedBody(body, g, ids) = h[Len(ids)]
  BY DEF SplicedBody, Places, Placed
<1> QED BY <1>1, <1>2

\* A body whose chips are the entry's own.
Fitting(d, e, body) == body \in Seq(BroadNode) /\ body # <<>> /\ OwnChips(d, e, body)

LEMMA ChipPlaced ==
  ASSUME NEW d, NEW e \in Nat, NEW body, Fitting(d, e, body),
         NEW t \in Nat, EntityRef(d, e, t) # {}, NEW match, NEW append,
         NEW new, new = PlaceChip(body, match, append, Chip(e, t)), new # LostText
  PROVE  Fitting(d, e, new)
<1> DEFINE chip == Chip(e, t)
<1>1. chip \in BroadNode /\ chip[2] = e /\ EntityRef(d, e, chip[3]) # {}
  BY ChipNode
<1>2. body \in Seq(BroadNode) /\ body # <<>> /\ OwnChips(d, e, body)
  BY DEF Fitting
<1>3. CASE append
  <2>1. new = Append(body, chip)
    BY <1>3 DEF PlaceChip
  <2> HIDE DEF chip
  <2>2. new \in Seq(BroadNode) /\ Len(new) = Len(body) + 1 /\ new[Len(body) + 1] = chip
        /\ (\A i \in 1 .. Len(body) : new[i] = body[i]) /\ Len(body) \in Nat
    BY <1>1, <1>2, <2>1
  <2>3. new # <<>> /\ DOMAIN new = 1 .. (Len(body) + 1) /\ DOMAIN body = 1 .. Len(body)
    BY <1>2, <2>2
  <2>4. ASSUME NEW i \in DOMAIN new, new[i][1] = "chip"
        PROVE  new[i][2] = e /\ EntityRef(d, e, new[i][3]) # {}
    <3>1. CASE i = Len(body) + 1
      BY <3>1, <1>1, <2>2
    <3>2. CASE i \in 1 .. Len(body)
      BY <3>2, <1>2, <2>2, <2>3, <2>4 DEF OwnChips
    <3> QED BY <2>2, <2>3, <3>1, <3>2
  <2> QED BY <2>2, <2>3, <2>4 DEF Fitting, OwnChips
<1>4. CASE ~append
  <2> DEFINE mentions == {i \in DOMAIN body : body[i] = Text(match)}
             at == CHOOSE i \in mentions : \A j \in mentions : i <= j
  <2>1. new = [body EXCEPT ![at] = chip]
    BY <1>4 DEF PlaceChip
  <2> HIDE DEF chip, at
  <2>2. new = [i \in DOMAIN body |-> IF i = at THEN chip ELSE body[i]]
    BY <2>1
  <2>3. DOMAIN body = 1 .. Len(body) /\ Len(body) \in Nat /\ \A i \in DOMAIN body : body[i] \in BroadNode
    BY <1>2
  <2>4. \A i \in DOMAIN body : new[i] \in BroadNode
    BY <1>1, <2>2, <2>3
  <2>5. new \in Seq(BroadNode) /\ Len(new) = Len(body)
    <3>1. new = [i \in 1 .. Len(body) |-> new[i]]
      BY <2>2, <2>3
    <3>2. \A i \in 1 .. Len(body) : new[i] \in BroadNode
      BY <2>3, <2>4
    <3>3. Len(body) \in Nat
      BY <2>3
    <3> QED BY <3>1, <3>2, <3>3, SeqIf
  <2>6. new # <<>>
    <3>1. Len(body) # 0
      BY <1>2
    <3> QED BY <2>5, <3>1
  <2>7. \A i \in DOMAIN new : new[i][1] = "chip" => new[i][2] = e /\ EntityRef(d, e, new[i][3]) # {}
    BY <1>1, <1>2, <2>2 DEF OwnChips
  <2> QED BY <2>5, <2>6, <2>7 DEF Fitting, OwnChips
<1> QED BY <1>3, <1>4

LEMMA BodySpliced ==
  ASSUME NEW d, NEW g, g.entry \in Nat, NEW body, Fitting(d, g.entry, body),
         NEW ids, NEW n \in Nat, DOMAIN ids = 1 .. n, Len(ids) = n,
         \A k \in DOMAIN ids : ids[k] # 0 => ids[k] \in Nat /\ EntityRef(d, g.entry, ids[k]) # {},
         SplicedBody(body, g, ids) # LostText
  PROVE  Fitting(d, g.entry, SplicedBody(body, g, ids))
<1>1. PICK f : Places(body, g, ids, n, f) /\ SplicedBody(body, g, ids) = f[n]
  BY SplicedPlaces
<1>2. \A k \in 0 .. n : f[k] = IF k = 0 THEN body ELSE Placed(g, ids, k, f[k - 1])
  BY <1>1 DEF Places
<1> DEFINE S == {k \in Nat : k <= n => f[k] = LostText \/ Fitting(d, g.entry, f[k])}
<1>3. 0 \in S
  BY <1>2
<1>4. ASSUME NEW k \in Nat, k \in S PROVE k + 1 \in S
  <2> SUFFICES ASSUME k + 1 <= n, f[k + 1] # LostText PROVE Fitting(d, g.entry, f[k + 1])
    OBVIOUS
  <2>1. k + 1 \in 0 .. n /\ k + 1 # 0 /\ (k + 1) - 1 = k /\ k <= n /\ k + 1 \in DOMAIN ids
    OBVIOUS
  <2>2. f[k + 1] = Placed(g, ids, k + 1, f[k])
    BY <1>2, <2>1
  <2>3. f[k] = LostText \/ Fitting(d, g.entry, f[k])
    BY <1>4, <2>1
  <2>4. CASE ids[k + 1] = 0 \/ f[k] = LostText
    <3>1. f[k + 1] = f[k]
      BY <2>2, <2>4 DEF Placed
    <3> QED BY <2>3, <3>1
  <2>5. CASE ~(ids[k + 1] = 0 \/ f[k] = LostText)
    <3> DEFINE t == ids[k + 1]
               match == g.nodes[k + 1].name
               append == g.append
               old == f[k]
               new == f[k + 1]
    <3>1. new = PlaceChip(old, match, append, Chip(g.entry, t))
      BY <2>2, <2>5 DEF Placed
    <3>2. t \in Nat /\ EntityRef(d, g.entry, t) # {} /\ Fitting(d, g.entry, old)
      BY <2>1, <2>3, <2>5
    <3>3. new # LostText
      OBVIOUS
    <3> HIDE DEF t, match, append, old, new
    <3>4. Fitting(d, g.entry, new)
      BY <3>1, <3>2, <3>3, ChipPlaced
    <3> QED BY <3>4 DEF new
  <2> QED BY <2>4, <2>5
<1> HIDE DEF S
<1>5. Nat \subseteq S
  BY <1>3, <1>4, NatInduct
<1> QED BY <1>1, <1>5 DEF S

LEMMA AnchorWoven ==
  ASSUME NEW d, Good(d), NEW g, GraphShaped(g), g.entry \in Live(d, "journal_entry"),
         NEW ids, DOMAIN ids = 1 .. Len(g.nodes), Len(ids) = Len(g.nodes), Mentions(d, ids),
         SplicedBody(d.ent[g.entry].body, g, ids) # LostText,
         NEW p \in Proposals, NEW d2, d2 = AnchorReuse(d, g, ids, p)
  PROVE  /\ Good(d2) /\ Grows(d, d2) /\ Ids(d2) = Ids(d)
         /\ \A e \in Ids(d) \ {g.entry} : d2.ent[e] = d.ent[e]
         /\ d2.ent[g.entry].type = "journal_entry"
<1> DEFINE entry == g.entry
           old == d.ent[entry].body
           body == SplicedBody(old, g, ids)
           d1 == WeaveRefs(d, entry, g, ids)
<1>1. d2 = UpdateEntity(d1, entry, NoLabel, body, p)
  BY DEF AnchorReuse
<1>2. entry \in Ids(d) /\ Len(g.nodes) \in Nat /\ entry \in Nat /\ Ids(d) \subseteq Nat
      /\ d.ent[entry].type = "journal_entry"
  BY DbParts DEF GraphShaped, Live, EntityIsType, Good
<1>3. /\ old \in Seq(BroadNode) /\ old # <<>> /\ OwnChips(d, entry, old) /\ d.ent[entry] \in BroadRow
  BY EntryRow
<1>4. d.ent[entry] # Gone
  BY <1>3, RowForms
<1> HIDE DEF d1, body, old
<1>5. Good(d1) /\ Grows(d, d1) /\ d1.ent = d.ent
  BY RefsWoven DEF d1
<1>6. \A e, t : EntityRef(d, e, t) # {} => EntityRef(d1, e, t) # {}
  BY RefsWoven DEF d1
<1>7. \A k \in DOMAIN ids : ids[k] # 0 => EntityRef(d1, entry, ids[k]) # {}
  BY RefsWoven DEF d1
<1>8. Fitting(d1, entry, old)
  <2>1. \A t : EntityRef(d, entry, t) # {} => EntityRef(d1, entry, t) # {}
    BY <1>6
  <2>2. OwnChips(d1, entry, old)
    BY <1>3, <2>1, OwnChipsStay
  <2> QED BY <1>3, <2>2 DEF Fitting
<1>9. Fitting(d1, entry, body)
  <2>1. \A k \in DOMAIN ids : ids[k] # 0 => ids[k] \in Nat /\ EntityRef(d1, entry, ids[k]) # {}
    BY <1>2, <1>7 DEF Mentions, Live
  <2>2. SplicedBody(old, g, ids) # LostText
    BY DEF old
  <2>3. Fitting(d1, entry, SplicedBody(old, g, ids))
    BY <1>2, <1>8, <2>1, <2>2, BodySpliced
  <2> QED BY <2>3 DEF body
<1>10. body \in Seq(BroadNode) /\ body # <<>> /\ OwnChips(d1, entry, body)
  BY <1>9 DEF Fitting
<1>11. Ids(d1) = Ids(d)
  BY <1>5 DEF Ids
<1>12. /\ entry \in Ids(d1) /\ d1.ent[entry] # Gone
       /\ d1.ent[entry].type = "journal_entry" <=> body # <<>>
       /\ NoLabel \in Labels /\ p \in Proposals \cup {User}
  BY <1>2, <1>4, <1>5, <1>10, <1>11 DEF Labels
<1>13. Good(d2) /\ Grows(d1, d2) /\ Ids(d2) = Ids(d1)
  BY <1>1, <1>5, <1>10, <1>12, RowUpdated
<1>14. \A x \in Ids(d1) \ {entry} : d2.ent[x] = d1.ent[x]
  BY <1>1, <1>5, <1>10, <1>12, RowUpdated
<1>15. d2.ent[entry].type = d1.ent[entry].type
  BY <1>1, <1>5, <1>10, <1>12, RowUpdated
<1>16. Grows(d, d2)
  BY <1>5, <1>11, <1>13 DEF Grows
<1> QED BY <1>2, <1>5, <1>11, <1>13, <1>14, <1>15, <1>16

\* The whole graph.
LEMMA GraphApplied ==
  ASSUME NEW d, Good(d), NEW g, GraphShaped(g), NEW decisions, DecisionShaped(g, decisions),
         NEW thread \in Threads, NEW p \in Proposals, GraphCommits(d, g, decisions, thread),
         NEW d2, d2 = ApplyIntentGraph(d, g, decisions, thread, p)
  PROVE  /\ Good(d2) /\ Grows(d, d2)
         /\ \A e \in Live(d, "journal_entry") :
               d.ent[e].origin # thread => d2.ent[e] = d.ent[e]
         /\ \A e \in Live(d2, "person") \ Ids(d) : \E k \in DOMAIN g.nodes :
               /\ GraphPlan(d, g, decisions)[k].op = "create"
               /\ d2.ent[e].name = GraphPlan(d, g, decisions)[k].name
<1> DEFINE plan == GraphPlan(d, g, decisions)
           ids == HandleToId(d, plan)
           d1 == MintCreates(d, plan, p)
           n == Len(g.nodes)
<1>1. /\ DOMAIN plan = 1 .. n /\ Len(plan) = n /\ n \in Nat /\ DOMAIN g.nodes = 1 .. n
      /\ \A k \in DOMAIN plan : PlanStep(d, plan[k])
  <2> HIDE DEF n
  <2>1. plan = GraphPlan(d, g, decisions)
    OBVIOUS
  <2> HIDE DEF plan
  <2>2. DOMAIN plan = 1 .. n /\ Len(plan) = n
    BY <2>1, PlanSpans DEF n
  <2>3. n \in Nat /\ DOMAIN g.nodes = 1 .. n
    BY <2>1, PlanShape DEF n
  <2>4. \A k \in DOMAIN plan : PlanStep(d, plan[k])
    BY <2>1, PlanShape
  <2> QED BY <2>2, <2>3, <2>4
<1>2. DOMAIN ids = 1 .. n /\ Len(ids) = n
  BY <1>1 DEF HandleToId
<1>3. d2 = IF ~EntryKept(g, decisions) THEN d1
           ELSE IF g.mode = "new" THEN WeaveAndMint(d1, g, ids, thread, p)
           ELSE AnchorReuse(d1, g, ids, p)
  BY DEF ApplyIntentGraph
<1>4. EntryKept(g, decisions) /\ g.mode = "reuse" => AnchorHolds(d, g, ids, thread)
  BY DEF GraphCommits
<1> HIDE DEF plan, n
<1>5. Good(d1) /\ Grows(d, d1)
  <2>1. d1 = MintCreates(d, plan, p)
    OBVIOUS
  <2> HIDE DEF d1, ids
  <2>2. n \in Nat /\ DOMAIN plan = 1 .. n /\ Len(plan) = n
        /\ \A k \in DOMAIN plan : PlanStep(d, plan[k])
    BY <1>1
  <2> QED BY ONLY Good(d), p \in Proposals, <2>1, <2>2, Minted
<1>6. \A e \in Ids(d) : d1.ent[e] = d.ent[e]
  <2>1. d1 = MintCreates(d, plan, p)
    OBVIOUS
  <2> HIDE DEF d1, ids
  <2>2. n \in Nat /\ DOMAIN plan = 1 .. n /\ Len(plan) = n
        /\ \A k \in DOMAIN plan : PlanStep(d, plan[k])
    BY <1>1
  <2> QED BY ONLY Good(d), p \in Proposals, <2>1, <2>2, Minted
<1>7. \A e \in Ids(d1) \ Ids(d) :
         d1.ent[e].type = "person"
         /\ \E k \in DOMAIN plan : plan[k].op = "create" /\ d1.ent[e].name = plan[k].name
  <2>1. d1 = MintCreates(d, plan, p)
    OBVIOUS
  <2> HIDE DEF d1, ids
  <2>2. n \in Nat /\ DOMAIN plan = 1 .. n /\ Len(plan) = n
        /\ \A k \in DOMAIN plan : PlanStep(d, plan[k])
    BY <1>1
  <2> QED BY ONLY Good(d), p \in Proposals, <2>1, <2>2, Minted
<1>8. \A k \in DOMAIN plan : ids[k] # 0 => ids[k] \in Live(d1, "person")
  <2>1. d1 = MintCreates(d, plan, p) /\ ids = HandleToId(d, plan)
    OBVIOUS
  <2> HIDE DEF d1, ids
  <2>2. \A k \in DOMAIN plan :
           HandleToId(d, plan)[k] # 0 => HandleToId(d, plan)[k] \in Live(d1, "person")
    BY <1>1, <2>1, Minted
  <2> QED BY <2>1, <2>2
<1> HIDE DEF ids, d1
<1>9. Mentions(d1, ids)
  BY <1>1, <1>2, <1>8 DEF Mentions
<1>10. Ids(d) \subseteq Ids(d1)
  BY <1>5 DEF Grows
<1> DEFINE Kept == \A e \in Live(d, "journal_entry") : d.ent[e].origin # thread => d2.ent[e] = d.ent[e]
           Named == \A e \in Live(d2, "person") \ Ids(d) : \E k \in DOMAIN g.nodes :
                       plan[k].op = "create" /\ d2.ent[e].name = plan[k].name
<1>11. CASE ~EntryKept(g, decisions)
  <2>1. d2 = d1
    BY <1>3, <1>11
  <2>2. Kept
    BY <1>6, <2>1 DEF Live
  <2>3. Named
    BY <1>1, <1>7, <2>1 DEF Live
  <2> QED BY <1>5, <2>1, <2>2, <2>3 DEF plan
<1>12. CASE EntryKept(g, decisions) /\ g.mode = "new"
  <2>1. d2 = WeaveAndMint(d1, g, ids, thread, p)
    BY <1>3, <1>12
  <2>2. DOMAIN ids = 1 .. Len(g.nodes)
    BY <1>2 DEF n
  <2>3. Good(d2) /\ Grows(d1, d2)
    BY <1>5, <1>9, <1>12, <2>1, <2>2, EntryWoven
  <2>4. \A e \in Ids(d1) : d2.ent[e] = d1.ent[e]
    BY <1>5, <1>9, <1>12, <2>1, <2>2, EntryWoven
  <2>5. \A e \in Ids(d2) \ Ids(d1) : d2.ent[e].type = "journal_entry"
    BY <1>5, <1>9, <1>12, <2>1, <2>2, EntryWoven
  <2>6. Grows(d, d2)
    BY <1>6, <1>10, <2>3, <2>4 DEF Grows, Heir
  <2>7. Kept
    BY <1>6, <1>10, <2>4 DEF Live
  <2>8. Named
    BY <1>1, <1>7, <2>4, <2>5 DEF Live, EntityIsType
  <2> QED BY <2>3, <2>6, <2>7, <2>8 DEF plan
<1>13. CASE EntryKept(g, decisions) /\ g.mode # "new"
  <2>1. d2 = AnchorReuse(d1, g, ids, p) /\ g.mode = "reuse"
    BY <1>3, <1>13 DEF EntryKept, GraphShaped
  <2>2. EntityIsType(d, g.entry, "journal_entry") /\ d.ent[g.entry].origin = thread
        /\ SplicedBody(d.ent[g.entry].body, g, ids) # LostText
    BY <1>4, <1>13, <2>1 DEF AnchorHolds, JournalEntryTargetIsValid
  <2>3. g.entry \in Ids(d) /\ d1.ent[g.entry] = d.ent[g.entry]
    BY <1>6, <2>2 DEF EntityIsType
  <2>4. g.entry \in Live(d1, "journal_entry")
    BY <1>10, <2>2, <2>3 DEF Live, EntityIsType
  <2>5. DOMAIN ids = 1 .. Len(g.nodes) /\ Len(ids) = Len(g.nodes)
    BY <1>2 DEF n
  <2>6. SplicedBody(d1.ent[g.entry].body, g, ids) # LostText
    BY <2>2, <2>3
  <2>7. Good(d2) /\ Grows(d1, d2) /\ Ids(d2) = Ids(d1)
    BY <1>5, <1>9, <2>1, <2>4, <2>5, <2>6, AnchorWoven
  <2>8. \A e \in Ids(d1) \ {g.entry} : d2.ent[e] = d1.ent[e]
    BY <1>5, <1>9, <2>1, <2>4, <2>5, <2>6, AnchorWoven
  <2>9. d2.ent[g.entry].type = "journal_entry"
    BY <1>5, <1>9, <2>1, <2>4, <2>5, <2>6, AnchorWoven
  <2>10. Grows(d, d2)
    BY <1>6, <1>10, <2>7 DEF Grows
  <2>11. Kept
    BY <1>6, <1>10, <2>2, <2>8 DEF Live
  <2>12. Named
    BY <1>1, <1>7, <2>3, <2>7, <2>8 DEF Live, EntityIsType
  <2> QED BY <2>7, <2>10, <2>11, <2>12 DEF plan
<1> QED BY <1>11, <1>12, <1>13

(***************************************************************************)
(* What is asked for has its shape.                                        *)
(***************************************************************************)
LEMMA BodiesTyped ==
  ASSUME NEW nodes \in SUBSET BroadNode, NEW b \in Bodies(nodes)
  PROVE  b \in Seq(BroadNode) /\ b # <<>> /\ \A i \in DOMAIN b : b[i] \in nodes
<1>1. PICK n \in 1 .. MaxTyped : b \in [1 .. n -> nodes]
  BY DEF Bodies
<1>2. n \in Nat /\ n # 0
  BY <1>1, WorkspaceAssumption DEF WorkspaceAssumption
<1>3. b = [i \in 1 .. n |-> b[i]] /\ \A i \in 1 .. n : b[i] \in BroadNode
  BY <1>1
<1>4. b \in Seq(BroadNode) /\ Len(b) = n
  BY <1>2, <1>3, SeqIf
<1> QED BY <1>1, <1>2, <1>4

LEMMA MutationTyped ==
  ASSUME NEW op \in Kinds, NEW target \in Nat, NEW name \in Labels,
         NEW body \in Seq(BroadNode) \cup {<<Hole(1)>>}, NEW other \in Nat, NEW label \in Labels,
         op[1] \in {"create", "update"} =>
            body \in Seq(BroadNode) /\ (op[2] = "journal_entry" <=> body # <<>>),
         op[1] = "create" => NoChips(body),
         op[1] = "reference" => body = <<Hole(1)>>,
         NEW m, m = Mutation(op, target, name, body, other, label)
  PROVE  Shaped(m)
BY DEF Mutation, Shaped, MutationShape

LEMMA SinglesShaped ==
  ASSUME NEW d, Good(d), NEW anchors \in SUBSET Nat, NEW m \in SingleMutations(d, anchors)
  PROVE  Shaped(m)
<1> DEFINE empty == <<>>
<1>1. Ids(d) \subseteq Nat /\ 0 \in Nat /\ NoLabel \in Labels /\ Names \subseteq Labels
  BY DbParts DEF Good, Labels
<1>2. empty \in Seq(BroadNode) /\ empty \in Seq(BroadNode) \cup {<<Hole(1)>>} /\ NoChips(empty)
  BY DEF NoChips
<1>3. Texts \subseteq BroadNode /\ \A x \in Texts : x[1] # "chip"
  BY <1>1, TextNode DEF Texts
<1>4. ChipsSeen(d) \subseteq BroadNode
  <2>1. \A r \in d.refs : r.source \in Nat /\ r.target \in Nat
    BY DbParts DEF Good, BroadRef
  <2> QED BY <2>1, ChipNode DEF ChipsSeen
<1>5. CASE \E n \in Names, e \in anchors :
             m = Mutation(<<"create", "person">>, 0, n, <<>>, e, NoLabel)
  <2>1. PICK n \in Names, e \in anchors :
          m = Mutation(<<"create", "person">>, 0, n, empty, e, NoLabel)
    BY <1>5
  <2> DEFINE op == <<"create", "person">>
  <2>2. op \in Kinds /\ op[1] = "create" /\ op[2] = "person"
    BY DEF Kinds, Written
  <2>3. m = Mutation(op, 0, n, empty, e, NoLabel) /\ n \in Labels /\ e \in Nat
    BY <1>1, <2>1
  <2>4. op[2] = "journal_entry" <=> empty # <<>>
    BY <2>2
  <2> HIDE DEF op, empty
  <2> QED BY <1>1, <1>2, <2>2, <2>3, <2>4, MutationTyped
<1>6. CASE \E b \in Bodies(Texts) :
             m = Mutation(<<"create", "journal_entry">>, 0, NoLabel, b, 0, NoLabel)
  <2>1. PICK b \in Bodies(Texts) :
          m = Mutation(<<"create", "journal_entry">>, 0, NoLabel, b, 0, NoLabel)
    BY <1>6
  <2> DEFINE op == <<"create", "journal_entry">>
  <2>2. op \in Kinds /\ op[1] = "create" /\ op[2] = "journal_entry"
    BY DEF Kinds, Written
  <2>3. b \in Seq(BroadNode) /\ b # <<>> /\ \A i \in DOMAIN b : b[i] \in Texts
    BY <1>3, BodiesTyped
  <2>4. NoChips(b)
    BY <1>3, <2>3 DEF NoChips
  <2>5. m = Mutation(op, 0, NoLabel, b, 0, NoLabel)
    BY <2>1
  <2> HIDE DEF op
  <2> QED BY <1>1, <2>2, <2>3, <2>4, <2>5, MutationTyped
<1>7. CASE m = Mutation(<<"create", "habit">>, 0, NoLabel, <<>>, 0, NoLabel)
  <2> DEFINE op == <<"create", "habit">>
  <2>2. op \in Kinds /\ op[1] = "create" /\ op[2] = "habit"
    BY DEF Kinds, Written
  <2>3. m = Mutation(op, 0, NoLabel, empty, 0, NoLabel)
    BY <1>7
  <2>4. op[2] = "journal_entry" <=> empty # <<>>
    BY <2>2
  <2> HIDE DEF op, empty
  <2> QED BY <1>1, <1>2, <2>2, <2>3, <2>4, MutationTyped
<1>8. CASE \E e \in Ids(d), n \in Names :
             m = Mutation(<<"update", "person">>, e, n, <<>>, 0, NoLabel)
  <2>1. PICK e \in Ids(d), n \in Names : m = Mutation(<<"update", "person">>, e, n, empty, 0, NoLabel)
    BY <1>8
  <2> DEFINE op == <<"update", "person">>
  <2>2. op \in Kinds /\ op[1] = "update" /\ op[2] = "person"
    BY DEF Kinds, Written
  <2>3. m = Mutation(op, e, n, empty, 0, NoLabel) /\ e \in Nat /\ n \in Labels
    BY <1>1, <2>1
  <2>4. op[2] = "journal_entry" <=> empty # <<>>
    BY <2>2
  <2> HIDE DEF op, empty
  <2> QED BY <1>1, <1>2, <2>2, <2>3, <2>4, MutationTyped
<1>9. CASE \E e \in Ids(d), b \in Bodies(Texts \cup ChipsSeen(d)) :
             m = Mutation(<<"update", "journal_entry">>, e, NoLabel, b, 0, NoLabel)
  <2>1. PICK e \in Ids(d), b \in Bodies(Texts \cup ChipsSeen(d)) :
          m = Mutation(<<"update", "journal_entry">>, e, NoLabel, b, 0, NoLabel)
    BY <1>9
  <2> DEFINE op == <<"update", "journal_entry">>
  <2>2. op \in Kinds /\ op[1] = "update" /\ op[2] = "journal_entry"
    BY DEF Kinds, Written
  <2> DEFINE nodes == Texts \cup ChipsSeen(d)
  <2>3. b \in Seq(BroadNode) /\ b # <<>>
    <3>1. nodes \in SUBSET BroadNode /\ b \in Bodies(nodes)
      BY <1>3, <1>4
    <3> HIDE DEF nodes
    <3> QED BY <3>1, BodiesTyped
  <2>4. m = Mutation(op, e, NoLabel, b, 0, NoLabel) /\ e \in Nat
    BY <1>1, <2>1
  <2> HIDE DEF op
  <2> QED BY <1>1, <2>2, <2>3, <2>4, MutationTyped
<1>10. CASE \E type \in {"person", "journal_entry", "habit"}, e \in Ids(d) :
             m = Mutation(<<"delete", type>>, e, NoLabel, <<>>, 0, NoLabel)
  <2>1. PICK type \in Written, e \in Ids(d) : m = Mutation(<<"delete", type>>, e, NoLabel, empty, 0, NoLabel)
    BY <1>10 DEF Written
  <2> DEFINE op == <<"delete", type>>
  <2>2. op \in Kinds /\ op[1] = "delete"
    BY DEF Kinds
  <2>3. m = Mutation(op, e, NoLabel, empty, 0, NoLabel) /\ e \in Nat
    BY <1>1, <2>1
  <2> HIDE DEF op, empty
  <2> QED BY <1>1, <1>2, <2>2, <2>3, MutationTyped
<1>11. CASE \E e \in Ids(d), t \in Ids(d), label \in Names \cup {NoLabel} :
             m = Mutation(<<"reference", "journal_entry">>, e, NoLabel, <<Hole(1)>>, t, label)
  <2> DEFINE hole == <<Hole(1)>>
             op == <<"reference", "journal_entry">>
  <2>1. PICK e \in Ids(d), t \in Ids(d), label \in Names \cup {NoLabel} :
          m = Mutation(op, e, NoLabel, hole, t, label)
    BY <1>11
  <2>2. op \in Kinds /\ op[1] = "reference"
    BY DEF Kinds
  <2>3. hole \in Seq(BroadNode) \cup {<<Hole(1)>>} /\ hole = <<Hole(1)>>
    OBVIOUS
  <2>4. e \in Nat /\ t \in Nat /\ label \in Labels
    BY <1>1
  <2> HIDE DEF op, hole
  <2> QED BY <1>1, <2>1, <2>2, <2>3, <2>4, MutationTyped
<1> DEFINE persons == {Mutation(<<"create", "person">>, 0, n, <<>>, e, NoLabel) : n \in Names, e \in anchors}
           entries == {Mutation(<<"create", "journal_entry">>, 0, NoLabel, b, 0, NoLabel) : b \in Bodies(Texts)}
           habits == {Mutation(<<"create", "habit">>, 0, NoLabel, <<>>, 0, NoLabel)}
           renames == {Mutation(<<"update", "person">>, e, n, <<>>, 0, NoLabel) : e \in Ids(d), n \in Names}
           rewrites == {Mutation(<<"update", "journal_entry">>, e, NoLabel, b, 0, NoLabel) :
                           e \in Ids(d), b \in Bodies(Texts \cup ChipsSeen(d))}
           deletes == {Mutation(<<"delete", type>>, e, NoLabel, <<>>, 0, NoLabel) :
                           type \in {"person", "journal_entry", "habit"}, e \in Ids(d)}
           weaves == {Mutation(<<"reference", "journal_entry">>, e, NoLabel, <<Hole(1)>>, t, label) :
                           e \in Ids(d), t \in Ids(d), label \in Names \cup {NoLabel}}
<1>12. SingleMutations(d, anchors)
         = persons \cup entries \cup habits \cup renames \cup rewrites \cup deletes \cup weaves
  BY DEF SingleMutations
<1>13. m \in persons => Shaped(m)
  BY <1>5
<1>14. m \in entries => Shaped(m)
  BY <1>6
<1>15. m \in habits => Shaped(m)
  BY <1>7
<1>16. m \in renames => Shaped(m)
  BY <1>8
<1>17. m \in rewrites => Shaped(m)
  BY <1>9
<1>18. m \in deletes => Shaped(m)
  BY <1>10
<1>19. m \in weaves => Shaped(m)
  BY <1>11
<1> HIDE DEF persons, entries, habits, renames, rewrites, deletes, weaves
<1> QED BY <1>12, <1>13, <1>14, <1>15, <1>16, <1>17, <1>18, <1>19

LEMMA GraphsShaped ==
  ASSUME NEW d, Good(d), NEW g \in Graphs(d) PROVE GraphShaped(g)
<1>1. Ids(d) \subseteq Nat
  BY DbParts DEF Good
<1>2. Nodes(d) \subseteq Mention
  BY <1>1 DEF Nodes, Known, Mention
<1>3. ASSUME NEW nodes \in NodeSeqs(d) PROVE nodes \in Seq(Mention) /\ nodes # <<>>
  <2>1. CASE \E x \in Nodes(d) : nodes = <<x>>
    <3>1. PICK x \in Mention : nodes = <<x>>
      BY <1>2, <2>1
    <3> QED BY <3>1
  <2>2. CASE nodes \in Nodes(d) \X {node \in Nodes(d) : node.hint = 0}
    <3>1. PICK x \in Mention, y \in Mention : nodes = <<x, y>>
      BY <1>2, <2>2
    <3> QED BY <3>1
  <2> QED BY <2>1, <2>2 DEF NodeSeqs
<1>4. CASE \E nodes \in NodeSeqs(d) : g = Graph("none", 0, <<>>, FALSE, nodes)
  <2>1. PICK nodes \in NodeSeqs(d) : g = Graph("none", 0, <<>>, FALSE, nodes)
    BY <1>4
  <2>2. nodes \in Seq(Mention) /\ nodes # <<>>
    BY <1>3
  <2>3. g.kind = <<"graph", "journal_entry">> /\ g.mode = "none" /\ g.nodes = nodes /\ g.entry = 0
    BY <2>1 DEF Graph
  <2> QED BY <2>2, <2>3 DEF GraphShaped
<1>5. CASE \E nodes \in NodeSeqs(d) :
             g = Graph("new", 0, [k \in DOMAIN nodes |-> Hole(k)], FALSE, nodes)
  <2>1. PICK nodes \in NodeSeqs(d) : g = Graph("new", 0, [k \in DOMAIN nodes |-> Hole(k)], FALSE, nodes)
    BY <1>5
  <2>2. nodes \in Seq(Mention) /\ nodes # <<>>
    BY <1>3
  <2>3. /\ g.kind = <<"graph", "journal_entry">> /\ g.mode = "new" /\ g.nodes = nodes /\ g.entry = 0
        /\ g.body = [k \in DOMAIN nodes |-> Hole(k)]
    BY <2>1 DEF Graph
  <2> QED BY <2>2, <2>3 DEF GraphShaped
<1>6. CASE \E e \in Known(d, "journal_entry"), append \in BOOLEAN, nodes \in NodeSeqs(d) :
             g = Graph("reuse", e, <<>>, append, nodes)
  <2>1. PICK e \in Known(d, "journal_entry"), append \in BOOLEAN, nodes \in NodeSeqs(d) :
          g = Graph("reuse", e, <<>>, append, nodes)
    BY <1>6
  <2>2. nodes \in Seq(Mention) /\ nodes # <<>> /\ e \in Nat
    BY <1>1, <1>3 DEF Known
  <2>3. g.kind = <<"graph", "journal_entry">> /\ g.mode = "reuse" /\ g.nodes = nodes /\ g.entry = e
    BY <2>1 DEF Graph
  <2> QED BY <2>2, <2>3 DEF GraphShaped
<1> DEFINE plain == {Graph("none", 0, <<>>, FALSE, nodes) : nodes \in NodeSeqs(d)}
           fresh == {Graph("new", 0, [k \in DOMAIN nodes |-> Hole(k)], FALSE, nodes) :
                        nodes \in NodeSeqs(d)}
           known == {Graph("reuse", e, <<>>, append, nodes) :
                        e \in Known(d, "journal_entry"), append \in BOOLEAN, nodes \in NodeSeqs(d)}
<1>7. Graphs(d) = plain \cup fresh \cup known
  BY DEF Graphs
<1>8. g \in plain => GraphShaped(g)
  BY <1>4
<1>9. g \in fresh => GraphShaped(g)
  BY <1>5
<1>10. g \in known => GraphShaped(g)
  BY <1>6
<1> HIDE DEF plain, fresh, known
<1> QED BY <1>7, <1>8, <1>9, <1>10

LEMMA BatchesShaped ==
  ASSUME NEW d, Good(d), NEW batch \in Batches(d) PROVE batch \in BatchShape
<1> DEFINE habits == Ids(d) \cup {0}
<1>1. habits \subseteq Nat
  BY DbParts DEF Good
<1>2. batch \in [kind : {<<"record", "observations">>}, evidence : habits,
                 drafts : {<<h>> : h \in habits} \cup (habits \X {0})]
  BY DEF Batches
<1> HIDE DEF habits
<1>3. batch.drafts \in Seq(Nat)
  <2>1. CASE batch.drafts \in {<<h>> : h \in habits}
    <3>1. PICK h \in Nat : batch.drafts = <<h>>
      BY <1>1, <2>1
    <3> QED BY <3>1
  <2>2. CASE batch.drafts \in habits \X {0}
    <3>1. PICK drafts : drafts = batch.drafts
      OBVIOUS
    <3>2. drafts \in habits \X {0}
      BY <2>2, <3>1
    <3>3. PICK h \in habits, z \in {0} : drafts = <<h, z>>
      BY <3>2
    <3>4. h \in Nat /\ z \in Nat
      BY <1>1
    <3> QED BY <3>1, <3>3, <3>4
  <2> QED BY <1>2, <2>1, <2>2
<1> QED BY <1>1, <1>2, <1>3 DEF BatchShape

LEMMA DecisionsShaped ==
  ASSUME NEW d, Good(d), NEW g, NEW decisions \in Decisions(d, g)
  PROVE  DecisionShaped(g, decisions)
<1>1. decisions.nodes \in [DOMAIN g.nodes -> NodeDecisions(d)]
  BY DEF Decisions
<1>2. Known(d, "person") \subseteq Nat
  BY DbParts DEF Good, Known
<1>3. ASSUME NEW x \in NodeDecisions(d)
      PROVE  \/ x[1] \in {"accept", "reject"}
             \/ x[1] = "override" /\ x[2] \in Nat
             \/ x[1] = "edit" /\ x[2] \in Names
  BY <1>2, <1>3 DEF NodeDecisions
<1> QED BY <1>1, <1>3 DEF DecisionShaped

(***************************************************************************)
(* The inductive invariant: the tables are good; what is parked and what   *)
(* is asked for has its shape; and the Entity an accepted change is about  *)
(* to touch is, if it is an entry, one of the Thread it was parked from,   *)
(* or gone.                                                                *)
(***************************************************************************)
Payload(x) == Shaped(x) \/ GraphShaped(x) \/ x \in BatchShape
Parked(q) ==
    \/ q.status = "none"
    \/ /\ q = [status |-> q.status, thread |-> q.thread, payload |-> q.payload, answer |-> q.answer]
       /\ q.status \in {"pending", "accepted", "rejected"} /\ q.thread \in Threads
       /\ Payload(q.payload)
OwnTarget(d, thread, m) ==
    m.kind \in {<<"update", "journal_entry">>, <<"delete", "journal_entry">>,
                <<"reference", "journal_entry">>}
        => /\ m.target \in Ids(d)
           /\ d.ent[m.target] = Gone \/ d.ent[m.target].origin = thread
Asked(d, pr, c) ==
    \/ c = Idle
    \/ /\ c.of \in Proposals /\ Shaped(c.what) /\ pr[c.of].status # "none"
       /\ OwnTarget(d, pr[c.of].thread, c.what)
PropInv(pr) == pr = [p \in Proposals |-> pr[p]] /\ \A p \in Proposals : Parked(pr[p])
UserInv(c) == c = Idle \/ Shaped(c)
CallForm(c) == c = [user |-> c.user, decide |-> c.decide]
IInv ==
    /\ Good(db) /\ PropInv(prop)
    /\ CallForm(call) /\ UserInv(call.user) /\ Asked(db, prop, call.decide)

\* An accepted Proposal leaves the entries of other Threads as they were.
Keeps(pr, pr2, d, d2, p) ==
    pr[p].status = "pending" /\ pr2[p].status = "accepted" =>
        \A e \in Live(d, "journal_entry") :
            d.ent[e].origin # pr[p].thread => Untouched(d, d2, e)
AllKeep(pr, pr2, d, d2) == \A p \in Proposals : Keeps(pr, pr2, d, d2, p)

LEMMA KindOf ==
  ASSUME NEW x, Payload(x)
  PROVE  /\ x.kind[1] \notin {"graph", "record"} => Shaped(x)
         /\ x.kind[1] = "graph" => GraphShaped(x)
         /\ x.kind[1] = "record" => x \in BatchShape
<1>1. Shaped(x) => x.kind[1] \in {"create", "update", "delete", "reference"}
  BY KindForms DEF Shaped, MutationShape
<1>2. GraphShaped(x) => x.kind[1] = "graph"
  BY DEF GraphShaped
<1>3. x \in BatchShape => x.kind[1] = "record"
  BY DEF BatchShape
<1> QED BY <1>1, <1>2, <1>3 DEF Payload

LEMMA GrowsSame == ASSUME NEW d PROVE Grows(d, d)
BY DEF Grows, Heir

LEMMA AskedStays ==
  ASSUME NEW d, NEW pr, NEW c, Asked(d, pr, c), NEW d2, Grows(d, d2), NEW pr2,
         \A p \in Proposals : pr[p].status # "none" =>
            pr2[p].status # "none" /\ pr2[p].thread = pr[p].thread
  PROVE  Asked(d2, pr2, c)
<1> SUFFICES ASSUME c # Idle PROVE Asked(d2, pr2, c)
  BY DEF Asked
<1> DEFINE thread == pr[c.of].thread
           m == c.what
<1>1. /\ c.of \in Proposals /\ Shaped(m) /\ pr[c.of].status # "none" /\ OwnTarget(d, thread, m)
  BY DEF Asked
<1>2. pr2[c.of].status # "none" /\ pr2[c.of].thread = thread
  BY <1>1
<1>3. OwnTarget(d2, thread, m)
  BY <1>1 DEF OwnTarget, Grows, Heir
<1> QED BY <1>1, <1>2, <1>3 DEF Asked

\* A Proposal that is settled keeps the rest of its row.
Settles(pr, pr2, p, s) ==
    \/ pr2 = [pr EXCEPT ![p].status = s]
    \/ \E answer : pr2 = [pr EXCEPT ![p].status = s, ![p].answer = answer]

LEMMA Settled ==
  ASSUME NEW pr, PropInv(pr), NEW p \in Proposals, pr[p].status = "pending",
         NEW s \in {"accepted", "rejected"}, NEW pr2, Settles(pr, pr2, p, s)
  PROVE  /\ PropInv(pr2) /\ pr2[p].status = s
         /\ \A q \in Proposals : pr2[q].thread = pr[q].thread /\ pr2[q].payload = pr[q].payload
         /\ \A q \in Proposals \ {p} : pr2[q] = pr[q]
         /\ \A q \in Proposals : pr[q].status # "none" => pr2[q].status # "none"
<1> DEFINE old == pr[p]
<1>1. pr = [q \in Proposals |-> pr[q]] /\ \A q \in Proposals : Parked(pr[q])
  BY DEF PropInv
<1>2. /\ old = [status |-> old.status, thread |-> old.thread, payload |-> old.payload,
                answer |-> old.answer]
      /\ old.thread \in Threads /\ Payload(old.payload)
  BY <1>1 DEF Parked
<1>3. \E answer : pr2 = [pr EXCEPT ![p] = [status |-> s, thread |-> old.thread,
                                           payload |-> old.payload, answer |-> answer]]
  <2>1. CASE pr2 = [pr EXCEPT ![p].status = s]
    <3>1. [old EXCEPT !.status = s] = [status |-> s, thread |-> old.thread,
                                       payload |-> old.payload, answer |-> old.answer]
      BY <1>2
    <3> QED BY <2>1, <3>1
  <2>2. ASSUME NEW answer, pr2 = [pr EXCEPT ![p].status = s, ![p].answer = answer]
        PROVE  pr2 = [pr EXCEPT ![p] = [status |-> s, thread |-> old.thread,
                                        payload |-> old.payload, answer |-> answer]]
    <3>1. [[old EXCEPT !.status = s] EXCEPT !.answer = answer]
            = [status |-> s, thread |-> old.thread, payload |-> old.payload, answer |-> answer]
      <4> DEFINE mid == [old EXCEPT !.status = s]
      <4>1. mid = [status |-> s, thread |-> old.thread, payload |-> old.payload,
                   answer |-> old.answer]
        BY <1>2
      <4> HIDE DEF mid, old
      <4>2. [mid EXCEPT !.answer = answer]
              = [status |-> s, thread |-> old.thread, payload |-> old.payload, answer |-> answer]
        BY <4>1
      <4> QED BY <4>2 DEF mid
    <3>2. [pr EXCEPT ![p].status = s, ![p].answer = answer]
            = [pr EXCEPT ![p] = [[old EXCEPT !.status = s] EXCEPT !.answer = answer]]
      BY <1>1
    <3> QED BY <2>2, <3>1, <3>2
  <2> QED BY <2>1, <2>2 DEF Settles
<1>4. PICK new : /\ pr2 = [pr EXCEPT ![p] = new]
                 /\ \E answer : new = [status |-> s, thread |-> old.thread,
                                       payload |-> old.payload, answer |-> answer]
  BY <1>3
<1>5. /\ new = [status |-> new.status, thread |-> new.thread, payload |-> new.payload,
                answer |-> new.answer]
      /\ new.status = s /\ new.thread = old.thread /\ new.payload = old.payload
  BY <1>4
<1>6. pr2[p] = new /\ (\A q \in Proposals \ {p} : pr2[q] = pr[q]) /\ pr2 = [q \in Proposals |-> pr2[q]]
  BY <1>1, <1>4
<1> HIDE DEF old
<1>7. Parked(new)
  BY <1>2, <1>5 DEF Parked
<1>8. PropInv(pr2)
  BY <1>1, <1>6, <1>7 DEF PropInv
<1> QED BY <1>5, <1>6, <1>8 DEF old

(***************************************************************************)
(* The steps.                                                              *)
(***************************************************************************)
LEMMA InitGood == ASSUME Init PROVE IInv
<1>1. Good(db)
  BY WorkspaceAssumption, ConsistentIs DEF WorkspaceAssumption, Init, Good
<1>2. PropInv(prop)
  BY DEF Init, PropInv, Parked
<1>3. CallForm(call) /\ call.user = Idle /\ call.decide = Idle
  BY DEF Init, CallForm
<1> QED BY <1>1, <1>2, <1>3 DEF IInv, UserInv, Asked

\* A step that settles no Proposal keeps what every Proposal must keep.
LEMMA NothingSettled ==
  ASSUME NEW pr, NEW pr2, NEW d, NEW d2,
         \A p \in Proposals : pr[p].status = "pending" => pr2[p].status # "accepted"
  PROVE  AllKeep(pr, pr2, d, d2)
BY DEF AllKeep, Keeps

LEMMA SameRowsKept ==
  ASSUME NEW d, NEW d2, Grows(d, d2), d2.ent = d.ent, NEW p, NEW pr, NEW pr2
  PROVE  Keeps(pr, pr2, d, d2, p)
BY SameIsUntouched DEF Keeps, Grows, Live

LEMMA AskMutateKeeps ==
  ASSUME IInv, NEW m \in SingleMutations(db, {0}), AskMutate(m)
  PROVE  IInv' /\ AllKeep(prop, prop', db, db')
<1>1. Shaped(m)
  <2>1. {0} \in SUBSET Nat
    OBVIOUS
  <2> QED BY <2>1, SinglesShaped DEF IInv
<1>2. call' = [call EXCEPT !.user = m] /\ db' = db /\ prop' = prop
  BY DEF AskMutate
<1>3. call' = [user |-> m, decide |-> call.decide]
  BY <1>2 DEF IInv, CallForm
<1>4. CallForm(call') /\ call'.user = m /\ call'.decide = call.decide
  BY <1>3 DEF CallForm
<1>5. IInv'
  BY <1>1, <1>2, <1>4 DEF IInv, UserInv
<1> QED BY <1>2, <1>5, NothingSettled

LEMMA ApplyMutateKeeps ==
  ASSUME IInv, ApplyMutate
  PROVE  IInv' /\ AllKeep(prop, prop', db, db')
<1> DEFINE m == call.user
           d2 == ApplyEntityMutation(db, m, NoThread, User)
<1>1. /\ m # Idle /\ call' = [call EXCEPT !.user = Idle] /\ prop' = prop
      /\ IF Commits(db, m) THEN db' = d2 ELSE db' = db
  BY DEF ApplyMutate, Write
<1>2. Shaped(m)
  BY <1>1 DEF IInv, UserInv
<1>3. Good(db) /\ NoThread \in Threads \cup {NoThread} /\ User \in Proposals \cup {User}
  BY DEF IInv
<1> HIDE DEF m
<1>4. Good(db') /\ Grows(db, db')
  <2>1. CASE Commits(db, m)
    <3>1. db' = d2
      BY <1>1, <2>1
    <3> HIDE DEF d2
    <3>2. d2 = ApplyEntityMutation(db, m, NoThread, User)
      BY DEF d2
    <3>3. Good(d2) /\ Grows(db, d2)
      BY <1>2, <1>3, <2>1, <3>2, MutationApplied
    <3> QED BY <3>1, <3>3
  <2>2. CASE ~Commits(db, m)
    BY <1>1, <1>3, <2>2, GrowsSame
  <2> QED BY <2>1, <2>2
<1>5. call' = [user |-> Idle, decide |-> call.decide]
  BY <1>1 DEF IInv, CallForm
<1>6. CallForm(call') /\ UserInv(call'.user) /\ call'.decide = call.decide
  BY <1>5 DEF CallForm, UserInv
<1>7. Asked(db', prop', call.decide)
  <2>1. Asked(db, prop, call.decide)
    BY DEF IInv
  <2> QED BY <1>1, <1>4, <2>1, AskedStays
<1>8. IInv'
  BY <1>1, <1>4, <1>6, <1>7 DEF IInv
<1> QED BY <1>1, <1>8, NothingSettled

LEMMA ObservationStep ==
  ASSUME IInv, UNCHANGED <<prop, call>>, Good(db'), Grows(db, db')
  PROVE  IInv' /\ AllKeep(prop, prop', db, db')
<1>1. Asked(db', prop', call.decide)
  <2>1. Asked(db, prop, call.decide)
    BY DEF IInv
  <2> QED BY <2>1, AskedStays
<1>2. IInv'
  BY <1>1 DEF IInv
<1> QED BY <1>2, NothingSettled

LEMMA RecordObservationsKeeps ==
  ASSUME IInv, NEW batch \in Batches(db), RecordObservations(batch)
  PROVE  IInv' /\ AllKeep(prop, prop', db, db')
<1>1. Good(db) /\ batch \in BatchShape
  BY BatchesShaped DEF IInv
<1>2. BatchCommits(db, batch) /\ db' = InsertObservations(db, batch) /\ UNCHANGED <<prop, call>>
  BY DEF RecordObservations, Write
<1>3. Good(db') /\ Grows(db, db')
  BY <1>1, <1>2, BatchRecorded
<1> QED BY <1>2, <1>3, ObservationStep

LEMMA UpdateObservationKeeps ==
  ASSUME IInv, NEW o \in DOMAIN db.obs, NEW habit \in Ids(db) \cup {0}, UpdateObservation(o, habit)
  PROVE  IInv' /\ AllKeep(prop, prop', db, db')
<1>1. Good(db) /\ habit \in Nat
  BY DbParts DEF IInv, Good
<1>2. ~InvalidRelation(db, habit) /\ db' = CorrectObservation(db, o, habit) /\ UNCHANGED <<prop, call>>
  BY DEF UpdateObservation, Write
<1>3. Good(db') /\ Grows(db, db')
  BY <1>1, <1>2, ObservationCorrected
<1> QED BY <1>2, <1>3, ObservationStep

LEMMA ParkKeeps ==
  ASSUME IInv, NEW p \in Proposals, NEW thread \in Threads, NEW card \in AgentPayloads(db),
         Park(p, thread, card)
  PROVE  IInv' /\ AllKeep(prop, prop', db, db')
<1> DEFINE new == [status |-> "pending", thread |-> thread, payload |-> card, answer |-> 0]
<1>1. /\ prop[p].status = "none" /\ prop' = [prop EXCEPT ![p] = new]
      /\ db' = db /\ call' = call
  BY DEF Park
<1>2. Payload(card)
  <2>1. CASE card \in SingleMutations(db, Ids(db) \cup {0})
    <3>1. Ids(db) \cup {0} \in SUBSET Nat
      BY DbParts DEF IInv, Good
    <3>2. Shaped(card)
      BY <2>1, <3>1, SinglesShaped DEF IInv
    <3> QED BY <3>2 DEF Payload
  <2>2. CASE card \in Graphs(db)
    BY <2>2, GraphsShaped DEF IInv, Payload
  <2>3. CASE card \in Batches(db)
    BY <2>3, BatchesShaped DEF IInv, Payload
  <2> QED BY <2>1, <2>2, <2>3 DEF AgentPayloads
<1>3. Parked(new)
  BY <1>2 DEF Parked
<1>4. PropInv(prop)
  BY DEF IInv
<1>5. new.status = "pending"
  OBVIOUS
<1> HIDE DEF new
<1>6. prop'[p] = new /\ (\A q \in Proposals \ {p} : prop'[q] = prop[q])
      /\ prop' = [q \in Proposals |-> prop'[q]]
  BY <1>1, <1>4 DEF PropInv
<1>7. PropInv(prop')
  BY <1>3, <1>4, <1>6 DEF PropInv
<1>8. Asked(db', prop', call.decide)
  <2>1. \A q \in Proposals : prop[q].status # "none" =>
          prop'[q].status # "none" /\ prop'[q].thread = prop[q].thread
    BY <1>1, <1>6
  <2>2. Asked(db, prop, call.decide) /\ Grows(db, db')
    BY <1>1, GrowsSame DEF IInv
  <2> QED BY <2>1, <2>2, AskedStays
<1>9. IInv'
  BY <1>1, <1>7, <1>8 DEF IInv
<1>10. \A q \in Proposals : prop[q].status = "pending" => prop'[q].status # "accepted"
  BY <1>1, <1>6
<1> QED BY <1>9, <1>10, NothingSettled

LEMMA RejectKeeps ==
  ASSUME IInv, NEW p \in Proposals, Pending(p),
         prop' = [prop EXCEPT ![p].status = "rejected"], UNCHANGED <<db, call>>
  PROVE  IInv' /\ AllKeep(prop, prop', db, db')
<1>1. PropInv(prop) /\ prop[p].status = "pending" /\ Settles(prop, prop', p, "rejected")
  BY DEF IInv, Pending, Settles
<1>2. PropInv(prop') /\ prop'[p].status = "rejected"
  BY <1>1, Settled
<1>3. \A q \in Proposals : prop'[q].thread = prop[q].thread
  BY <1>1, Settled
<1>4. \A q \in Proposals \ {p} : prop'[q] = prop[q]
  BY <1>1, Settled
<1>5. \A q \in Proposals : prop[q].status # "none" => prop'[q].status # "none"
  BY <1>1, Settled
<1>6. Asked(db', prop', call.decide)
  <2>1. Asked(db, prop, call.decide) /\ Grows(db, db')
    BY GrowsSame DEF IInv
  <2> QED BY <1>3, <1>5, <2>1, AskedStays
<1>7. IInv'
  BY <1>2, <1>6 DEF IInv
<1>8. \A q \in Proposals : prop[q].status = "pending" => prop'[q].status # "accepted"
  BY <1>2, <1>4
<1> QED BY <1>7, <1>8, NothingSettled

\* A Proposal accepted, and what it wrote.
LEMMA AcceptKeeps ==
  ASSUME IInv, NEW p \in Proposals, Pending(p), NEW answer, Accepted(p, answer),
         Good(db'), Grows(db, db'), Keeps(prop, prop', db, db', p),
         CallForm(call'), call'.user = call.user, call'.decide \in {call.decide, Idle}
  PROVE  IInv' /\ AllKeep(prop, prop', db, db')
<1>1. PropInv(prop) /\ prop[p].status = "pending" /\ Settles(prop, prop', p, "accepted")
  BY DEF IInv, Pending, Accepted, Settles
<1>2. PropInv(prop')
  BY <1>1, Settled
<1>3. \A q \in Proposals : prop'[q].thread = prop[q].thread
  BY <1>1, Settled
<1>4. \A q \in Proposals \ {p} : prop'[q] = prop[q]
  BY <1>1, Settled
<1>5. \A q \in Proposals : prop[q].status # "none" => prop'[q].status # "none"
  BY <1>1, Settled
<1>6. Asked(db', prop', call'.decide)
  <2>1. CASE call'.decide = Idle
    BY <2>1 DEF Asked
  <2>2. CASE call'.decide = call.decide
    <3>1. Asked(db, prop, call.decide)
      BY DEF IInv
    <3>2. Asked(db', prop', call.decide)
      BY <1>3, <1>5, <3>1, AskedStays
    <3> QED BY <2>2, <3>2
  <2> QED BY <2>1, <2>2
<1>7. IInv'
  BY <1>2, <1>6 DEF IInv, UserInv
<1>8. AllKeep(prop, prop', db, db')
  <2>1. ASSUME NEW q \in Proposals, q # p PROVE Keeps(prop, prop', db, db', q)
    <3>1. prop'[q] = prop[q]
      BY <1>4, <2>1
    <3> QED BY <3>1 DEF Keeps
  <2> QED BY <2>1 DEF AllKeep
<1> QED BY <1>7, <1>8

LEMMA AskDecideKeeps ==
  ASSUME IInv, NEW p \in Proposals, Pending(p),
         NEW m, m \in {prop[p].payload} \cup SingleMutations(db, {prop[p].payload.other}),
         prop[p].payload.kind[1] \notin {"graph", "record"}, AskDecide(p, m)
  PROVE  IInv' /\ AllKeep(prop, prop', db, db')
<1> DEFINE card == prop[p].payload
<1>1. Parked(prop[p]) /\ prop[p].status = "pending"
  BY DEF IInv, PropInv, Pending
<1>2. Payload(card)
  BY <1>1 DEF Parked
<1> HIDE DEF card
<1>3. Shaped(card)
  BY <1>2, KindOf DEF card
<1>4. {card.other} \in SUBSET Nat
  BY <1>3 DEF Shaped, MutationShape
<1>5. Shaped(m)
  <2>1. CASE m \in SingleMutations(db, {card.other})
    BY <1>4, <2>1, SinglesShaped DEF IInv
  <2>2. CASE m = card
    BY <1>3, <2>2
  <2> QED BY <2>1, <2>2 DEF card
<1> DEFINE asked == [kind |-> "decide", of |-> p, what |-> m]
<1>6. /\ SameThreadGuard(db, prop[p].thread, m)
      /\ call' = [call EXCEPT !.decide = asked] /\ db' = db /\ prop' = prop
  BY DEF AskDecide
<1>7. OwnTarget(db, prop[p].thread, m)
  BY <1>6 DEF OwnTarget, SameThreadGuard, JournalEntryTargetIsValid, EntityIsType
<1>8. asked.of = p /\ asked.what = m
  OBVIOUS
<1> HIDE DEF asked
<1>9. call' = [user |-> call.user, decide |-> asked]
  BY <1>6 DEF IInv, CallForm
<1>10. CallForm(call') /\ call'.user = call.user /\ call'.decide = asked
  BY <1>9 DEF CallForm
<1>11. Asked(db, prop, asked)
  BY <1>1, <1>5, <1>7, <1>8 DEF Asked
<1>12. IInv'
  BY <1>6, <1>10, <1>11 DEF IInv
<1> QED BY <1>6, <1>12, NothingSettled

LEMMA ApplyDecideKeeps ==
  ASSUME IInv, ApplyDecide
  PROVE  IInv' /\ AllKeep(prop, prop', db, db')
<1> DEFINE p == call.decide.of
           m == call.decide.what
           thread == prop[p].thread
           d2 == ApplyEntityMutation(db, m, thread, p)
<1>1. /\ call.decide # Idle /\ call' = [call EXCEPT !.decide = Idle]
      /\ IF Pending(p) /\ Commits(db, m)
           THEN db' = d2 /\ Accepted(p, Answer(db, m))
           ELSE db' = db /\ prop' = prop
  BY DEF ApplyDecide, Write
<1>2. p \in Proposals /\ Shaped(m) /\ prop[p].status # "none" /\ OwnTarget(db, thread, m)
  BY <1>1 DEF IInv, Asked
<1>3. call' = [user |-> call.user, decide |-> Idle]
  BY <1>1 DEF IInv, CallForm
<1>4. CallForm(call') /\ call'.user = call.user /\ call'.decide = Idle
  BY <1>3 DEF CallForm
<1>5. CASE Pending(p) /\ Commits(db, m)
  <2>1. thread \in Threads
    BY <1>2 DEF IInv, PropInv, Parked
  <2>2. Good(db)
    BY DEF IInv
  <2> HIDE DEF p, m, thread
  <2>3. db' = d2
    BY <1>1, <1>5
  <2> HIDE DEF d2
  <2>4. thread \in Threads \cup {NoThread} /\ p \in Proposals \cup {User}
        /\ d2 = ApplyEntityMutation(db, m, thread, p)
    BY <1>2, <2>1 DEF d2
  <2>5. Good(d2) /\ Grows(db, d2)
    BY <1>2, <1>5, <2>2, <2>4, MutationApplied
  <2>6. \A e \in Live(db, "journal_entry") : OwnEntry(m, e) \/ Untouched(db, d2, e)
    BY <1>2, <1>5, <2>2, <2>4, MutationApplied
  <2>7. ASSUME NEW e \in Live(db, "journal_entry"), db.ent[e].origin # thread
        PROVE  ~OwnEntry(m, e)
    <3>1. db.ent[e] # Gone
      BY DEF Live, EntityIsType, Gone
    <3> QED BY <1>2, <2>7, <3>1 DEF OwnEntry, OwnTarget
  <2>8. Keeps(prop, prop', db, db', p)
    BY <2>3, <2>6, <2>7 DEF Keeps, thread
  <2>9. Pending(p) /\ Accepted(p, Answer(db, m))
    BY <1>1, <1>5
  <2> QED BY <1>2, <1>4, <2>3, <2>5, <2>8, <2>9, AcceptKeeps
<1>6. CASE ~(Pending(p) /\ Commits(db, m))
  <2>1. db' = db /\ prop' = prop
    BY <1>1, <1>6
  <2>2. IInv'
    BY <1>4, <2>1 DEF IInv, Asked, UserInv
  <2> QED BY <2>1, <2>2, NothingSettled
<1> QED BY <1>5, <1>6

LEMMA DecideGraphKeeps ==
  ASSUME IInv, NEW p \in Proposals, prop[p].payload.kind[1] = "graph",
         NEW decisions \in Decisions(db, prop[p].payload), DecideGraph(p, decisions)
  PROVE  IInv' /\ AllKeep(prop, prop', db, db')
<1> DEFINE g == prop[p].payload
           thread == prop[p].thread
           d2 == ApplyIntentGraph(db, g, decisions, thread, p)
<1>1. /\ Pending(p) /\ call' = call
      /\ IF RejectsAll(g, decisions)
           THEN prop' = [prop EXCEPT ![p].status = "rejected"] /\ db' = db
           ELSE /\ GraphCommits(db, g, decisions, thread) /\ db' = d2
                /\ Accepted(p, GraphAnchor(db, g, decisions))
  BY DEF DecideGraph, Write
<1>2. CASE RejectsAll(g, decisions)
  BY <1>1, <1>2, RejectKeeps
<1>3. CASE ~RejectsAll(g, decisions)
  <2>1. Parked(prop[p]) /\ prop[p].status = "pending"
    BY <1>1 DEF IInv, PropInv, Pending
  <2>2. thread \in Threads /\ Payload(g)
    BY <2>1 DEF Parked
  <2>3. decisions \in Decisions(db, g) /\ g.kind[1] = "graph"
    OBVIOUS
  <2> HIDE DEF g
  <2>4. GraphShaped(g)
    BY <2>2, <2>3, KindOf
  <2>5. DecisionShaped(g, decisions) /\ Good(db)
    BY <2>3, DecisionsShaped DEF IInv
  <2>6. GraphCommits(db, g, decisions, thread) /\ db' = d2
        /\ Accepted(p, GraphAnchor(db, g, decisions))
    BY <1>1, <1>3
  <2> HIDE DEF thread
  <2>7. Good(d2) /\ Grows(db, d2)
    BY <2>2, <2>4, <2>5, <2>6, GraphApplied
  <2>8. \A e \in Live(db, "journal_entry") : db.ent[e].origin # thread => d2.ent[e] = db.ent[e]
    BY <2>2, <2>4, <2>5, <2>6, GraphApplied
  <2> HIDE DEF d2
  <2>9. Keeps(prop, prop', db, db', p)
    <3>1. ASSUME NEW e \in Live(db, "journal_entry"), db.ent[e].origin # thread
          PROVE  Untouched(db, d2, e)
      <4>1. Ids(db) \subseteq Ids(d2) /\ d2.ent[e] = db.ent[e]
        BY <2>7, <2>8, <3>1 DEF Grows
      <4> QED BY <4>1, SameIsUntouched
    <3> QED BY <2>6, <3>1 DEF Keeps, thread
  <2>10. CallForm(call') /\ call'.user = call.user /\ call'.decide \in {call.decide, Idle}
    BY <1>1 DEF IInv
  <2> QED BY <1>1, <2>6, <2>7, <2>9, <2>10, AcceptKeeps
<1> QED BY <1>2, <1>3

LEMMA DecideObservationsKeeps ==
  ASSUME IInv, NEW p \in Proposals, prop[p].payload.kind[1] = "record", DecideObservations(p)
  PROVE  IInv' /\ AllKeep(prop, prop', db, db')
<1> DEFINE batch == prop[p].payload
<1>1. /\ Pending(p) /\ BatchCommits(db, batch) /\ db' = InsertObservations(db, batch)
      /\ Accepted(p, 0) /\ call' = call
  BY DEF DecideObservations, Write
<1>2. Payload(batch) /\ batch.kind[1] = "record"
  BY <1>1 DEF IInv, PropInv, Pending, Parked
<1> HIDE DEF batch
<1>3. batch \in BatchShape /\ Good(db)
  BY <1>2, KindOf DEF IInv
<1>4. Good(db') /\ Grows(db, db') /\ db'.ent = db.ent
  BY <1>1, <1>3, BatchRecorded
<1>5. Keeps(prop, prop', db, db', p)
  BY <1>4, SameRowsKept
<1>6. CallForm(call') /\ call'.user = call.user /\ call'.decide \in {call.decide, Idle}
  BY <1>1 DEF IInv
<1> QED BY <1>1, <1>4, <1>5, <1>6, AcceptKeeps

LEMMA ApplyOrRejectKeeps ==
  ASSUME IInv, NEW p \in Proposals, ApplyOrReject(p)
  PROVE  IInv' /\ AllKeep(prop, prop', db, db')
<1> DEFINE card == prop[p].payload
<1>1. Pending(p)
  BY DEF ApplyOrReject
<1>2. CASE Reject(p)
  BY <1>1, <1>2, RejectKeeps DEF Reject
<1>3. CASE /\ card.kind[1] \notin {"graph", "record"}
           /\ \E m \in {card} \cup SingleMutations(db, {card.other}) : AskDecide(p, m)
  BY <1>1, <1>3, AskDecideKeeps
<1>4. CASE card.kind[1] = "graph" /\ \E decisions \in Decisions(db, card) : DecideGraph(p, decisions)
  BY <1>4, DecideGraphKeeps
<1>5. CASE card.kind[1] = "record" /\ DecideObservations(p)
  BY <1>5, DecideObservationsKeeps
<1> QED BY <1>2, <1>3, <1>4, <1>5 DEF ApplyOrReject

LEMMA NextKeeps ==
  ASSUME IInv, [Next]_vars
  PROVE  IInv' /\ AllKeep(prop, prop', db, db')
<1>1. CASE \E m \in SingleMutations(db, {0}) : AskMutate(m)
  BY <1>1, AskMutateKeeps
<1>2. CASE ApplyMutate
  BY <1>2, ApplyMutateKeeps
<1>3. CASE \E batch \in Batches(db) : RecordObservations(batch)
  BY <1>3, RecordObservationsKeeps
<1>4. CASE \E o \in DOMAIN db.obs, habit \in Ids(db) \cup {0} : UpdateObservation(o, habit)
  BY <1>4, UpdateObservationKeeps
<1>5. CASE \E p \in Proposals, thread \in Threads, card \in AgentPayloads(db) : Park(p, thread, card)
  BY <1>5, ParkKeeps
<1>6. CASE \E p \in Proposals : ApplyOrReject(p)
  BY <1>6, ApplyOrRejectKeeps
<1>7. CASE ApplyDecide
  BY <1>7, ApplyDecideKeeps
<1>8. CASE UNCHANGED vars
  <2>1. IInv'
    BY <1>8 DEF vars, IInv
  <2>2. AllKeep(prop, prop', db, db')
    BY <1>8, NothingSettled DEF vars
  <2> QED BY <2>1, <2>2
<1> QED BY <1>1, <1>2, <1>3, <1>4, <1>5, <1>6, <1>7, <1>8 DEF Next

(***************************************************************************)
(* Whatever the user, the agent and a late decide ask for, in any order,   *)
(* the tables stay good and every parked Proposal and open request stays   *)
(* what it was checked to be (decide.rs, db/apply.rs, db/intent_graph.rs,  *)
(* observations.rs).                                                       *)
(***************************************************************************)
THEOREM Invariant == SpecWorkspace => []IInv
<1>1. Init => IInv
  BY InitGood
<1>2. IInv /\ [Next]_vars => IInv'
  BY NextKeeps
<1> QED BY <1>1, <1>2, PTL DEF SpecWorkspace

(***************************************************************************)
(* Every chip of an entry resolves to a row of that entry, every row to    *)
(* Entities that are there, and every check-in to Habits that are there.   *)
(***************************************************************************)
THEOREM ReferencesHold == SpecWorkspace => []ReferencesResolve
<1>1. IInv => ReferencesResolve
  <2> SUFFICES ASSUME IInv PROVE ReferencesResolve
    OBVIOUS
  <2>1. Consistent(db)
    BY ConsistentIs DEF IInv, Good
  <2>2. Tables(db)
    BY <2>1 DEF Consistent
  <2>3. \A p \in Proposals : prop[p].status \in {"none", "pending", "accepted", "rejected"}
    BY DEF IInv, PropInv, Parked
  <2> QED BY <2>1, <2>2, <2>3 DEF ReferencesResolve, TypeOK
<1> QED BY <1>1, Invariant, PTL

(***************************************************************************)
(* A Proposal the user accepts changes no entry of another Thread, and     *)
(* none of the Library, but to turn chips of a person it deletes to text.  *)
(***************************************************************************)
THEOREM OwnEntriesOnly == SpecWorkspace => AgentTouchesOwnEntries
<1> DEFINE Step ==
      \A p \in Proposals :
          Pending(p) /\ prop'[p].status = "accepted" =>
            \A e \in Live(db, "journal_entry") :
              db.ent[e].origin # prop[p].thread =>
                /\ EntityIsType(db', e, "journal_entry")
                /\ Len(db'.ent[e].body) = Len(db.ent[e].body)
                /\ \A i \in DOMAIN db.ent[e].body :
                      \/ db'.ent[e].body[i] = db.ent[e].body[i]
                      \/ /\ db.ent[e].body[i][1] = "chip"
                         /\ db'.ent[db.ent[e].body[i][3]] = Gone
<1>1. IInv /\ [Next]_vars => Step
  <2> SUFFICES ASSUME IInv, [Next]_vars PROVE Step
    OBVIOUS
  <2>1. AllKeep(prop, prop', db, db')
    BY NextKeeps
  <2> QED BY <2>1 DEF AllKeep, Keeps, Pending, Untouched
<1>2. AgentTouchesOwnEntries <=> [][Step]_vars
  BY DEF AgentTouchesOwnEntries
<1> HIDE DEF Step
<1> QED BY <1>1, <1>2, Invariant, PTL DEF SpecWorkspace

\* Accepting a graph whose names nobody edited mints no second person.
LEMMA GraphReuses ==
  ASSUME IInv, NEW p \in Proposals, Pending(p), prop[p].payload.kind[1] = "graph",
         prop'[p].status = "accepted",
         NEW new \in Live(db', "person") \ Ids(db), NEW old \in Live(db, "person"),
         db'.ent[new].name = db.ent[old].name,
         NEW decisions \in Decisions(db, prop[p].payload), DecideGraph(p, decisions)
  PROVE  \E k \in DOMAIN decisions.nodes : decisions.nodes[k][1] = "edit"
<1> DEFINE g == prop[p].payload
           thread == prop[p].thread
           plan == GraphPlan(db, g, decisions)
           d2 == ApplyIntentGraph(db, g, decisions, thread, p)
<1>1. Parked(prop[p]) /\ prop[p].status = "pending" /\ PropInv(prop) /\ Good(db)
  BY DEF IInv, PropInv, Pending
<1>2. thread \in Threads /\ Payload(g) /\ g.kind[1] = "graph"
  BY <1>1 DEF Parked
<1>3. GraphShaped(g)
  BY <1>2, KindOf
<1>4. DecisionShaped(g, decisions) /\ DOMAIN decisions.nodes = DOMAIN g.nodes
  BY <1>1, DecisionsShaped DEF Decisions
<1>5. ~RejectsAll(g, decisions)
  <2> SUFFICES ASSUME RejectsAll(g, decisions) PROVE FALSE
    OBVIOUS
  <2>1. Settles(prop, prop', p, "rejected")
    BY DEF DecideGraph, Settles
  <2>2. prop'[p].status = "rejected"
    BY <1>1, <2>1, Settled
  <2> QED BY <2>2
<1>6. GraphCommits(db, g, decisions, thread) /\ db' = d2
  BY <1>5 DEF DecideGraph, Write
<1> HIDE DEF thread
<1>7. PICK k \in DOMAIN g.nodes : plan[k].op = "create" /\ d2.ent[new].name = plan[k].name
  <2>1. new \in Live(d2, "person") \ Ids(db)
    BY <1>6
  <2> HIDE DEF g
  <2>2. \A e \in Live(d2, "person") \ Ids(db) : \E k \in DOMAIN g.nodes :
           plan[k].op = "create" /\ d2.ent[e].name = plan[k].name
    BY <1>1, <1>2, <1>3, <1>4, <1>6, GraphApplied
  <2> QED BY <2>1, <2>2
<1> HIDE DEF g
<1>8. plan[k].op = "create" /\ decisions.nodes[k][1] # "edit" =>
            plan[k].name = g.nodes[k].name /\ ExactLabelMatches(db, g.nodes[k].name) = {}
  <2> DEFINE node == g.nodes[k]
             decision == decisions.nodes[k]
  <2>1. node \in Mention
    BY <1>3 DEF GraphShaped
  <2>2. \/ decision[1] \in {"accept", "reject"}
        \/ decision[1] = "override" /\ decision[2] \in Nat
        \/ decision[1] = "edit" /\ decision[2] \in Names
    BY <1>4 DEF DecisionShaped
  <2>3. plan[k] = ResolveNode(db, node, decision)
    BY DEF GraphPlan
  <2> DEFINE step == ResolveNode(db, node, decision)
  <2> HIDE DEF node, decision, plan
  <2>4. step.op = "create" /\ decision[1] # "edit" =>
           step.name = node.name /\ ExactLabelMatches(db, node.name) = {}
    BY <2>1, <2>2, Resolved
  <2> QED BY <2>3, <2>4 DEF node, decision
<1>9. SUFFICES ASSUME decisions.nodes[k][1] # "edit" PROVE FALSE
  BY <1>4 DEF g
<1>10. db.ent[old].name = g.nodes[k].name /\ ExactLabelMatches(db, g.nodes[k].name) = {}
  BY <1>6, <1>7, <1>8, <1>9
<1> QED BY <1>10 DEF ExactLabelMatches

(***************************************************************************)
(* A capture accepted with its names as they were proposed never mints a   *)
(* second person of a name that is there.                                  *)
(***************************************************************************)
THEOREM CapturesReuse == SpecWorkspace => CaptureReuses
<1> DEFINE Step ==
      \A p \in {q \in Proposals : Pending(q) /\ prop[q].payload.kind[1] = "graph"} :
          /\ prop'[p].status = "accepted"
          /\ \E new \in Live(db', "person") \ Ids(db), old \in Live(db, "person") :
                db'.ent[new].name = db.ent[old].name
          => (\A decisions \in Decisions(db, prop[p].payload) :
                DecideGraph(p, decisions) =>
                    \E k \in DOMAIN decisions.nodes : decisions.nodes[k][1] = "edit")
<1>1. IInv => Step
  BY GraphReuses
<1>2. CaptureReuses <=> [][Step]_vars
  BY DEF CaptureReuses
<1> HIDE DEF Step
<1> QED BY <1>1, <1>2, Invariant, PTL DEF SpecWorkspace

(***************************************************************************)
(* The calendar in years that begin on a first of March: the leap day is   *)
(* the last day of such a year.  Day 0 here is 0000-03-01.                 *)
(***************************************************************************)
YearStart(n) == 365 * n + n \div 4 - n \div 100 + n \div 400
YearLength(n) == IF IsLeapYear(n + 1) THEN 366 ELSE 365
IsDay(z, n, u) == n \in Int /\ u \in Nat /\ u < YearLength(n) /\ z = YearStart(n) + u

InEra(z, e, doe) == doe < 146097 /\ z = 146097 * e + doe

LEMMA EraOf ==
    ASSUME NEW z \in Int, NEW e \in Int, NEW doe \in Nat, InEra(z, e, doe)
    PROVE  Quotient(IF z >= 0 THEN z ELSE z - 146096, 146097) = e
<1>0. doe < 146097 /\ z = 146097 * e + doe
  BY DEF InEra
<1>1. CASE z >= 0
  <2>1. z \div 146097 = e
    BY <1>0, <1>1
  <2>. QED  BY <1>1, <2>1 DEF Quotient
<1>2. CASE ~(z >= 0)
  <2>1. PICK a \in Int : a = z - 146096
    OBVIOUS
  <2>2. PICK b \in Int : b = -a
    BY <2>1
  <2>3. b = 146097 * (-e) + (146096 - doe)
    BY <1>0, <2>1, <2>2
  <2>4. b \div 146097 = -e
    BY <1>0, <2>3
  <2>5. ~(a >= 0)
    BY <1>2, <2>1
  <2>6. Quotient(a, 146097) = -((-a) \div 146097)
    BY <2>5 DEF Quotient
  <2>7. Quotient(a, 146097) = e
    BY <2>2, <2>4, <2>6
  <2>8. (IF z >= 0 THEN z ELSE z - 146096) = a
    BY <1>2, <2>1
  <2>. QED  BY ONLY <2>7, <2>8
<1>. QED  BY <1>1, <1>2

\* The day of an era in the digits of the calendar: centuries, groups of four
\* years, years, days.
Digits(doe, c, p, t, u) ==
    /\ c < 4 /\ p < 25 /\ t < 4 /\ u < 366
    /\ doe = 36524 * c + 1461 * p + 365 * t + u
    /\ u = 365 => t = 3 /\ (p = 24 => c = 3)

LEMMA DigitsOfEra ==
    ASSUME NEW doe \in Nat, doe < 146097
    PROVE  \E c \in Nat, p \in Nat, t \in Nat, u \in Nat : Digits(doe, c, p, t, u)
<1>1. PICK c \in Nat, r \in Nat : c < 4 /\ r < 36525 /\ doe = 36524 * c + r /\ (r = 36524 => c = 3)
  <2>1. CASE doe = 146096
    BY <2>1
  <2>2. CASE doe # 146096
    <3>1. PICK c \in Int : c = doe \div 36524
      OBVIOUS
    <3>2. PICK r \in Int : r = doe - 36524 * c
      BY <3>1
    <3>3. c \in Nat /\ c < 4 /\ r \in Nat /\ r < 36524
      BY <3>1, <3>2, <2>2
    <3>. QED  BY <3>2, <3>3
  <2>. QED  BY <2>1, <2>2
<1>2. PICK p \in Nat, s \in Nat : p < 25 /\ s < 1461 /\ r = 1461 * p + s
  <2>1. PICK p \in Int : p = r \div 1461
    OBVIOUS
  <2>2. PICK s \in Int : s = r - 1461 * p
    BY <2>1
  <2>3. p \in Nat /\ p < 25 /\ s \in Nat /\ s < 1461
    BY <1>1, <2>1, <2>2
  <2>. QED  BY <2>2, <2>3
<1>3. PICK t \in Nat, u \in Nat : t < 4 /\ u < 366 /\ s = 365 * t + u /\ (u = 365 => t = 3)
  <2>1. CASE s = 1460
    BY <2>1
  <2>2. CASE s # 1460
    <3>1. PICK t \in Int : t = s \div 365
      OBVIOUS
    <3>2. PICK u \in Int : u = s - 365 * t
      BY <3>1
    <3>3. t \in Nat /\ t < 4 /\ u \in Nat /\ u < 365
      BY <1>2, <3>1, <3>2, <2>2
    <3>. QED  BY <3>2, <3>3
  <2>. QED  BY <2>1, <2>2
<1>4. doe = 36524 * c + 1461 * p + 365 * t + u
  BY <1>1, <1>2, <1>3
<1>5. u = 365 => t = 3 /\ (p = 24 => c = 3)
  BY <1>1, <1>2, <1>3
<1>6. Digits(doe, c, p, t, u)
  BY <1>1, <1>2, <1>3, <1>4, <1>5 DEF Digits
<1>. QED  BY <1>6

\* What civil_from_days makes of them.
LEMMA DigitsFound ==
    ASSUME NEW c \in Nat, NEW p \in Nat, NEW t \in Nat, NEW u \in Nat, NEW doe \in Nat,
           doe < 146097, Digits(doe, c, p, t, u)
    PROVE  YearOfEra(doe) = 100 * c + 4 * p + t /\ DayOfYear(doe) = u
<1>0. /\ c < 4 /\ p < 25 /\ t < 4 /\ u < 366
      /\ doe = 36524 * c + 1461 * p + 365 * t + u
      /\ u = 365 => t = 3 /\ (p = 24 => c = 3)
  BY DEF Digits
<1>1. PICK i \in Int : i = doe \div 36524
  OBVIOUS
<1>2. PICK j \in Int : j = doe \div 146096
  OBVIOUS
<1>3. i - j = c
  <2>1. 36524 * i <= doe /\ doe < 36524 * i + 36524
    BY <1>1
  <2>2. 146096 * j <= doe /\ doe < 146096 * j + 146096
    BY <1>2
  <2>. QED  BY <1>0, <2>1, <2>2
<1>4. PICK f \in Nat : f < 2 /\ (f = 1 <=> 24 * c + p + 365 * t + u >= 1460)
  <2>1. CASE 24 * c + p + 365 * t + u >= 1460
    BY <2>1
  <2>2. CASE ~(24 * c + p + 365 * t + u >= 1460)
    BY <2>2
  <2>. QED  BY <2>1, <2>2
<1>5. PICK k \in Int : k = doe \div 1460
  OBVIOUS
<1>6. k = 25 * c + p + f
  <2>1. 1460 * k <= doe /\ doe < 1460 * k + 1460
    BY <1>5
  <2>. QED  BY <1>0, <2>1, <1>4
<1>7. PICK m \in Int : m = doe - k + i - j
  OBVIOUS
<1>8. m = 365 * (100 * c + 4 * p + t) + (u - f)
  BY <1>0, <1>3, <1>6, <1>7
<1>9. u - f \in Nat /\ u - f < 365
  BY <1>0, <1>4
<1>10. PICK n \in Int : n = 100 * c + 4 * p + t
  OBVIOUS
<1>11. m \div 365 = n
  <2>1. PICK v \in Nat : v = u - f /\ v < 365
    BY <1>9
  <2>2. m = 365 * n + v
    BY <1>8, <1>10, <2>1
  <2>. QED  BY <2>1, <2>2
<1>12. YearOfEra(doe) = n
  BY <1>1, <1>2, <1>5, <1>7, <1>11 DEF YearOfEra
<1>13. n \div 4 = 25 * c + p
  BY <1>0, <1>10
<1>14. n \div 100 = c
  BY <1>0, <1>10
<1>15. doe - (365 * n + (25 * c + p) - c) = u
  BY <1>0, <1>10
<1>16. YearOfEra(doe) = 100 * c + 4 * p + t
  BY <1>10, <1>12
<1>17. DayOfYear(doe) = u
  BY ONLY <1>12, <1>13, <1>14, <1>15 DEF DayOfYear
<1>. QED  BY ONLY <1>16, <1>17

YearAt(n, e, c, p, t) ==
    c < 4 /\ p < 25 /\ t < 4 /\ n = 400 * e + 100 * c + 4 * p + t

LEMMA StartOf ==
    ASSUME NEW e \in Int, NEW c \in Nat, NEW p \in Nat, NEW t \in Nat, NEW n \in Int,
           YearAt(n, e, c, p, t)
    PROVE  YearStart(n) = 146097 * e + 36524 * c + 1461 * p + 365 * t
<1>0. c < 4 /\ p < 25 /\ t < 4 /\ n = 400 * e + 100 * c + 4 * p + t
  BY DEF YearAt
<1>1. n \div 4 = 100 * e + 25 * c + p
  BY <1>0
<1>2. n \div 100 = 4 * e + c
  BY <1>0
<1>3. n \div 400 = e
  BY <1>0
<1>. QED  BY <1>0, <1>1, <1>2, <1>3 DEF YearStart

LEMMA LengthOf ==
    ASSUME NEW e \in Int, NEW c \in Nat, NEW p \in Nat, NEW t \in Nat, NEW n \in Int,
           YearAt(n, e, c, p, t), t = 3, p = 24 => c = 3
    PROVE  YearLength(n) = 366
<1>0. c < 4 /\ p < 25 /\ t < 4 /\ n = 400 * e + 100 * c + 4 * p + t
  BY DEF YearAt
<1>1. (n + 1) % 4 = 0
  BY <1>0
<1>2. (n + 1) % 100 = 0 => (n + 1) % 400 = 0
  <2>1. CASE p = 24
    BY <1>0, <2>1
  <2>2. CASE p # 24
    <3>1. PICK q \in Int : q = 4 * e + c
      OBVIOUS
    <3>2. PICK r \in Nat : r = 4 * p + 4 /\ r > 0 /\ r < 100
      BY <1>0, <2>2
    <3>3. n + 1 = 100 * q + r
      BY <1>0, <3>1, <3>2
    <3>. QED  BY <3>2, <3>3
  <2>. QED  BY <2>1, <2>2
<1>. QED  BY <1>1, <1>2 DEF YearLength, IsLeapYear

\* Every day number is a day of some year, and civil_from_days finds it.
DayAt(day0, n, u) ==
    /\ IsDay(day0 + 719468, n, u)
    /\ CivilFromDays(day0) = CivilDate(n, u)

LEMMA CivilIsDay == ASSUME NEW day0 \in Int PROVE \E n \in Int, u \in Nat : DayAt(day0, n, u)
<1>1. PICK z \in Int : z = day0 + 719468
  OBVIOUS
<1>2. PICK e \in Int : e = z \div 146097
  OBVIOUS
<1>3. PICK doe \in Int : doe = z - e * 146097
  OBVIOUS
<1>4. doe \in Nat /\ doe < 146097 /\ z = 146097 * e + doe
  BY <1>2, <1>3
<1>5. Quotient(IF z >= 0 THEN z ELSE z - 146096, 146097) = e
  <2>1. InEra(z, e, doe)
    BY <1>4 DEF InEra
  <2>. QED  BY <1>4, <2>1, EraOf
<1>6. PICK c \in Nat, p \in Nat, t \in Nat, u \in Nat : Digits(doe, c, p, t, u)
  BY <1>4, DigitsOfEra
<1>0. /\ c < 4 /\ p < 25 /\ t < 4 /\ u < 366
      /\ doe = 36524 * c + 1461 * p + 365 * t + u
      /\ u = 365 => t = 3 /\ (p = 24 => c = 3)
  BY <1>6 DEF Digits
<1>7. YearOfEra(doe) = 100 * c + 4 * p + t
  BY <1>4, <1>6, DigitsFound
<1>8. DayOfYear(doe) = u
  BY <1>4, <1>6, DigitsFound
<1>9. PICK n \in Int : n = 400 * e + 100 * c + 4 * p + t
  OBVIOUS
<1>15. YearAt(n, e, c, p, t)
  BY <1>0, <1>9 DEF YearAt
<1>10. YearOfEra(doe) + e * 400 = n
  BY <1>7, <1>9
<1>11. z = YearStart(n) + u
  <2>1. YearStart(n) = 146097 * e + 36524 * c + 1461 * p + 365 * t
    BY <1>15, StartOf
  <2>2. PICK y \in Int : y = YearStart(n)
    BY <2>1
  <2>3. z = y + u
    BY <1>4, <1>0, <2>1, <2>2
  <2>. QED  BY ONLY <2>2, <2>3
<1>12. u < YearLength(n)
  <2>1. CASE u = 365
    <3>1. t = 3 /\ (p = 24 => c = 3)
      BY <1>0, <2>1
    <3>2. YearLength(n) = 366
      BY <1>15, <3>1, LengthOf
    <3>. QED  BY <2>1, <3>2
  <2>2. CASE u # 365
    BY <1>0, <2>2 DEF YearLength
  <2>. QED  BY <2>1, <2>2
<1>13. CivilFromDays(day0) = CivilDate(n, u)
  <2>1. CivilFromDays(day0) = CivilDate(YearOfEra(doe) + e * 400, DayOfYear(doe))
    BY ONLY <1>1, <1>5, <1>3 DEF CivilFromDays
  <2>. QED  BY ONLY <1>8, <1>10, <2>1
<1>14. IsDay(day0 + 719468, n, u)
  BY <1>1, <1>11, <1>12 DEF IsDay
<1>. QED  BY <1>13, <1>14 DEF DayAt

LEMMA StartNext == ASSUME NEW n \in Int PROVE YearStart(n + 1) = YearStart(n) + YearLength(n)
<1>1. (n + 1) \div 4 = n \div 4 + (IF (n + 1) % 4 = 0 THEN 1 ELSE 0)
  OBVIOUS
<1>2. (n + 1) \div 100 = n \div 100 + (IF (n + 1) % 100 = 0 THEN 1 ELSE 0)
  OBVIOUS
<1>3. (n + 1) \div 400 = n \div 400 + (IF (n + 1) % 400 = 0 THEN 1 ELSE 0)
  OBVIOUS
<1>4. (n + 1) % 400 = 0 => (n + 1) % 100 = 0
  OBVIOUS
<1>5. (n + 1) % 100 = 0 => (n + 1) % 4 = 0
  OBVIOUS
<1>. QED  BY <1>1, <1>2, <1>3, <1>4, <1>5 DEF YearStart, YearLength, IsLeapYear

LEMMA StartGrows ==
    ASSUME NEW n \in Int, NEW m \in Int, n < m
    PROVE  YearStart(n) + YearLength(n) <= YearStart(m)
<1>1. PICK k \in Int : k = n + 1 /\ k <= m
  OBVIOUS
<1>2. YearStart(k) <= YearStart(m)
  <2>1. k \div 4 <= m \div 4
    BY <1>1
  <2>2. k \div 400 <= m \div 400
    BY <1>1
  <2>3. m \div 100 - k \div 100 <= m - k
    BY <1>1
  <2>4. k \div 4 \in Int /\ m \div 4 \in Int /\ k \div 100 \in Int /\ m \div 100 \in Int
        /\ k \div 400 \in Int /\ m \div 400 \in Int
    OBVIOUS
  <2>. QED  BY <1>1, <2>1, <2>2, <2>3, <2>4 DEF YearStart
<1>. QED  BY <1>1, <1>2, StartNext

LEMMA StartInt == ASSUME NEW n \in Int PROVE YearStart(n) \in Int /\ YearLength(n) \in {365, 366}
BY DEF YearStart, YearLength

\* A day number is one day only.
LEMMA DayIsOne ==
    ASSUME NEW z \in Int, NEW n, NEW u, NEW m, NEW v, IsDay(z, n, u), IsDay(z, m, v)
    PROVE  n = m /\ u = v
<1>1. n \in Int /\ m \in Int /\ u \in Nat /\ v \in Nat
      /\ u < YearLength(n) /\ v < YearLength(m) /\ z = YearStart(n) + u /\ z = YearStart(m) + v
  BY DEF IsDay
<1>2. YearStart(n) \in Int /\ YearStart(m) \in Int /\ YearLength(n) \in {365, 366} /\ YearLength(m) \in {365, 366}
  BY <1>1, StartInt
<1>3. ~(n < m)
  BY <1>1, <1>2, StartGrows
<1>4. ~(m < n)
  BY <1>1, <1>2, StartGrows
<1>. QED  BY <1>1, <1>2, <1>3, <1>4

(***************************************************************************)
(* Months: those of such a year begin on the days DaysBefore(0), DaysBefore(1), ...*)
(***************************************************************************)
DaysBefore(mp) == (153 * mp + 2) \div 5
MonthOf(mp) == IF mp < 10 THEN mp + 3 ELSE mp - 9
YearOf(n, mp) == n + (IF mp < 10 THEN 0 ELSE 1)
InMonth(u, mp) == mp \in 0 .. 11 /\ DaysBefore(mp) <= u /\ u < DaysBefore(mp + 1)

LEMMA MonthsBegin ==
    /\ DaysBefore(0) = 0 /\ DaysBefore(1) = 31 /\ DaysBefore(2) = 61 /\ DaysBefore(3) = 92
    /\ DaysBefore(4) = 122 /\ DaysBefore(5) = 153 /\ DaysBefore(6) = 184 /\ DaysBefore(7) = 214
    /\ DaysBefore(8) = 245 /\ DaysBefore(9) = 275 /\ DaysBefore(10) = 306 /\ DaysBefore(11) = 337
    /\ DaysBefore(12) = 367
BY DEF DaysBefore

LEMMA MonthFound ==
    ASSUME NEW u \in Nat, NEW mp, InMonth(u, mp) PROVE (5 * u + 2) \div 153 = mp
<1>1. mp \in 0 .. 11 /\ DaysBefore(mp) <= u /\ u < DaysBefore(mp + 1)
  BY DEF InMonth
<1>0. \/ mp = 0 \/ mp = 1 \/ mp = 2 \/ mp = 3 \/ mp = 4 \/ mp = 5
      \/ mp = 6 \/ mp = 7 \/ mp = 8 \/ mp = 9 \/ mp = 10 \/ mp = 11
  BY <1>1
<1>2. CASE mp = 0
  BY <1>1, <1>2, MonthsBegin
<1>3. CASE mp = 1
  BY <1>1, <1>3, MonthsBegin
<1>4. CASE mp = 2
  BY <1>1, <1>4, MonthsBegin
<1>5. CASE mp = 3
  BY <1>1, <1>5, MonthsBegin
<1>6. CASE mp = 4
  BY <1>1, <1>6, MonthsBegin
<1>7. CASE mp = 5
  BY <1>1, <1>7, MonthsBegin
<1>8. CASE mp = 6
  BY <1>1, <1>8, MonthsBegin
<1>9. CASE mp = 7
  BY <1>1, <1>9, MonthsBegin
<1>10. CASE mp = 8
  BY <1>1, <1>10, MonthsBegin
<1>11. CASE mp = 9
  BY <1>1, <1>11, MonthsBegin
<1>12. CASE mp = 10
  BY <1>1, <1>12, MonthsBegin
<1>13. CASE mp = 11
  BY <1>1, <1>13, MonthsBegin
<1>. QED
  BY <1>0, <1>2, <1>3, <1>4, <1>5, <1>6, <1>7, <1>8, <1>9, <1>10, <1>11, <1>12, <1>13

LEMMA MonthOfDay == ASSUME NEW u \in Nat, u < 366 PROVE \E mp \in 0 .. 11 : InMonth(u, mp)
BY MonthsBegin DEF InMonth

LEMMA DateInMonth ==
    ASSUME NEW n \in Int, NEW u \in Nat, NEW mp, InMonth(u, mp)
    PROVE  CivilDate(n, u) = <<YearOf(n, mp), MonthOf(mp), u - DaysBefore(mp) + 1>>
<1>1. (5 * u + 2) \div 153 = mp
  BY MonthFound
<1>2. mp \in 0 .. 11
  BY DEF InMonth
<1>3. (IF MonthOf(mp) <= 2 THEN 1 ELSE 0) = (IF mp < 10 THEN 0 ELSE 1)
  BY <1>2 DEF MonthOf
<1>. QED  BY <1>1, <1>3 DEF CivilDate, YearOf, MonthOf, DaysBefore

LEMMA MonthLength ==
    ASSUME NEW n \in Int, NEW mp \in 0 .. 11
    PROVE  DaysInMonth(YearOf(n, mp), MonthOf(mp)) =
              IF mp < 11 THEN DaysBefore(mp + 1) - DaysBefore(mp) ELSE YearLength(n) - 337
<1>0. \/ mp = 0 \/ mp = 1 \/ mp = 2 \/ mp = 3 \/ mp = 4 \/ mp = 5
      \/ mp = 6 \/ mp = 7 \/ mp = 8 \/ mp = 9 \/ mp = 10 \/ mp = 11
  OBVIOUS
<1>2. CASE mp = 0
  BY <1>2, MonthsBegin DEF DaysInMonth, MonthOf
<1>3. CASE mp = 1
  BY <1>3, MonthsBegin DEF DaysInMonth, MonthOf
<1>4. CASE mp = 2
  BY <1>4, MonthsBegin DEF DaysInMonth, MonthOf
<1>5. CASE mp = 3
  BY <1>5, MonthsBegin DEF DaysInMonth, MonthOf
<1>6. CASE mp = 4
  BY <1>6, MonthsBegin DEF DaysInMonth, MonthOf
<1>7. CASE mp = 5
  BY <1>7, MonthsBegin DEF DaysInMonth, MonthOf
<1>8. CASE mp = 6
  BY <1>8, MonthsBegin DEF DaysInMonth, MonthOf
<1>9. CASE mp = 7
  BY <1>9, MonthsBegin DEF DaysInMonth, MonthOf
<1>10. CASE mp = 8
  BY <1>10, MonthsBegin DEF DaysInMonth, MonthOf
<1>11. CASE mp = 9
  BY <1>11, MonthsBegin DEF DaysInMonth, MonthOf
<1>12. CASE mp = 10
  BY <1>12, MonthsBegin DEF DaysInMonth, MonthOf
<1>13. CASE mp = 11
  BY <1>13, MonthsBegin DEF DaysInMonth, MonthOf, YearOf, YearLength
<1>. QED
  BY <1>0, <1>2, <1>3, <1>4, <1>5, <1>6, <1>7, <1>8, <1>9, <1>10, <1>11, <1>12, <1>13

(***************************************************************************)
(* From one day to the next.                                               *)
(***************************************************************************)
LEMMA LengthInt == ASSUME NEW n \in Int PROVE YearLength(n) = 365 \/ YearLength(n) = 366
BY DEF YearLength

\* Within a month, and within its last one as long as the year is.
LEMMA NextInMonth ==
    ASSUME NEW n \in Int, NEW u \in Nat, NEW mp, InMonth(u, mp), InMonth(u + 1, mp),
           u + 1 < YearLength(n)
    PROVE  CivilDate(n, u + 1) = NextDate(CivilDate(n, u))
<1>1. mp \in 0 .. 11 /\ u + 1 < DaysBefore(mp + 1)
  BY DEF InMonth
<1>2. PICK b \in Nat : b = DaysBefore(mp)
  BY <1>1, MonthsBegin
<1>3. PICK y : y = YearOf(n, mp)
  OBVIOUS
<1>4. PICK m : m = MonthOf(mp)
  OBVIOUS
<1>5. CivilDate(n, u) = <<y, m, u - b + 1>>
  BY <1>2, <1>3, <1>4, DateInMonth
<1>6. CivilDate(n, u + 1) = <<y, m, u + 1 - b + 1>>
  BY <1>2, <1>3, <1>4, DateInMonth
<1>7. u - b + 1 < DaysInMonth(y, m)
  <2>1. CASE mp < 11
    <3>1. DaysInMonth(y, m) = DaysBefore(mp + 1) - b
      BY <1>1, <1>2, <1>3, <1>4, <2>1, MonthLength
    <3>2. PICK a \in Nat : a = DaysBefore(mp + 1)
      BY <1>1, MonthsBegin
    <3>. QED  BY <1>1, <3>1, <3>2
  <2>2. CASE ~(mp < 11)
    <3>1. DaysInMonth(y, m) = YearLength(n) - 337
      BY <1>1, <1>3, <1>4, <2>2, MonthLength
    <3>2. b = 337
      BY <1>1, <1>2, <2>2, MonthsBegin
    <3>. QED  BY <3>1, <3>2, LengthInt
  <2>. QED  BY <2>1, <2>2
<1>. QED  BY ONLY <1>5, <1>6, <1>7, u \in Nat, b \in Nat DEF NextDate

\* From a month to the next one of the same year from March to February.
LEMMA NextMonth ==
    ASSUME NEW n \in Int, NEW u \in Nat, NEW mp \in 0 .. 10, InMonth(u, mp),
           u + 1 = DaysBefore(mp + 1)
    PROVE  CivilDate(n, u + 1) = NextDate(CivilDate(n, u))
<1>1. InMonth(u + 1, mp + 1)
  BY MonthsBegin DEF InMonth
<1>2. PICK b \in Nat : b = DaysBefore(mp)
  BY MonthsBegin
<1>3. PICK y \in Int : y = YearOf(n, mp)
  BY DEF YearOf
<1>4. PICK m \in Int : m = MonthOf(mp)
  BY DEF MonthOf
<1>5. CivilDate(n, u) = <<y, m, u - b + 1>>
  BY <1>2, <1>3, <1>4, DateInMonth
<1>6. CivilDate(n, u + 1) = <<YearOf(n, mp + 1), MonthOf(mp + 1), 1>>
  BY <1>1, DateInMonth
<1>7. DaysInMonth(y, m) = u - b + 1
  BY <1>2, <1>3, <1>4, MonthLength
<1>8. CASE m < 12
  <2>1. YearOf(n, mp + 1) = y /\ MonthOf(mp + 1) = m + 1
    BY <1>3, <1>4, <1>8 DEF YearOf, MonthOf
  <2>. QED  BY ONLY <1>5, <1>6, <1>7, <1>8, <2>1, u \in Nat, b \in Nat DEF NextDate
<1>9. CASE ~(m < 12)
  <2>1. YearOf(n, mp + 1) = y + 1 /\ MonthOf(mp + 1) = 1
    BY <1>3, <1>4, <1>9 DEF YearOf, MonthOf
  <2>. QED  BY ONLY <1>5, <1>6, <1>7, <1>9, <2>1, u \in Nat, b \in Nat DEF NextDate
<1>. QED  BY <1>8, <1>9

\* The last day of February.
LEMMA NextYear ==
    ASSUME NEW n \in Int, NEW u \in Nat, u + 1 = YearLength(n)
    PROVE  CivilDate(n + 1, 0) = NextDate(CivilDate(n, u))
<1>1. InMonth(u, 11) /\ InMonth(0, 0)
  BY LengthInt, MonthsBegin DEF InMonth
<1>2. CivilDate(n, u) = <<n + 1, 2, u - 337 + 1>>
  BY <1>1, DateInMonth, MonthsBegin DEF YearOf, MonthOf
<1>3. CivilDate(n + 1, 0) = <<n + 1, 3, 1>>
  BY <1>1, DateInMonth, MonthsBegin DEF YearOf, MonthOf
<1>4. DaysInMonth(n + 1, 2) = u + 1 - 337
  BY MonthLength DEF YearOf, MonthOf
<1>. QED  BY ONLY <1>2, <1>3, <1>4, u \in Nat DEF NextDate

LEMMA NextDay ==
    ASSUME NEW day0 \in Int
    PROVE  CivilFromDays(day0 + 1) = NextDate(CivilFromDays(day0))
<1>0. PICK n \in Int, u \in Nat : DayAt(day0, n, u)
  BY CivilIsDay
<1>1. IsDay(day0 + 719468, n, u) /\ CivilFromDays(day0) = CivilDate(n, u)
  BY <1>0 DEF DayAt
<1>20. PICK next \in Int : next = day0 + 1
  OBVIOUS
<1>21. PICK m \in Int, v \in Nat : DayAt(next, m, v)
  BY CivilIsDay
<1>2. IsDay(day0 + 1 + 719468, m, v) /\ CivilFromDays(day0 + 1) = CivilDate(m, v)
  BY <1>20, <1>21 DEF DayAt
<1>3. PICK z \in Int : z = day0 + 719468
  OBVIOUS
<1>4. IsDay(z, n, u) /\ IsDay(z + 1, m, v)
  <2>1. day0 + 1 + 719468 = z + 1
    BY <1>3
  <2>. QED  BY <1>1, <1>2, <1>3, <2>1
<1>5. u < YearLength(n) /\ z = YearStart(n) + u
  BY <1>4 DEF IsDay
<1>6. u < 366
  BY <1>5, LengthInt
<1>7. CASE u + 1 < YearLength(n)
  <2>1. IsDay(z + 1, n, u + 1)
    BY <1>5, <1>7, StartInt DEF IsDay
  <2>2. m = n /\ v = u + 1
    BY <1>4, <2>1, DayIsOne
  <2>3. PICK mp \in 0 .. 11 : InMonth(u, mp)
    BY <1>6, MonthOfDay
  <2>4. CASE InMonth(u + 1, mp)
    BY <1>1, <1>2, <1>7, <2>2, <2>3, <2>4, NextInMonth
  <2>5. CASE ~InMonth(u + 1, mp)
    <3>1. u + 1 = DaysBefore(mp + 1)
      BY <2>3, <2>5, MonthsBegin DEF InMonth
    <3>2. mp # 11
      BY <1>7, <3>1, LengthInt, MonthsBegin
    <3>. QED  BY <1>1, <1>2, <2>2, <2>3, <3>1, <3>2, NextMonth
  <2>. QED  BY <2>4, <2>5
<1>8. CASE ~(u + 1 < YearLength(n))
  <2>1. u + 1 = YearLength(n)
    BY <1>5, <1>8, LengthInt
  <2>2. 0 < YearLength(n + 1)
    BY LengthInt
  <2>3. IsDay(z + 1, n + 1, 0)
    BY <1>5, <2>1, <2>2, StartInt, StartNext DEF IsDay
  <2>4. m = n + 1 /\ v = 0
    BY <1>4, <2>3, DayIsOne
  <2>. QED  BY <1>1, <1>2, <2>1, <2>4, NextYear
<1>. QED  BY <1>7, <1>8

(***************************************************************************)
(* civil_from_days counts as the calendar does, from the epoch on and back *)
(* from it: with 1970-01-01 for day 0, every day has the right date.       *)
(***************************************************************************)
THEOREM CalendarCounted ==
    /\ CivilFromDays(0) = <<1970, 1, 1>>
    /\ \A day0 \in Int : CivilFromDays(day0 + 1) = NextDate(CivilFromDays(day0))
<1>1. CivilFromDays(0) = <<1970, 1, 1>>
  <2>1. Quotient(719468, 146097) = 4
    BY DEF Quotient
  <2>2. YearOfEra(135080) = 369
    BY DEF YearOfEra
  <2>3. DayOfYear(135080) = 306
    BY <2>2 DEF DayOfYear
  <2>4. CivilDate(1969, 306) = <<1970, 1, 1>>
    BY DEF CivilDate
  <2>. QED  BY <2>1, <2>2, <2>3, <2>4 DEF CivilFromDays
<1>. QED  BY <1>1, NextDay

\* The dates of four-digit years can be read back.
LEMMA DateParses ==
    ASSUME NEW day0 \in Int, -719528 <= day0, day0 <= 2932896
    PROVE  ParseLocalDatetime(CivilFromDays(day0))
<1>0. PICK n \in Int, u \in Nat : DayAt(day0, n, u)
  BY CivilIsDay
<1>1. IsDay(day0 + 719468, n, u) /\ CivilFromDays(day0) = CivilDate(n, u)
  BY <1>0 DEF DayAt
<1>2. u < YearLength(n) /\ day0 + 719468 = YearStart(n) + u
  BY <1>1 DEF IsDay
<1>3. PICK s \in Int : s = YearStart(n)
  BY StartInt
<1>4. -60 <= s + u /\ s + u <= 3652364
  BY <1>2, <1>3
<1>5. YearStart(-1) = -366 /\ YearStart(9999) = 3652059 /\ YearLength(9999) = 366
  <2>1. YearStart(-1) = -366
    <3>1. PICK x \in Int : x + 1 = 0
      OBVIOUS
    <3>2. x \div 4 = x /\ x \div 100 = x /\ x \div 400 = x
      BY <3>1
    <3>3. YearStart(x) = 366 * x
      BY <3>2 DEF YearStart
    <3>4. x = -1 /\ 366 * x = -366
      BY <3>1
    <3>. QED  BY <3>3, <3>4
  <2>2. YearStart(9999) = 3652059
    BY DEF YearStart
  <2>3. IsLeapYear(9999 + 1)
    BY DEF IsLeapYear
  <2>4. YearLength(9999) = 366
    BY <2>3 DEF YearLength
  <2>. QED  BY <2>1, <2>2, <2>4
<1>6. ~(n < -1)
  <2>1. n < -1 => s + YearLength(n) <= -366
    BY <1>3, <1>5, StartGrows
  <2>. QED  BY <1>2, <1>4, <2>1, LengthInt
<1>7. ~(n > 9999)
  <2>1. n > 9999 => 3652059 + 366 <= s
    BY <1>3, <1>5, StartGrows
  <2>. QED  BY <1>4, <2>1
<1>8. n = -1 => u >= 306
  BY <1>3, <1>4, <1>5
<1>9. n = 9999 => u <= 305
  BY <1>3, <1>4, <1>5
<1>10. u < 366
  BY <1>2, LengthInt
<1>11. PICK mp \in 0 .. 11 : InMonth(u, mp)
  BY <1>10, MonthOfDay
<1>12. PICK y \in Int : y = YearOf(n, mp)
  BY DEF YearOf
<1>13. PICK m \in Int : m = MonthOf(mp)
  BY DEF MonthOf
<1>14. PICK d \in Int : d = u - DaysBefore(mp) + 1
  BY <1>11, MonthsBegin
<1>15. CivilFromDays(day0) = <<y, m, d>>
  BY <1>1, <1>11, <1>12, <1>13, <1>14, DateInMonth
<1>16. mp >= 10 <=> u >= 306
  BY <1>11, MonthsBegin DEF InMonth
<1>17. 0 <= y /\ y <= 9999
  <2>1. y = IF mp < 10 THEN n ELSE n + 1
    BY <1>12 DEF YearOf
  <2>. QED  BY <1>6, <1>7, <1>8, <1>9, <1>16, <2>1
<1>18. m \in 1 .. 12
  BY <1>13 DEF MonthOf
<1>19. 1 <= d /\ d <= DaysInMonth(y, m) /\ DaysInMonth(y, m) \in Int
  <2>1. CASE mp < 11
    <3>1. DaysInMonth(y, m) = DaysBefore(mp + 1) - DaysBefore(mp)
      BY <1>12, <1>13, <2>1, MonthLength
    <3>. QED  BY <1>11, <1>14, <2>1, <3>1, MonthsBegin DEF InMonth
  <2>2. CASE ~(mp < 11)
    <3>1. DaysInMonth(y, m) = YearLength(n) - 337
      BY <1>12, <1>13, <2>2, MonthLength
    <3>2. mp = 11
      BY <2>2
    <3>3. DaysBefore(mp) = 337
      BY <3>2, MonthsBegin
    <3>4. 337 <= u
      BY <1>11, <3>3 DEF InMonth
    <3>. QED  BY <1>2, <1>14, <3>1, <3>3, <3>4, LengthInt
  <2>. QED  BY <2>1, <2>2
<1>20. y \in 0 .. 9999 /\ d \in 1 .. DaysInMonth(y, m)
  BY ONLY <1>17, <1>19, y \in Int, d \in Int
<1>. QED  BY ONLY <1>15, <1>18, <1>20 DEF ParseLocalDatetime

(***************************************************************************)
(* Reviews.                                                                *)
(***************************************************************************)
LEMMA SundayAhead ==
    ASSUME NEW day0 \in Int
    PROVE  /\ Weekday(day0) \in 0 .. 6
           /\ Weekday(day0 + 7 - Weekday(day0)) = 0
           /\ Weekday(day0 + 7) = Weekday(day0)
<1>1. PICK q \in Int, r \in Int : day0 = 7 * q + r /\ 0 <= r /\ r < 7
  <2>1. PICK q \in Int : q = day0 \div 7
    OBVIOUS
  <2>2. PICK r \in Int : r = day0 - 7 * q
    OBVIOUS
  <2>3. day0 = 7 * q + r /\ 0 <= r /\ r < 7
    BY <2>1, <2>2
  <2>. QED  BY <2>3
<1>2. day0 % 7 = r
  BY <1>1
<1>3. PICK w \in Int : w = (r + 4) % 7
  OBVIOUS
<1>4. Weekday(day0) = w /\ 0 <= w /\ w < 7
  BY <1>2, <1>3 DEF Weekday
<1>5. (day0 + 7 - w) % 7 = ((r - w) % 7)
  BY <1>1
<1>6. (((r - w) % 7) + 4) % 7 = 0
  BY <1>1, <1>3
<1>7. (day0 + 7) % 7 = r
  BY <1>1
<1>. QED  BY <1>2, <1>3, <1>4, <1>5, <1>6, <1>7 DEF Weekday

LEMMA ReviewIsAhead ==
    ASSUME day \in Int, evening \in BOOLEAN PROVE ReviewAhead
<1>1. PICK w \in Int : w = Weekday(day) /\ 0 <= w /\ w <= 6
  BY SundayAhead
<1>2. Weekday(day + 7 - w) = 0 /\ Weekday(day + 7) = w
  BY <1>1, SundayAhead
<1>3. AdvanceReviewAtLocal(day) = day + 7 - w
  BY <1>1 DEF AdvanceReviewAtLocal
<1>4. CASE w # 0
  <2>1. NextReviewAtLocal(day, evening) = day + 7 - w
    BY <1>1, <1>4 DEF NextReviewAtLocal
  <2>. QED  BY <1>1, <1>2, <1>3, <1>4, <2>1 DEF ReviewAhead
<1>5. CASE w = 0
  <2>1. NextReviewAtLocal(day, evening) = IF evening THEN day + 7 ELSE day
    BY <1>1, <1>5 DEF NextReviewAtLocal
  <2>2. CASE evening
    <3>1. NextReviewAtLocal(day, evening) = day + 7
      BY <2>1, <2>2
    <3>2. AdvanceReviewAtLocal(day) = day + 7
      BY <1>3, <1>5
    <3>3. Weekday(day + 7) = 0
      BY <1>1, <1>2, <1>5
    <3>4. day + 7 \in day .. day + 7 /\ day + 7 \in day + 1 .. day + 7
          /\ day + 7 <= day + 7 /\ day + 7 # day
      OBVIOUS
    <3>. QED  BY <3>1, <3>2, <3>3, <3>4 DEF ReviewAhead
  <2>3. CASE ~evening
    <3>1. NextReviewAtLocal(day, evening) = day
      BY <2>1, <2>3
    <3>2. AdvanceReviewAtLocal(day) = day + 7
      BY <1>3, <1>5
    <3>3. Weekday(day + 7) = 0 /\ Weekday(day) = 0
      BY <1>1, <1>2, <1>5
    <3>4. day \in day .. day + 7 /\ day + 7 \in day + 1 .. day + 7 /\ day <= day + 7
      OBVIOUS
    <3>. QED  BY <2>3, <3>1, <3>2, <3>3, <3>4 DEF ReviewAhead
  <2>. QED  BY <2>2, <2>3
<1>. QED  BY <1>4, <1>5

(***************************************************************************)
(* The clock of Payloads.                                                  *)
(***************************************************************************)
Clock ==
    /\ day \in Int /\ evening \in BOOLEAN
    /\ elapsed \in Nat /\ elapsed <= Span
    /\ -719528 <= day /\ day + (Span - elapsed) <= 2932896
    /\ date = CivilFromDays(day)

LEMMA ClockKept == SpecPayloads => []Clock
<1>1. InitPayloads => Clock
  BY EpochsAssumption DEF InitPayloads, Clock
<1>2. Clock /\ [NextPayloads]_payloadVars => Clock'
  <2>. SUFFICES ASSUME Clock, [NextPayloads]_payloadVars PROVE Clock'
    OBVIOUS
  <2>1. CASE Tomorrow
    <3>1. CivilFromDays(day + 1) = NextDate(CivilFromDays(day))
      BY NextDay DEF Clock
    <3>2. date' = CivilFromDays(day')
      BY <2>1, <3>1 DEF Tomorrow, Clock
    <3>3. /\ day' \in Int /\ evening' \in BOOLEAN
          /\ elapsed' \in Nat /\ elapsed' <= Span
          /\ -719528 <= day' /\ day' + (Span - elapsed') <= 2932896
      BY <2>1, EpochsAssumption DEF Tomorrow, Clock
    <3>. QED  BY <3>2, <3>3 DEF Clock
  <2>2. CASE UNCHANGED <<day, date, evening, elapsed>>
    BY <2>2 DEF Clock
  <2>. QED
    BY <2>1, <2>2 DEF NextPayloads, payloadVars, Begin, Put, Send, Record, MintNode, MintEntry,
                      Review, Store
<1>. QED  BY <1>1, <1>2, PTL DEF SpecPayloads

(***************************************************************************)
(* Whatever day it is, the date Core writes is the one on the calendar and *)
(* can be read back, and a review is ahead.                                *)
(***************************************************************************)
THEOREM DatesAlwaysRight == SpecPayloads => []DatesAreRight
<1>1. Clock => DatesAreRight
  <2>. SUFFICES ASSUME Clock PROVE DatesAreRight
    OBVIOUS
  <2>1. ParseLocalDatetime(date)
    BY DateParses, EpochsAssumption DEF Clock
  <2>2. ReviewAhead
    BY ReviewIsAhead DEF Clock
  <2>. QED  BY <2>1, <2>2 DEF DatesAreRight, CivilMatchesCalendar, Clock
<1>. QED  BY <1>1, ClockKept, PTL

-----------------------------------------------------------------------------
LEMMA MergedForm ==
  ASSUME NEW f, NEW g
  PROVE  /\ DOMAIN (f ++ g) = DOMAIN f \cup DOMAIN g
         /\ \A x \in DOMAIN f : (f ++ g)[x] = f[x]
         /\ \A x \in DOMAIN g \ DOMAIN f : (f ++ g)[x] = g[x]
         /\ f ++ g = [x \in DOMAIN f \cup DOMAIN g |-> (f ++ g)[x]]
BY DEF ++

\* A field whose class is without the null, is within what is advertised of
\* it, and may be left out if it may be cleared.
TidyField(name, f) ==
    /\ DOMAIN f = {"required", "clearable", "admits"}
    /\ "null" \notin f.admits
    /\ f.admits \subseteq SpecSchema(name, f.admits)
    /\ f.required => ~f.clearable
Tidy(spec) == \A name \in DOMAIN spec : TidyField(name, spec[name])

LEMMA FieldForms ==
  ASSUME NEW S
  PROVE  /\ DOMAIN Required(S) = {"required", "clearable", "admits"}
         /\ DOMAIN Optional(S) = {"required", "clearable", "admits"}
         /\ DOMAIN Clearable(S) = {"required", "clearable", "admits"}
         /\ Required(S).admits = S /\ Required(S).required = TRUE
         /\ Required(S).clearable = FALSE
         /\ Optional(S).admits = S /\ Optional(S).required = FALSE
         /\ Optional(S).clearable = FALSE
         /\ Clearable(S).admits = S /\ Clearable(S).required = FALSE
         /\ Clearable(S).clearable = TRUE
BY DEF Required, Optional, Clearable, Field

LEMMA CheckRequired == \A S, v : CheckField(Required(S), v) <=> v \in S
BY FieldForms DEF CheckField
LEMMA CheckOptional == \A S, v : CheckField(Optional(S), v) <=> v \in S
BY FieldForms DEF CheckField
LEMMA CheckClearable == \A S, v : CheckField(Clearable(S), v) <=> v \in S \/ v = "null"
BY FieldForms DEF CheckField
LEMMA Presence ==
  \A S : Required(S).required /\ ~Optional(S).required /\ ~Clearable(S).required
BY FieldForms

LEMMA Clearing == \A S : ~Required(S).clearable /\ ~Optional(S).clearable
BY FieldForms

LEMMA SchemaWider ==
  ASSUME NEW name, NEW S, name \notin {"body", "entity_id"}
  PROVE  S \subseteq SpecSchema(name, S)
<1>1. CASE S = NonEmptyString
  BY <1>1 DEF SpecSchema, NonEmptyString, String, LocalDateTime, NonEmptyStrings
<1>2. CASE S = NonEmptyStrings
  BY <1>2 DEF SpecSchema, NonEmptyString, String, LocalDateTime, NonEmptyStrings
<1>3. CASE S = LocalDateTime
  BY <1>3 DEF SpecSchema, NonEmptyString, String, LocalDateTime, NonEmptyStrings
<1>4. CASE S \notin {NonEmptyString, NonEmptyStrings, LocalDateTime}
  BY <1>4 DEF SpecSchema
<1> QED BY <1>1, <1>2, <1>3, <1>4

LEMMA FieldsTidy ==
  ASSUME NEW S, "null" \notin S
  PROVE  \A name : S \subseteq SpecSchema(name, S) =>
            /\ TidyField(name, Required(S)) /\ TidyField(name, Optional(S))
            /\ TidyField(name, Clearable(S))
BY FieldForms DEF TidyField

LEMMA PlainTidy ==
  ASSUME NEW S, "null" \notin S
  PROVE  \A name : name \notin {"body", "entity_id"} =>
            /\ TidyField(name, Required(S)) /\ TidyField(name, Optional(S))
            /\ TidyField(name, Clearable(S))
BY FieldsTidy, SchemaWider

BodyClasses == {TextOnly, TextOrExistingRef, TextOrNewRef, GraphBody}
LEMMA BodyTidy ==
  ASSUME NEW S \in BodyClasses
  PROVE  TidyField("body", Required(S)) /\ TidyField("body", Optional(S))
<1>1. "null" \notin S
  BY DEF BodyClasses, TextOnly, TextOrExistingRef, TextOrNewRef, GraphBody
<1>0. S \notin {NonEmptyString, NonEmptyStrings, LocalDateTime}
  BY DEF BodyClasses, TextOnly, TextOrExistingRef, TextOrNewRef, GraphBody, NonEmptyString,
         NonEmptyStrings, LocalDateTime
<1>2. SpecSchema("body", S) = BodySchema(S)
  BY <1>0 DEF SpecSchema
<1>3. S \subseteq BodySchema(S)
  <2>1. CASE S = TextOnly
    BY <2>1 DEF BodySchema, TextOnly, TextOrExistingRef
  <2>2. CASE S = TextOrExistingRef
    BY <2>2 DEF BodySchema, TextOnly, TextOrExistingRef
  <2>3. CASE S \notin {TextOnly, TextOrExistingRef}
    <3>1. BodySchema(S) = {"texts", "blank texts", "placeholder", "placeholders"}
      BY <2>3 DEF BodySchema
    <3> QED BY <2>3, <3>1 DEF BodyClasses, TextOrNewRef, GraphBody
  <2> QED BY <2>1, <2>2, <2>3
<1> QED BY <1>1, <1>2, <1>3, FieldsTidy

LEMMA EntityIdTidy == TidyField("entity_id", Required(Uuid))
<1>0. Uuid \notin {NonEmptyString, NonEmptyStrings, LocalDateTime}
  BY DEF Uuid, NonEmptyString, NonEmptyStrings, LocalDateTime
<1>1. SpecSchema("entity_id", Uuid) = Uuid \cup String
  BY <1>0 DEF SpecSchema
<1> QED BY <1>1, FieldsTidy DEF Uuid

LEMMA ClassesTidy ==
  /\ "null" \notin LocalDateTime /\ "null" \notin NonEmptyString /\ "null" \notin String
  /\ "null" \notin Uuid /\ "null" \notin PositiveInt /\ "null" \notin Number
  /\ "null" \notin Number \ {"-1"} /\ "null" \notin NonEmptyStrings /\ "null" \notin Cadence
  /\ "null" \notin TextOnly /\ "null" \notin TextOrExistingRef /\ "null" \notin TextOrNewRef
  /\ "null" \notin ProjectStatus /\ "null" \notin HabitStatus /\ "null" \notin MediaState
  /\ "null" \notin MediaMedium /\ "null" \notin CheckinState /\ "null" \notin GraphBody
BY DEF LocalDateTime, NonEmptyString, String, Uuid, PositiveInt, Number, NonEmptyStrings,
       Cadence, TextOnly, TextOrExistingRef, TextOrNewRef, ProjectStatus, HabitStatus,
       MediaState, MediaMedium, CheckinState, GraphBody

LEMMA TidyMerged ==
  ASSUME NEW a, NEW b, Tidy(a), Tidy(b)
  PROVE  Tidy(a ++ b)
BY DEF ++, Tidy

LEMMA BodiesAre == {TextOnly, TextOrExistingRef, TextOrNewRef, GraphBody} \subseteq BodyClasses
BY DEF BodyClasses

LEMMA PersonTidy == Tidy(PersonCore)
<1>1. \A name \in DOMAIN PersonCore : TidyField(name, PersonCore[name])
  BY PlainTidy, ClassesTidy DEF PersonCore
<1> QED BY <1>1 DEF Tidy
LEMMA ProjectTidy == Tidy(ProjectCore)
<1>1. \A name \in DOMAIN ProjectCore : TidyField(name, ProjectCore[name])
  BY PlainTidy, ClassesTidy DEF ProjectCore
<1> QED BY <1>1 DEF Tidy
LEMMA MediaTidy == Tidy(MediaCore)
<1>1. \A name \in DOMAIN MediaCore : TidyField(name, MediaCore[name])
  BY PlainTidy, ClassesTidy DEF MediaCore
<1> QED BY <1>1 DEF Tidy
LEMMA HabitTidy == Tidy(HabitCore)
<1>1. \A name \in DOMAIN HabitCore : TidyField(name, HabitCore[name])
  BY PlainTidy, ClassesTidy DEF HabitCore
<1> QED BY <1>1 DEF Tidy

LEMMA CoreTidy == ASSUME NEW type PROVE type \in EntityType \ {"journal_entry"} => Tidy(DataCore(type))
BY PersonTidy, ProjectTidy, MediaTidy, HabitTidy DEF DataCore, EntityType

LEMMA EntryTidy == ASSUME NEW bodies \in BodyClasses PROVE Tidy(JournalEntryPayload(bodies))
<1>1. \A name \in DOMAIN JournalEntryPayload(bodies) : TidyField(name, JournalEntryPayload(bodies)[name])
  BY PlainTidy, BodyTidy, ClassesTidy DEF JournalEntryPayload
<1> QED BY <1>1 DEF Tidy

LEMMA TransportTidy == Tidy(Target) /\ Tidy(SourceDirective)
<1>1. DOMAIN Target = {"entity_id"} /\ Target.entity_id = Required(Uuid)
  BY DEF Target
<1>2. /\ DOMAIN SourceDirective = {"source_journal_entry_id"}
      /\ SourceDirective.source_journal_entry_id = Optional(Uuid)
  BY DEF SourceDirective
<1>3. Tidy(Target)
  BY <1>1, EntityIdTidy DEF Tidy
<1>4. TidyField("source_journal_entry_id", Optional(Uuid))
  BY PlainTidy, ClassesTidy
<1>5. Tidy(SourceDirective)
  BY <1>2, <1>4 DEF Tidy
<1> QED BY <1>3, <1>5

LEMMA GraphTidy == Tidy(GraphPerson) /\ Tidy(GraphProject) /\ Tidy(GraphEntry)
<1> DEFINE base == [handle |-> Required(NonEmptyString), existing_id |-> Optional(Uuid)]
           person == [name |-> Required(NonEmptyString), note |-> Optional(String),
                      aliases |-> Optional(NonEmptyStrings)]
           project == [name |-> Required(NonEmptyString), outcome |-> Optional(String),
                       note |-> Optional(String)]
           entry == [occurred_at |-> Required(LocalDateTime),
                     ended_at |-> Optional(LocalDateTime), body |-> Optional(GraphBody)]
<1>1. \A name \in DOMAIN base : TidyField(name, base[name])
  BY PlainTidy, ClassesTidy
<1>2. \A name \in DOMAIN person : TidyField(name, person[name])
  BY PlainTidy, ClassesTidy
<1>3. \A name \in DOMAIN project : TidyField(name, project[name])
  BY PlainTidy, ClassesTidy
<1>4. \A name \in DOMAIN entry : TidyField(name, entry[name])
  BY BodyTidy, BodiesAre, PlainTidy, ClassesTidy
<1>5. GraphPerson = base ++ person /\ GraphProject = base ++ project /\ GraphEntry = base ++ entry
  BY DEF GraphPerson, GraphProject, GraphEntry, GraphNode
<1> HIDE DEF base, person, project, entry
<1>6. Tidy(base) /\ Tidy(person) /\ Tidy(project) /\ Tidy(entry)
  BY <1>1, <1>2, <1>3, <1>4 DEF Tidy
<1> QED BY <1>5, <1>6, TidyMerged

LEMMA DraftTidy == ASSUME NEW schema PROVE schema \in DOMAIN ObservationValues => Tidy(ObservationDraft(schema))
<1> DEFINE base == [occurred_at |-> Required(LocalDateTime), ended_at |-> Optional(LocalDateTime),
                    note |-> Optional(String)]
<1>1. \A name \in DOMAIN base : TidyField(name, base[name])
  BY PlainTidy, ClassesTidy
<1>2. ASSUME schema \in DOMAIN ObservationValues
      PROVE  \A name \in DOMAIN ObservationValues[schema] : TidyField(name, ObservationValues[schema][name])
  BY <1>2, PlainTidy, ClassesTidy DEF ObservationValues
<1>3. ObservationDraft(schema) = base ++ ObservationValues[schema]
  BY DEF ObservationDraft
<1> HIDE DEF base
<1> QED BY <1>1, <1>2, <1>3, TidyMerged DEF Tidy

LEMMA ReferenceTidy ==
  ASSUME NEW op, op[1] = "reference"
  PROVE  Tidy(PayloadSpec(op))
<1> DEFINE spec == [source_entity_id |-> Required(Uuid), target_entity_id |-> Required(Uuid),
             label_snapshot |-> Optional(NonEmptyString),
             body |-> Required(TextOrNewRef)]
<1>1. \A name \in DOMAIN spec : TidyField(name, spec[name])
  BY BodyTidy, BodiesAre, PlainTidy, ClassesTidy
<1>2. PayloadSpec(op) = spec
  BY DEF PayloadSpec
<1> HIDE DEF spec
<1> QED BY <1>1, <1>2 DEF Tidy

LEMMA SpecsTidy ==
  ASSUME NEW op, op \in MutationKind \cup NodeKinds \cup ObservationBatch
  PROVE  Tidy(PayloadSpecOf(op))
<1>1. CASE op \in NodeKinds
  <2>1. PayloadSpecOf(op) = NodeSpec(op[2])
    BY <1>1 DEF PayloadSpecOf, NodeKinds, ObservationBatch
  <2>2. op[2] \in {"person", "project", "journal_entry"}
    BY <1>1 DEF NodeKinds, Referenceable
  <2> QED BY <2>1, <2>2, GraphTidy DEF NodeSpec
<1>2. CASE op \in ObservationBatch
  <2>1. PICK schema \in DOMAIN ObservationValues : op = <<"record", schema>>
    BY <1>2 DEF ObservationBatch
  <2>2. op \notin NodeKinds
    BY <2>1 DEF NodeKinds
  <2>3. PayloadSpecOf(op) = ObservationDraft(op[2])
    BY <1>2, <2>2 DEF PayloadSpecOf
  <2> QED BY <2>1, <2>3, DraftTidy
<1>3. CASE op \in MutationKind
  <2>1. op \notin NodeKinds /\ op \notin ObservationBatch
    BY <1>3 DEF NodeKinds, ObservationBatch, MutationKind
  <2>2. PayloadSpecOf(op) = PayloadSpec(op)
    BY <2>1 DEF PayloadSpecOf
  <2>3. CASE op = <<"create", "journal_entry">>
    BY <2>2, <2>3, EntryTidy, BodiesAre DEF PayloadSpec
  <2>4. CASE op = <<"update", "journal_entry">>
    <3>1. PayloadSpec(op) = Target ++ JournalEntryPayload(TextOrExistingRef)
      BY <2>4 DEF PayloadSpec
    <3> QED BY <2>2, <3>1, EntryTidy, BodiesAre, TransportTidy, TidyMerged
  <2>5. CASE op[1] = "reference"
    BY <2>2, <2>5, ReferenceTidy
  <2>6. CASE op \in {"create"} \X (EntityType \ {"journal_entry"})
    <3>1. PayloadSpec(op) = CreatePayload(op[2]) /\ op[2] \in EntityType \ {"journal_entry"}
      BY <2>6 DEF PayloadSpec
    <3> QED BY <2>2, <3>1, CoreTidy, TransportTidy, TidyMerged DEF CreatePayload
  <2>7. CASE op \in {"update"} \X (EntityType \ {"journal_entry"})
    <3>1. PayloadSpec(op) = UpdatePayload(op[2]) /\ op[2] \in EntityType \ {"journal_entry"}
      BY <2>7 DEF PayloadSpec
    <3> QED BY <2>2, <3>1, CoreTidy, TransportTidy, TidyMerged DEF UpdatePayload
  <2>8. CASE op[1] \in {"delete", "review", "graph"}
    <3>1. PayloadSpec(op) = Target
      BY <1>3, <2>8 DEF PayloadSpec, MutationKind
    <3> QED BY <2>2, <3>1, TransportTidy
  <2> QED BY <1>3, <2>3, <2>4, <2>5, <2>6, <2>7, <2>8 DEF MutationKind
<1> QED BY <1>1, <1>2, <1>3
LEMMA AcceptedChecked ==
  ASSUME NEW op, NEW load, Advertised(op), Acceptable(op, load), op # Task
  PROVE  /\ op \in MutationKind \cup NodeKinds \cup ObservationBatch
         /\ Check(PayloadSpecOf(op), load)
<1>1. op \in MutationKind \cup NodeKinds \cup ObservationBatch
  BY DEF Advertised, ProposableMutation
<1>2. CASE op \in ObservationBatch
  <2>1. op \notin NodeKinds
    BY <1>2 DEF ObservationBatch, NodeKinds
  <2>2. ValidateObservation(op[2], load)
    BY <1>2, <2>1 DEF Acceptable
  <2> QED BY <1>1, <1>2, <2>1, <2>2 DEF PayloadSpecOf, ValidateObservation
<1>3. CASE op \in NodeKinds
  <2>1. op \notin ObservationBatch
    BY <1>3 DEF ObservationBatch, NodeKinds
  <2> QED BY <1>1, <1>3, <2>1 DEF Acceptable
<1>4. CASE op \in MutationKind \ (NodeKinds \cup ObservationBatch)
  BY <1>1, <1>4 DEF Acceptable, Validate, PayloadSpecOf
<1> QED BY <1>1, <1>2, <1>3, <1>4

LEMMA CheckedAdvertised ==
  ASSUME NEW spec, Tidy(spec), NEW load, Check(spec, load)
  PROVE  Check(JsonSchema(spec),
               Without(load, {name \in DOMAIN load : load[name] = "null"}))
<1> DEFINE schema == JsonSchema(spec)
           rest == Without(load, {name \in DOMAIN load : load[name] = "null"})
<1>1. /\ DOMAIN rest = {name \in DOMAIN load : load[name] # "null"}
      /\ \A name \in DOMAIN rest : rest[name] = load[name]
  BY DEF Without
<1>2. DOMAIN schema = DOMAIN spec
  BY DEF JsonSchema
<1>3. DOMAIN rest \subseteq DOMAIN schema
  BY <1>1, <1>2 DEF Check
<1>4. ASSUME NEW name \in DOMAIN schema
      PROVE  IF name \in DOMAIN rest THEN CheckField(schema[name], rest[name])
                                     ELSE ~schema[name].required
  <2>1. schema[name] = FieldSchema(name, spec[name])
    BY <1>2, <1>4 DEF JsonSchema
  <2>2. /\ TidyField(name, spec[name])
        /\ IF name \in DOMAIN load THEN CheckField(spec[name], load[name])
                                   ELSE ~spec[name].required
    BY <1>2, <1>4 DEF Check, Tidy
  <2> QED BY <1>1, <2>1, <2>2 DEF FieldSchema, CheckField, TidyField
<1> HIDE DEF schema, rest
<1>5. Check(schema, rest)
  BY <1>3, <1>4 DEF Check
<1> QED BY <1>5 DEF schema, rest
LEMMA TaskChecked ==
  ASSUME NEW load, ValidateTaskPayload(load)
  PROVE  Check(TaskSchema, Without(load, {name \in DOMAIN load : load[name] = "null"}))
<1> DEFINE rest == Without(load, {name \in DOMAIN load : load[name] = "null"})
<1>1. /\ DOMAIN rest = {name \in DOMAIN load : load[name] # "null"}
      /\ \A name \in DOMAIN rest : rest[name] = load[name]
  BY DEF Without
<1>2. /\ DOMAIN TaskSchema = {"title", "note", "date", "is_all_day", "time_zone"}
      /\ TaskSchema.title = Required(String) /\ TaskSchema.note = Optional(String)
      /\ TaskSchema.date = Optional(DOMAIN DueDates \cup {"text"})
      /\ TaskSchema.is_all_day = Optional({"true", "false"})
      /\ TaskSchema.time_zone = Optional({"zone", "no zone"})
  BY DEF TaskSchema
<1>3. /\ "title" \in DOMAIN load /\ load.title \in String /\ load.title # "null"
      /\ "note" \in DOMAIN load => load.note \in String \cup {"null"}
      /\ DOMAIN load \subseteq DOMAIN TaskSchema
  BY <1>2 DEF ValidateTaskPayload, ValueOr, String, NonEmptyString, DueFields
<1>4. HasDue(load) => /\ "date" \in DOMAIN load => load.date \in DOMAIN DueDates
                      /\ "is_all_day" \in DOMAIN load => load.is_all_day \in {"true", "false"}
                      /\ "time_zone" \in DOMAIN load => load.time_zone \in {"zone", "no zone", "null"}
  BY DEF ValidateTaskPayload, ValidateDue, ValidateDueDate, ValueOr
<1>5. \A name \in DueFields : name \in DOMAIN load => HasDue(load)
  BY DEF HasDue
<1> HIDE DEF rest
<1>6. DOMAIN rest \subseteq DOMAIN TaskSchema
  BY <1>1, <1>3
<1>7. "title" \in DOMAIN rest /\ CheckField(TaskSchema.title, rest.title)
  <2>1. "title" \in DOMAIN rest /\ rest.title \in String
    BY <1>1, <1>3, <1>4, <1>5 DEF DueFields
  <2>2. TaskSchema.title = Required(String)
    BY <1>2
  <2>3. rest.title \in String => CheckField(TaskSchema.title, rest.title)
    BY <2>2, CheckRequired
  <2> QED BY <2>1, <2>3
<1>8. "note" \in DOMAIN rest => CheckField(TaskSchema.note, rest.note)
  <2>1. "note" \in DOMAIN rest => rest.note \in String
    BY <1>1, <1>3, <1>4, <1>5 DEF DueFields
  <2>2. TaskSchema.note = Optional(String)
    BY <1>2
  <2>3. rest.note \in String => CheckField(TaskSchema.note, rest.note)
    BY <2>2, CheckOptional
  <2> QED BY <2>1, <2>3
<1>9. "date" \in DOMAIN rest => CheckField(TaskSchema.date, rest.date)
  <2>1. "date" \in DOMAIN rest => rest.date \in DOMAIN DueDates \cup {"text"}
    BY <1>1, <1>3, <1>4, <1>5 DEF DueFields
  <2>2. TaskSchema.date = Optional(DOMAIN DueDates \cup {"text"})
    BY <1>2
  <2>3. rest.date \in DOMAIN DueDates \cup {"text"} => CheckField(TaskSchema.date, rest.date)
    BY <2>2, CheckOptional
  <2> QED BY <2>1, <2>3
<1>10. "is_all_day" \in DOMAIN rest => CheckField(TaskSchema.is_all_day, rest.is_all_day)
  <2>1. "is_all_day" \in DOMAIN rest => rest.is_all_day \in {"true", "false"}
    BY <1>1, <1>3, <1>4, <1>5 DEF DueFields
  <2>2. TaskSchema.is_all_day = Optional({"true", "false"})
    BY <1>2
  <2>3. rest.is_all_day \in {"true", "false"} => CheckField(TaskSchema.is_all_day, rest.is_all_day)
    BY <2>2, CheckOptional
  <2> QED BY <2>1, <2>3
<1>11. "time_zone" \in DOMAIN rest => CheckField(TaskSchema.time_zone, rest.time_zone)
  <2>1. "time_zone" \in DOMAIN rest => rest.time_zone \in {"zone", "no zone"}
    BY <1>1, <1>3, <1>4, <1>5 DEF DueFields
  <2>2. TaskSchema.time_zone = Optional({"zone", "no zone"})
    BY <1>2
  <2>3. rest.time_zone \in {"zone", "no zone"} => CheckField(TaskSchema.time_zone, rest.time_zone)
    BY <2>2, CheckOptional
  <2> QED BY <2>1, <2>3
<1>12. /\ ~TaskSchema.note.required /\ ~TaskSchema.date.required
       /\ ~TaskSchema.is_all_day.required /\ ~TaskSchema.time_zone.required
  <2>1. \A S : Optional(S).required = FALSE
    BY FieldForms
  <2> QED BY <1>2, <2>1
<1>13. Check(TaskSchema, rest)
  BY <1>2, <1>6, <1>7, <1>8, <1>9, <1>10, <1>11, <1>12 DEF Check
<1> QED BY <1>13 DEF rest

LEMMA TaskKind ==
  /\ Task \notin MutationKind /\ Task \notin NodeKinds /\ Task \notin ObservationBatch
  /\ Task[1] = "task"
BY DEF Task, MutationKind, NodeKinds, ObservationBatch

LEMMA Advertises == AcceptedWasAdvertised
<1> SUFFICES ASSUME Advertised(kind), Acceptable(kind, payload)
             PROVE  Check(Descriptor(kind),
                        Without(payload, {name \in DOMAIN payload : payload[name] = "null"}))
  BY DEF AcceptedWasAdvertised
<1>1. CASE kind = Task
  <2>1. ValidateTaskPayload(payload)
    BY <1>1, TaskKind DEF Acceptable
  <2> QED BY <1>1, <2>1, TaskChecked DEF Descriptor
<1>2. CASE kind # Task
  <2>1. /\ kind \in MutationKind \cup NodeKinds \cup ObservationBatch
        /\ Check(PayloadSpecOf(kind), payload)
    BY <1>2, AcceptedChecked
  <2>2. Tidy(PayloadSpecOf(kind))
    BY <2>1, SpecsTidy
  <2>3. Descriptor(kind) = JsonSchema(PayloadSpecOf(kind))
    BY <1>2 DEF Descriptor
  <2> QED BY <2>1, <2>2, <2>3, CheckedAdvertised
<1> QED BY <1>1, <1>2

LEMMA Unambiguous == TaskIsUnambiguous
<1> SUFFICES ASSUME ValidateTaskPayload(payload)
             PROVE  LET body == CreateTaskBody(payload)
                    IN  /\ body.title \in NonEmptyString
                        /\ "date" \in DOMAIN body => DueDates[body.date].offset # <<>>
                        /\ {"is_all_day", "time_zone"} \cap DOMAIN body # {} => "date" \in DOMAIN body
                        /\ "date" \in DOMAIN body /\ body.is_all_day = "false" =>
                              "time_zone" \in DOMAIN body
  BY DEF TaskIsUnambiguous
<1> DEFINE gone == {name \in DOMAIN payload : payload[name] \in {"null", "no zone"}}
           rest == Without(payload, gone)
           flag == IF HasDue(payload) THEN [is_all_day |-> "false"] ELSE <<>>
           body == CreateTaskBody(payload)
<1>1. /\ DOMAIN rest = {name \in DOMAIN payload : payload[name] \notin {"null", "no zone"}}
      /\ \A name \in DOMAIN rest : rest[name] = payload[name]
  BY DEF Without
<1>2. body = rest ++ flag
  BY DEF CreateTaskBody
<1>3. HasDue(payload) => DOMAIN flag = {"is_all_day"} /\ flag.is_all_day = "false"
  OBVIOUS
<1>4. ~HasDue(payload) => DOMAIN flag = {}
  OBVIOUS
<1> HIDE DEF gone, rest, flag, body
<1>5. /\ DOMAIN body = DOMAIN rest \cup DOMAIN flag
      /\ \A name \in DOMAIN rest : body[name] = payload[name]
      /\ \A name \in DOMAIN flag \ DOMAIN rest : body[name] = flag[name]
  BY <1>1, <1>2 DEF ++
<1>6. "title" \in DOMAIN payload /\ payload.title = "text"
  BY DEF ValidateTaskPayload, ValueOr, NonEmptyString
<1>7. HasDue(payload) =>
         /\ "date" \in DOMAIN payload /\ payload.date \in DOMAIN DueDates
         /\ DueDates[payload.date].offset # <<>>
         /\ "is_all_day" \in DOMAIN payload => payload.is_all_day \in {"true", "false"}
         /\ \/ "is_all_day" \in DOMAIN payload /\ payload.is_all_day = "true"
            \/ "time_zone" \in DOMAIN payload /\ payload.time_zone = "zone"
  <2> SUFFICES ASSUME HasDue(payload)
               PROVE /\ "date" \in DOMAIN payload /\ payload.date \in DOMAIN DueDates
                     /\ DueDates[payload.date].offset # <<>>
                     /\ "is_all_day" \in DOMAIN payload => payload.is_all_day \in {"true", "false"}
                     /\ \/ "is_all_day" \in DOMAIN payload /\ payload.is_all_day = "true"
                        \/ "time_zone" \in DOMAIN payload /\ payload.time_zone = "zone"
    OBVIOUS
  <2>1. ValidateDue(payload)
    BY DEF ValidateTaskPayload
  <2>2. "none" \notin DOMAIN DueDates
    BY DEF DueDates
  <2>3. "date" \in DOMAIN payload /\ ValidateDueDate(payload.date)
    BY <2>1, <2>2 DEF ValidateDue, ValidateDueDate, ValueOr
  <2>4. payload.date \in DOMAIN DueDates /\ DueDates[payload.date].offset # <<>>
    BY <2>3 DEF ValidateDueDate
  <2> QED BY <2>1, <2>3, <2>4 DEF ValidateDue, ValueOr
<1>8. DOMAIN DueDates \cap {"null", "no zone"} = {}
  BY DEF DueDates
<1>9. \A name \in DueFields : name \in DOMAIN rest => HasDue(payload)
  BY <1>1 DEF HasDue
<1>10. HasDue(payload) => "date" \in DOMAIN rest /\ body.date = payload.date
  BY <1>1, <1>5, <1>7, <1>8
<1>11. body.title \in NonEmptyString
  BY <1>1, <1>5, <1>6 DEF NonEmptyString
<1>12. {"date", "is_all_day", "time_zone"} \cap DOMAIN body # {} => HasDue(payload)
  BY <1>3, <1>4, <1>5, <1>9 DEF DueFields
<1>13. "date" \in DOMAIN body => DueDates[body.date].offset # <<>>
  BY <1>7, <1>10, <1>12
<1>14. {"is_all_day", "time_zone"} \cap DOMAIN body # {} => "date" \in DOMAIN body
  BY <1>5, <1>10, <1>12
<1>15. ASSUME "date" \in DOMAIN body, body.is_all_day = "false" PROVE "time_zone" \in DOMAIN body
  <2>1. HasDue(payload)
    BY <1>12, <1>15
  <2>2. ~("is_all_day" \in DOMAIN payload /\ payload.is_all_day = "true")
    BY <1>1, <1>5, <1>15
  <2>3. "time_zone" \in DOMAIN payload /\ payload.time_zone = "zone"
    BY <1>7, <2>1, <2>2
  <2> QED BY <1>1, <1>5, <2>3
<1> QED BY <1>11, <1>13, <1>14, <1>15 DEF body

\* The fields of one part of a spec are there and as they should be.
Part(spec, load) ==
    \A name \in DOMAIN spec :
        IF name \in DOMAIN load THEN CheckField(spec[name], load[name])
                               ELSE ~spec[name].required

LEMMA CheckParts ==
  ASSUME NEW spec, NEW load
  PROVE  Check(spec, load) <=> DOMAIN load \subseteq DOMAIN spec /\ Part(spec, load)
BY DEF Check, Part

LEMMA PartMerged ==
  ASSUME NEW a, NEW b, NEW load, Part(a, load), Part(b, load)
  PROVE  Part(a ++ b, load)
BY DEF ++, Part

LEMMA SpecsOf ==
  /\ PayloadSpec(<<"create", "journal_entry">>) = JournalEntryPayload(TextOnly)
  /\ PayloadSpec(<<"update", "journal_entry">>) = Target ++ JournalEntryPayload(TextOrExistingRef)
  /\ \A type \in {"person", "project", "media", "habit"} :
        /\ PayloadSpec(<<"create", type>>) = CreatePayload(type)
        /\ PayloadSpec(<<"update", type>>) = UpdatePayload(type)
BY DEF PayloadSpec

LEMMA DomainsOf ==
  /\ DOMAIN Target = {"entity_id"} /\ DOMAIN SourceDirective = {"source_journal_entry_id"}
  /\ \A bodies : DOMAIN JournalEntryPayload(bodies) = {"occurred_at", "ended_at", "body"}
  /\ "name" \in DOMAIN PersonCore /\ "name" \in DOMAIN ProjectCore
BY DEF Target, SourceDirective, JournalEntryPayload, PersonCore, ProjectCore

LEMMA TargetPart ==
  ASSUME NEW load, "entity_id" \in DOMAIN load, load.entity_id = "id"
  PROVE  Part(Target, load)
<1>1. Target.entity_id = Required(Uuid)
  BY DEF Target
<1>2. CheckField(Target.entity_id, load.entity_id)
  BY <1>1, CheckRequired DEF Uuid
<1> QED BY <1>2, DomainsOf DEF Part

LEMMA MergedDomain == \A a, b : DOMAIN (a ++ b) = DOMAIN a \cup DOMAIN b
BY DEF ++

LEMMA NamedPasses ==
  ASSUME NEW load, DOMAIN load \subseteq {"entity_id", "name"}, "name" \in DOMAIN load,
         load.name = "text", "entity_id" \in DOMAIN load => load.entity_id = "id"
  PROVE  /\ Part(PersonCore, load) /\ Part(ProjectCore, load) /\ Part(SourceDirective, load)
         /\ "entity_id" \in DOMAIN load => Part(Target, load)
         /\ ProjectStatusTimestampInvariant(load)
<1>1. Part(PersonCore, load)
  <2>1. PersonCore.name = Required(NonEmptyString)
    BY DEF PersonCore
  <2>2. \A name \in DOMAIN PersonCore \ {"name"} : ~PersonCore[name].required
    BY Presence DEF PersonCore
  <2>3. "entity_id" \notin DOMAIN PersonCore
    BY DEF PersonCore
  <2>4. CheckField(PersonCore.name, load.name)
    BY <2>1, CheckRequired DEF NonEmptyString
  <2> QED BY <2>2, <2>3, <2>4 DEF Part
<1>2. Part(ProjectCore, load)
  <2>1. ProjectCore.name = Required(NonEmptyString)
    BY DEF ProjectCore
  <2>2. \A name \in DOMAIN ProjectCore \ {"name"} : ~ProjectCore[name].required
    BY Presence DEF ProjectCore
  <2>3. "entity_id" \notin DOMAIN ProjectCore
    BY DEF ProjectCore
  <2>4. CheckField(ProjectCore.name, load.name)
    BY <2>1, CheckRequired DEF NonEmptyString
  <2> QED BY <2>2, <2>3, <2>4 DEF Part
<1>3. Part(SourceDirective, load)
  <2>1. SourceDirective.source_journal_entry_id = Optional(Uuid)
    BY DEF SourceDirective
  <2> QED BY <2>1, DomainsOf, Presence DEF Part
<1>4. "entity_id" \in DOMAIN load => Part(Target, load)
  BY TargetPart
<1>5. ProjectStatusTimestampInvariant(load)
  BY DEF ProjectStatusTimestampInvariant, PresentNonNull, ValueOr
<1> QED BY <1>1, <1>2, <1>3, <1>4, <1>5

LEMMA EntryPasses ==
  ASSUME NEW load, DOMAIN load \subseteq {"entity_id", "occurred_at", "body"},
         {"occurred_at", "body"} \subseteq DOMAIN load,
         load.occurred_at = "d1", load.body = "texts",
         "entity_id" \in DOMAIN load => load.entity_id = "id"
  PROVE  /\ Part(JournalEntryPayload(TextOnly), load)
         /\ Part(JournalEntryPayload(TextOrExistingRef), load)
         /\ "entity_id" \in DOMAIN load => Part(Target, load)
         /\ TimesInvariant(load)
<1>1. ASSUME NEW bodies, "texts" \in bodies PROVE Part(JournalEntryPayload(bodies), load)
  <2> DEFINE spec == JournalEntryPayload(bodies)
  <2>1. /\ DOMAIN spec = {"occurred_at", "ended_at", "body"}
        /\ spec.occurred_at = Required(LocalDateTime) /\ spec.ended_at = Optional(LocalDateTime)
        /\ spec.body = Required(bodies)
    BY DEF JournalEntryPayload
  <2> HIDE DEF spec
  <2>2. CheckField(spec.occurred_at, load.occurred_at)
    BY <2>1, CheckRequired DEF LocalDateTime
  <2>3. CheckField(spec.body, load.body)
    BY <1>1, <2>1, CheckRequired
  <2>4. ~spec.ended_at.required
    BY <2>1, Presence
  <2>5. Part(spec, load)
    BY <2>1, <2>2, <2>3, <2>4 DEF Part
  <2> QED BY <2>5 DEF spec
<1>2. "entity_id" \in DOMAIN load => Part(Target, load)
  BY TargetPart
<1>3. TimesInvariant(load)
  BY DEF TimesInvariant
<1>4. "texts" \in TextOnly /\ "texts" \in TextOrExistingRef
  BY DEF TextOnly, TextOrExistingRef
<1> QED BY <1>1, <1>2, <1>3, <1>4

LEMMA Repairable == ParkedIsRepairable
<1> DEFINE edit == Repair(kind)
<1> SUFFICES ASSUME SupportsEdit(kind),
                    TargetKey(kind) # "none" => ValueOr(payload, "entity_id", "none") \in Uuid
             PROVE  /\ AcceptableEdited(kind, payload, edit)
                    /\ TargetKey(kind) # "none" => CarriesReviewContext(kind)
  BY DEF ParkedIsRepairable
<1>1. kind \in {"create", "update"} \X {"journal_entry", "person", "project"}
  BY DEF SupportsEdit, ProposableMutation, MutationKind, EntityType
<1>2. /\ kind[1] = "create" => TargetKey(kind) = "none"
      /\ kind[1] = "update" => TargetKey(kind) = "entity_id"
  BY <1>1 DEF TargetKey, WriteOp
<1>3. TargetKey(kind) # "none" => "entity_id" \in DOMAIN payload /\ payload.entity_id = "id"
  BY DEF ValueOr, Uuid
<1>4. TargetKey(kind) # "none" => CarriesReviewContext(kind)
  BY <1>1, <1>2 DEF CarriesReviewContext, Referenceable
<1>5. /\ DOMAIN edit \in {{"occurred_at", "body"}, {"name"}}
      /\ kind[2] = "journal_entry" => /\ DOMAIN edit = {"occurred_at", "body"}
                                      /\ edit.occurred_at = "d1" /\ edit.body = "texts"
      /\ kind[2] # "journal_entry" => DOMAIN edit = {"name"} /\ edit.name = "text"
  BY DEF Repair
<1> DEFINE whole == PreserveUpdateTarget(kind, payload, edit)
<1> HIDE DEF edit
<1>6. ~EditRefused(kind, payload, edit)
  BY <1>1, <1>2, <1>3, <1>5 DEF EditRefused
<1>7. /\ kind[1] = "create" => whole = edit
      /\ kind[1] = "update" => whole = [name \in {"entity_id"} |-> "id"] ++ edit
  BY <1>2, <1>3, Zenon DEF PreserveUpdateTarget
<1> HIDE DEF whole
<1>8. kind[1] = "update" => /\ DOMAIN whole = {"entity_id"} \cup DOMAIN edit
                            /\ whole.entity_id = "id"
                            /\ \A name \in DOMAIN edit : whole[name] = edit[name]
  BY <1>5, <1>7 DEF ++
<1>9. Validate(kind, whole)
  <2>1. CASE kind = <<"create", "journal_entry">>
    <3>1. Check(PayloadSpec(kind), whole) /\ TimesInvariant(whole)
      BY <1>5, <1>7, <2>1, EntryPasses, SpecsOf, DomainsOf, CheckParts
    <3> QED BY <2>1, <3>1 DEF Validate
  <2>2. CASE kind = <<"update", "journal_entry">>
    <3>1. /\ Part(Target, whole) /\ Part(JournalEntryPayload(TextOrExistingRef), whole)
          /\ TimesInvariant(whole)
      BY <1>5, <1>8, <2>2, EntryPasses
    <3>2. Part(PayloadSpec(kind), whole)
      BY <2>2, <3>1, SpecsOf, PartMerged
    <3>3. DOMAIN PayloadSpec(kind)
             = DOMAIN Target \cup DOMAIN JournalEntryPayload(TextOrExistingRef)
      BY <2>2, SpecsOf, MergedDomain
    <3>4. DOMAIN whole \subseteq DOMAIN PayloadSpec(kind)
      BY <1>5, <1>8, <2>2, <3>3, DomainsOf
    <3> QED BY <2>2, <3>1, <3>2, <3>4, CheckParts DEF Validate
  <2>3. CASE kind[2] \in {"person", "project"}
    <3>1. /\ DOMAIN whole \subseteq {"entity_id", "name"} /\ "name" \in DOMAIN whole
          /\ whole.name = "text"
          /\ "entity_id" \in DOMAIN whole => whole.entity_id = "id"
          /\ kind[1] = "update" => "entity_id" \in DOMAIN whole
          /\ kind[1] = "create" => "entity_id" \notin DOMAIN whole
      BY <1>1, <1>5, <1>7, <1>8, <2>3
    <3>2. /\ Part(PersonCore, whole) /\ Part(ProjectCore, whole) /\ Part(SourceDirective, whole)
          /\ "entity_id" \in DOMAIN whole => Part(Target, whole)
          /\ ProjectStatusTimestampInvariant(whole)
      <4>1. Part(PersonCore, whole)
        BY <3>1, NamedPasses
      <4>2. Part(ProjectCore, whole)
        BY <3>1, NamedPasses
      <4>3. Part(SourceDirective, whole)
        BY <3>1, NamedPasses
      <4>4. "entity_id" \in DOMAIN whole => Part(Target, whole)
        BY <3>1, NamedPasses
      <4>5. ProjectStatusTimestampInvariant(whole)
        BY <3>1, NamedPasses
      <4> QED BY <4>1, <4>2, <4>3, <4>4, <4>5
    <3>3. Part(DataCore(kind[2]), whole) /\ "name" \in DOMAIN DataCore(kind[2])
      BY <2>3, <3>2, DomainsOf DEF DataCore
    <3>4. PayloadSpec(kind) = IF kind[1] = "create" THEN DataCore(kind[2]) ++ SourceDirective
                                                    ELSE Target ++ DataCore(kind[2])
      BY <1>1, <2>3, SpecsOf DEF CreatePayload, UpdatePayload, Referenceable
    <3>5. Part(PayloadSpec(kind), whole)
      BY <1>1, <3>1, <3>2, <3>3, <3>4, PartMerged
    <3>6. DOMAIN whole \subseteq DOMAIN PayloadSpec(kind)
      <4>1. CASE kind[1] = "create"
        <5>1. DOMAIN PayloadSpec(kind) = DOMAIN DataCore(kind[2]) \cup DOMAIN SourceDirective
          BY <3>4, <4>1, MergedDomain
        <5> QED BY <3>1, <3>3, <4>1, <5>1
      <4>2. CASE kind[1] = "update"
        <5>1. DOMAIN PayloadSpec(kind) = DOMAIN Target \cup DOMAIN DataCore(kind[2])
          BY <3>4, <4>2, MergedDomain
        <5> QED BY <3>1, <3>3, <4>2, <5>1, DomainsOf
      <4> QED BY <1>1, <4>1, <4>2
    <3>7. Check(PayloadSpec(kind), whole)
      BY <3>5, <3>6, CheckParts
    <3> QED BY <1>1, <2>3, <3>2, <3>7 DEF Validate
  <2> QED BY <1>1, <2>1, <2>2, <2>3
<1>10. kind # Task /\ kind \notin ObservationBatch /\ kind \notin NodeKinds
  BY <1>1 DEF Task, ObservationBatch, NodeKinds
<1>11. Acceptable(kind, whole)
  BY <1>9, <1>10 DEF Acceptable
<1> QED BY <1>4, <1>6, <1>11 DEF AcceptableEdited, SupportsEdit, whole
(***************************************************************************)
(* The tables of the contract agree with one another, whatever is sent:    *)
(* nothing of the state is needed for it but that a payload is one.        *)
(***************************************************************************)
THEOREM ContractsAlwaysAgree == SpecPayloads => []ContractsAgree
<1>1. ContractsAgree
  BY Advertises, Repairable, Unambiguous DEF ContractsAgree
<1> QED BY <1>1, PTL

-----------------------------------------------------------------------------
\* Data of a type as a row of its own: no nulls, the fields of the type and
\* no others, and what relates them.
Core(type) == IF type = "journal_entry" THEN JournalEntryPayload(TextOrExistingRef)
                                        ELSE DataCore(type)
Cross(type, data) ==
    /\ type = "journal_entry" => TimesInvariant(data)
    /\ type = "project" => ProjectStatusTimestampInvariant(data)
    /\ type = "media" => MediaStateFinishInvariant(data)
NoNulls(data) == \A name \in DOMAIN data : data[name] # "null"
Sound(type, data) ==
    NoNulls(data) /\ DOMAIN data \subseteq DOMAIN Core(type) /\ Part(Core(type), data)
        /\ Cross(type, data)

Transport == {"entity_id", "source_journal_entry_id"}
LEMMA CoreFields ==
  ASSUME NEW type \in EntityType
  PROVE  Tidy(Core(type)) /\ DOMAIN Core(type) \cap Transport = {}
<1>1. Tidy(Core(type))
  BY CoreTidy, EntryTidy, BodiesAre DEF Core, EntityType
<1>2. DOMAIN PersonCore \cap Transport = {}
  BY DEF PersonCore, Transport
<1>3. DOMAIN ProjectCore \cap Transport = {}
  BY DEF ProjectCore, Transport
<1>4. DOMAIN MediaCore \cap Transport = {}
  BY DEF MediaCore, Transport
<1>5. DOMAIN HabitCore \cap Transport = {}
  BY DEF HabitCore, Transport
<1>6. DOMAIN JournalEntryPayload(TextOrExistingRef) \cap Transport = {}
  BY DomainsOf DEF Transport
<1> QED BY <1>1, <1>2, <1>3, <1>4, <1>5, <1>6 DEF Core, DataCore, EntityType

LEMMA MergedParts ==
  ASSUME NEW a, NEW b, NEW load, Part(a ++ b, load)
  PROVE  Part(a, load) /\ (DOMAIN a \cap DOMAIN b = {} => Part(b, load))
<1>1. ASSUME NEW name \in DOMAIN a
      PROVE  name \in DOMAIN (a ++ b) /\ (a ++ b)[name] = a[name]
  BY <1>1 DEF ++
<1>2. ASSUME DOMAIN a \cap DOMAIN b = {}, NEW name \in DOMAIN b
      PROVE  name \in DOMAIN (a ++ b) /\ (a ++ b)[name] = b[name]
  BY <1>2 DEF ++
<1>3. Part(a, load)
  BY <1>1 DEF Part
<1>4. DOMAIN a \cap DOMAIN b = {} => Part(b, load)
  BY <1>2 DEF Part
<1> QED BY <1>3, <1>4

\* Sent back with its id it is an update that passes.
LEMMA SoundEditable ==
  ASSUME NEW type \in EntityType, NEW data, Sound(type, data)
  PROVE  Validate(<<"update", type>>, [entity_id |-> "id"] ++ data)
<1> DEFINE whole == [entity_id |-> "id"] ++ data
           core == Core(type)
<1>1. /\ DOMAIN whole = {"entity_id"} \cup DOMAIN data
      /\ whole.entity_id = "id"
      /\ \A name \in DOMAIN data : name # "entity_id" => whole[name] = data[name]
  BY DEF ++
<1>2. DOMAIN core \cap Transport = {}
  BY CoreFields
<1>3. DOMAIN data \subseteq DOMAIN core /\ Part(core, data) /\ Cross(type, data)
  BY DEF Sound
<1> HIDE DEF whole, core
<1>4. \A name \in DOMAIN data : whole[name] = data[name]
  BY <1>1, <1>2, <1>3 DEF Transport
<1>5. Part(core, whole)
  BY <1>1, <1>2, <1>3, <1>4 DEF Part, Transport
<1>6. Part(Target, whole)
  BY <1>1, TargetPart
<1>7. PayloadSpec(<<"update", type>>) = Target ++ core
  BY SpecsOf DEF UpdatePayload, core, Core, EntityType
<1>8. Part(Target ++ core, whole)
  BY <1>5, <1>6, PartMerged
<1>9. DOMAIN whole \subseteq DOMAIN (Target ++ core)
  <2>1. DOMAIN (Target ++ core) = DOMAIN Target \cup DOMAIN core
    BY MergedDomain
  <2> QED BY <1>1, <1>3, <2>1, DomainsOf
<1>10. Check(PayloadSpec(<<"update", type>>), whole)
  BY <1>7, <1>8, <1>9, CheckParts
<1>11. \A name \in DOMAIN whole : name # "entity_id" => name \in DOMAIN data
  BY <1>1
<1>12. type = "journal_entry" => TimesInvariant(whole)
  BY <1>1, <1>3, <1>4, <1>11 DEF Cross, TimesInvariant
<1>13. type = "project" => ProjectStatusTimestampInvariant(whole)
  BY <1>1, <1>3, <1>4, <1>11 DEF Cross, ProjectStatusTimestampInvariant, PresentNonNull, ValueOr
<1>14. type = "media" => MediaStateFinishInvariant(whole)
  <2>1. SUFFICES ASSUME type = "media" PROVE MediaStateFinishInvariant(whole)
    OBVIOUS
  <2>2. "state" \in DOMAIN data
    <3>1. core.state = Required(MediaState) /\ "state" \in DOMAIN core
      BY <2>1 DEF core, Core, DataCore, MediaCore
    <3> QED BY <1>3, <3>1, Presence DEF Part
  <2> QED BY <1>1, <1>3, <1>4, <1>11, <2>1, <2>2
          DEF Cross, MediaStateFinishInvariant, PresentNonNull, ValueOr
<1>15. Validate(<<"update", type>>, whole)
  BY <1>10, <1>12, <1>13, <1>14 DEF Validate, EntityType
<1> QED BY <1>15 DEF whole
LEMMA NormalizedForm ==
  ASSUME NEW load, NEW strip
  PROVE  /\ DOMAIN Normalize(load, strip)
               = {name \in DOMAIN load : name \notin strip /\ load[name] # "null"}
         /\ \A name \in DOMAIN Normalize(load, strip) : Normalize(load, strip)[name] = load[name]
BY DEF Normalize, Without

LEMMA NormalizedPart ==
  ASSUME NEW core, NEW load, NEW strip, Tidy(core), Part(core, load),
         strip \cap DOMAIN core = {}, DOMAIN load \subseteq DOMAIN core \cup strip
  PROVE  LET data == Normalize(load, strip)
         IN  NoNulls(data) /\ DOMAIN data \subseteq DOMAIN core /\ Part(core, data)
<1> DEFINE data == Normalize(load, strip)
<1>1. /\ DOMAIN data = {name \in DOMAIN load : name \notin strip /\ load[name] # "null"}
      /\ \A name \in DOMAIN data : data[name] = load[name]
  BY NormalizedForm
<1> HIDE DEF data
<1>2. NoNulls(data) /\ DOMAIN data \subseteq DOMAIN core
  BY <1>1 DEF NoNulls
<1>3. ASSUME NEW name \in DOMAIN core
      PROVE  IF name \in DOMAIN data THEN CheckField(core[name], data[name])
                                    ELSE ~core[name].required
  <2>1. TidyField(name, core[name]) /\ name \notin strip
    BY <1>3 DEF Tidy
  <2>2. CASE name \in DOMAIN data
    BY <1>1, <1>3, <2>2 DEF Part
  <2>3. CASE name \notin DOMAIN data /\ name \in DOMAIN load
    <3>1. load[name] = "null" /\ CheckField(core[name], load[name])
      BY <1>1, <1>3, <2>1, <2>3 DEF Part
    <3> QED BY <2>1, <2>3, <3>1 DEF CheckField, TidyField
  <2>4. CASE name \notin DOMAIN data /\ name \notin DOMAIN load
    BY <1>3, <2>4 DEF Part
  <2> QED BY <2>2, <2>3, <2>4
<1>4. Part(core, data)
  BY <1>3 DEF Part
<1> QED BY <1>2, <1>4 DEF data

\* Which field says what is not changed by leaving the nulls out.
LEMMA NormalizedCross ==
  ASSUME NEW type \in EntityType, NEW load, NEW strip, strip \subseteq Transport,
         Part(Core(type), load), Cross(type, load)
  PROVE  Cross(type, Normalize(load, strip))
<1> DEFINE data == Normalize(load, strip)
<1>1. /\ DOMAIN data = {name \in DOMAIN load : name \notin strip /\ load[name] # "null"}
      /\ \A name \in DOMAIN data : data[name] = load[name]
  BY NormalizedForm
<1>2. \A name \in DOMAIN load : name \notin Transport =>
         (name \in DOMAIN data <=> load[name] # "null")
  BY <1>1
<1> HIDE DEF data
<1>3. type = "journal_entry" => TimesInvariant(data)
  BY <1>1 DEF Cross, TimesInvariant
<1>4. type = "project" => ProjectStatusTimestampInvariant(data)
  <2>1. SUFFICES ASSUME type = "project" PROVE ProjectStatusTimestampInvariant(data)
    OBVIOUS
  <2>2. "status" \in DOMAIN load => load.status # "null"
    <3>1. Core(type).status = Optional(ProjectStatus) /\ "status" \in DOMAIN Core(type)
      BY <2>1 DEF Core, DataCore, ProjectCore
    <3>2. "status" \in DOMAIN load => CheckField(Core(type).status, load.status)
      BY <3>1 DEF Part
    <3>3. "status" \in DOMAIN load => load.status \in ProjectStatus
      BY <3>1, <3>2, CheckOptional
    <3> QED BY <3>3 DEF ProjectStatus
  <2>3. ValueOr(data, "status", "active") = ValueOr(load, "status", "active")
    BY <1>1, <1>2, <2>2 DEF ValueOr, Transport
  <2>4. \A name \in {"completed_at", "dropped_at"} :
           PresentNonNull(data, name) <=> PresentNonNull(load, name)
    BY <1>1, <1>2 DEF PresentNonNull, Transport
  <2> QED BY <2>1, <2>3, <2>4 DEF Cross, ProjectStatusTimestampInvariant
<1>5. type = "media" => MediaStateFinishInvariant(data)
  <2>1. SUFFICES ASSUME type = "media" PROVE MediaStateFinishInvariant(data)
    OBVIOUS
  <2>2. "state" \in DOMAIN load /\ load.state # "null"
    <3>1. Core(type).state = Required(MediaState) /\ "state" \in DOMAIN Core(type)
      BY <2>1 DEF Core, DataCore, MediaCore
    <3>2. "state" \in DOMAIN load /\ CheckField(Core(type).state, load.state)
      BY <3>1, Presence DEF Part
    <3>3. load.state \in MediaState
      BY <3>1, <3>2, CheckRequired
    <3> QED BY <3>2, <3>3 DEF MediaState
  <2>3. data.state = load.state
    BY <1>1, <1>2, <2>2 DEF Transport
  <2>4. \A name \in {"rating", "finished_at"} :
           PresentNonNull(data, name) <=> PresentNonNull(load, name)
    BY <1>1, <1>2 DEF PresentNonNull, Transport
  <2>5. ValueOr(data, "rating", "1") # "6"
    BY <1>1, <2>1 DEF Cross, MediaStateFinishInvariant, ValueOr
  <2> QED BY <2>1, <2>3, <2>4, <2>5 DEF Cross, MediaStateFinishInvariant
<1>6. Cross(type, data)
  BY <1>3, <1>4, <1>5 DEF Cross
<1> QED BY <1>6 DEF data

LEMMA NormalizedSound ==
  ASSUME NEW type \in EntityType, NEW load, NEW strip, strip \subseteq Transport,
         Part(Core(type), load), Cross(type, load),
         DOMAIN load \subseteq DOMAIN Core(type) \cup strip
  PROVE  Sound(type, Normalize(load, strip))
<1>1. Tidy(Core(type)) /\ strip \cap DOMAIN Core(type) = {}
  BY CoreFields
<1>2. Cross(type, Normalize(load, strip))
  BY NormalizedCross
<1>3. LET data == Normalize(load, strip)
      IN  NoNulls(data) /\ DOMAIN data \subseteq DOMAIN Core(type) /\ Part(Core(type), data)
  BY <1>1, NormalizedPart
<1> QED BY <1>2, <1>3 DEF Sound

\* A new active Project is given its review, and is a Project still.
LEMMA DefaultsSound ==
  ASSUME NEW data, Sound("project", data)
  PROVE  Sound("project", ProjectCreateDefaults(data))
<1> DEFINE stated == data ++ [status |-> "active"]
           planned == stated ++ [review_every |-> "weekly", next_review_at |-> "anchor"]
<1>1. /\ DOMAIN stated = DOMAIN data \cup {"status"}
      /\ \A name \in DOMAIN data : stated[name] = data[name]
      /\ "status" \notin DOMAIN data => stated.status = "active"
  BY DEF ++
<1> HIDE DEF stated
<1>2. /\ DOMAIN planned = DOMAIN stated \cup {"review_every", "next_review_at"}
      /\ \A name \in DOMAIN stated : planned[name] = stated[name]
      /\ "review_every" \notin DOMAIN stated => planned.review_every = "weekly"
      /\ "next_review_at" \notin DOMAIN stated => planned.next_review_at = "anchor"
  BY DEF ++
<1> HIDE DEF planned
<1> DEFINE core == Core("project")
<1>3. /\ {"status", "review_every", "next_review_at"} \subseteq DOMAIN core
      /\ core.status = Optional(ProjectStatus) /\ core.review_every = Clearable(Cadence)
      /\ core.next_review_at = Clearable(LocalDateTime)
  BY DEF Core, DataCore, ProjectCore
<1> HIDE DEF core
<1>4. NoNulls(data) /\ DOMAIN data \subseteq DOMAIN core /\ Part(core, data)
      /\ ProjectStatusTimestampInvariant(data)
  BY DEF Sound, Cross, core
<1>5. CheckField(core.status, "active")
  BY <1>3, CheckOptional DEF ProjectStatus
<1>6. CheckField(core.review_every, "weekly")
  BY <1>3, CheckClearable DEF Cadence
<1>7. CheckField(core.next_review_at, "anchor")
  BY <1>3, CheckClearable DEF LocalDateTime
<1>8. Sound("project", stated)
  <2>1. Part(core, stated)
    BY <1>1, <1>4, <1>5 DEF Part
  <2>2. NoNulls(stated) /\ DOMAIN stated \subseteq DOMAIN core
    BY <1>1, <1>3, <1>4 DEF NoNulls
  <2>3. ProjectStatusTimestampInvariant(stated)
    BY <1>1, <1>4 DEF ProjectStatusTimestampInvariant, PresentNonNull, ValueOr
  <2> QED BY <2>1, <2>2, <2>3 DEF Sound, Cross, core
<1>9. ASSUME {"review_every", "next_review_at"} \cap DOMAIN data = {}
      PROVE  Sound("project", planned)
  <2>0. "review_every" \notin DOMAIN stated /\ "next_review_at" \notin DOMAIN stated
    BY <1>1, <1>9
  <2>4. /\ NoNulls(stated) /\ DOMAIN stated \subseteq DOMAIN core /\ Part(core, stated)
        /\ ProjectStatusTimestampInvariant(stated)
    BY <1>8 DEF Sound, Cross, core
  <2>1. Part(core, planned)
    BY <1>2, <1>6, <1>7, <2>0, <2>4 DEF Part
  <2>2. NoNulls(planned) /\ DOMAIN planned \subseteq DOMAIN core
    BY <1>2, <1>3, <2>0, <2>4 DEF NoNulls
  <2>3. ProjectStatusTimestampInvariant(planned)
    BY <1>2, <2>4 DEF ProjectStatusTimestampInvariant, PresentNonNull, ValueOr
  <2> QED BY <2>1, <2>2, <2>3 DEF Sound, Cross, core
<1>10. ProjectCreateDefaults(data)
         = IF stated.status = "active" /\ {"review_every", "next_review_at"} \cap DOMAIN data = {}
             THEN planned ELSE stated
  BY DEF ProjectCreateDefaults, stated, planned
<1> QED BY <1>8, <1>9, <1>10
\* A validated payload is a payload of its type beside what only travels.
LEMMA ValidatedParts ==
  ASSUME NEW word \in {"create", "update"}, NEW type \in EntityType, NEW load,
         Validate(<<word, type>>, load)
  PROVE  LET strip == IF word = "create"
                        THEN IF type \in Referenceable THEN {"source_journal_entry_id"} ELSE {}
                        ELSE {"entity_id"}
         IN  /\ Part(Core(type), load) /\ Cross(type, load)
             /\ DOMAIN load \subseteq DOMAIN Core(type) \cup strip
<1> DEFINE op == <<word, type>>
           core == Core(type)
           strip == IF word = "create"
                      THEN IF type \in Referenceable THEN {"source_journal_entry_id"} ELSE {}
                      ELSE {"entity_id"}
<1>1. DOMAIN load \subseteq DOMAIN PayloadSpec(op) /\ Part(PayloadSpec(op), load)
  BY CheckParts DEF Validate
<1>2. Cross(type, load)
  BY DEF Validate, Cross, EntityType
<1>3. DOMAIN core \cap Transport = {}
  BY CoreFields
<1> HIDE DEF core, strip
<1>4. CASE word = "create" /\ type = "journal_entry"
  <2>1. PayloadSpec(op) = JournalEntryPayload(TextOnly)
    BY <1>4, SpecsOf
  <2> DEFINE narrow == JournalEntryPayload(TextOnly)
  <2>2. /\ DOMAIN narrow = {"occurred_at", "ended_at", "body"}
        /\ narrow.occurred_at = Required(LocalDateTime) /\ narrow.ended_at = Optional(LocalDateTime)
        /\ narrow.body = Required(TextOnly)
    BY DEF JournalEntryPayload
  <2>3. /\ DOMAIN core = {"occurred_at", "ended_at", "body"}
        /\ core.occurred_at = Required(LocalDateTime) /\ core.ended_at = Optional(LocalDateTime)
        /\ core.body = Required(TextOrExistingRef)
    BY <1>4 DEF JournalEntryPayload, core, Core
  <2> HIDE DEF narrow
  <2>4. Part(narrow, load) /\ DOMAIN load \subseteq DOMAIN narrow
    BY <1>1, <2>1 DEF narrow
  <2>5. "body" \in DOMAIN load /\ CheckField(Required(TextOnly), load.body)
    BY <2>2, <2>4, Presence DEF Part
  <2>6. CheckField(core.body, load.body)
    BY <2>3, <2>5, CheckRequired DEF TextOnly, TextOrExistingRef
  <2>7. Part(core, load)
    BY <2>2, <2>3, <2>4, <2>5, <2>6 DEF Part
  <2> QED BY <1>2, <2>2, <2>3, <2>4, <2>7 DEF core, strip
<1>5. CASE word = "create" /\ type \in Referenceable
  <2>1. PayloadSpec(op) = core ++ SourceDirective
    BY <1>5, SpecsOf DEF core, Core, CreatePayload, Referenceable
  <2>2. Part(core, load)
    BY <1>1, <2>1, MergedParts
  <2>3. DOMAIN (core ++ SourceDirective) = DOMAIN core \cup {"source_journal_entry_id"}
    BY MergedDomain, DomainsOf
  <2> QED BY <1>1, <1>2, <1>5, <2>1, <2>2, <2>3 DEF core, strip
<1>6. CASE word = "create" /\ type \in {"media", "habit"}
  <2>1. PayloadSpec(op) = core /\ type \notin Referenceable
    BY <1>6, SpecsOf DEF core, Core, CreatePayload, Referenceable
  <2> QED BY <1>1, <1>2, <1>6, <2>1 DEF core, strip
<1>7. CASE word = "update"
  <2>1. PayloadSpec(op) = Target ++ core
    BY <1>7, SpecsOf DEF core, Core, UpdatePayload, EntityType
  <2>2. DOMAIN Target \cap DOMAIN core = {}
    BY <1>3, DomainsOf DEF Transport
  <2>3. Part(core, load)
    BY <1>1, <2>1, <2>2, MergedParts
  <2>4. DOMAIN (Target ++ core) = {"entity_id"} \cup DOMAIN core
    BY MergedDomain, DomainsOf
  <2> QED BY <1>1, <1>2, <1>7, <2>1, <2>3, <2>4 DEF core, strip
<1> QED BY <1>4, <1>5, <1>6, <1>7 DEF EntityType, Referenceable

LEMMA StoredSound ==
  ASSUME NEW word \in {"create", "update"}, NEW type \in EntityType, NEW load,
         Validate(<<word, type>>, load)
  PROVE  Sound(type, EntityDataPayload(<<word, type>>, load))
<1> DEFINE op == <<word, type>>
           narrow == IF word = "create"
                       THEN IF type \in Referenceable THEN {"source_journal_entry_id"} ELSE {}
                       ELSE {"entity_id"}
<1>1. /\ Part(Core(type), load) /\ Cross(type, load)
      /\ DOMAIN load \subseteq DOMAIN Core(type) \cup narrow
  BY ValidatedParts
<1>2. ASSUME NEW strip, narrow \subseteq strip, strip \subseteq Transport
      PROVE  Sound(type, Normalize(load, strip))
  <2>1. DOMAIN load \subseteq DOMAIN Core(type) \cup strip
    BY <1>1, <1>2
  <2> QED BY <1>1, <1>2, <2>1, NormalizedSound
<1>3. CASE op = <<"create", "journal_entry">>
  <2>1. EntityDataPayload(op, load) = load
    BY <1>3 DEF EntityDataPayload
  <2>2. narrow = {}
    BY <1>3 DEF Referenceable
  <2> DEFINE core == Core(type)
  <2>3. /\ DOMAIN core = {"occurred_at", "ended_at", "body"}
        /\ core.occurred_at = Required(LocalDateTime) /\ core.ended_at = Optional(LocalDateTime)
        /\ core.body = Required(TextOrExistingRef)
    BY <1>3 DEF JournalEntryPayload, Core
  <2> HIDE DEF core
  <2>4. Part(core, load) /\ DOMAIN load \subseteq DOMAIN core
    BY <1>1, <2>2 DEF core
  <2>5. "occurred_at" \in DOMAIN load => load.occurred_at \in LocalDateTime
    BY <2>3, <2>4, CheckRequired DEF Part
  <2>6. "ended_at" \in DOMAIN load => load.ended_at \in LocalDateTime
    BY <2>3, <2>4, CheckOptional DEF Part
  <2>7. "body" \in DOMAIN load => load.body \in TextOrExistingRef
    BY <2>3, <2>4, CheckRequired DEF Part
  <2>8. NoNulls(load)
    BY <2>3, <2>4, <2>5, <2>6, <2>7, ClassesTidy DEF NoNulls
  <2> QED BY <1>1, <2>1, <2>4, <2>8 DEF Sound, core
<1>4. CASE op = <<"create", "project">>
  <2>1. EntityDataPayload(op, load)
          = ProjectCreateDefaults(Normalize(load, {"source_journal_entry_id"}))
    BY <1>4, DomainsOf DEF EntityDataPayload
  <2>2. Sound("project", Normalize(load, {"source_journal_entry_id"}))
    BY <1>2, <1>4 DEF Transport, Referenceable
  <2> QED BY <1>4, <2>1, <2>2, DefaultsSound
<1>5. CASE word = "create" /\ type \notin {"journal_entry", "project"}
  <2>1. EntityDataPayload(op, load) = Normalize(load, {"source_journal_entry_id"})
    BY <1>5, DomainsOf DEF EntityDataPayload
  <2> QED BY <1>2, <1>5, <2>1 DEF Transport, Referenceable
<1>6. CASE word = "update"
  <2>1. EntityDataPayload(op, load) = Normalize(load, {"entity_id", "source_journal_entry_id"})
    <3>1. DOMAIN Target \cup DOMAIN SourceDirective = {"entity_id", "source_journal_entry_id"}
      BY DomainsOf
    <3>2. EntityDataPayload(op, load) = Normalize(load, DOMAIN Target \cup DOMAIN SourceDirective)
      BY <1>6 DEF EntityDataPayload
    <3> QED BY <3>1, <3>2
  <2> QED BY <1>2, <1>6, <2>1 DEF Transport
<1> QED BY <1>3, <1>4, <1>5, <1>6
LEMMA WithoutForm ==
  ASSUME NEW load, NEW keys
  PROVE  /\ DOMAIN Without(load, keys) = DOMAIN load \ keys
         /\ \A name \in DOMAIN Without(load, keys) : Without(load, keys)[name] = load[name]
BY DEF Without

LEMMA GraphForms ==
  /\ DOMAIN GraphPerson = {"handle", "existing_id", "name", "note", "aliases"}
  /\ GraphPerson.name = Required(NonEmptyString) /\ GraphPerson.note = Optional(String)
  /\ GraphPerson.aliases = Optional(NonEmptyStrings)
  /\ DOMAIN GraphProject = {"handle", "existing_id", "name", "outcome", "note"}
  /\ GraphProject.name = Required(NonEmptyString) /\ GraphProject.note = Optional(String)
  /\ GraphProject.outcome = Optional(String)
  /\ DOMAIN GraphEntry = {"handle", "existing_id", "occurred_at", "ended_at", "body"}
  /\ GraphEntry.occurred_at = Required(LocalDateTime)
  /\ GraphEntry.ended_at = Optional(LocalDateTime) /\ GraphEntry.body = Optional(GraphBody)
BY DEF GraphPerson, GraphProject, GraphEntry, GraphNode, ++

\* A node says less than a request to create what it stands for, and says all
\* that such a request must.
Narrower(graph, core) ==
    /\ \A name \in DOMAIN graph \ {"handle", "existing_id"} :
          /\ name \in DOMAIN core /\ graph[name].admits \subseteq core[name].admits
          /\ ~graph[name].clearable
    /\ \A name \in DOMAIN core : core[name].required =>
          name \in DOMAIN graph \ {"handle", "existing_id"} /\ graph[name].required

LEMMA NodesNarrower == Narrower(GraphPerson, PersonCore) /\ Narrower(GraphProject, ProjectCore)
<1>1. /\ DOMAIN PersonCore = {"name", "note", "aliases"}
      /\ PersonCore.name = Required(NonEmptyString) /\ PersonCore.note = Clearable(String)
      /\ PersonCore.aliases = Clearable(NonEmptyStrings)
  BY DEF PersonCore
<1>2. /\ {"name", "note", "outcome"} \subseteq DOMAIN ProjectCore
      /\ ProjectCore.name = Required(NonEmptyString) /\ ProjectCore.note = Clearable(String)
      /\ ProjectCore.outcome = Clearable(String)
  BY DEF ProjectCore
<1>3. \A name \in DOMAIN ProjectCore \ {"name"} : ~ProjectCore[name].required
  BY Presence DEF ProjectCore
<1>4. \A S : Required(S).admits = S /\ Optional(S).admits = S /\ Clearable(S).admits = S
  BY FieldForms
<1>5. Narrower(GraphPerson, PersonCore)
  BY <1>1, <1>4, GraphForms, Presence, Clearing DEF Narrower
<1>6. Narrower(GraphProject, ProjectCore)
  BY <1>2, <1>3, <1>4, GraphForms, Presence, Clearing DEF Narrower
<1> QED BY <1>5, <1>6

LEMMA NarrowerPart ==
  ASSUME NEW graph, NEW core, Narrower(graph, core), NEW node, Check(graph, node)
  PROVE  DOMAIN NodeData(node) \subseteq DOMAIN core /\ Part(core, NodeData(node))
<1> DEFINE data == NodeData(node)
<1>1. /\ DOMAIN data = DOMAIN node \ {"handle", "existing_id"}
      /\ \A name \in DOMAIN data : data[name] = node[name]
  BY WithoutForm DEF NodeData
<1> HIDE DEF data
<1>2. DOMAIN node \subseteq DOMAIN graph /\ Part(graph, node)
  BY CheckParts
<1>3. DOMAIN data \subseteq DOMAIN core
  BY <1>1, <1>2 DEF Narrower
<1>4. ASSUME NEW name \in DOMAIN data PROVE CheckField(core[name], data[name])
  BY <1>1, <1>2, <1>4 DEF Narrower, Part, CheckField
<1>5. ASSUME NEW name \in DOMAIN core, core[name].required PROVE name \in DOMAIN data
  BY <1>1, <1>2, <1>5 DEF Narrower, Part
<1>6. Part(core, data)
  BY <1>4, <1>5 DEF Part
<1> QED BY <1>3, <1>6 DEF data

\* The data of an uncorrected node are those of a request to create it.
LEMMA NodeValid ==
  ASSUME NEW type \in Referenceable, NEW node, Check(NodeSpec(type), node)
  PROVE  Validate(<<"create", type>>, NodeData(node))
<1> DEFINE data == NodeData(node)
           core == DataCore(type)
<1>1. DOMAIN data \subseteq DOMAIN core /\ Part(core, data)
  BY NodesNarrower, NarrowerPart DEF NodeSpec, DataCore, Referenceable
<1>2. DOMAIN data \subseteq DOMAIN NodeSpec(type)
  <2>1. DOMAIN data = DOMAIN node \ {"handle", "existing_id"}
    BY WithoutForm DEF NodeData
  <2> QED BY <2>1 DEF Check
<1>3. {"source_journal_entry_id", "completed_at", "dropped_at", "status"} \cap DOMAIN data = {}
  BY <1>2, GraphForms DEF NodeSpec, Referenceable
<1> HIDE DEF data, core
<1>4. Part(SourceDirective, data)
  <2>1. SourceDirective.source_journal_entry_id = Optional(Uuid)
    BY DEF SourceDirective
  <2> QED BY <1>3, <2>1, DomainsOf, Presence DEF Part
<1>5. PayloadSpec(<<"create", type>>) = core ++ SourceDirective
  BY SpecsOf DEF CreatePayload, Referenceable, core
<1>6. Part(core ++ SourceDirective, data)
  BY <1>1, <1>4, PartMerged
<1>7. DOMAIN data \subseteq DOMAIN (core ++ SourceDirective)
  <2>1. DOMAIN (core ++ SourceDirective) = DOMAIN core \cup DOMAIN SourceDirective
    BY MergedDomain
  <2> QED BY <1>1, <2>1
<1>8. Check(PayloadSpec(<<"create", type>>), data)
  BY <1>5, <1>6, <1>7, CheckParts
<1>9. ProjectStatusTimestampInvariant(data)
  BY <1>3 DEF ProjectStatusTimestampInvariant, PresentNonNull, ValueOr
<1>10. Validate(<<"create", type>>, data)
  BY <1>8, <1>9 DEF Validate, Referenceable
<1> QED BY <1>10 DEF data

\* The entry Core weaves from its node.
LEMMA EntryNodeSound ==
  ASSUME NEW node, Check(GraphEntry, node), TimesInvariant(node), "body" \in DOMAIN node
  PROVE  Sound("journal_entry", [body |-> WovenBody(node.body)] ++ NodeData(node))
<1> DEFINE data == [body |-> WovenBody(node.body)] ++ NodeData(node)
           core == Core("journal_entry")
<1>1. /\ DOMAIN NodeData(node) = DOMAIN node \ {"handle", "existing_id"}
      /\ \A name \in DOMAIN NodeData(node) : NodeData(node)[name] = node[name]
  BY WithoutForm DEF NodeData
<1>2. /\ DOMAIN data = {"body"} \cup (DOMAIN node \ {"handle", "existing_id"})
      /\ data.body = WovenBody(node.body)
      /\ \A name \in DOMAIN node \ {"handle", "existing_id"} :
            name # "body" => data[name] = node[name]
  BY <1>1 DEF ++
<1>3. /\ DOMAIN core = {"occurred_at", "ended_at", "body"}
      /\ core.occurred_at = Required(LocalDateTime) /\ core.ended_at = Optional(LocalDateTime)
      /\ core.body = Required(TextOrExistingRef)
  BY DEF JournalEntryPayload, Core
<1> HIDE DEF core, data
<1>4. DOMAIN node \subseteq DOMAIN GraphEntry /\ Part(GraphEntry, node)
  BY CheckParts
<1>5. "occurred_at" \in DOMAIN node /\ node.occurred_at \in LocalDateTime
  <2>1. GraphEntry.occurred_at.required
    BY GraphForms, Presence
  <2>2. "occurred_at" \in DOMAIN node /\ CheckField(GraphEntry.occurred_at, node.occurred_at)
    BY <1>4, <2>1, GraphForms DEF Part
  <2> QED BY <2>2, GraphForms, CheckRequired
<1>6. "ended_at" \in DOMAIN node => node.ended_at \in LocalDateTime
  BY <1>4, GraphForms, CheckOptional DEF Part
<1>7. data.body \in TextOrExistingRef
  BY <1>2 DEF WovenBody, TextOrExistingRef
<1>8. CheckField(core.body, data.body)
  BY <1>3, <1>7, CheckRequired
<1>9. "occurred_at" \in DOMAIN data /\ CheckField(core.occurred_at, data.occurred_at)
  BY <1>2, <1>3, <1>5, CheckRequired
<1>10. "ended_at" \in DOMAIN data => CheckField(core.ended_at, data.ended_at)
  BY <1>2, <1>3, <1>6, CheckOptional
<1>11. ~core.ended_at.required
  BY <1>3, Presence
<1>12. Part(core, data)
  BY <1>2, <1>3, <1>8, <1>9, <1>10, <1>11 DEF Part
<1>13. DOMAIN data \subseteq DOMAIN core
  BY <1>2, <1>3, <1>4, GraphForms
<1>14. NoNulls(data)
  BY <1>2, <1>3, <1>5, <1>6, <1>7, <1>13, ClassesTidy DEF NoNulls
<1>15. TimesInvariant(data)
  BY <1>2, <1>5 DEF TimesInvariant
<1>16. Sound("journal_entry", data)
  BY <1>12, <1>13, <1>14, <1>15 DEF Sound, Cross, core
<1> QED BY <1>16 DEF data

\* A review stamps three fields, which are the Project's to have.
LEMMA ReviewSound ==
  ASSUME NEW data, Sound("project", data), Check(ProjectCore, ReviewedData(data)),
         ProjectStatusTimestampInvariant(ReviewedData(data))
  PROVE  Sound("project", ReviewedData(data))
<1> DEFINE stamp == [last_reviewed_at |-> "now", next_review_at |-> "anchor",
                     review_every |-> "weekly"]
           after == ReviewedData(data)
<1>1. /\ DOMAIN after = DOMAIN stamp \cup DOMAIN data
      /\ \A name \in DOMAIN stamp : after[name] = stamp[name]
      /\ \A name \in DOMAIN data \ DOMAIN stamp : after[name] = data[name]
  BY DEF ++, ReviewedData
<1>2. \A name \in DOMAIN stamp : stamp[name] # "null"
  OBVIOUS
<1> HIDE DEF stamp, after
<1>3. NoNulls(data)
  BY DEF Sound
<1>4. NoNulls(after)
  BY <1>1, <1>2, <1>3 DEF NoNulls
<1>5. DOMAIN after \subseteq DOMAIN ProjectCore /\ Part(ProjectCore, after)
  BY CheckParts DEF after
<1>6. Core("project") = ProjectCore
  BY DEF Core, DataCore
<1> QED BY <1>4, <1>5, <1>6 DEF Sound, Cross, after

\* No field of an Observation may be cleared.
LEMMA RecordSound ==
  ASSUME NEW schema \in DOMAIN ObservationValues, NEW draft, ValidateObservation(schema, draft)
  PROVE  NoNulls(draft)
<1> DEFINE base == [occurred_at |-> Required(LocalDateTime), ended_at |-> Optional(LocalDateTime),
                    note |-> Optional(String)]
           spec == ObservationDraft(schema)
<1>1. \A name \in DOMAIN base : ~base[name].clearable
  BY Clearing
<1>2. \A name \in DOMAIN ObservationValues[schema] : ~ObservationValues[schema][name].clearable
  BY Clearing DEF ObservationValues
<1>3. spec = base ++ ObservationValues[schema]
  BY DEF ObservationDraft
<1> HIDE DEF base, spec
<1>4. \A name \in DOMAIN spec : ~spec[name].clearable
  BY <1>1, <1>2, <1>3 DEF ++
<1>5. Tidy(spec)
  BY DraftTidy DEF spec
<1>6. DOMAIN draft \subseteq DOMAIN spec /\ Part(spec, draft)
  BY CheckParts DEF ValidateObservation, spec
<1> QED BY <1>4, <1>5, <1>6 DEF NoNulls, Part, CheckField, Tidy, TidyField
(***************************************************************************)
(* What is stored is sound for the type its kind names.                    *)
(***************************************************************************)
Filed(k, data) ==
    IF k \in Records THEN NoNulls(data) /\ ValidateObservation(k[2], data)
                    ELSE k[2] \in EntityType /\ Sound(k[2], data)
StoredFiled == stored # None => Filed(kind, stored)

LEMMA RecordsApart ==
  /\ Records \cap MutationKind = {} /\ Unset \notin Records /\ Unset[2] \notin EntityType
  /\ \A type : <<"node", type>> \notin Records
  /\ \A k \in Records : k[2] \in DOMAIN ObservationValues /\ k[2] # "project"
<1>1. \A k \in Records : k[1] = "record" /\ k[2] \in DOMAIN ObservationValues
  BY DEF Records, ObservationBatch
<1>2. "project" \notin DOMAIN ObservationValues
  BY DEF ObservationValues
<1>3. \A k \in MutationKind : k[1] # "record"
  BY DEF MutationKind
<1> QED BY <1>1, <1>2, <1>3 DEF Unset, EntityType

LEMMA SendFiles == ASSUME StoredFiled, Send PROVE StoredFiled'
<1>1. PICK word \in {"create", "update"}, type \in EntityType : kind = <<word, type>>
  BY DEF Send, MutationKind, WriteClass
<1>2. Sound(type, EntityDataPayload(kind, payload))
  BY <1>1, StoredSound DEF Send
<1>3. kind \notin Records
  BY RecordsApart DEF Send
<1> QED BY <1>1, <1>2, <1>3 DEF Send, Store, StoredFiled, Filed

LEMMA RecordFiles == ASSUME StoredFiled, Record PROVE StoredFiled'
<1>1. kind[2] \in DOMAIN ObservationValues /\ ValidateObservation(kind[2], payload)
  BY RecordsApart DEF Record
<1>2. NoNulls(payload)
  BY <1>1, RecordSound
<1> QED BY <1>1, <1>2 DEF Record, Store, StoredFiled, Filed

LEMMA MintNodeFiles == ASSUME StoredFiled, NEW edits, MintNode(edits) PROVE StoredFiled'
<1> DEFINE data == MergeEditedFields(NodeData(payload), edits)
<1>1. PICK type \in Referenceable : kind = <<"node", type>>
  BY DEF MintNode
<1>2. type \in EntityType
  BY DEF Referenceable, EntityType
<1>3. Check(NodeSpec(type), payload)
  <2>0. kind \in NodeKinds /\ kind \notin ObservationBatch
    BY <1>1, RecordsApart DEF NodeKinds, Records
  <2>1. PayloadSpecOf(kind) = NodeSpec(type)
    BY <1>1, <2>0 DEF PayloadSpecOf
  <2>2. kind # Task
    BY <1>1 DEF Task
  <2> QED BY <2>1, <2>2 DEF MintNode, Spec
<1>4. Validate(<<"create", type>>, data)
  <2>1. CASE edits = <<>>
    <3>1. Validate(<<"create", type>>, NodeData(payload))
      BY <1>3, NodeValid
    <3>2. data = NodeData(payload)
      <4>1. DOMAIN edits = {}
        BY <2>1
      <4>2. NodeData(payload) = [name \in DOMAIN NodeData(payload) |-> NodeData(payload)[name]]
        BY DEF NodeData, Without
      <4> QED BY <4>1, <4>2 DEF MergeEditedFields, Without, ++
    <3> QED BY <3>1, <3>2
  <2>2. CASE edits # <<>>
    BY <1>1, <2>2 DEF MintNode
  <2> QED BY <2>1, <2>2
<1>5. stored' = EntityDataPayload(<<"create", type>>, data) /\ kind' = kind
  BY <1>1 DEF MintNode, Store
<1> HIDE DEF data
<1>6. Sound(type, EntityDataPayload(<<"create", type>>, data))
  BY <1>2, <1>4, StoredSound
<1>7. kind \notin Records
  BY <1>1, RecordsApart
<1> QED BY <1>1, <1>2, <1>5, <1>6, <1>7 DEF StoredFiled, Filed

LEMMA MintEntryFiles ==
  ASSUME BackwardsNode = FALSE, StoredFiled, MintEntry
  PROVE  StoredFiled'
<1> DEFINE data == [body |-> WovenBody(payload.body)] ++ NodeData(payload)
<1>1. kind = <<"node", "journal_entry">> /\ kind \notin Records
  BY RecordsApart DEF MintEntry
<1>2. Check(GraphEntry, payload)
  <2>0. kind \in NodeKinds /\ kind \notin ObservationBatch
    BY <1>1, RecordsApart DEF NodeKinds, Records
  <2>1. PayloadSpecOf(kind) = GraphEntry
    BY <1>1, <2>0 DEF PayloadSpecOf, NodeSpec
  <2>2. kind # Task
    BY <1>1 DEF Task
  <2> QED BY <2>1, <2>2 DEF MintEntry, Spec
<1>3. Sound("journal_entry", data)
  BY <1>2, EntryNodeSound DEF MintEntry
<1>4. EntityDataPayload(<<"create", "journal_entry">>, data) = data
  BY DEF EntityDataPayload
<1>5. stored' = data /\ kind' = kind
  BY <1>4 DEF MintEntry, Store
<1> HIDE DEF data
<1> QED BY <1>1, <1>3, <1>5 DEF StoredFiled, Filed, EntityType

LEMMA ReviewFiles == ASSUME StoredFiled, Review PROVE StoredFiled'
<1>1. kind \notin Records /\ kind[2] = "project"
  BY RecordsApart DEF Review
<1>2. Sound("project", stored)
  BY <1>1 DEF Review, StoredFiled, Filed
<1>3. Sound("project", ReviewedData(stored))
  BY <1>2, ReviewSound DEF Review
<1> QED BY <1>1, <1>3 DEF Review, Store, StoredFiled, Filed, EntityType

LEMMA NextFiles ==
  ASSUME BackwardsNode = FALSE, StoredFiled, [NextPayloads]_payloadVars
  PROVE  StoredFiled'
<1>1. CASE Tomorrow
  BY <1>1 DEF Tomorrow, StoredFiled
<1>2. ASSUME NEW k \in Begun, Begin(k) PROVE StoredFiled'
  <2>1. stored = None
    BY <1>2, RecordsApart DEF Begin, StoredFiled, Filed
  <2> QED BY <1>2, <2>1 DEF Begin, StoredFiled
<1>3. ASSUME NEW name, NEW value, Put(name, value) PROVE StoredFiled'
  BY <1>3 DEF Put, StoredFiled
<1>4. CASE Send
  BY <1>4, SendFiles
<1>5. CASE Record
  BY <1>5, RecordFiles
<1>6. CASE MintEntry
  BY <1>6, MintEntryFiles
<1>7. CASE Review
  BY <1>7, ReviewFiles
<1>8. ASSUME NEW edits \in Corrections, MintNode(edits) PROVE StoredFiled'
  BY <1>8, MintNodeFiles
<1>9. CASE UNCHANGED payloadVars
  BY <1>9 DEF payloadVars, StoredFiled
<1> QED BY <1>1, <1>2, <1>3, <1>4, <1>5, <1>6, <1>7, <1>8, <1>9 DEF NextPayloads

(***************************************************************************)
(* Whatever is put together and by whomever, what is stored has no null    *)
(* left in it and passes the validator of an update when it is sent back   *)
(* whole; a graph's entry that ends before it begins is the one exception  *)
(* (BackwardsNode).                                                        *)
(***************************************************************************)
THEOREM StoredStaysEditable ==
  ASSUME BackwardsNode = FALSE
  PROVE  SpecPayloads => []EditableAsStored
<1>1. InitPayloads => StoredFiled
  BY DEF InitPayloads, StoredFiled
<1>2. StoredFiled /\ [NextPayloads]_payloadVars => StoredFiled'
  BY NextFiles
<1>3. StoredFiled => EditableAsStored
  <2> SUFFICES ASSUME StoredFiled, stored # None PROVE EditableAsStored
    BY DEF EditableAsStored
  <2>1. Filed(kind, stored)
    BY DEF StoredFiled
  <2>2. CASE kind \in Records
    BY <2>1, <2>2 DEF Filed, NoNulls, EditableAsStored
  <2>3. CASE kind \notin Records
    <3>1. kind[2] \in EntityType /\ Sound(kind[2], stored)
      BY <2>1, <2>3 DEF Filed
    <3>2. Validate(<<"update", kind[2]>>, [entity_id |-> "id"] ++ stored)
      BY <3>1, SoundEditable
    <3> QED BY <2>3, <3>1, <3>2 DEF Sound, NoNulls, EditableAsStored
  <2> QED BY <2>2, <2>3
<1> QED BY <1>1, <1>2, <1>3, PTL DEF SpecPayloads
=============================================================================
