----------------------------- MODULE Workspace ------------------------------
(***************************************************************************)
(* Tier 2: Entities, the references woven into Journal Entries, and        *)
(* Observations, written by the user's entity/mutate and observation       *)
(* calls and by the Proposals the user accepts.  A request that names      *)
(* other rows is checked against the pool first and applied in one         *)
(* transaction later; a delete, or another decide, may come in between.    *)
(*                                                                         *)
(* The database is one record and every write an operator from database    *)
(* to database.  An Entity is the position of its row; a deleted one       *)
(* leaves Gone behind and no id comes back.  A body is a sequence of       *)
(* <<"text", name>>, <<"chip", source, target>> for a node that holds the  *)
(* id of that entity_refs row, and <<"hole", k>> for a placeholder.        *)
(* Bookkeeping rows nobody reads here (Entity and Observation sources that *)
(* are not the origin of an entry) are checked for, not kept; a Project    *)
(* is a Person under another name and Media takes part in nothing.         *)
(***************************************************************************)
EXTENDS Mutations, Integers, Sequences

CONSTANTS
    Names,          \* the names people have
    Threads,
    Proposals,
    Start,          \* the databases a history may start from
    MaxWrites,      \* bound: requests of the user, beside deciding
    MaxBody,        \* bound: nodes of a body
    MaxTyped        \* bound: nodes of a body sent whole

VARIABLES
    db,     \* the committed tables
    prop,   \* proposals, each parked by a Run of its own
    call,   \* the requests between their checks and their transaction
    writes  \* the user's requests so far

vars == <<db, prop, call, writes>>

Gone == [type |-> "gone"]
Idle == [kind |-> "idle"]
NoThread == "no thread"
NoLabel == "no label"
User == "user"

Text(name) == <<"text", name>>
Chip(source, target) == <<"chip", source, target>>
Hole(k) == <<"hole", k>>
LostText == <<<<"lost">>>>

(***************************************************************************)
(* Reads.                                                                  *)
(***************************************************************************)
Ids(d) == 1..Len(d.ent)
EntityIsType(d, e, type) == e \in Ids(d) /\ d.ent[e].type = type
Live(d, type) == {e \in Ids(d) : EntityIsType(d, e, type)}

EntityRef(d, source, target) ==
    {r \in d.refs : r.source = source /\ r.target = target}
EntityRefBelongs(d, node, source) ==
    node[2] = source /\ EntityRef(d, source, node[3]) # {}

\* Current row and every revision: a correction does not free the old Habit.
ReferencedNow(d, habit) == \E o \in DOMAIN d.obs : d.obs[o].habit = habit
ReferencedByObservation(d, habit) ==
    \E o \in DOMAIN d.obs : habit \in {d.obs[o].habit} \cup d.obs[o].past

\* A Journal Entry created from a user Message of the Thread.
AnyEntryIsValid(d, thread, e) == EntityIsType(d, e, "journal_entry")

JournalEntryTargetIsValid(d, thread, e) ==
    EntityIsType(d, e, "journal_entry") /\ d.ent[e].origin = thread

\* The Entity a decided Proposal is answered with again.
EntityForProposal(d, p) ==
    LET touched == {e \in Ids(d) : d.ent[e] # Gone /\ p \in d.ent[e].by}
        entries == touched \cap Live(d, "journal_entry")
        candidates == IF entries # {} THEN entries ELSE touched
    IN  {e \in candidates : \A other \in candidates : other <= e}

\* What is answered to a decide that was answered before: nothing for a batch,
\* else the Entity found, else the target the payload names, else an error.
Unanswerable == -1
PriorOutcome(d, p, payload) ==
    LET found == EntityForProposal(d, p)
    IN  CASE payload.kind[1] = "record" -> 0
          [] found # {} -> CHOOSE e \in found : TRUE
          [] payload.kind[1] # "graph" /\ TargetKey(payload.kind) # "none" -> payload.target
          [] OTHER -> Unanswerable

(***************************************************************************)
(* Writes.                                                                 *)
(***************************************************************************)
Row(type, name, body, origin, who) ==
    [type |-> type, name |-> name, body |-> body, origin |-> origin,
     by |-> {who} \ {User}]

InsertEntity(d, row) == [d EXCEPT !.ent = Append(@, row)]

UpdateEntity(d, e, name, body, who) ==
    [d EXCEPT !.ent[e].name = name, !.ent[e].body = body,
              !.ent[e].by = @ \cup ({who} \ {User})]

\* ON CONFLICT DO NOTHING: the first row, and its label, stay.
InsertEntityRef(d, source, target, label) ==
    IF EntityRef(d, source, target) # {} THEN d
    ELSE [d EXCEPT !.refs =
            @ \cup {[source |-> source, target |-> target, label |-> label]}]

LabelAtDeletion(d, ref) ==
    IF ref.label = NoLabel THEN d.ent[ref.target].name ELSE ref.label

TextualizeOwn(d, target, who) ==
    [d EXCEPT !.ent =
        [e \in DOMAIN @ |->
            IF @[e] # Gone /\ @[e].origin # NoThread /\ EntityRef(d, e, target) # {}
              THEN [@[e] EXCEPT !.body =
                        [i \in DOMAIN @ |-> IF @[i] = Chip(e, target) THEN Text(NoLabel)
                                                                   ELSE @[i]]]
              ELSE @[e]]]

\* Every entry with a row for the Entity gets a revision without its chips.
WithoutChips(d, e, target, who) ==
    LET ref == CHOOSE r \in EntityRef(d, e, target) : TRUE
    IN  [d.ent[e] EXCEPT
            !.body = [i \in DOMAIN @ |->
                        IF @[i] = Chip(e, target) THEN Text(LabelAtDeletion(d, ref)) ELSE @[i]],
            !.by = @ \cup ({who} \ {User})]

Textualize(d, target, who) ==
    [d EXCEPT !.ent =
        [e \in DOMAIN @ |->
            IF EntityRef(d, e, target) = {} THEN @[e] ELSE WithoutChips(d, e, target, who)]]

DeleteEntityRowOnly(d, e) == [d EXCEPT !.ent[e] = Gone]

\* The foreign keys cascade to the rows that name the Entity.
DeleteEntity(d, e) ==
    [d EXCEPT !.ent[e] = Gone,
              !.refs = {r \in @ : r.source # e /\ r.target # e}]

(***************************************************************************)
(* One mutation of one Entity: entity/mutate, or an accepted Proposal.     *)
(* "other" is the Entity a reference points to or the Journal Entry a      *)
(* create cites; 0 is no Entity.                                           *)
(***************************************************************************)
\* Both ends of a reference: its entry, and somebody or something to mention.
ReferenceExists(d, m) ==
    /\ EntityIsType(d, m.target, "journal_entry")
    /\ \E type \in Referenceable : EntityIsType(d, m.other, type)

TargetRefsHold(d, m) ==
    CASE TargetRefs(m.kind) = "SourceAnchor" ->
            m.other = 0 \/ EntityIsType(d, m.other, "journal_entry")
      [] TargetRefs(m.kind) = "GenericTarget" -> EntityIsType(d, m.target, m.kind[2])
      [] TargetRefs(m.kind) = "ReferenceWeave" -> ReferenceExists(d, m)
      [] OTHER -> TRUE

\* What decide asks beyond that: an agent works on the entries of its Thread.
SameThreadGuard(d, thread, m) ==
    m.kind \in {<<"update", "journal_entry">>, <<"delete", "journal_entry">>,
                <<"reference", "journal_entry">>}
        => JournalEntryTargetIsValid(d, thread, m.target)

\* Every chip of an entry sent whole is one of its own.
BodyRefsBelong(d, m) ==
    \A i \in DOMAIN m.body :
        m.body[i][1] = "chip" => EntityRefBelongs(d, m.body[i], m.target)

\* The conditions under which the transaction commits.
Commits(d, m) ==
    CASE m.kind[1] = "create" ->
            m.other = 0 \/ EntityIsType(d, m.other, "journal_entry")
      [] m.kind[1] = "reference" ->
            EntityIsType(d, m.target, "journal_entry") /\ EntityIsType(d, m.other, "person")
      [] m.kind[1] = "update" ->
            EntityIsType(d, m.target, m.kind[2]) /\ BodyRefsBelong(d, m)
      [] m.kind[1] = "delete" ->
            /\ EntityIsType(d, m.target, m.kind[2])
            /\ m.kind[2] = "habit" => ~ReferencedByObservation(d, m.target)

FillHole(body, node) ==
    [i \in DOMAIN body |-> IF body[i][1] = "hole" THEN node ELSE body[i]]

ApplyEntityMutation(d, m, origin, who) ==
    CASE m.kind[1] = "create" ->
            InsertEntity(d, Row(m.kind[2], m.name, m.body,
                                IF m.other = 0 THEN origin ELSE NoThread, who))
      [] m.kind[1] = "update" -> UpdateEntity(d, m.target, m.name, m.body, who)
      [] m.kind[1] = "reference" ->
            UpdateEntity(InsertEntityRef(d, m.target, m.other, m.label), m.target,
                         m.name, FillHole(m.body, Chip(m.target, m.other)), who)
      [] m.kind[1] = "delete" ->
            DeleteEntity(IF m.kind[2] \in Referenceable
                           THEN Textualize(d, m.target, who) ELSE d, m.target)

Answer(d, m) == IF m.kind[1] = "create" THEN Len(d.ent) + 1 ELSE m.target

(***************************************************************************)
(* The intent graph: an entry, new or already there, and one or two people *)
(* it mentions.  Nodes are resolved against the tables as the transaction  *)
(* finds them, all of them before the first is minted.                     *)
(***************************************************************************)
ExactLabelMatches(d, name) == {e \in Live(d, "person") : d.ent[e].name = name}

Reuse(e) == [op |-> "reuse", id |-> e, name |-> NoLabel]
Create(name) == [op |-> "create", id |-> 0, name |-> name]
Drop == [op |-> "drop", id |-> 0, name |-> NoLabel]
Fail == [op |-> "fail", id |-> 0, name |-> NoLabel]

ResolveByLabel(d, node) ==
    LET matches == ExactLabelMatches(d, node.name)
    IN  CASE matches = {} -> Create(node.name)
          [] Cardinality(matches) = 1 -> Reuse(CHOOSE e \in matches : TRUE)
          [] OTHER -> Fail

ResolveHintOrMint(d, node) ==
    IF EntityIsType(d, node.hint, "person") THEN Reuse(node.hint)
    ELSE IF node.hint # 0 THEN Create(node.name) ELSE ResolveByLabel(d, node)

\* A hint that no longer names a person is ignored.
ResolveDisposition(d, node) ==
    IF EntityIsType(d, node.hint, "person") THEN Reuse(node.hint)
    ELSE ResolveByLabel(d, node)

\* The user's decision on the node: accept, reject, another Entity, or a
\* corrected name for one that is to be minted.
ResolveNode(d, node, decision) ==
    CASE decision[1] = "reject" -> Drop
      [] decision[1] = "override" ->
            IF EntityIsType(d, decision[2], "person") THEN Reuse(decision[2]) ELSE Fail
      [] decision[1] = "accept" -> ResolveDisposition(d, node)
      [] decision[1] = "edit" ->
            LET natural == ResolveDisposition(d, node)
            IN  IF natural.op = "create" THEN Create(decision[2]) ELSE Fail

\* The nodes up to the k-th that are to be created.
Creates(plan, k) == {j \in 1..k : plan[j].op = "create"}

\* Handle to id: the k-th node's Entity, 0 when it was dropped.
HandleToId(d, plan) ==
    [k \in DOMAIN plan |->
        CASE plan[k].op = "reuse" -> plan[k].id
          [] plan[k].op = "create" -> Len(d.ent) + Cardinality(Creates(plan, k))
          [] OTHER -> 0]

\* The n-th of them is the n-th new row.
MintedFrom(plan, n) ==
    CHOOSE k \in Creates(plan, Len(plan)) : Cardinality(Creates(plan, k)) = n

MintCreates(d, plan, p) ==
    [d EXCEPT !.ent =
        @ \o [n \in 1..Cardinality(Creates(plan, Len(plan))) |->
                Row("person", plan[MintedFrom(plan, n)].name, <<>>, NoThread, p)]]

\* One entity_refs row per Entity, labelled by the first link to it.
WeaveRefs(d, entry, g, ids) ==
    LET linked == {k \in DOMAIN ids : ids[k] # 0}
        first == {k \in linked : \A j \in linked : ids[j] = ids[k] => k <= j}
        fresh == {k \in first : EntityRef(d, entry, ids[k]) = {}}
    IN  [d EXCEPT !.refs = @ \cup
            {[source |-> entry, target |-> ids[k], label |-> g.nodes[k].name] : k \in fresh}]

\* A new entry: a hole becomes the chip of its node, or the node's name.
WeaveAndMint(d, g, ids, thread, p) ==
    LET entry == Len(d.ent) + 1
        woven == [i \in DOMAIN g.body |->
                    IF g.body[i][1] # "hole" THEN g.body[i]
                    ELSE LET k == g.body[i][2]
                         IN  IF ids[k] = 0 THEN Text(g.nodes[k].name)
                                           ELSE Chip(entry, ids[k])]
    IN  WeaveRefs(InsertEntity(d, Row("journal_entry", NoLabel, woven, thread, p)),
                  entry, g, ids)

\* An entry already there: each link turns the first node that holds the text
\* it matched into a chip, or appends a clause that holds one.
PlaceChip(body, match, append, chip) ==
    IF append THEN Append(body, chip)
    ELSE LET mentions == {i \in DOMAIN body : body[i] = Text(match)}
         IN  IF mentions = {} THEN LostText
             ELSE [body EXCEPT ![CHOOSE i \in mentions : \A j \in mentions : i <= j] = chip]

SplicedBody(body, g, ids) ==
    LET Place[k \in 0..Len(ids)] ==
            IF k = 0 THEN body
            ELSE IF ids[k] = 0 \/ Place[k - 1] = LostText THEN Place[k - 1]
            ELSE PlaceChip(Place[k - 1], g.nodes[k].name, g.append,
                           Chip(g.entry, ids[k]))
    IN  Place[Len(ids)]

AnchorReuse(d, g, ids, p) ==
    UpdateEntity(WeaveRefs(d, g.entry, g, ids), g.entry, NoLabel,
                 SplicedBody(d.ent[g.entry].body, g, ids), p)

GraphPlan(d, g, decisions) ==
    [k \in DOMAIN g.nodes |-> ResolveNode(d, g.nodes[k], decisions.nodes[k])]

\* An entry that is there already must be one the Thread captured, and every
\* link must find its place in it.
AnchorHolds(d, g, ids, thread) ==
    /\ JournalEntryTargetIsValid(d, thread, g.entry)
    /\ SplicedBody(d.ent[g.entry].body, g, ids) # LostText

\* The entry is part of the graph and the user kept it.
EntryKept(g, decisions) == g.mode # "none" /\ decisions.entry

RejectsAll(g, decisions) ==
    ~EntryKept(g, decisions) /\ \A k \in DOMAIN g.nodes : decisions.nodes[k][1] = "reject"

GraphCommits(d, g, decisions, thread) ==
    LET plan == GraphPlan(d, g, decisions)
    IN  /\ \A k \in DOMAIN plan : plan[k].op # "fail"
        /\ EntryKept(g, decisions) \/ \E k \in DOMAIN plan : plan[k].op = "create"
        /\ EntryKept(g, decisions) /\ g.mode = "reuse" =>
              AnchorHolds(d, g, HandleToId(d, plan), thread)

ApplyIntentGraph(d, g, decisions, thread, p) ==
    LET plan == GraphPlan(d, g, decisions)
        ids == HandleToId(d, plan)
        minted == MintCreates(d, plan, p)
    IN  IF ~EntryKept(g, decisions) THEN minted
        ELSE IF g.mode = "new" THEN WeaveAndMint(minted, g, ids, thread, p)
        ELSE AnchorReuse(minted, g, ids, p)

\* The entry, or else the first Entity minted.
GraphAnchor(d, g, decisions) ==
    IF ~EntryKept(g, decisions) THEN Len(d.ent) + 1
    ELSE IF g.mode = "new"
      THEN Len(MintCreates(d, GraphPlan(d, g, decisions), User).ent) + 1
    ELSE g.entry

(***************************************************************************)
(* Observations.  A draft is the Habit of a check-in, or 0 for a schema    *)
(* with no relation; a batch is recorded whole or not at all.              *)
(***************************************************************************)
InvalidRelation(d, habit) == habit # 0 /\ ~EntityIsType(d, habit, "habit")

BatchCommits(d, batch) ==
    /\ \A k \in DOMAIN batch.drafts : ~InvalidRelation(d, batch.drafts[k])
    /\ batch.evidence = 0 \/ EntityIsType(d, batch.evidence, "journal_entry")

InsertObservations(d, batch) ==
    [d EXCEPT !.obs =
        @ \o [k \in DOMAIN batch.drafts |-> [habit |-> batch.drafts[k], past |-> {}]]]

CorrectObservation(d, o, habit) ==
    [d EXCEPT !.obs[o] = [habit |-> habit, past |-> @.past \cup {@.habit}]]

(***************************************************************************)
(* Consistent tables.  Rows keep their shape, and a row refers to rows     *)
(* that are there (the foreign keys of db/apply.rs's writes); an entry has *)
(* a body and nothing of a placeholder stays in it.                        *)
(***************************************************************************)
Labels == Names \cup {NoLabel}
Node(d) == {Text(l) : l \in Labels} \cup {Chip(s, t) : s \in Ids(d), t \in Ids(d)}

EntityRow(d) ==
    [type : EntityType, name : Labels, body : Seq(Node(d)),
     origin : Threads \cup {NoThread}, by : SUBSET Proposals]
RefRow(d) ==
    [source : Live(d, "journal_entry"), target : Live(d, "person"), label : Labels]
ObservationRow(d) == [habit : Ids(d) \cup {0}, past : SUBSET (Ids(d) \cup {0})]

Tables(d) ==
    /\ d \in [ent : Seq({Gone} \cup EntityRow(d)), refs : SUBSET RefRow(d),
               obs : Seq(ObservationRow(d))]
    /\ \A e \in Ids(d) :
          d.ent[e] # Gone => (d.ent[e].type = "journal_entry" <=> d.ent[e].body # <<>>)

(***************************************************************************)
(* A chip in an entry always resolves: it holds the id of a live row of    *)
(* that very entry, whatever was deleted, rewritten or woven meanwhile.    *)
(* (db/apply.rs, the in-transaction check of an update's body and the      *)
(* textualization; intent_graph.rs, the authoritative id of a repeated     *)
(* link.)                                                                  *)
(***************************************************************************)
ChipsResolve(d) ==
    \A e \in Live(d, "journal_entry") : \A i \in DOMAIN d.ent[e].body :
        LET node == d.ent[e].body[i]
        IN  node[1] = "chip" => node[2] = e /\ EntityRef(d, e, node[3]) # {}

(***************************************************************************)
(* A check-in's Habit, and every Habit it was corrected away from, still   *)
(* exists: neither an update racing the delete nor a batch decided later   *)
(* gets past.  (apply.rs delete-block, observations.rs                     *)
(* invalid_relation_reason; no foreign key stands behind it.)              *)
(***************************************************************************)
CheckinsKeepHabits(d) ==
    \A o \in DOMAIN d.obs :
        ({d.obs[o].habit} \cup d.obs[o].past) \ {0} \subseteq Live(d, "habit")

Consistent(d) == Tables(d) /\ ChipsResolve(d) /\ CheckinsKeepHabits(d)

\* A history starts from no rows, or from what an earlier one may have left.
ASSUME WorkspaceAssumption ==
    /\ MaxWrites \in Nat /\ MaxBody \in Nat /\ MaxTyped \in Nat
    /\ \A d \in Start : Consistent(d)

(***************************************************************************)
(* What is asked for.  An id is one that exists or did.                    *)
(***************************************************************************)
Mutation(kind, target, name, body, other, label) ==
    [kind |-> kind, target |-> target, name |-> name, body |-> body,
     other |-> other, label |-> label]

Bodies(nodes) == UNION {[1..n -> nodes] : n \in 1..MaxTyped}
Texts == {Text(n) : n \in Names}
ChipsSeen(d) == {Chip(r.source, r.target) : r \in d.refs}

SingleMutations(d, anchors) ==
    {Mutation(<<"create", "person">>, 0, n, <<>>, e, NoLabel) : n \in Names, e \in anchors}
    \cup {Mutation(<<"create", "journal_entry">>, 0, NoLabel, b, 0, NoLabel) : b \in Bodies(Texts)}
    \cup {Mutation(<<"create", "habit">>, 0, NoLabel, <<>>, 0, NoLabel)}
    \cup {Mutation(<<"update", "person">>, e, n, <<>>, 0, NoLabel) : e \in Ids(d), n \in Names}
    \cup {Mutation(<<"update", "journal_entry">>, e, NoLabel, b, 0, NoLabel) :
             e \in Ids(d), b \in Bodies(Texts \cup ChipsSeen(d))}
    \cup {Mutation(<<"delete", type>>, e, NoLabel, <<>>, 0, NoLabel) :
             type \in {"person", "journal_entry", "habit"}, e \in Ids(d)}
    \cup {Mutation(<<"reference", "journal_entry">>, e, NoLabel, <<Hole(1)>>, t, label) :
             e \in Ids(d), t \in Ids(d), label \in Names \cup {NoLabel}}

\* The ids of a type, the deleted ones with them.
Known(d, type) == {e \in Ids(d) : d.ent[e].type \in {type, "gone"}}

Nodes(d) == [name : Names, hint : Known(d, "person") \cup {0}]
NodeSeqs(d) ==
    {<<node>> : node \in Nodes(d)} \cup (Nodes(d) \X {node \in Nodes(d) : node.hint = 0})
Graph(mode, entry, body, append, nodes) ==
    [kind |-> <<"graph", "journal_entry">>, mode |-> mode, entry |-> entry,
     body |-> body, append |-> append, nodes |-> nodes]
Graphs(d) ==
    {Graph("none", 0, <<>>, FALSE, nodes) : nodes \in NodeSeqs(d)}
    \cup {Graph("new", 0, [k \in DOMAIN nodes |-> Hole(k)], FALSE, nodes) :
             nodes \in NodeSeqs(d)}
    \cup {Graph("reuse", e, <<>>, append, nodes) :
             e \in Known(d, "journal_entry"), append \in BOOLEAN, nodes \in NodeSeqs(d)}

Batches(d) ==
    [kind : {<<"record", "observations">>}, evidence : Ids(d) \cup {0},
     drafts : {<<h>> : h \in Ids(d) \cup {0}} \cup ((Ids(d) \cup {0}) \X {0})]

NodeDecisions(d) ==
    {<<"accept">>, <<"reject">>} \cup {<<"override", e>> : e \in Known(d, "person")}
        \cup {<<"edit", n>> : n \in Names}
Decisions(d, g) ==
    [entry : {g.mode # "none", FALSE}, nodes : [DOMAIN g.nodes -> NodeDecisions(d)]]

(***************************************************************************)
(* The steps.                                                              *)
(***************************************************************************)
Fits(d) ==
    \A e \in Live(d, "journal_entry") : Len(d.ent[e].body) <= MaxBody

Init ==
    /\ db \in Start
    /\ prop = [p \in Proposals |-> [status |-> "none"]]
    /\ call = [user |-> Idle, decide |-> Idle]
    /\ writes = 0

Write(d) == db' = d /\ Fits(d)
Request == writes < MaxWrites /\ writes' = writes + 1

\* entity/mutate: validated and looked up, then applied.
AskMutate(m) ==
    /\ call.user = Idle
    /\ m.kind \in DirectMutationKind
    /\ TargetRefsHold(db, m)
    /\ Request
    /\ call' = [call EXCEPT !.user = m]
    /\ UNCHANGED <<db, prop>>

ApplyMutate ==
    LET m == call.user
    IN  /\ m # Idle
        /\ IF Commits(db, m) THEN Write(ApplyEntityMutation(db, m, NoThread, User))
                             ELSE UNCHANGED db
        /\ call' = [call EXCEPT !.user = Idle]
        /\ UNCHANGED <<prop, writes>>

\* observation/record and observation/update.
RecordObservations(batch) ==
    /\ Request
    /\ BatchCommits(db, batch)
    /\ Write(InsertObservations(db, batch))
    /\ UNCHANGED <<prop, call>>

UpdateObservation(o, habit) ==
    /\ Request
    /\ (habit = 0) <=> (db.obs[o].habit = 0)
    /\ ~InvalidRelation(db, habit)
    /\ Write(CorrectObservation(db, o, habit))
    /\ UNCHANGED <<prop, call>>

\* The agent parks a Run on a Proposal.
Park(p, thread, payload) ==
    /\ prop[p].status = "none"
    /\ prop' = [prop EXCEPT ![p] =
          [status |-> "pending", thread |-> thread, payload |-> payload, answer |-> 0]]
    /\ UNCHANGED <<db, call, writes>>

Pending(p) == prop[p].status = "pending"
Accepted(p, answer) ==
    prop' = [prop EXCEPT ![p].status = "accepted", ![p].answer = answer]

Reject(p) ==
    /\ Pending(p)
    /\ prop' = [prop EXCEPT ![p].status = "rejected"]
    /\ UNCHANGED <<db, call, writes>>

\* An edit is a whole payload of the same kind that keeps the target.
Applicable(m, edited) ==
    \/ edited = m
    \/ /\ SupportsEdit(m.kind)
       /\ edited.kind = m.kind /\ edited.target = m.target /\ edited.other = m.other

AskDecide(p, m) ==
    /\ Pending(p) /\ call.decide = Idle
    /\ Applicable(prop[p].payload, m)
    /\ TargetRefsHold(db, m)
    /\ SameThreadGuard(db, prop[p].thread, m)
    /\ call' = [call EXCEPT !.decide = [kind |-> "decide", of |-> p, what |-> m]]
    /\ UNCHANGED <<db, prop, writes>>

ApplyDecide ==
    LET p == call.decide.of
        m == call.decide.what
    IN  /\ call.decide # Idle
        /\ IF Pending(p) /\ Commits(db, m)
             THEN /\ Write(ApplyEntityMutation(db, m, prop[p].thread, p))
                  /\ Accepted(p, Answer(db, m))
             ELSE UNCHANGED <<db, prop>>
        /\ call' = [call EXCEPT !.decide = Idle]
        /\ UNCHANGED writes

DecideGraph(p, decisions) ==
    LET g == prop[p].payload
    IN  /\ Pending(p)
        /\ IF RejectsAll(g, decisions)
             THEN prop' = [prop EXCEPT ![p].status = "rejected"] /\ UNCHANGED db
             ELSE /\ GraphCommits(db, g, decisions, prop[p].thread)
                  /\ Write(ApplyIntentGraph(db, g, decisions, prop[p].thread, p))
                  /\ Accepted(p, GraphAnchor(db, g, decisions))
        /\ UNCHANGED <<call, writes>>

DecideObservations(p) ==
    /\ Pending(p)
    /\ BatchCommits(db, prop[p].payload)
    /\ Write(InsertObservations(db, prop[p].payload))
    /\ Accepted(p, 0)
    /\ UNCHANGED <<call, writes>>

\* A decide on a Proposal that is pending, by its family.
ApplyOrReject(p) ==
    /\ Pending(p)
    /\ LET payload == prop[p].payload
       IN  \/ Reject(p)
           \/ /\ payload.kind[1] \notin {"graph", "record"}
              /\ \E m \in {payload} \cup SingleMutations(db, {payload.other}) : AskDecide(p, m)
           \/ /\ payload.kind[1] = "graph"
              /\ \E decisions \in Decisions(db, payload) : DecideGraph(p, decisions)
           \/ payload.kind[1] = "record" /\ DecideObservations(p)

AgentPayloads(d) ==
    {m \in SingleMutations(d, Ids(d) \cup {0}) : m.kind \in ProposableMutation}
        \cup Graphs(d) \cup Batches(d)

Next ==
    \/ \E m \in SingleMutations(db, {0}) : AskMutate(m)
    \/ ApplyMutate
    \/ \E batch \in Batches(db) : RecordObservations(batch)
    \/ \E o \in DOMAIN db.obs, habit \in Ids(db) \cup {0} : UpdateObservation(o, habit)
    \/ \E p \in Proposals :
          \/ \E thread \in Threads, payload \in AgentPayloads(db) : Park(p, thread, payload)
          \/ ApplyOrReject(p)
    \/ ApplyDecide

SpecWorkspace == Init /\ [][Next]_vars

-----------------------------------------------------------------------------
(***************************************************************************)
(* Proposals keep their shape.                                             *)
(***************************************************************************)
TypeOK ==
    /\ Tables(db)
    /\ \A p \in Proposals : prop[p].status \in {"none", "pending", "accepted", "rejected"}

(***************************************************************************)
(* Whatever refers to an Entity refers to one that is there: rows, chips   *)
(* and check-ins (db/apply.rs).                                            *)
(***************************************************************************)
ReferencesResolve == TypeOK /\ Consistent(db)

(***************************************************************************)
(* A capture whose names the user left alone never adds a second person of *)
(* a name that was there when it was accepted, however stale the agent's   *)
(* hints and the plan shown for it.  (intent_graph.rs resolve_node.)       *)
(***************************************************************************)
CaptureReuses ==
    [][\A p \in {q \in Proposals : Pending(q) /\ prop[q].payload.kind[1] = "graph"} :
          /\ prop'[p].status = "accepted"
          /\ \E new \in Live(db', "person") \ Ids(db), old \in Live(db, "person") :
                db'.ent[new].name = db.ent[old].name
          => (\A decisions \in Decisions(db, prop[p].payload) :
                DecideGraph(p, decisions) =>
                    \E k \in DOMAIN decisions.nodes : decisions.nodes[k][1] = "edit")]_vars

(***************************************************************************)
(* What the user accepts from one Thread changes no entry of another, nor  *)
(* one the user wrote in the Library, but to turn the chips of a person it *)
(* deletes into text.  (decide.rs validate_current_thread_journal_entry,   *)
(* intent_graph.rs anchor_reuse_journal_entry.)                            *)
(***************************************************************************)
AgentTouchesOwnEntries ==
    [][\A p \in Proposals :
          Pending(p) /\ prop'[p].status = "accepted" =>
            \A e \in Live(db, "journal_entry") :
              db.ent[e].origin # prop[p].thread =>
                /\ EntityIsType(db', e, "journal_entry")
                /\ Len(db'.ent[e].body) = Len(db.ent[e].body)
                /\ \A i \in DOMAIN db.ent[e].body :
                      \/ db'.ent[e].body[i] = db.ent[e].body[i]
                      \/ /\ db.ent[e].body[i][1] = "chip"
                         /\ db'.ent[db.ent[e].body[i][3]] = Gone]_vars

(***************************************************************************)
(* A repeated decide answers what the first one answered.                  *)
(* (queries.rs:345 "the resolution matches the live decide anchor          *)
(* deterministically"; decide.rs prior_outcome.)  Does not hold.           *)
(***************************************************************************)
ReplayAnswersAnchor ==
    \A p \in Proposals :
        prop[p].status = "accepted" =>
            PriorOutcome(db, p, prop[p].payload) = prop[p].answer
=============================================================================
