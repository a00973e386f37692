------------------------------- MODULE Library -------------------------------
(***************************************************************************)
(* What the Library and the agent read of tier 2.  A read is a sequence of *)
(* statements on the pool without a transaction around them, so the user's *)
(* and the agent's writes come in between; a write is one transaction,     *)
(* stamped with the time its request read before it queued for the         *)
(* connection.                                                             *)
(*                                                                         *)
(* Unlike in Workspace the bookkeeping is kept here: every revision with   *)
(* its time, and the source rows of an Entity.  A body is what it mentions *)
(* (the refs), an entry's text is the day it occurred on, and a name is    *)
(* the set of its words.                                                   *)
(***************************************************************************)
EXTENDS Observations

CONSTANTS
    Writers,        \* requests that may wait at the same time
    NameSets,       \* sets of words
    Days,
    FirstRuns,      \* the Thread of each Run there is: a sequence
    Start,          \* the libraries a history may start from
    Hints,          \* existing_id hints of a plan: ids, 0 for none
    Batches,        \* payloads of record_observations there may be
    Corrections,    \* drafts of a correction there may be
    MaxRuns,        \* bound: Runs
    MaxWrites,      \* bound: write requests
    MaxTime,        \* bound: the clock
    SearchLimit,    \* the cap on search rows, small
    MaxNear         \* MAX_NEAR_MATCHES, small

VARIABLES
    lib,    \* the tables: ent, refs, obs
    runs,   \* Run -> Thread, in the order they started; a user Message each
    call,   \* per writer: a request between its clock and its transaction
    read,   \* the read under way, or the last answer
    clock,
    writes

libraryVars == <<lib, runs, call, read, clock, writes>>

Gone == [type |-> "gone"]
NoRequest == [op |-> "none"]
NoSource == [kind |-> "none", id |-> 0]
NoRow == [source |-> NoSource, relation |-> "none", at |-> 0]
User == 0

(***************************************************************************)
(* Rows.                                                                   *)
(***************************************************************************)
Live(d, type) == {e \in Ids(d) : EntityIsType(d, e, type)}

MessageSource(run) == [kind |-> "message", id |-> run]
EntrySource(e) == [kind |-> "entry", id |-> e]
SourceRow(source, relation, at) == [source |-> source, relation |-> relation, at |-> at]

InsertEntity(d, type, data, sources, at) ==
    [d EXCEPT !.ent = Append(@,
        [type |-> type, data |-> data, at |-> at, sources |-> sources,
         revs |-> <<[data |-> data, at |-> at]>>])]

UpdateEntity(d, e, data, at) ==
    [d EXCEPT !.ent[e].data = data,
              !.ent[e].revs = Append(@, [data |-> data, at |-> at])]

InsertSource(d, e, row) == [d EXCEPT !.ent[e].sources = Append(@, row)]

InsertEntityRef(d, source, target, label) ==
    IF \E r \in d.refs : r.source = source /\ r.target = target THEN d
    ELSE [d EXCEPT !.refs = @ \cup {[source |-> source, target |-> target, label |-> label]}]

\* Revisions go with the row; source rows, references and evidence that name
\* the Entity cascade away.
CascadeSources(sources, e) ==
    [k \in DOMAIN sources |-> IF sources[k].source = EntrySource(e) THEN NoRow ELSE sources[k]]

CascadeEvidence(source, e) == IF source # <<>> /\ source[1].entity = <<e>> THEN <<>> ELSE source

DeleteEntity(d, e) ==
    [ent |-> [k \in Ids(d) |->
                IF k = e \/ d.ent[k] = Gone THEN Gone
                ELSE [d.ent[k] EXCEPT !.sources = CascadeSources(@, e)]],
     refs |-> {r \in d.refs : r.source # e /\ r.target # e},
     obs |-> [o \in DOMAIN d.obs |-> [d.obs[o] EXCEPT !.source = CascadeEvidence(@, e)]]]

\* Every entry that mentions the Entity gets a revision without the chip; the
\* day it occurred on stays.
Revised(row, at) == [row EXCEPT !.revs = Append(row.revs, [data |-> row.data, at |-> at])]

Textualize(d, e, at) ==
    LET mentioning == {r.source : r \in {ref \in d.refs : ref.target = e}}
    IN  [d EXCEPT !.ent = [k \in Ids(d) |-> IF k \in mentioning THEN Revised(d.ent[k], at) ELSE d.ent[k]]]

(***************************************************************************)
(* The two questions the code asks of the created_from rows.               *)
(***************************************************************************)
CreatedFrom(d, e) == {k \in DOMAIN d.ent[e].sources : d.ent[e].sources[k].relation = "created_from"}

\* The Messages an Entity was made from.
OriginMessages(d, e) ==
    {source.id : source \in {src \in {d.ent[e].sources[k].source : k \in CreatedFrom(d, e)} : src.kind = "message"}}

JournalEntryTargetIsValid(d, run, e) ==
    /\ EntityIsType(d, e, "journal_entry")
    /\ \E message \in OriginMessages(d, e) : runs[message] = runs[run]

\* The Threads the query may answer with: LIMIT 1 names none of them.
JournalEntryOriginThreads(d, e) ==
    IF ~EntityIsType(d, e, "journal_entry") THEN {}
    ELSE {runs[message] : message \in OriginMessages(d, e)}

(***************************************************************************)
(* Single statements.                                                      *)
(***************************************************************************)
NewestFirst(d, ids) == OrderBy([e \in ids |-> <<d.ent[e].at, e, 0>>])

ListByType(d, type) == NewestFirst(d, Live(d, type))

JournalEntryRefsTargeting(d, e) ==
    {r.source : r \in {ref \in d.refs : ref.target = e /\ EntityIsType(d, ref.source, "journal_entry")}}

JournalEntriesByIds(d, ids) == ids \cap Live(d, "journal_entry")

EntityRefsForSources(d, ids) ==
    {[source |-> r.source, target |-> r.target, title |-> d.ent[r.target].data.name] :
        r \in {ref \in d.refs : ref.source \in ids /\ EntityIsType(d, ref.target, "person")}}

\* The oldest created_from row; a row read earlier may be gone by now.
ProvenanceForEntities(d, e) ==
    IF d.ent[e] = Gone \/ CreatedFrom(d, e) = {} THEN NoSource
    ELSE LET rows == d.ent[e].sources
             oldest == OrderBy([k \in CreatedFrom(d, e) |-> <<-rows[k].at, -k, 0>>])[1]
         IN  rows[oldest].source

\* ORDER BY created_at DESC, seq DESC.
LatestSeq(d, e) ==
    LET revs == d.ent[e].revs
    IN  OrderBy([seq \in DOMAIN revs |-> <<revs[seq].at, seq, 0>>])[1]

LatestRevision(d, e) == d.ent[e].revs[LatestSeq(d, e)].data

CurrentThreadJournalEntries(d, run) ==
    {e \in Live(d, "journal_entry") : JournalEntryTargetIsValid(d, run, e)}

LatestRevisedFirst(d, ids) ==
    OrderBy([e \in ids |-> <<d.ent[e].revs[LatestSeq(d, e)].at, LatestSeq(d, e), e>>])

CurrentEntityData(d, e, type) ==
    IF EntityIsType(d, e, type) THEN <<d.ent[e].data>> ELSE <<>>

(***************************************************************************)
(* Names.  Equal names are equal sets of words here.                       *)
(***************************************************************************)
ExactLabelMatches(d, name) == {e \in Live(d, "person") : d.ent[e].data.name = name}

IsNearMatch(a, b) == a # {} /\ b # {} /\ (a \subseteq b \/ b \subseteq a)

NearMatches(d, name) ==
    LET near == {e \in Live(d, "person") :
                    d.ent[e].data.name # name /\ IsNearMatch(name, d.ent[e].data.name)}
    IN  AtMost(MaxNear, NewestFirst(d, near))

Reuse(e) == [op |-> "reuse", ids |-> {e}]
Create(near) == [op |-> "create", ids |-> near]
Ambiguous(ids) == [op |-> "ambiguous", ids |-> ids]

ByLabel(d, name) ==
    LET exact == ExactLabelMatches(d, name)
    IN  CASE exact = {} -> Create(ToSet(NearMatches(d, name)))
          [] Cardinality(exact) = 1 -> Reuse(CHOOSE e \in exact : TRUE)
          [] OTHER -> Ambiguous(exact)

\* What decide resolves a node to, inside its transaction.
ResolveDisposition(d, node) ==
    IF EntityIsType(d, node.hint, "person") THEN Reuse(node.hint) ELSE ByLabel(d, node.name)

\* LIKE without word boundaries: any word of the name.
Matches(data, word) == word = "" \/ word \in data.name

(***************************************************************************)
(* Writes.                                                                 *)
(***************************************************************************)
Data(name, day) == [name |-> name, day |-> day]

Request(op, run, target, name, day, other) ==
    [op |-> op, run |-> run, target |-> target, name |-> name, day |-> day,
     other |-> other, payload |-> <<>>, at |-> clock]

\* A batch to record, by the user or as the accepted Proposal of a Run, and a
\* correction under the schema its Observation had when the request read it.
Record(run, payload) ==
    [Request("record", run, 0, {}, 0, 0) EXCEPT !.payload = <<payload>>]

Correct(o, draft) ==
    [Request("correct", User, o, {}, 0, 0) EXCEPT
        !.payload = <<Payload(<<RecordDraft(lib.obs[o].facts.schema, draft.occurred, draft.ended, draft.values)>>,
                              <<>>)>>]

Inserts(m) == PrepareObservations(m.payload[1])

Update(m) ==
    LET record == m.payload[1].observations[1]
    IN  PrepareObservationUpdate(record.schema, record.draft)

ByProposal(m) == IF m.run = User THEN <<>> ELSE <<m.run>>

\* What a request may name: the checks on the pool before the transaction.
TargetHolds(d, m) ==
    CASE m.op = "create" -> m.other = 0 \/ EntityIsType(d, m.other, "journal_entry")
      [] m.op = "rename" -> EntityIsType(d, m.target, "person")
      [] m.op \in {"move", "forget entry"} ->
            /\ EntityIsType(d, m.target, "journal_entry")
            /\ m.run # User => JournalEntryTargetIsValid(d, m.run, m.target)
      [] m.op = "reference" ->
            /\ EntityIsType(d, m.other, "person")
            /\ EntityIsType(d, m.target, "journal_entry")
            /\ m.run # User => JournalEntryTargetIsValid(d, m.run, m.target)
      [] m.op = "forget person" -> EntityIsType(d, m.target, "person")
      [] m.op = "forget habit" -> EntityIsType(d, m.target, "habit")
      [] m.op \in {"record", "correct"} -> ValidRecord(m.payload[1])
      [] OTHER -> TRUE

\* What makes the transaction commit.
Commits(d, m) ==
    CASE m.op \in {"rename", "forget person"} -> EntityIsType(d, m.target, "person")
      [] m.op \in {"move", "forget entry"} -> EntityIsType(d, m.target, "journal_entry")
      [] m.op = "forget habit" ->
            EntityIsType(d, m.target, "habit") /\ ~EntityReferencedByObservation(d, m.target)
      [] m.op = "capture" -> ResolveDisposition(d, [name |-> m.name, hint |-> 0]).op # "ambiguous"
      [] m.op = "record" -> BatchHolds(d, DOMAIN runs, Inserts(m))
      [] m.op = "correct" -> UpdateHolds(d, Update(m))
      [] OTHER -> TargetHolds(d, m)

\* The agent's writes leave a source row: the user Message of the Run, or the
\* entry a create cites.
SourceOf(m) ==
    IF m.op = "create" /\ m.other # 0 THEN EntrySource(m.other) ELSE MessageSource(m.run)

Sources(m) == IF m.run = User THEN <<>> ELSE <<SourceRow(SourceOf(m), "created_from", m.at)>>

ResourcedFrom(d, m) ==
    IF m.run = User THEN d
    ELSE InsertSource(d, m.target, SourceRow(MessageSource(m.run), "created_from", m.at))

UpdatedFrom(d, m) ==
    IF m.run = User THEN d
    ELSE InsertSource(d, m.target, SourceRow(MessageSource(m.run), "updated_from", m.at))

\* An accepted graph: an entry of this Run that mentions one person, found or
\* minted without a source.
Capture(d, m) ==
    LET who == ResolveDisposition(d, [name |-> m.name, hint |-> 0])
        minted == IF who.op = "create" THEN InsertEntity(d, "person", Data(m.name, 0), <<>>, m.at) ELSE d
        person == IF who.op = "create" THEN Len(minted.ent) ELSE CHOOSE e \in who.ids : TRUE
        entry == Len(minted.ent) + 1
    IN  InsertEntityRef(InsertEntity(minted, "journal_entry", Data({}, m.day), Sources(m), m.at),
                        entry, person, m.name)

ApplyEntityMutation(d, m) ==
    CASE m.op = "create" -> InsertEntity(d, "person", Data(m.name, 0), Sources(m), m.at)
      [] m.op = "rename" -> UpdatedFrom(UpdateEntity(d, m.target, Data(m.name, 0), m.at), m)
      [] m.op = "move" -> UpdatedFrom(UpdateEntity(d, m.target, Data({}, m.day), m.at), m)
      [] m.op = "reference" ->
            UpdatedFrom(UpdateEntity(InsertEntityRef(d, m.target, m.other, d.ent[m.other].data.name),
                                     m.target, d.ent[m.target].data, m.at), m)
      [] m.op = "forget person" -> DeleteEntity(Textualize(d, m.target, m.at), m.target)
      [] m.op \in {"forget entry", "forget habit"} -> DeleteEntity(d, m.target)
      [] m.op = "capture" -> Capture(d, m)
      [] m.op = "record" -> InsertObservations(d, Inserts(m), ByProposal(m), m.at)
      [] m.op = "correct" -> UpdateObservation(d, m.target, Update(m), m.at)

Send(w, m) ==
    /\ TargetHolds(lib, m)
    /\ call' = [call EXCEPT ![w] = m]

Ask(w) ==
    /\ call[w] = NoRequest
    /\ writes < MaxWrites
    /\ LET who == {User} \cup DOMAIN runs
           people == Live(lib, "person")
           entries == Live(lib, "journal_entry")
       IN  \/ \E r \in DOMAIN runs, n \in NameSets, j \in {0} \cup entries :
                 Send(w, Request("create", r, 0, n, 0, j))
           \/ \E n \in NameSets : Send(w, Request("create", User, 0, n, 0, 0))
           \/ \E r \in who, p \in people, n \in NameSets : Send(w, Request("rename", r, p, n, 0, 0))
           \/ \E r \in who, e \in entries, day \in Days : Send(w, Request("move", r, e, {}, day, 0))
           \/ \E r \in who, e \in entries, p \in people : Send(w, Request("reference", r, e, {}, 0, p))
           \/ \E r \in who, p \in people : Send(w, Request("forget person", r, p, {}, 0, 0))
           \/ \E r \in who, e \in entries : Send(w, Request("forget entry", r, e, {}, 0, 0))
           \/ \E h \in Live(lib, "habit") : Send(w, Request("forget habit", User, h, {}, 0, 0))
           \/ \E r \in DOMAIN runs, n \in NameSets, day \in Days : Send(w, Request("capture", r, 0, n, day, 0))
           \/ \E r \in who, payload \in Batches : Send(w, Record(r, payload))
           \/ \E o \in DOMAIN lib.obs, draft \in Corrections : Send(w, Correct(o, draft))
    /\ writes' = writes + 1
    /\ UNCHANGED <<lib, runs, read, clock>>

(***************************************************************************)
(* Reads.  "todo" is what the request has still to ask of the pool.  A     *)
(* history has one read, at any point of it, and its answer stays: a bound *)
(* that loses nothing, reads do not see each other.  "first" and "kept"    *)
(* remember the rows that qualified when the read began and all the way    *)
(* since, "clean" that nothing was written since.                          *)
(***************************************************************************)
Subject(d, kind, arg) ==
    CASE kind = "list" -> Live(d, arg.type)
      [] kind = "search" -> {e \in Live(d, "person") : Matches(d.ent[e].data, arg.word)}
      [] kind = "backlinks" -> JournalEntryRefsTargeting(d, arg.id)
      [] kind = "thread" -> CurrentThreadJournalEntries(d, arg.id)
      [] OTHER -> {}

EntityRowToWire(e, data) == [id |-> e, data |-> data, source |-> NoSource, refs |-> {}]

RowsOf(d, ids) == [k \in DOMAIN ids |-> EntityRowToWire(ids[k], d.ent[ids[k]].data)]

NoRead == [kind |-> "none", arg |-> [id |-> 0], todo |-> <<>>, rows |-> <<>>,
           first |-> {}, kept |-> {}, clean |-> TRUE, got |-> <<>>]

Begin(kind, arg, todo, rows, got) ==
    /\ read = NoRead
    /\ read' = [kind |-> kind, arg |-> arg, todo |-> todo, rows |-> rows,
                first |-> Subject(lib, kind, arg), kept |-> Subject(lib, kind, arg),
                clean |-> TRUE, got |-> got]
    /\ UNCHANGED <<lib, runs, call, clock, writes>>

HandleList ==
    \E type \in {"journal_entry", "person"} :
        Begin("list", [type |-> type],
              IF type = "journal_entry" THEN <<"provenance", "refs">> ELSE <<"provenance">>,
              RowsOf(lib, ListByType(lib, type)), <<>>)

SearchEntities ==
    \E word \in {""} \cup UNION NameSets :
        Begin("search", [word |-> word], <<"provenance">>,
              RowsOf(lib, ListByType(lib, "person")), <<>>)

HandleBacklinks ==
    \E e \in Live(lib, "person") :
        Begin("backlinks", [id |-> e], <<"entries", "refs", "provenance">>, <<>>, <<>>)

ReadCurrentThreadJournalEntries ==
    \E run \in DOMAIN runs :
        LET entries == LatestRevisedFirst(lib, CurrentThreadJournalEntries(lib, run))
        IN  Begin("thread", [id |-> run], <<"refs">>,
                  [k \in DOMAIN entries |-> EntityRowToWire(entries[k], LatestRevision(lib, entries[k]))], <<>>)

\* proposal/get of a graph, of an update, and a re-scan of an entry.
ResolvedPlan ==
    \E name \in NameSets, hint \in Hints :
        LET node == [name |-> name, hint |-> hint]
        IN  IF EntityIsType(lib, hint, "person")
              THEN Begin("plan", node, <<>>, <<>>, <<Reuse(hint)>>)
              ELSE Begin("plan", node, <<"label">>, <<>>, <<>>)

ReviewContext ==
    \E run \in DOMAIN runs, type \in {"journal_entry", "person"}, e \in Ids(lib) :
        Begin("review", [id |-> e, type |-> type],
              IF type = "person" \/ JournalEntryTargetIsValid(lib, run, e)
                THEN <<"data">> ELSE <<>>, <<>>, <<>>)

Rescan ==
    \E e \in Ids(lib) : \E thread \in JournalEntryOriginThreads(lib, e) :
        /\ Len(runs) < MaxRuns
        /\ Begin("rescan", [id |-> e], <<"start">>, <<>>, <<thread>>)

\* The rows that match, in their order.
MatchingRows(r) ==
    LET matching == {k \in DOMAIN r.rows : Matches(r.rows[k].data, r.arg.word)}
        order == OrderBy([k \in matching |-> <<-k, 0, 0>>])
    IN  [k \in DOMAIN order |-> r.rows[order[k]]]

FinishedCutFirst(r) ==
    IF r.kind = "search" THEN MatchingRows([r EXCEPT !.rows = AtMost(SearchLimit, @)]) ELSE r.rows

\* A search is cut only after every row is complete.
Finished(r) == IF r.kind = "search" THEN AtMost(SearchLimit, MatchingRows(r)) ELSE r.rows

Asks(statement) == read.todo # <<>> /\ Head(read.todo) = statement

Continue(rows, got) ==
    /\ read' = [read EXCEPT !.todo = Tail(@), !.got = got,
                            !.rows = IF Len(read.todo) = 1
                                       THEN Finished([read EXCEPT !.rows = rows]) ELSE rows]
    /\ UNCHANGED <<lib, call, clock, writes>>

\* The entries that still exist, newest occurrence first.
MentionedInJournalEntries ==
    /\ Asks("entries")
    /\ LET order == OrderBy([e \in JournalEntriesByIds(lib, read.first) |-> <<lib.ent[e].data.day, -e, 0>>])
       IN  Continue(RowsOf(lib, order), <<>>)
    /\ UNCHANGED runs

AttachProvenance ==
    /\ Asks("provenance")
    /\ Continue([k \in DOMAIN read.rows |->
                    [read.rows[k] EXCEPT !.source = ProvenanceForEntities(lib, read.rows[k].id)]], <<>>)
    /\ UNCHANGED runs

AttachJournalEntryRefs ==
    /\ Asks("refs")
    /\ Continue([k \in DOMAIN read.rows |->
                    [read.rows[k] EXCEPT !.refs = EntityRefsForSources(lib, {read.rows[k].id})]], <<>>)
    /\ UNCHANGED runs

ResolvePlanDisposition ==
    /\ Asks("label")
    /\ Continue(<<>>, <<ByLabel(lib, read.arg.name)>>)
    /\ UNCHANGED runs

CurrentEntityReviewData ==
    /\ Asks("data")
    /\ Continue(<<>>, CurrentEntityData(lib, read.arg.id, read.arg.type))
    /\ UNCHANGED runs

StartRescan ==
    /\ Asks("start")
    /\ runs' = Append(runs, read.got[1])
    /\ Continue(<<>>, <<read.got[1], Len(runs) + 1>>)

(***************************************************************************)
(* The transaction of a waiting request, and time.                         *)
(***************************************************************************)
Apply(w) ==
    /\ call[w] # NoRequest
    /\ lib' = IF Commits(lib, call[w]) THEN ApplyEntityMutation(lib, call[w]) ELSE lib
    /\ read' = [read EXCEPT !.kept = @ \cap Subject(lib', read.kind, read.arg),
                            !.clean = @ /\ lib' = lib]
    /\ call' = [call EXCEPT ![w] = NoRequest]
    /\ UNCHANGED <<runs, clock, writes>>

Tick ==
    /\ clock < MaxTime
    /\ clock' = clock + 1
    /\ UNCHANGED <<lib, runs, call, read, writes>>

(***************************************************************************)
(* The tables a history may start from are those that one can leave        *)
(* behind: every row names rows that are there, and an Entity was made     *)
(* from one thing.                                                         *)
(***************************************************************************)
SourceRowHolds(d, row, messages) ==
    \/ row = NoRow
    \/ /\ row = SourceRow(row.source, row.relation, row.at) /\ row.at \in Int
       /\ row.relation \in {"created_from", "updated_from"}
       /\ \/ \E message \in messages : row.source = MessageSource(message)
          \/ \E e \in Ids(d) : EntityIsType(d, e, "journal_entry") /\ row.source = EntrySource(e)

EntityHolds(d, row, messages) ==
    /\ row = [type |-> row.type, data |-> row.data, at |-> row.at, sources |-> row.sources,
              revs |-> row.revs]
    /\ row.type \in {"journal_entry", "person", "habit"}
    /\ row.data = Data(row.data.name, row.data.day) /\ row.data.day \in Int /\ row.at \in Int
    /\ IsSequence(row.revs) /\ row.revs # <<>>
    /\ \A rev \in ToSet(row.revs) : rev.at \in Int
    /\ IsSequence(row.sources)
    /\ \A source \in ToSet(row.sources) : SourceRowHolds(d, source, messages)

RefHolds(d, r) == EntityIsType(d, r.source, "journal_entry") /\ EntityIsType(d, r.target, "person")

TablesHold(d, messages) ==
    /\ d = [ent |-> d.ent, refs |-> d.refs, obs |-> d.obs]
    /\ IsSequence(d.ent) /\ IsSequence(d.obs)
    /\ \A e \in Ids(d) : d.ent[e] # Gone =>
          /\ EntityHolds(d, d.ent[e], messages)
          /\ \A j, k \in CreatedFrom(d, e) : j = k
    /\ \A r \in d.refs : RefHolds(d, r)
    /\ \A o \in DOMAIN d.obs : ObservationHolds(d, d.obs[o], messages)

ASSUME LibraryAssumption ==
    /\ {MaxRuns, MaxWrites, MaxTime, SearchLimit, MaxNear} \subseteq Nat
    /\ Days \subseteq Int
    /\ IsSequence(FirstRuns)
    /\ \A payload \in Batches : IsPayload(payload)
    /\ \A draft \in Corrections : IsDraft(draft)
    /\ \A d \in Start : TablesHold(d, DOMAIN FirstRuns)

InitLibrary ==
    /\ lib \in Start
    /\ runs = FirstRuns
    /\ call = [w \in Writers |-> NoRequest]
    /\ read = NoRead
    /\ clock = 0
    /\ writes = 0

NextLibrary ==
    \/ \E w \in Writers : Ask(w) \/ Apply(w)
    \/ HandleList \/ SearchEntities \/ HandleBacklinks \/ ReadCurrentThreadJournalEntries
    \/ ResolvedPlan \/ ReviewContext \/ Rescan
    \/ MentionedInJournalEntries \/ AttachProvenance \/ AttachJournalEntryRefs
    \/ ResolvePlanDisposition \/ CurrentEntityReviewData \/ StartRescan
    \/ Tick

SpecLibrary == InitLibrary /\ [][NextLibrary]_libraryVars

(***************************************************************************)
(* Properties.                                                             *)
(***************************************************************************)
\* Every variable has its shape and every row names rows that exist: a source
\* row, a reference or an observation's evidence goes when the Entity it names
\* is deleted.
RowsResolve ==
    /\ \A e \in Ids(lib) : lib.ent[e] # Gone =>
          /\ lib.ent[e].type \in {"journal_entry", "person", "habit"}
          /\ lib.ent[e].revs # <<>>
          /\ \A row \in ToSet(lib.ent[e].sources) \ {NoRow} :
                /\ row.relation \in {"created_from", "updated_from"}
                /\ row.source.kind \in {"message", "entry"}
                /\ row.source.kind = "message" => row.source.id \in DOMAIN runs
                /\ row.source.kind = "entry" => EntityIsType(lib, row.source.id, "journal_entry")
    /\ \A r \in lib.refs : EntityIsType(lib, r.source, "journal_entry") /\ EntityIsType(lib, r.target, "person")
    /\ \A o \in DOMAIN lib.obs : \A columns \in ToSet(lib.obs[o].source) :
          /\ \A e \in ToSet(columns.entity) : EntityIsType(lib, e, "journal_entry")
          /\ ToSet(columns.message) \subseteq DOMAIN runs
    /\ \A k \in DOMAIN runs : runs[k] \in ToSet(FirstRuns)
    /\ clock \in 0..MaxTime /\ writes \in 0..MaxWrites

\* Where an Entity came from never changes: it may be lost with the entry it
\* was captured from, but no later write, by the same Run or one of another
\* Thread, puts anything else in its place, and an entry has one origin
\* (queries.rs: a Journal Entry carries exactly one created_from source).
OriginStays ==
    [][\A e \in Ids(lib) : lib'.ent[e] # Gone /\ lib.ent[e] # Gone =>
          LET before == lib.ent[e].sources
              after == lib'.ent[e].sources
          IN  /\ \A j, k \in CreatedFrom(lib', e) : j = k
              /\ \/ /\ CreatedFrom(lib', e) = CreatedFrom(lib, e)
                    /\ \A k \in CreatedFrom(lib, e) : after[k] = before[k]
                 \/ /\ CreatedFrom(lib', e) = {}
                    /\ \A k \in CreatedFrom(lib, e) :
                          before[k].source.kind = "entry" /\ lib'.ent[before[k].source.id] = Gone]_lib

\* A list, a search, the backlinks of a person and the agent's reading of its
\* Thread, each made of several statements with writes between them, show no
\* row that did not qualify when the read began, and miss none that qualified
\* all along unless the search was cut at its limit.
AnswersFaithful ==
    read.todo = <<>> /\ read.kind \in {"list", "search", "backlinks", "thread"} =>
        LET shown == {read.rows[k].id : k \in DOMAIN read.rows}
        IN  /\ shown \subseteq read.first
            /\ read.kept \subseteq shown \/ (read.kind = "search" /\ Len(read.rows) = SearchLimit)

\* "Captured from" names the Message or entry the Entity was made from, never
\* one that only changed it later, or nothing when that is gone.
ShownOrigin ==
    read.todo = <<>> /\ read.kind \in {"list", "backlinks"} =>
        \A k \in DOMAIN read.rows :
            LET row == read.rows[k]
            IN  row.source = NoSource \/ lib.ent[row.id] = Gone \/
                \/ \E j \in CreatedFrom(lib, row.id) : lib.ent[row.id].sources[j].source = row.source
                \/ row.source.kind = "entry" /\ lib.ent[row.source.id] = Gone

\* What proposal/get shows of a graph's node is what deciding does, as long as
\* nothing was written in between.
PlanIsKept ==
    read.kind = "plan" /\ read.todo = <<>> /\ read.clean =>
        read.got[1] = ResolveDisposition(lib, read.arg)

\* What is read while others write qualified, names its true origin, and of a
\* plan is what the decide does (entities_read.rs, db/queries.rs,
\* runs/proposal.rs).
ReadsAreFaithful == AnswersFaithful /\ ShownOrigin /\ PlanIsKept

\* A check-in is found by the Habit it names, however the request that
\* recorded or corrected it and the query spelled the id, among the schemas
\* asked for; that Habit is still there; and a schema that names no Entity is
\* never found by one.
CheckinsAreFound ==
    \A habit \in Ids(lib), spelling \in {1, -1}, keys \in SUBSET {"habit.checkin", "bodyweight"} :
        Selected(lib, QueryParams(keys, <<>>, <<>>, <<>>, <<>>, <<spelling * habit>>, <<>>))
            = {o \in DOMAIN lib.obs :
                /\ lib.obs[o].facts.schema = "habit.checkin"
                /\ NormalizeUuid(lib.obs[o].facts.values["habit_id"]) = habit
                /\ EntityIsType(lib, habit, "habit")
                /\ keys = {} \/ "habit.checkin" \in keys}

\* What observation/record and observation/update accepted can be read back
\* after any later write: every query answers, each row it answers is the last
\* version of the Observation's history, the versions all have its schema, and
\* only the first can come from a Proposal.
WrittenIsReadable ==
    LET answer == HandleQuery(lib, QueryParams({}, <<>>, <<>>, <<>>, <<>>, <<>>, <<>>))
    IN  /\ "error" \notin DOMAIN answer
        /\ \A k \in DOMAIN answer.observations :
              LET row == answer.observations[k]
                  history == HandleGetHistory(lib, row.id).revisions
              IN  /\ history # <<>> /\ Last(history).facts = row.facts
                  /\ \A version \in ToSet(history) :
                        /\ version.facts.schema = row.facts.schema
                        /\ version.seq > 1 => version.proposal = <<>>

\* Every row refers to rows that are there, and every Observation is found
\* and can be read (observations.rs, db/observations.rs).
RowsAreReadable == RowsResolve /\ CheckinsAreFound /\ WrittenIsReadable

\* What entities_read.rs:245 says of the entries the agent reads: the latest
\* accepted revision is the entry as it stands.  Does not hold.
LatestRevisionIsCurrent ==
    \A e \in Live(lib, "journal_entry") : LatestRevision(lib, e) = lib.ent[e].data
==============================================================================
