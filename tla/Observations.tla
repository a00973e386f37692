---------------------------- MODULE Observations -----------------------------
(***************************************************************************)
(* Observations: facts of a few closed schemas (a check-in of a Habit, a   *)
(* weight, a meal), recorded in batches together with the evidence they    *)
(* were taken from, corrected in place with every version kept, queried.   *)
(*                                                                         *)
(* These are the steps of one request over the tables d: d.ent, what       *)
(* Entities there are, and d.obs, the Observations in the order they were  *)
(* written.  An id as somebody wrote it is an integer: e names Entity (or  *)
(* Message) e the way the tables spell it, -e is the same UUID spelled     *)
(* otherwise, and 0 is no UUID at all.  What may be missing is a sequence  *)
(* of at most one.  Of the values there is one required field per schema   *)
(* (Mutations has the others); versions, all 1, and notes are left out.    *)
(***************************************************************************)
EXTENDS Integers, Sequences, FiniteSets, SequencesExt

Later(a, b) ==
    \/ a[1] > b[1]
    \/ a[1] = b[1] /\ a[2] > b[2]
    \/ a[1] = b[1] /\ a[2] = b[2] /\ a[3] > b[3]

\* The rows (the domain of columns) in descending order of three columns.
OrderBy(columns) ==
    LET rows == DOMAIN columns
    IN  [k \in 1..Cardinality(rows) |->
            CHOOSE row \in rows : Cardinality({other \in rows : Later(columns[other], columns[row])}) = k - 1]

AtMost(n, rows) == SubSeq(rows, 1, IF Len(rows) < n THEN Len(rows) ELSE n)

Ids(d) == 1..Len(d.ent)
EntityIsType(d, e, type) == e \in Ids(d) /\ d.ent[e].type = type

IsUuid(id) == id # 0
NormalizeUuid(id) == IF id < 0 THEN -id ELSE id

(***************************************************************************)
(* The schemas, and which field of which one holds an Entity.              *)
(***************************************************************************)
Schemas == {"habit.checkin", "bodyweight", "nutrition.intake"}

RequiredField(schema) ==
    CASE schema = "habit.checkin" -> "habit_id"
      [] schema = "bodyweight" -> "kg"
      [] schema = "nutrition.intake" -> "kcal"

Relations == {[schema |-> "habit.checkin", field |-> "habit_id", target |-> "habit"]}

RelationsOf(schema) == {r \in Relations : r.schema = schema}

(***************************************************************************)
(* Requests.  A record names its schema; a correction does not, the stored *)
(* one holds.  A batch shares its evidence.                                *)
(***************************************************************************)
UpdateDraft(occurred, ended, values) == [occurred |-> occurred, ended |-> ended, values |-> values]

RecordDraft(schema, occurred, ended, values) ==
    [schema |-> schema, draft |-> UpdateDraft(occurred, ended, values)]

Evidence(entry, message) == [journal_entry_id |-> entry, message_id |-> message]

Payload(records, evidence) == [observations |-> records, evidence |-> evidence]

JournalEntry(id) == [kind |-> "entry", id |-> id]
Message(id) == [kind |-> "message", id |-> id]

ValidFields(schema, draft) ==
    /\ schema \in Schemas
    /\ draft.ended # <<>> => draft.occurred <= draft.ended[1]
    /\ RequiredField(schema) \in DOMAIN draft.values
    /\ \A r \in RelationsOf(schema) : IsUuid(draft.values[r.field])

\* Evidence, where there is some, names an entry or a Message and not both.
NamesOneSource(evidence) ==
    \A k \in DOMAIN evidence :
        Len(evidence[k].journal_entry_id) + Len(evidence[k].message_id) = 1

SourceFromEvidence(evidence) ==
    CASE evidence = <<>> -> <<>>
      [] evidence # <<>> /\ evidence[1].journal_entry_id # <<>> -> <<JournalEntry(evidence[1].journal_entry_id[1])>>
      [] OTHER -> <<Message(evidence[1].message_id[1])>>

ValidatedSource(source) == [source EXCEPT !.id = NormalizeUuid(@)]

ValidRecord(payload) ==
    /\ payload.observations # <<>>
    /\ NamesOneSource(payload.evidence)
    /\ \A record \in ToSet(payload.observations) : ValidFields(record.schema, record.draft)
    /\ \A source \in ToSet(SourceFromEvidence(payload.evidence)) : IsUuid(source.id)

(***************************************************************************)
(* Preparation: what a request becomes before its transaction.             *)
(***************************************************************************)
RelationChecksAsWritten(schema, values) ==
    [values |-> values,
     relations |-> {[entity |-> NormalizeUuid(values[r.field]), target |-> r.target] : r \in RelationsOf(schema)}]

\* A field that holds an Entity is stored the way the tables spell its id.
RelationChecks(schema, values) ==
    LET fields == {r.field : r \in RelationsOf(schema)}
    IN  [values |-> [f \in DOMAIN values |-> IF f \in fields THEN NormalizeUuid(values[f]) ELSE values[f]],
         relations |-> {[entity |-> NormalizeUuid(values[r.field]), target |-> r.target] :
                            r \in RelationsOf(schema)}]

PrepareSnapshot(schema, draft) ==
    LET checked == RelationChecks(schema, draft.values)
    IN  [schema |-> schema, occurred |-> draft.occurred, ended |-> draft.ended,
         values |-> checked.values, relations |-> checked.relations]

PrepareObservations(payload) ==
    LET source == SourceFromEvidence(payload.evidence)
    IN  [k \in DOMAIN payload.observations |->
            [snapshot |-> PrepareSnapshot(payload.observations[k].schema, payload.observations[k].draft),
             source |-> IF source = <<>> THEN <<>> ELSE <<ValidatedSource(source[1])>>]]

PrepareObservationUpdate(stored, draft) == PrepareSnapshot(stored, draft)

(***************************************************************************)
(* Statements.                                                             *)
(***************************************************************************)
Facts(snapshot) ==
    [schema |-> snapshot.schema, occurred |-> snapshot.occurred, ended |-> snapshot.ended,
     values |-> snapshot.values]

Revision(snapshot, proposal, at) == [facts |-> Facts(snapshot), proposal |-> proposal, at |-> at]

Relation(source) == IF source.kind = "entry" THEN "created_from" ELSE "evidenced_by"

\* The columns of a source row: one of the two ids is null.
SourceColumns(source) ==
    [relation |-> Relation(source),
     entity |-> IF source.kind = "entry" THEN <<source.id>> ELSE <<>>,
     message |-> IF source.kind = "message" THEN <<source.id>> ELSE <<>>]

InsertNextRevision(d, o, snapshot, proposal, at) ==
    [d EXCEPT !.obs[o].revs = Append(@, Revision(snapshot, proposal, at))]

UpdateObservationRow(d, o, snapshot, at) ==
    [d EXCEPT !.obs[o].facts = [Facts(snapshot) EXCEPT !.schema = d.obs[o].facts.schema],
              !.obs[o].updated = at]

InvalidRelation(d, relations) == \E r \in relations : ~EntityIsType(d, r.entity, r.target)

SourceExists(d, messages, source) ==
    IF source.kind = "entry" THEN EntityIsType(d, source.id, "journal_entry") ELSE source.id \in messages

(***************************************************************************)
(* The two transactions.  A batch with one row that does not hold is       *)
(* rolled back, so whether it commits can be asked first.                  *)
(***************************************************************************)
BatchHolds(d, messages, inserts) ==
    \A insert \in ToSet(inserts) :
        /\ ~InvalidRelation(d, insert.snapshot.relations)
        /\ \A source \in ToSet(insert.source) : SourceExists(d, messages, source)

\* The row, its source and its first revision.
ObservationRow(insert, proposal, at) ==
    [facts |-> Facts(insert.snapshot), created |-> at, updated |-> at,
     source |-> [k \in DOMAIN insert.source |-> SourceColumns(insert.source[k])],
     revs |-> <<Revision(insert.snapshot, proposal, at)>>]

InsertObservations(d, inserts, proposal, at) ==
    [d EXCEPT !.obs = @ \o [k \in DOMAIN inserts |-> ObservationRow(inserts[k], proposal, at)]]

UpdateHolds(d, update) == ~InvalidRelation(d, update.relations)

\* A correction is the user's: its revision names no Proposal.
UpdateObservation(d, o, update, at) ==
    InsertNextRevision(UpdateObservationRow(d, o, update, at), o, update, <<>>, at)

(***************************************************************************)
(* Deleting a Habit is refused while an Observation, or a version of one,  *)
(* names it.                                                               *)
(***************************************************************************)
Mentions(facts, e) == \E r \in RelationsOf(facts.schema) : facts.values[r.field] = e

EntityReferencedByObservation(d, e) ==
    \E o \in DOMAIN d.obs :
        Mentions(d.obs[o].facts, e) \/ \E rev \in ToSet(d.obs[o].revs) : Mentions(rev.facts, e)

(***************************************************************************)
(* What may be asked, and what the tables hold of it.                      *)
(***************************************************************************)
IsSequence(s) == s \in Seq(ToSet(s))

IsDraft(draft) ==
    /\ draft = UpdateDraft(draft.occurred, draft.ended, draft.values)
    /\ draft.occurred \in Int
    /\ draft.values \in [DOMAIN draft.values -> Int]

IsPayload(payload) ==
    /\ payload = Payload(payload.observations, payload.evidence)
    /\ IsSequence(payload.observations)
    /\ \A record \in ToSet(payload.observations) :
          record = [schema |-> record.schema, draft |-> record.draft] /\ IsDraft(record.draft)
    /\ IsSequence(payload.evidence)
    /\ \A evidence \in ToSet(payload.evidence) :
          evidence.journal_entry_id \in Seq(Int) /\ evidence.message_id \in Seq(Int)

FactsHold(d, facts) ==
    /\ facts = [schema |-> facts.schema, occurred |-> facts.occurred, ended |-> facts.ended,
                values |-> facts.values]
    /\ facts.schema \in Schemas /\ facts.occurred \in Int
    /\ \A r \in RelationsOf(facts.schema) : EntityIsType(d, facts.values[r.field], r.target)

SourceHolds(d, source, messages) ==
    \/ source = <<>>
    \/ \E e \in Ids(d) : EntityIsType(d, e, "journal_entry") /\ source = <<SourceColumns(JournalEntry(e))>>
    \/ \E message \in messages : source = <<SourceColumns(Message(message))>>

RevisionsHold(revs, facts) ==
    /\ IsSequence(revs) /\ revs # <<>>
    /\ revs[Len(revs)].facts = facts
    /\ \A seq \in DOMAIN revs :
          /\ revs[seq].facts.schema = facts.schema
          /\ seq > 1 => revs[seq].proposal = <<>>

ObservationHolds(d, row, messages) ==
    /\ row = [facts |-> row.facts, created |-> row.created, updated |-> row.updated,
              source |-> row.source, revs |-> row.revs]
    /\ row.created \in Int
    /\ FactsHold(d, row.facts)
    /\ SourceHolds(d, row.source, messages)
    /\ RevisionsHold(row.revs, row.facts)

(***************************************************************************)
(* Reads.  A query is one statement; its rows are decoded afterwards, and  *)
(* a row that cannot be decoded fails the whole answer.                    *)
(***************************************************************************)
QueryParams(keys, from, to, entity, message, related, limit) ==
    [schema_keys |-> keys, from |-> from, to |-> to, source_entity_id |-> entity,
     source_message_id |-> message, related_entity_id |-> related, limit |-> limit]

SourceFromQueryParams(params) ==
    CASE params.source_entity_id # <<>> -> <<JournalEntry(params.source_entity_id[1])>>
      [] params.source_message_id # <<>> -> <<Message(params.source_message_id[1])>>
      [] OTHER -> <<>>

ValidQuery(params) ==
    /\ params.schema_keys \subseteq Schemas
    /\ params.from # <<>> /\ params.to # <<>> => params.from[1] <= params.to[1]
    /\ \A k \in DOMAIN params.limit : params.limit[k] >= 1
    /\ params.source_entity_id = <<>> \/ params.source_message_id = <<>>
    /\ \A source \in ToSet(SourceFromQueryParams(params)) : IsUuid(source.id)
    /\ \A id \in ToSet(params.related_entity_id) : IsUuid(id)

\* The relations of the keys asked for, or of all; none of them, no row.
RelatedTo(facts, keys, e) ==
    \E r \in Relations :
        (keys = {} \/ r.schema \in keys) /\ facts.schema = r.schema /\ facts.values[r.field] = e

SourceMatches(row, source) ==
    \E columns \in ToSet(row.source) :
        IF source.kind = "entry" THEN columns.entity = <<source.id>> ELSE columns.message = <<source.id>>

Selected(d, params) ==
    {o \in DOMAIN d.obs :
        LET facts == d.obs[o].facts
        IN  /\ params.schema_keys = {} \/ facts.schema \in params.schema_keys
            /\ \A from \in ToSet(params.from) : from <= facts.occurred
            /\ \A to \in ToSet(params.to) : facts.occurred <= to
            /\ \A source \in ToSet(SourceFromQueryParams(params)) :
                  SourceMatches(d.obs[o], ValidatedSource(source))
            /\ \A id \in ToSet(params.related_entity_id) :
                  RelatedTo(facts, params.schema_keys, NormalizeUuid(id))}

\* Newest occurrence first, then the newest row.
QueryObservations(d, params) ==
    LET rows == OrderBy([o \in Selected(d, params) |-> <<d.obs[o].facts.occurred, d.obs[o].created, o>>])
    IN  IF params.limit = <<>> THEN rows ELSE AtMost(params.limit[1], rows)

\* A created_from row holds an entry, an evidenced_by row a Message.
Decodable(row) ==
    \A columns \in ToSet(row.source) :
        \/ columns.relation = "created_from" /\ columns.entity # <<>> /\ columns.message = <<>>
        \/ columns.relation = "evidenced_by" /\ columns.entity = <<>> /\ columns.message # <<>>

ObservationFromRow(row) ==
    [facts |-> row.facts, created |-> row.created, updated |-> row.updated,
     source |-> [k \in DOMAIN row.source |->
        IF row.source[k].entity # <<>> THEN JournalEntry(row.source[k].entity[1])
                                       ELSE Message(row.source[k].message[1])]]

SourceToWire(source) == SourceColumns(source)

ObservationToWire(o, observation) ==
    [id |-> o, facts |-> observation.facts, created |-> observation.created, updated |-> observation.updated,
     source |-> [k \in DOMAIN observation.source |-> SourceToWire(observation.source[k])]]

InvalidParams == [error |-> "invalid params"]
Internal == [error |-> "internal"]

HandleQuery(d, params) ==
    LET rows == QueryObservations(d, params)
    IN  CASE ~ValidQuery(params) -> InvalidParams
          [] ValidQuery(params) /\ ~\A o \in ToSet(rows) : Decodable(d.obs[o]) -> Internal
          [] OTHER -> [observations |->
                [k \in DOMAIN rows |-> ObservationToWire(rows[k], ObservationFromRow(d.obs[rows[k]]))]]

ObservationRevisions(d, o) == IF o \in DOMAIN d.obs THEN d.obs[o].revs ELSE <<>>

RevisionToWire(seq, revision) ==
    [seq |-> seq, facts |-> revision.facts, proposal |-> revision.proposal, at |-> revision.at]

\* An Observation nobody recorded has an empty history, and no error.
HandleGetHistory(d, id) ==
    LET revisions == ObservationRevisions(d, NormalizeUuid(id))
    IN  IF ~IsUuid(id) THEN InvalidParams
        ELSE [revisions |-> [k \in DOMAIN revisions |-> RevisionToWire(k, revisions[k])]]
==============================================================================
