------------------------------ MODULE Mutations ------------------------------
(***************************************************************************)
(* The write contract (crates/core/src: mutation.rs, entities.rs,          *)
(* field_spec.rs, observations.rs): which mutations exist, which fields    *)
(* each payload may carry, what a validator accepts and what is stored.    *)
(*                                                                         *)
(* A kind is a pair <<operation, entity type>>.  A JSON object is a        *)
(* function from the names of its present fields to value classes; a field *)
(* spec is the set of classes it admits.                                   *)
(***************************************************************************)
EXTENDS FiniteSets

\* The fields of both objects, those of the first where both have one (TLC's
\* @@, by a definition that a proof can expand).
a ++ b ==
    [name \in DOMAIN a \cup DOMAIN b |-> IF name \in DOMAIN a THEN a[name] ELSE b[name]]

(***************************************************************************)
(* The taxonomy.                                                           *)
(***************************************************************************)
EntityType == {"journal_entry", "person", "project", "media", "habit"}

MutationKind ==
    ({"create", "update", "delete"} \X EntityType)
        \cup {<<"reference", "journal_entry">>, <<"review", "project">>,
              <<"graph", "journal_entry">>}

WriteOp(kind) ==
    CASE kind[1] \in {"create", "graph"} -> "create"
      [] kind[1] = "delete" -> "delete"
      [] OTHER -> "update"

Referenceable == {"person", "project"}

\* The payload field that names the Entity a mutation is about.
TargetKey(kind) ==
    CASE WriteOp(kind) = "create" -> "none"
      [] kind[1] = "reference" -> "source_entity_id"
      [] OTHER -> "entity_id"

\* What is looked up before the transaction that applies the mutation.
TargetRefs(kind) ==
    CASE kind \in {"create"} \X Referenceable -> "SourceAnchor"
      [] kind[1] \in {"update", "delete", "review"} -> "GenericTarget"
      [] kind[1] = "reference" -> "ReferenceWeave"
      [] OTHER -> "NoCheck"

\* Whether the stored data is the payload, normalized, or computed from the
\* Entity's current row inside the transaction.
WriteClass(kind) ==
    CASE kind[1] \in {"create", "update"} -> "Normalized"
      [] kind[1] \in {"reference", "review"} -> "InTx"
      [] OTHER -> "NoData"

\* What the user may send on entity/mutate.
DirectMutationKind == MutationKind \ {<<"graph", "journal_entry">>}

\* What the agent may propose, beside recording Observations.
ProposableMutation ==
    {kind \in MutationKind : kind[2] \notin {"media", "habit"} /\ kind[1] # "review"}

SupportsEdit(kind) ==
    kind \in ProposableMutation /\ kind[1] \notin {"delete", "reference", "graph"}

(***************************************************************************)
(* Value classes.  d1 is before d2; "anchor" is a Sunday at 20:00 that     *)
(* Core computed; a Body is named by the nodes it holds.                   *)
(***************************************************************************)
LocalDateTime == {"d1", "d2", "anchor", "now"}
NonEmptyString == {"text"}
String == NonEmptyString \cup {"blank"}
Uuid == {"id"}
PositiveInt == {"1", "6"}
Number == PositiveInt \cup {"0", "-1"}
NonEmptyStrings == {"empty list", "list"}
Cadence == {"weekly", "monthly"}
TextOnly == {"texts"}
TextOrExistingRef == {"texts", "chips"}
TextOrNewRef == {"texts", "placeholder", "placeholders"}
Before(a, b) == a = "d1" /\ b = "d2"

Field(presence, clearable, admits) ==
    [required |-> presence = "required", clearable |-> clearable, admits |-> admits]
Required(admits) == Field("required", FALSE, admits)
Optional(admits) == Field("optional", FALSE, admits)
Clearable(admits) == Field("optional", TRUE, admits)

\* Unknown fields are refused, required ones must be there, and null passes
\* for a clearable field only.
CheckField(field, value) ==
    value \in field.admits \/ (field.clearable /\ value = "null")

Check(spec, payload) ==
    /\ DOMAIN payload \subseteq DOMAIN spec
    /\ \A name \in DOMAIN spec :
          IF name \in DOMAIN payload THEN CheckField(spec[name], payload[name])
                                     ELSE ~spec[name].required

(***************************************************************************)
(* The field specs of each Entity Type and their framing per operation.    *)
(***************************************************************************)
ProjectStatus == {"active", "on_hold", "completed", "dropped"}
HabitStatus == {"active", "paused", "archived"}
MediaState == {"backlog", "consuming", "done", "abandoned"}
MediaMedium == {"link", "book"}
CheckinState == {"done", "skipped", "missed"}

PersonCore ==
    [name |-> Required(NonEmptyString), note |-> Clearable(String),
     aliases |-> Clearable(NonEmptyStrings)]

ProjectCore ==
    [name |-> Required(NonEmptyString), outcome |-> Clearable(String),
     note |-> Clearable(String), status |-> Optional(ProjectStatus),
     defer_at |-> Clearable(LocalDateTime), due_at |-> Clearable(LocalDateTime),
     completed_at |-> Clearable(LocalDateTime), dropped_at |-> Clearable(LocalDateTime),
     review_every |-> Clearable(Cadence), next_review_at |-> Clearable(LocalDateTime),
     last_reviewed_at |-> Clearable(LocalDateTime)]

MediaCore ==
    [title |-> Required(NonEmptyString), medium |-> Required(MediaMedium),
     state |-> Required(MediaState), rating |-> Clearable(PositiveInt),
     finished_at |-> Clearable(LocalDateTime), url |-> Clearable(String),
     note |-> Clearable(String), tags |-> Clearable(NonEmptyStrings)]

HabitCore ==
    [name |-> Required(NonEmptyString), cadence |-> Required(Cadence),
     target |-> Clearable(NonEmptyString), status |-> Optional(HabitStatus),
     note |-> Clearable(String)]

\* The leaf vocabulary: every value shape a field may be given.
FieldSpec ==
    {LocalDateTime, NonEmptyString, String, Uuid, PositiveInt, Number, Number \ {"-1"},
     NonEmptyStrings, Cadence, TextOnly, TextOrExistingRef, TextOrNewRef,
     ProjectStatus, HabitStatus, MediaState, MediaMedium, CheckinState}

JournalEntryPayload(bodies) ==
    [occurred_at |-> Required(LocalDateTime), ended_at |-> Optional(LocalDateTime),
     body |-> Required(bodies)]

DataCore(type) ==
    CASE type = "person" -> PersonCore
      [] type = "project" -> ProjectCore
      [] type = "media" -> MediaCore
      [] type = "habit" -> HabitCore

Target == [entity_id |-> Required(Uuid)]
SourceDirective == [source_journal_entry_id |-> Optional(Uuid)]

\* Only a Person or a Project can say which entry it was met in.
CreatePayload(type) ==
    IF type \in Referenceable THEN DataCore(type) ++ SourceDirective ELSE DataCore(type)
UpdatePayload(type) == Target ++ DataCore(type)

PayloadSpec(kind) ==
    CASE kind = <<"create", "journal_entry">> -> JournalEntryPayload(TextOnly)
      [] kind = <<"update", "journal_entry">> ->
            Target ++ JournalEntryPayload(TextOrExistingRef)
      [] kind[1] = "reference" ->
            [source_entity_id |-> Required(Uuid), target_entity_id |-> Required(Uuid),
             label_snapshot |-> Optional(NonEmptyString),
             body |-> Required(TextOrNewRef)]
      [] kind[1] = "create" /\ kind[2] # "journal_entry" -> CreatePayload(kind[2])
      [] kind[1] = "update" /\ kind[2] # "journal_entry" -> UpdatePayload(kind[2])
      [] OTHER -> Target

(***************************************************************************)
(* The intent graph's nodes, whose payloads are structural only.           *)
(***************************************************************************)
GraphNode(fields) ==
    [handle |-> Required(NonEmptyString), existing_id |-> Optional(Uuid)] ++ fields
GraphPerson ==
    GraphNode([name |-> Required(NonEmptyString), note |-> Optional(String),
               aliases |-> Optional(NonEmptyStrings)])
GraphProject ==
    GraphNode([name |-> Required(NonEmptyString), outcome |-> Optional(String),
               note |-> Optional(String)])
GraphBody == {"texts", "placeholder", "placeholders"}
GraphEntry ==
    GraphNode([occurred_at |-> Required(LocalDateTime),
               ended_at |-> Optional(LocalDateTime), body |-> Optional(GraphBody)])

\* The data a node stands for: its keys but the graph's own.
Without(payload, keys) ==
    [name \in DOMAIN payload \ keys |-> payload[name]]
NodeData(node) == Without(node, {"handle", "existing_id"})

\* A correction of a node: null takes the field out.
MergeEditedFields(payload, edits) ==
    LET cleared == {name \in DOMAIN edits : edits[name] = "null"}
    IN  Without(edits, cleared) ++ Without(payload, cleared)

\* The body Core builds from the entry node: every placeholder a chip, or text.
WovenBody(body) == IF body = "texts" THEN "texts" ELSE "chips"

(***************************************************************************)
(* Cross-field invariants.                                                 *)
(***************************************************************************)
PresentNonNull(payload, name) == name \in DOMAIN payload /\ payload[name] # "null"
ValueOr(payload, name, default) ==
    IF name \in DOMAIN payload THEN payload[name] ELSE default

\* An entry must not end before it began; the node policy of its body is part
\* of the spec, and a weave has exactly one placeholder.
TimesInvariant(payload) ==
    ~({"occurred_at", "ended_at"} \subseteq DOMAIN payload
        /\ Before(payload.ended_at, payload.occurred_at))

ProjectStatusTimestampInvariant(payload) ==
    LET status == ValueOr(payload, "status", "active")
    IN  /\ PresentNonNull(payload, "completed_at") <=> status = "completed"
        /\ PresentNonNull(payload, "dropped_at") <=> status = "dropped"

MediaStateFinishInvariant(payload) ==
    /\ payload.state \notin {"done", "abandoned"} =>
          ~PresentNonNull(payload, "rating") /\ ~PresentNonNull(payload, "finished_at")
    /\ ValueOr(payload, "rating", "1") # "6"

OnePlaceholder(payload) == payload.body = "placeholder"

Validate(kind, payload) ==
    /\ Check(PayloadSpec(kind), payload)
    /\ CASE kind \in {"create", "update"} \X {"journal_entry"} -> TimesInvariant(payload)
         [] kind \in {"create", "update"} \X {"project"} ->
               ProjectStatusTimestampInvariant(payload)
         [] kind \in {"create", "update"} \X {"media"} -> MediaStateFinishInvariant(payload)
         [] kind[1] = "reference" -> OnePlaceholder(payload)
         [] OTHER -> TRUE

\* What Core asks of a body it has built itself.
ValidateWoven(payload) ==
    "body" \in DOMAIN payload /\ payload.body \in TextOrExistingRef

(***************************************************************************)
(* What is stored.  Transport fields go, nulls go, and only then a new     *)
(* active Project is given its weekly review.                              *)
(***************************************************************************)
NormalizeKeepsNulls(payload, strip) == Without(payload, strip)

Normalize(payload, strip) ==
    Without(payload, strip \cup {name \in DOMAIN payload : payload[name] = "null"})

ProjectCreateDefaults(data) ==
    LET stated == data ++ [status |-> "active"]
        unscheduled == {"review_every", "next_review_at"} \cap DOMAIN data = {}
    IN  IF stated.status = "active" /\ unscheduled
          THEN stated ++ [review_every |-> "weekly", next_review_at |-> "anchor"]
          ELSE stated

EntityDataPayload(kind, payload) ==
    CASE kind = <<"create", "journal_entry">> -> payload
      [] kind = <<"create", "project">> ->
            ProjectCreateDefaults(Normalize(payload, DOMAIN SourceDirective))
      [] kind[1] = "create" /\ kind[2] \notin {"journal_entry", "project"} ->
            Normalize(payload, DOMAIN SourceDirective)
      [] OTHER -> Normalize(payload, DOMAIN Target \cup DOMAIN SourceDirective)

\* A Project that has ended has nothing to review.
Reviewable(data) == ValueOr(data, "status", "active") \in {"active", "on_hold"}
ReviewedData(data) ==
    [last_reviewed_at |-> "now", next_review_at |-> "anchor",
     review_every |-> "weekly"] ++ data

(***************************************************************************)
(* Observations: one spec per schema, its values beside the time range.    *)
(***************************************************************************)
ObservationValues ==
    [bodyweight |-> [kg |-> Required(Number \ {"-1"})],
     checkin |-> [habit_id |-> Required(Uuid), state |-> Required(CheckinState),
                  quantity |-> Optional(Number)],
     intake |-> [kcal |-> Required(Number \ {"-1"}),
                 protein_g |-> Optional(Number \ {"-1"}),
                 carbs_g |-> Optional(Number \ {"-1"}),
                 fat_g |-> Optional(Number \ {"-1"}), label |-> Optional(String)]]

ObservationDraft(schema) ==
    [occurred_at |-> Required(LocalDateTime), ended_at |-> Optional(LocalDateTime),
     note |-> Optional(String)] ++ ObservationValues[schema]

ValidateObservation(schema, draft) ==
    Check(ObservationDraft(schema), draft) /\ TimesInvariant(draft)

\* Every payload is described in that vocabulary.
Described(spec) == \A name \in DOMAIN spec : spec[name].admits \in FieldSpec
ASSUME ContractAssumption ==
    /\ \A kind \in MutationKind : Described(PayloadSpec(kind))
    /\ \A schema \in DOMAIN ObservationValues : Described(ObservationDraft(schema))
    /\ Described(GraphPerson) /\ Described(GraphProject)
    /\ Described([GraphEntry EXCEPT !.body.admits = GraphBody])
=============================================================================
