------------------------------ MODULE Payloads ------------------------------
(***************************************************************************)
(* One Entity from request to row.  A payload is put together field by     *)
(* field, by the user, by the agent, or as a node of the agent's intent    *)
(* graph; Core validates it, normalizes it and stores the data, which a    *)
(* client may later send back whole with one field changed.  The clock of  *)
(* the review dates runs day by day until the request is begun.            *)
(***************************************************************************)
EXTENDS Proposing, LocalTime

CONSTANTS
    Epochs,         \* <<day, civil date>> pairs the clock may start from
    Span,           \* bound: days the clock runs
    RequestDay,     \* bound: the day on which requests are begun
    Composable,     \* bound: the fields a request may carry
    BackwardsNode   \* may a graph's entry node end before it begins

\* The clock stays in the years that a wall-clock string can name, and it
\* starts from a right pair.
ASSUME EpochsAssumption ==
    /\ Span \in Nat
    /\ \A epoch \in Epochs :
          /\ epoch[1] \in Int /\ -719528 <= epoch[1] /\ epoch[1] + Span <= 2932896
          /\ epoch[2] = CivilFromDays(epoch[1])

VARIABLES
    day,        \* days since 1970-01-01, local
    date,       \* the same day, counted on the calendar
    evening,    \* at or after 20:00
    elapsed,
    kind,       \* the mutation asked for
    payload,    \* its fields so far
    stored      \* entities.data

payloadVars == <<day, date, evening, elapsed, kind, payload, stored>>

None == [none |-> TRUE]
Unset == <<"none", "none">>
Records == ObservationBatch
Spec(k) == IF k = Task THEN TaskSchema ELSE PayloadSpecOf(k)

\* A value of each class a request can hold, null, and one no spec admits.
Values(k, name) ==
    LET field == Spec(k)[name]
        advertised == IF Advertised(k) THEN Descriptor(k)[name].admits ELSE {}
    IN  ((field.admits \cup advertised) \ {"anchor", "now"}) \cup {"null", "other"}
Corrections ==
    {<<>>, [name |-> "blank"], [name |-> "null"], [note |-> "null"], [note |-> "text"],
     [status |-> "on_hold"], [status |-> "completed"],
     [status |-> "dropped", dropped_at |-> "d1"]}

InitPayloads ==
    /\ \E epoch \in Epochs : day = epoch[1] /\ date = epoch[2]
    /\ evening \in BOOLEAN
    /\ elapsed = 0
    /\ kind = Unset
    /\ payload = <<>>
    /\ stored = None

NextDate(d) ==
    IF d[3] < DaysInMonth(d[1], d[2]) THEN <<d[1], d[2], d[3] + 1>>
    ELSE IF d[2] < 12 THEN <<d[1], d[2] + 1, 1>> ELSE <<d[1] + 1, 1, 1>>

Tomorrow ==
    /\ kind = Unset
    /\ elapsed < Span
    /\ day' = day + 1
    /\ date' = NextDate(date)
    /\ elapsed' = elapsed + 1
    /\ UNCHANGED <<evening, kind, payload, stored>>

Begin(k) ==
    /\ kind = Unset
    /\ day = RequestDay /\ ~evening
    /\ kind' = k
    /\ UNCHANGED <<day, date, evening, elapsed, payload, stored>>

Put(name, value) ==
    /\ stored = None
    /\ name \notin DOMAIN payload
    /\ payload' = payload ++ [field \in {name} |-> value]
    /\ UNCHANGED <<day, date, evening, elapsed, kind, stored>>

Store(data) ==
    /\ stored' = data
    /\ UNCHANGED <<day, date, evening, elapsed, kind, payload>>

\* entity/mutate, and a decide on a single-Entity Proposal, edited or not.
Send ==
    /\ stored = None
    /\ kind \in MutationKind /\ WriteClass(kind) = "Normalized"
    /\ Validate(kind, payload)
    /\ Store(EntityDataPayload(kind, payload))

\* observation/record, and an accepted batch; observation/update replaces all
\* of it again.
Record ==
    /\ stored = None
    /\ kind \in Records
    /\ ValidateObservation(kind[2], payload)
    /\ Store(payload)

\* An accepted node of an intent graph: the payload is checked as a structure
\* and only a corrected node meets the validator of its type.
MintNode(edits) ==
    /\ stored = None
    /\ kind \in {<<"node", type>> : type \in Referenceable}
    /\ Check(Spec(kind), payload)
    /\ LET create == <<"create", kind[2]>>
           data == MergeEditedFields(NodeData(payload), edits)
       IN  /\ edits = <<>> \/ Validate(create, data)
           /\ Store(EntityDataPayload(create, data))

MintEntry ==
    /\ stored = None
    /\ kind = <<"node", "journal_entry">>
    /\ Check(Spec(kind), payload)
    /\ BackwardsNode \/ TimesInvariant(payload)
    /\ "body" \in DOMAIN payload
    /\ LET data == [body |-> WovenBody(payload.body)] ++ NodeData(payload)
       IN  ValidateWoven(data) /\ Store(EntityDataPayload(<<"create", "journal_entry">>, data))

\* mark_project_reviewed: read, stamp, validate, write, in one transaction.
Review ==
    /\ stored # None
    /\ kind[2] = "project"
    /\ Reviewable(stored)
    /\ Check(ProjectCore, ReviewedData(stored))
    /\ ProjectStatusTimestampInvariant(ReviewedData(stored))
    /\ Store(ReviewedData(stored))

Begun ==
    ({"create", "update"} \X EntityType) \cup {<<"reference", "journal_entry">>}
        \cup NodeKinds \cup Records \cup {Task}

NextPayloads ==
    \/ Tomorrow
    \/ \E k \in Begun : Begin(k)
    \/ /\ kind # Unset
       /\ \E name \in DOMAIN Spec(kind) \cap Composable :
             \E value \in Values(kind, name) : Put(name, value)
    \/ Send \/ Record \/ MintEntry \/ Review
    \/ \E edits \in Corrections : MintNode(edits)

SpecPayloads == InitPayloads /\ [][NextPayloads]_payloadVars

-----------------------------------------------------------------------------
(***************************************************************************)
(* What is stored can be sent back as it is.  The clients edit an Entity   *)
(* by replacing the whole document: data that a later full-document update *)
(* would refuse, whichever way it was written, is data the user can no     *)
(* longer change.  Nothing transient (a null, an id of the request, a      *)
(* graph handle) may stay behind either.  (entities.rs, mutation.rs,       *)
(* db/apply.rs entity_data_payload, db/intent_graph.rs.)                   *)
(***************************************************************************)
EditableAsStored ==
    stored # None =>
        /\ \A name \in DOMAIN stored : stored[name] # "null"
        /\ IF kind \in Records THEN ValidateObservation(kind[2], stored)
           ELSE Validate(<<"update", kind[2]>>, [entity_id |-> "id"] ++ stored)

(***************************************************************************)
(* The day-number arithmetic that writes dates agrees with the calendar    *)
(* that checks them: what now_local and the anchors format is the right    *)
(* day and passes parse_local_datetime.  (localtime.rs civil_from_days     *)
(* against days_in_month.)                                                 *)
(***************************************************************************)
CivilMatchesCalendar ==
    /\ CivilFromDays(day) = date
    /\ ParseLocalDatetime(date)

(***************************************************************************)
(* A review is always ahead: the first one falls on the coming Sunday,     *)
(* this evening at the earliest, and a review just done never comes up     *)
(* again the same day, whatever the hour.  (localtime.rs                   *)
(* next_review_at_local, advance_review_at_local.)                         *)
(***************************************************************************)
ReviewAhead ==
    LET first == NextReviewAtLocal(day, evening)
        following == AdvanceReviewAtLocal(day)
    IN  /\ Weekday(first) = 0 /\ Weekday(following) = 0
        /\ first \in day..day + 7 /\ following \in day + 1..day + 7
        /\ first = day => ~evening
        /\ first <= following

(***************************************************************************)
(* The agent is told of everything it may send: whatever Core would accept *)
(* of it, but for a null, which clears a field and is the user's, fits the *)
(* schema of the tool.  The converse fails by design (field_spec.rs:20-23).*)
(* (field_spec.rs spec_schema against check_field, propose_ticktick_task.rs*)
(* descriptor against ticktick_write.rs validate_task_payload.)            *)
(***************************************************************************)
AcceptedWasAdvertised ==
    Advertised(kind) /\ Acceptable(kind, payload) =>
        Check(Descriptor(kind),
              Without(payload, {name \in DOMAIN payload : payload[name] = "null"}))

(***************************************************************************)
(* Core parks drafts that no validator would pass so that the user can     *)
(* repair them: however bad the draft, a good document sent as the edit is *)
(* accepted, unless the draft's own target is no id; and a draft that      *)
(* replaces an Entity is shown beside the Entity as it is.                 *)
(* (mutation.rs:1473 "so the review UI can repair them", decide.rs         *)
(* preserve_update_target_entity_id.)                                      *)
(***************************************************************************)
Repair(k) ==
    IF k[2] = "journal_entry" THEN [occurred_at |-> "d1", body |-> "texts"]
                              ELSE [name |-> "text"]

ParkedIsRepairable ==
    /\ ValidateRequest(kind, payload)
    /\ SupportsEdit(kind)
    /\ TargetKey(kind) # "none" => ValueOr(payload, "entity_id", "none") \in Uuid
    => /\ AcceptableEdited(kind, payload, Repair(kind))
       /\ TargetKey(kind) # "none" => CarriesReviewContext(kind)

(***************************************************************************)
(* A task that is created names an instant and how to show it: a due date  *)
(* never goes out without its offset, nor a time of day without its zone,  *)
(* nor a zone without a date.  (ticktick_write.rs validate_due,            *)
(* create_task_body; TickTick reads a date without offset as UTC.)         *)
(***************************************************************************)
TaskIsUnambiguous ==
    kind = Task /\ ValidateTaskPayload(payload) =>
        LET body == CreateTaskBody(payload)
        IN  /\ body.title \in NonEmptyString
            /\ "date" \in DOMAIN body => DueDates[body.date].offset # <<>>
            /\ {"is_all_day", "time_zone"} \cap DOMAIN body # {} => "date" \in DOMAIN body
            /\ "date" \in DOMAIN body /\ body.is_all_day = "false" =>
                  "time_zone" \in DOMAIN body

(***************************************************************************)
(* What the agent is told it may send, what Core parks, what it accepts    *)
(* and what it sends on to TickTick are one contract, though each is       *)
(* written down by itself (field_spec.rs, mutation.rs, ticktick_write.rs). *)
(***************************************************************************)
ContractsAgree == AcceptedWasAdvertised /\ ParkedIsRepairable /\ TaskIsUnambiguous

(***************************************************************************)
(* The dates Core computes are the right ones (localtime.rs).              *)
(***************************************************************************)
DatesAreRight == CivilMatchesCalendar /\ ReviewAhead
=============================================================================
