------------------------------ MODULE Proposing ------------------------------
(***************************************************************************)
(* What the agent is told it may propose, what Core parks, and what a      *)
(* decide then accepts (crates/core/src: field_spec.rs json_schema,        *)
(* mutation.rs ProposableMutation, tools/propose_workspace_mutation.rs,    *)
(* tools/propose_ticktick_task.rs, decide.rs, ticktick_write.rs).  Three   *)
(* parties read one payload by rules of their own: the provider reads the  *)
(* advertised schema, Core's gate parks, Core's validator accepts.         *)
(*                                                                         *)
(* A schema is read as a spec: the classes each field admits.  Sizes are   *)
(* all a schema knows of a text, so a blank one passes minLength, and a    *)
(* pattern takes a date that is on no calendar.                            *)
(***************************************************************************)
EXTENDS Mutations, Integers

ObservationBatch == {<<"record", schema>> : schema \in DOMAIN ObservationValues}
Task == <<"task", "ticktick">>

\* An intent graph is proposed as nodes here, one at a time.
NodeKinds == {<<"node", type>> : type \in Referenceable \cup {"journal_entry"}}
NodeSpec(type) ==
    CASE type = "person" -> GraphPerson
      [] type = "project" -> GraphProject
      [] type = "journal_entry" -> GraphEntry

\* An accepted Proposal of these kinds shows the Entity as it is now.
CarriesReviewContext(kind) ==
    \/ kind \in {<<"update", type>> : type \in Referenceable}
    \/ kind[2] = "journal_entry" /\ kind[1] \in {"update", "delete", "reference"}

(***************************************************************************)
(* A task for TickTick.  A date is its local part and what follows it: the *)
(* digits of a second's fraction (0: none) and an offset.                  *)
(***************************************************************************)
Due(day, fraction, offset) == [day |-> day, fraction |-> fraction, offset |-> offset]
DueDates ==
    [zulu |-> Due(TRUE, 0, <<0, 0>>), offset |-> Due(TRUE, 3, <<23, 59>>),
     local |-> Due(TRUE, 0, <<>>), digits |-> Due(TRUE, 4, <<0, 0>>),
     far |-> Due(TRUE, 0, <<24, 0>>), nowhere |-> Due(FALSE, 0, <<0, 0>>)]

ValidateDueDate(date) ==
    /\ date \in DOMAIN DueDates
    /\ LET due == DueDates[date]
       IN  /\ due.day /\ due.fraction \in 0..3
           /\ due.offset # <<>>
           /\ due.offset[1] \in 0..23 /\ due.offset[2] \in 0..59

DueFields == {"date", "is_all_day", "time_zone"}
HasDue(payload) == DOMAIN payload \cap DueFields # {}

ValidateDueAnyZone(payload) ==
    /\ ValidateDueDate(ValueOr(payload, "date", "none"))
    /\ ValueOr(payload, "is_all_day", "false") \in {"true", "false"}
    /\ ValueOr(payload, "time_zone", "null") \in {"zone", "no zone", "null"}

\* A time of day is nothing without its zone.
ValidateDue(payload) ==
    /\ ValidateDueDate(ValueOr(payload, "date", "none"))
    /\ ValueOr(payload, "is_all_day", "false") \in {"true", "false"}
    /\ ValueOr(payload, "time_zone", "null") \in {"zone", "no zone", "null"}
    /\ \/ ValueOr(payload, "is_all_day", "false") = "true"
       \/ ValueOr(payload, "time_zone", "null") = "zone"

ValidateTaskPayload(payload) ==
    /\ DOMAIN payload \subseteq {"title", "note"} \cup DueFields
    /\ ValueOr(payload, "title", "none") \in NonEmptyString
    /\ ValueOr(payload, "note", "null") \in String \cup {"null"}
    /\ HasDue(payload) => ValidateDue(payload)

\* What is posted: is_all_day goes with a due date, an empty zone does not.
CreateTaskBody(payload) ==
    Without(payload, {name \in DOMAIN payload : payload[name] \in {"null", "no zone"}})
        ++ (IF HasDue(payload) THEN [is_all_day |-> "false"] ELSE <<>>)

(***************************************************************************)
(* The advertised schemas.                                                 *)
(***************************************************************************)
BodySchemaOfTexts(policy) == {"texts", "blank texts"}

\* The union of the nodes a policy allows; how many chips is not for a schema
\* to say.
BodySchema(policy) ==
    CASE policy = TextOnly -> {"texts", "blank texts"}
      [] policy = TextOrExistingRef -> {"texts", "blank texts", "chips", "stray chips"}
      [] OTHER -> {"texts", "blank texts", "placeholder", "placeholders"}

\* An entity_id is advertised as any string, the items of a list likewise.
SpecSchema(name, admits) ==
    CASE name = "body" -> BodySchema(admits)
      [] name = "entity_id" -> Uuid \cup String
      [] admits = NonEmptyString -> String
      [] admits = NonEmptyStrings -> NonEmptyStrings \cup {"blanks"}
      [] admits = LocalDateTime -> LocalDateTime \cup {"no such day"}
      [] OTHER -> admits

\* Clearing is for the user: null is in no schema.
FieldSchema(name, field) ==
    [field EXCEPT !.admits = SpecSchema(name, field.admits), !.clearable = FALSE]

JsonSchema(spec) == [name \in DOMAIN spec |-> FieldSchema(name, spec[name])]

\* Written by hand, as the validator is.
TaskSchema ==
    [title |-> Required(String), note |-> Optional(String),
     date |-> Optional(DOMAIN DueDates \cup {"text"}),
     is_all_day |-> Optional({"true", "false"}),
     time_zone |-> Optional({"zone", "no zone"})]

PayloadSpecOf(kind) ==
    CASE kind \in NodeKinds -> NodeSpec(kind[2])
      [] kind \in ObservationBatch -> ObservationDraft(kind[2])
      [] OTHER -> PayloadSpec(kind)

\* The tools' descriptors: a schema for each kind there is to propose.
Advertised(kind) ==
    kind \in ProposableMutation \cup NodeKinds \cup ObservationBatch \cup {Task}
Descriptor(kind) == IF kind = Task THEN TaskSchema ELSE JsonSchema(PayloadSpecOf(kind))

(***************************************************************************)
(* Core's gate, before the Run parks: batches and tasks are checked whole, *)
(* a graph as a structure, and any other Entity mutation not at all, so    *)
(* that the user can repair it.                                            *)
(***************************************************************************)
ValidateBeforePark(kind, payload) ==
    kind \in ObservationBatch => ValidateObservation(kind[2], payload)

ValidateRequest(kind, payload) ==
    /\ Advertised(kind)
    /\ ValidateBeforePark(kind, payload)
    /\ kind \in NodeKinds => Check(PayloadSpecOf(kind), payload)
    /\ kind = Task => ValidateTaskPayload(payload)

(***************************************************************************)
(* Decide.  An edit replaces the payload and keeps the target.             *)
(***************************************************************************)
EditMerged(kind, payload, edited) ==
    IF TargetKey(kind) = "none" THEN edited ELSE edited ++ payload

PreserveUpdateTarget(kind, payload, edited) ==
    LET key == TargetKey(kind)
    IN  IF key = "none" \/ key \notin DOMAIN payload THEN edited
        ELSE [name \in {key} |-> payload[key]] ++ edited

EditRefused(kind, payload, edited) ==
    LET key == TargetKey(kind)
    IN  /\ key # "none"
        /\ \/ key \notin DOMAIN payload
           \/ key \in DOMAIN edited /\ edited[key] # payload[key]

Acceptable(kind, payload) ==
    CASE kind = Task -> ValidateTaskPayload(payload)
      [] kind \in ObservationBatch -> ValidateObservation(kind[2], payload)
      [] kind \in NodeKinds -> Check(PayloadSpecOf(kind), payload)
      [] OTHER -> Validate(kind, payload)

AcceptableEdited(kind, payload, edited) ==
    /\ kind = Task \/ kind \in ObservationBatch \/ SupportsEdit(kind)
    /\ IF kind \in ProposableMutation
         THEN /\ ~EditRefused(kind, payload, edited)
              /\ Acceptable(kind, PreserveUpdateTarget(kind, payload, edited))
         ELSE Acceptable(kind, edited)
=============================================================================
