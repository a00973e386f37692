---------------------------- MODULE RunLifecycle ----------------------------
(***************************************************************************)
(* What Core promises about one Run, whatever Workers, decide requests,    *)
(* Stops, retries and restarts do to it (ADR-0028, ADR-0025).  status is   *)
(* the materialized runs.status column; waitpoint says what a parked Run   *)
(* waits for: nothing, a Proposal nobody has decided, or a Proposal whose  *)
(* tool call already carries its Decision.                                 *)
(*                                                                         *)
(* ProposalDecision is shown to implement this module.                     *)
(***************************************************************************)

VARIABLES status, waitpoint

vars == <<status, waitpoint>>

\* The row is inserted running (db::insert_run).
Init == status = "running" /\ waitpoint = "none"

Complete == status = "running" /\ status' = "completed" /\ UNCHANGED waitpoint

\* The Worker's terminal error, a spawn failure and the boot sweep alike.
Fail == status = "running" /\ status' = "errored" /\ UNCHANGED waitpoint

Park == status = "running" /\ status' = "parked" /\ waitpoint' = "pending"

Decide == status = "parked" /\ waitpoint = "pending"
          /\ waitpoint' = "decided" /\ UNCHANGED status

\* A parked Run runs again only with the Decision in hand.
Resume == status = "parked" /\ waitpoint = "decided"
          /\ status' = "running" /\ waitpoint' = "none"

Stop == status \in {"running", "parked"}
        /\ status' = "cancelled" /\ waitpoint' = "none"

Retry == status = "errored" /\ status' = "running" /\ UNCHANGED waitpoint

Next == Complete \/ Fail \/ Park \/ Decide \/ Resume \/ Stop \/ Retry

Spec == Init /\ [][Next]_vars
=============================================================================
