------------------------- MODULE MCProposalDecision -------------------------
(* TLC instances of ProposalDecision. *)
EXTENDS ProposalDecision, TLC

\* Requests are interchangeable; sound for safety only.
TaskSymmetry == Permutations(Tasks)
=============================================================================
