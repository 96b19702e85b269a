----------------------------- MODULE MCStepNeeds -----------------------------
(* Small plans for StepNeeds. *)
EXTENDS StepNeeds

CONSTANTS r1, r2

TwoAppliers == {r1, r2}

\* The second step's first need is a payload no room accepts.
OneInvalid == {<<2, 1>>}

=============================================================================
