----------------------------- MODULE MCAgreement -----------------------------
(* Small rooms for Agreement. *)
EXTENDS Agreement, TLC

CONSTANTS org, ann, bob, inn, bar

Everyone   == {org, ann, bob}
OrgAndAnn  == {org, ann}
TwoPlaces  == {inn, bar}

\* What a place is called, and who of the joiners is who, changes nothing.
PlaceSymmetry == Permutations(TwoPlaces)

\* Every plan step can be opened.
EveryStep  == 1..Steps

\* The stances that tell the veto, the blocker and consent apart.
ThreeStances == {"accept", "reject", "conditionally_accept"}

=============================================================================
