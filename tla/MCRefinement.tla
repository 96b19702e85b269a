---------------------------- MODULE MCRefinement ----------------------------
(* Two places and two criteria, one of them of the vocabulary; only one     *)
(* place's site says anything of the other.                                 *)
EXTENDS Refinement

CONSTANTS p1, p2, need, word

MCNeedSets   == {{}, {need}}
MCAnswerable == {<<p1, need>>}
=============================================================================
