---------------------------- MODULE Destination ----------------------------
(***************************************************************************)
(* What a room promises about its decisions, whatever the commands behind   *)
(* them: people come in and change their minds as they like, and a step of  *)
(* the plan is decided once, after the steps before it, and only for a      *)
(* place that everyone in the room backs at that very moment                *)
(* (the agreement rule "all-accept-organizer-commit").                      *)
(***************************************************************************)
EXTENDS Naturals

CONSTANTS Voters, Founders, StepIds, Places

VARIABLES
    roster,   \* who is in the room
    backing,  \* who stands behind a place as the destination of a step
    decided   \* the decisions: <<step, place>> pairs

Options == StepIds \X Places

Init ==
    /\ roster = Founders
    /\ backing = [o \in Options |-> {}]
    /\ decided = {}

Undecided(s) == \A c \in Places : <<s, c>> \notin decided

Join ==
    /\ \E m \in Voters \ roster : roster' = roster \cup {m}
    /\ UNCHANGED <<backing, decided>>

ChangeMinds ==
    /\ backing' \in [Options -> SUBSET roster]
    /\ UNCHANGED <<roster, decided>>

Decide(s, c) ==
    /\ Undecided(s)
    /\ \A r \in StepIds : r < s => ~ Undecided(r)
    /\ backing[<<s, c>>] = roster
    /\ decided' = decided \cup {<<s, c>>}
    /\ backing' \in [Options -> SUBSET roster]
    /\ UNCHANGED roster

Next == Join \/ ChangeMinds \/ \E s \in StepIds, c \in Places : Decide(s, c)

Spec == Init /\ [][Next]_<<roster, backing, decided>>

=============================================================================
