--------------------------- MODULE StepNeedsProofs ---------------------------
(***************************************************************************)
(* Theorems about StepNeeds, for any number of appliers, steps and needs.   *)
(*                                                                          *)
(* What makes the four invariants inductive is what each applier may rely   *)
(* on at its place in the code: it holds the guard while it is in the loop  *)
(* (Guarded), the revision it submits against is still the room's only if   *)
(* the room is still on its step (Fresh), and everything in front of its    *)
(* copy of the list has been dealt with (Behind).                           *)
(***************************************************************************)
EXTENDS StepNeeds, TLAPS

Placed ==
    \A a \in Appliers :
        /\ task[a].at # "idle" => task[a].step \in Plan
        /\ task[a].at \in {"submit", "record"} => task[a].left # Done

Guarded == \A a \in Appliers : task[a].at \in Loop => task[a].step \in applying

Fresh ==
    \A a \in Appliers :
        /\ task[a].base <= revision
        /\ task[a].at = "submit" /\ task[a].base = revision => active = task[a].step

Dealt(s, n) == rows[<<s, n>>] > 0 \/ <<s, n>> \in refused

Behind ==
    \A a \in Appliers, s \in Plan, n \in 1..Needs :
        /\ task[a].at # "idle" /\ task[a].step = s /\ s > 1
        /\ n < task[a].left \/ (n = task[a].left /\ task[a].at = "record")
        => Dealt(s, n)

IInv ==
    /\ TypeOK
    /\ Placed
    /\ Guarded
    /\ Fresh
    /\ Behind
    /\ OneApplierPerStep
    /\ NeedsLandOnTheirStep
    /\ NothingForgotten

-----------------------------------------------------------------------------
(* A place of an applier, field by field. *)
Tasks == [at : {"idle", "read"} \cup Loop, step : 0..Steps, left : 1..Done, base : Nat]

LEMMA IdleIsTask == Idle \in Tasks
BY StepNeedsAssumption DEF Idle, Tasks, Done

LEMMA InitInv == Init => IInv
<1> SUFFICES ASSUME Init PROVE IInv
  OBVIOUS
<1> USE StepNeedsAssumption
<1>1. TypeOK
  BY IdleIsTask DEF Init, TypeOK, Plan, Entries, Done, Tasks
<1>2. Placed /\ Guarded /\ Fresh /\ OneApplierPerStep
  BY DEF Init, Placed, Guarded, Fresh, OneApplierPerStep, Idle, Loop
<1>3. Behind
  BY DEF Init, Behind, Idle
<1>4. NeedsLandOnTheirStep
  BY DEF Init, NeedsLandOnTheirStep
<1>5. NothingForgotten
  BY DEF Init, NothingForgotten, Plan, Done
<1>. QED
  BY <1>1, <1>2, <1>3, <1>4, <1>5 DEF IInv

-----------------------------------------------------------------------------
(* The need an applier submits is one of the plan's. *)
LEMMA NeedIsEntry ==
  ASSUME TypeOK, Placed, NEW a \in Appliers, task[a].at \in {"submit", "record"}
  PROVE  /\ task[a].step \in Plan
         /\ task[a].left \in 1..Needs
         /\ Need(a) \in Entries
<1>1. task[a].step \in Plan /\ task[a].left # Done
  BY DEF Placed
<1>2. task[a].left \in 1..Needs
  BY <1>1, StepNeedsAssumption DEF TypeOK, Done
<1>. QED
  BY <1>1, <1>2 DEF Need, Entries

LEMMA StepType == ASSUME TypeOK, Placed, [Next]_vars PROVE TypeOK'
<1> USE StepNeedsAssumption, IdleIsTask
<1>t. task \in [Appliers -> Tasks]
  BY DEF TypeOK, Tasks
<1>1. ASSUME NEW a \in Appliers, Advance(a) PROVE TypeOK'
  <2>1. active + 1 \in Plan /\ first[active + 1] \in 1..Done
    BY <1>1 DEF Advance, TypeOK, Plan
  <2>2. [at |-> "read", step |-> active + 1, left |-> first[active + 1], base |-> 0] \in Tasks
    BY <2>1 DEF Tasks, Plan
  <2>3. task' \in [Appliers -> Tasks]
    BY <1>1, <1>t, <2>2 DEF Advance
  <2>. QED
    BY <1>1, <2>1, <2>3 DEF Advance, TypeOK, Tasks, needVars
<1>2. ASSUME NEW a \in Appliers, ReadRoom(a) PROVE TypeOK'
  <2>1. [at |-> "read", step |-> active, left |-> first[active], base |-> 0] \in Tasks
    BY <1>2 DEF Tasks, TypeOK, Plan
  <2>2. task' \in [Appliers -> Tasks]
    BY <1>2, <1>t, <2>1 DEF ReadRoom
  <2>. QED
    BY <1>2, <2>2 DEF ReadRoom, TypeOK, Tasks, needVars, roomVars
<1>3. ASSUME NEW a \in Appliers, Enter(a) PROVE TypeOK'
  <2>1. task' \in [Appliers -> Tasks]
    BY <1>3, <1>t DEF Enter, Tasks, Loop
  <2>2. applying' \subseteq Plan
    BY <1>3 DEF Enter, TypeOK, Placed
  <2>. QED
    BY <1>3, <2>1, <2>2 DEF Enter, TypeOK, Tasks, needVars, roomVars
<1>4. ASSUME NEW a \in Appliers, Leave(a) PROVE /\ task' \in [Appliers -> Tasks]
                                                  /\ applying' \subseteq Plan
  BY <1>4, <1>t DEF Leave, Released, TypeOK
<1>5. ASSUME NEW a \in Appliers, Look(a) PROVE TypeOK'
  <2>1. task' \in [Appliers -> Tasks] /\ applying' \subseteq Plan
    <3>1. CASE UNCHANGED applying /\ task' = [task EXCEPT ![a].at = "submit", ![a].base = revision]
      BY <3>1, <1>t DEF Tasks, Loop, TypeOK
    <3>. QED
      BY <1>4, <1>5, <3>1 DEF Look
  <2>. QED
    BY <1>5, <2>1 DEF Look, TypeOK, Tasks, needVars, roomVars
<1>6. ASSUME NEW a \in Appliers, Submit(a) PROVE TypeOK'
  <2>1. task' \in [Appliers -> Tasks]
    BY <1>6, <1>t DEF Submit, Tasks, Loop
  <2>2. Need(a) \in Entries
    BY <1>6, NeedIsEntry DEF Submit
  <2>3. rows[Need(a)] + 1 \in Nat /\ active \in 0..Steps
    BY <2>2 DEF TypeOK, Plan
  <2>4. rows' \in [Entries -> Nat] /\ landed' \in [Entries -> 0..Steps]
    BY <1>6, <2>3 DEF Submit, TypeOK
  <2>. QED
    BY <1>6, <2>1, <2>4 DEF Submit, TypeOK, Tasks
<1>7. ASSUME NEW a \in Appliers, Refuse(a) PROVE TypeOK'
  <2>1. task' \in [Appliers -> Tasks]
    BY <1>7, <1>t DEF Refuse, Tasks, Loop
  <2>2. refused' \subseteq Entries
    BY <1>7, NeedIsEntry DEF Refuse, TypeOK
  <2>. QED
    BY <1>7, <2>1, <2>2 DEF Refuse, TypeOK, Tasks, roomVars
<1>8. ASSUME NEW a \in Appliers, Overtaken(a) PROVE TypeOK'
  BY <1>4, <1>8 DEF Overtaken, TypeOK, Tasks, needVars, roomVars
<1>9. ASSUME NEW a \in Appliers, Record(a) PROVE TypeOK'
  <2>1. task[a].left \in 1..Needs
    BY <1>9, NeedIsEntry DEF Record
  <2>2. Remaining(a) \in 1..Done /\ task[a].left + 1 \in 1..Done
    BY <2>1 DEF Remaining, Done
  <2>3. task' \in [Appliers -> Tasks]
    BY <1>9, <1>t, <2>2 DEF Record, Tasks, Loop
  <2>4. first' \in [Plan -> 1..Done]
    BY <1>9, <2>2 DEF Record, TypeOK
  <2>. QED
    BY <1>9, <2>3, <2>4 DEF Record, TypeOK, Tasks, needVars, roomVars
<1>10. ASSUME NEW a \in Appliers, QueryFails(a) PROVE TypeOK'
  <2>1. task' \in [Appliers -> Tasks] /\ applying' \subseteq Plan
    <3>1. CASE task' = [task EXCEPT ![a] = Idle] /\ UNCHANGED applying
      BY <3>1, <1>t DEF TypeOK
    <3>. QED
      BY <1>4, <1>10, <3>1 DEF QueryFails
  <2>. QED
    BY <1>10, <2>1 DEF QueryFails, TypeOK, Tasks, needVars, roomVars
<1>11. CASE Decide
  <2>1. revision' \in Nat
    BY <1>11 DEF Decide, TypeOK
  <2>. QED
    BY <1>11, <2>1 DEF Decide, TypeOK, needVars
<1>12. CASE OtherCommand
  <2>1. commands' \in 0..CommandBound /\ revision' \in Nat
    BY <1>12 DEF OtherCommand, TypeOK
  <2>. QED
    BY <1>12, <2>1 DEF OtherCommand, TypeOK, needVars
<1>13. CASE Restart
  <2>1. task' \in [Appliers -> Tasks]
    BY <1>13 DEF Restart
  <2>. QED
    BY <1>13, <2>1 DEF Restart, TypeOK, Tasks, needVars, roomVars
<1>14. CASE UNCHANGED vars
  BY <1>14 DEF vars, TypeOK, needVars, roomVars
<1>. QED
  BY <1>1, <1>2, <1>3, <1>5, <1>6, <1>7, <1>8, <1>9, <1>10, <1>11, <1>12, <1>13, <1>14
  DEF Next, Continue

-----------------------------------------------------------------------------
(* What the other appliers' places rely on is undisturbed: the rest of the  *)
(* invariant, one conjunct at a time.                                       *)
LEMMA StepPlaced == ASSUME TypeOK, Placed, [Next]_vars PROVE Placed'
<1> USE DEF TypeOK, Placed
<1>1. ASSUME NEW a \in Appliers, Advance(a) \/ ReadRoom(a) PROVE Placed'
  <2>1. PICK s \in Plan, n \in 1..Done : task' = [task EXCEPT ![a] =
                                   [at |-> "read", step |-> s, left |-> n, base |-> 0]]
    <3>1. CASE Advance(a)
      <4>1. active + 1 \in Plan
        BY <3>1, StepNeedsAssumption DEF Advance, Plan
      <4>2. first[active + 1] \in 1..Done
        BY <4>1
      <4>. QED
        BY <3>1, <4>1, <4>2 DEF Advance
    <3>2. CASE ReadRoom(a)
      BY <3>2 DEF ReadRoom
    <3>. QED
      BY <1>1, <3>1, <3>2
  <2>. QED
    BY <2>1
<1>2. ASSUME NEW a \in Appliers, Enter(a) PROVE Placed'
  BY <1>2 DEF Enter, Idle
<1>3. ASSUME NEW a \in Appliers, Leave(a) PROVE Placed'
  BY <1>3 DEF Leave, Idle
<1>4. ASSUME NEW a \in Appliers, Look(a) PROVE Placed'
  BY <1>3, <1>4 DEF Look, Exhausted, Loop
<1>5. ASSUME NEW a \in Appliers, Submit(a) \/ Refuse(a) PROVE Placed'
  BY <1>5 DEF Submit, Refuse
<1>6. ASSUME NEW a \in Appliers, Record(a) PROVE Placed'
  BY <1>6 DEF Record
<1>7. ASSUME NEW a \in Appliers, Overtaken(a) \/ QueryFails(a) PROVE Placed'
  BY <1>3, <1>7 DEF Overtaken, QueryFails, Idle
<1>8. CASE Decide \/ OtherCommand \/ UNCHANGED vars
  BY <1>8 DEF Decide, OtherCommand, vars
<1>9. CASE Restart
  BY <1>9 DEF Restart, Idle
<1>. QED
  BY <1>1, <1>2, <1>4, <1>5, <1>6, <1>7, <1>8, <1>9 DEF Next, Continue

(* Guarded and OneApplierPerStep go together: the guard an applier releases *)
(* is nobody else's because nobody else is in the loop for its step.        *)
LEMMA StepGuarded ==
  ASSUME TypeOK, Placed, Guarded, OneApplierPerStep, [Next]_vars
  PROVE  Guarded' /\ OneApplierPerStep'
<1> USE DEF TypeOK, Guarded, OneApplierPerStep
<1>1. ASSUME NEW a \in Appliers, Advance(a) \/ ReadRoom(a)
      PROVE  Guarded' /\ OneApplierPerStep'
  BY <1>1 DEF Advance, ReadRoom, Loop
<1>2. ASSUME NEW a \in Appliers, Enter(a) PROVE Guarded' /\ OneApplierPerStep'
  BY <1>2 DEF Enter, MayEnter, Idle, Loop
<1>3. ASSUME NEW a \in Appliers, Leave(a), task[a].at \in Loop
      PROVE  Guarded' /\ OneApplierPerStep'
  BY <1>3 DEF Leave, Released, Idle, Loop
<1>4. ASSUME NEW a \in Appliers, Look(a) PROVE Guarded' /\ OneApplierPerStep'
  BY <1>3, <1>4 DEF Look, Loop
<1>5. ASSUME NEW a \in Appliers, Submit(a) \/ Refuse(a) \/ Record(a)
      PROVE  Guarded' /\ OneApplierPerStep'
  BY <1>5 DEF Submit, Refuse, Record, Loop
<1>6. ASSUME NEW a \in Appliers, Overtaken(a) \/ QueryFails(a)
      PROVE  Guarded' /\ OneApplierPerStep'
  <2>1. CASE Leave(a) /\ task[a].at \in Loop
    BY <1>3, <2>1
  <2>2. CASE task' = [task EXCEPT ![a] = Idle] /\ UNCHANGED applying
    BY <2>2 DEF Idle, Loop
  <2>. QED
    BY <1>6, <2>1, <2>2 DEF Overtaken, QueryFails, Loop
<1>7. CASE Decide \/ OtherCommand \/ UNCHANGED vars
  BY <1>7 DEF Decide, OtherCommand, vars
<1>8. CASE Restart
  BY <1>8 DEF Restart, Idle, Loop
<1>. QED
  BY <1>1, <1>2, <1>4, <1>5, <1>6, <1>7, <1>8 DEF Next, Continue

(* Every step of the room costs a revision, so an applier whose revision is *)
(* still the room's has its step still open.                                *)
LEMMA StepFresh == ASSUME TypeOK, Placed, Fresh, [Next]_vars PROVE Fresh'
<1> USE DEF TypeOK, Fresh
<1>1. ASSUME NEW a \in Appliers, Advance(a) \/ ReadRoom(a) PROVE Fresh'
  BY <1>1 DEF Advance, ReadRoom, roomVars
<1>2. ASSUME NEW a \in Appliers, Enter(a) PROVE Fresh'
  BY <1>2 DEF Enter, Idle, roomVars
<1>3. ASSUME NEW a \in Appliers, Leave(a), UNCHANGED roomVars PROVE Fresh'
  BY <1>3 DEF Leave, Idle, roomVars
<1>4. ASSUME NEW a \in Appliers, Look(a) PROVE Fresh'
  BY <1>3, <1>4 DEF Look, StillOpen, roomVars
<1>5. ASSUME NEW a \in Appliers, Submit(a) \/ Refuse(a) \/ Record(a) PROVE Fresh'
  BY <1>5 DEF Submit, Refuse, Record, roomVars
<1>6. ASSUME NEW a \in Appliers, Overtaken(a) \/ QueryFails(a) PROVE Fresh'
  BY <1>3, <1>6 DEF Overtaken, QueryFails, Idle, roomVars
<1>7. CASE Decide \/ OtherCommand \/ UNCHANGED vars
  BY <1>7 DEF Decide, OtherCommand, vars, roomVars
<1>8. CASE Restart
  BY <1>8 DEF Restart, Idle, roomVars
<1>. QED
  BY <1>1, <1>2, <1>4, <1>5, <1>6, <1>7, <1>8 DEF Next, Continue

(* A submission is tagged with the step that owes it. *)
LEMMA StepLands ==
  ASSUME TypeOK, Placed, Fresh, NeedsLandOnTheirStep, [Next]_vars
  PROVE  NeedsLandOnTheirStep'
<1>1. ASSUME NEW a \in Appliers, Submit(a) PROVE NeedsLandOnTheirStep'
  <2>1. Need(a) \in Entries /\ Need(a)[1] = active
    BY <1>1, NeedIsEntry DEF Submit, Fresh, Need
  <2>. QED
    BY <1>1, <2>1 DEF Submit, NeedsLandOnTheirStep, TypeOK
<1>2. CASE UNCHANGED <<rows, landed>>
  BY <1>2 DEF NeedsLandOnTheirStep
<1>. QED
  BY <1>1, <1>2
  DEF Next, Continue, Advance, ReadRoom, Enter, Look, Refuse, Overtaken, Record,
      QueryFails, Decide, OtherCommand, Restart, vars, needVars

(* What has been dealt with stays dealt with, whatever the step. *)
LEMMA DealtStays ==
  ASSUME TypeOK, [Next]_vars, NEW s, NEW n, <<s, n>> \in Entries, Dealt(s, n)
  PROVE  Dealt(s, n)'
<1>1. ASSUME NEW a \in Appliers, Submit(a) PROVE Dealt(s, n)'
  BY <1>1 DEF Submit, Dealt, TypeOK
<1>2. ASSUME NEW a \in Appliers, Refuse(a) PROVE Dealt(s, n)'
  BY <1>2 DEF Refuse, Dealt
<1>3. CASE UNCHANGED needVars
  BY <1>3 DEF Dealt, needVars
<1>. QED
  BY <1>1, <1>2, <1>3
  DEF Next, Continue, Advance, ReadRoom, Enter, Look, Overtaken, Record,
      QueryFails, Decide, OtherCommand, Restart, vars

(* The applier's place moves past a need only once it has been dealt with;  *)
(* a list read from the room starts at what is not forgotten.               *)
LEMMA StepBehind ==
  ASSUME TypeOK, Placed, Behind, NothingForgotten, [Next]_vars
  PROVE  Behind'
<1> SUFFICES ASSUME NEW b \in Appliers, NEW s \in Plan, NEW n \in 1..Needs,
                    task'[b].at # "idle", task'[b].step = s, s > 1,
                    n < task'[b].left \/ (n = task'[b].left /\ task'[b].at = "record")
             PROVE  Dealt(s, n)'
  BY DEF Behind, Dealt
<1>1. ASSUME task[b].at # "idle", task[b].step = s,
             n < task[b].left \/ (n = task[b].left /\ task[b].at = "record")
      PROVE  Dealt(s, n)'
  <2>1. Dealt(s, n)
    BY <1>1 DEF Behind
  <2>2. <<s, n>> \in Entries
    BY <1>1 DEF Placed, Entries
  <2>. QED
    BY <1>1, <2>1, <2>2, DealtStays
<1>2. ASSUME task'[b].left = first[s], task'[b].at = "read"
      PROVE  Dealt(s, n)'
  <2>1. Dealt(s, n)
    BY <1>2 DEF NothingForgotten, Dealt
  <2>2. <<s, n>> \in Entries
    BY <1>2 DEF Entries
  <2>. QED
    BY <2>1, <2>2, DealtStays
<1>3. CASE UNCHANGED task
  BY <1>1, <1>3
<1>4. ASSUME NEW a \in Appliers, task' = [task EXCEPT ![a] = Idle]
      PROVE  Dealt(s, n)'
  BY <1>1, <1>4 DEF Idle, TypeOK
<1>5. ASSUME NEW a \in Appliers, Advance(a) \/ ReadRoom(a)
      PROVE  Dealt(s, n)'
  <2>1. PICK t \in Plan : task' = [task EXCEPT ![a] =
                                   [at |-> "read", step |-> t, left |-> first[t], base |-> 0]]
    BY <1>5, StepNeedsAssumption DEF Advance, ReadRoom, TypeOK, Plan
  <2>2. CASE a = b
    BY <1>2, <2>1, <2>2 DEF TypeOK
  <2>3. CASE a # b
    BY <1>1, <2>1, <2>3 DEF TypeOK
  <2>. QED
    BY <2>2, <2>3
<1>6. ASSUME NEW a \in Appliers, Enter(a) \/ Look(a) PROVE Dealt(s, n)'
  <2>1. \/ task' = [task EXCEPT ![a] = Idle]
        \/ task' = [task EXCEPT ![a].at = "look"]
        \/ task' = [task EXCEPT ![a].at = "submit", ![a].base = revision]
    BY <1>6 DEF Enter, Look, Leave
  <2>2. task[a].at # "idle"
    BY <1>6 DEF Enter, Look
  <2>3. CASE task' = [task EXCEPT ![a].at = "look"]
    BY <1>1, <2>2, <2>3 DEF TypeOK
  <2>4. CASE task' = [task EXCEPT ![a].at = "submit", ![a].base = revision]
    BY <1>1, <2>2, <2>4 DEF TypeOK
  <2>. QED
    BY <1>4, <2>1, <2>3, <2>4
<1>7. ASSUME NEW a \in Appliers, Submit(a) \/ Refuse(a) PROVE Dealt(s, n)'
  <2>1. task' = [task EXCEPT ![a].at = "record"] /\ task[a].at = "submit"
    BY <1>7 DEF Submit, Refuse
  <2>2. CASE a = b /\ n = task[a].left
    <3>1. Need(a) \in Entries /\ Need(a) = <<s, n>>
      BY <2>1, <2>2, NeedIsEntry DEF Need, TypeOK
    <3>2. CASE Submit(a)
      <4>1. rows'[Need(a)] > 0
        BY <3>1, <3>2 DEF Submit, TypeOK
      <4>. QED
        BY <3>1, <4>1 DEF Dealt
    <3>3. CASE Refuse(a)
      BY <3>1, <3>3 DEF Refuse, Dealt
    <3>. QED
      BY <1>7, <3>2, <3>3
  <2>3. CASE a = b /\ n # task[a].left
    <3>1. task'[b].step = task[b].step /\ task'[b].left = task[b].left
      BY <2>1 DEF TypeOK
    <3>2. n < task[b].left
      BY <2>3, <3>1
    <3>3. task[b].at # "idle"
      BY <2>1, <2>3
    <3>. QED
      BY <1>1, <3>1, <3>2, <3>3
  <2>4. CASE a # b
    <3>1. task'[b] = task[b]
      BY <2>1, <2>4 DEF TypeOK
    <3>. QED
      BY <1>1, <3>1
  <2>. QED
    BY <2>2, <2>3, <2>4
<1>8. ASSUME NEW a \in Appliers, Record(a) PROVE Dealt(s, n)'
  <2>1. task' = [task EXCEPT ![a].at = "look", ![a].left = @ + 1] /\ task[a].at = "record"
    BY <1>8 DEF Record
  <2>2. a # b => task'[b] = task[b]
    BY <2>1 DEF TypeOK
  <2>3. a = b => /\ task'[b].step = task[b].step
                 /\ task'[b].left = task[b].left + 1
                 /\ task'[b].at = "look"
    BY <2>1 DEF TypeOK
  <2>4. task[b].left \in 1..Done
    BY DEF TypeOK
  <2>5. CASE a = b
    <3>1. n < task[b].left + 1
      BY <2>3, <2>5
    <3>2. n < task[b].left \/ n = task[b].left
      BY <3>1, <2>4, StepNeedsAssumption DEF Done
    <3>. QED
      BY <1>1, <2>1, <2>3, <2>5, <3>2
  <2>6. CASE a # b
    BY <1>1, <2>2, <2>6
  <2>. QED
    BY <2>5, <2>6
<1>9. CASE Restart
  BY <1>9 DEF Restart, Idle
<1>. QED
  BY <1>3, <1>4, <1>5, <1>6, <1>7, <1>8, <1>9
  DEF Next, Continue, Overtaken, QueryFails, Leave, Decide, OtherCommand, vars

(* A step's list is cut only by the applier that has dealt with its head.   *)
LEMMA StepNothingForgotten ==
  ASSUME TypeOK, Placed, Behind, NothingForgotten, [Next]_vars
  PROVE  NothingForgotten'
<1> SUFFICES ASSUME NEW s \in Plan, NEW n \in 1..Needs, s > 1, n < first'[s]
             PROVE  Dealt(s, n)'
  BY DEF NothingForgotten, Dealt
<1>0. <<s, n>> \in Entries
  BY DEF Entries
<1>1. CASE first'[s] = first[s]
  <2>1. Dealt(s, n)
    BY <1>1 DEF NothingForgotten, Dealt
  <2>. QED
    BY <1>0, <2>1, DealtStays
<1>2. ASSUME NEW a \in Appliers, Record(a), task[a].step = s PROVE Dealt(s, n)'
  <2>1. task[a].at = "record" /\ first'[s] = task[a].left + 1
    BY <1>2 DEF Record, Remaining, TypeOK
  <2>2. task[a].left \in 1..Done
    BY DEF TypeOK
  <2>3. n < task[a].left \/ n = task[a].left
    BY <2>1, <2>2, StepNeedsAssumption DEF Done
  <2>4. Dealt(s, n)
    BY <1>2, <2>1, <2>3 DEF Behind
  <2>. QED
    BY <1>0, <2>4, DealtStays
<1>3. ASSUME NEW a \in Appliers, Record(a), task[a].step # s PROVE first'[s] = first[s]
  BY <1>3 DEF Record, TypeOK
<1>4. CASE UNCHANGED first
  BY <1>1, <1>4
<1>. QED
  BY <1>1, <1>2, <1>3, <1>4
  DEF Next, Continue, Advance, ReadRoom, Enter, Look, Submit, Refuse, Overtaken,
      QueryFails, Decide, OtherCommand, Restart, vars

-----------------------------------------------------------------------------
LEMMA StepInv == IInv /\ [Next]_vars => IInv'
BY StepType, StepPlaced, StepGuarded, StepFresh, StepLands, StepBehind,
   StepNothingForgotten
DEF IInv

LEMMA Inductive == Spec => []IInv
BY InitInv, StepInv, PTL DEF Spec

(* Every variable of every reachable state keeps its type. *)
THEOREM TypeCorrect == Spec => []TypeOK
<1>1. IInv => TypeOK
  BY DEF IInv
<1>. QED
  BY <1>1, Inductive, PTL

(* No two appliers of a step are ever in the loop together, whatever was    *)
(* read before the guard (the applyingNeeds set of engine.ts).              *)
THEOREM ApplierAlone == Spec => []OneApplierPerStep
<1>1. IInv => OneApplierPerStep
  BY DEF IInv
<1>. QED
  BY <1>1, Inductive, PTL

(* A deferred need is a row of the step that owed it and of no other        *)
(* (the look at active_step_id in applyPendingNeeds).                       *)
THEOREM LandsWhereOwed == Spec => []NeedsLandOnTheirStep
<1>1. IInv => NeedsLandOnTheirStep
  BY DEF IInv
<1>. QED
  BY <1>1, Inductive, PTL

(* What a step's list no longer holds was submitted, or will never be       *)
(* accepted (recordPendingNeeds after each one).                            *)
THEOREM NothingIsForgotten == Spec => []NothingForgotten
<1>1. IInv => NothingForgotten
  BY DEF IInv
<1>. QED
  BY <1>1, Inductive, PTL

=============================================================================
