----------------------------- MODULE StepNeeds -----------------------------
(***************************************************************************)
(* How a step that has just opened gets the needs its goal already stated   *)
(* for it: openAdvancedStep, applyPendingNeeds, resumePendingNeeds          *)
(* (engine.ts) and recordPendingNeeds (steps.ts).                           *)
(*                                                                          *)
(* The needs are submitted one by one, as ordinary commands, AFTER the      *)
(* transaction that opened the step, by the request that committed it; and  *)
(* again by any socket that authenticates while the step still owes some.   *)
(* Between any two of the queries of one applier, other commands move the   *)
(* room's revision, settle the step, or the process stops.  The list of a   *)
(* step is only ever cut at the front, so it is kept here as the index of   *)
(* its first need.                                                          *)
(***************************************************************************)
EXTENDS Naturals

CONSTANTS
    Appliers,      \* requests and sockets that may apply needs at one time
    Steps,         \* number of steps of the plan
    Needs,         \* needs the goal states for each step
    Invalid,       \* the needs, <<step, index>>, no room will ever accept
    CommandBound,  \* other commands a behaviour may contain
    FailureBound   \* failed queries and process stops a behaviour may contain

ASSUME StepNeedsAssumption ==
    /\ Steps \in Nat \ {0}
    /\ Needs \in Nat
    /\ Invalid \subseteq (1..Steps) \X (1..Needs)
    /\ CommandBound \in Nat
    /\ FailureBound \in Nat

VARIABLES
    active,     \* rooms.active_step_id
    open,       \* whether the phase still takes needs: FALSE once the last step agreed
    first,      \* rooms.steps[s].pendingNeeds: its first need's index
    revision,   \* rooms.revision
    rows,       \* how many requirement rows each step's need has got
    landed,     \* the step the last of those rows is tagged with
    refused,    \* needs answered invalid_input
    applying,   \* the set applyingNeeds of the process
    task,       \* each applier's place in the code and its local variables
    commands,   \* other commands so far
    failures    \* failed queries and process stops so far

roomVars  == <<active, open, revision>>
needVars  == <<rows, landed, refused>>
vars      == <<roomVars, first, needVars, applying, task, commands, failures>>

Plan    == 1..Steps
Entries == Plan \X (1..Needs)
Done    == Needs + 1       \* the first index of an empty list
Idle    == [at |-> "idle", step |-> 0, left |-> Done, base |-> 0]
Loop    == {"look", "submit", "record"}

TypeOK ==
    /\ active \in Plan
    /\ open \in BOOLEAN
    /\ first \in [Plan -> 1..Done]
    /\ revision \in Nat
    /\ rows \in [Entries -> Nat]
    /\ landed \in [Entries -> 0..Steps]
    /\ refused \subseteq Entries
    /\ applying \subseteq Plan
    /\ task \in [Appliers -> [at : {"idle", "read"} \cup Loop,
                              step : 0..Steps, left : 1..Done, base : Nat]]
    /\ commands \in 0..CommandBound
    /\ failures \in 0..FailureBound

-----------------------------------------------------------------------------
(* The first step's needs are the room's own from the start. *)
Init ==
    /\ active = 1
    /\ open = TRUE
    /\ first = [s \in Plan |-> IF s = 1 THEN Done ELSE 1]
    /\ revision = 0
    /\ rows = [e \in Entries |-> 0]
    /\ landed = [e \in Entries |-> 0]
    /\ refused = {}
    /\ applying = {}
    /\ task = [a \in Appliers |-> Idle]
    /\ commands = 0
    /\ failures = 0

(* The commit that settles the active step opens the next one.  Its request *)
(* goes on with what that step owes, but queries the step's places first.   *)
Advance(a) ==
    /\ task[a].at = "idle"
    /\ open
    /\ active < Steps
    /\ active' = active + 1
    /\ revision' = revision + 1
    /\ task' = [task EXCEPT ![a] = [at |-> "read", step |-> active + 1,
                                    left |-> first[active + 1], base |-> 0]]
    /\ UNCHANGED <<open, first, needVars, applying, commands, failures>>

(* The commit of the last step leaves the room agreed. *)
Decide ==
    /\ open
    /\ active = Steps
    /\ open' = FALSE
    /\ revision' = revision + 1
    /\ UNCHANGED <<active, first, needVars, applying, task, commands, failures>>

OtherCommand ==
    /\ commands < CommandBound
    /\ commands' = commands + 1
    /\ revision' = revision + 1
    /\ UNCHANGED <<active, open, first, needVars, applying, task, failures>>

(* A socket authenticates: resumePendingNeeds reads the step and its list,  *)
(* and has the organizer to look up before it gets any further.             *)
ReadRoom(a) ==
    /\ task[a].at = "idle"
    /\ first[active] # Done
    /\ task' = [task EXCEPT ![a] = [at |-> "read", step |-> active,
                                    left |-> first[active], base |-> 0]]
    /\ UNCHANGED <<roomVars, first, needVars, applying, commands, failures>>

(* applyPendingNeeds' guard: nothing to do, someone is at it, or in. *)
EnterAnyway(s, left) == left # Done  \* mutant: no look at the guard set
MayEnter(s, left) == left # Done /\ s \notin applying

Enter(a) ==
    /\ task[a].at = "read"
    /\ IF MayEnter(task[a].step, task[a].left)
       THEN /\ applying' = applying \cup {task[a].step}
            /\ task' = [task EXCEPT ![a].at = "look"]
       ELSE /\ task' = [task EXCEPT ![a] = Idle]
            /\ UNCHANGED applying
    /\ UNCHANGED <<roomVars, first, needVars, commands, failures>>

(* The finally clause: whatever ends the loop releases the step. *)
NeverReleased(a) == applying         \* mutant: an early return keeps the guard
Released(a) == applying \ {task[a].step}

Leave(a) ==
    /\ applying' = Released(a)
    /\ task' = [task EXCEPT ![a] = Idle]

(* The loop reads the revision and whether the room is still on the step. *)
AnyStep(a)   == TRUE                 \* mutant: reads the revision only
StillOpen(a) == active = task[a].step

Exhausted(a)  == task[a].left = Done

Look(a) ==
    /\ task[a].at = "look"
    /\ \/ /\ StillOpen(a) /\ ~ Exhausted(a)
          /\ task' = [task EXCEPT ![a].at = "submit", ![a].base = revision]
          /\ UNCHANGED applying
       \/ /\ ~ StillOpen(a) \/ Exhausted(a)
          /\ Leave(a)
    /\ UNCHANGED <<roomVars, first, needVars, commands, failures>>

Need(a) == <<task[a].step, task[a].left>>

(* SubmitRequirement: validated before its transaction, and in it one more  *)
(* row of the step the room is then on.                                     *)
Submit(a) ==
    /\ task[a].at = "submit"
    /\ Need(a) \notin Invalid
    /\ task[a].base = revision
    /\ open
    /\ revision' = revision + 1
    /\ rows' = [rows EXCEPT ![Need(a)] = @ + 1]
    /\ landed' = [landed EXCEPT ![Need(a)] = active]
    /\ task' = [task EXCEPT ![a].at = "record"]
    /\ UNCHANGED <<active, open, first, refused, applying, commands, failures>>

Refuse(a) ==
    /\ task[a].at = "submit"
    /\ Need(a) \in Invalid
    /\ refused' = refused \cup {Need(a)}
    /\ task' = [task EXCEPT ![a].at = "record"]
    /\ UNCHANGED <<roomVars, first, rows, landed, applying, commands, failures>>

(* sync_required or phase_unavailable: leave the rest where it is. *)
Overtaken(a) ==
    /\ task[a].at = "submit"
    /\ Need(a) \notin Invalid
    /\ task[a].base # revision \/ ~ open
    /\ Leave(a)
    /\ UNCHANGED <<roomVars, first, needVars, commands, failures>>

(* recordPendingNeeds: the list the applier holds replaces the step's. *)
ForgetAll(a) == Done                 \* mutant: forgets the rest as well
Remaining(a) == task[a].left + 1

Record(a) ==
    /\ task[a].at = "record"
    /\ first' = [first EXCEPT ![task[a].step] = Remaining(a)]
    /\ task' = [task EXCEPT ![a].at = "look", ![a].left = @ + 1]
    /\ UNCHANGED <<roomVars, needVars, applying, commands, failures>>

(* A query of the applier fails; inside the loop the finally clause runs. *)
QueryFails(a) ==
    /\ failures < FailureBound
    /\ failures' = failures + 1
    /\ \/ task[a].at \in Loop /\ Leave(a)
       \/ /\ task[a].at = "read"
          /\ task' = [task EXCEPT ![a] = Idle]
          /\ UNCHANGED applying
    /\ UNCHANGED <<roomVars, first, needVars, commands>>

(* The process stops: the rows stay, the appliers and their guard do not. *)
Restart ==
    /\ failures < FailureBound
    /\ failures' = failures + 1
    /\ applying' = {}
    /\ task' = [a \in Appliers |-> Idle]
    /\ UNCHANGED <<roomVars, first, needVars, commands>>

Continue(a) ==
    \/ Enter(a)
    \/ Look(a)
    \/ Submit(a)
    \/ Refuse(a)
    \/ Overtaken(a)
    \/ Record(a)

Next ==
    \/ \E a \in Appliers : Advance(a)
    \/ \E a \in Appliers : ReadRoom(a)
    \/ \E a \in Appliers : Continue(a)
    \/ \E a \in Appliers : QueryFails(a)
    \/ Decide
    \/ OtherCommand
    \/ Restart

Spec == Init /\ [][Next]_vars

(* The process runs its promises, and as long as a page of the room is open *)
(* a socket authenticates again and again (ws.ts closes each after 15 min). *)
Fairness ==
    /\ \A a \in Appliers : WF_vars(Continue(a))
    /\ WF_vars(\E a \in Appliers : ReadRoom(a))

FairSpec == Spec /\ Fairness

-----------------------------------------------------------------------------
(* At most one applier is inside the loop for a step, whichever requests    *)
(* and sockets got that far (the applyingNeeds set and its finally clause). *)
OneApplierPerStep ==
    \A a, b \in Appliers :
        /\ task[a].at \in Loop /\ task[b].at \in Loop
        /\ task[a].step = task[b].step
        => a = b

(* A need never lands on another step than the one that owes it, though the *)
(* step can be settled while its loop is between two queries.               *)
NeedsLandOnTheirStep ==
    \A e \in Entries : rows[e] > 0 => landed[e] = e[1]

(* An interruption loses nothing: what a step no longer owes has been       *)
(* submitted, or is a payload no room will accept.                          *)
NothingForgotten ==
    \A s \in Plan, n \in 1..Needs :
        s > 1 /\ n < first[s] => rows[<<s, n>>] > 0 \/ <<s, n>> \in refused

(* A step that stays open gets what it is owed, however often its appliers  *)
(* are overtaken, fail or die with the process.                             *)
OwedIsApplied ==
    \A s \in Plan :
        (active = s /\ first[s] # Done) ~> (active # s \/ ~ open \/ first[s] = Done)

=============================================================================
