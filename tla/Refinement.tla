----------------------------- MODULE Refinement -----------------------------
(* Looking a room's places up in the background (refine/worker.ts over the  *)
(* pipeline's scheduler).  A planner reads the room's needs and, for every  *)
(* place with something left to learn, queues the fetch of its site; what a *)
(* fetch brings waits in the bounded ready buffer, cell by cell (a place    *)
(* and a criterion), until the batcher hands it to the model; the answers   *)
(* are stored, and the room's cursor remembers what was asked.  A need that *)
(* changes wakes the planner; the room's loop stops ten minutes after the   *)
(* last person has left and starts again when somebody comes.               *)
(*                                                                          *)
(* One room, one process; every action is one stretch between two awaits.   *)
(* Left out: budgets, search, stale facts and eligibility, interactive      *)
(* lookups of the same places, host gates, priorities and what the room is  *)
(* shown of the progress.  Equal cells are one cell.                        *)
EXTENDS Integers, FiniteSets

CONSTANTS
    Places,         \* the places in scope
    Criteria,       \* what can be asked of a place
    Answerable,     \* the cells the places' sites have an answer for
    Vocabulary,     \* asked of every place in the end, needed or not
    ReadyCap,       \* places whose evidence the ready buffer holds
    FetchSlots,     \* the limit of the pool the fetches run in
    JudgeSlots,     \* the limit of the llm-matrix pool
    Dispatches,     \* the limit of pipelineDispatchSemaphore
    NeedSets,       \* what the active needs can be
    MaxUpsets       \* bound: changes of the needs, departures, further sockets,
                    \* waits cut short, failures and restarts

ASSUME RefinementAssumption ==
    /\ IsFiniteSet(Places) /\ IsFiniteSet(Criteria)
    /\ Vocabulary \subseteq Criteria /\ Answerable \subseteq Places \X Criteria
    /\ {ReadyCap, FetchSlots, JudgeSlots, Dispatches} \subseteq Nat \ {0}
    /\ NeedSets \subseteq SUBSET Criteria /\ NeedSets # {}
    /\ MaxUpsets \in Nat

VARIABLES
    needs,      \* the active needs, as stored
    known,      \* the answers, as stored
    wakes,      \* wakeRefinement calls committed needs still owe
    present,    \* somebody has the room open
    room,       \* the room's loop
    plan,       \* the plan under way (pipelinePlanning)
    awaited,    \* places the last plan waits for
    latest,     \* pipelineLatestPlans
    fetch,      \* per place: the fetch of its site
    ready,      \* cells the ready buffer charges for
    pending,    \* cells the batcher holds
    batches,    \* cells handed to the model
    upsets,     \* so far
    reopened    \* history: the loop restarted beside a plan of the last one

store    == <<needs, known>>
planner  == <<room, plan, awaited, latest>>
evidence == <<ready, pending, batches>>
counts   == <<upsets, reopened>>
vars     == <<needs, known, wakes, present, room, plan, awaited, latest, fetch,
              ready, pending, batches, upsets, reopened>>

Pairs  == Places \X Criteria
Epochs == 0..MaxUpsets

Room == [on : BOOLEAN, epoch : Epochs, timer : BOOLEAN, idle : BOOLEAN,
         pendingWake : BOOLEAN, evaluated : SUBSET Pairs]

NoRoom   == [on |-> FALSE, epoch |-> 0, timer |-> FALSE, idle |-> FALSE,
             pendingWake |-> FALSE, evaluated |-> {}]
StateFor == IF room.on THEN room ELSE [NoRoom EXCEPT !.on = TRUE]

Cell == [place : Places, criterion : Criteria, epoch : Epochs, sweep : BOOLEAN]

Plan == [at     : {"none", "loading", "read", "planned"},
         mine   : BOOLEAN,          \* its generation is still the room's
         state  : Room,             \* the loop it belongs to, once that was stopped
         needs  : SUBSET Criteria,  \* the inputs it read
         known  : SUBSET Pairs,
         queue  : SUBSET Places]

NoPlan == [at |-> "none", mine |-> TRUE, state |-> NoRoom, needs |-> {}, known |-> {},
           queue |-> {}]

Latest == [on : BOOLEAN, epoch : Epochs, items : SUBSET Pairs, active : SUBSET Criteria]
NoLatest == [on |-> FALSE, epoch |-> 0, items |-> {}, active |-> {}]

Batch == [cells : SUBSET Cell,
          at    : {"waiting", "starting", "queued", "judging"},
          epoch : Epochs,           \* read once the batch is about to be asked
          mine  : BOOLEAN,          \* of the loop that is running
          sweep : BOOLEAN]          \* its representative is vocabulary work

TypeOK ==
    /\ needs \subseteq Criteria /\ known \subseteq Pairs
    /\ wakes \in 0..MaxUpsets
    /\ {present, reopened} \subseteq BOOLEAN
    /\ room \in Room /\ plan \in Plan /\ latest \in Latest
    /\ awaited \subseteq Places
    /\ fetch \in [Places -> {"none", "queued", "running"}]
    /\ ready \subseteq Cell /\ pending \subseteq Cell
    /\ batches \subseteq Batch
    /\ upsets \in 0..MaxUpsets

-----------------------------------------------------------------------------
Upset == upsets < MaxUpsets /\ upsets' = upsets + 1

(* The planner's clock.                                                     *)

Planning == plan.at # "none"

\* schedulePipelinePlan: no second timer, and none beside a plan.
Scheduled(r) == [r EXCEPT !.timer = @ \/ (r.on /\ ~Planning)]

(* startRefinement: called when somebody appears, and again for every       *)
(* socket.                                                                  *)
Arrive ==
    /\ IF present THEN Upset ELSE UNCHANGED upsets
    /\ present' = TRUE
    /\ room' = Scheduled([StateFor EXCEPT !.idle = FALSE])
    /\ reopened' = (reopened \/ plan.state.on)
    /\ UNCHANGED <<store, wakes, plan, awaited, latest, fetch, evidence>>

Leave ==
    /\ present /\ Upset
    /\ present' = FALSE
    /\ room' = [room EXCEPT !.idle = room.on]
    /\ UNCHANGED <<store, wakes, plan, awaited, latest, fetch, evidence, reopened>>

(* The loop is forgotten.  Who holds its state goes on with it, as it was:    *)
(* the plan under way, and the batches that have read their epoch.           *)
Stop ==
    /\ room.idle
    /\ room' = NoRoom
    /\ latest' = NoLatest
    /\ awaited' = {}
    /\ plan' = IF Planning /\ ~plan.state.on
               THEN [plan EXCEPT !.mine = FALSE, !.state = room]
               ELSE plan
    /\ batches' = {[b EXCEPT !.mine = @ /\ b.at \in {"waiting", "starting"}] : b \in batches}
    /\ UNCHANGED <<store, wakes, present, fetch, ready, pending, counts>>

(* A command commits needs, or somebody's lookup is put off and leaves them   *)
(* as they are; the wake follows.                                            *)
ChangeNeeds(active) ==
    /\ Upset
    /\ needs' = active
    /\ wakes' = wakes + 1
    /\ UNCHANGED <<known, present, planner, fetch, evidence, reopened>>

Stale     == {c \in pending : c.epoch # room.epoch + 1 /\ ~c.sweep}
Surviving == {[c EXCEPT !.epoch = room.epoch + 1] : c \in pending \ Stale}

CancelQuietly == pending' = Surviving /\ ready' = ready \cup Surviving
                                            \* mutant: still charged for

(* Stale cells leave the batcher and the buffer; vocabulary work stays, as   *)
(* work of the new epoch.                                                    *)
CancelStale ==
    /\ pending' = Surviving
    /\ ready' = (ready \ pending) \cup Surviving

\* The cursor keeps what it says of the vocabulary.
Kept(pairs) == {pair \in pairs : pair[2] \in Vocabulary}

WakeForgotten ==                            \* mutant: a plan under way will do
    room' = [room EXCEPT !.epoch = @ + 1, !.evaluated = Kept(@), !.timer = ~Planning]

(* The room is planned anew: at once, or when the plan under way is through. *)
Woken ==
    room' = [room EXCEPT !.epoch = @ + 1, !.evaluated = Kept(@), !.timer = ~Planning,
                         !.pendingWake = @ \/ Planning]

WakeRefinement ==
    /\ wakes > 0
    /\ wakes' = wakes - 1
    /\ IF room.on
       THEN /\ Woken
            /\ CancelStale
            /\ awaited' = {}
            /\ plan' = [plan EXCEPT !.mine = @ /\ ~Planning]
       ELSE UNCHANGED <<room, pending, ready, awaited, plan>>
    /\ UNCHANGED <<store, present, latest, fetch, batches, counts>>

-----------------------------------------------------------------------------
(* A plan (planPipelineRoom).                                               *)

Begin ==
    /\ room.timer
    /\ room' = [room EXCEPT !.timer = FALSE]
    /\ plan' = [NoPlan EXCEPT !.at = "loading"]
    /\ awaited' = {}
    /\ UNCHANGED <<store, wakes, present, latest, fetch, evidence, counts>>

Load ==
    /\ plan.at = "loading"
    /\ plan' = [plan EXCEPT !.at = "read", !.needs = needs, !.known = known]
    /\ UNCHANGED <<store, wakes, present, room, awaited, latest, fetch, evidence, counts>>

(* However it ends: a wake that came meanwhile is honoured, unless the loop  *)
(* is another one; and the next plan is scheduled, if that is asked for.     *)
End(again) ==
    /\ plan' = NoPlan
    /\ room' = IF plan.state.on
               THEN [room EXCEPT !.timer = @ \/ (room.on /\ again)]
               ELSE [room EXCEPT !.timer = @ \/ again \/ room.pendingWake,
                                 !.pendingWake = FALSE]

Owner == IF plan.state.on THEN plan.state ELSE room

Open(p, criteria) == {c \in criteria : <<p, c>> \notin plan.known \cup Owner.evaluated}

(* What is left to ask of a place: the needs first, then the vocabulary. *)
Wanted(p) == IF Open(p, plan.needs) # {} THEN Open(p, plan.needs)
             ELSE Open(p, Vocabulary \ plan.needs)

Queue == {pair \in Pairs : pair[2] \in Wanted(pair[1])}

(* Queued, not yet asked, and for other needs.  A batch is vocabulary work   *)
(* if its first cell is.                                                     *)
Obsolete(b) == /\ b.at = "queued" /\ ~b.sweep
               /\ \E c \in b.cells : c.epoch # Owner.epoch \/ c.criterion \notin plan.needs

(* With no await in between: stale batches are dropped, and queued fetches   *)
(* of places with nothing left to ask; the plan becomes the latest.          *)
Apply ==
    /\ plan.at = "read"
    /\ batches' = {b \in batches : ~Obsolete(b)}
    /\ fetch' = [p \in Places |->
                    IF fetch[p] = "queued" /\ Open(p, plan.needs \cup Vocabulary) = {}
                    THEN "none" ELSE fetch[p]]
    /\ latest' = [on |-> TRUE, epoch |-> Owner.epoch, items |-> Queue, active |-> plan.needs]
    /\ IF Queue = {}
       THEN End(plan.mine)
       ELSE /\ plan' = [plan EXCEPT !.at = "planned", !.queue = {pair[1] : pair \in Queue},
                                      !.needs = {}, !.known = {}]
            /\ UNCHANGED room
    /\ UNCHANGED <<store, wakes, present, awaited, ready, pending, counts>>

(* The places' fetches are queued, save those that are queued or running;   *)
(* the next plan waits for them.                                            *)
Submit ==
    LET new == {p \in plan.queue : fetch[p] = "none"}
    IN  /\ plan.at = "planned"
        /\ fetch' = [p \in Places |-> IF p \in new THEN "queued" ELSE fetch[p]]
        /\ awaited' = IF plan.mine THEN new ELSE awaited
        /\ End(plan.mine /\ new = {})
        /\ UNCHANGED <<store, wakes, present, latest, evidence, counts>>

\* Fetched, or in the batcher, or with the model.
Busy(p) == fetch[p] # "none" \/ \E c \in pending \cup UNION {b.cells : b \in batches} : c.place = p

(* All of it has settled, or the watchdog has waited long enough.           *)
Settled ==
    /\ awaited # {}
    /\ IF \E p \in awaited : Busy(p) THEN Upset ELSE UNCHANGED upsets
    /\ awaited' = {}
    /\ room' = Scheduled(room)
    /\ UNCHANGED <<store, wakes, present, plan, latest, fetch, evidence, reopened>>

PlanFailsSilently ==                        \* mutant: no plan after one that failed
    /\ Planning /\ Upset
    /\ End(FALSE)
    /\ UNCHANGED <<store, wakes, present, awaited, latest, fetch, evidence, reopened>>

PlanFails ==
    /\ Planning /\ Upset
    /\ End(TRUE)
    /\ UNCHANGED <<store, wakes, present, awaited, latest, fetch, evidence, reopened>>

-----------------------------------------------------------------------------
(* Fetches.                                                                 *)

Charged == {c.place : c \in ready}

(* A slot, and room in the buffer for what the fetch will bring.            *)
Launch(p) ==
    /\ fetch[p] = "queued"
    /\ Cardinality({q \in Places : fetch[q] = "running"}) < FetchSlots
    /\ Cardinality(Charged) < ReadyCap
    /\ fetch' = [fetch EXCEPT ![p] = "running"]
    /\ UNCHANGED <<store, wakes, present, planner, evidence, counts>>

(* What it brings is matched with the latest plan, whichever plan asked for  *)
(* it.  Cells that do not fit are given up.                                  *)
Rematched(p) ==
    {[place |-> p, criterion |-> c, epoch |-> latest.epoch, sweep |-> c \notin latest.active] :
        c \in {d \in Criteria : <<p, d>> \in latest.items}}

Fetched(p) ==
    LET cells == IF latest.on /\ room.on /\ room.epoch = latest.epoch
                    /\ Cardinality(Charged \cup {p}) <= ReadyCap
                 THEN Rematched(p) ELSE {}
    IN  /\ fetch[p] = "running"
        /\ fetch' = [fetch EXCEPT ![p] = "none"]
        /\ ready' = ready \cup cells
        /\ pending' = pending \cup cells
        /\ UNCHANGED <<store, wakes, present, planner, batches, counts>>

FetchFails(p) ==
    /\ fetch[p] = "running" /\ Upset
    /\ fetch' = [fetch EXCEPT ![p] = "none"]
    /\ UNCHANGED <<store, wakes, present, planner, evidence, reopened>>

-----------------------------------------------------------------------------
(* Batches.                                                                 *)

Flush ==
    /\ pending # {}
    /\ batches' = batches \cup {[cells |-> pending, at |-> "waiting", epoch |-> 0,
                                 mine |-> TRUE, sweep |-> FALSE]}
    /\ pending' = {}
    /\ UNCHANGED <<store, wakes, present, planner, fetch, ready, counts>>

Becomes(b, c) == batches' = (batches \ {b}) \cup {c}
Gone(b)       == batches' = batches \ {b}

(* Its turn: the evidence leaves the buffer, and cells of another epoch are  *)
(* given up.                                                                 *)
Dispatch(b) ==
    LET live == {c \in b.cells : room.on /\ c.epoch = room.epoch}
    IN  /\ b.at = "waiting"
        /\ Cardinality({a \in batches : a.at # "waiting"}) < Dispatches
        /\ ready' = ready \ b.cells
        /\ IF live = {} THEN Gone(b)
           ELSE Becomes(b, [b EXCEPT !.cells = live, !.at = "starting"])
        /\ UNCHANGED <<store, wakes, present, planner, fetch, pending, counts>>

(* The room's state is looked up (and made anew, if the loop has stopped),   *)
(* its epoch read, and the batch queued.                                     *)
Enqueue(b) ==
    /\ b.at = "starting"
    /\ room' = StateFor
    /\ reopened' = (reopened \/ plan.state.on)
    /\ \E first \in b.cells :
            Becomes(b, [b EXCEPT !.at = "queued", !.epoch = StateFor.epoch, !.sweep = first.sweep])
    /\ UNCHANGED <<store, wakes, present, plan, awaited, latest, fetch, ready, pending,
                   upsets>>

Ask(b) ==
    /\ b.at = "queued"
    /\ Cardinality({a \in batches : a.at = "judging"}) < JudgeSlots
    /\ Becomes(b, [b EXCEPT !.at = "judging"])
    /\ UNCHANGED <<store, wakes, present, planner, fetch, ready, pending, counts>>

PairsOf(b) == {<<c.place, c.criterion>> : c \in b.cells}

Learnt(b)  == known \cup (PairsOf(b) \cap Answerable)

(* The answers are stored; and if no wake came since the epoch was read, the *)
(* cursor says that all of it was asked.                                     *)
Answered(b) ==
    /\ b.at = "judging"
    /\ Gone(b)
    /\ known' = Learnt(b)
    /\ room' = IF b.mine /\ room.on /\ room.epoch = b.epoch
               THEN [room EXCEPT !.evaluated = @ \cup PairsOf(b)] ELSE room
    /\ UNCHANGED <<needs, wakes, present, plan, awaited, latest, fetch, ready, pending, counts>>

(* A call that fails, or leaves cells unanswered: what it did answer is kept. *)
BatchFails(b) ==
    /\ b.at # "waiting" /\ Upset
    /\ Gone(b)
    /\ known' \in (IF b.at = "judging" THEN {known, Learnt(b)} ELSE {known})
    /\ UNCHANGED <<needs, wakes, present, planner, fetch, ready, pending, reopened>>

(* A process that restarts keeps nothing; loops start as people come back.   *)
Restart ==
    /\ Upset
    /\ wakes' = 0 /\ present' = FALSE
    /\ room' = NoRoom /\ plan' = NoPlan /\ awaited' = {} /\ latest' = NoLatest
    /\ fetch' = [p \in Places |-> "none"]
    /\ ready' = {} /\ pending' = {} /\ batches' = {}
    /\ reopened' = FALSE
    /\ UNCHANGED store

-----------------------------------------------------------------------------
\* A room just created, before its first page: or one of an earlier process.
Created == [NoRoom EXCEPT !.on = TRUE, !.timer = TRUE, !.idle = TRUE]

Init ==
    /\ needs \in NeedSets /\ known = {}
    /\ wakes = 0 /\ present = FALSE
    /\ room \in {NoRoom, Created}
    /\ plan = NoPlan /\ awaited = {} /\ latest = NoLatest
    /\ fetch = [p \in Places |-> "none"]
    /\ ready = {} /\ pending = {} /\ batches = {}
    /\ upsets = 0 /\ reopened = FALSE

Plans   == Begin \/ Load \/ Apply \/ Submit \/ Settled
Fetches == \E p \in Places : Launch(p) \/ Fetched(p)
Judges  == Flush \/ \E b \in batches : Dispatch(b) \/ Enqueue(b) \/ Ask(b) \/ Answered(b)
Faults  == PlanFails \/ Restart \/ (\E p \in Places : FetchFails(p))
                \/ (\E b \in batches : BatchFails(b))

Next == Arrive \/ Leave \/ Stop \/ (\E active \in NeedSets : ChangeNeeds(active))
            \/ WakeRefinement \/ Plans \/ Fetches \/ Judges \/ Faults

(* Timers fire, queries, fetches and the model answer or time out.  Nobody   *)
(* need come, leave or change a need.                                        *)
Fairness == WF_vars(WakeRefinement) /\ WF_vars(Plans) /\ WF_vars(Fetches) /\ WF_vars(Judges)

Spec == Init /\ [][Next]_vars /\ Fairness

-----------------------------------------------------------------------------
(* A plan made from needs that have changed since does not stand: while      *)
(* somebody is there, the next plan is due or under way (worker.ts 432-435:  *)
(* "Need commits ... rebuild the plan immediately").                         *)
Outdated == latest.on /\ latest.active # needs
Coming   == \/ room.timer
            \/ Planning /\ room.pendingWake
            \/ plan.at = "loading"
            \/ plan.at = "read" /\ plan.needs = needs

ReplanComing == present /\ wakes = 0 /\ ~reopened /\ Outdated => Coming

(* The ready buffer charges only for evidence that somebody will take out of *)
(* it: what leaks would close the admission of fetches for good.             *)
NothingLeaks == ready \subseteq pending \cup UNION {b.cells : b \in {a \in batches : a.at = "waiting"}}

(* Where somebody stays, every place has in the end been asked about every   *)
(* need, whatever failed, was dropped as stale or did not fit on the way.    *)
Tried == \A p \in Places : \A c \in needs : <<p, c>> \in known \cup room.evaluated

EventuallyTried == <>[](present /\ ~reopened => Tried)

=============================================================================
