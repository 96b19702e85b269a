-------------------------- MODULE RefinementProofs --------------------------
(* What the background worker of a room promises however its queries, pages *)
(* and answers come in: one plan at a time, a change of needs always has a  *)
(* plan coming that will know of it, and whatever is charged to the ready   *)
(* buffer has somebody who will take it out.                                *)
(*                                                                          *)
(* The first two rest on a clock (Clock: a loop with somebody there has a   *)
(* timer or a plan, never both) and on what a plan may say of itself        *)
(* (PlanHonest); the bounds of the clock and of the epochs on the mishaps   *)
(* that there are (Counted).                                                *)
EXTENDS Refinement, TLAPS

(* What the planner's clock rests on.  Nobody is there without a loop; a     *)
(* timer is never beside a plan; and a plan outlives its loop only with the  *)
(* loop's state in hand, so that a loop started beside it is seen.           *)
Clock ==
    /\ present => room.on /\ ~room.idle
    /\ room.idle => room.on
    /\ room.timer => room.on /\ ~Planning
    /\ (Planning /\ ~plan.state.on) => room.on
    /\ (Planning /\ plan.state.on /\ room.on) => reopened

Counted == room.epoch + wakes <= upsets

(* A plan of the running loop is up to date, has yet to read, or will be     *)
(* followed by another.  ReplanComing says nothing while nobody is there;    *)
(* this does, for whoever comes back in the middle of a plan.                *)
PlanHonest ==
    (Planning /\ ~plan.state.on /\ wakes = 0) =>
        \/ room.pendingWake
        \/ plan.at = "loading"
        \/ plan.at = "read" /\ plan.needs = needs
        \/ plan.at = "planned" /\ latest.on /\ latest.active = needs

IInv == TypeOK /\ Counted /\ Clock /\ PlanHonest /\ ReplanComing /\ NothingLeaks

-----------------------------------------------------------------------------
(* The records the steps leave.                                             *)

LEMMA NoRoomIsRoom == NoRoom \in Room /\ ~NoRoom.on /\ ~NoRoom.timer /\ ~NoRoom.idle
                      /\ ~NoRoom.pendingWake /\ NoRoom.epoch = 0
  BY RefinementAssumption DEF NoRoom, Room, Epochs

LEMMA NoPlanIsPlan == NoPlan \in Plan /\ NoPlan.at = "none" /\ ~NoPlan.state.on
  BY NoRoomIsRoom DEF NoPlan, Plan

LEMMA NoLatestIsLatest == NoLatest \in Latest /\ ~NoLatest.on
  BY RefinementAssumption DEF NoLatest, Latest, Epochs

LEMMA CreatedIsRoom == Created \in Room /\ Created.on /\ Created.timer /\ Created.idle
                       /\ Created.epoch = 0 /\ ~Created.pendingWake
  BY NoRoomIsRoom DEF Created, NoRoom, Room

(* A room apart from its timer and its idle flag.                           *)
Same(r, s) == /\ r.on = s.on /\ r.epoch = s.epoch
              /\ r.pendingWake = s.pendingWake /\ r.evaluated = s.evaluated

LEMMA SetTimer ==
  ASSUME NEW r \in Room, NEW t \in BOOLEAN
  PROVE  /\ [r EXCEPT !.timer = t] \in Room
         /\ [r EXCEPT !.timer = t].timer = t
         /\ [r EXCEPT !.timer = t].idle = r.idle
         /\ Same([r EXCEPT !.timer = t], r)
  BY DEF Room, Same

LEMMA SetIdle ==
  ASSUME NEW r \in Room, NEW t \in BOOLEAN
  PROVE  /\ [r EXCEPT !.idle = t] \in Room
         /\ [r EXCEPT !.idle = t].idle = t
         /\ [r EXCEPT !.idle = t].timer = r.timer
         /\ Same([r EXCEPT !.idle = t], r)
  BY DEF Room, Same

LEMMA StateForIsRoom ==
  ASSUME room \in Room
  PROVE  /\ StateFor \in Room /\ StateFor.on
         /\ room.on => StateFor = room
         /\ ~room.on => /\ StateFor.epoch = 0 /\ ~StateFor.timer /\ ~StateFor.idle
                        /\ ~StateFor.pendingWake
<1>1. CASE room.on
  BY <1>1 DEF StateFor
<1>2. CASE ~room.on
  <2> DEFINE q == [NoRoom EXCEPT !.on = TRUE]
  <2>1. /\ q \in Room /\ q.on /\ q.epoch = 0 /\ ~q.timer /\ ~q.idle /\ ~q.pendingWake
    BY NoRoomIsRoom DEF Room
  <2>2. StateFor = q
    BY <1>2 DEF StateFor
  <2> QED
    BY <1>2, <2>1, <2>2
<1> QED
  BY <1>1, <1>2

(* Of the loop a step leaves behind: a timer if asked for, unless a plan is  *)
(* under way.                                                                *)
LEMMA ScheduledIsRoom ==
  ASSUME NEW r \in Room
  PROVE  /\ Scheduled(r) \in Room
         /\ Scheduled(r).idle = r.idle
         /\ Scheduled(r).timer <=> (r.timer \/ (r.on /\ ~Planning))
         /\ Same(Scheduled(r), r)
<1> DEFINE t == (r.timer \/ (r.on /\ ~Planning))
<1>1. t \in BOOLEAN
  OBVIOUS
<1>2. Scheduled(r) = [r EXCEPT !.timer = t]
  BY DEF Scheduled
<1> HIDE DEF t
<1>3. /\ Scheduled(r) \in Room /\ Scheduled(r).idle = r.idle /\ Scheduled(r).timer = t
      /\ Same(Scheduled(r), r)
  BY <1>1, <1>2, SetTimer
<1> QED
  BY <1>3 DEF t

LEMMA ArriveEffect ==
  ASSUME TypeOK, Arrive
  PROVE  /\ room' \in Room /\ room'.on /\ ~room'.idle
         /\ ~Planning => room'.timer
         /\ room'.timer => (room.on /\ room.timer) \/ ~Planning
         /\ room.on => room'.epoch = room.epoch /\ room'.pendingWake = room.pendingWake
         /\ ~room.on => room'.epoch = 0
<1> DEFINE q == [StateFor EXCEPT !.idle = FALSE]
<1>0. room \in Room
  BY DEF TypeOK
<1>1. StateFor \in Room
  BY <1>0, StateForIsRoom
<1>2. q \in Room /\ q.idle = FALSE /\ q.timer = StateFor.timer /\ Same(q, StateFor)
  BY <1>1, SetIdle
<1> HIDE DEF q
<1>3. room' = Scheduled(q)
  BY DEF Arrive, q
<1>4. /\ room' \in Room /\ room'.idle = q.idle /\ Same(room', q)
      /\ room'.timer <=> (q.timer \/ (q.on /\ ~Planning))
  BY <1>2, <1>3, ScheduledIsRoom
<1>5. room'.on = StateFor.on /\ room'.epoch = StateFor.epoch
      /\ room'.pendingWake = StateFor.pendingWake /\ q.on = StateFor.on
  BY <1>2, <1>4 DEF Same
<1> QED
  BY <1>0, <1>2, <1>4, <1>5, StateForIsRoom

LEMMA LeaveEffect ==
  ASSUME TypeOK, Leave
  PROVE  room' \in Room /\ room'.idle = room.on /\ room'.timer = room.timer /\ Same(room', room)
<1>1. room \in Room
  BY DEF TypeOK
<1>2. room.on \in BOOLEAN
  BY <1>1 DEF Room
<1> QED
  BY <1>1, <1>2, SetIdle DEF Leave

LEMMA StopEffect ==
  ASSUME TypeOK, Stop
  PROVE  /\ plan' \in Plan /\ plan'.at = plan.at
         /\ Planning /\ ~plan.state.on => plan'.state = room
         /\ ~(Planning /\ ~plan.state.on) => plan' = plan
<1>1. plan \in Plan /\ room \in Room
  BY DEF TypeOK
<1> DEFINE q == [plan EXCEPT !.mine = FALSE, !.state = room]
<1>2. q \in Plan /\ q.at = plan.at /\ q.state = room
  BY <1>1 DEF Plan
<1>3. plan' = IF Planning /\ ~plan.state.on THEN q ELSE plan
  BY DEF Stop
<1> HIDE DEF q
<1> QED
  BY <1>1, <1>2, <1>3

LEMMA WokenEffect ==
  ASSUME TypeOK, Counted, WakeRefinement, room.on
  PROVE  /\ room' \in Room /\ room'.on /\ room'.epoch = room.epoch + 1
         /\ room'.idle = room.idle
         /\ room'.timer <=> ~Planning
         /\ Planning => room'.pendingWake
<1> DEFINE e == room.epoch + 1
           k == Kept(room.evaluated)
           t == ~Planning
           w == room.pendingWake \/ Planning
<1>1. room \in Room /\ wakes \in Nat /\ upsets \in Nat /\ upsets <= MaxUpsets /\ MaxUpsets \in Nat
  BY RefinementAssumption DEF TypeOK
<1>2. room.epoch \in Nat
  BY <1>1, RefinementAssumption DEF Room, Epochs
<1>3. e \in Epochs
  <2>1. wakes > 0
    BY DEF WakeRefinement
  <2> QED
    BY <1>1, <1>2, <2>1 DEF Counted, Epochs
<1>4. k \in SUBSET Pairs
  BY <1>1 DEF Room, Kept
<1>5. t \in BOOLEAN /\ w \in BOOLEAN
  OBVIOUS
<1>6. room' = [room EXCEPT !.epoch = e, !.evaluated = k, !.timer = t, !.pendingWake = w]
  BY DEF WakeRefinement, Woken
<1>7. (Planning => w) /\ (t <=> ~Planning)
  OBVIOUS
<1>8. e = room.epoch + 1
  OBVIOUS
<1> HIDE DEF e, k, t, w
<1>9. /\ room' \in Room /\ room'.on = room.on /\ room'.epoch = e /\ room'.idle = room.idle
      /\ room'.timer = t /\ room'.pendingWake = w
  BY <1>1, <1>3, <1>4, <1>5, <1>6 DEF Room
<1> QED
  BY <1>7, <1>8, <1>9

LEMMA WokenPlan ==
  ASSUME TypeOK, WakeRefinement
  PROVE  plan' \in Plan /\ plan'.at = plan.at /\ plan'.state = plan.state
         /\ plan'.needs = plan.needs
<1> DEFINE g == (plan.mine /\ ~Planning)
           q == [plan EXCEPT !.mine = g]
<1>1. plan \in Plan /\ g \in BOOLEAN
  BY DEF TypeOK
<1>2. plan' = plan \/ plan' = q
  BY DEF WakeRefinement
<1> HIDE DEF g
<1>3. q \in Plan /\ q.at = plan.at /\ q.state = plan.state /\ q.needs = plan.needs
  BY <1>1 DEF Plan
<1> HIDE DEF q
<1> QED
  BY <1>1, <1>2, <1>3

LEMMA BeginEffect ==
  ASSUME TypeOK, Begin
  PROVE  /\ plan' \in Plan /\ plan'.at = "loading" /\ ~plan'.state.on
         /\ room' \in Room /\ ~room'.timer /\ room'.idle = room.idle /\ Same(room', room)
<1>1. room \in Room
  BY DEF TypeOK
<1>2. room' = [room EXCEPT !.timer = FALSE] /\ plan' = [NoPlan EXCEPT !.at = "loading"]
  BY DEF Begin
<1>3. plan' \in Plan /\ plan'.at = "loading" /\ ~plan'.state.on
  BY <1>2, NoPlanIsPlan DEF Plan
<1> QED
  BY <1>1, <1>2, <1>3, SetTimer

LEMMA LoadEffect ==
  ASSUME TypeOK, Load
  PROVE  /\ plan' \in Plan /\ plan'.at = "read" /\ plan'.state = plan.state
         /\ plan'.needs = needs
<1>1. plan \in Plan /\ needs \in SUBSET Criteria /\ known \in SUBSET Pairs
  BY DEF TypeOK
<1>2. plan' = [plan EXCEPT !.at = "read", !.needs = needs, !.known = known]
  BY DEF Load
<1> QED
  BY <1>1, <1>2 DEF Plan

(* However a plan ends: see End.                                            *)
LEMMA EndEffect ==
  ASSUME TypeOK, NEW again \in BOOLEAN, End(again)
  PROVE  /\ plan' = NoPlan
         /\ room' \in Room /\ room'.idle = room.idle
         /\ room'.on = room.on /\ room'.epoch = room.epoch
         /\ plan.state.on => (room'.timer => room.timer \/ room.on)
         /\ ~plan.state.on => (room'.timer <=> room.timer \/ again \/ room.pendingWake)
<1>1. room \in Room
  BY DEF TypeOK
<1>2. plan' = NoPlan
  BY DEF End
<1>3. CASE plan.state.on
  <2> DEFINE t == (room.timer \/ (room.on /\ again))
  <2>1. t \in BOOLEAN
    OBVIOUS
  <2>2. room' = [room EXCEPT !.timer = t]
    BY <1>3 DEF End
  <2>3. t => room.timer \/ room.on
    OBVIOUS
  <2> HIDE DEF t
  <2>4. room' \in Room /\ room'.idle = room.idle /\ room'.timer = t /\ Same(room', room)
    BY <1>1, <2>1, <2>2, SetTimer
  <2> QED
    BY <1>2, <1>3, <2>3, <2>4 DEF Same
<1>4. CASE ~plan.state.on
  <2> DEFINE t == (room.timer \/ again \/ room.pendingWake)
  <2>1. t \in BOOLEAN
    OBVIOUS
  <2>2. room' = [room EXCEPT !.timer = t, !.pendingWake = FALSE]
    BY <1>4 DEF End
  <2>3. t <=> room.timer \/ again \/ room.pendingWake
    OBVIOUS
  <2> HIDE DEF t
  <2>4. /\ room' \in Room /\ room'.idle = room.idle /\ room'.timer = t
        /\ room'.on = room.on /\ room'.epoch = room.epoch
    BY <1>1, <2>1, <2>2 DEF Room
  <2> QED
    BY <1>2, <1>4, <2>3, <2>4
<1> QED
  BY <1>3, <1>4


(* Whatever touches neither the planner nor a batch's epoch.                 *)
LEMMA AnsweredEffect ==
  ASSUME TypeOK, NEW b \in batches, Answered(b)
  PROVE  /\ room' \in Room /\ room'.timer = room.timer /\ room'.idle = room.idle
         /\ room'.on = room.on /\ room'.epoch = room.epoch
         /\ room'.pendingWake = room.pendingWake
<1>1. room \in Room /\ b.cells \subseteq Cell
  BY DEF TypeOK, Batch
<1> DEFINE v == room.evaluated \cup PairsOf(b)
           q == [room EXCEPT !.evaluated = v]
<1>2. v \in SUBSET Pairs
  BY <1>1 DEF Room, PairsOf, Pairs, Cell
<1>3. room' = q \/ room' = room
  BY DEF Answered
<1> HIDE DEF v
<1>4. /\ q \in Room /\ q.timer = room.timer /\ q.idle = room.idle
      /\ q.on = room.on /\ q.epoch = room.epoch /\ q.pendingWake = room.pendingWake
  BY <1>1, <1>2 DEF Room
<1> HIDE DEF q
<1> QED
  BY <1>1, <1>3, <1>4

LEMMA LatestOfApply ==
  ASSUME TypeOK, Apply
  PROVE  /\ latest' \in Latest /\ latest'.on /\ latest'.active = plan.needs
<1>1. plan \in Plan /\ room \in Room
  BY DEF TypeOK
<1>2. Owner \in Room
  BY <1>1 DEF Owner, Plan
<1>3. Owner.epoch \in Epochs /\ plan.needs \in SUBSET Criteria /\ Queue \in SUBSET Pairs
  BY <1>1, <1>2 DEF Room, Plan, Queue
<1>4. latest' = [on |-> TRUE, epoch |-> Owner.epoch, items |-> Queue, active |-> plan.needs]
  BY DEF Apply
<1> QED
  BY <1>3, <1>4 DEF Latest

(* The plan goes on to submit, or it is over.                                *)
LEMMA ApplyEffect ==
  ASSUME TypeOK, Apply
  PROVE  \/ End(plan.mine) /\ plan.mine \in BOOLEAN
         \/ /\ plan' \in Plan /\ plan'.at = "planned" /\ plan'.state = plan.state
            /\ room' = room
<1>1. plan \in Plan
  BY DEF TypeOK
<1> DEFINE f == {pair[1] : pair \in Queue}
           q == [plan EXCEPT !.at = "planned", !.queue = f, !.needs = {}, !.known = {}]
<1>2. f \in SUBSET Places
  BY DEF Queue, Pairs
<1>3. (plan' = q /\ room' = room) \/ End(plan.mine)
  BY DEF Apply
<1> HIDE DEF f
<1>4. q \in Plan /\ q.at = "planned" /\ q.state = plan.state
  BY <1>1, <1>2 DEF Plan
<1>5. plan.mine \in BOOLEAN
  BY <1>1 DEF Plan
<1> HIDE DEF q
<1> QED
  BY <1>3, <1>4, <1>5

(* A batch with some of its fields changed.                                  *)
LEMMA BatchChanges ==
  ASSUME NEW b \in Batch,
         NEW cells \in SUBSET Cell,
         NEW at \in {"waiting", "starting", "queued", "judging"},
         NEW epoch \in Epochs, NEW mine \in BOOLEAN, NEW sweep \in BOOLEAN
  PROVE  /\ [b EXCEPT !.cells = cells, !.at = at] \in Batch
         /\ [b EXCEPT !.cells = cells, !.at = at].at = at
         /\ [b EXCEPT !.at = at, !.epoch = epoch, !.sweep = sweep] \in Batch
         /\ [b EXCEPT !.at = at, !.epoch = epoch, !.sweep = sweep].at = at
         /\ [b EXCEPT !.at = at] \in Batch
         /\ [b EXCEPT !.at = at].at = at
         /\ [b EXCEPT !.mine = mine] \in Batch
         /\ [b EXCEPT !.mine = mine].at = b.at
         /\ [b EXCEPT !.mine = mine].cells = b.cells
  BY DEF Batch

-----------------------------------------------------------------------------
(* The shape of the state.                                                  *)

Store     == needs \subseteq Criteria /\ known \subseteq Pairs
Flags     == present \in BOOLEAN /\ reopened \in BOOLEAN
Planner   == room \in Room /\ plan \in Plan /\ latest \in Latest /\ awaited \subseteq Places
Evidence  == /\ fetch \in [Places -> {"none", "queued", "running"}]
             /\ ready \subseteq Cell /\ pending \subseteq Cell /\ batches \subseteq Batch
Numbers   == wakes \in Nat /\ upsets \in 0..MaxUpsets /\ Counted

LEMMA Parts == (TypeOK /\ Counted) <=> (Store /\ Flags /\ Planner /\ Evidence /\ Numbers)
<1>1. ASSUME TypeOK, Counted
      PROVE  Store /\ Flags /\ Planner /\ Evidence /\ Numbers
  <2>1. Store /\ Flags /\ Planner /\ Evidence
    BY <1>1 DEF TypeOK, Store, Flags, Planner, Evidence
  <2>2. Numbers
    BY <1>1 DEF TypeOK, Numbers
  <2> QED
    BY <2>1, <2>2
<1>2. ASSUME Store, Flags, Planner, Evidence, Numbers
      PROVE  TypeOK /\ Counted
  <2>1. room.epoch \in Nat
    BY <1>2, RefinementAssumption DEF Planner, Room, Epochs
  <2>2. wakes \in 0..MaxUpsets
    BY <1>2, <2>1, RefinementAssumption DEF Numbers, Counted
  <2>3. {present, reopened} \subseteq BOOLEAN
    BY <1>2 DEF Flags
  <2> QED
    BY <1>2, <2>2, <2>3 DEF TypeOK, Store, Planner, Evidence, Numbers
<1> QED
  BY <1>1, <1>2

LEMMA StoreStep ==
  ASSUME TypeOK, Next
  PROVE  Store'
<1>1. ASSUME NEW active \in NeedSets, ChangeNeeds(active)
      PROVE  Store'
  BY <1>1, RefinementAssumption DEF TypeOK, Store, ChangeNeeds
<1>2. ASSUME NEW b \in batches, Answered(b) \/ BatchFails(b)
      PROVE  Store'
  <2>1. b.cells \subseteq Cell
    BY DEF TypeOK, Batch
  <2>2. Learnt(b) \subseteq Pairs
    BY <2>1, RefinementAssumption DEF TypeOK, Learnt, PairsOf, Pairs, Cell
  <2>3. known' \in {known, Learnt(b)} /\ needs' = needs
    BY <1>2 DEF Answered, BatchFails
  <2> QED
    BY <2>2, <2>3 DEF TypeOK, Store
<1>3. ASSUME UNCHANGED store
      PROVE  Store'
  BY <1>3 DEF TypeOK, Store, store
<1> QED
  BY <1>1, <1>2, <1>3
     DEF Next, Arrive, Leave, Stop, WakeRefinement, Plans, Begin, Load, Apply, Submit, Settled,
         Fetches, Launch, Fetched, Judges, Flush, Dispatch, Enqueue, Ask, Faults, PlanFails,
         Restart, FetchFails, store

LEMMA FlagsStep ==
  ASSUME TypeOK, Next
  PROVE  Flags'
<1>1. present \in BOOLEAN /\ reopened \in BOOLEAN
  BY DEF TypeOK
<1>2. plan.state.on \in BOOLEAN
  BY DEF TypeOK, Plan, Room
<1>3. reopened' \in BOOLEAN
  BY <1>1, <1>2
     DEF Next, Arrive, Leave, Stop, ChangeNeeds, WakeRefinement, Plans, Begin, Load, Apply,
         Submit, Settled, Fetches, Launch, Fetched, Judges, Flush, Dispatch, Enqueue, Ask,
         Answered, Faults, PlanFails, Restart, FetchFails, BatchFails, counts
<1>4. present' \in BOOLEAN
  BY <1>1
     DEF Next, Arrive, Leave, Stop, ChangeNeeds, WakeRefinement, Plans, Begin, Load, Apply,
         Submit, Settled, Fetches, Launch, Fetched, Judges, Flush, Dispatch, Enqueue, Ask,
         Answered, Faults, PlanFails, Restart, FetchFails, BatchFails
<1> QED
  BY <1>3, <1>4 DEF Flags

(* Most steps leave the planner alone.                                      *)
Aside == \/ \E p \in Places : Launch(p) \/ Fetched(p) \/ FetchFails(p)
         \/ Flush
         \/ \E b \in batches : Dispatch(b) \/ Ask(b) \/ BatchFails(b)

LEMMA AsideLeaves ==
  ASSUME Aside
  PROVE  UNCHANGED <<needs, wakes, present, room, plan, awaited, latest, reopened>>
  BY DEF Aside, Launch, Fetched, FetchFails, Flush, Dispatch, Ask, BatchFails, store, planner, counts

LEMMA NextByKind ==
  ASSUME Next
  PROVE  \/ Arrive \/ Leave \/ Stop
         \/ \E active \in NeedSets : ChangeNeeds(active)
         \/ WakeRefinement
         \/ Begin \/ Load \/ Apply \/ Submit \/ Settled
         \/ \E b \in batches : Enqueue(b)
         \/ \E b \in batches : Answered(b)
         \/ PlanFails \/ Restart
         \/ Aside
  BY DEF Next, Plans, Fetches, Judges, Faults, Aside

LEMMA PlannerStep ==
  ASSUME TypeOK, Counted, Next
  PROVE  Planner'
<1>1. Planner
  BY DEF TypeOK, Planner
<1>2. CASE Arrive
  BY <1>1, <1>2, ArriveEffect DEF Planner, Arrive
<1>3. CASE Leave
  BY <1>1, <1>3, LeaveEffect DEF Planner, Leave
<1>4. CASE Stop
  BY <1>1, <1>4, StopEffect, NoRoomIsRoom, NoLatestIsLatest DEF Planner, Stop
<1>5. ASSUME NEW active \in NeedSets, ChangeNeeds(active)
      PROVE  Planner'
  BY <1>1, <1>5 DEF Planner, ChangeNeeds, planner
<1>6. CASE WakeRefinement
  <2>1. room' \in Room
    BY <1>1, <1>6, WokenEffect DEF Planner, WakeRefinement
  <2>2. latest' = latest /\ awaited' \in {awaited, {}}
    BY <1>6 DEF WakeRefinement
  <2> QED
    BY <1>1, <1>6, <2>1, <2>2, WokenPlan DEF Planner
<1>7. CASE Begin
  BY <1>1, <1>7, BeginEffect DEF Planner, Begin
<1>8. CASE Load
  BY <1>1, <1>8, LoadEffect DEF Planner, Load
<1>9. CASE Apply
  <2>1. awaited' = awaited
    BY <1>9 DEF Apply
  <2>2. plan' \in Plan /\ room' \in Room
    BY <1>1, <1>9, ApplyEffect, EndEffect, NoPlanIsPlan DEF Planner
  <2> QED
    BY <1>1, <1>9, <2>1, <2>2, LatestOfApply DEF Planner
<1>10. CASE Submit
  <2> DEFINE new == {p \in plan.queue : fetch[p] = "none"}
             again == plan.mine /\ new = {}
  <2>1. End(again) /\ again \in BOOLEAN
    BY <1>10 DEF Submit
  <2>2. plan' \in Plan /\ room' \in Room
    BY <2>1, EndEffect, NoPlanIsPlan
  <2>3. awaited' \in {new, awaited} /\ latest' = latest
    BY <1>10 DEF Submit
  <2>4. new \subseteq Places
    BY <1>1 DEF Planner, Plan
  <2> QED
    BY <1>1, <2>2, <2>3, <2>4 DEF Planner
<1>11. CASE Settled
  BY <1>1, <1>11, ScheduledIsRoom DEF Planner, Settled
<1>12. ASSUME NEW b \in batches, Enqueue(b)
       PROVE  Planner'
  BY <1>1, <1>12, StateForIsRoom DEF Planner, Enqueue
<1>13. ASSUME NEW b \in batches, Answered(b)
       PROVE  Planner'
  BY <1>1, <1>13, AnsweredEffect DEF Planner, Answered
<1>14. CASE PlanFails
  <2>1. End(TRUE) /\ latest' = latest /\ awaited' = awaited
    BY <1>14 DEF PlanFails
  <2> QED
    BY <1>1, <2>1, EndEffect, NoPlanIsPlan DEF Planner
<1>15. CASE Restart
  BY <1>15, NoRoomIsRoom, NoPlanIsPlan, NoLatestIsLatest DEF Planner, Restart
<1>16. CASE Aside
  BY <1>1, <1>16, AsideLeaves DEF Planner
<1> QED
  BY <1>2, <1>3, <1>4, <1>5, <1>6, <1>7, <1>8, <1>9, <1>10, <1>11, <1>12, <1>13, <1>14, <1>15,
     <1>16, NextByKind


LEMMA RematchedAreCells ==
  ASSUME TypeOK, NEW p \in Places
  PROVE  Rematched(p) \subseteq Cell
<1>1. latest.epoch \in Epochs
  BY DEF TypeOK, Latest
<1> DEFINE cell(c) == [place |-> p, criterion |-> c, epoch |-> latest.epoch,
                       sweep |-> c \notin latest.active]
<1>2. \A c \in Criteria : cell(c) \in Cell
  <2> TAKE c \in Criteria
  <2> DEFINE s == c \notin latest.active
  <2>1. s \in BOOLEAN
    OBVIOUS
  <2>2. cell(c) = [place |-> p, criterion |-> c, epoch |-> latest.epoch, sweep |-> s]
    OBVIOUS
  <2> HIDE DEF s, cell
  <2> QED
    BY <1>1, <2>1, <2>2 DEF Cell
<1>3. Rematched(p) = {cell(c) : c \in {d \in Criteria : <<p, d>> \in latest.items}}
  BY DEF Rematched
<1> HIDE DEF cell
<1> QED
  BY <1>2, <1>3

LEMMA SurvivingAreCells ==
  ASSUME TypeOK, Counted, wakes > 0
  PROVE  Surviving \subseteq Cell
<1>1. /\ pending \subseteq Cell /\ room.epoch \in Nat /\ wakes \in Nat /\ upsets \in Nat
      /\ upsets <= MaxUpsets /\ MaxUpsets \in Nat
  BY RefinementAssumption DEF TypeOK, Room, Epochs
<1> DEFINE e == room.epoch + 1
<1>2. e \in Epochs
  BY <1>1 DEF Counted, Epochs
<1> HIDE DEF e
<1>3. \A c \in pending : [c EXCEPT !.epoch = e] \in Cell
  BY <1>1, <1>2 DEF Cell
<1> QED
  BY <1>3 DEF Surviving, e

LEMMA EvidenceStep ==
  ASSUME TypeOK, Counted, Next
  PROVE  Evidence'
<1>1. Evidence
  BY DEF TypeOK, Evidence
<1>2. CASE Stop
  <2>1. \A b \in batches : (b.mine /\ b.at \in {"waiting", "starting"}) \in BOOLEAN
    OBVIOUS
  <2>2. \A b \in batches : [b EXCEPT !.mine = b.mine /\ b.at \in {"waiting", "starting"}] \in Batch
    BY <1>1, <2>1 DEF Evidence, Batch
  <2>3. batches' = {[b EXCEPT !.mine = b.mine /\ b.at \in {"waiting", "starting"}] : b \in batches}
    BY <1>2 DEF Stop
  <2>4. batches' \subseteq Batch
    BY <2>2, <2>3
  <2> QED
    BY <1>1, <1>2, <2>4 DEF Evidence, Stop
<1>3. CASE WakeRefinement
  <2>1. wakes > 0 /\ UNCHANGED <<fetch, batches>>
    BY <1>3 DEF WakeRefinement
  <2>2. \/ UNCHANGED <<pending, ready>>
        \/ pending' = Surviving /\ ready' = (ready \ pending) \cup Surviving
    BY <1>3 DEF WakeRefinement, CancelStale
  <2>3. Surviving \subseteq Cell
    BY <2>1, SurvivingAreCells
  <2> QED
    BY <1>1, <2>1, <2>2, <2>3 DEF Evidence
<1>4. CASE Apply
  BY <1>1, <1>4 DEF Evidence, Apply
<1>5. CASE Submit
  BY <1>1, <1>5 DEF Evidence, Submit, evidence
<1>6. ASSUME NEW p \in Places, Launch(p) \/ FetchFails(p)
      PROVE  Evidence'
  BY <1>1, <1>6 DEF Evidence, Launch, FetchFails, evidence
<1>7. ASSUME NEW p \in Places, Fetched(p)
      PROVE  Evidence'
  <2> DEFINE cells == IF latest.on /\ room.on /\ room.epoch = latest.epoch
                         /\ Cardinality(Charged \cup {p}) <= ReadyCap
                      THEN Rematched(p) ELSE {}
  <2>1. cells \subseteq Cell
    BY RematchedAreCells
  <2>2. /\ ready' = ready \cup cells /\ pending' = pending \cup cells
        /\ fetch' = [fetch EXCEPT ![p] = "none"] /\ batches' = batches
    BY <1>7 DEF Fetched
  <2> HIDE DEF cells
  <2> QED
    BY <1>1, <2>1, <2>2 DEF Evidence
<1>8. CASE Flush
  <2>1. [cells |-> pending, at |-> "waiting", epoch |-> 0, mine |-> TRUE, sweep |-> FALSE] \in Batch
    BY <1>1, RefinementAssumption DEF Evidence, Batch, Epochs
  <2> QED
    BY <1>1, <1>8, <2>1 DEF Evidence, Flush
<1>9. ASSUME NEW b \in batches, Dispatch(b)
      PROVE  Evidence'
  <2> DEFINE live == {c \in b.cells : room.on /\ c.epoch = room.epoch}
             n == [b EXCEPT !.cells = live, !.at = "starting"]
  <2>1. b \in Batch
    BY <1>1 DEF Evidence
  <2>2. live \in SUBSET Cell
    BY <2>1 DEF Batch
  <2>3. /\ batches' = batches \ {b} \/ batches' = (batches \ {b}) \cup {n}
        /\ ready' = ready \ b.cells
        /\ UNCHANGED <<fetch, pending>>
    BY <1>9 DEF Dispatch, Gone, Becomes
  <2> HIDE DEF live
  <2>4. n \in Batch
    BY <2>1, <2>2 DEF Batch
  <2> HIDE DEF n
  <2> QED
    BY <1>1, <2>3, <2>4 DEF Evidence
<1>10. ASSUME NEW b \in batches, Enqueue(b)
       PROVE  Evidence'
  <2>1. b \in Batch /\ StateFor \in Room
    BY <1>1, StateForIsRoom DEF Evidence, TypeOK
  <2>2. StateFor.epoch \in Epochs
    BY <2>1 DEF Room
  <2>3. PICK first \in b.cells :
            Becomes(b, [b EXCEPT !.at = "queued", !.epoch = StateFor.epoch, !.sweep = first.sweep])
    BY <1>10 DEF Enqueue
  <2>4. first.sweep \in BOOLEAN
    BY <2>1 DEF Batch, Cell
  <2>5. [b EXCEPT !.at = "queued", !.epoch = StateFor.epoch, !.sweep = first.sweep] \in Batch
    BY <2>1, <2>2, <2>4 DEF Batch
  <2>6. UNCHANGED <<fetch, ready, pending>>
    BY <1>10 DEF Enqueue
  <2> QED
    BY <1>1, <2>3, <2>5, <2>6 DEF Evidence, Becomes
<1>11. ASSUME NEW b \in batches, Ask(b)
       PROVE  Evidence'
  <2>1. [b EXCEPT !.at = "judging"] \in Batch
    BY <1>1 DEF Evidence, Batch
  <2> QED
    BY <1>1, <1>11, <2>1 DEF Evidence, Ask, Becomes
<1>12. ASSUME NEW b \in batches, Answered(b) \/ BatchFails(b)
       PROVE  Evidence'
  BY <1>1, <1>12 DEF Evidence, Answered, BatchFails, Gone
<1>13. CASE Restart
  BY <1>1, <1>13 DEF Evidence, Restart
<1>14. ASSUME UNCHANGED <<fetch, ready, pending, batches>>
       PROVE  Evidence'
  BY <1>1, <1>14 DEF Evidence
<1>15. CASE \/ Arrive \/ Leave \/ Begin \/ Load \/ Settled \/ PlanFails
            \/ \E active \in NeedSets : ChangeNeeds(active)
  <2>1. UNCHANGED <<fetch, ready, pending, batches>>
    BY <1>15 DEF Arrive, Leave, Begin, Load, Settled, PlanFails, ChangeNeeds, evidence
  <2> QED
    BY <2>1, <1>14
<1> QED
  BY <1>2, <1>3, <1>4, <1>5, <1>6, <1>7, <1>8, <1>9, <1>10, <1>11, <1>12, <1>13, <1>15
     DEF Next, Plans, Fetches, Judges, Faults

(* Epochs count wakes, and wakes come of changes: no count runs away.        *)
LEMMA NumbersStep ==
  ASSUME TypeOK, Counted, Next
  PROVE  Numbers'
<1>1. /\ Numbers /\ MaxUpsets \in Nat /\ wakes \in Nat /\ upsets \in Nat /\ upsets <= MaxUpsets
      /\ room.epoch \in Nat
  BY Parts, RefinementAssumption DEF Numbers, TypeOK, Room, Epochs
<1>2. wakes <= upsets
  BY <1>1 DEF Counted
<1>3. ASSUME wakes' = wakes, room'.epoch \in {0, room.epoch},
             Upset \/ UNCHANGED upsets
      PROVE  Numbers'
  <2>1. upsets' \in Nat /\ upsets <= upsets' /\ upsets' <= MaxUpsets
    BY <1>1, <1>3 DEF Upset
  <2> QED
    BY <1>1, <1>2, <1>3, <2>1 DEF Numbers, Counted
<1>4. CASE Arrive
  <2>1. wakes' = wakes /\ (Upset \/ UNCHANGED upsets)
    BY <1>4 DEF Arrive
  <2> QED
    BY <1>3, <1>4, <2>1, ArriveEffect
<1>5. CASE Leave
  <2>1. wakes' = wakes /\ Upset
    BY <1>5 DEF Leave
  <2> QED
    BY <1>3, <1>5, <2>1, LeaveEffect DEF Same
<1>6. CASE Stop
  <2>1. wakes' = wakes /\ UNCHANGED upsets /\ room'.epoch = 0
    BY <1>6, NoRoomIsRoom DEF Stop, counts
  <2> QED
    BY <1>3, <2>1
<1>7. ASSUME NEW active \in NeedSets, ChangeNeeds(active)
      PROVE  Numbers'
  <2>1. room' = room /\ wakes' = wakes + 1 /\ upsets' = upsets + 1 /\ upsets < MaxUpsets
    BY <1>7 DEF ChangeNeeds, planner, Upset
  <2> QED
    BY <1>1, <2>1 DEF Numbers, Counted
<1>8. CASE WakeRefinement
  <2>1. wakes > 0 /\ wakes' = wakes - 1 /\ upsets' = upsets
    BY <1>8 DEF WakeRefinement, counts
  <2>2. room'.epoch = room.epoch + 1 \/ room'.epoch = room.epoch
    BY <1>8, WokenEffect DEF WakeRefinement
  <2> QED
    BY <1>1, <2>1, <2>2 DEF Numbers, Counted
<1>9. CASE Begin
  <2>1. wakes' = wakes /\ UNCHANGED upsets
    BY <1>9 DEF Begin, counts
  <2> QED
    BY <1>3, <1>9, <2>1, BeginEffect DEF Same
<1>10. CASE Load
  <2>1. wakes' = wakes /\ UNCHANGED upsets /\ room' = room
    BY <1>10 DEF Load, counts
  <2> QED
    BY <1>3, <2>1
<1>11. CASE Apply
  <2>1. wakes' = wakes /\ UNCHANGED upsets
    BY <1>11 DEF Apply, counts
  <2>2. room'.epoch = room.epoch
    BY <1>11, ApplyEffect, EndEffect
  <2> QED
    BY <1>3, <2>1, <2>2
<1>12. CASE Submit
  <2>1. wakes' = wakes /\ UNCHANGED upsets
    BY <1>12 DEF Submit, counts
  <2>2. End(plan.mine /\ {p \in plan.queue : fetch[p] = "none"} = {})
    BY <1>12 DEF Submit
  <2>3. room'.epoch = room.epoch
    BY <2>2, EndEffect
  <2> QED
    BY <1>3, <2>1, <2>3
<1>13. CASE Settled
  <2>1. wakes' = wakes /\ (Upset \/ UNCHANGED upsets) /\ room' = Scheduled(room)
    BY <1>13 DEF Settled
  <2>2. room'.epoch = room.epoch
    BY <2>1, ScheduledIsRoom DEF TypeOK, Same
  <2> QED
    BY <1>3, <2>1, <2>2
<1>14. ASSUME NEW b \in batches, Enqueue(b)
       PROVE  Numbers'
  <2>1. wakes' = wakes /\ UNCHANGED upsets /\ room' = StateFor
    BY <1>14 DEF Enqueue
  <2>2. room'.epoch \in {0, room.epoch}
    BY <2>1, StateForIsRoom DEF TypeOK
  <2> QED
    BY <1>3, <2>1, <2>2
<1>15. ASSUME NEW b \in batches, Answered(b)
       PROVE  Numbers'
  <2>1. wakes' = wakes /\ UNCHANGED upsets
    BY <1>15 DEF Answered, counts
  <2> QED
    BY <1>3, <1>15, <2>1, AnsweredEffect
<1>16. CASE PlanFails
  <2>1. wakes' = wakes /\ Upset /\ End(TRUE)
    BY <1>16 DEF PlanFails
  <2> QED
    BY <1>3, <2>1, EndEffect
<1>17. CASE Restart
  <2>1. wakes' = 0 /\ room' = NoRoom /\ upsets' = upsets + 1 /\ upsets < MaxUpsets
    BY <1>17 DEF Restart, Upset
  <2> QED
    BY <1>1, <2>1, NoRoomIsRoom DEF Numbers, Counted
<1>18. CASE Aside
  <2>1. UNCHANGED <<wakes, room>>
    BY <1>18, AsideLeaves
  <2>2. Upset \/ UNCHANGED upsets
    BY <1>18 DEF Aside, Launch, Fetched, FetchFails, Flush, Dispatch, Ask, BatchFails, counts
  <2> QED
    BY <1>3, <2>1, <2>2
<1> QED
  BY <1>4, <1>5, <1>6, <1>7, <1>8, <1>9, <1>10, <1>11, <1>12, <1>13, <1>14, <1>15, <1>16, <1>17,
     <1>18, NextByKind

LEMMA TypeStep == TypeOK /\ Counted /\ Next => TypeOK' /\ Counted'
<1> SUFFICES ASSUME TypeOK, Counted, Next
             PROVE  TypeOK' /\ Counted'
  OBVIOUS
<1>1. Store' /\ Flags' /\ Planner' /\ Evidence' /\ Numbers'
  BY StoreStep, FlagsStep, PlannerStep, EvidenceStep, NumbersStep
<1>2. ((TypeOK /\ Counted) <=> (Store /\ Flags /\ Planner /\ Evidence /\ Numbers))'
  BY Parts, PTL
<1> QED
  BY <1>1, <1>2


-----------------------------------------------------------------------------
(* The planner's clock.                                                     *)

LEMMA AsideKeepsClock ==
  ASSUME UNCHANGED <<present, room, plan, reopened>>
  PROVE  Clock => Clock'
  BY DEF Clock, Planning

LEMMA EndKeepsClock ==
  ASSUME TypeOK, Clock, Planning, NEW again \in BOOLEAN, End(again),
         UNCHANGED <<present, reopened>>
  PROVE  Clock'
<1>1. /\ plan' = NoPlan /\ room'.idle = room.idle /\ room'.on = room.on
      /\ plan.state.on => (room'.timer => room.timer \/ room.on)
      /\ ~plan.state.on => (room'.timer <=> room.timer \/ again \/ room.pendingWake)
  BY EndEffect
<1>2. room'.timer => room'.on
  BY <1>1 DEF Clock
<1>3. ~Planning'
  BY <1>1, NoPlanIsPlan DEF Planning
<1> QED
  BY <1>1, <1>2, <1>3 DEF Clock

LEMMA ClockStep ==
  ASSUME TypeOK, Counted, Clock, Next
  PROVE  Clock'
<1>0. room \in Room
  BY DEF TypeOK
<1>1. CASE Arrive
  <2>1. plan' = plan /\ present' = TRUE /\ reopened' = (reopened \/ plan.state.on)
    BY <1>1 DEF Arrive
  <2>2. /\ room'.on /\ ~room'.idle
        /\ room'.timer => (room.on /\ room.timer) \/ ~Planning
    BY <1>1, ArriveEffect
  <2>3. Planning' = Planning
    BY <2>1 DEF Planning
  <2> QED
    BY <2>1, <2>2, <2>3 DEF Clock
<1>2. CASE Leave
  <2>1. plan' = plan /\ present' = FALSE /\ reopened' = reopened
    BY <1>2 DEF Leave
  <2>2. Planning' = Planning
    BY <2>1 DEF Planning
  <2> QED
    BY <1>2, <2>1, <2>2, LeaveEffect DEF Clock, Same
<1>3. CASE Stop
  <2>1. room' = NoRoom /\ room.idle /\ present' = present
    BY <1>3 DEF Stop
  <2>2. ~present /\ room.on
    BY <2>1 DEF Clock
  <2>3. Planning' => Planning
    BY <1>3, StopEffect DEF Planning
  <2>4. Planning' => plan'.state.on
    BY <1>3, <2>2, <2>3, StopEffect
  <2> QED
    BY <2>1, <2>2, <2>4, NoRoomIsRoom DEF Clock
<1>4. ASSUME NEW active \in NeedSets, ChangeNeeds(active)
      PROVE  Clock'
  BY <1>4, AsideKeepsClock DEF ChangeNeeds, planner
<1>5. CASE WakeRefinement
  <2>1. UNCHANGED <<present, reopened>>
    BY <1>5 DEF WakeRefinement, counts
  <2>2. plan'.state = plan.state /\ Planning' = Planning
    BY <1>5, WokenPlan DEF Planning
  <2>3. CASE room.on
    BY <1>5, <2>1, <2>2, <2>3, WokenEffect DEF Clock
  <2>4. CASE ~room.on
    <3>1. room' = room
      BY <1>5, <2>4 DEF WakeRefinement
    <3> QED
      BY <2>1, <2>2, <3>1 DEF Clock
  <2> QED
    BY <2>3, <2>4
<1>6. CASE Begin
  <2>1. UNCHANGED <<present, reopened>> /\ room.timer
    BY <1>6 DEF Begin, counts
  <2>2. /\ plan'.at = "loading" /\ ~plan'.state.on /\ room'.timer = FALSE
        /\ room'.idle = room.idle /\ room'.on = room.on
    BY <1>6, BeginEffect DEF Same, Room
  <2> QED
    BY <2>1, <2>2 DEF Clock, Planning
<1>7. CASE Load
  <2>1. UNCHANGED <<present, reopened, room>> /\ plan.at = "loading"
    BY <1>7 DEF Load, counts
  <2>2. plan'.at = "read" /\ plan'.state = plan.state
    BY <1>7, LoadEffect
  <2> QED
    BY <2>1, <2>2 DEF Clock, Planning
<1>8. CASE Apply
  <2>1. UNCHANGED <<present, reopened>> /\ plan.at = "read"
    BY <1>8 DEF Apply, counts
  <2>2. CASE End(plan.mine) /\ plan.mine \in BOOLEAN
    BY <2>1, <2>2, EndKeepsClock DEF Planning
  <2>3. CASE plan'.at = "planned" /\ plan'.state = plan.state /\ room' = room
    BY <2>1, <2>3 DEF Clock, Planning
  <2> QED
    BY <1>8, <2>2, <2>3, ApplyEffect
<1>9. CASE Submit
  <2>1. UNCHANGED <<present, reopened>> /\ plan.at = "planned"
    BY <1>9 DEF Submit, counts
  <2>2. End(plan.mine /\ {p \in plan.queue : fetch[p] = "none"} = {})
    BY <1>9 DEF Submit
  <2> QED
    BY <2>1, <2>2, EndKeepsClock DEF Planning
<1>10. CASE Settled
  <2>1. UNCHANGED <<present, reopened, plan>> /\ room' = Scheduled(room)
    BY <1>10 DEF Settled
  <2>2. /\ room'.idle = room.idle /\ room'.on = room.on
        /\ room'.timer <=> (room.timer \/ (room.on /\ ~Planning))
    BY <1>0, <2>1, ScheduledIsRoom DEF Same
  <2> QED
    BY <2>1, <2>2 DEF Clock, Planning
<1>11. ASSUME NEW b \in batches, Enqueue(b)
       PROVE  Clock'
  <2>1. /\ UNCHANGED <<present, plan>> /\ room' = StateFor
        /\ reopened' = (reopened \/ plan.state.on)
    BY <1>11 DEF Enqueue
  <2>2. CASE room.on
    <3>1. room' = room
      BY <1>0, <2>1, <2>2, StateForIsRoom
    <3> QED
      BY <2>1, <3>1 DEF Clock, Planning
  <2>3. CASE ~room.on
    <3>1. room'.on /\ ~room'.timer /\ ~room'.idle
      BY <1>0, <2>1, <2>3, StateForIsRoom
    <3> QED
      BY <2>1, <3>1 DEF Clock, Planning
  <2> QED
    BY <2>2, <2>3
<1>12. ASSUME NEW b \in batches, Answered(b)
       PROVE  Clock'
  <2>1. UNCHANGED <<present, reopened, plan>>
    BY <1>12 DEF Answered, counts
  <2> QED
    BY <1>12, <2>1, AnsweredEffect DEF Clock, Planning
<1>13. CASE PlanFails
  <2>1. UNCHANGED <<present, reopened>> /\ Planning /\ End(TRUE)
    BY <1>13 DEF PlanFails
  <2> QED
    BY <2>1, EndKeepsClock
<1>14. CASE Restart
  <2>1. room' = NoRoom /\ plan' = NoPlan /\ present' = FALSE
    BY <1>14 DEF Restart
  <2> QED
    BY <2>1, NoRoomIsRoom, NoPlanIsPlan DEF Clock, Planning
<1>15. CASE Aside
  BY <1>15, AsideLeaves, AsideKeepsClock
<1> QED
  BY <1>1, <1>2, <1>3, <1>4, <1>5, <1>6, <1>7, <1>8, <1>9, <1>10, <1>11, <1>12, <1>13, <1>14,
     <1>15, NextByKind

-----------------------------------------------------------------------------
(* A plan of the running loop is up to date, or not the last.               *)

LEMMA EndKeepsHonest ==
  ASSUME TypeOK, NEW again \in BOOLEAN, End(again)
  PROVE  PlanHonest'
<1>1. plan' = NoPlan
  BY EndEffect
<1>2. ~Planning'
  BY <1>1, NoPlanIsPlan DEF Planning
<1> QED
  BY <1>2 DEF PlanHonest

LEMMA PlanHonestStep ==
  ASSUME TypeOK, Counted, Clock, PlanHonest, Next
  PROVE  PlanHonest'
<1>0. room \in Room
  BY DEF TypeOK
<1>1. CASE Arrive
  <2>1. UNCHANGED <<needs, wakes, plan, latest>> /\ Planning' = Planning
    BY <1>1 DEF Arrive, store, Planning
  <2>2. room.on => room'.pendingWake = room.pendingWake
    BY <1>1, ArriveEffect
  <2>3. Planning /\ ~plan.state.on => room.on
    BY DEF Clock
  <2> QED
    BY <2>1, <2>2, <2>3 DEF PlanHonest
<1>2. CASE Leave
  <2>1. UNCHANGED <<needs, wakes, plan, latest>> /\ Planning' = Planning
    BY <1>2 DEF Leave, store, Planning
  <2> QED
    BY <1>2, <2>1, LeaveEffect DEF PlanHonest, Same
<1>3. CASE Stop
  <2>1. room.on
    BY <1>3 DEF Stop, Clock
  <2>2. Planning' => plan'.state.on
    BY <1>3, <2>1, StopEffect DEF Planning
  <2> QED
    BY <2>2 DEF PlanHonest
<1>4. ASSUME NEW active \in NeedSets, ChangeNeeds(active)
      PROVE  PlanHonest'
  <2>1. wakes' = wakes + 1 /\ wakes \in Nat
    BY <1>4, Parts DEF ChangeNeeds, Numbers
  <2>2. wakes' # 0
    BY <2>1
  <2> QED
    BY <2>2 DEF PlanHonest
<1>5. CASE WakeRefinement
  <2>1. Planning' = Planning /\ plan'.state = plan.state
    BY <1>5, WokenPlan DEF Planning
  <2>2. Planning /\ ~plan.state.on => room'.pendingWake
    BY <1>5, WokenEffect DEF Clock
  <2> QED
    BY <2>1, <2>2 DEF PlanHonest
<1>6. CASE Begin
  BY <1>6, BeginEffect DEF PlanHonest
<1>7. CASE Load
  <2>1. needs' = needs
    BY <1>7 DEF Load, store
  <2> QED
    BY <1>7, <2>1, LoadEffect DEF PlanHonest
<1>8. CASE Apply
  <2>1. UNCHANGED <<needs, wakes>> /\ plan.at = "read"
    BY <1>8 DEF Apply, store
  <2>2. latest'.on /\ latest'.active = plan.needs
    BY <1>8, LatestOfApply
  <2>3. ASSUME End(plan.mine), plan.mine \in BOOLEAN
        PROVE  PlanHonest'
    BY <2>3, EndKeepsHonest
  <2>4. CASE plan'.at = "planned" /\ plan'.state = plan.state /\ room' = room
    <3>1. ASSUME ~plan.state.on, wakes = 0, ~room.pendingWake
          PROVE  plan.needs = needs
      BY <2>1, <3>1 DEF PlanHonest, Planning
    <3> QED
      BY <2>1, <2>2, <2>4, <3>1 DEF PlanHonest
  <2> QED
    BY <1>8, <2>3, <2>4, ApplyEffect
<1>9. CASE Submit
  <2>1. End(plan.mine /\ {p \in plan.queue : fetch[p] = "none"} = {})
    BY <1>9 DEF Submit
  <2> QED
    BY <2>1, EndKeepsHonest
<1>10. CASE Settled
  <2>1. UNCHANGED <<needs, wakes, plan, latest>> /\ room' = Scheduled(room)
    BY <1>10 DEF Settled, store
  <2>2. room'.pendingWake = room.pendingWake /\ Planning' = Planning
    BY <1>0, <2>1, ScheduledIsRoom DEF Same, Planning
  <2> QED
    BY <2>1, <2>2 DEF PlanHonest
<1>11. ASSUME NEW b \in batches, Enqueue(b)
       PROVE  PlanHonest'
  <2>1. UNCHANGED <<needs, wakes, plan, latest>> /\ room' = StateFor
    BY <1>11 DEF Enqueue, store
  <2>2. Planning' = Planning
    BY <2>1 DEF Planning
  <2>3. Planning /\ ~plan.state.on => room' = room
    BY <1>0, <2>1, StateForIsRoom DEF Clock
  <2> QED
    BY <2>1, <2>2, <2>3 DEF PlanHonest
<1>12. ASSUME NEW b \in batches, Answered(b)
       PROVE  PlanHonest'
  <2>1. UNCHANGED <<needs, wakes, plan, latest>>
    BY <1>12 DEF Answered
  <2> QED
    BY <1>12, <2>1, AnsweredEffect DEF PlanHonest, Planning
<1>13. CASE PlanFails
  <2>1. End(TRUE)
    BY <1>13 DEF PlanFails
  <2> QED
    BY <2>1, EndKeepsHonest
<1>14. CASE Restart
  <2>1. plan' = NoPlan
    BY <1>14 DEF Restart
  <2> QED
    BY <2>1, NoPlanIsPlan DEF PlanHonest, Planning
<1>15. CASE Aside
  <2>1. UNCHANGED <<needs, wakes, plan, latest, room>>
    BY <1>15, AsideLeaves
  <2> QED
    BY <2>1 DEF PlanHonest, Planning
<1> QED
  BY <1>1, <1>2, <1>3, <1>4, <1>5, <1>6, <1>7, <1>8, <1>9, <1>10, <1>11, <1>12, <1>13, <1>14,
     <1>15, NextByKind


-----------------------------------------------------------------------------
(* The next plan is due.                                                    *)

(* While somebody is there, a plan under way is enough, whatever it does.    *)
LEMMA UnderWayIsComing ==
  ASSUME Clock, PlanHonest, present, Planning, ~reopened, wakes = 0, Outdated
  PROVE  Coming
<1>1. ~plan.state.on
  BY DEF Clock
<1>2. \/ room.pendingWake
      \/ plan.at = "loading"
      \/ (plan.at = "read" /\ plan.needs = needs)
  BY <1>1 DEF PlanHonest, Outdated
<1> QED
  BY <1>2 DEF Coming

LEMMA TimerIsComing == room.timer => Coming
  BY DEF Coming

(* How a plan ends while somebody is there and its loop is the running one.  *)
LEMMA EndKeepsComing ==
  ASSUME TypeOK, Clock, PlanHonest, Planning, NEW again \in BOOLEAN, End(again),
         UNCHANGED <<needs, wakes, present, reopened>>,
         \/ (plan.at = "planned" /\ latest' = latest)
         \/ (plan.at = "read" /\ latest'.active = plan.needs)
         \/ again = TRUE
  PROVE  ReplanComing'
<1> SUFFICES ASSUME present, wakes = 0, ~reopened, Outdated'
             PROVE  room'.timer
  BY DEF ReplanComing, Coming
<1>1. ~plan.state.on
  BY DEF Clock
<1>2. room'.timer <=> room.timer \/ again \/ room.pendingWake
  BY <1>1, EndEffect
<1>3. CASE again
  BY <1>2, <1>3
<1>4. CASE plan.at = "planned" /\ latest' = latest
  <2>1. room.pendingWake
    BY <1>1, <1>4 DEF PlanHonest, Outdated
  <2> QED
    BY <1>2, <2>1
<1>5. CASE plan.at = "read" /\ latest'.active = plan.needs
  <2>1. plan.needs # needs
    BY <1>5 DEF Outdated
  <2>2. room.pendingWake
    BY <1>1, <1>5, <2>1 DEF PlanHonest
  <2> QED
    BY <1>2, <2>2
<1> QED
  BY <1>3, <1>4, <1>5

LEMMA ReplanComingStep ==
  ASSUME TypeOK, Counted, Clock, PlanHonest, ReplanComing, Next
  PROVE  ReplanComing'
<1>0. room \in Room
  BY DEF TypeOK
<1> SUFFICES ASSUME (present /\ wakes = 0 /\ ~reopened /\ Outdated)'
             PROVE  Coming'
  BY DEF ReplanComing
<1>a. Clock' /\ PlanHonest'
  BY ClockStep, PlanHonestStep
(* If a plan is under way, it is one of the running loop.                    *)
<1>b. CASE Planning'
  <2>1. ~plan'.state.on
    BY <1>a, <1>b DEF Clock
  <2>2. \/ room'.pendingWake \/ plan'.at = "loading" \/ (plan.at = "read" /\ plan.needs = needs)'
    BY <1>a, <1>b, <2>1 DEF PlanHonest, Outdated
  <2> QED
    BY <1>b, <2>2 DEF Coming
<1>c. CASE ~Planning'
  <2> SUFFICES room'.timer
    BY DEF Coming
  (* If one was under way before as well as after, or neither, the timer is  *)
  (* as it was.                                                              *)
  <2>a. ASSUME ~Planning, present, UNCHANGED <<needs, wakes, reopened, latest>>
        PROVE  room.timer
    BY <2>a DEF ReplanComing, Outdated, Coming, Planning
  <2>1. CASE Arrive
    <3>1. plan' = plan
      BY <2>1 DEF Arrive
    <3> QED
      BY <1>c, <2>1, <3>1, ArriveEffect DEF Planning
  <2>2. CASE Leave
    BY <2>2 DEF Leave
  <2>3. CASE Stop
    BY <2>3, NoLatestIsLatest DEF Stop, Outdated
  <2>4. ASSUME NEW active \in NeedSets, ChangeNeeds(active)
        PROVE  FALSE
    <3>1. wakes' = wakes + 1 /\ wakes \in Nat
      BY <2>4, Parts DEF ChangeNeeds, Numbers
    <3> QED
      BY <3>1
  <2>5. CASE WakeRefinement
    <3>1. room.on
      BY <2>5 DEF WakeRefinement, Clock
    <3>2. ~Planning
      BY <1>c, <2>5, WokenPlan DEF Planning
    <3> QED
      BY <2>5, <3>1, <3>2, WokenEffect
  <2>6. CASE Begin
    BY <1>c, <2>6, BeginEffect DEF Planning
  <2>7. CASE Load
    BY <1>c, <2>7, LoadEffect DEF Planning
  <2>8. CASE Apply
    <3>1. UNCHANGED <<needs, wakes, present, reopened>> /\ plan.at = "read"
      BY <2>8 DEF Apply, store, counts
    <3>2. End(plan.mine) /\ plan.mine \in BOOLEAN
      BY <1>c, <2>8, ApplyEffect DEF Planning
    <3>3. ReplanComing'
      BY <2>8, <3>1, <3>2, LatestOfApply, EndKeepsComing DEF Planning
    <3> QED
      BY <1>c, <1>a, <3>3 DEF ReplanComing, Coming, Planning
  <2>9. CASE Submit
    <3>1. UNCHANGED <<needs, wakes, present, reopened, latest>> /\ plan.at = "planned"
      BY <2>9 DEF Submit, store, counts
    <3>2. End(plan.mine /\ {p \in plan.queue : fetch[p] = "none"} = {})
      BY <2>9 DEF Submit
    <3>3. ReplanComing'
      BY <3>1, <3>2, EndKeepsComing DEF Planning
    <3> QED
      BY <1>c, <3>3 DEF ReplanComing, Coming, Planning
  <2>10. CASE Settled
    <3>1. UNCHANGED <<needs, wakes, present, reopened, plan, latest>> /\ room' = Scheduled(room)
      BY <2>10 DEF Settled, store
    <3>2. room.timer
      BY <1>c, <2>a, <3>1 DEF Planning
    <3> QED
      BY <1>0, <3>1, <3>2, ScheduledIsRoom
  <2>11. ASSUME NEW b \in batches, Enqueue(b)
         PROVE  room'.timer
    <3>1. /\ UNCHANGED <<needs, wakes, present, plan, latest>> /\ room' = StateFor
          /\ reopened' = (reopened \/ plan.state.on)
      BY <2>11 DEF Enqueue, store
    <3>2. room.on /\ room' = room
      BY <1>0, <3>1, StateForIsRoom DEF Clock
    <3>3. ~reopened /\ Outdated
      BY <3>1 DEF Outdated
    <3> QED
      BY <1>c, <3>1, <3>2, <3>3 DEF ReplanComing, Coming, Planning
  <2>12. ASSUME NEW b \in batches, Answered(b)
         PROVE  room'.timer
    <3>1. UNCHANGED <<needs, wakes, present, plan, latest, reopened>>
      BY <2>12 DEF Answered, counts
    <3>2. room.timer
      BY <1>c, <2>a, <3>1 DEF Planning
    <3> QED
      BY <2>12, <3>2, AnsweredEffect
  <2>13. CASE PlanFails
    <3>1. UNCHANGED <<needs, wakes, present, reopened>> /\ Planning /\ End(TRUE)
      BY <2>13 DEF PlanFails, store
    <3>2. ReplanComing'
      BY <3>1, EndKeepsComing
    <3> QED
      BY <1>c, <3>2 DEF ReplanComing, Coming, Planning
  <2>14. CASE Restart
    BY <2>14 DEF Restart
  <2>15. CASE Aside
    <3>1. UNCHANGED <<needs, wakes, present, room, plan, latest, reopened>>
      BY <2>15, AsideLeaves
    <3> QED
      BY <1>c, <2>a, <3>1 DEF Planning
  <2> QED
    BY <2>1, <2>2, <2>3, <2>4, <2>5, <2>6, <2>7, <2>8, <2>9, <2>10, <2>11, <2>12, <2>13, <2>14,
       <2>15, NextByKind
<1> QED
  BY <1>b, <1>c

-----------------------------------------------------------------------------
(* The ready buffer.                                                        *)

Held == pending \cup UNION {b.cells : b \in {a \in batches : a.at = "waiting"}}

(* Steps that take no waiting batch away and nothing out of the batcher.     *)
LEMMA KeepsHeld ==
  ASSUME NothingLeaks, ready' \subseteq ready, pending \subseteq pending',
         \A b \in batches : b.at = "waiting" =>
            \E a \in batches' : a.at = "waiting" /\ a.cells = b.cells
  PROVE  NothingLeaks'
  BY DEF NothingLeaks

LEMMA NothingLeaksStep ==
  ASSUME TypeOK, NothingLeaks, Next
  PROVE  NothingLeaks'
<1>1. ASSUME UNCHANGED <<ready, pending, batches>>
      PROVE  NothingLeaks'
  BY <1>1 DEF NothingLeaks
<1>2. CASE Stop
  <2> DEFINE after(b) == [b EXCEPT !.mine = b.mine /\ b.at \in {"waiting", "starting"}]
  <2>1. batches' = {after(b) : b \in batches} /\ ready' = ready /\ pending' = pending
    BY <1>2 DEF Stop
  <2>2. ASSUME NEW b \in batches
        PROVE  after(b).at = b.at /\ after(b).cells = b.cells
    BY DEF TypeOK, Batch
  <2> HIDE DEF after
  <2>3. \A b \in batches : after(b) \in batches'
    BY <2>1
  <2> QED
    BY <2>1, <2>2, <2>3, KeepsHeld
<1>3. CASE WakeRefinement
  <2>1. batches' = batches
    BY <1>3 DEF WakeRefinement
  <2>2. \/ UNCHANGED <<pending, ready>>
        \/ pending' = Surviving /\ ready' = (ready \ pending) \cup Surviving
    BY <1>3 DEF WakeRefinement, CancelStale
  <2> QED
    BY <2>1, <2>2 DEF NothingLeaks
<1>4. CASE Apply
  <2>1. batches' = {b \in batches : ~Obsolete(b)} /\ ready' = ready /\ pending' = pending
    BY <1>4 DEF Apply
  <2>2. \A b \in batches : b.at = "waiting" => ~Obsolete(b)
    BY DEF Obsolete
  <2> QED
    BY <2>1, <2>2, KeepsHeld
<1>5. ASSUME NEW p \in Places, Fetched(p)
      PROVE  NothingLeaks'
  <2>1. batches' = batches /\ \E cells : ready' = ready \cup cells /\ pending' = pending \cup cells
    BY <1>5 DEF Fetched
  <2> QED
    BY <2>1 DEF NothingLeaks
<1>6. CASE Flush
  <2> DEFINE n == [cells |-> pending, at |-> "waiting", epoch |-> 0, mine |-> TRUE, sweep |-> FALSE]
  <2>1. batches' = batches \cup {n} /\ ready' = ready
    BY <1>6 DEF Flush
  <2>2. n.cells = pending /\ n.at = "waiting"
    OBVIOUS
  <2> HIDE DEF n
  <2> QED
    BY <2>1, <2>2 DEF NothingLeaks
<1>7. ASSUME NEW b \in batches, Dispatch(b)
      PROVE  NothingLeaks'
  <2>1. /\ batches \ {b} \subseteq batches'
        /\ ready' = ready \ b.cells /\ pending' = pending
    BY <1>7 DEF Dispatch, Gone, Becomes
  <2>2. \A c \in ready' : c \in pending \/ \E a \in batches : a.at = "waiting" /\ a # b /\ c \in a.cells
    BY <2>1 DEF NothingLeaks
  <2> QED
    BY <2>1, <2>2 DEF NothingLeaks
<1>8. ASSUME NEW b \in batches, Enqueue(b) \/ Ask(b) \/ Answered(b) \/ BatchFails(b)
      PROVE  NothingLeaks'
  <2>1. /\ batches \ {b} \subseteq batches' /\ b.at # "waiting"
        /\ ready' = ready /\ pending' = pending
    BY <1>8 DEF Enqueue, Ask, Answered, BatchFails, Gone, Becomes
  <2>2. \A a \in batches : a.at = "waiting" => a \in batches'
    BY <2>1
  <2> QED
    BY <2>1, <2>2, KeepsHeld
<1>9. CASE Restart
  BY <1>9 DEF Restart, NothingLeaks
<1>10. CASE \/ Arrive \/ Leave \/ Begin \/ Load \/ Submit \/ Settled \/ PlanFails
            \/ \E active \in NeedSets : ChangeNeeds(active)
            \/ \E p \in Places : Launch(p) \/ FetchFails(p)
  <2>1. UNCHANGED <<ready, pending, batches>>
    BY <1>10
       DEF Arrive, Leave, Begin, Load, Submit, Settled, PlanFails, ChangeNeeds, Launch, FetchFails,
           evidence
  <2> QED
    BY <1>1, <2>1
<1> QED
  BY <1>2, <1>3, <1>4, <1>5, <1>6, <1>7, <1>8, <1>9, <1>10 DEF Next, Plans, Fetches, Judges, Faults

-----------------------------------------------------------------------------
LEMMA InitIsInvariant == Init => IInv
<1> SUFFICES ASSUME Init
             PROVE  IInv
  OBVIOUS
<1>1. /\ room \in Room /\ room.epoch = 0 /\ (room.idle \/ room.timer => room.on)
  BY NoRoomIsRoom, CreatedIsRoom DEF Init
<1>2. /\ plan = NoPlan /\ latest = NoLatest /\ wakes = 0 /\ upsets = 0 /\ ready = {}
      /\ present = FALSE /\ reopened = FALSE
  BY DEF Init
<1>3. Store /\ Flags /\ Planner /\ Evidence
  <2>1. Store /\ Flags
    BY RefinementAssumption DEF Init, Store, Flags
  <2>2. Planner /\ Evidence
    BY <1>1, NoPlanIsPlan, NoLatestIsLatest DEF Init, Planner, Evidence
  <2> QED
    BY <2>1, <2>2
<1>4. Numbers
  BY <1>1, <1>2, RefinementAssumption DEF Numbers, Counted
<1>5. TypeOK /\ Counted
  BY <1>3, <1>4, Parts
<1>6. Clock /\ PlanHonest
  BY <1>1, <1>2, NoPlanIsPlan DEF Clock, PlanHonest, Planning
<1>7. ReplanComing /\ NothingLeaks
  BY <1>2 DEF ReplanComing, NothingLeaks
<1> QED
  BY <1>5, <1>6, <1>7 DEF IInv

LEMMA StepKeepsInvariant == IInv /\ [Next]_vars => IInv'
<1> SUFFICES ASSUME IInv, [Next]_vars
             PROVE  IInv'
  OBVIOUS
<1>1. CASE Next
  <2>1. TypeOK' /\ Counted'
    BY <1>1, TypeStep DEF IInv
  <2>2. Clock' /\ PlanHonest'
    BY <1>1, ClockStep, PlanHonestStep DEF IInv
  <2>3. ReplanComing' /\ NothingLeaks'
    BY <1>1, ReplanComingStep, NothingLeaksStep DEF IInv
  <2> QED
    BY <2>1, <2>2, <2>3 DEF IInv
<1>2. CASE UNCHANGED vars
  <2>1. TypeOK' /\ Counted'
    BY <1>2 DEF vars, IInv, TypeOK, Counted
  <2>2. Clock' /\ PlanHonest'
    BY <1>2 DEF vars, IInv, Clock, PlanHonest, Planning
  <2>3. ReplanComing' /\ NothingLeaks'
    BY <1>2 DEF vars, IInv, ReplanComing, Outdated, Coming, Planning, NothingLeaks
  <2> QED
    BY <2>1, <2>2, <2>3 DEF IInv
<1> QED
  BY <1>1, <1>2

(* The inductive invariant holds of every worker, for any places, criteria, *)
(* slots and mishaps.                                                       *)
THEOREM Invariance == Spec => []IInv
  BY InitIsInvariant, StepKeepsInvariant, PTL DEF Spec

(* Every record of Refinement keeps its shape, and the epochs count no more  *)
(* wakes than needs were changed, for any places, criteria and limits.       *)
THEOREM TypeCorrect == Spec => []TypeOK
<1>1. IInv => TypeOK
  BY DEF IInv
<1> QED
  BY <1>1, Invariance, PTL

(* The planner's timer never runs beside a plan, nor without a loop          *)
(* (schedulePipelinePlan refuses both).                                      *)
OnePlanAtATime == room.timer => room.on /\ ~Planning

(* When the timer fires, no plan under way is overrun by the new one.        *)
THEOREM PlansNeverOverlap == Spec => []OnePlanAtATime
<1>1. IInv => OnePlanAtATime
  BY DEF IInv, Clock, OnePlanAtATime
<1> QED
  BY <1>1, Invariance, PTL

(* While somebody is there, needs that have changed since the latest plan    *)
(* have their next plan due or under way, however plans, wakes, failures,    *)
(* departures and restarts interleave (worker.ts 432-435).                   *)
THEOREM ChangeIsPlanned == Spec => []ReplanComing
<1>1. IInv => ReplanComing
  BY DEF IInv
<1> QED
  BY <1>1, Invariance, PTL

(* The ready buffer charges only for cells the batcher or a batch that waits *)
(* for its turn still holds, so that everything it charges for comes out.    *)
THEOREM BufferLeaksNothing == Spec => []NothingLeaks
<1>1. IInv => NothingLeaks
  BY DEF IInv
<1> QED
  BY <1>1, Invariance, PTL

=============================================================================
