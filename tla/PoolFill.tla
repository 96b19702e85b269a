------------------------------ MODULE PoolFill ------------------------------
(* Filling one room's pool of places in the background (pool-fill.ts).     *)
(* Each server process keeps at most one fill job for the room.  A job      *)
(* wakes on a timer, reads the scope, plans which places of the circle are  *)
(* missing, and writes one batch in a transaction that checks the scope     *)
(* again.  Meanwhile people move the circle, bring places in by hand, and   *)
(* settle steps; each such command calls startPoolFill once it has          *)
(* committed.                                                               *)
(*                                                                          *)
(* A candidate row is a place and the number its id ends in.  `pool' holds  *)
(* the live rows (LIVE_POOL); of the settled steps' rows only the highest   *)
(* number matters.  A circle is the set of places it holds, so the          *)
(* distance order, which decides who comes first and never who comes, is    *)
(* left out; so is the plan cache, a function of the scope id.              *)
EXTENDS Integers, FiniteSets

CONSTANTS
    Servers,        \* server processes
    Places,         \* the places of the area's snapshot
    Circles,        \* the search circles, each the set of places it holds
    Cap,            \* POOL_CAP
    Batch,          \* FILL_BATCH
    SeedLimit,      \* places a new step starts with
    FailureLimit,   \* FILL_FAILURE_LIMIT
    MaxScope,       \* bound: scopes the room goes through
    MaxSteps,       \* bound: steps of the plan
    MaxFaults       \* bound: database errors and restarts

ASSUME PoolFillAssumption ==
    /\ Circles \subseteq SUBSET Places
    /\ IsFiniteSet(Places)
    /\ {Cap, Batch, FailureLimit} \subseteq Nat \ {0}
    /\ {MaxScope, MaxSteps} \subseteq Nat \ {0}
    /\ MaxFaults \in Nat
    /\ SeedLimit \in 0..Cap

VARIABLES
    mapped,     \* the room names an area with a prepared snapshot
    step,       \* the plan step the room is on
    scope,      \* the room's search scope
    pool,       \* the live candidate rows
    behind,     \* the highest number among the settled steps' rows
    job,        \* per server: its fill job
    calls,      \* per server: startPoolFill(room, true) calls still to come
    faults      \* faults so far

vars == <<mapped, step, scope, pool, behind, job, calls, faults>>

Scope   == [id : 1..MaxScope, holds : SUBSET Places]
NoScope == [id |-> 0, holds |-> {}]
Row     == [place : Places, number : Nat]

Job == [at       : {"none", "timer", "planning", "locking", "inserting", "announcing"},
        rerun    : BOOLEAN,
        scopeId  : 0..MaxScope,            \* 0: undefined
        pending  : SUBSET Places,
        selected : SUBSET Places,
        seen     : Scope \cup {NoScope},
        added    : BOOLEAN,                \* addedCount > 0
        failures : 0..FailureLimit]

NoJob == [at |-> "none", rerun |-> FALSE, scopeId |-> 0, pending |-> {}, selected |-> {},
          seen |-> NoScope, added |-> FALSE, failures |-> 0]

TypeOK ==
    /\ mapped \in BOOLEAN
    /\ step \in 1..MaxSteps
    /\ scope \in Scope
    /\ pool \in SUBSET Row
    /\ behind \in Nat
    /\ job \in [Servers -> Job]
    /\ calls \in [Servers -> 0..MaxScope]
    /\ faults \in 0..MaxFaults

Smaller(a, b) == IF a < b THEN a ELSE b
Larger(a, b)  == IF a < b THEN b ELSE a

Refs(rows)    == {r.place : r \in rows}
Highest(rows) == IF rows = {} THEN 0
                 ELSE CHOOSE n \in {r.number : r \in rows} : \A r \in rows : r.number <= n

(* Rows for these places, numbered from a first number on. *)
Numbered(places, first) ==
    LET Orders == [places -> 0..(Cardinality(places) - 1)]
        order  == CHOOSE f \in Orders : \A p, q \in places : f[p] = f[q] => p = q
    IN  {[place |-> p, number |-> first + order[p]] : p \in places}

(* Additions continue the numbering of the live rows. *)
NextNumber == Highest(pool) + 1

(* candidates.id is a primary key: the insert fails on a number in use. *)
Collides(rows) == \E r \in rows : r.number <= behind

SizedSubsets(S, n) == {T \in SUBSET S : Cardinality(T) = n}

-----------------------------------------------------------------------------
Started == [NoJob EXCEPT !.at = "timer", !.rerun = TRUE]

Init ==
    /\ mapped \in BOOLEAN
    /\ step = 1
    /\ \E holds \in Circles :
        /\ scope = [id |-> 1, holds |-> holds]
        /\ \E seeds \in SUBSET holds :
            /\ Cardinality(seeds) <= SeedLimit
            /\ pool = Numbered(seeds, 1)
    /\ behind = 0
    /\ \E s \in Servers : job = [t \in Servers |-> IF t = s THEN Started ELSE NoJob]
    /\ calls = [s \in Servers |-> 0]
    /\ faults = 0

(* A call made when a page connects, when a process boots, or after a       *)
(* command that moved the scope.                                            *)
StartPoolFill(s, scopeChanged) ==
    LET j == job[s]
    IN  job' = [job EXCEPT ![s] = IF j.at = "none" THEN Started
                                  ELSE [j EXCEPT !.rerun = @ \/ scopeChanged]]

Connect(s) ==
    /\ job[s].at = "none"
    /\ StartPoolFill(s, FALSE)
    /\ UNCHANGED <<mapped, step, scope, pool, behind, calls, faults>>

AfterCommit(s) ==
    /\ calls[s] > 0
    /\ calls' = [calls EXCEPT ![s] = @ - 1]
    /\ StartPoolFill(s, TRUE)
    /\ UNCHANGED <<mapped, step, scope, pool, behind, faults>>

Moved(s, holds) ==
    /\ scope.id < MaxScope
    /\ scope' = [id |-> scope.id + 1, holds |-> holds]
    /\ calls' = [calls EXCEPT ![s] = @ + 1]

SetSearchScope(s, holds) ==
    /\ Moved(s, holds)
    /\ UNCHANGED <<mapped, step, pool, behind, job, faults>>

FirstOfStep == Larger(behind, Highest(pool)) + 1

(* The commit of a step settles it and opens the next one around the place  *)
(* agreed on; the numbering goes on from every row of the room.             *)
SettleAndAdvance(s, holds, seeds) ==
    /\ mapped
    /\ step < MaxSteps
    /\ Moved(s, holds)
    /\ step' = step + 1
    /\ behind' = Larger(behind, Highest(pool))
    /\ pool' = Numbered(seeds, FirstOfStep)
    /\ UNCHANGED <<mapped, job, faults>>

(* Someone brings places in; those already there are passed over. *)
AddCandidates(refs) ==
    LET novel == refs \ Refs(pool)
        rows  == Numbered(novel, NextNumber)
    IN  /\ mapped
        /\ Cardinality(pool) + Cardinality(novel) <= Cap
        /\ ~ Collides(rows)
        /\ pool' = pool \cup rows
        /\ UNCHANGED <<mapped, step, scope, behind, job, calls, faults>>

-----------------------------------------------------------------------------
(* The end of a round: wait for the next one, or announce what was added    *)
(* and be done.                                                             *)
Rested(j) == [j EXCEPT !.selected = {}, !.seen = NoScope]

RoundEnd(s, j, hasMore) ==
    job' = [job EXCEPT ![s] =
              IF hasMore \/ j.rerun
              THEN [Rested(j) EXCEPT !.at = "timer", !.failures = 0]
              ELSE IF j.added
              THEN [Rested(j) EXCEPT !.at = "announcing", !.failures = 0]
              ELSE NoJob]

(* With places pending, a batch of them is taken off and the lock tried;    *)
(* with none, the round is over.                                            *)
TakeBatch(s, j) ==
    \/ /\ j.pending = {}
       /\ RoundEnd(s, j, FALSE)
    \/ \E batch \in SizedSubsets(j.pending, Smaller(Batch, Cardinality(j.pending))) :
        /\ batch # {}
        /\ job' = [job EXCEPT ![s] = [j EXCEPT !.at = "locking", !.selected = batch,
                                               !.pending = @ \ batch]]

(* The timer fires and the room is read: nothing to plan from, a plan that  *)
(* still stands, or a plan to make, which first reads the pool.             *)
Wake(s) ==
    LET j == job[s]
    IN  /\ j.at = "timer"
        /\ \/ /\ ~ mapped
              /\ RoundEnd(s, [j EXCEPT !.scopeId = scope.id, !.pending = {}], FALSE)
           \/ /\ mapped /\ j.scopeId = scope.id /\ ~ j.rerun
              /\ TakeBatch(s, j)
           \/ /\ mapped /\ (j.scopeId # scope.id \/ j.rerun)
              /\ job' = [job EXCEPT ![s].at = "planning", ![s].seen = scope]
        /\ UNCHANGED <<mapped, step, scope, pool, behind, calls, faults>>

StillRerun(j) == [j EXCEPT !.scopeId = j.seen.id, !.pending = j.seen.holds \ Refs(pool)]
                                                   \* mutant: the flag is left up
Planned(j) == [j EXCEPT !.scopeId = j.seen.id, !.pending = j.seen.holds \ Refs(pool),
                        !.rerun = FALSE]

Plan(s) ==
    /\ job[s].at = "planning"
    /\ TakeBatch(s, Planned(job[s]))
    /\ UNCHANGED <<mapped, step, scope, pool, behind, calls, faults>>

(* The advisory lock is tried, never waited for. *)
Locked == \E t \in Servers : job[t].at = "inserting"

TryLock(s) ==
    LET j == job[s]
    IN  /\ j.at = "locking"
        /\ IF Locked
           THEN RoundEnd(s, [j EXCEPT !.pending = @ \cup j.selected], TRUE)
           ELSE job' = [job EXCEPT ![s].at = "inserting"]
        /\ UNCHANGED <<mapped, step, scope, pool, behind, calls, faults>>

(* A round that fails is thrown away; its job wakes to plan anew. *)
ThrownAway(j) == [Rested(j) EXCEPT !.at = "timer", !.scopeId = 0, !.pending = {},
                                   !.failures = j.failures + 1]

NeverGivesUp(s) ==                                     \* mutant: no limit on failures
    job' = [job EXCEPT ![s] = ThrownAway(job[s])]

(* A database error, in whichever statement; after too many in a row the    *)
(* job is thrown away.                                                      *)
Failed(s) ==
    job' = [job EXCEPT ![s] = IF job[s].failures + 1 >= FailureLimit THEN NoJob
                              ELSE ThrownAway(job[s])]

AnyScope(s) == TRUE                                    \* mutant: not checked under the lock
SameScope(s) == scope.id = job[s].scopeId

EveryOne(s)  == job[s].selected                        \* mutant: not checked under the lock
Missing(s)   == job[s].selected \ Refs(pool)

OneOver(s)   == Cap + 1 - Cardinality(pool)            \* mutant: off by one
OneShort(s)  == Cap - 1 - Cardinality(pool)            \* mutant: off by one
RoomLeft(s)  == Cap - Cardinality(pool)

Fitting(s, places)   == Smaller(Cardinality(places), RoomLeft(s))

(* The transaction of one batch, under the room's row lock. *)
InsertBatch(s) ==
    LET j == job[s]
    IN  /\ j.at = "inserting"
        /\ \/ /\ ~ SameScope(s)
              /\ RoundEnd(s, [j EXCEPT !.scopeId = 0, !.pending = {}, !.rerun = TRUE], TRUE)
              /\ UNCHANGED pool
           \/ /\ SameScope(s) /\ RoomLeft(s) = 0
              /\ RoundEnd(s, [j EXCEPT !.pending = {}], FALSE)
              /\ UNCHANGED pool
           \/ /\ SameScope(s) /\ RoomLeft(s) > 0
              /\ \E venues \in SizedSubsets(Missing(s), Fitting(s, Missing(s))) :
                    LET rows == Numbered(venues, NextNumber)
                    IN  IF Collides(rows)
                        THEN Failed(s) /\ UNCHANGED pool
                        ELSE /\ pool' = pool \cup rows
                             /\ RoundEnd(s, [j EXCEPT !.added = @ \/ rows # {}],
                                         /\ j.pending # {}
                                         /\ Cardinality(pool) + Cardinality(rows) < Cap)
        /\ UNCHANGED <<mapped, step, scope, behind, calls, faults>>

(* publishCompletion commits its event and the job is forgotten, whatever   *)
(* startPoolFill asked of it meanwhile.                                     *)
Announce(s) ==
    /\ job[s].at = "announcing"
    /\ job' = [job EXCEPT ![s] = NoJob]
    /\ UNCHANGED <<mapped, step, scope, pool, behind, calls, faults>>

Faulty == faults < MaxFaults /\ faults' = faults + 1

DatabaseError(s) ==
    /\ job[s].at # "none"
    /\ Faulty
    /\ Failed(s)
    /\ UNCHANGED <<mapped, step, scope, pool, behind, calls>>

(* A restart loses the job and the calls to come; the boot resumes the room. *)
Restart(s) ==
    /\ Faulty
    /\ job' = [job EXCEPT ![s] = Started]
    /\ calls' = [calls EXCEPT ![s] = 0]
    /\ UNCHANGED <<mapped, step, scope, pool, behind>>

Run(s) == Wake(s) \/ Plan(s) \/ TryLock(s) \/ InsertBatch(s) \/ Announce(s)

Next ==
    \/ \E s \in Servers :
        \/ Run(s) \/ Connect(s) \/ AfterCommit(s) \/ DatabaseError(s) \/ Restart(s)
        \/ \E holds \in Circles : SetSearchScope(s, holds)
        \/ \E holds \in Circles :
            \E seeds \in {T \in SUBSET holds : Cardinality(T) <= SeedLimit} :
                SettleAndAdvance(s, holds, seeds)
    \/ \E ref \in Places : AddCandidates({ref})

Spec == Init /\ [][Next]_vars

(* A process runs its timers and the calls it owes, and a page connects     *)
(* again and again: a socket lives 15 minutes.                              *)
Fairness == \A s \in Servers : WF_vars(Run(s)) /\ WF_vars(AfterCommit(s)) /\ WF_vars(Connect(s))

FairSpec == Spec /\ Fairness

-----------------------------------------------------------------------------
(* A place is in the live pool once, however the batches of two processes   *)
(* and the places people bring in by hand interleave.                       *)
OnePlaceOnce == \A a, b \in pool : a.place = b.place => a = b

(* The live pool never exceeds POOL_CAP, whoever adds to it. *)
PoolWithinCap == Cardinality(pool) <= Cap

(* A batch planned for one circle never lands in another: what a fill adds  *)
(* lies in the circle the room has when the batch commits.                  *)
FillInScope ==
    [][\A s \in Servers : (job[s].at = "inserting" /\ job'[s].at # "inserting")
           => Refs(pool') \subseteq Refs(pool) \cup scope.holds]_vars

(* Opened empty, a step's first number is taken: every insert fails.        *)
OpenedEmpty == pool = {} /\ behind > 0

(* Fills never keep the room busy for ever: they end, again and again, even *)
(* where two processes take the lock from each other.                       *)
FillEnds == []<>(mapped /\ ~ OpenedEmpty => \E s \in Servers : job[s].at = "none")

(* The pool in the end holds every place of the circle, or is full.         *)
Filled == scope.holds \subseteq Refs(pool) \/ Cardinality(pool) >= Cap
EventuallyFilled == <>[](mapped /\ ~ OpenedEmpty => Filled)

(* "a change landing beside the final old-scope batch cannot be lost":      *)
(* with no job at work and no call to come, the circle has been filled.     *)
NoChangeLost ==
    (mapped /\ \A s \in Servers : job[s].at = "none" /\ calls[s] = 0) => Filled

=============================================================================
