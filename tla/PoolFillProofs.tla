--------------------------- MODULE PoolFillProofs ---------------------------
(* Type correctness of PoolFill, and its safety properties for any number of *)
(* processes and places: one row per place, never more rows than the cap,    *)
(* and no batch of one circle in another.                                    *)
(*                                                                          *)
(* The last needs to be known of a job what it remembers: a plan that bears  *)
(* the room's present scope was made from the present circle (Remembered),   *)
(* because a scope's id is never used again.                                 *)
EXTENDS PoolFill, FiniteSetTheorems, TLAPS

(* What a job remembers of the scope it has seen and planned for.            *)
RemembersRightly(j) ==
    /\ j.scopeId <= scope.id /\ j.seen.id <= scope.id
    /\ j.scopeId = scope.id => j.pending \subseteq scope.holds /\ j.selected \subseteq scope.holds
    /\ j.seen.id = scope.id => j.seen = scope
    /\ j.at \notin {"locking", "inserting"} => j.selected = {}

Remembered == \A s \in Servers : RemembersRightly(job[s])

(* A call to come stands for a scope since the first.                        *)
CallsAreMoves == \A s \in Servers : calls[s] < scope.id

PoolInOrder ==
    /\ IsFiniteSet(pool)
    /\ OnePlaceOnce
    /\ PoolWithinCap

IInv ==
    /\ TypeOK
    /\ Remembered
    /\ CallsAreMoves
    /\ PoolInOrder

-----------------------------------------------------------------------------
LEMMA Bounds ==
  /\ Cap \in Nat \ {0} /\ Batch \in Nat \ {0} /\ FailureLimit \in Nat \ {0}
  /\ MaxScope \in Nat \ {0} /\ MaxSteps \in Nat \ {0} /\ MaxFaults \in Nat
  /\ SeedLimit \in 0..Cap
  /\ IsFiniteSet(Places)
  /\ \A holds \in Circles : holds \in SUBSET Places
  BY PoolFillAssumption

(* Some element of a finite, nonempty set of numbers is the highest.         *)
LEMMA MaxExists ==
  ASSUME NEW S \in SUBSET Int, IsFiniteSet(S), S # {}
  PROVE  \E m \in S : \A n \in S : n <= m
<1> DEFINE HasMax(A) == \E m \in A : \A n \in A : n <= m
           Bad == {A \in FiniteSubsetsOf(S) : A # {} /\ ~HasMax(A)}
<1>1. IsWellFoundedOn(StrictSubsetOrdering(S), FiniteSubsetsOf(S))
  BY FS_StrictSubsetOrderingWellFounded
<1>2. Bad \subseteq FiniteSubsetsOf(S)
  OBVIOUS
<1>3. CASE Bad # {}
  <2>1. PICK A \in Bad : \A B \in Bad : ~(<<B, A>> \in StrictSubsetOrdering(S))
    <3> HIDE DEF Bad
    <3> QED
      BY <1>1, <1>2, <1>3, WFMin
  <2>2. A \in SUBSET S /\ IsFiniteSet(A) /\ A # {} /\ ~HasMax(A)
    BY DEF FiniteSubsetsOf
  <2>3. PICK x \in A : TRUE
    BY <2>2
  <2> DEFINE B == A \ {x}
  <2>4. IsFiniteSet(B) /\ B \subseteq A /\ B # A /\ B \subseteq S
    BY <2>2, <2>3, FS_RemoveElement
  <2>5. B \in FiniteSubsetsOf(S) /\ <<B, A>> \in StrictSubsetOrdering(S)
    BY <2>2, <2>4 DEF FiniteSubsetsOf, StrictSubsetOrdering
  <2>6. B = {} \/ HasMax(B)
    BY <2>1, <2>5
  <2>7. x \in Int
    BY <2>2, <2>3
  <2>8. CASE B = {}
    <3>1. A = {x}
      BY <2>3, <2>8
    <3>2. \A n \in A : n <= x
      BY <2>7, <3>1
    <3> QED
      BY <2>2, <2>3, <3>2
  <2>9. CASE HasMax(B)
    <3>1. PICK m \in B : \A n \in B : n <= m
      BY <2>9
    <3>2. m \in Int /\ m \in A
      BY <2>4, <3>1
    <3>3. \A n \in A : n \in B \/ n = x
      OBVIOUS
    <3>4. CASE m <= x
      <4>1. \A n \in A : n <= x
        <5> SUFFICES ASSUME NEW n \in A
                     PROVE  n <= x
          OBVIOUS
        <5>1. n \in Int
          BY <2>2
        <5> QED
          BY <2>7, <3>1, <3>2, <3>3, <3>4, <5>1
      <4> QED
        BY <2>2, <2>3, <4>1
    <3>5. CASE ~(m <= x)
      <4>1. x <= m
        BY <2>7, <3>2, <3>5
      <4>2. \A n \in A : n <= m
        BY <3>1, <3>3, <4>1
      <4> QED
        BY <2>2, <3>2, <4>2
    <3> QED
      BY <3>4, <3>5
  <2> QED
    BY <2>6, <2>8, <2>9
<1>4. CASE Bad = {}
  <2>1. S \in FiniteSubsetsOf(S)
    BY DEF FiniteSubsetsOf
  <2> QED
    BY <1>4, <2>1
<1> QED
  BY <1>3, <1>4

LEMMA HighestOf ==
  ASSUME NEW rows \in SUBSET Row, IsFiniteSet(rows)
  PROVE  /\ Highest(rows) \in Nat
         /\ \A r \in rows : r.number <= Highest(rows)
<1>1. CASE rows = {}
  BY <1>1 DEF Highest
<1>2. CASE rows # {}
  <2> DEFINE numbers == {r.number : r \in rows}
             f == [r \in rows |-> r.number]
  <2>1. numbers \subseteq Nat /\ numbers # {}
    BY <1>2 DEF Row
  <2>2. f \in Surjection(rows, numbers)
    BY DEF Surjection
  <2>3. IsFiniteSet(numbers)
    BY <2>2, FS_Surjection
  <2>4. \E m \in numbers : \A n \in numbers : n <= m
    <3> HIDE DEF numbers
    <3>1. numbers \in SUBSET Int
      BY <2>1
    <3> QED
      BY <2>1, <2>3, <3>1, MaxExists
  <2>5. \E m \in numbers : \A r \in rows : r.number <= m
    BY <2>4
  <2>6. Highest(rows) = CHOOSE n \in numbers : \A r \in rows : r.number <= n
    BY <1>2 DEF Highest
  <2> HIDE DEF numbers
  <2>7. Highest(rows) \in numbers /\ \A r \in rows : r.number <= Highest(rows)
    BY <2>5, <2>6
  <2> QED
    BY <2>1, <2>7
<1> QED
  BY <1>1, <1>2

(* Any finite set of places can be put in an order.                          *)
LEMMA OrderExists ==
  ASSUME NEW places, IsFiniteSet(places)
  PROVE  \E f \in [places -> 0..(Cardinality(places) - 1)] :
            \A p, q \in places : f[p] = f[q] => p = q
<1> DEFINE n == Cardinality(places)
<1>1. n \in Nat /\ ExistsBijection(1..n, places)
  BY FS_CardinalityType
<1> HIDE DEF n
<1>2. PICK b \in Bijection(1..n, places) : TRUE
  BY <1>1 DEF ExistsBijection
<1>3. b \in [1..n -> places] /\ \A p \in places : \E i \in 1..n : b[i] = p
  BY <1>2 DEF Bijection, Surjection
<1> DEFINE g == [p \in places |-> CHOOSE i \in 1..n : b[i] = p]
           f == [p \in places |-> g[p] - 1]
<1>4. \A p \in places : g[p] \in 1..n /\ b[g[p]] = p
  BY <1>3
<1> HIDE DEF g
<1>5. \A p \in places : f[p] \in 0..(n - 1) /\ f[p] + 1 = g[p]
  BY <1>1, <1>4
<1>6. f \in [places -> 0..(n - 1)]
  <2>1. f = [p \in places |-> f[p]]
    OBVIOUS
  <2> HIDE DEF f
  <2> QED
    BY <1>5, <2>1
<1>7. \A p, q \in places : f[p] = f[q] => p = q
  <2> HIDE DEF f
  <2> QED
    BY <1>4, <1>5
<1> HIDE DEF f
<1> QED
  BY <1>6, <1>7 DEF n

(* Rows for places: one for each, and no more rows than places.              *)
LEMMA NumberedRows ==
  ASSUME NEW places \in SUBSET Places, NEW first \in Nat
  PROVE  /\ Numbered(places, first) \subseteq Row
         /\ IsFiniteSet(Numbered(places, first))
         /\ Cardinality(Numbered(places, first)) <= Cardinality(places)
         /\ Refs(Numbered(places, first)) = places
         /\ \A a, b \in Numbered(places, first) : a.place = b.place => a = b
         /\ IsFiniteSet(places) /\ Cardinality(places) \in Nat
<1>1. IsFiniteSet(places) /\ Cardinality(places) \in Nat
  BY Bounds, FS_Subset, FS_CardinalityType
<1> DEFINE n == Cardinality(places)
           order == CHOOSE f \in [places -> 0..(n - 1)] : \A p, q \in places : f[p] = f[q] => p = q
           row == [p \in places |-> [place |-> p, number |-> first + order[p]]]
           rows == {row[p] : p \in places}
<1>2. order \in [places -> 0..(n - 1)]
  BY <1>1, OrderExists
<1>3. Numbered(places, first) = {[place |-> p, number |-> first + order[p]] : p \in places}
  BY DEF Numbered
<1>4. Numbered(places, first) = rows
  BY <1>3
<1> HIDE DEF order
<1>5. \A p \in places : order[p] \in Nat
  BY <1>1, <1>2
<1>6. \A p \in places : row[p] \in Row /\ row[p].place = p
  BY <1>5 DEF Row
<1> HIDE DEF row
<1>7. DOMAIN row = places
  BY DEF row
<1>8. row \in Surjection(places, rows)
  <2>1. row \in [places -> rows]
    BY <1>7 DEF row
  <2> QED
    BY <2>1 DEF Surjection
<1>9. IsFiniteSet(rows) /\ Cardinality(rows) <= Cardinality(places)
  BY <1>1, <1>8, FS_Surjection
<1>10. rows \subseteq Row
  BY <1>6
<1>11. Refs(rows) = places
  BY <1>6 DEF Refs
<1>12. \A a, b \in rows : a.place = b.place => a = b
  BY <1>6
<1> QED
  BY <1>1, <1>4, <1>9, <1>10, <1>11, <1>12

-----------------------------------------------------------------------------
(* The pool.                                                                 *)

LEMMA NothingPooled ==
  ASSUME NEW rows, rows = {}
  PROVE  Refs(rows) = {}
  BY DEF Refs

LEMMA RefsOfUnion ==
  ASSUME NEW rows, NEW more
  PROVE  Refs(rows \cup more) = Refs(rows) \cup Refs(more)
  BY DEF Refs

(* New rows for places that are not there, and that fit, keep the pool in    *)
(* order.                                                                    *)
LEMMA PoolGrows ==
  ASSUME IInv, NEW places \in SUBSET Places, places \cap Refs(pool) = {},
         Cardinality(pool) + Cardinality(places) <= Cap,
         NEW first \in Nat, pool' = pool \cup Numbered(places, first)
  PROVE  pool' \in SUBSET Row /\ PoolInOrder' /\ Refs(pool') = Refs(pool) \cup places
<1> DEFINE rows == Numbered(places, first)
<1>1. /\ rows \subseteq Row /\ IsFiniteSet(rows) /\ Cardinality(rows) <= Cardinality(places)
      /\ Refs(rows) = places /\ \A a, b \in rows : a.place = b.place => a = b
      /\ Cardinality(places) \in Nat
  BY NumberedRows
<1> HIDE DEF rows
<1>2. pool' = pool \cup rows
  BY DEF rows
<1>3. pool \in SUBSET Row /\ IsFiniteSet(pool) /\ OnePlaceOnce
  BY DEF IInv, TypeOK, PoolInOrder
<1>4. pool' \in SUBSET Row /\ Refs(pool') = Refs(pool) \cup places
  BY <1>1, <1>2, <1>3, RefsOfUnion
<1>5. /\ IsFiniteSet(pool \cup rows)
      /\ Cardinality(pool \cup rows) <= Cardinality(pool) + Cardinality(rows)
  <2>1. /\ IsFiniteSet(pool \cup rows)
        /\ Cardinality(pool \cup rows)
             = Cardinality(pool) + Cardinality(rows) - Cardinality(pool \cap rows)
    BY <1>1, <1>3, FS_Union
  <2>2. IsFiniteSet(pool \cap rows)
    BY <1>3, FS_Intersection
  <2>3. /\ Cardinality(pool) \in Nat /\ Cardinality(rows) \in Nat
        /\ Cardinality(pool \cap rows) \in Nat
    BY <1>1, <1>3, <2>2, FS_CardinalityType
  <2> QED
    BY <2>1, <2>3
<1>6. Cardinality(pool') <= Cap
  <2>1. /\ Cardinality(pool) \in Nat /\ Cardinality(rows) \in Nat
        /\ Cardinality(pool \cup rows) \in Nat
    BY <1>1, <1>3, <1>5, FS_CardinalityType
  <2>2. /\ Cardinality(rows) <= Cardinality(places) /\ Cardinality(places) \in Nat
        /\ Cardinality(pool \cup rows) <= Cardinality(pool) + Cardinality(rows)
        /\ Cardinality(pool) + Cardinality(places) <= Cap /\ Cap \in Nat
    BY <1>1, <1>5, Bounds
  <2>3. Cardinality(pool \cup rows) <= Cap
    BY <2>1, <2>2
  <2> QED
    BY <1>2, <2>3
<1>7. \A a, b \in pool' : a.place = b.place => a = b
  <2> SUFFICES ASSUME NEW a \in pool', NEW b \in pool', a.place = b.place
               PROVE  a = b
    OBVIOUS
  <2>1. a \in pool => a.place \notin places
    BY DEF Refs
  <2>2. b \in pool => b.place \notin places
    BY DEF Refs
  <2>3. a \in rows => a.place \in places
    BY <1>1 DEF Refs
  <2>4. b \in rows => b.place \in places
    BY <1>1 DEF Refs
  <2>5. CASE a \in pool /\ b \in pool
    BY <1>3, <2>5 DEF OnePlaceOnce
  <2>6. CASE a \in rows /\ b \in rows
    BY <1>1, <2>6
  <2> QED
    BY <1>2, <2>1, <2>2, <2>3, <2>4, <2>5, <2>6
<1> QED
  BY <1>2, <1>4, <1>5, <1>6, <1>7 DEF PoolInOrder, OnePlaceOnce, PoolWithinCap

(* A pool that starts anew with few enough places is in order.               *)
LEMMA PoolStarts ==
  ASSUME NEW places \in SUBSET Places, Cardinality(places) <= SeedLimit,
         NEW first \in Nat, NEW p, p = Numbered(places, first)
  PROVE  /\ p \in SUBSET Row /\ IsFiniteSet(p) /\ Cardinality(p) <= Cap
         /\ \A a, b \in p : a.place = b.place => a = b
<1>1. /\ p \subseteq Row /\ IsFiniteSet(p) /\ Cardinality(p) <= Cardinality(places)
      /\ \A a, b \in p : a.place = b.place => a = b
      /\ Cardinality(places) \in Nat
  BY NumberedRows
<1>2. Cardinality(p) \in Nat
  BY <1>1, FS_CardinalityType
<1> QED
  BY <1>1, <1>2, Bounds

LEMMA NextNumberIsNumber ==
  ASSUME IInv
  PROVE  NextNumber \in Nat /\ FirstOfStep \in Nat /\ Larger(behind, Highest(pool)) \in Nat
<1>1. pool \in SUBSET Row /\ IsFiniteSet(pool) /\ behind \in Nat
  BY DEF IInv, TypeOK, PoolInOrder
<1>2. Highest(pool) \in Nat
  BY <1>1, HighestOf
<1> QED
  BY <1>1, <1>2 DEF NextNumber, FirstOfStep, Larger

-----------------------------------------------------------------------------
(* The jobs.                                                                 *)

GoodJob(j) == j \in Job /\ RemembersRightly(j)

LEMMA ScopeOf ==
  ASSUME IInv
  PROVE  /\ scope.id \in 1..MaxScope /\ scope.holds \in SUBSET Places /\ scope \in Scope
         /\ scope.id \in Nat /\ scope.id >= 1 /\ 0 < scope.id
         /\ NoScope.id = 0 /\ NoScope.holds = {}
  BY Bounds DEF IInv, TypeOK, Scope, NoScope

LEMMA JobOf ==
  ASSUME NEW j \in Job
  PROVE  /\ j.at \in {"none", "timer", "planning", "locking", "inserting", "announcing"}
         /\ j.rerun \in BOOLEAN /\ j.scopeId \in 0..MaxScope
         /\ j.pending \in SUBSET Places /\ j.selected \in SUBSET Places
         /\ j.seen \in Scope \cup {NoScope} /\ j.added \in BOOLEAN
         /\ j.failures \in 0..FailureLimit
  BY DEF Job

LEMMA JobsAreGood ==
  ASSUME IInv, NEW s \in Servers
  PROVE  GoodJob(job[s])
  BY DEF IInv, TypeOK, Remembered, GoodJob

LEMMA NoJobIsJob ==
  /\ NoJob \in Job /\ NoJob.at = "none" /\ NoJob.scopeId = 0 /\ NoJob.pending = {}
  /\ NoJob.selected = {} /\ NoJob.seen = NoScope /\ NoJob.failures = 0
<1>1. 0 \in 0..MaxScope /\ 0 \in 0..FailureLimit
  BY Bounds
<1> QED
  BY <1>1 DEF NoJob, Job

LEMMA FreshIsGood ==
  ASSUME IInv
  PROVE  GoodJob(NoJob) /\ GoodJob(Started)
<1>1. GoodJob(NoJob)
  BY ScopeOf, NoJobIsJob DEF GoodJob, RemembersRightly
<1>2. /\ Started \in Job /\ Started.at = "timer" /\ Started.scopeId = 0 /\ Started.pending = {}
      /\ Started.selected = {} /\ Started.seen = NoScope
  BY NoJobIsJob DEF Started, Job
<1> QED
  BY <1>1, <1>2, ScopeOf DEF GoodJob, RemembersRightly

(* A step of one job, in a scope that stays.                                 *)
LEMMA JobStep ==
  ASSUME IInv, UNCHANGED scope, NEW s \in Servers, NEW j, GoodJob(j),
         job' = [job EXCEPT ![s] = j]
  PROVE  job' \in [Servers -> Job] /\ Remembered'
<1>1. job \in [Servers -> Job] /\ \A t \in Servers : RemembersRightly(job[t])
  BY DEF IInv, TypeOK, Remembered
<1>2. j \in Job /\ RemembersRightly(j)
  BY DEF GoodJob
<1>3. \A t \in Servers : RemembersRightly(job'[t])
  BY <1>1, <1>2
<1>4. \A t \in Servers : RemembersRightly(job[t])'
  BY <1>3 DEF RemembersRightly
<1> QED
  BY <1>1, <1>2, <1>4 DEF Remembered

LEMMA RestedIsGood ==
  ASSUME IInv, NEW j, GoodJob(j)
  PROVE  /\ GoodJob([Rested(j) EXCEPT !.at = "timer", !.failures = 0])
         /\ GoodJob([Rested(j) EXCEPT !.at = "announcing", !.failures = 0])
<1>1. j \in Job /\ 0 \in 0..FailureLimit
  BY Bounds DEF GoodJob
<1>2. /\ Rested(j) \in Job /\ Rested(j).selected = {} /\ Rested(j).seen = NoScope
      /\ Rested(j).scopeId = j.scopeId /\ Rested(j).pending = j.pending
  BY <1>1 DEF Rested, Job
<1> DEFINE r == Rested(j)
<1> HIDE DEF r
<1>3. /\ r \in Job /\ r.selected = {} /\ r.seen = NoScope
      /\ r.scopeId = j.scopeId /\ r.pending = j.pending
  BY <1>2 DEF r
<1>4. ASSUME NEW at \in {"timer", "announcing"}
      PROVE  GoodJob([r EXCEPT !.at = at, !.failures = 0])
  <2> DEFINE q == [r EXCEPT !.at = at, !.failures = 0]
  <2>1. /\ q \in Job /\ q.selected = {} /\ q.seen = NoScope /\ q.at = at
        /\ q.scopeId = j.scopeId /\ q.pending = j.pending
    BY <1>1, <1>3 DEF Job
  <2> HIDE DEF q
  <2>2. /\ j.scopeId <= scope.id
        /\ j.scopeId = scope.id => j.pending \subseteq scope.holds
    BY DEF GoodJob, RemembersRightly
  <2> QED
    BY <2>1, <2>2, ScopeOf DEF GoodJob, RemembersRightly, q
<1> QED
  BY <1>4 DEF r

LEMMA RoundEndKeeps ==
  ASSUME IInv, UNCHANGED scope, NEW s \in Servers, NEW j, GoodJob(j), NEW hasMore,
         RoundEnd(s, j, hasMore)
  PROVE  job' \in [Servers -> Job] /\ Remembered'
<1> DEFINE k == IF hasMore \/ j.rerun
                THEN [Rested(j) EXCEPT !.at = "timer", !.failures = 0]
                ELSE IF j.added
                THEN [Rested(j) EXCEPT !.at = "announcing", !.failures = 0]
                ELSE NoJob
<1>1. job' = [job EXCEPT ![s] = k]
  BY DEF RoundEnd
<1>2. GoodJob(k)
  BY RestedIsGood, FreshIsGood
<1> HIDE DEF k
<1> QED
  BY <1>1, <1>2, JobStep

LEMMA ThrownAwayIsGood ==
  ASSUME IInv, NEW j, GoodJob(j), ~(j.failures + 1 >= FailureLimit)
  PROVE  GoodJob(ThrownAway(j))
<1> DEFINE r == Rested(j)
           f == j.failures + 1
           q == [r EXCEPT !.at = "timer", !.scopeId = 0, !.pending = {}, !.failures = f]
<1>1. j \in Job
  BY DEF GoodJob
<1>2. f \in 0..FailureLimit
  <2>1. j.failures \in 0..FailureLimit /\ FailureLimit \in Nat
    BY <1>1, JobOf, Bounds
  <2> QED
    BY <2>1
<1>3. 0 \in 0..MaxScope
  BY Bounds
<1>4. ThrownAway(j) = q
  BY DEF ThrownAway
<1>5. r \in Job /\ r.selected = {} /\ r.seen = NoScope
  BY <1>1 DEF Rested, Job
<1> HIDE DEF r, f
<1>6. /\ q \in Job /\ q.selected = {} /\ q.seen = NoScope /\ q.scopeId = 0 /\ q.pending = {}
      /\ q.at = "timer"
  BY <1>2, <1>3, <1>5 DEF Job
<1> HIDE DEF q
<1>7. GoodJob(q)
  BY <1>6, ScopeOf DEF GoodJob, RemembersRightly
<1> QED
  BY <1>4, <1>7

LEMMA FailedKeeps ==
  ASSUME IInv, UNCHANGED scope, NEW s \in Servers, Failed(s)
  PROVE  job' \in [Servers -> Job] /\ Remembered'
<1>1. GoodJob(job[s])
  BY JobsAreGood
<1>2. CASE job[s].failures + 1 >= FailureLimit
  <2>1. job' = [job EXCEPT ![s] = NoJob]
    BY <1>2 DEF Failed
  <2> QED
    BY <2>1, FreshIsGood, JobStep
<1>3. CASE ~(job[s].failures + 1 >= FailureLimit)
  <2>1. job' = [job EXCEPT ![s] = ThrownAway(job[s])]
    BY <1>3 DEF Failed
  <2>2. GoodJob(ThrownAway(job[s]))
    BY <1>1, <1>3, ThrownAwayIsGood
  <2> QED
    BY <2>1, <2>2, JobStep
<1> QED
  BY <1>2, <1>3

(* With a batch taken off its plan, or nothing to take, a job stays good.    *)
LEMMA TakeBatchKeeps ==
  ASSUME IInv, UNCHANGED scope, NEW s \in Servers, NEW j, GoodJob(j), j.selected = {},
         TakeBatch(s, j)
  PROVE  job' \in [Servers -> Job] /\ Remembered'
<1>1. CASE RoundEnd(s, j, FALSE)
  BY <1>1, RoundEndKeeps
<1>2. CASE \E batch \in SizedSubsets(j.pending, Smaller(Batch, Cardinality(j.pending))) :
             job' = [job EXCEPT ![s] = [j EXCEPT !.at = "locking", !.selected = batch,
                                                 !.pending = @ \ batch]]
  <2>1. PICK batch \in SUBSET j.pending :
          job' = [job EXCEPT ![s] = [j EXCEPT !.at = "locking", !.selected = batch,
                                              !.pending = @ \ batch]]
    BY <1>2 DEF SizedSubsets
  <2> DEFINE rest == j.pending \ batch
             q == [j EXCEPT !.at = "locking", !.selected = batch, !.pending = rest]
  <2>2. j \in Job
    BY DEF GoodJob
  <2>3. job' = [job EXCEPT ![s] = q]
    BY <2>1
  <2>4. rest \in SUBSET Places /\ batch \in SUBSET Places /\ rest \subseteq j.pending
    BY <2>2, JobOf
  <2> HIDE DEF rest
  <2>5. /\ q \in Job /\ q.selected = batch /\ q.pending = rest /\ q.seen = j.seen
        /\ q.scopeId = j.scopeId /\ q.at = "locking"
    BY <2>2, <2>4 DEF Job
  <2> HIDE DEF q
  <2>6. GoodJob(q)
    BY <2>4, <2>5 DEF GoodJob, RemembersRightly
  <2> QED
    BY <2>3, <2>6, JobStep
<1> QED
  BY <1>1, <1>2 DEF TakeBatch

(* What leaves scope, calls and pool alone.                                  *)
LEMMA OnlyJobs ==
  ASSUME IInv, UNCHANGED <<mapped, step, scope, pool, behind>>,
         calls' \in [Servers -> 0..MaxScope], \A s \in Servers : calls'[s] <= calls[s],
         faults' \in 0..MaxFaults, job' \in [Servers -> Job] /\ Remembered'
  PROVE  IInv'
<1>1. TypeOK'
  BY DEF IInv, TypeOK
<1>2. CallsAreMoves'
  <2> SUFFICES ASSUME NEW s \in Servers
               PROVE  calls'[s] < scope.id
    BY DEF CallsAreMoves
  <2>1. calls'[s] \in 0..MaxScope /\ calls[s] \in 0..MaxScope /\ calls'[s] <= calls[s]
    BY DEF IInv, TypeOK
  <2>2. calls[s] < scope.id /\ scope.id \in Nat
    BY ScopeOf DEF IInv, CallsAreMoves
  <2> QED
    BY <2>1, <2>2, Bounds
<1>3. PoolInOrder'
  BY DEF IInv, PoolInOrder, OnePlaceOnce, PoolWithinCap
<1> QED
  BY <1>1, <1>2, <1>3 DEF IInv

LEMMA CallsStay ==
  ASSUME IInv
  PROVE  calls \in [Servers -> 0..MaxScope] /\ \A s \in Servers : calls[s] <= calls[s]
  BY Bounds DEF IInv, TypeOK

LEMMA StartKeeps ==
  ASSUME IInv, UNCHANGED scope, NEW s \in Servers, NEW scopeChanged \in BOOLEAN,
         StartPoolFill(s, scopeChanged)
  PROVE  job' \in [Servers -> Job] /\ Remembered'
<1> DEFINE j == job[s]
<1>1. GoodJob(j)
  BY JobsAreGood
<1>2. job' = [job EXCEPT ![s] = IF j.at = "none" THEN Started
                                ELSE [j EXCEPT !.rerun = @ \/ scopeChanged]]
  BY DEF StartPoolFill
<1> HIDE DEF j
<1>3. CASE j.at = "none"
  <2>1. job' = [job EXCEPT ![s] = Started]
    BY <1>2, <1>3
  <2> QED
    BY <2>1, FreshIsGood, JobStep
<1>4. CASE j.at # "none"
  <2> DEFINE flag == j.rerun \/ scopeChanged
             q == [j EXCEPT !.rerun = flag]
  <2>1. j \in Job
    BY <1>1 DEF GoodJob
  <2>2. job' = [job EXCEPT ![s] = q]
    BY <1>2, <1>4
  <2>3. flag \in BOOLEAN
    OBVIOUS
  <2> HIDE DEF flag
  <2>4. /\ q \in Job /\ q.selected = j.selected /\ q.pending = j.pending /\ q.seen = j.seen
        /\ q.scopeId = j.scopeId /\ q.at = j.at
    BY <2>1, <2>3 DEF Job
  <2> HIDE DEF q
  <2>5. GoodJob(q)
    BY <1>1, <2>4 DEF GoodJob, RemembersRightly
  <2> QED
    BY <2>2, <2>5, JobStep
<1> QED
  BY <1>3, <1>4

LEMMA ConnectKeeps ==
  ASSUME IInv, NEW s \in Servers, Connect(s)
  PROVE  IInv'
<1>1. UNCHANGED <<mapped, step, scope, pool, behind, calls, faults>> /\ StartPoolFill(s, FALSE)
  BY DEF Connect
<1>2. job' \in [Servers -> Job] /\ Remembered'
  BY <1>1, StartKeeps
<1>3. faults \in 0..MaxFaults
  BY DEF IInv, TypeOK
<1> QED
  BY <1>1, <1>2, <1>3, CallsStay, OnlyJobs

LEMMA AfterCommitKeeps ==
  ASSUME IInv, NEW s \in Servers, AfterCommit(s)
  PROVE  IInv'
<1>1. /\ UNCHANGED <<mapped, step, scope, pool, behind, faults>> /\ StartPoolFill(s, TRUE)
      /\ calls[s] > 0 /\ calls' = [calls EXCEPT ![s] = @ - 1]
  BY DEF AfterCommit
<1>2. job' \in [Servers -> Job] /\ Remembered'
  BY <1>1, StartKeeps
<1>3. faults \in 0..MaxFaults
  BY DEF IInv, TypeOK
<1>4. calls \in [Servers -> 0..MaxScope]
  BY CallsStay
<1>5. calls[s] - 1 \in 0..MaxScope /\ calls[s] - 1 <= calls[s]
  BY <1>1, <1>4, Bounds
<1>6. calls' \in [Servers -> 0..MaxScope] /\ \A t \in Servers : calls'[t] <= calls[t]
  BY <1>1, <1>4, <1>5, CallsStay
<1> QED
  BY <1>1, <1>2, <1>3, <1>6, OnlyJobs

LEMMA FaultyKeeps ==
  ASSUME IInv, Faulty
  PROVE  faults' \in 0..MaxFaults
  BY Bounds DEF Faulty, IInv, TypeOK

LEMMA DatabaseErrorKeeps ==
  ASSUME IInv, NEW s \in Servers, DatabaseError(s)
  PROVE  IInv'
<1>1. UNCHANGED <<mapped, step, scope, pool, behind, calls>> /\ Failed(s) /\ Faulty
  BY DEF DatabaseError
<1>2. job' \in [Servers -> Job] /\ Remembered'
  BY <1>1, FailedKeeps
<1> QED
  BY <1>1, <1>2, FaultyKeeps, CallsStay, OnlyJobs

LEMMA RestartKeeps ==
  ASSUME IInv, NEW s \in Servers, Restart(s)
  PROVE  IInv'
<1>1. /\ UNCHANGED <<mapped, step, scope, pool, behind>> /\ Faulty
      /\ job' = [job EXCEPT ![s] = Started] /\ calls' = [calls EXCEPT ![s] = 0]
  BY DEF Restart
<1>2. job' \in [Servers -> Job] /\ Remembered'
  BY <1>1, FreshIsGood, JobStep
<1>3. calls \in [Servers -> 0..MaxScope] /\ 0 \in 0..MaxScope
  BY CallsStay, Bounds
<1>4. 0 <= calls[s]
  BY <1>3
<1>5. calls' \in [Servers -> 0..MaxScope] /\ \A t \in Servers : calls'[t] <= calls[t]
  BY <1>1, <1>3, <1>4, CallsStay
<1> QED
  BY <1>1, <1>2, <1>5, FaultyKeeps, OnlyJobs

(* The room moves to a scope nobody has seen.                                *)
LEMMA MovedKeeps ==
  ASSUME IInv, NEW s \in Servers, NEW holds \in Circles, Moved(s, holds), UNCHANGED job
  PROVE  /\ scope' \in Scope /\ calls' \in [Servers -> 0..MaxScope]
         /\ Remembered' /\ CallsAreMoves'
<1>1. /\ scope.id < MaxScope /\ scope' = [id |-> scope.id + 1, holds |-> holds]
      /\ calls' = [calls EXCEPT ![s] = @ + 1]
  BY DEF Moved
<1>2. holds \in SUBSET Places /\ scope.id \in Nat /\ scope.id >= 1 /\ MaxScope \in Nat
  BY Bounds, ScopeOf
<1>3. scope.id + 1 \in 1..MaxScope
  BY <1>1, <1>2
<1>4. scope' \in Scope /\ scope'.id = scope.id + 1
  BY <1>1, <1>2, <1>3 DEF Scope
<1>5. calls \in [Servers -> 0..MaxScope] /\ \A t \in Servers : calls[t] < scope.id
  BY DEF IInv, TypeOK, CallsAreMoves
<1>6. calls[s] + 1 \in 0..MaxScope
  BY <1>1, <1>2, <1>5
<1>7. calls' \in [Servers -> 0..MaxScope]
  BY <1>1, <1>5, <1>6
<1>8. ASSUME NEW t \in Servers
      PROVE  calls'[t] < scope.id + 1
  <2>1. calls[t] \in Nat /\ calls[t] < scope.id
    BY <1>5
  <2>2. calls'[t] = calls[t] \/ calls'[t] = calls[t] + 1
    BY <1>1, <1>5
  <2> QED
    BY <1>2, <2>1, <2>2
<1>9. CallsAreMoves'
  BY <1>4, <1>8 DEF CallsAreMoves
<1>10. ASSUME NEW t \in Servers
       PROVE  RemembersRightly(job[t])'
  <2> DEFINE j == job[t]
  <2>1. GoodJob(j)
    BY JobsAreGood
  <2> HIDE DEF j
  <2>2. /\ j.scopeId <= scope.id /\ j.seen.id <= scope.id
        /\ j.at \notin {"locking", "inserting"} => j.selected = {}
    BY <2>1 DEF GoodJob, RemembersRightly
  <2>3. j.scopeId \in Nat /\ j.seen.id \in Nat
    <3>1. j.scopeId \in 0..MaxScope /\ j.seen \in Scope \cup {NoScope}
      BY <2>1, JobOf DEF GoodJob
    <3> QED
      BY <3>1, ScopeOf DEF Scope
  <2>4. /\ j.scopeId <= scope'.id /\ j.seen.id <= scope'.id
        /\ j.scopeId # scope'.id /\ j.seen.id # scope'.id
    BY <1>2, <1>4, <2>2, <2>3
  <2>5. job'[t] = j
    BY DEF j
  <2> QED
    BY <2>2, <2>4, <2>5 DEF RemembersRightly
<1> QED
  BY <1>4, <1>7, <1>9, <1>10 DEF Remembered

LEMMA SetSearchScopeKeeps ==
  ASSUME IInv, NEW s \in Servers, NEW holds \in Circles, SetSearchScope(s, holds)
  PROVE  IInv'
<1>1. Moved(s, holds) /\ UNCHANGED <<mapped, step, pool, behind, job, faults>>
  BY DEF SetSearchScope
<1>2. /\ scope' \in Scope /\ calls' \in [Servers -> 0..MaxScope]
      /\ Remembered' /\ CallsAreMoves'
  BY <1>1, MovedKeeps
<1>3. TypeOK'
  BY <1>1, <1>2 DEF IInv, TypeOK
<1>4. PoolInOrder'
  BY <1>1 DEF IInv, PoolInOrder, OnePlaceOnce, PoolWithinCap
<1> QED
  BY <1>2, <1>3, <1>4 DEF IInv

LEMMA SettleAndAdvanceKeeps ==
  ASSUME IInv, NEW s \in Servers, NEW holds \in Circles,
         NEW seeds \in SUBSET holds, Cardinality(seeds) <= SeedLimit,
         SettleAndAdvance(s, holds, seeds)
  PROVE  IInv'
<1>1. /\ Moved(s, holds) /\ UNCHANGED <<mapped, job, faults>>
      /\ step < MaxSteps /\ step' = step + 1
      /\ behind' = Larger(behind, Highest(pool))
      /\ pool' = Numbered(seeds, FirstOfStep)
  BY DEF SettleAndAdvance
<1>2. /\ scope' \in Scope /\ calls' \in [Servers -> 0..MaxScope]
      /\ Remembered' /\ CallsAreMoves'
  BY <1>1, MovedKeeps
<1>3. step' \in 1..MaxSteps
  BY <1>1, Bounds DEF IInv, TypeOK
<1>4. behind' \in Nat /\ FirstOfStep \in Nat
  BY <1>1, NextNumberIsNumber
<1>5. seeds \in SUBSET Places
  BY Bounds
<1>6. /\ pool' \in SUBSET Row /\ IsFiniteSet(pool') /\ Cardinality(pool') <= Cap
      /\ \A a, b \in pool' : a.place = b.place => a = b
  BY <1>1, <1>4, <1>5, PoolStarts
<1>7. TypeOK'
  BY <1>1, <1>2, <1>3, <1>4, <1>6 DEF IInv, TypeOK
<1>8. PoolInOrder'
  BY <1>6 DEF PoolInOrder, OnePlaceOnce, PoolWithinCap
<1> QED
  BY <1>2, <1>7, <1>8 DEF IInv

LEMMA AddCandidatesKeeps ==
  ASSUME IInv, NEW refs \in SUBSET Places, AddCandidates(refs)
  PROVE  IInv'
<1> DEFINE novel == refs \ Refs(pool)
<1>1. /\ Cardinality(pool) + Cardinality(novel) <= Cap
      /\ pool' = pool \cup Numbered(novel, NextNumber)
      /\ UNCHANGED <<mapped, step, scope, behind, job, calls, faults>>
  BY DEF AddCandidates
<1>2. novel \in SUBSET Places /\ novel \cap Refs(pool) = {} /\ NextNumber \in Nat
  BY NextNumberIsNumber
<1> HIDE DEF novel
<1>3. pool' \in SUBSET Row /\ PoolInOrder'
  BY <1>1, <1>2, PoolGrows
<1>4. TypeOK'
  BY <1>1, <1>3 DEF IInv, TypeOK
<1>5. Remembered' /\ CallsAreMoves'
  BY <1>1 DEF IInv, Remembered, RemembersRightly, CallsAreMoves
<1> QED
  BY <1>3, <1>4, <1>5 DEF IInv

-----------------------------------------------------------------------------
(* The rounds of a job.                                                      *)

LEMMA RoundKeeps ==
  ASSUME IInv, UNCHANGED <<mapped, step, scope, pool, behind, calls, faults>>,
         job' \in [Servers -> Job] /\ Remembered'
  PROVE  IInv'
<1>1. faults \in 0..MaxFaults
  BY DEF IInv, TypeOK
<1> QED
  BY <1>1, CallsStay, OnlyJobs

LEMMA WakeKeeps ==
  ASSUME IInv, NEW s \in Servers, Wake(s)
  PROVE  IInv'
<1> DEFINE j == job[s]
<1>1. j.at = "timer" /\ UNCHANGED <<mapped, step, scope, pool, behind, calls, faults>>
  BY DEF Wake
<1>2. \/ RoundEnd(s, [j EXCEPT !.scopeId = scope.id, !.pending = {}], FALSE)
      \/ TakeBatch(s, j)
      \/ job' = [job EXCEPT ![s].at = "planning", ![s].seen = scope]
  BY DEF Wake
<1>3. GoodJob(j) /\ j \in Job
  BY JobsAreGood DEF GoodJob
<1>4. j.selected = {}
  BY <1>1, <1>3 DEF GoodJob, RemembersRightly
<1>5. scope.id \in 0..MaxScope /\ scope.id <= scope.id /\ scope \in Scope
  BY ScopeOf
<1>6. job \in [Servers -> Job]
  BY DEF IInv, TypeOK
<1>7. CASE RoundEnd(s, [j EXCEPT !.scopeId = scope.id, !.pending = {}], FALSE)
  <2> HIDE DEF j
  <2> DEFINE q == [j EXCEPT !.scopeId = scope.id, !.pending = {}]
  <2>1. /\ q \in Job /\ q.selected = {} /\ q.pending = {} /\ q.seen = j.seen
        /\ q.scopeId = scope.id /\ q.at = j.at
    BY <1>3, <1>4, <1>5 DEF Job
  <2>2. RoundEnd(s, q, FALSE)
    BY <1>7
  <2> HIDE DEF q
  <2>3. GoodJob(q)
    BY <1>3, <1>5, <2>1 DEF GoodJob, RemembersRightly
  <2>4. job' \in [Servers -> Job] /\ Remembered'
    BY <1>1, <2>2, <2>3, RoundEndKeeps
  <2> QED
    BY <1>1, <2>4, RoundKeeps
<1>8. CASE TakeBatch(s, j)
  <2>1. job' \in [Servers -> Job] /\ Remembered'
    BY <1>1, <1>3, <1>4, <1>8, TakeBatchKeeps
  <2> QED
    BY <1>1, <2>1, RoundKeeps
<1>9. CASE job' = [job EXCEPT ![s].at = "planning", ![s].seen = scope]
  <2> DEFINE q == [j EXCEPT !.at = "planning", !.seen = scope]
  <2>1. job' = [job EXCEPT ![s] = q]
    BY <1>3, <1>6, <1>9 DEF Job
  <2> HIDE DEF j
  <2>2. /\ q \in Job /\ q.selected = {} /\ q.pending = j.pending /\ q.seen = scope
        /\ q.scopeId = j.scopeId /\ q.at = "planning"
    BY <1>3, <1>4, <1>5 DEF Job
  <2> HIDE DEF q
  <2>3. GoodJob(q)
    BY <1>3, <1>5, <2>2 DEF GoodJob, RemembersRightly
  <2>4. job' \in [Servers -> Job] /\ Remembered'
    BY <1>1, <2>1, <2>3, JobStep
  <2> QED
    BY <1>1, <2>4, RoundKeeps
<1> QED
  BY <1>2, <1>7, <1>8, <1>9

LEMMA PlanKeeps ==
  ASSUME IInv, NEW s \in Servers, Plan(s)
  PROVE  IInv'
<1> DEFINE j == job[s]
           wanted == j.seen.holds \ Refs(pool)
           q == [j EXCEPT !.scopeId = j.seen.id, !.pending = wanted, !.rerun = FALSE]
<1>1. /\ j.at = "planning" /\ UNCHANGED <<mapped, step, scope, pool, behind, calls, faults>>
      /\ TakeBatch(s, q)
  BY DEF Plan, Planned
<1>2. GoodJob(j) /\ j \in Job
  BY JobsAreGood DEF GoodJob
<1>3. j.selected = {}
  BY <1>1, <1>2 DEF GoodJob, RemembersRightly
<1> HIDE DEF j
<1>4. j.seen.id \in 0..MaxScope /\ j.seen.holds \in SUBSET Places
  <2>1. j.seen \in Scope \cup {NoScope}
    BY <1>2, JobOf
  <2> QED
    BY <2>1, ScopeOf, Bounds DEF Scope
<1>5. wanted \in SUBSET Places /\ wanted \subseteq j.seen.holds
  BY <1>4
<1> HIDE DEF wanted
<1>6. /\ q \in Job /\ q.selected = {} /\ q.pending = wanted /\ q.seen = j.seen
      /\ q.scopeId = j.seen.id /\ q.at = "planning"
  BY <1>1, <1>2, <1>3, <1>4, <1>5 DEF Job
<1> HIDE DEF q
<1>7. GoodJob(q)
  BY <1>2, <1>5, <1>6 DEF GoodJob, RemembersRightly
<1>8. job' \in [Servers -> Job] /\ Remembered'
  BY <1>1, <1>6, <1>7, TakeBatchKeeps
<1> QED
  BY <1>1, <1>8, RoundKeeps

LEMMA TryLockKeeps ==
  ASSUME IInv, NEW s \in Servers, TryLock(s)
  PROVE  IInv'
<1> DEFINE j == job[s]
           back == j.pending \cup j.selected
           q == [j EXCEPT !.pending = back]
           p == [j EXCEPT !.at = "inserting"]
<1>1. UNCHANGED <<mapped, step, scope, pool, behind, calls, faults>> /\ j.at = "locking"
  BY DEF TryLock
<1>2. GoodJob(j) /\ j \in Job
  BY JobsAreGood DEF GoodJob
<1>3. job \in [Servers -> Job]
  BY DEF IInv, TypeOK
<1>4. CASE Locked
  <2>1. RoundEnd(s, q, TRUE)
    BY <1>4 DEF TryLock
  <2> HIDE DEF j
  <2>2. back \in SUBSET Places
    BY <1>2, JobOf
  <2>3. j.scopeId = scope.id => back \subseteq scope.holds
    BY <1>2 DEF GoodJob, RemembersRightly
  <2> HIDE DEF back
  <2>4. /\ q \in Job /\ q.selected = j.selected /\ q.pending = back /\ q.seen = j.seen
        /\ q.scopeId = j.scopeId /\ q.at = j.at
    BY <1>2, <2>2 DEF Job
  <2> HIDE DEF q
  <2>5. GoodJob(q)
    BY <1>1, <1>2, <2>3, <2>4 DEF GoodJob, RemembersRightly
  <2>6. job' \in [Servers -> Job] /\ Remembered'
    BY <1>1, <2>1, <2>5, RoundEndKeeps
  <2> QED
    BY <1>1, <2>6, RoundKeeps
<1>5. CASE ~Locked
  <2>1. job' = [job EXCEPT ![s].at = "inserting"]
    BY <1>5 DEF TryLock
  <2>2. job' = [job EXCEPT ![s] = p]
    BY <1>2, <1>3, <2>1 DEF Job
  <2> HIDE DEF j
  <2>3. /\ p \in Job /\ p.selected = j.selected /\ p.pending = j.pending /\ p.seen = j.seen
        /\ p.scopeId = j.scopeId /\ p.at = "inserting"
    BY <1>2 DEF Job
  <2> HIDE DEF p
  <2>4. GoodJob(p)
    BY <1>2, <2>3 DEF GoodJob, RemembersRightly
  <2>5. job' \in [Servers -> Job] /\ Remembered'
    BY <1>1, <2>2, <2>4, JobStep
  <2> QED
    BY <1>1, <2>5, RoundKeeps
<1> QED
  BY <1>4, <1>5

LEMMA AnnounceKeeps ==
  ASSUME IInv, NEW s \in Servers, Announce(s)
  PROVE  IInv'
<1>1. /\ UNCHANGED <<mapped, step, scope, pool, behind, calls, faults>>
      /\ job' = [job EXCEPT ![s] = NoJob]
  BY DEF Announce
<1>2. job' \in [Servers -> Job] /\ Remembered'
  BY <1>1, FreshIsGood, JobStep
<1> QED
  BY <1>1, <1>2, RoundKeeps

(* What the transaction of a batch may insert.                               *)
LEMMA FittingPlaces ==
  ASSUME IInv, NEW s \in Servers, RoomLeft(s) > 0,
         NEW venues \in SizedSubsets(Missing(s), Fitting(s, Missing(s)))
  PROVE  /\ venues \in SUBSET Places /\ venues \subseteq job[s].selected
         /\ venues \cap Refs(pool) = {}
         /\ Cardinality(pool) + Cardinality(venues) <= Cap
<1>1. venues \subseteq Missing(s) /\ Cardinality(venues) = Fitting(s, Missing(s))
  BY DEF SizedSubsets
<1>2. job[s].selected \in SUBSET Places
  BY JobOf, JobsAreGood DEF GoodJob
<1>3. IsFiniteSet(Missing(s)) /\ Cardinality(Missing(s)) \in Nat
  <2>1. Missing(s) \in SUBSET Places
    BY <1>2 DEF Missing
  <2> QED
    BY <2>1, Bounds, FS_Subset, FS_CardinalityType
<1>4. Cardinality(pool) \in Nat
  BY FS_CardinalityType DEF IInv, PoolInOrder
<1>5. Cardinality(pool) + Fitting(s, Missing(s)) <= Cap
  BY <1>3, <1>4, Bounds DEF Fitting, Smaller, RoomLeft
<1> QED
  BY <1>1, <1>2, <1>5 DEF Missing

(* A batch leaves the pool as it is, or adds places of it that are new and   *)
(* fit; the latter only in the scope it was planned for.                     *)
LEMMA InsertBatchDoes ==
  ASSUME IInv, NEW s \in Servers, InsertBatch(s)
  PROVE  /\ UNCHANGED <<mapped, step, scope, behind, calls, faults>>
         /\ job' \in [Servers -> Job] /\ Remembered'
         /\ \/ UNCHANGED pool
            \/ \E venues \in SUBSET Places :
                 /\ SameScope(s) /\ venues \subseteq job[s].selected
                 /\ venues \cap Refs(pool) = {}
                 /\ Cardinality(pool) + Cardinality(venues) <= Cap
                 /\ pool' = pool \cup Numbered(venues, NextNumber)
<1> DEFINE j == job[s]
<1>1. UNCHANGED <<mapped, step, scope, behind, calls, faults>>
  BY DEF InsertBatch
<1>2. GoodJob(j) /\ j \in Job
  BY JobsAreGood DEF GoodJob
<1>3. CASE /\ RoundEnd(s, [j EXCEPT !.scopeId = 0, !.pending = {}, !.rerun = TRUE], TRUE)
           /\ UNCHANGED pool
  <2> HIDE DEF j
  <2> DEFINE q == [j EXCEPT !.scopeId = 0, !.pending = {}, !.rerun = TRUE]
  <2>1. 0 \in 0..MaxScope
    BY Bounds
  <2>2. /\ q \in Job /\ q.selected = j.selected /\ q.pending = {} /\ q.seen = j.seen
        /\ q.scopeId = 0 /\ q.at = j.at
    BY <1>2, <2>1 DEF Job
  <2>3. RoundEnd(s, q, TRUE)
    BY <1>3
  <2> HIDE DEF q
  <2>4. GoodJob(q)
    BY <1>2, <2>2, ScopeOf DEF GoodJob, RemembersRightly
  <2>5. job' \in [Servers -> Job] /\ Remembered'
    BY <1>1, <2>3, <2>4, RoundEndKeeps
  <2> QED
    BY <1>1, <1>3, <2>5
<1>4. CASE RoundEnd(s, [j EXCEPT !.pending = {}], FALSE) /\ UNCHANGED pool
  <2> HIDE DEF j
  <2> DEFINE q == [j EXCEPT !.pending = {}]
  <2>1. /\ q \in Job /\ q.selected = j.selected /\ q.pending = {} /\ q.seen = j.seen
        /\ q.scopeId = j.scopeId /\ q.at = j.at
    BY <1>2 DEF Job
  <2>2. RoundEnd(s, q, FALSE)
    BY <1>4
  <2> HIDE DEF q
  <2>3. GoodJob(q)
    BY <1>2, <2>1 DEF GoodJob, RemembersRightly
  <2>4. job' \in [Servers -> Job] /\ Remembered'
    BY <1>1, <2>2, <2>3, RoundEndKeeps
  <2> QED
    BY <1>1, <1>4, <2>4
<1>5. CASE /\ SameScope(s) /\ RoomLeft(s) > 0
           /\ \E venues \in SizedSubsets(Missing(s), Fitting(s, Missing(s))) :
                LET rows == Numbered(venues, NextNumber)
                IN  IF Collides(rows)
                    THEN Failed(s) /\ UNCHANGED pool
                    ELSE /\ pool' = pool \cup rows
                         /\ RoundEnd(s, [j EXCEPT !.added = @ \/ rows # {}],
                                     /\ j.pending # {}
                                     /\ Cardinality(pool) + Cardinality(rows) < Cap)
  <2>1. PICK venues \in SizedSubsets(Missing(s), Fitting(s, Missing(s))) :
          \/ Failed(s) /\ UNCHANGED pool
          \/ /\ pool' = pool \cup Numbered(venues, NextNumber)
             /\ \E added, more \in BOOLEAN : RoundEnd(s, [j EXCEPT !.added = added], more)
    <3>1. PICK venues \in SizedSubsets(Missing(s), Fitting(s, Missing(s))) :
            LET rows == Numbered(venues, NextNumber)
            IN  IF Collides(rows)
                THEN Failed(s) /\ UNCHANGED pool
                ELSE /\ pool' = pool \cup rows
                     /\ RoundEnd(s, [j EXCEPT !.added = @ \/ rows # {}],
                                 /\ j.pending # {}
                                 /\ Cardinality(pool) + Cardinality(rows) < Cap)
      BY <1>5
    <3> HIDE DEF j
    <3> DEFINE rows == Numbered(venues, NextNumber)
               added == j.added \/ rows # {}
               more == j.pending # {} /\ Cardinality(pool) + Cardinality(rows) < Cap
    <3>2. \/ Failed(s) /\ UNCHANGED pool
          \/ pool' = pool \cup rows /\ RoundEnd(s, [j EXCEPT !.added = added], more)
      BY <3>1
    <3>3. added \in BOOLEAN /\ more \in BOOLEAN
      OBVIOUS
    <3> HIDE DEF added, more
    <3> QED
      BY <3>2, <3>3
  <2>2. CASE Failed(s) /\ UNCHANGED pool
    BY <1>1, <2>2, FailedKeeps
  <2>3. CASE /\ pool' = pool \cup Numbered(venues, NextNumber)
             /\ \E added, more \in BOOLEAN : RoundEnd(s, [j EXCEPT !.added = added], more)
    <3>1. PICK added \in BOOLEAN, more \in BOOLEAN : RoundEnd(s, [j EXCEPT !.added = added], more)
      BY <2>3
    <3>2. /\ venues \in SUBSET Places /\ venues \subseteq job[s].selected
          /\ venues \cap Refs(pool) = {}
          /\ Cardinality(pool) + Cardinality(venues) <= Cap
      BY <1>5, FittingPlaces
    <3> HIDE DEF j
    <3> DEFINE q == [j EXCEPT !.added = added]
    <3>3. /\ q \in Job /\ q.selected = j.selected /\ q.pending = j.pending /\ q.seen = j.seen
          /\ q.scopeId = j.scopeId /\ q.at = j.at
      BY <1>2 DEF Job
    <3>4. RoundEnd(s, q, more)
      BY <3>1
    <3> HIDE DEF q
    <3>5. GoodJob(q)
      BY <1>2, <3>3 DEF GoodJob, RemembersRightly
    <3>6. job' \in [Servers -> Job] /\ Remembered'
      BY <1>1, <3>4, <3>5, RoundEndKeeps
    <3> QED
      BY <1>1, <1>5, <2>3, <3>2, <3>6
  <2> QED
    BY <2>1, <2>2, <2>3
<1> QED
  BY <1>3, <1>4, <1>5 DEF InsertBatch

LEMMA InsertBatchKeeps ==
  ASSUME IInv, NEW s \in Servers, InsertBatch(s)
  PROVE  IInv'
<1>1. /\ UNCHANGED <<mapped, step, scope, behind, calls, faults>>
      /\ job' \in [Servers -> Job] /\ Remembered'
  BY InsertBatchDoes
<1>2. CASE UNCHANGED pool
  BY <1>1, <1>2, RoundKeeps
<1>3. CASE \E venues \in SUBSET Places :
             /\ venues \cap Refs(pool) = {}
             /\ Cardinality(pool) + Cardinality(venues) <= Cap
             /\ pool' = pool \cup Numbered(venues, NextNumber)
  <2>1. pool' \in SUBSET Row /\ PoolInOrder'
    BY <1>3, NextNumberIsNumber, PoolGrows
  <2>2. TypeOK'
    BY <1>1, <2>1 DEF IInv, TypeOK
  <2>3. CallsAreMoves'
    BY <1>1 DEF IInv, CallsAreMoves
  <2> QED
    BY <1>1, <2>1, <2>2, <2>3 DEF IInv
<1> QED
  BY <1>2, <1>3, InsertBatchDoes

-----------------------------------------------------------------------------
LEMMA Initially ==
  ASSUME Init
  PROVE  IInv
<1>1. PICK holds \in Circles :
        /\ scope = [id |-> 1, holds |-> holds]
        /\ \E seeds \in SUBSET holds :
             Cardinality(seeds) <= SeedLimit /\ pool = Numbered(seeds, 1)
  BY DEF Init
<1>2. PICK seeds \in SUBSET holds : Cardinality(seeds) <= SeedLimit /\ pool = Numbered(seeds, 1)
  BY <1>1
<1>3. holds \in SUBSET Places /\ seeds \in SUBSET Places /\ 1 \in 1..MaxScope
  BY Bounds
<1>4. scope \in Scope /\ scope.id = 1
  BY <1>1, <1>3 DEF Scope
<1>5. /\ pool \in SUBSET Row /\ IsFiniteSet(pool) /\ Cardinality(pool) <= Cap
      /\ \A a, b \in pool : a.place = b.place => a = b
  BY <1>2, <1>3, PoolStarts
<1>6. /\ Started \in Job /\ Started.at = "timer" /\ Started.scopeId = 0 /\ Started.pending = {}
      /\ Started.selected = {} /\ Started.seen = NoScope
  BY NoJobIsJob DEF Started, Job
<1>7. PICK s \in Servers : job = [t \in Servers |-> IF t = s THEN Started ELSE NoJob]
  BY DEF Init
<1>8. job \in [Servers -> Job]
  BY <1>6, <1>7, NoJobIsJob
<1>9. /\ mapped \in BOOLEAN /\ step \in 1..MaxSteps /\ behind \in Nat
      /\ faults \in 0..MaxFaults
  BY Bounds DEF Init
<1>10. calls \in [Servers -> 0..MaxScope] /\ \A t \in Servers : calls[t] < 1
  BY Bounds DEF Init
<1>11. TypeOK
  BY <1>4, <1>5, <1>8, <1>9, <1>10 DEF TypeOK
<1>12. Remembered
  <2> SUFFICES ASSUME NEW t \in Servers
               PROVE  RemembersRightly(job[t])
    BY DEF Remembered
  <2>1. job[t] = Started \/ job[t] = NoJob
    BY <1>7
  <2> QED
    BY <1>4, <1>6, <2>1, NoJobIsJob DEF RemembersRightly, NoScope
<1>13. CallsAreMoves /\ PoolInOrder
  BY <1>4, <1>5, <1>10 DEF CallsAreMoves, PoolInOrder, OnePlaceOnce, PoolWithinCap
<1> QED
  BY <1>11, <1>12, <1>13 DEF IInv

LEMMA NextKeeps ==
  ASSUME IInv, [Next]_vars
  PROVE  IInv'
<1>1. ASSUME NEW s \in Servers, Run(s)
      PROVE  IInv'
  BY <1>1, WakeKeeps, PlanKeeps, TryLockKeeps, InsertBatchKeeps, AnnounceKeeps DEF Run
<1>2. ASSUME NEW s \in Servers, Connect(s) \/ AfterCommit(s) \/ DatabaseError(s) \/ Restart(s)
      PROVE  IInv'
  BY <1>2, ConnectKeeps, AfterCommitKeeps, DatabaseErrorKeeps, RestartKeeps
<1>3. ASSUME NEW s \in Servers, NEW holds \in Circles, SetSearchScope(s, holds)
      PROVE  IInv'
  BY <1>3, SetSearchScopeKeeps
<1>4. ASSUME NEW s \in Servers, NEW holds \in Circles,
             NEW seeds \in {T \in SUBSET holds : Cardinality(T) <= SeedLimit},
             SettleAndAdvance(s, holds, seeds)
      PROVE  IInv'
  BY <1>4, SettleAndAdvanceKeeps
<1>5. ASSUME NEW ref \in Places, AddCandidates({ref})
      PROVE  IInv'
  <2>1. {ref} \in SUBSET Places
    OBVIOUS
  <2> QED
    BY <1>5, <2>1, AddCandidatesKeeps
<1>6. CASE UNCHANGED vars
  <2>1. UNCHANGED <<mapped, step, scope, pool, behind, job, calls, faults>>
    BY <1>6 DEF vars
  <2>2. job \in [Servers -> Job]
    BY DEF IInv, TypeOK
  <2>3. Remembered'
    BY <2>1 DEF IInv, Remembered, RemembersRightly
  <2> QED
    BY <2>1, <2>2, <2>3, RoundKeeps
<1> QED
  BY <1>1, <1>2, <1>3, <1>4, <1>5, <1>6 DEF Next

(* Every state of a run satisfies the inductive invariant.                   *)
THEOREM Invariance == Spec => []IInv
<1>1. Init => IInv
  BY Initially
<1>2. IInv /\ [Next]_vars => IInv'
  BY NextKeeps
<1> QED
  BY <1>1, <1>2, PTL DEF Spec

(* The state keeps its types: the failures and the calls owed stay bounded,  *)
(* and every number is one (pool-fill.ts 40-48, 300-311).                    *)
THEOREM TypeCorrect == Spec => []TypeOK
<1>1. IInv => TypeOK
  BY DEF IInv
<1> QED
  BY <1>1, Invariance, PTL

(* However many processes fill and people add, a place has one row           *)
(* (pool-fill.ts 203-208).                                                   *)
THEOREM EachPlaceOnce == Spec => []OnePlaceOnce
<1>1. IInv => OnePlaceOnce
  BY DEF IInv, PoolInOrder
<1> QED
  BY <1>1, Invariance, PTL

(* And the pool stays within POOL_CAP (pool-fill.ts 199-209).                *)
THEOREM WithinCap == Spec => []PoolWithinCap
<1>1. IInv => PoolWithinCap
  BY DEF IInv, PoolInOrder
<1> QED
  BY <1>1, Invariance, PTL

(* A job that lets its transaction go has inserted, or it was cut off.       *)
LEMMA LettingGo ==
  ASSUME IInv, [Next]_vars, NEW s \in Servers, job[s].at = "inserting", job'[s].at # "inserting"
  PROVE  InsertBatch(s) \/ UNCHANGED pool
<1>1. ASSUME NEW t \in Servers, t # s, NEW j, job' = [job EXCEPT ![t] = j]
      PROVE  FALSE
  BY <1>1 DEF IInv, TypeOK
<1>2. ASSUME NEW t \in Servers, InsertBatch(t), t # s
      PROVE  FALSE
  BY <1>1, <1>2 DEF InsertBatch, RoundEnd, Failed
<1>3. ASSUME NEW t \in Servers, Wake(t) \/ Plan(t) \/ TryLock(t) \/ Announce(t)
      PROVE  UNCHANGED pool
  BY <1>3 DEF Wake, Plan, TryLock, Announce
<1>4. ASSUME NEW t \in Servers, Connect(t) \/ AfterCommit(t) \/ DatabaseError(t) \/ Restart(t)
      PROVE  UNCHANGED pool
  BY <1>4 DEF Connect, AfterCommit, DatabaseError, Restart
<1>5. ASSUME UNCHANGED job
      PROVE  FALSE
  BY <1>5
<1>6. ASSUME NEW t \in Servers, NEW holds, SetSearchScope(t, holds)
      PROVE  FALSE
  BY <1>5, <1>6 DEF SetSearchScope
<1>7. ASSUME NEW t \in Servers, NEW holds, NEW seeds, SettleAndAdvance(t, holds, seeds)
      PROVE  FALSE
  BY <1>5, <1>7 DEF SettleAndAdvance
<1>8. ASSUME NEW refs, AddCandidates(refs)
      PROVE  FALSE
  BY <1>5, <1>8 DEF AddCandidates
<1>9. CASE UNCHANGED vars
  BY <1>9 DEF vars
<1> QED
  BY <1>2, <1>3, <1>4, <1>6, <1>7, <1>8, <1>9 DEF Next, Run

(* A batch planned for one circle never lands in another, however the circle *)
(* moves between the plan and the transaction (pool-fill.ts 178-193).        *)
THEOREM FillsStayInScope == Spec => FillInScope
<1>1. ASSUME IInv, [Next]_vars, NEW s \in Servers,
             job[s].at = "inserting", job'[s].at # "inserting"
      PROVE  Refs(pool') \subseteq Refs(pool) \cup scope.holds
  <2>1. CASE UNCHANGED pool
    BY <2>1
  <2>2. CASE InsertBatch(s) /\ ~UNCHANGED pool
    <3>1. PICK venues \in SUBSET Places :
            /\ SameScope(s) /\ venues \subseteq job[s].selected
            /\ venues \cap Refs(pool) = {}
            /\ Cardinality(pool) + Cardinality(venues) <= Cap
            /\ pool' = pool \cup Numbered(venues, NextNumber)
      BY <1>1, <2>2, InsertBatchDoes
    <3>2. Refs(pool') = Refs(pool) \cup venues
      BY <1>1, <3>1, NextNumberIsNumber, PoolGrows
    <3>3. job[s].selected \subseteq scope.holds
      BY <1>1, <3>1 DEF SameScope, IInv, Remembered, RemembersRightly
    <3> QED
      BY <3>1, <3>2, <3>3
  <2> QED
    BY <1>1, <2>1, <2>2, LettingGo
<1>2. IInv /\ [Next]_vars
        => [\A s \in Servers : (job[s].at = "inserting" /\ job'[s].at # "inserting")
              => Refs(pool') \subseteq Refs(pool) \cup scope.holds]_vars
  BY <1>1
<1> QED
  BY <1>2, Invariance, PTL DEF Spec, FillInScope

=============================================================================
