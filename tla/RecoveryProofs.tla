--------------------------- MODULE RecoveryProofs ---------------------------
(* What Recovery promises of every room: greedy deletion leaves an           *)
(* irreducible conflict, no offer is open twice or made again once denied,   *)
(* none is open where the room is not stuck or on a need set aside, and      *)
(* what is settled stays so.                                                 *)
(*                                                                          *)
(* ConflictSet is a recursive function over the needs, and what it computes  *)
(* is proved by induction over them (NumbersByOne, from the well-founded     *)
(* order of the naturals).                                                   *)
EXTENDS Recovery, FiniteSetTheorems, WellFoundedInduction, TLAPS

LEMMA Bounds ==
  /\ RadiusMax \in Nat /\ RadiusMax >= 1
  /\ PriceMax \in Nat /\ Enough \in Nat /\ OfferLimit \in Nat
  /\ NeedLimit \in Nat /\ NeedLimit >= 1
  /\ Steps \in Nat /\ Steps >= 1
  /\ IsFiniteSet(Candidates) /\ Founding \subseteq Candidates
  BY RecoveryAssumption

(* Induction over the naturals, as a fact about sets.                        *)
LEMMA NumbersByOne ==
  ASSUME NEW S, 0 \in S, \A n \in Nat : n \in S => n + 1 \in S
  PROVE  \A n \in Nat : n \in S
<1> DEFINE T == Nat \ S
<1> SUFFICES ASSUME T # {}
             PROVE  FALSE
  OBVIOUS
<1>1. PICK x \in T : \A y \in T : ~(<<y, x>> \in OpToRel(<, Nat))
  <2>1. T \subseteq Nat
    OBVIOUS
  <2> HIDE DEF T
  <2> QED
    BY <2>1, NatLessThanWellFounded, WFMin
<1>2. \A y \in T : ~(y < x)
  BY <1>1 DEF OpToRel
<1>3. x \in Nat /\ x # 0 /\ x \notin S
  OBVIOUS
<1>4. x - 1 \in Nat /\ x - 1 < x /\ (x - 1) + 1 = x
  BY <1>3
<1>5. x - 1 \in S
  BY <1>2, <1>4
<1> QED
  BY <1>3, <1>4, <1>5

-----------------------------------------------------------------------------
(* The conflict set.                                                        *)

(* One need looked at.                                                      *)
Looked(r, left, n) == IF n \in InForce(r) THEN Dropped(r, left, n) ELSE left

Greedy(r, f) == /\ f[NeedLimit + 1] = InForce(r)
                /\ \A n \in NeedIds : f[n] = Looked(r, f[n + 1], n)

LEMMA GreedyExists ==
  ASSUME NEW r
  PROVE  \E f : Greedy(r, f)
<1> DEFINE Upper(k) == \E f : /\ f[NeedLimit + 1] = InForce(r)
                              /\ \A n \in NeedIds : n > NeedLimit - k =>
                                    f[n] = Looked(r, f[n + 1], n)
           S == {k \in Nat : Upper(k)}
<1>0. NeedLimit \in Nat
  BY Bounds
<1>1. 0 \in S
  <2> DEFINE f == [n \in {NeedLimit + 1} |-> InForce(r)]
  <2>1. f[NeedLimit + 1] = InForce(r)
    OBVIOUS
  <2>2. \A n \in NeedIds : ~(n > NeedLimit - 0)
    BY <1>0 DEF NeedIds
  <2> HIDE DEF f
  <2>3. Upper(0)
    BY <2>1, <2>2
  <2> QED
    BY <2>3
<1>2. ASSUME NEW k \in Nat, k \in S
      PROVE  k + 1 \in S
  <2>1. PICK f : /\ f[NeedLimit + 1] = InForce(r)
                 /\ \A n \in NeedIds : n > NeedLimit - k => f[n] = Looked(r, f[n + 1], n)
    BY <1>2
  <2> DEFINE x == NeedLimit - k
             g == [n \in 1..(NeedLimit + 1) |-> IF n = x THEN Looked(r, f[x + 1], x) ELSE f[n]]
  <2>2. x \in Int /\ x # NeedLimit + 1 /\ x + 1 # x
    BY <1>0
  <2>3. g[NeedLimit + 1] = InForce(r)
    BY <1>0, <2>1, <2>2
  <2>4. ASSUME NEW n \in NeedIds, n > NeedLimit - (k + 1)
        PROVE  g[n] = Looked(r, g[n + 1], n)
    <3>1. n \in 1..(NeedLimit + 1) /\ n + 1 \in 1..(NeedLimit + 1) /\ n >= x
      BY <1>0, <2>4 DEF NeedIds
    <3>2. CASE n = x
      <4>1. n + 1 # x
        BY <2>2, <3>2
      <4>2. g[n + 1] = f[x + 1] /\ g[n] = Looked(r, f[x + 1], x)
        BY <3>1, <3>2, <4>1
      <4> QED
        BY <3>2, <4>2
    <3>3. CASE n # x
      <4>1. n > NeedLimit - k /\ n + 1 # x
        BY <1>0, <2>4, <3>3 DEF NeedIds
      <4>2. g[n + 1] = f[n + 1] /\ g[n] = f[n]
        BY <3>1, <3>3, <4>1
      <4> QED
        BY <2>1, <4>1, <4>2
    <3> QED
      BY <3>2, <3>3
  <2> HIDE DEF g
  <2>5. Upper(k + 1)
    BY <2>3, <2>4
  <2> QED
    BY <2>5
<1> HIDE DEF S
<1>3. NeedLimit \in S
  BY <1>0, <1>1, <1>2, NumbersByOne
<1>4. Upper(NeedLimit)
  BY <1>3 DEF S
<1>5. \A n \in NeedIds : n > NeedLimit - NeedLimit
  BY <1>0 DEF NeedIds
<1> QED
  BY <1>4, <1>5 DEF Greedy

LEMMA ConflictSetIsGreedy ==
  ASSUME NEW r
  PROVE  \E f : Greedy(r, f) /\ ConflictSet(r) = f[1]
<1> DEFINE D == 1..(NeedLimit + 1)
           Body(f) == [n \in D |-> IF n > NeedLimit THEN InForce(r)
                                   ELSE IF n \in InForce(r) THEN Dropped(r, f[n + 1], n)
                                   ELSE f[n + 1]]
           left == CHOOSE f : f = Body(f)
<1>0. NeedLimit \in Nat /\ 1 \in D /\ NeedLimit + 1 \in D
  BY Bounds
<1>1. \E f : f = Body(f)
  <2>1. PICK f : Greedy(r, f)
    BY GreedyExists
  <2> DEFINE g == [n \in D |-> f[n]]
  <2>2. ASSUME NEW n \in D
        PROVE  g[n] = Body(g)[n]
    <3>1. CASE n > NeedLimit
      <4>1. n = NeedLimit + 1
        BY <1>0, <3>1
      <4> QED
        BY <2>1, <3>1, <4>1 DEF Greedy
    <3>2. CASE ~(n > NeedLimit)
      <4>1. n \in NeedIds /\ n + 1 \in D
        BY <1>0, <3>2 DEF NeedIds
      <4>2. f[n] = Looked(r, f[n + 1], n)
        BY <2>1, <4>1 DEF Greedy
      <4>3. g[n + 1] = f[n + 1] /\ g[n] = f[n]
        BY <4>1
      <4> QED
        BY <3>2, <4>2, <4>3 DEF Looked
    <3> QED
      BY <3>1, <3>2
  <2>3. g = Body(g)
    BY <2>2
  <2> QED
    BY <2>3
<1>2. left = Body(left)
  <2> HIDE DEF Body
  <2> QED
    BY <1>1
<1>3. ConflictSet(r) = left[1]
  BY DEF ConflictSet
<1> HIDE DEF left
<1>4. \A n \in D : left[n] = Body(left)[n]
  BY <1>2
<1>5. left[NeedLimit + 1] = InForce(r)
  <2>1. NeedLimit + 1 > NeedLimit
    BY <1>0
  <2> QED
    BY <1>0, <1>4, <2>1
<1>6. ASSUME NEW n \in NeedIds
      PROVE  left[n] = Looked(r, left[n + 1], n)
  <2>1. n \in D /\ ~(n > NeedLimit)
    BY <1>0 DEF NeedIds
  <2> QED
    BY <1>4, <2>1 DEF Looked
<1> QED
  BY <1>3, <1>5, <1>6 DEF Greedy


(* Fewer needs leave no fewer places.                                        *)
LEMMA FewerNeedsFeasible ==
  ASSUME NEW r, NEW A, NEW B, A \subseteq B, ~Infeasible(r, B)
  PROVE  ~Infeasible(r, A)
  BY DEF Infeasible, EligibleWith

(* What greedy deletion has left, whatever the room: an irreducible conflict *)
(* if all the needs in force conflict.                                       *)
LEMMA ConflictSetIsIrreducible ==
  ASSUME NEW r
  PROVE  /\ ConflictSet(r) \subseteq InForce(r)
         /\ Infeasible(r, InForce(r)) => Infeasible(r, ConflictSet(r))
         /\ \A n \in ConflictSet(r) : ~Infeasible(r, ConflictSet(r) \ {n})
<1>1. PICK f : Greedy(r, f) /\ ConflictSet(r) = f[1]
  BY ConflictSetIsGreedy
<1> DEFINE Good(n) == /\ f[n] \subseteq InForce(r)
                      /\ Infeasible(r, InForce(r)) => Infeasible(r, f[n])
                      /\ \A m \in f[n] : m >= n => ~Infeasible(r, f[n] \ {m})
           S == {k \in Nat : k <= NeedLimit => Good(NeedLimit + 1 - k)}
<1>0. NeedLimit \in Nat /\ NeedLimit >= 1 /\ InForce(r) \subseteq 1..NeedLimit
  BY Bounds DEF InForce, NeedIds
<1>2. 0 \in S
  <2>1. f[NeedLimit + 1] = InForce(r)
    BY <1>1 DEF Greedy
  <2>2. \A m \in InForce(r) : ~(m >= NeedLimit + 1)
    BY <1>0
  <2>3. Good(NeedLimit + 1)
    BY <2>1, <2>2
  <2>4. NeedLimit + 1 - 0 = NeedLimit + 1
    BY <1>0
  <2> QED
    BY <2>3, <2>4
<1>3. ASSUME NEW k \in Nat, k \in S
      PROVE  k + 1 \in S
  <2> SUFFICES ASSUME k + 1 <= NeedLimit
               PROVE  Good(NeedLimit + 1 - (k + 1))
    OBVIOUS
  <2> DEFINE n == NeedLimit - k
  <2>0. n \in NeedIds /\ NeedLimit + 1 - k = n + 1 /\ NeedLimit + 1 - (k + 1) = n
    BY <1>0 DEF NeedIds
  <2>1. Good(n + 1)
    <3>1. k <= NeedLimit
      BY <1>0
    <3> QED
      BY <1>3, <2>0, <3>1
  <2>2. f[n] = Looked(r, f[n + 1], n)
    BY <1>1, <2>0 DEF Greedy
  <2>3. ASSUME NEW m \in f[n + 1], m >= n, m # n
        PROVE  m >= n + 1
    <3>1. m \in Int /\ n \in Int
      BY <1>0, <2>0, <2>1 DEF NeedIds
    <3> QED
      BY <2>3, <3>1
  <2> HIDE DEF n
  <2>4. CASE f[n] = f[n + 1] \ {n} /\ Infeasible(r, f[n])
    <3>1. ASSUME NEW m \in f[n], m >= n
          PROVE  ~Infeasible(r, f[n] \ {m})
      <4>1. m \in f[n + 1] /\ m # n
        BY <2>4
      <4>2. ~Infeasible(r, f[n + 1] \ {m})
        BY <2>1, <2>3, <3>1, <4>1
      <4>3. f[n] \ {m} \subseteq f[n + 1] \ {m}
        BY <2>4
      <4> QED
        BY <4>2, <4>3, FewerNeedsFeasible
    <3>2. Good(n)
      BY <2>1, <2>4, <3>1
    <3> QED
      BY <2>0, <3>2
  <2>5. CASE f[n] = f[n + 1] /\ (n \in f[n] => ~Infeasible(r, f[n] \ {n}))
    <3>1. ASSUME NEW m \in f[n], m >= n
          PROVE  ~Infeasible(r, f[n] \ {m})
      BY <2>1, <2>3, <2>5, <3>1
    <3>2. Good(n)
      BY <2>1, <2>5, <3>1
    <3> QED
      BY <2>0, <3>2
  <2> QED
    <3>1. CASE n \notin InForce(r)
      BY <2>1, <2>2, <2>5, <3>1 DEF Looked
    <3>2. CASE n \in InForce(r) /\ Infeasible(r, f[n + 1] \ {n})
      BY <2>2, <2>4, <3>2 DEF Looked, Dropped
    <3>3. CASE n \in InForce(r) /\ ~Infeasible(r, f[n + 1] \ {n})
      BY <2>2, <2>5, <3>3 DEF Looked, Dropped
    <3> QED
      BY <3>1, <3>2, <3>3
<1> HIDE DEF S
<1>4. NeedLimit \in S
  BY <1>0, <1>2, <1>3, NumbersByOne
<1>5. Good(1)
  <2>1. NeedLimit <= NeedLimit /\ NeedLimit + 1 - NeedLimit = 1
    BY <1>0
  <2>2. NeedLimit <= NeedLimit => Good(NeedLimit + 1 - NeedLimit)
    BY <1>4 DEF S
  <2> HIDE DEF Good
  <2> QED
    BY <2>1, <2>2
<1>6. \A m \in f[1] : m >= 1
  BY <1>0, <1>5
<1> QED
  BY <1>1, <1>5, <1>6

-----------------------------------------------------------------------------
(* The offers.                                                              *)

LEMMA GainIsNumber ==
  ASSUME NEW r \in Room, NEW needs, NEW says, NEW radius
  PROVE  Gain(r, needs, says, radius) \in Nat
<1>1. r.pool \subseteq Candidates
  BY DEF Room
<1>2. EligibleWith(r, needs, says, radius) \in SUBSET Candidates
  BY <1>1 DEF EligibleWith
<1>3. IsFiniteSet(EligibleWith(r, needs, says, radius))
  BY <1>2, Bounds, FS_Subset
<1> QED
  BY <1>3, FS_CardinalityType DEF Gain

(* What is known of a draft of a room.                                      *)
IsDraft(r, d) ==
    /\ d \in Adjustment /\ d.status = "proposed"
    /\ d.kind = "scope" <=> d.need = 0
    /\ d.kind = "scope" => d.to \in 1..RadiusMax
    /\ d.need # 0 => d.need \in ConflictSet(r)

LEMMA WiderCircleDrafts ==
  ASSUME NEW r \in Room
  PROVE  /\ \A d \in WiderCircle(r) : IsDraft(r, d) /\ d.need = 0
         /\ \A d, e \in WiderCircle(r) : d = e
<1> DEFINE gain(w) == Gain(r, InForce(r), Says(r), w)
           wanted  == IF gain(RadiusMax) < Enough THEN gain(RadiusMax) ELSE Enough
           offer(w) == Offer("scope", 0, r.radius, w, gain(w), FALSE)
           Wide == {w \in r.radius + 1 .. RadiusMax :
                      /\ gain(w) > 0 /\ gain(w) >= wanted
                      /\ \A v \in r.radius + 1 .. w - 1 : gain(v) < wanted}
<1>1. WiderCircle(r) = {offer(w) : w \in Wide}
  BY DEF WiderCircle
<1>2. \A w : gain(w) \in Nat
  BY GainIsNumber
<1>3. wanted \in Nat /\ r.radius \in Nat /\ r.radius >= 1 /\ RadiusMax \in Nat
  BY <1>2, Bounds DEF Room
<1>4. ASSUME NEW w \in Wide
      PROVE  IsDraft(r, offer(w)) /\ offer(w).need = 0
  <2>1. w \in Nat /\ w \in 1..RadiusMax /\ gain(w) \in Nat
    BY <1>2, <1>3
  <2> HIDE DEF gain
  <2>2. /\ offer(w) \in Adjustment /\ offer(w).kind = "scope" /\ offer(w).need = 0
        /\ offer(w).to = w /\ offer(w).status = "proposed"
    BY <1>3, <2>1 DEF Offer, Adjustment, Open
  <2> QED
    BY <2>1, <2>2 DEF IsDraft
<1>5. ASSUME NEW v \in Wide, NEW w \in Wide, v < w
      PROVE  FALSE
  <2>1. v \in r.radius + 1 .. w - 1 /\ v \in Int
    BY <1>3, <1>5
  <2>2. gain(v) < wanted /\ gain(v) >= wanted
    BY <2>1
  <2> HIDE DEF gain, wanted
  <2>3. gain(v) \in Nat
    BY <1>2
  <2> QED
    BY <1>3, <2>2, <2>3
<1>6. \A w \in Wide : w \in Int
  BY <1>3
<1>7. \A v, w \in Wide : v = w
  <2> HIDE DEF Wide
  <2> QED
    BY <1>5, <1>6
<1> HIDE DEF Wide, offer
<1> QED
  BY <1>1, <1>4, <1>7

LEMMA NeedDrafts ==
  ASSUME NEW r \in Room, NEW n \in ConflictSet(r)
  PROVE  /\ \A d \in HigherBudget(r, n) \cup NoExclusion(r, n) : IsDraft(r, d) /\ d.need = n
         /\ \A d, e \in HigherBudget(r, n) \cup NoExclusion(r, n) : d = e
<1>0. n \in NeedIds /\ n # 0
  <2>1. n \in NeedIds
    BY ConflictSetIsIrreducible DEF InForce
  <2> QED
    BY <2>1, Bounds DEF NeedIds
<1> DEFINE says   == r.needs[n].says
           next   == says.arg + 1
           raised == [Says(r) EXCEPT ![n].arg = next]
           more   == Gain(r, InForce(r), raised, r.radius)
           within == says.mode = "negotiable" /\ next <= says.bound
           less   == Gain(r, InForce(r) \ {n}, Says(r), r.radius)
           up     == Offer("budget", n, says.arg, next, more, within)
           gone   == Offer("exclusion", n, says.arg, 0, less, FALSE)
<1>1. says.arg \in Nat
  BY <1>0 DEF Room, Need, Statement
<1>2. more \in Nat /\ less \in Nat
  BY GainIsNumber
<1>3. next \in Nat /\ within \in BOOLEAN
  BY <1>1
<1>4. \A d \in HigherBudget(r, n) : d = up /\ says.kind = "budget"
  BY DEF HigherBudget
<1>5. \A d \in NoExclusion(r, n) : d = gone /\ says.kind = "exclusion"
  BY DEF NoExclusion
<1>6. IsDraft(r, up) /\ up.need = n
  <2> HIDE DEF more, within, next
  <2>1. /\ up \in Adjustment /\ up.kind = "budget" /\ up.need = n /\ up.status = "proposed"
    BY <1>0, <1>1, <1>2, <1>3 DEF Offer, Adjustment, Open
  <2> HIDE DEF up
  <2> QED
    BY <1>0, <2>1 DEF IsDraft
<1>7. IsDraft(r, gone) /\ gone.need = n
  <2> HIDE DEF less
  <2>1. /\ gone \in Adjustment /\ gone.kind = "exclusion" /\ gone.need = n
        /\ gone.status = "proposed"
    BY <1>0, <1>1, <1>2 DEF Offer, Adjustment, Open
  <2> HIDE DEF gone
  <2> QED
    BY <1>0, <2>1 DEF IsDraft
<1> HIDE DEF up, gone, says
<1> QED
  BY <1>4, <1>5, <1>6, <1>7

(* A pass makes at most one offer of the circle and one per need.            *)
LEMMA OneDraftEach ==
  ASSUME NEW r \in Room
  PROVE  /\ \A d \in Drafts(r) : IsDraft(r, d)
         /\ \A d, e \in Drafts(r) : d.need = e.need => d = e
<1> DEFINE Asked == {m \in ConflictSet(r) : r.needs[m].says.mode # "locked"}
           of(n) == HigherBudget(r, n) \cup NoExclusion(r, n)
<1>1. Drafts(r) = WiderCircle(r) \cup UNION {of(n) : n \in Asked}
  BY DEF Drafts
<1>2. \A n \in Asked : /\ \A d \in of(n) : IsDraft(r, d) /\ d.need = n
                       /\ \A d, e \in of(n) : d = e
  BY NeedDrafts
<1>3. \A n \in Asked : n # 0
  <2>1. \A n \in ConflictSet(r) : n \in NeedIds
    BY ConflictSetIsIrreducible DEF InForce
  <2> QED
    BY <2>1, Bounds DEF NeedIds
<1>4. \A d \in Drafts(r) : d \in WiderCircle(r) \/ \E n \in Asked : d \in of(n)
  BY <1>1
<1> HIDE DEF Asked, of
<1>5. \A d \in Drafts(r) : IsDraft(r, d)
  BY <1>2, <1>4, WiderCircleDrafts
<1>6. ASSUME NEW d \in Drafts(r), NEW e \in Drafts(r), d.need = e.need
      PROVE  d = e
  <2>1. CASE d.need = 0
    <3>1. \A c \in Drafts(r) : c.need = 0 => c \in WiderCircle(r)
      BY <1>2, <1>3, <1>4
    <3>2. d \in WiderCircle(r) /\ e \in WiderCircle(r)
      BY <1>6, <2>1, <3>1
    <3> QED
      BY <3>2, WiderCircleDrafts
  <2>2. CASE d.need # 0
    <3>1. d \in of(d.need) /\ d.need \in Asked /\ e \in of(d.need)
      BY <1>2, <1>4, <1>6, <2>2, WiderCircleDrafts
    <3> QED
      BY <1>2, <3>1
  <2> QED
    BY <2>1, <2>2
<1> QED
  BY <1>5, <1>6


LEMMA NewDraftsAreFinite ==
  ASSUME NEW r \in Room, NEW os
  PROVE  IsFiniteSet(NewDrafts(r, os))
<1> DEFINE D == NewDrafts(r, os)
           f == [d \in D |-> d.need]
<1>1. /\ \A d \in D : d.need \in 0..NeedLimit
      /\ \A d, e \in D : d.need = e.need => d = e
  <2>1. \A d \in D : d \in Drafts(r)
    BY DEF NewDrafts
  <2>2. \A d \in D : d.need \in {0} \cup 1..NeedLimit
    BY <2>1, OneDraftEach DEF IsDraft, Adjustment, NeedIds
  <2> QED
    BY <2>1, <2>2, OneDraftEach, Bounds
<1> HIDE DEF D
<1>2. f \in Injection(D, 0..NeedLimit)
  BY <1>1 DEF Injection, IsInjective
<1>3. IsFiniteSet(0..NeedLimit)
  BY Bounds, FS_Interval
<1>4. IsFiniteSet(D)
  BY <1>2, <1>3, FS_Injection
<1> QED
  BY <1>4 DEF D

LEMMA ListsOnce ==
  ASSUME NEW S, IsFiniteSet(S)
  PROVE  /\ SetToSeq(S) \in Seq(S)
         /\ \A i, j \in DOMAIN SetToSeq(S) : SetToSeq(S)[i] = SetToSeq(S)[j] => i = j
<1>1. Cardinality(S) \in Nat /\ ExistsBijection(1..Cardinality(S), S)
  BY FS_CardinalityType
<1>2. \E f \in [1..Cardinality(S) -> S] : IsInjective(f)
  BY <1>1 DEF ExistsBijection, Bijection, Injection
<1>3. SetToSeq(S) \in [1..Cardinality(S) -> S] /\ IsInjective(SetToSeq(S))
  BY <1>2 DEF SetToSeq
<1>4. SetToSeq(S) \in Seq(S)
  BY <1>1, <1>3
<1> QED
  BY <1>3, <1>4 DEF IsInjective

-----------------------------------------------------------------------------
(* What is said of the offers, of any room and any table of them.            *)

Typed(os) ==
    /\ os \in Seq(Adjustment)
    /\ \A i \in DOMAIN os : /\ os[i].kind = "scope" <=> os[i].need = 0
                            /\ os[i].kind = "scope" => os[i].to \in 1..RadiusMax

OneOpen(os) ==
    \A i, j \in DOMAIN os :
        i # j /\ Key(os[i]) = Key(os[j]) /\ os[i].status \in Open
        => os[j].status \notin Open \cup {"denied"}

NoneAside(r, os) ==
    \A i \in DOMAIN os :
        (os[i].status \in Open /\ os[i].need # 0 /\ r.needs[os[i].need].step = r.step)
        => r.needs[os[i].need].active

NoneOpen(os) == \A i \in DOMAIN os : os[i].status \notin Open

(* Nothing settled in os is otherwise in ts.                                 *)
Stands(os, ts) ==
    \A i \in DOMAIN os : /\ i \in DOMAIN ts
                         /\ os[i].status \notin Open => ts[i] = os[i]

(* The same offers, some of the open ones expired.                           *)
Lapsed(os, ts) ==
    /\ DOMAIN ts = DOMAIN os
    /\ \A i \in DOMAIN os : \/ ts[i] = os[i]
                            \/ /\ os[i].status \in Open
                               /\ ts[i] = [os[i] EXCEPT !.status = "expired"]

LEMMA ExpiredIsLapsed ==
  ASSUME NEW os \in Seq(Adjustment), NEW which, \A o \in which : o.status \in Open
  PROVE  /\ Expired(os, which) \in Seq(Adjustment)
         /\ Lapsed(os, Expired(os, which))
         /\ \A i \in DOMAIN os : os[i] \in which => Expired(os, which)[i].status = "expired"
<1> DEFINE expire(o) == IF o \in which THEN [o EXCEPT !.status = "expired"] ELSE o
           ts == Expired(os, which)
<1>1. Len(os) \in Nat /\ DOMAIN os = 1..Len(os) /\ \A i \in 1..Len(os) : os[i] \in Adjustment
  OBVIOUS
<1>2. \A o \in Adjustment : expire(o) \in Adjustment /\ (o \in which => expire(o).status = "expired")
  BY DEF Adjustment
<1>3. DOMAIN ts = 1..Len(os) /\ \A i \in 1..Len(os) : ts[i] = expire(os[i])
  BY <1>1 DEF Expired
<1>4. ts = [i \in 1..Len(os) |-> ts[i]]
  BY <1>1 DEF Expired
<1> HIDE DEF ts
<1>5. \A i \in 1..Len(os) : ts[i] \in Adjustment
  <2> HIDE DEF expire
  <2> QED
    BY <1>1, <1>2, <1>3
<1>6. ts \in [1..Len(os) -> Adjustment]
  BY <1>4, <1>5
<1>7. ts \in Seq(Adjustment)
  BY <1>1, <1>6
<1>8. Lapsed(os, ts)
  BY <1>1, <1>3 DEF Lapsed
<1>9. \A i \in DOMAIN os : os[i] \in which => ts[i].status = "expired"
  <2> HIDE DEF expire
  <2> QED
    BY <1>1, <1>2, <1>3
<1> QED
  BY <1>7, <1>8, <1>9 DEF ts

LEMMA SupersededIsLapsed ==
  ASSUME NEW os \in Seq(Adjustment), NEW r
  PROVE  Superseded(r, os) \in Seq(Adjustment) /\ Lapsed(os, Superseded(r, os))
<1> DEFINE gone(o) == o.status = "proposed" /\ \A d \in Drafts(r) : Key(d) # Key(o)
           expire(o) == IF gone(o) THEN [o EXCEPT !.status = "expired"] ELSE o
           ts == Superseded(r, os)
<1>1. Len(os) \in Nat /\ DOMAIN os = 1..Len(os) /\ \A i \in 1..Len(os) : os[i] \in Adjustment
  OBVIOUS
<1>2. \A o \in Adjustment : expire(o) \in Adjustment
  BY DEF Adjustment
<1>3. /\ DOMAIN ts = 1..Len(os) /\ \A i \in 1..Len(os) : ts[i] = expire(os[i])
      /\ ts = [i \in 1..Len(os) |-> ts[i]]
  BY <1>1 DEF Superseded
<1> HIDE DEF ts
<1>4. \A i \in 1..Len(os) : ts[i] \in Adjustment
  <2> HIDE DEF expire
  <2> QED
    BY <1>1, <1>2, <1>3
<1>5. ts \in [1..Len(os) -> Adjustment]
  BY <1>3, <1>4
<1>6. ts \in Seq(Adjustment)
  BY <1>1, <1>5
<1>7. Lapsed(os, ts)
  <2> SUFFICES ASSUME NEW i \in DOMAIN os, ts[i] # os[i]
               PROVE  os[i].status \in Open /\ ts[i] = [os[i] EXCEPT !.status = "expired"]
    BY <1>1, <1>3 DEF Lapsed
  <2>1. gone(os[i]) /\ ts[i] = [os[i] EXCEPT !.status = "expired"]
    BY <1>1, <1>3
  <2> QED
    BY <2>1 DEF Open
<1> QED
  BY <1>6, <1>7 DEF ts

(* An expired offer is the one it was but for its status.                    *)
LEMMA LapsedFields ==
  ASSUME NEW os \in Seq(Adjustment), NEW ts, Lapsed(os, ts), NEW i \in DOMAIN os
  PROVE  /\ ts[i].kind = os[i].kind /\ ts[i].need = os[i].need /\ ts[i].to = os[i].to
         /\ Key(ts[i]) = Key(os[i])
         /\ ts[i].status = os[i].status \/ ts[i].status = "expired"
<1>1. os[i] \in Adjustment
  OBVIOUS
<1>2. ts[i] = os[i] \/ ts[i] = [os[i] EXCEPT !.status = "expired"]
  BY DEF Lapsed
<1> QED
  BY <1>1, <1>2 DEF Adjustment, Key

LEMMA LapsedKeeps ==
  ASSUME NEW os, NEW ts \in Seq(Adjustment), Typed(os), Lapsed(os, ts)
  PROVE  /\ Typed(ts)
         /\ OneOpen(os) => OneOpen(ts)
         /\ \A r : NoneAside(r, os) => NoneAside(r, ts)
         /\ NoneOpen(os) => NoneOpen(ts)
         /\ Stands(os, ts)
<1>1. os \in Seq(Adjustment) /\ DOMAIN ts = DOMAIN os
  BY DEF Typed, Lapsed
<1>2. \A i \in DOMAIN os :
         /\ ts[i].kind = os[i].kind /\ ts[i].need = os[i].need /\ ts[i].to = os[i].to
         /\ Key(ts[i]) = Key(os[i])
         /\ ts[i].status = os[i].status \/ ts[i].status = "expired"
  BY <1>1, LapsedFields
<1>3. "expired" \notin Open \cup {"denied"}
  BY DEF Open
<1>4. Typed(ts)
  BY <1>1, <1>2 DEF Typed
<1>5. ASSUME OneOpen(os)
      PROVE  OneOpen(ts)
  BY <1>1, <1>2, <1>3, <1>5 DEF OneOpen
<1>6. ASSUME NEW r, NoneAside(r, os)
      PROVE  NoneAside(r, ts)
  BY <1>1, <1>2, <1>3, <1>6 DEF NoneAside
<1>7. NoneOpen(os) => NoneOpen(ts)
  BY <1>1, <1>2, <1>3 DEF NoneOpen
<1>8. Stands(os, ts)
  BY <1>1 DEF Stands, Lapsed
<1> QED
  BY <1>4, <1>5, <1>6, <1>7, <1>8


LEMMA StandsIsTransitive ==
  ASSUME NEW os, NEW ps, NEW ts, Stands(os, ps), Stands(ps, ts)
  PROVE  Stands(os, ts)
  BY DEF Stands

(* An impasse adds its drafts to what is left of the offers.                 *)
LEMMA RenegotiatedKeeps ==
  ASSUME NEW r \in Room, NEW os, Typed(os), OneOpen(os), NoneAside(r, os)
  PROVE  /\ Typed(Renegotiated(r, os))
         /\ OneOpen(Renegotiated(r, os))
         /\ NoneAside(r, Renegotiated(r, os))
         /\ Stands(os, Renegotiated(r, os))
<1> DEFINE ts  == Superseded(r, os)
           D   == NewDrafts(r, os)
           new == SetToSeq(D)
           all == ts \o new
<1>1. os \in Seq(Adjustment)
  BY DEF Typed
<1>2. ts \in Seq(Adjustment) /\ Lapsed(os, ts)
  BY <1>1, SupersededIsLapsed
<1>3. Typed(ts) /\ OneOpen(ts) /\ NoneAside(r, ts) /\ Stands(os, ts)
  BY <1>2, LapsedKeeps
<1>4. new \in Seq(D) /\ \A i, j \in DOMAIN new : new[i] = new[j] => i = j
  BY NewDraftsAreFinite, ListsOnce
<1>5. \A d \in D : d \in Drafts(r) /\ \A i \in DOMAIN os :
          os[i].status \in Open \cup {"denied"} => Key(os[i]) # Key(d)
  BY <1>1 DEF NewDrafts, Suppressing, InSeq
<1>6. /\ \A d \in D : IsDraft(r, d)
      /\ \A d, e \in D : d.need = e.need => d = e
  BY <1>5, OneDraftEach
<1> HIDE DEF D
<1>7. D \subseteq Adjustment
  BY <1>6 DEF IsDraft
<1> HIDE DEF ts, new
<1>8. /\ Len(ts) \in Nat /\ Len(new) \in Nat
      /\ DOMAIN ts = 1..Len(ts) /\ DOMAIN new = 1..Len(new)
      /\ \A i \in 1..Len(new) : new[i] \in D
  BY <1>2, <1>4
<1>9. new \in Seq(Adjustment)
  BY <1>4, <1>7
<1>10. all \in Seq(Adjustment) /\ DOMAIN all = 1..(Len(ts) + Len(new))
  BY <1>2, <1>9
<1>11. \A i \in 1..Len(ts) : i \in DOMAIN all /\ all[i] = ts[i]
  BY <1>2, <1>8, <1>9, <1>10
<1>12. \A i \in DOMAIN all :
          \/ i \in 1..Len(ts) /\ all[i] = ts[i]
          \/ /\ i \notin 1..Len(ts) /\ i - Len(ts) \in 1..Len(new)
             /\ all[i] = new[i - Len(ts)] /\ all[i] \in D
  BY <1>2, <1>8, <1>9, <1>10
<1>13. \A i \in 1..Len(ts) : \A d \in D :
          Key(ts[i]) = Key(d) => ts[i].status \notin Open \cup {"denied"}
  <2> SUFFICES ASSUME NEW i \in 1..Len(ts), NEW d \in D, Key(ts[i]) = Key(d)
               PROVE  ts[i].status \notin Open \cup {"denied"}
    OBVIOUS
  <2>1. i \in DOMAIN os
    BY <1>2, <1>8 DEF Lapsed
  <2>2. Key(ts[i]) = Key(os[i]) /\ (ts[i].status = os[i].status \/ ts[i].status = "expired")
    BY <1>1, <1>2, <2>1, LapsedFields
  <2>3. os[i].status \notin Open \cup {"denied"}
    BY <1>5, <2>1, <2>2
  <2> QED
    BY <2>2, <2>3 DEF Open
<1> HIDE DEF all
<1>14. Typed(all)
  <2> SUFFICES ASSUME NEW i \in DOMAIN all
               PROVE  /\ all[i].kind = "scope" <=> all[i].need = 0
                      /\ all[i].kind = "scope" => all[i].to \in 1..RadiusMax
    BY <1>10 DEF Typed
  <2>1. CASE i \in 1..Len(ts) /\ all[i] = ts[i]
    BY <1>3, <1>8, <2>1 DEF Typed
  <2>2. CASE all[i] \in D
    BY <1>6, <2>2 DEF IsDraft
  <2> QED
    BY <1>12, <2>1, <2>2
<1>15. OneOpen(all)
  <2> SUFFICES ASSUME NEW i \in DOMAIN all, NEW j \in DOMAIN all,
                      i # j, Key(all[i]) = Key(all[j]), all[i].status \in Open
               PROVE  all[j].status \notin Open \cup {"denied"}
    BY DEF OneOpen
  <2>1. CASE i \in 1..Len(ts) /\ j \in 1..Len(ts)
    <3>1. all[i] = ts[i] /\ all[j] = ts[j]
      BY <1>11, <2>1
    <3> QED
      BY <1>3, <1>8, <2>1, <3>1 DEF OneOpen
  <2>2. CASE i \in 1..Len(ts) /\ j \notin 1..Len(ts)
    BY <1>12, <1>13, <2>2
  <2>3. CASE i \notin 1..Len(ts) /\ j \in 1..Len(ts)
    BY <1>12, <1>13, <2>3
  <2>4. CASE i \notin 1..Len(ts) /\ j \notin 1..Len(ts)
    <3>1. /\ i - Len(ts) \in 1..Len(new) /\ all[i] = new[i - Len(ts)] /\ all[i] \in D
          /\ j - Len(ts) \in 1..Len(new) /\ all[j] = new[j - Len(ts)] /\ all[j] \in D
      BY <1>12, <2>4
    <3>2. all[i].need = all[j].need
      BY DEF Key
    <3>3. new[i - Len(ts)] = new[j - Len(ts)]
      BY <1>6, <3>1, <3>2
    <3>4. i - Len(ts) = j - Len(ts)
      BY <1>4, <1>8, <3>1, <3>3
    <3>5. i \in Int /\ j \in Int
      BY <1>8, <1>10
    <3> QED
      BY <1>8, <3>4, <3>5
  <2> QED
    BY <2>1, <2>2, <2>3, <2>4
<1>16. NoneAside(r, all)
  <2> SUFFICES ASSUME NEW i \in DOMAIN all, all[i].status \in Open, all[i].need # 0,
                      r.needs[all[i].need].step = r.step
               PROVE  r.needs[all[i].need].active
    BY DEF NoneAside
  <2>1. CASE i \in 1..Len(ts) /\ all[i] = ts[i]
    BY <1>3, <1>8, <2>1 DEF NoneAside
  <2>2. CASE all[i] \in D
    <3>1. all[i].need \in InForce(r)
      BY <1>6, <2>2, ConflictSetIsIrreducible DEF IsDraft
    <3> QED
      BY <3>1 DEF InForce
  <2> QED
    BY <1>12, <2>1, <2>2
<1>17. Stands(os, all)
  <2>1. Stands(ts, all)
    BY <1>8, <1>11 DEF Stands
  <2> QED
    BY <1>3, <2>1, StandsIsTransitive
<1> QED
  BY <1>14, <1>15, <1>16, <1>17 DEF Renegotiated, all, ts, new, D

-----------------------------------------------------------------------------
(* A need nobody has stated yet is not set aside.                            *)
Unset(r) == \A n \in NeedIds : r.needs[n].step = 0 => r.needs[n].active

(* What a room and its offers are, whatever the command.                     *)
Sound(r, os) ==
    /\ r \in Room
    /\ \A n \in NeedIds : r.needs[n].step <= r.step
    /\ Unset(r)
    /\ Typed(os) /\ OneOpen(os) /\ NoneAside(r, os)

IInv ==
    /\ TypeOK
    /\ Unset(room)
    /\ OneOpenOffer
    /\ OpenMeansImpasse
    /\ NothingOpenOnSetAside

LEMMA IInvIsSound == IInv <=> /\ phase \in Negotiating \cup {"decided"} /\ impasse \in BOOLEAN
                              /\ Len(offers) <= OfferLimit
                              /\ Sound(room, offers)
                              /\ (impasse \/ NoneOpen(offers))
<1>1. TypeOK <=> /\ phase \in Negotiating \cup {"decided"} /\ impasse \in BOOLEAN
                 /\ Len(offers) <= OfferLimit
                 /\ room \in Room /\ \A n \in NeedIds : room.needs[n].step <= room.step
                 /\ Typed(offers)
  BY DEF TypeOK, Typed
<1>2. OneOpenOffer <=> OneOpen(offers)
  BY DEF OneOpenOffer, OneOpen
<1>3. NothingOpenOnSetAside <=> NoneAside(room, offers)
  BY DEF NothingOpenOnSetAside, NoneAside
<1>4. OpenMeansImpasse <=> (impasse \/ NoneOpen(offers))
  BY DEF OpenMeansImpasse, NoneOpen
<1> QED
  BY <1>1, <1>2, <1>3, <1>4 DEF IInv, Sound

(* The bracket keeps what a command leaves in order.                         *)
LEMMA BracketKeeps ==
  ASSUME NEW r, NEW os, NEW ph \in Negotiating \cup {"decided"},
         impasse \in BOOLEAN, Sound(r, os), impasse \/ NoneOpen(os), Bracket(r, os, ph)
  PROVE  IInv' /\ Stands(os, offers')
<1>1. /\ room' = r /\ Len(offers') <= OfferLimit
      /\ phase' = IF ~ impasse /\ impasse' /\ ph = "gathering" THEN "deliberation" ELSE ph
  BY DEF Bracket
<1>2. phase' \in Negotiating \cup {"decided"}
  BY <1>1 DEF Negotiating
<1>3. os \in Seq(Adjustment) /\ Stands(os, os) /\ r \in Room
  BY DEF Sound, Typed, Stands
<1>4. ASSUME impasse' \in BOOLEAN, Sound(r, offers'), impasse' \/ NoneOpen(offers'),
             Stands(os, offers')
      PROVE  IInv' /\ Stands(os, offers')
  <2>1. (IInv <=> /\ phase \in Negotiating \cup {"decided"} /\ impasse \in BOOLEAN
                  /\ Len(offers) <= OfferLimit
                  /\ Sound(room, offers)
                  /\ (impasse \/ NoneOpen(offers)))'
    BY IInvIsSound, PTL
  <2> QED
    BY <1>1, <1>2, <1>4, <2>1
<1>5. CASE offers' = os /\ impasse' = impasse
  BY <1>3, <1>4, <1>5
<1>6. CASE /\ impasse' = FALSE
           /\ offers' = IF impasse THEN Expired(os, {o \in InSeq(os) : Expirable(o)}) ELSE os
  <2>1. CASE ~impasse
    BY <1>3, <1>4, <1>6, <2>1
  <2>2. CASE impasse
    <3> DEFINE which == {o \in InSeq(os) : Expirable(o)}
               ts == Expired(os, which)
    <3>1. \A o \in which : o.status \in Open
      BY DEF Expirable
    <3>2. \A i \in DOMAIN os : os[i].status \in Open => os[i] \in which
      BY DEF Expirable, InSeq
    <3> HIDE DEF which
    <3>3. /\ ts \in Seq(Adjustment) /\ Lapsed(os, ts)
          /\ \A i \in DOMAIN os : os[i] \in which => ts[i].status = "expired"
      BY <1>3, <3>1, ExpiredIsLapsed
    <3>4. offers' = ts
      BY <1>6, <2>2 DEF which
    <3> HIDE DEF ts
    <3>5. Typed(ts) /\ OneOpen(ts) /\ NoneAside(r, ts) /\ Stands(os, ts)
      BY <3>3, LapsedKeeps DEF Sound
    <3>6. NoneOpen(ts)
      <4>1. \A i \in DOMAIN os : ts[i].status \notin Open
        BY <1>3, <3>2, <3>3, LapsedFields DEF Open
      <4> QED
        BY <3>3, <4>1 DEF NoneOpen, Lapsed
    <3>7. Sound(r, ts)
      BY <3>5 DEF Sound
    <3> QED
      BY <1>4, <1>6, <3>4, <3>5, <3>6, <3>7
  <2> QED
    BY <2>1, <2>2
<1>7. CASE impasse' = TRUE /\ offers' = Renegotiated(r, os)
  <2>1. /\ Typed(offers') /\ OneOpen(offers') /\ NoneAside(r, offers') /\ Stands(os, offers')
    BY <1>3, <1>7, RenegotiatedKeeps DEF Sound
  <2>2. Sound(r, offers')
    BY <2>1 DEF Sound
  <2> QED
    BY <1>4, <1>7, <2>1, <2>2
<1>8. \/ offers' = os /\ impasse' = impasse
      \/ /\ impasse' = FALSE
         /\ offers' = IF impasse THEN Expired(os, {o \in InSeq(os) : Expirable(o)}) ELSE os
      \/ impasse' = TRUE /\ offers' = Renegotiated(r, os)
  BY DEF Bracket
<1> QED
  BY <1>5, <1>6, <1>7, <1>8


-----------------------------------------------------------------------------
(* What the commands do to the room.                                         *)

Verdict == [People -> [Candidates -> Verdicts]]

LEMMA OfferFields ==
  ASSUME NEW os \in Seq(Adjustment), NEW i \in DOMAIN os
  PROVE  /\ os[i] \in Adjustment /\ os[i].need \in {0} \cup NeedIds
         /\ os[i].kind \in {"scope", "budget", "exclusion"} /\ os[i].to \in Nat
<1>1. os[i] \in Adjustment
  OBVIOUS
<1> QED
  BY <1>1 DEF Adjustment

(* Whatever leaves the needs and the step alone.                             *)
LEMMA NeedsAsTheyWere ==
  ASSUME NEW r \in Room, NEW os, Sound(room, os), r.needs = room.needs, r.step = room.step
  PROVE  Sound(r, os)
  BY DEF Sound, Unset, NoneAside

(* A need is stated, updated, relaxed or withdrawn, or taken up again.       *)
LEMMA NeedChanged ==
  ASSUME NEW r \in Room, NEW os, Sound(room, os), r.step = room.step,
         NEW n \in NeedIds, NEW m \in Need,
         r.needs = [room.needs EXCEPT ![n] = m],
         m.step <= room.step, m.step = 0 => m.active,
         m.active \/ (m.active = room.needs[n].active /\ m.step = room.needs[n].step)
  PROVE  Sound(r, os)
<1>1. /\ r.needs[n] = m
      /\ \A k \in NeedIds : k # n => r.needs[k] = room.needs[k]
  BY DEF Sound, Room
<1>2. \A k \in NeedIds : r.needs[k].step <= r.step
  BY <1>1 DEF Sound
<1>3. Unset(r)
  BY <1>1 DEF Sound, Unset
<1>4. \A k \in NeedIds :
         /\ r.needs[k].step = r.step
         /\ room.needs[k].step = room.step => room.needs[k].active
         => r.needs[k].active
  BY <1>1
<1>5. NoneAside(r, os)
  <2> SUFFICES ASSUME NEW i \in DOMAIN os, os[i].status \in Open, os[i].need # 0,
                      r.needs[os[i].need].step = r.step
               PROVE  r.needs[os[i].need].active
    BY DEF NoneAside
  <2>1. os[i].need \in NeedIds
    BY OfferFields DEF Sound, Typed
  <2>2. room.needs[os[i].need].step = room.step => room.needs[os[i].need].active
    BY DEF Sound, NoneAside
  <2> QED
    BY <1>4, <2>1, <2>2
<1> QED
  BY <1>2, <1>3, <1>5 DEF Sound

LEMMA VerdictSet ==
  ASSUME NEW v \in Verdict, room \in Room
  PROVE  LET r == [room EXCEPT !.verdict = v]
         IN  r \in Room /\ r.needs = room.needs /\ r.step = room.step
  BY DEF Room, Verdict

LEMMA SubmitIsSound ==
  ASSUME IInv, NEW n \in NeedIds, NEW says \in Statements, SubmitRequirement(n, says)
  PROVE  \E r : Sound(r, offers) /\ Command(r, offers)
<1> DEFINE old == room.needs[n]
           step == IF old.step = 0 THEN Stamped ELSE old.step
           stated == [old EXCEPT !.says = says, !.withdrawn = FALSE, !.step = step]
           verdicts == IF says.kind = "private"
                       THEN [room.verdict EXCEPT ![Owner[n]] = [c \in Candidates |-> "none"]]
                       ELSE room.verdict
           r == [room EXCEPT !.needs[n] = stated, !.verdict = verdicts]
<1>1. Sound(room, offers) /\ room \in Room /\ old \in Need /\ says \in Statement
  BY IInvIsSound, RecoveryAssumption DEF Sound, Room
<1>2. /\ room.step \in 1..Steps /\ old.step \in 0..Steps
      /\ old.step <= room.step /\ (old.step = 0 => old.active)
  BY <1>1 DEF Sound, Unset, Room, Need
<1>3. step \in 0..Steps /\ step <= room.step /\ step # 0
  BY <1>2, Bounds DEF Stamped
<1>4. verdicts \in Verdict
  BY <1>1 DEF Room, Verdict, Verdicts
<1>5. Command(r, offers)
  BY DEF SubmitRequirement
<1> HIDE DEF step, verdicts
<1>6. /\ stated \in Need /\ stated.step = step /\ stated.active = old.active
  BY <1>1, <1>3 DEF Need
<1>7. old.step # 0 => step = old.step
  BY DEF step
<1>8. stated.active \/ (stated.active = old.active /\ stated.step = old.step)
  BY <1>2, <1>6, <1>7 DEF Need
<1> HIDE DEF stated, old
<1>9. /\ r \in Room /\ r.step = room.step /\ r.needs = [room.needs EXCEPT ![n] = stated]
  BY <1>1, <1>4, <1>6 DEF Room, Verdict
<1> HIDE DEF r
<1>10. Sound(r, offers)
  BY <1>1, <1>3, <1>6, <1>8, <1>9, NeedChanged DEF old
<1> QED
  BY <1>5, <1>10

LEMMA WithdrawIsSound ==
  ASSUME IInv, NEW n \in NeedIds, NEW os, Sound(room, os)
  PROVE  Sound([room EXCEPT !.needs[n].withdrawn = TRUE], os)
<1> DEFINE old == room.needs[n]
           m == [old EXCEPT !.withdrawn = TRUE]
           r == [room EXCEPT !.needs[n].withdrawn = TRUE]
<1>1. room \in Room /\ old \in Need
  BY DEF Sound, Room
<1>2. m \in Need /\ m.step = old.step /\ m.active = old.active
  BY <1>1 DEF Need
<1>3. m.step <= room.step /\ (m.step = 0 => m.active)
  BY <1>2 DEF Sound, Unset
<1>4. r \in Room /\ r.step = room.step /\ r.needs = [room.needs EXCEPT ![n] = m]
  BY <1>1, <1>2 DEF Room
<1> HIDE DEF r, m
<1>5. Sound(r, os)
  BY <1>2, <1>3, <1>4, NeedChanged
<1> QED
  BY <1>5 DEF r

LEMMA BudgetIsSound ==
  ASSUME IInv, NEW n \in NeedIds, NEW to \in Nat, NEW os, Sound(room, os)
  PROVE  Sound([room EXCEPT !.needs[n].says.arg = to], os)
<1> DEFINE old == room.needs[n]
           m == [old EXCEPT !.says.arg = to]
           r == [room EXCEPT !.needs[n].says.arg = to]
<1>1. room \in Room /\ old \in Need
  BY DEF Sound, Room
<1>2. m \in Need /\ m.step = old.step /\ m.active = old.active
  BY <1>1 DEF Need, Statement
<1>3. m.step <= room.step /\ (m.step = 0 => m.active)
  BY <1>2 DEF Sound, Unset
<1>4. r \in Room /\ r.step = room.step /\ r.needs = [room.needs EXCEPT ![n] = m]
  BY <1>1, <1>2 DEF Room
<1> HIDE DEF r, m
<1>5. Sound(r, os)
  BY <1>2, <1>3, <1>4, NeedChanged
<1> QED
  BY <1>5 DEF r

(* A need taken up, or set aside with the offers to relax it.                *)
LEMMA SetActiveKeeps ==
  ASSUME IInv, NEW n \in NeedIds, NEW active \in BOOLEAN, SetRequirementActive(n, active)
  PROVE  \E r, os : /\ Sound(r, os) /\ (impasse \/ NoneOpen(os)) /\ Stands(offers, os)
                    /\ Command(r, os)
<1> DEFINE old == room.needs[n]
           m == [old EXCEPT !.active = active]
           r == [room EXCEPT !.needs[n].active = active]
<1>0. Sound(room, offers) /\ (impasse \/ NoneOpen(offers)) /\ Stands(offers, offers)
  BY IInvIsSound DEF Stands
<1>1. room \in Room /\ old \in Need
  BY <1>0 DEF Sound, Room
<1>2. m \in Need /\ m.step = old.step /\ m.active = active
  BY <1>1 DEF Need
<1>3. m.step <= room.step /\ old.step # 0 /\ room.step \in 1..Steps
  BY <1>0, <1>1, <1>2 DEF Sound, SetRequirementActive, Room
<1>4. /\ r \in Room /\ r.step = room.step /\ r.verdict = room.verdict
      /\ r.needs = [room.needs EXCEPT ![n] = m]
  BY <1>1, <1>2 DEF Room
<1>5. Command(r, IF active THEN offers ELSE Silenced(n, offers))
  BY DEF SetRequirementActive
<1> HIDE DEF r, m
<1>6. CASE active
  <2>1. Sound(r, offers)
    BY <1>0, <1>2, <1>3, <1>4, <1>6, NeedChanged
  <2> QED
    BY <1>0, <1>5, <1>6, <2>1
<1>7. CASE ~active
  <2> DEFINE which == {o \in InSeq(offers) : o.need = n /\ o.status \in Open}
             ts == Expired(offers, which)
  <2>1. offers \in Seq(Adjustment) /\ Typed(offers) /\ OneOpen(offers) /\ NoneAside(room, offers)
    BY <1>0 DEF Sound, Typed
  <2>2. \A o \in which : o.status \in Open
    OBVIOUS
  <2>3. \A i \in DOMAIN offers : offers[i].need = n /\ offers[i].status \in Open
            => offers[i] \in which
    BY DEF InSeq
  <2> HIDE DEF which
  <2>4. /\ ts \in Seq(Adjustment) /\ Lapsed(offers, ts)
        /\ \A i \in DOMAIN offers : offers[i] \in which => ts[i].status = "expired"
    BY <2>1, <2>2, ExpiredIsLapsed
  <2>5. Command(r, ts)
    BY <1>5, <1>7 DEF Silenced, which
  <2> HIDE DEF ts
  <2>6. /\ Typed(ts) /\ OneOpen(ts) /\ NoneAside(room, ts) /\ Stands(offers, ts)
        /\ (NoneOpen(offers) => NoneOpen(ts))
    BY <2>1, <2>4, LapsedKeeps
  <2>7. /\ r.needs[n] = m
        /\ \A k \in NeedIds : k # n => r.needs[k] = room.needs[k]
    BY <1>1, <1>4 DEF Room
  <2>8. NoneAside(r, ts)
    <3> SUFFICES ASSUME NEW i \in DOMAIN ts, ts[i].status \in Open, ts[i].need # 0,
                        r.needs[ts[i].need].step = r.step
                 PROVE  r.needs[ts[i].need].active
      BY DEF NoneAside
    <3>1. i \in DOMAIN offers
      BY <2>4 DEF Lapsed
    <3>2. ts[i].need = offers[i].need /\ (ts[i].status = offers[i].status \/ ts[i].status = "expired")
      BY <2>1, <2>4, <3>1, LapsedFields
    <3>3. ts[i].need # n
      BY <2>3, <2>4, <3>1, <3>2 DEF Open
    <3>4. ts[i].need \in NeedIds
      BY <2>4, OfferFields
    <3>5. r.needs[ts[i].need] = room.needs[ts[i].need]
      BY <2>7, <3>3, <3>4
    <3> QED
      BY <1>4, <2>6, <3>5 DEF NoneAside
  <2>9. \A k \in NeedIds : r.needs[k].step <= r.step
    BY <1>0, <1>3, <1>4, <2>7 DEF Sound
  <2>10. Unset(r)
    BY <1>0, <1>2, <1>3, <2>7 DEF Sound, Unset
  <2>11. Sound(r, ts)
    BY <1>4, <2>6, <2>8, <2>9, <2>10 DEF Sound
  <2> QED
    BY <1>0, <2>5, <2>6, <2>11
<1> QED
  BY <1>6, <1>7


(* An open offer marked with what became of it.                              *)
LEMMA MarkedKeeps ==
  ASSUME IInv, NEW i \in DOMAIN offers, offers[i].status \in Open,
         NEW status \in {"staged_grant", "granted", "denied"}
  PROVE  /\ Sound(room, Marked(i, status)) /\ impasse
         /\ Stands(offers, Marked(i, status))
<1> DEFINE os == Marked(i, status)
<1>1. Sound(room, offers) /\ (impasse \/ NoneOpen(offers))
  BY IInvIsSound
<1>2. offers \in Seq(Adjustment) /\ Typed(offers) /\ OneOpen(offers) /\ NoneAside(room, offers)
  BY <1>1 DEF Sound, Typed
<1>3. impasse
  BY <1>1 DEF NoneOpen
<1> DEFINE marked == [offers[i] EXCEPT !.status = status]
<1>4. offers[i] \in Adjustment
  BY <1>2
<1>5. /\ marked \in Adjustment /\ marked.kind = offers[i].kind /\ marked.need = offers[i].need
      /\ marked.to = offers[i].to /\ marked.status = status /\ Key(marked) = Key(offers[i])
  BY <1>4 DEF Adjustment, Open, Key
<1>6. os = [offers EXCEPT ![i] = marked]
  BY DEF Marked
<1> HIDE DEF marked, os
<1>7. /\ os \in Seq(Adjustment) /\ DOMAIN os = DOMAIN offers /\ os[i] = marked
      /\ \A j \in DOMAIN offers : j # i => os[j] = offers[j]
  BY <1>2, <1>5, <1>6
<1>8. Typed(os)
  BY <1>2, <1>5, <1>7 DEF Typed
<1>9. OneOpen(os)
  <2> SUFFICES ASSUME NEW j \in DOMAIN os, NEW k \in DOMAIN os, j # k, Key(os[j]) = Key(os[k]),
                      os[j].status \in Open
               PROVE  os[k].status \notin Open \cup {"denied"}
    BY DEF OneOpen
  <2>1. Key(offers[j]) = Key(offers[k])
    BY <1>5, <1>7
  <2>2. CASE k = i
    <3>1. offers[j].status \in Open
      BY <1>7, <2>2
    <3> QED
      BY <1>2, <1>7, <2>1, <2>2, <3>1 DEF OneOpen
  <2>3. CASE k # i
    <3>1. offers[j].status \in Open
      BY <1>7
    <3>2. offers[k].status \notin Open \cup {"denied"}
      BY <1>2, <1>7, <2>1, <3>1 DEF OneOpen
    <3> QED
      BY <1>7, <2>3, <3>2
  <2> QED
    BY <2>2, <2>3
<1>10. NoneAside(room, os)
  <2> SUFFICES ASSUME NEW j \in DOMAIN os, os[j].status \in Open, os[j].need # 0,
                      room.needs[os[j].need].step = room.step
               PROVE  room.needs[os[j].need].active
    BY DEF NoneAside
  <2>1. offers[j].status \in Open /\ offers[j].need = os[j].need
    BY <1>5, <1>7
  <2> QED
    BY <1>2, <1>7, <2>1 DEF NoneAside
<1>11. Stands(offers, os)
  BY <1>7 DEF Stands
<1> QED
  BY <1>1, <1>3, <1>8, <1>9, <1>10, <1>11 DEF Sound, os

(* An offer granted changes the room as it says.                             *)
LEMMA GrantKeeps ==
  ASSUME IInv, NEW i \in DOMAIN offers, offers[i].status \in Open, ApplyAdjustment(i)
  PROVE  \E r, os : /\ Sound(r, os) /\ impasse /\ Stands(offers, os) /\ Command(r, os)
<1> DEFINE os == Marked(i, "granted")
<1>1. Sound(room, os) /\ impasse /\ Stands(offers, os)
  BY MarkedKeeps
<1>2. Command(Granted(i), os)
  BY DEF ApplyAdjustment
<1>3. Typed(offers) /\ room \in Room
  BY IInvIsSound DEF Sound
<1>4. /\ offers[i].need \in {0} \cup NeedIds /\ offers[i].to \in Nat
      /\ offers[i].kind \in {"scope", "budget", "exclusion"}
      /\ offers[i].kind = "scope" <=> offers[i].need = 0
      /\ offers[i].kind = "scope" => offers[i].to \in 1..RadiusMax
  BY <1>3, OfferFields DEF Typed
<1> HIDE DEF os
<1>5. CASE offers[i].kind = "scope"
  <2> DEFINE r == [room EXCEPT !.radius = offers[i].to]
  <2>1. r \in Room /\ r.needs = room.needs /\ r.step = room.step
    BY <1>3, <1>4, <1>5 DEF Room
  <2>2. Granted(i) = r
    BY <1>5 DEF Granted
  <2> HIDE DEF r
  <2>3. Sound(r, os)
    BY <1>1, <2>1, NeedsAsTheyWere
  <2> QED
    BY <1>1, <1>2, <2>2, <2>3
<1>6. CASE offers[i].kind = "budget"
  <2>1. Granted(i) = [room EXCEPT !.needs[offers[i].need].says.arg = offers[i].to]
    BY <1>6 DEF Granted
  <2>2. offers[i].need \in NeedIds
    BY <1>4, <1>6
  <2>3. Sound(Granted(i), os)
    BY <1>1, <1>4, <2>1, <2>2, BudgetIsSound
  <2> QED
    BY <1>1, <1>2, <2>3
<1>7. CASE offers[i].kind = "exclusion"
  <2>1. Granted(i) = [room EXCEPT !.needs[offers[i].need].withdrawn = TRUE]
    BY <1>7 DEF Granted
  <2>2. offers[i].need \in NeedIds
    BY <1>4, <1>7
  <2>3. Sound(Granted(i), os)
    BY <1>1, <2>1, <2>2, WithdrawIsSound
  <2> QED
    BY <1>1, <1>2, <2>3
<1> QED
  BY <1>4, <1>5, <1>6, <1>7

(* The next step's room: nobody's need is of that step yet.                  *)
LEMMA AdvanceIsSound ==
  ASSUME IInv, NEW pool \in SUBSET Candidates, room.step < Steps
  PROVE  Sound([pool |-> pool, step |-> room.step + 1, radius |-> 1, verdict |-> Unscreened,
                needs |-> [n \in NeedIds |-> [room.needs[n] EXCEPT
                              !.active = @ /\ room.needs[n].step # room.step]]], offers)
<1> DEFINE act(n) == room.needs[n].active /\ room.needs[n].step # room.step
           behind == [n \in NeedIds |-> [room.needs[n] EXCEPT !.active = act(n)]]
           r == [pool |-> pool, step |-> room.step + 1, radius |-> 1, verdict |-> Unscreened,
                 needs |-> behind]
<1>1. Sound(room, offers) /\ room \in Room
  BY IInvIsSound DEF Sound
<1>2. /\ room.step \in Nat /\ room.step >= 1 /\ room.step + 1 \in 1..Steps
  BY <1>1, Bounds DEF Room
<1>3. \A n \in NeedIds :
         /\ room.needs[n] \in Need /\ room.needs[n].step \in Nat
         /\ room.needs[n].step <= room.step
         /\ room.needs[n].step = 0 => room.needs[n].active
  BY <1>1, Bounds DEF Sound, Unset, Room, Need
<1>4. \A n \in NeedIds :
         /\ behind[n] \in Need /\ behind[n].step = room.needs[n].step
         /\ behind[n].active = act(n)
  <2> SUFFICES ASSUME NEW n \in NeedIds
               PROVE  /\ behind[n] \in Need /\ behind[n].step = room.needs[n].step
                      /\ behind[n].active = act(n)
    OBVIOUS
  <2>1. act(n) \in BOOLEAN
    OBVIOUS
  <2>2. behind[n] = [room.needs[n] EXCEPT !.active = act(n)]
    OBVIOUS
  <2> HIDE DEF act, behind
  <2> QED
    BY <1>3, <2>1, <2>2 DEF Need
<1>5. \A n \in NeedIds : room.needs[n].step = 0 => act(n)
  BY <1>2, <1>3
<1>6. behind \in [NeedIds -> Need]
  BY <1>4
<1> HIDE DEF behind, act
<1>7. Unscreened \in Verdict
  BY DEF Unscreened, Verdict, Verdicts
<1>8. r \in Room /\ r.step = room.step + 1 /\ r.needs = behind
  BY <1>2, <1>6, <1>7, Bounds DEF Room, Verdict
<1> HIDE DEF r
<1>9. \A n \in NeedIds : r.needs[n].step <= r.step /\ r.needs[n].step # r.step
  BY <1>2, <1>3, <1>4, <1>8
<1>10. Unset(r)
  BY <1>4, <1>5, <1>8 DEF Unset
<1>11. NoneAside(r, offers)
  <2>1. \A i \in DOMAIN offers : offers[i].need # 0 => offers[i].need \in NeedIds
    BY <1>1, OfferFields DEF Sound, Typed
  <2> QED
    BY <1>9, <2>1 DEF NoneAside
<1>12. Sound(r, offers)
  BY <1>1, <1>8, <1>9, <1>10, <1>11 DEF Sound
<1> QED
  BY <1>12 DEF r, behind, act


-----------------------------------------------------------------------------
(* Every command brackets a sound room, with nothing settled undone.         *)
Brackets ==
    \E r, os : \E ph \in Negotiating \cup {"decided"} :
        /\ Sound(r, os) /\ (impasse \/ NoneOpen(os)) /\ Stands(offers, os)
        /\ Bracket(r, os, ph)

LEMMA CommandBrackets ==
  ASSUME NEW r, NEW os, Sound(r, os), impasse \/ NoneOpen(os), Stands(offers, os), Command(r, os)
  PROVE  Brackets
<1>1. phase \in Negotiating \cup {"decided"} /\ Bracket(r, os, phase)
  BY DEF Command
<1> QED
  BY <1>1 DEF Brackets

LEMMA NextBrackets ==
  ASSUME IInv, Next
  PROVE  Brackets \/ \E c \in Candidates : PoolFill(c)
<1>0. /\ Sound(room, offers) /\ (impasse \/ NoneOpen(offers)) /\ Stands(offers, offers)
      /\ phase \in Negotiating \cup {"decided"} /\ room \in Room
  BY IInvIsSound DEF Stands, Sound
<1>a. ASSUME NEW r \in Room, r.needs = room.needs, r.step = room.step, Command(r, offers)
      PROVE  Brackets
  <2>1. Sound(r, offers)
    BY <1>0, <1>a, NeedsAsTheyWere
  <2> QED
    BY <1>0, <1>a, <2>1, CommandBrackets
<1>1. ASSUME NEW n \in NeedIds, NEW s \in Statements, SubmitRequirement(n, s)
      PROVE  Brackets
  <2>1. PICK r : Sound(r, offers) /\ Command(r, offers)
    BY <1>1, SubmitIsSound
  <2> QED
    BY <1>0, <2>1, CommandBrackets
<1>2. ASSUME NEW n \in NeedIds, WithdrawRequirement(n)
      PROVE  Brackets
  <2>1. Command([room EXCEPT !.needs[n].withdrawn = TRUE], offers)
    BY <1>2 DEF WithdrawRequirement
  <2>2. Sound([room EXCEPT !.needs[n].withdrawn = TRUE], offers)
    BY <1>0, WithdrawIsSound
  <2> QED
    BY <1>0, <2>1, <2>2, CommandBrackets
<1>3. ASSUME NEW n \in NeedIds, NEW a \in BOOLEAN, SetRequirementActive(n, a)
      PROVE  Brackets
  <2>1. PICK r, os : /\ Sound(r, os) /\ (impasse \/ NoneOpen(os)) /\ Stands(offers, os)
                     /\ Command(r, os)
    BY <1>3, SetActiveKeeps
  <2> QED
    BY <2>1, CommandBrackets
<1>4. ASSUME NEW o \in People, NEW c \in Candidates, NEW v \in Verdicts, EvaluateCandidates(o, c, v)
      PROVE  Brackets
  <2> DEFINE r == [room EXCEPT !.verdict[o][c] = v]
  <2>1. r \in Room /\ r.needs = room.needs /\ r.step = room.step
    BY <1>0 DEF Room
  <2>2. Command(r, offers)
    BY <1>4 DEF EvaluateCandidates
  <2> HIDE DEF r
  <2> QED
    BY <1>a, <2>1, <2>2
<1>5. ASSUME NEW c \in Candidates, AttestAttribute(c)
      PROVE  Brackets
  <2> DEFINE verdict == [o \in People |-> [room.verdict[o] EXCEPT ![c] = "none"]]
             r == [room EXCEPT !.verdict = verdict]
  <2>1. verdict \in Verdict
    BY <1>0 DEF Room, Verdict, Verdicts
  <2>2. Command(r, offers)
    BY <1>5 DEF AttestAttribute
  <2> HIDE DEF verdict
  <2>3. r \in Room /\ r.needs = room.needs /\ r.step = room.step
    BY <1>0, <2>1 DEF Room, Verdict
  <2> HIDE DEF r
  <2> QED
    BY <1>a, <2>2, <2>3
<1>6. ASSUME NEW w \in 1..RadiusMax, SetSearchScope(w)
      PROVE  Brackets
  <2> DEFINE r == [room EXCEPT !.radius = w]
  <2>1. r \in Room /\ r.needs = room.needs /\ r.step = room.step
    BY <1>0 DEF Room
  <2>2. Command(r, offers)
    BY <1>6 DEF SetSearchScope
  <2> HIDE DEF r
  <2> QED
    BY <1>a, <2>1, <2>2
<1>7. ASSUME NEW c \in Candidates, AddCandidates(c)
      PROVE  Brackets
  <2> DEFINE pool == room.pool \cup {c}
             r == [room EXCEPT !.pool = pool]
  <2>1. pool \in SUBSET Candidates
    BY <1>0 DEF Room
  <2>2. Command(r, offers)
    BY <1>7 DEF AddCandidates
  <2> HIDE DEF pool
  <2>3. r \in Room /\ r.needs = room.needs /\ r.step = room.step
    BY <1>0, <2>1 DEF Room
  <2> HIDE DEF r
  <2> QED
    BY <1>a, <2>2, <2>3
<1>8. CASE ProposeDestination \/ OtherCommand
  <2>1. \E ph \in Negotiating \cup {"decided"} : Bracket(room, offers, ph)
    BY <1>0, <1>8 DEF ProposeDestination, OtherCommand, Negotiating
  <2> QED
    BY <1>0, <2>1 DEF Brackets
<1>9. ASSUME NEW i \in DOMAIN offers, Deny(i)
      PROVE  Brackets
  <2>1. offers[i].status \in Open /\ Command(room, Marked(i, "denied"))
    BY <1>9 DEF Deny
  <2>2. /\ Sound(room, Marked(i, "denied")) /\ impasse /\ Stands(offers, Marked(i, "denied"))
    BY <2>1, MarkedKeeps
  <2> QED
    BY <2>1, <2>2, CommandBrackets
<1>10. ASSUME NEW i \in DOMAIN offers, StageGrant(i)
       PROVE  Brackets
  <2>1. offers[i].status \in Open /\ Command(room, Marked(i, "staged_grant"))
    BY <1>10 DEF StageGrant
  <2>2. /\ Sound(room, Marked(i, "staged_grant")) /\ impasse
        /\ Stands(offers, Marked(i, "staged_grant"))
    BY <2>1, MarkedKeeps
  <2> QED
    BY <2>1, <2>2, CommandBrackets
<1>11. ASSUME NEW i \in DOMAIN offers, GrantWithinBound(i) \/ ConfirmPrivateRequest(i)
       PROVE  Brackets
  <2>1. offers[i].status \in Open /\ ApplyAdjustment(i)
    BY <1>11 DEF GrantWithinBound, ConfirmPrivateRequest, Open
  <2>2. PICK r, os : /\ Sound(r, os) /\ impasse /\ Stands(offers, os) /\ Command(r, os)
    BY <2>1, GrantKeeps
  <2> QED
    BY <2>2, CommandBrackets
<1>12. ASSUME NEW pool \in SUBSET Candidates, CommitAgreement(pool)
       PROVE  Brackets
  <2>1. CASE Bracket(room, offers, "decided")
    BY <1>0, <2>1 DEF Brackets
  <2>2. CASE ~Bracket(room, offers, "decided")
    <3> DEFINE r == [pool |-> pool, step |-> room.step + 1, radius |-> 1, verdict |-> Unscreened,
                     needs |-> [n \in NeedIds |-> [room.needs[n] EXCEPT
                                   !.active = @ /\ room.needs[n].step # room.step]]]
    <3>1. room.step < Steps /\ Bracket(r, offers, "gathering")
      BY <1>12, <2>2 DEF CommitAgreement
    <3>2. Sound(r, offers)
      BY <3>1, AdvanceIsSound
    <3>3. "gathering" \in Negotiating \cup {"decided"}
      BY DEF Negotiating
    <3> HIDE DEF r
    <3> QED
      BY <1>0, <3>1, <3>2, <3>3 DEF Brackets
  <2> QED
    BY <2>1, <2>2
<1> QED
  BY <1>1, <1>2, <1>3, <1>4, <1>5, <1>6, <1>7, <1>8, <1>9, <1>10, <1>11, <1>12 DEF Next

LEMMA PoolFillKeeps ==
  ASSUME IInv, NEW c \in Candidates, PoolFill(c)
  PROVE  IInv' /\ Stands(offers, offers')
<1> DEFINE pool == room.pool \cup {c}
<1>1. /\ Sound(room, offers) /\ (impasse \/ NoneOpen(offers)) /\ Stands(offers, offers)
      /\ phase \in Negotiating \cup {"decided"} /\ impasse \in BOOLEAN /\ room \in Room
      /\ Len(offers) <= OfferLimit
  BY IInvIsSound DEF Stands, Sound
<1>2. pool \in SUBSET Candidates
  BY <1>1 DEF Room
<1>3. room' = [room EXCEPT !.pool = pool] /\ UNCHANGED <<phase, impasse, offers>>
  BY DEF PoolFill
<1> HIDE DEF pool
<1>4. room' \in Room /\ room'.needs = room.needs /\ room'.step = room.step
  BY <1>1, <1>2, <1>3 DEF Room
<1>5. Sound(room', offers)
  BY <1>1, <1>4, NeedsAsTheyWere
<1>6. (IInv <=> /\ phase \in Negotiating \cup {"decided"} /\ impasse \in BOOLEAN
                /\ Len(offers) <= OfferLimit
                /\ Sound(room, offers)
                /\ (impasse \/ NoneOpen(offers)))'
  BY IInvIsSound, PTL
<1> QED
  BY <1>1, <1>3, <1>5, <1>6

LEMMA StepKeeps ==
  ASSUME IInv, [Next]_vars
  PROVE  IInv' /\ Stands(offers, offers')
<1>1. CASE Next
  <2>1. CASE Brackets
    <3>1. PICK r, os : \E ph \in Negotiating \cup {"decided"} :
              /\ Sound(r, os) /\ (impasse \/ NoneOpen(os)) /\ Stands(offers, os)
              /\ Bracket(r, os, ph)
      BY <2>1 DEF Brackets
    <3>2. impasse \in BOOLEAN
      BY IInvIsSound
    <3>3. IInv' /\ Stands(os, offers')
      BY <3>1, <3>2, BracketKeeps
    <3> QED
      BY <3>1, <3>3, StandsIsTransitive
  <2>2. ASSUME NEW c \in Candidates, PoolFill(c)
        PROVE  IInv' /\ Stands(offers, offers')
    BY <2>2, PoolFillKeeps
  <2> QED
    BY <1>1, <2>1, <2>2, NextBrackets
<1>2. CASE UNCHANGED vars
  <2>1. Stands(offers, offers')
    BY <1>2 DEF vars, Stands
  <2>2. IInv'
    BY <1>2 DEF vars, IInv, TypeOK, Unset, OneOpenOffer, OpenMeansImpasse, NothingOpenOnSetAside
  <2> QED
    BY <2>1, <2>2
<1> QED
  BY <1>1, <1>2

LEMMA InitIsInvariant == Init => IInv
<1> SUFFICES ASSUME Init
             PROVE  IInv
  OBVIOUS
<1> DEFINE needs == [n \in NeedIds |-> Unstated]
<1>1. /\ room = [pool |-> Founding, step |-> 1, radius |-> 1, verdict |-> Unscreened,
                 needs |-> needs]
      /\ phase = "gathering" /\ impasse = FALSE /\ offers = <<>>
  BY DEF Init
<1>2. Silent \in Statement
  BY DEF Silent, Statement
<1>3. Unstated \in Need /\ Unstated.step = 0 /\ Unstated.active
  BY <1>2, Bounds DEF Unstated, Need
<1>4. needs \in [NeedIds -> Need] /\ \A n \in NeedIds : needs[n].step = 0 /\ needs[n].active
  BY <1>3
<1>5. Unscreened \in [People -> [Candidates -> Verdicts]]
  BY DEF Unscreened, Verdicts
<1> HIDE DEF needs
<1>6. room \in Room /\ room.needs = needs /\ room.step = 1
  BY <1>1, <1>4, <1>5, Bounds DEF Room
<1>7. offers \in Seq(Adjustment) /\ Len(offers) = 0 /\ DOMAIN offers = {}
  BY <1>1
<1>8. Typed(offers) /\ OneOpen(offers) /\ NoneAside(room, offers) /\ NoneOpen(offers)
  BY <1>7 DEF Typed, OneOpen, NoneAside, NoneOpen
<1>9. Sound(room, offers)
  BY <1>4, <1>6, <1>8 DEF Sound, Unset
<1>10. phase \in Negotiating \cup {"decided"} /\ Len(offers) <= OfferLimit
  BY <1>1, <1>7, Bounds DEF Negotiating
<1> QED
  BY <1>1, <1>8, <1>9, <1>10, IInvIsSound

(* The inductive invariant holds in every room, for any people, places,     *)
(* needs, prices, circles and steps.                                        *)
THEOREM Invariance == Spec => []IInv
<1>1. IInv /\ [Next]_vars => IInv'
  BY StepKeeps
<1> QED
  BY <1>1, InitIsInvariant, PTL DEF Spec

(* The room, its needs and its offers keep their shape, for any people,      *)
(* candidates, price rungs and circles.                                      *)
THEOREM TypeCorrect == Spec => []TypeOK
<1>1. IInv => TypeOK
  BY DEF IInv
<1> QED
  BY <1>1, Invariance, PTL

(* minimalConflictSet: in a stuck room the needs that greedy deletion leaves *)
(* conflict, and none of them is idle: whatever the needs, the pool and the  *)
(* circle.                                                                   *)
THEOREM ConflictIsIrreducible == Spec => []IrreducibleConflict
<1>1. IrreducibleConflict
  <2> SUFFICES ASSUME Stuck
               PROVE  /\ Infeasible(room, ConflictSet(room))
                      /\ \A n \in ConflictSet(room) : ~Infeasible(room, ConflictSet(room) \ {n})
    BY DEF IrreducibleConflict
  <2>1. Infeasible(room, InForce(room))
    BY DEF Stuck, Eligible, Infeasible
  <2> QED
    BY <2>1, ConflictSetIsIrreducible
<1> QED
  BY <1>1, PTL

(* No offer is open twice and none that was denied is made again, in any     *)
(* impasse of any step: an impasse makes at most one offer per need and one  *)
(* of the circle, and none whose change is suppressed.                       *)
THEOREM OffersAreOpenOnce == Spec => []OneOpenOffer
<1>1. IInv => OneOpenOffer
  BY DEF IInv
<1> QED
  BY <1>1, Invariance, PTL

(* An open offer means a room that says it is stuck: recovery expires every  *)
(* open offer, staged grants included.                                       *)
THEOREM RecoveryLeavesNothingOpen == Spec => []OpenMeansImpasse
<1>1. IInv => OpenMeansImpasse
  BY DEF IInv
<1> QED
  BY <1>1, Invariance, PTL

(* No offer is open on a need of the present step that its owner has set     *)
(* aside: setRequirementActive expires them, and no impasse makes one.       *)
THEOREM SetAsideIsLeftAlone == Spec => []NothingOpenOnSetAside
<1>1. IInv => NothingOpenOnSetAside
  BY DEF IInv
<1> QED
  BY <1>1, Invariance, PTL

(* What was granted, denied or expired stays so.                             *)
THEOREM SettledStands == Spec => SettledOffersStand
<1>1. IInv /\ [Next]_vars
        => [\A i \in DOMAIN offers : offers[i].status \notin Open => offers'[i] = offers[i]]_vars
  BY StepKeeps DEF Stands
<1> QED
  BY <1>1, Invariance, PTL DEF Spec, SettledOffersStand

=============================================================================
