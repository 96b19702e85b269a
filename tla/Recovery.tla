------------------------------ MODULE Recovery ------------------------------
(***************************************************************************)
(* How a room notices that nothing satisfies its needs, and what it offers  *)
(* to get out of it: impasseBracket, minimalConflictSet and                 *)
(* generateAdjustments (impasse.ts), the commands that change what is       *)
(* eligible, and the two that resolve an offer (engine.ts).                 *)
(*                                                                          *)
(* Every command is one transaction that ends in the bracket; a background  *)
(* fill of the pool is one that does not.  A candidate is a distance, a     *)
(* price level and a kitchen; a place whose evidence is incomplete counts   *)
(* as not eligible, as in eligibleCount.  Radius and prices are the rungs   *)
(* of RADIUS_STEP_M and PRICE_LEVEL_EUR, and a grant that cannot be applied *)
(* is rolled back whole, so it is no step here.                             *)
(***************************************************************************)
EXTENDS Integers, FiniteSets, SequencesExt

CONSTANTS
    People,      \* participants
    Candidates,  \* places that may enter the pool
    Distance,    \* [Candidates -> Nat], rung of the smallest circle it is in
    Price,       \* [Candidates -> Nat], its PRICE_LEVEL_EUR rung
    Kitchen,     \* [Candidates -> Nat], its cuisine
    Founding,    \* the pool the room starts with
    RadiusMax,   \* RADIUS_MAX_M, in rungs
    PriceMax,    \* the highest price rung
    Enough,      \* the gain at which a wider circle is wide enough (3)
    NeedLimit,   \* needs a behaviour may contain
    OfferLimit,  \* adjustments a behaviour may contain
    Steps,       \* steps of the plan
    Owner,       \* [1..NeedLimit -> People]
    Statements   \* what a need may say

Statement == [kind  : {"none", "budget", "exclusion", "private"},
              arg   : Nat,       \* a price rung, or a cuisine
              hard  : BOOLEAN,
              mode  : {"locked", "approval_required", "negotiable", "soft"},
              bound : Nat]       \* of a negotiable one, a price rung

ASSUME RecoveryAssumption ==
    /\ IsFiniteSet(Candidates) /\ Founding \subseteq Candidates
    /\ {RadiusMax, PriceMax, Enough, NeedLimit, OfferLimit, Steps} \subseteq Nat \ {0}
    /\ \A c \in Candidates : {Distance[c], Price[c], Kitchen[c]} \subseteq Nat
    /\ Owner \in [1..NeedLimit -> People]
    /\ Statements \subseteq Statement

VARIABLES
    phase,    \* rooms.phase, agreed and arrival in one
    room,     \* active step, live pool, needs, the circle's radius, verdicts
    impasse,  \* rooms.impasse_active
    offers    \* the adjustments table, in the order of its ids

vars == <<phase, room, impasse, offers>>

NeedIds     == 1..NeedLimit
Verdicts    == {"none", "acceptable", "unacceptable"}  \* needs_info is none
Open        == {"proposed", "staged_grant"}
Negotiating == {"gathering", "deliberation"}
Silent      == [kind |-> "none", arg |-> 0, hard |-> FALSE, mode |-> "soft", bound |-> 0]
Unstated    == [step |-> 0, active |-> TRUE, withdrawn |-> FALSE, says |-> Silent]
Unscreened  == [o \in People |-> [c \in Candidates |-> "none"]]

Need == [step : 0..Steps, active : BOOLEAN, withdrawn : BOOLEAN, says : Statement]

Room == [pool : SUBSET Candidates, step : 1..Steps, radius : 1..RadiusMax,
         verdict : [People -> [Candidates -> Verdicts]], needs : [NeedIds -> Need]]

Adjustment == [kind : {"scope", "budget", "exclusion"}, need : {0} \cup NeedIds,
               from : Nat, to : Nat, gain : Nat, within : BOOLEAN,
               status : Open \cup {"granted", "denied", "expired"}]

TypeOK ==
    /\ phase \in Negotiating \cup {"decided"}
    /\ room \in Room
    /\ \A n \in NeedIds : room.needs[n].step <= room.step
    /\ impasse \in BOOLEAN
    /\ offers \in Seq(Adjustment) /\ Len(offers) <= OfferLimit
    /\ \A i \in DOMAIN offers :
        /\ offers[i].kind = "scope" <=> offers[i].need = 0
        /\ offers[i].kind = "scope" => offers[i].to \in 1..RadiusMax

-----------------------------------------------------------------------------
(* Classification, over a room, the needs taken to be in force, what each   *)
(* says and a radius: the pure classifyAll, so that it can be asked about   *)
(* hypothetical rooms.                                                      *)
InForce(r) ==
    {n \in NeedIds : /\ r.needs[n].step = r.step
                     /\ r.needs[n].active /\ ~ r.needs[n].withdrawn
                     /\ r.needs[n].says.hard}

Says(r) == [n \in NeedIds |-> r.needs[n].says]

Accepts(r, n, says, c) ==
    CASE says.kind = "budget"    -> Price[c] <= says.arg
      [] says.kind = "exclusion" -> Kitchen[c] # says.arg
      [] says.kind = "private"   -> r.verdict[Owner[n]][c] = "acceptable"

EligibleWith(r, needs, says, radius) ==
    {c \in r.pool : /\ Distance[c] <= radius
                    /\ \A n \in needs : Accepts(r, n, says[n], c)}

Gain(r, needs, says, radius) == Cardinality(EligibleWith(r, needs, says, radius))

Eligible(r) == EligibleWith(r, InForce(r), Says(r), r.radius)

(* A private declaration some place of the pool has no verdict for. *)
ScreeningPending(r) ==
    \E n \in InForce(r), c \in r.pool :
        /\ r.needs[n].says.kind = "private"
        /\ r.verdict[Owner[n]][c] = "none"

(* An empty pool, or no hard need, is not an impasse; screening defers it. *)
Undecidable(r) == r.pool = {} \/ InForce(r) = {} \/ ScreeningPending(r)

Infeasible(r, needs) == EligibleWith(r, needs, Says(r), r.radius) = {}

Together(r, left, n) ==                                \* mutant: asks about this one alone
    IF Infeasible(r, InForce(r) \ {n}) THEN left \ {n} ELSE left
Dropped(r, left, n) ==
    IF Infeasible(r, left \ {n}) THEN left \ {n} ELSE left

(* Greedy deletion, newest need first: what is left of the needs in force    *)
(* once those numbered n and above have been looked at.                      *)
ConflictSet(r) ==
    LET left[n \in 1..(NeedLimit + 1)] ==
            IF n > NeedLimit THEN InForce(r)
            ELSE IF n \in InForce(r) THEN Dropped(r, left[n + 1], n)
            ELSE left[n + 1]
    IN  left[1]

-----------------------------------------------------------------------------
(* The offers a stuck room calls for. *)
Offer(kind, need, from, to, gain, within) ==
    [kind |-> kind, need |-> need, from |-> from, to |-> to, gain |-> gain,
     within |-> within, status |-> "proposed"]

(* The smallest circle with enough places in it, else the most there are. *)
WiderCircle(r) ==
    LET gain(w) == Gain(r, InForce(r), Says(r), w)
        wanted  == IF gain(RadiusMax) < Enough THEN gain(RadiusMax) ELSE Enough
    IN  {Offer("scope", 0, r.radius, w, gain(w), FALSE) :
            w \in {w \in r.radius + 1 .. RadiusMax :
                    /\ gain(w) > 0 /\ gain(w) >= wanted
                    /\ \A v \in r.radius + 1 .. w - 1 : gain(v) < wanted}}

(* One price rung up, within the owner's delegation or not. *)
HigherBudget(r, n) ==
    LET says   == r.needs[n].says
        next   == says.arg + 1
        raised == [Says(r) EXCEPT ![n].arg = next]
        gain   == Gain(r, InForce(r), raised, r.radius)
    IN  IF says.kind = "budget" /\ next <= PriceMax /\ gain > 0
        THEN {Offer("budget", n, says.arg, next, gain,
                    says.mode = "negotiable" /\ next <= says.bound)}
        ELSE {}

NoExclusion(r, n) ==
    LET gain == Gain(r, InForce(r) \ {n}, Says(r), r.radius)
    IN  IF r.needs[n].says.kind = "exclusion" /\ gain > 0
        THEN {Offer("exclusion", n, r.needs[n].says.arg, 0, gain, FALSE)}
        ELSE {}

Drafts(r) ==
    WiderCircle(r) \cup
    UNION {HigherBudget(r, n) \cup NoExclusion(r, n) :
            n \in {m \in ConflictSet(r) : r.needs[m].says.mode # "locked"}}

(* The canonical change of an offer: neither its gain nor its delegation. *)
Key(o) == <<o.kind, o.need, o.from, o.to>>

InSeq(os) == {os[i] : i \in DOMAIN os}

OpenOnly(os) == {o \in InSeq(os) : o.status \in Open}  \* mutant: forgets a denial
Suppressing(os) == {o \in InSeq(os) : o.status \in Open \cup {"denied"}}

NewDrafts(r, os) == {d \in Drafts(r) : \A o \in Suppressing(os) : Key(o) # Key(d)}

(* A proposed offer a fresh pass no longer makes is stale; a staged one is  *)
(* mid-consent and left alone.                                              *)
Superseded(r, os) ==
    [i \in DOMAIN os |->
        IF os[i].status = "proposed" /\ \A d \in Drafts(r) : Key(d) # Key(os[i])
        THEN [os[i] EXCEPT !.status = "expired"] ELSE os[i]]

(* The order of one pass's offers is free: each is addressed and resolved   *)
(* on its own, and no offer of a pass bears on another's key.               *)
Renegotiated(r, os) == Superseded(r, os) \o SetToSeq(NewDrafts(r, os))

ProposedOnly(o) == o.status = "proposed"               \* mutant: leaves staged grants
AllButGranted(o) == o.status # "granted"               \* mutant: forgets denials
Expirable(o) == o.status \in Open

Expired(os, which) ==
    [i \in DOMAIN os |-> IF os[i] \in which THEN [os[i] EXCEPT !.status = "expired"] ELSE os[i]]

(* The bracket: what a command that leaves the room as r and the offers as  *)
(* os does to the impasse.  ph is the phase the command's own events lead   *)
(* to; the bracket itself still sees the one the command began in.          *)
Bracket(r, os, ph) ==
    /\ room' = r
    /\ IF phase = "decided"
       THEN offers' = os /\ UNCHANGED impasse
       ELSE IF Eligible(r) # {}
       THEN /\ impasse' = FALSE
            /\ offers' = IF impasse THEN Expired(os, {o \in InSeq(os) : Expirable(o)}) ELSE os
       ELSE IF Undecidable(r)
       THEN offers' = os /\ UNCHANGED impasse
       ELSE impasse' = TRUE /\ offers' = Renegotiated(r, os)
    /\ Len(offers') <= OfferLimit
    /\ phase' = IF ~ impasse /\ impasse' /\ ph = "gathering" THEN "deliberation" ELSE ph

-----------------------------------------------------------------------------
Init ==
    /\ phase = "gathering"
    /\ room = [pool |-> Founding, step |-> 1, radius |-> 1, verdict |-> Unscreened,
               needs |-> [n \in NeedIds |-> Unstated]]
    /\ impasse = FALSE
    /\ offers = <<>>

(* A command of a room that still negotiates: no phase of its own. *)
Command(r, os) ==
    /\ phase \in Negotiating
    /\ Bracket(r, os, phase)

NextStep == room.step + 1                              \* mutant: the step to come
Stamped  == room.step

(* A new need is numbered after those there are, and is the step's; an      *)
(* update keeps its step and whether it is set aside.  A private one makes  *)
(* its owner's verdicts worthless.                                          *)
SubmitRequirement(n, says) ==
    LET old      == room.needs[n]
        stated   == [old EXCEPT !.says = says, !.withdrawn = FALSE,
                                !.step = IF @ = 0 THEN Stamped ELSE @]
        verdicts == IF says.kind = "private"
                    THEN [room.verdict EXCEPT ![Owner[n]] = [c \in Candidates |-> "none"]]
                    ELSE room.verdict
    IN  /\ \A m \in 1..(n - 1) : room.needs[m].step # 0
        /\ Command([room EXCEPT !.needs[n] = stated, !.verdict = verdicts], offers)

WithdrawRequirement(n) ==
    /\ room.needs[n].step # 0 /\ ~ room.needs[n].withdrawn
    /\ Command([room EXCEPT !.needs[n].withdrawn = TRUE], offers)

(* Setting a need aside retires the offers to relax it. *)
NotSilenced(n, os) == os                               \* mutant: leaves the offers open
Silenced(n, os) == Expired(os, {o \in InSeq(os) : o.need = n /\ o.status \in Open})

SetRequirementActive(n, active) ==
    /\ room.needs[n].step # 0 /\ ~ room.needs[n].withdrawn
    /\ active => room.needs[n].step = room.step
    /\ room.needs[n].active # active
    /\ Command([room EXCEPT !.needs[n].active = active],
               IF active THEN offers ELSE Silenced(n, offers))

EvaluateCandidates(o, c, v) ==
    /\ c \in room.pool
    /\ \E n \in NeedIds : /\ Owner[n] = o /\ ~ room.needs[n].withdrawn
                          /\ room.needs[n].says.kind = "private"
    /\ Command([room EXCEPT !.verdict[o][c] = v], offers)

(* A fact about a place changes: every verdict on it is stale. *)
AttestAttribute(c) ==
    /\ c \in room.pool
    /\ Command([room EXCEPT !.verdict =
                   [o \in People |-> [room.verdict[o] EXCEPT ![c] = "none"]]], offers)

SetSearchScope(radius) == Command([room EXCEPT !.radius = radius], offers)

AddCandidates(c) ==
    /\ c \notin room.pool
    /\ Command([room EXCEPT !.pool = @ \cup {c}], offers)

ProposeDestination ==
    /\ phase \in Negotiating
    /\ Bracket(room, offers, "deliberation")

(* Readiness, stances, a need set to what it already is: nothing changes    *)
(* here, and the bracket runs all the same.                                 *)
OtherCommand == Bracket(room, offers, phase)

(* A batch of the background fill: its own transaction, and no bracket. *)
PoolFill(c) ==
    /\ c \notin room.pool
    /\ room' = [room EXCEPT !.pool = @ \cup {c}]
    /\ UNCHANGED <<phase, impasse, offers>>

Marked(i, status) == [offers EXCEPT ![i].status = status]

(* What a grant does to the room: a new circle, a new budget, or the whole  *)
(* need withdrawn, whatever it says by now.                                 *)
Granted(i) ==
    LET o == offers[i]
    IN  CASE o.kind = "scope"     -> [room EXCEPT !.radius = o.to]
          [] o.kind = "budget"    -> [room EXCEPT !.needs[o.need].says.arg = o.to]
          [] o.kind = "exclusion" -> [room EXCEPT !.needs[o.need].withdrawn = TRUE]

Applicable(i) ==
    LET o == offers[i]
    IN  o.kind # "scope" =>
            /\ room.needs[o.need].active /\ ~ room.needs[o.need].withdrawn
            /\ o.kind = "budget" => room.needs[o.need].says.kind = "budget"

ApplyAdjustment(i) == Applicable(i) /\ Command(Granted(i), Marked(i, "granted"))

Deny(i) ==
    /\ offers[i].status \in Open
    /\ Command(room, Marked(i, "denied"))

GrantWithinBound(i) ==
    /\ offers[i].status \in Open
    /\ offers[i].within
    /\ ApplyAdjustment(i)

StageGrant(i) ==
    /\ offers[i].status \in Open
    /\ ~ offers[i].within
    /\ Command(room, Marked(i, "staged_grant"))

(* On the page, with the nonce (Confirmation). *)
ConfirmPrivateRequest(i) ==
    /\ offers[i].status = "staged_grant"
    /\ ApplyAdjustment(i)

(* The commit: the last step decides the room, any other opens the next one *)
(* around a pool of its own, which may be empty.                            *)
CommitAgreement(pool) ==
    LET behind == [n \in NeedIds |-> [room.needs[n] EXCEPT
                      !.active = @ /\ room.needs[n].step # room.step]]
    IN  /\ phase = "deliberation"
        /\ \/ /\ room.step = Steps
              /\ pool = room.pool
              /\ Bracket(room, offers, "decided")
           \/ /\ room.step < Steps
              /\ Bracket([pool |-> pool, step |-> room.step + 1, radius |-> 1,
                          verdict |-> Unscreened, needs |-> behind], offers, "gathering")

Next ==
    \/ \E n \in NeedIds, s \in Statements : SubmitRequirement(n, s)
    \/ \E n \in NeedIds : WithdrawRequirement(n)
    \/ \E n \in NeedIds, a \in BOOLEAN : SetRequirementActive(n, a)
    \/ \E o \in People, c \in Candidates, v \in Verdicts : EvaluateCandidates(o, c, v)
    \/ \E c \in Candidates : AttestAttribute(c)
    \/ \E w \in 1..RadiusMax : SetSearchScope(w)
    \/ \E c \in Candidates : AddCandidates(c)
    \/ \E c \in Candidates : PoolFill(c)
    \/ ProposeDestination
    \/ OtherCommand
    \/ \E i \in DOMAIN offers : Deny(i)
    \/ \E i \in DOMAIN offers : GrantWithinBound(i)
    \/ \E i \in DOMAIN offers : StageGrant(i)
    \/ \E i \in DOMAIN offers : ConfirmPrivateRequest(i)
    \/ \E pool \in SUBSET Candidates : CommitAgreement(pool)

Spec == Init /\ [][Next]_vars

-----------------------------------------------------------------------------
Stuck == phase \in Negotiating /\ Eligible(room) = {}

(* minimalConflictSet: the survivors are an irreducible conflicting set, so *)
(* no offer asks anyone to give up a need the others would still defeat.    *)
IrreducibleConflict ==
    Stuck =>
        /\ Infeasible(room, ConflictSet(room))
        /\ \A n \in ConflictSet(room) : ~ Infeasible(room, ConflictSet(room) \ {n})

(* No offer is open twice, and none its addressee denied comes back, across *)
(* any number of impasses (the suppressed keys of the bracket).             *)
OneOpenOffer ==
    \A i, j \in DOMAIN offers :
        /\ i # j /\ Key(offers[i]) = Key(offers[j])
        /\ offers[i].status \in Open
        => offers[j].status \notin Open \cup {"denied"}

(* Whoever is asked to give something up is asked because the room is stuck *)
(* as far as it knows: recovery leaves no offer open, staged ones included. *)
OpenMeansImpasse == (\E i \in DOMAIN offers : offers[i].status \in Open) => impasse

(* What was granted, denied or expired stays so, whatever recovers, gets    *)
(* stuck again or is set aside later.                                       *)
SettledOffersStand ==
    [][\A i \in DOMAIN offers :
        offers[i].status \notin Open => offers'[i] = offers[i]]_vars

(* setRequirementActive on its expiry: no offer sits there able to change a *)
(* need of this step that its owner has set aside.                          *)
NothingOpenOnSetAside ==
    \A i \in DOMAIN offers :
        LET n == offers[i].need
        IN  (offers[i].status \in Open /\ n # 0 /\ room.needs[n].step = room.step)
            => room.needs[n].active

(* The same of the needs an advance sets aside: "exactly as setting a need  *)
(* aside does", says settleAndAdvance.                                      *)
NothingOpenOnSettledStep ==
    \A i \in DOMAIN offers :
        LET n == offers[i].need
        IN  (offers[i].status \in Open /\ n # 0) => room.needs[n].step = room.step

=============================================================================
