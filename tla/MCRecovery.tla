----------------------------- MODULE MCRecovery -----------------------------
(* A near, cheap place of kitchen 1, a near, dear one of kitchen 2, and a    *)
(* cheap one of kitchen 2 that only a wider circle has.                     *)
EXTENDS Recovery

CONSTANTS ann, bob, near, dear, far

Both    == {ann, bob}
Three   == {near, dear, far}
Two     == {near, dear}
JustOne  == {near}
HowFar  == near :> 1 @@ dear :> 1 @@ far :> 2
HowMuch == near :> 1 @@ dear :> 2 @@ far :> 1
Cuisine == near :> 1 @@ dear :> 2 @@ far :> 2

AnnThenBob == <<ann, bob>>
OnlyAnn    == <<ann>>

Say(kind, arg, mode, bound) ==
    [kind |-> kind, arg |-> arg, hard |-> TRUE, mode |-> mode, bound |-> bound]

NoKitchenOne == Say("exclusion", 1, "approval_required", 0)
LowBudget    == Say("budget", 1, "negotiable", 2)
Screened     == Say("private", 0, "approval_required", 0)

Exclusions == {NoKitchenOne, LowBudget}
Anything   == {NoKitchenOne, LowBudget, Screened}

(* The bound of the run, in two parts that meet: two needs over three places *)
(* in one step, unscreened, or one need, private or not, over the two near   *)
(* places and as many steps as the plan has.                                 *)
TwoNeeds ==
    /\ room.step = 1 /\ room.verdict = Unscreened
    /\ \A n \in NeedIds : room.needs[n].says.kind # "private"
OneNeed == far \notin room.pool /\ room.needs[2] = Unstated

BoundedNext == Next /\ (TwoNeeds' \/ OneNeed')

BoundedSpec == Init /\ [][BoundedNext]_vars

=============================================================================
