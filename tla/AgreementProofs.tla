--------------------------- MODULE AgreementProofs ---------------------------
(***************************************************************************)
(* Theorems about Agreement, for every room: any set of participants and    *)
(* places, any number of plan steps and proposals.                          *)
(*                                                                          *)
(* The safety invariants are not inductive by themselves.  What ties them   *)
(* together is Bookkeeping: only members have stances, a proposal row that  *)
(* does not exist yet has none, a committed proposal is not of a step ahead,*)
(* and the room is never in a phase the code cannot enter.                  *)
(***************************************************************************)
EXTENDS Agreement, TLAPS

Bookkeeping ==
    /\ active \in FirstStep..Steps
    /\ phase \in Negotiating \cup Decided
    /\ Founders \subseteq members
    /\ \A p \in Props : electorate[p] \subseteq members
    /\ \A p \in Props : \A m \in Participants \ members : stance[p][m] = "none"
    /\ \A p \in Props : status[p] = "none" => \A m \in Participants : stance[p][m] = "none"
    /\ \A p \in Props : status[p] # "none" => place[p] \in Places /\ stepOf[p] \in FirstStep..Steps
    /\ \A p \in Props : status[p] = "committed" => stepOf[p] <= active

IInv ==
    /\ TypeOK
    /\ Bookkeeping
    /\ VetoBlocksWhileItStands
    /\ LiveOnlyInDeliberation
    /\ CommittedByConsent
    /\ OneDestinationPerStep
    /\ PlanSettledInOrder

-----------------------------------------------------------------------------
(* The phase machine's moves, one by one, over the phases a room can be in. *)
LEMMA TransitionType ==
  ASSUME NEW ph \in Phases, NEW event
  PROVE  Transition(ph, event) \in Phases
BY DEF Transition, Phases

LEMMA TransitionMoves ==
  ASSUME NEW ph \in Negotiating \cup Decided
  PROVE  /\ Transition(ph, "participant_joined") = ph
         /\ Transition(ph, "impasse_detected") =
              IF ph = "gathering" THEN "deliberation" ELSE ph
         /\ ph \in Negotiating => Transition(ph, "proposal_created") = "deliberation"
         /\ ph = "deliberation" => Transition(ph, "agreement_committed") = "agreed"
         /\ ph = "agreed" => Transition(ph, "step_advanced") = "gathering"
         /\ ph \in Decided => Transition(ph, "arrival_plan_updated") = "arrival"
BY DEF Transition, Negotiating, Decided

(* No impasse takes a room out of deliberation, or into or out of a decision. *)
LEMMA BracketMoves ==
  ASSUME NEW ph \in Negotiating \cup Decided, NEW next \in Bracket(ph)
  PROVE  /\ next \in Negotiating \cup Decided
         /\ ph = "deliberation" => next = "deliberation"
         /\ next \in Decided <=> ph \in Decided
BY TransitionMoves DEF Bracket, Negotiating, Decided

(* What the blockers leave when there is none. *)
LEMMA UnblockedMeansConsent ==
  ASSUME NEW p, ~ Blocked(p)
  PROVE  \A m \in members : ready[m] /\ stance[p][m] \in Consent
BY DEF Blocked, NotReady, Missing

-----------------------------------------------------------------------------
LEMMA InitType == Init => TypeOK
BY RoomAssumption
DEF Init, TypeOK, Phases, Statuses, Props, Plan, FirstStep

LEMMA NextType == TypeOK /\ [Next]_vars => TypeOK'
<1> SUFFICES ASSUME TypeOK, [Next]_vars PROVE TypeOK'
  OBVIOUS
<1> USE RoomAssumption, TransitionType DEF TypeOK
<1>1. ASSUME NEW m \in Participants, Join(m) PROVE TypeOK'
  BY <1>1 DEF Join, planVars, proposalVars, codeVars
<1>2. ASSUME NEW m \in Participants, NEW state \in BOOLEAN, SetReadyState(m, state)
      PROVE  TypeOK'
  BY <1>2 DEF SetReadyState, Bracket, planVars, proposalVars, codeVars
<1>3. CASE EligibilityCommand
  BY <1>3 DEF EligibilityCommand, planVars, proposalVars, codeVars
<1>4. ASSUME NEW m \in Participants, NEW p \in Props, NEW c \in Places,
             ProposeDestination(m, p, c)
      PROVE  TypeOK'
  BY <1>4 DEF ProposeDestination, Statuses, planVars, codeVars
<1>5. ASSUME NEW m \in Participants, NEW p \in Props, NEW d \in Dispositions,
             RespondToProposal(m, p, d)
      PROVE  TypeOK'
  <2>1. stance' \in [Props -> [Participants -> AllDispositions \cup {"none"}]]
    BY <1>5 DEF RespondToProposal
  <2>2. status' \in [Props -> Statuses] /\ ready' \in [Participants -> BOOLEAN]
    BY <1>5 DEF RespondToProposal, Statuses
  <2>. QED
    BY <1>5, <2>1, <2>2 DEF RespondToProposal, Bracket, planVars, codeVars
<1>6. ASSUME NEW p \in Props, ConfirmAgreement(p) PROVE TypeOK'
  BY <1>6 DEF ConfirmAgreement, Statuses, roomVars, planVars
<1>7. ASSUME NEW p \in Props, AbortStage(p) PROVE TypeOK'
  BY <1>7 DEF AbortStage, Statuses, roomVars, planVars
<1>8. ASSUME NEW p \in Props, CommitAgreement(p) PROVE TypeOK'
  <2>1. status' \in [Props -> Statuses] /\ electorate' \in [Props -> SUBSET Participants]
    BY <1>8 DEF CommitAgreement, Statuses
  <2>2. active' \in 0..Steps /\ settled' \in [Plan -> 0..ProposalLimit]
    BY <1>8 DEF CommitAgreement, Advances, LastStep, Plan, Props
  <2>3. phase' \in Phases
    BY <1>8 DEF CommitAgreement
  <2>. QED
    BY <1>8, <2>1, <2>2, <2>3 DEF CommitAgreement
<1>9. ASSUME NEW p \in Props, CommitRolledBack(p) PROVE TypeOK'
  BY <1>9 DEF CommitRolledBack, roomVars, planVars, proposalVars
<1>10. ASSUME NEW m \in Participants, PlanArrival(m) PROVE TypeOK'
  BY <1>10 DEF PlanArrival, planVars, proposalVars, codeVars
<1>11. ASSUME NEW p \in Props, Mint(p) \/ Expire(p) PROVE TypeOK'
  BY <1>11 DEF Mint, Expire, roomVars, planVars, proposalVars
<1>12. CASE Reconnect \/ Restart
  BY <1>12 DEF Reconnect, Restart, roomVars, planVars, proposalVars
<1>13. CASE UNCHANGED vars
  BY <1>13 DEF vars, roomVars, planVars, proposalVars, codeVars
<1>. QED
  BY <1>1, <1>2, <1>3, <1>4, <1>5, <1>6, <1>7, <1>8, <1>9, <1>10, <1>11, <1>12, <1>13
  DEF Next

(* Every variable of every reachable room keeps its type. *)
THEOREM TypeCorrect == Spec => []TypeOK
BY InitType, NextType, PTL DEF Spec

-----------------------------------------------------------------------------
LEMMA InitInv == Init => IInv
<1> SUFFICES ASSUME Init PROVE IInv
  OBVIOUS
<1>1. TypeOK
  BY InitType
<1>2. Bookkeeping
  BY RoomAssumption DEF Init, Bookkeeping, FirstStep, Negotiating, Decided, Props
<1>3. VetoBlocksWhileItStands /\ LiveOnlyInDeliberation /\ CommittedByConsent
  BY DEF Init, VetoBlocksWhileItStands, LiveOnlyInDeliberation, CommittedByConsent, Live
<1>4. OneDestinationPerStep /\ PlanSettledInOrder
  BY RoomAssumption
  DEF Init, OneDestinationPerStep, PlanSettledInOrder, Decided, Plan, FirstStep, LastStep
<1>. QED
  BY <1>1, <1>2, <1>3, <1>4 DEF IInv

(* A step that leaves the proposals and the plan alone keeps the invariant  *)
(* as long as it loses no member, enters or leaves no decision and, while   *)
(* the room deliberates, does not stop deliberating.                        *)
LEMMA ProposalsUntouched ==
  ASSUME IInv, TypeOK',
         UNCHANGED <<planVars, proposalVars>>,
         members \subseteq members',
         phase' \in Negotiating \cup Decided,
         phase = "deliberation" => phase' = "deliberation",
         phase' \in Decided <=> phase \in Decided
  PROVE  IInv'
<1> USE DEF IInv, TypeOK, planVars, proposalVars
<1>1. Bookkeeping'
  BY DEF Bookkeeping
<1>2. VetoBlocksWhileItStands' /\ LiveOnlyInDeliberation' /\ CommittedByConsent'
  BY DEF VetoBlocksWhileItStands, LiveOnlyInDeliberation, CommittedByConsent
<1>3. OneDestinationPerStep' /\ PlanSettledInOrder'
  BY DEF OneDestinationPerStep, PlanSettledInOrder, LastStep
<1>. QED
  BY <1>1, <1>2, <1>3

LEMMA ProposeInv ==
  ASSUME IInv, TypeOK', NEW m \in Participants, NEW p \in Props, NEW c \in Places,
         ProposeDestination(m, p, c)
  PROVE  IInv'
<1> USE DEF IInv, TypeOK, planVars, codeVars
<1>1. /\ status[p] = "none" /\ status' = [status EXCEPT ![p] = "open"]
      /\ phase' = "deliberation" /\ phase \in Negotiating
      /\ UNCHANGED <<members, active, settled, stance, electorate>>
  <2>1. p >= p
    BY RoomAssumption DEF Props
  <2>2. status[p] = "none" /\ phase \in Negotiating
    BY <2>1 DEF ProposeDestination
  <2>3. phase' = "deliberation"
    BY <2>2, TransitionMoves DEF ProposeDestination
  <2>. QED
    BY <2>2, <2>3 DEF ProposeDestination
<1>2. Bookkeeping'
  <2>1. /\ \A q \in Props : q # p => /\ status'[q] = status[q]
                                   /\ place'[q] = place[q]
                                   /\ stepOf'[q] = stepOf[q]
        /\ status'[p] = "open" /\ place'[p] = c /\ stepOf'[p] = active
    BY DEF ProposeDestination
  <2>2. active \in FirstStep..Steps
    BY DEF Bookkeeping
  <2>3. \A q \in Props : status'[q] # "none" =>
           place'[q] \in Places /\ stepOf'[q] \in FirstStep..Steps
    BY <2>1, <2>2 DEF Bookkeeping
  <2>4. \A q \in Props : status'[q] = "none" => status[q] = "none"
    BY <2>1
  <2>5. \A q \in Props : status'[q] = "committed" => stepOf'[q] <= active'
    BY <1>1, <2>1 DEF Bookkeeping
  <2>. QED
    BY <1>1, <2>2, <2>3, <2>4, <2>5 DEF Bookkeeping, Negotiating
<1>3. VetoBlocksWhileItStands'
  BY <1>1 DEF VetoBlocksWhileItStands, Bookkeeping
<1>4. LiveOnlyInDeliberation'
  BY <1>1 DEF LiveOnlyInDeliberation, ProposeDestination, Live
<1>5. CommittedByConsent'
  BY <1>1 DEF CommittedByConsent
<1>6. OneDestinationPerStep' /\ PlanSettledInOrder'
  <2>1. \A q \in Props : status'[q] = "committed" <=> status[q] = "committed"
    BY <1>1
  <2>2. \A q \in Props : status[q] = "committed" => stepOf'[q] = stepOf[q]
    BY <1>1 DEF ProposeDestination
  <2>3. phase \notin Decided /\ phase' \notin Decided
    BY <1>1 DEF Negotiating, Decided
  <2>4. active' = active /\ settled' = settled
    BY <1>1
  <2>5. OneDestinationPerStep'
    BY <2>1, <2>2, <2>3, <2>4 DEF OneDestinationPerStep, Props
  <2>6. PlanSettledInOrder'
    <3>1. \A s \in Plan : settled[s] # 0 => settled[s] \in Props
      BY DEF Props
    <3>2. \A s \in Plan : settled[s] # 0 =>
              status'[settled[s]] = "committed" /\ stepOf'[settled[s]] = s /\ s # active
      BY <2>1, <2>2, <2>3, <3>1 DEF PlanSettledInOrder
    <3>. QED
      BY <2>3, <2>4, <3>2 DEF PlanSettledInOrder, Plan
  <2>. QED
    BY <2>5, <2>6
<1>. QED
  BY <1>2, <1>3, <1>4, <1>5, <1>6

LEMMA RespondInv ==
  ASSUME IInv, TypeOK', NEW m \in Participants, NEW p \in Props, NEW d \in Dispositions,
         RespondToProposal(m, p, d)
  PROVE  IInv'
<1> USE DEF IInv, TypeOK, planVars, codeVars
<1> DEFINE others == {q \in Props : q # p}
<1>1. /\ status[p] \in {"open", "vetoed"} /\ m \in members
      /\ \A q \in others : status'[q] = status[q] /\ stance'[q] = stance[q]
      /\ \A n \in Participants : stance'[p][n] = IF n = m THEN d ELSE stance[p][n]
      /\ UNCHANGED <<members, active, settled, place, stepOf, electorate>>
  BY DEF RespondToProposal
<1>2. /\ status'[p] \in {"open", "vetoed"}
      /\ status'[p] = "vetoed" <=> \E n \in Participants : stance'[p][n] = "reject"
  <2>1. CASE d = "reject"
    BY <1>1, <2>1 DEF RespondToProposal
  <2>2. CASE d # "reject" /\ Reopenable(stance'[p])
    BY <1>1, <2>2 DEF RespondToProposal, Reopenable
  <2>3. CASE d # "reject" /\ ~ Reopenable(stance'[p])
    <3>1. status'[p] = status[p] /\ \E n \in Participants : stance'[p][n] = "reject"
      BY <2>3 DEF RespondToProposal, Reopenable
    <3>2. \E n \in Participants : stance[p][n] = "reject"
      BY <1>1, <2>3, <3>1
    <3>3. status[p] = "vetoed"
      BY <1>1, <3>2 DEF VetoBlocksWhileItStands
    <3>. QED
      BY <3>1, <3>3
  <2>. QED
    BY <2>1, <2>2, <2>3
<1>3. phase = "deliberation" /\ phase' = "deliberation"
  BY <1>1, BracketMoves DEF RespondToProposal, LiveOnlyInDeliberation, Live, Bookkeeping
<1>4. \A q \in Props : \A n \in Participants \ members : stance'[q][n] = "none"
  <2> SUFFICES ASSUME NEW q \in Props, NEW n \in Participants \ members
               PROVE  stance'[q][n] = "none"
    OBVIOUS
  <2>1. stance[q][n] = "none" /\ n # m
    BY <1>1 DEF Bookkeeping
  <2>2. CASE q = p
    BY <1>1, <2>1, <2>2
  <2>3. CASE q # p
    BY <1>1, <2>1, <2>3
  <2>. QED
    BY <2>2, <2>3
<1>5. VetoBlocksWhileItStands'
  <2>1. ASSUME NEW q \in others
        PROVE  /\ status'[q] = "vetoed" => \E n \in members' : stance'[q][n] = "reject"
               /\ status'[q] \in {"open", "staged", "committed"} =>
                    \A n \in Participants : stance'[q][n] # "reject"
    BY <1>1 DEF VetoBlocksWhileItStands
  <2>2. ASSUME NEW n \in Participants, stance'[p][n] = "reject" PROVE n \in members'
    BY <1>1, <1>4, <2>2
  <2>3. /\ status'[p] = "vetoed" => \E n \in members' : stance'[p][n] = "reject"
        /\ status'[p] \in {"open", "staged", "committed"} =>
             \A n \in Participants : stance'[p][n] # "reject"
    BY <1>2, <2>2
  <2>. QED
    <3>1. \A q \in Props : q = p \/ q \in others
      OBVIOUS
    <3>. QED
      BY <3>1, <2>1, <2>3 DEF VetoBlocksWhileItStands
<1>9. Bookkeeping'
  <2>1. \A q \in Props : status'[q] = "none" => \A n \in Participants : stance'[q][n] = "none"
    <3> SUFFICES ASSUME NEW q \in Props, status'[q] = "none"
                 PROVE  \A n \in Participants : stance'[q][n] = "none"
      OBVIOUS
    <3>1. q \in others
      BY <1>2
    <3>. QED
      BY <1>1, <3>1 DEF Bookkeeping
  <2>2. \A q \in Props : status'[q] # "none" => status[q] # "none"
    BY <1>1
  <2>3. \A q \in Props : status'[q] = "committed" => status[q] = "committed"
    BY <1>1, <1>2
  <2>. QED
    BY <1>1, <1>3, <1>4, <2>1, <2>2, <2>3 DEF Bookkeeping, Negotiating
<1>6. LiveOnlyInDeliberation'
  BY <1>1, <1>2, <1>3 DEF LiveOnlyInDeliberation, Live
<1>7. CommittedByConsent'
  BY <1>1, <1>2 DEF CommittedByConsent
<1>8. OneDestinationPerStep' /\ PlanSettledInOrder'
  <2>1. \A q \in Props : status'[q] = "committed" <=> status[q] = "committed"
    BY <1>1, <1>2
  <2>. QED
    BY <1>1, <1>3, <2>1, RoomAssumption
    DEF OneDestinationPerStep, PlanSettledInOrder, Props, LastStep, Plan
<1>. QED
  BY <1>5, <1>6, <1>7, <1>8, <1>9

(* Staging and the abort of a stage: one proposal moves between "open" and  *)
(* "staged", where the same facts hold of it.                               *)
LEMMA StageInv ==
  ASSUME IInv, TypeOK', NEW p \in Props, ConfirmAgreement(p) \/ AbortStage(p)
  PROVE  IInv'
<1> USE DEF IInv, TypeOK, roomVars, planVars
<1>1. /\ status[p] \in {"open", "staged"} /\ status'[p] \in {"open", "staged"}
      /\ \A q \in Props : q # p => status'[q] = status[q]
      /\ UNCHANGED <<phase, members, active, settled, place, stepOf, stance, electorate>>
  BY DEF ConfirmAgreement, AbortStage
<1>2. Bookkeeping'
  BY <1>1 DEF Bookkeeping
<1>3. VetoBlocksWhileItStands' /\ LiveOnlyInDeliberation' /\ CommittedByConsent'
  <2>1. VetoBlocksWhileItStands'
    BY <1>1 DEF VetoBlocksWhileItStands
  <2>2. LiveOnlyInDeliberation'
    BY <1>1 DEF LiveOnlyInDeliberation, Live
  <2>3. CommittedByConsent'
    BY <1>1 DEF CommittedByConsent
  <2>. QED
    BY <2>1, <2>2, <2>3
<1>4. OneDestinationPerStep' /\ PlanSettledInOrder'
  <2>1. \A q \in Props : status'[q] = "committed" <=> status[q] = "committed"
    BY <1>1
  <2>. QED
    BY <1>1, <2>1, RoomAssumption
    DEF OneDestinationPerStep, PlanSettledInOrder, Props, LastStep, Plan
<1>. QED
  BY <1>2, <1>3, <1>4

(* The commit: the one step that decides, retires and advances. *)
LEMMA CommitInv ==
  ASSUME IInv, TypeOK', NEW p \in Props, CommitAgreement(p)
  PROVE  IInv'
<1> USE DEF IInv, TypeOK
<1>1. /\ phase = "deliberation" /\ status[p] = "staged" /\ stepOf[p] = active
      /\ UNCHANGED <<members, place, stepOf, stance>>
  BY DEF CommitAgreement, LiveOnlyInDeliberation, Live
<1>2. /\ status'[p] = "committed"
      /\ \A q \in Props : q # p =>
           status'[q] = IF status[q] \in Live THEN "withdrawn" ELSE status[q]
  BY DEF CommitAgreement, Competing
<1>3. \A q \in Props : /\ status'[q] = "committed" <=> q = p \/ status[q] = "committed"
                       /\ status'[q] \notin Live
                       /\ status'[q] = "none" <=> status[q] = "none"
  BY <1>1, <1>2 DEF Live
<1>4. \A q \in Props : status[q] = "committed" => stepOf[q] # active /\ stepOf[q] <= active
  BY <1>1 DEF OneDestinationPerStep, Bookkeeping, Decided
<1>5. \/ Advances /\ active' = active + 1 /\ phase' = "gathering"
      \/ ~ Advances /\ active' = active /\ phase' = "agreed"
  <2>1. /\ Transition(phase, "agreement_committed") = "agreed"
        /\ Transition("agreed", "step_advanced") = "gathering"
    BY <1>1, TransitionMoves DEF Negotiating, Decided
  <2>. QED
    BY <2>1 DEF CommitAgreement
<1>6. active \in Nat /\ active <= Steps /\ Steps \in Nat /\ active' \in FirstStep..Steps
  BY <1>5, RoomAssumption DEF Bookkeeping, Advances, FirstStep, Plan
<1>7. Bookkeeping'
  <2>1. \A q \in Props : electorate'[q] \subseteq members'
    BY <1>1 DEF CommitAgreement, Bookkeeping
  <2>2. \A q \in Props : status'[q] = "committed" => stepOf'[q] <= active'
    BY <1>1, <1>3, <1>4, <1>5, <1>6
  <2>3. phase' \in Negotiating \cup Decided
    BY <1>5 DEF Negotiating, Decided
  <2>. QED
    BY <1>1, <1>3, <1>6, <2>1, <2>2, <2>3 DEF Bookkeeping
<1>8. VetoBlocksWhileItStands'
  <2>1. \A q \in Props : status'[q] = "vetoed" => status[q] = "vetoed"
    BY <1>2
  <2>2. \A q \in Props : status'[q] \in {"open", "staged", "committed"} =>
                           status[q] \in {"open", "staged", "committed"}
    BY <1>1, <1>2
  <2>. QED
    BY <1>1, <2>1, <2>2 DEF VetoBlocksWhileItStands
<1>9. LiveOnlyInDeliberation'
  BY <1>3 DEF LiveOnlyInDeliberation, Live
<1>10. CommittedByConsent'
  <2>1. electorate'[p] = members /\ \A q \in Props : q # p => electorate'[q] = electorate[q]
    BY DEF CommitAgreement
  <2>2. \A m \in members : stance[p][m] \in Consent
    BY UnblockedMeansConsent DEF CommitAgreement
  <2>3. Founders \subseteq members
    BY DEF Bookkeeping
  <2>. QED
    BY <1>1, <1>3, <2>1, <2>2, <2>3 DEF CommittedByConsent
<1>11. OneDestinationPerStep'
  <2>1. \A q, r \in Props :
           status'[q] = "committed" /\ status'[r] = "committed" /\ stepOf'[q] = stepOf'[r]
             => q = r
    BY <1>1, <1>3, <1>4 DEF OneDestinationPerStep
  <2>2. phase' \in Decided <=>
           \E q \in Props : status'[q] = "committed" /\ stepOf'[q] = active'
    <3>1. CASE Advances
      <4>1. \A q \in Props : status'[q] = "committed" => stepOf'[q] \in Nat /\ stepOf'[q] <= active
        BY <1>1, <1>3, <1>4, <1>6
      <4>2. phase' \notin Decided /\ active' = active + 1
        BY <1>5, <3>1 DEF Decided
      <4>. QED
        BY <1>6, <4>1, <4>2
    <3>2. CASE ~ Advances
      BY <1>1, <1>2, <1>5, <3>2 DEF Decided
    <3>. QED
      BY <3>1, <3>2
  <2>. QED
    BY <2>1, <2>2 DEF OneDestinationPerStep
<1>12. PlanSettledInOrder'
  <2>1. p # 0 /\ \A s \in Plan : s \in Nat
    BY RoomAssumption DEF Props, Plan
  <2>2. \A s \in Plan : s # active => settled'[s] = settled[s]
    BY DEF CommitAgreement
  <2>3. active \in Plan => settled'[active] = IF Advances \/ LastStep THEN p ELSE settled[active]
    BY DEF CommitAgreement
  <2>4. ASSUME NEW s \in Plan
        PROVE  /\ s < active' => settled'[s] # 0
               /\ s > active' => settled'[s] = 0
               /\ settled'[s] # 0 => /\ status'[settled'[s]] = "committed"
                                     /\ stepOf'[settled'[s]] = s
                                     /\ s = active' => phase' \in Decided
    <3>1. CASE s = active
      <4>1. settled[s] = 0
        BY <1>1, <3>1 DEF PlanSettledInOrder, Decided
      <4>2. settled'[s] = IF Advances \/ LastStep THEN p ELSE 0
        BY <2>3, <3>1, <4>1
      <4>3. settled'[s] # 0 => settled'[s] = p /\ (Advances \/ LastStep)
        BY <4>2
      <4>4. stepOf'[p] = s /\ status'[p] = "committed"
        BY <1>1, <1>2, <3>1
      <4>5. settled'[s] # 0 => status'[settled'[s]] = "committed" /\ stepOf'[settled'[s]] = s
        BY <4>3, <4>4
      <4>6. CASE Advances
        <5>1. s < active'
          BY <1>5, <1>6, <3>1, <4>6
        <5>. QED
          BY <1>6, <2>1, <4>2, <4>5, <4>6, <5>1
      <4>7. CASE ~ Advances
        <5>1. s = active' /\ phase' \in Decided
          BY <1>5, <3>1, <4>7 DEF Decided
        <5>. QED
          BY <1>6, <4>5, <5>1
      <4>. QED
        BY <4>6, <4>7
    <3>2. CASE s # active
      <4>1. /\ s < active => settled'[s] # 0
            /\ s > active => settled'[s] = 0
        BY <2>2, <3>2 DEF PlanSettledInOrder
      <4>2. settled'[s] # 0 => status[settled[s]] = "committed" /\ stepOf[settled[s]] = s
        BY <2>2, <3>2 DEF PlanSettledInOrder
      <4>3. settled[s] # 0 => settled[s] \in Props
        BY RoomAssumption DEF Props
      <4>4. settled'[s] # 0 => status'[settled'[s]] = "committed" /\ stepOf'[settled'[s]] = s
        BY <1>1, <1>3, <2>2, <3>2, <4>2, <4>3
      <4>5. /\ s < active' => s < active
            /\ s >= active' => s > active
        <5>1. s \in Nat /\ (active' = active + 1 \/ active' = active)
          BY <1>5, <2>1
        <5>. HIDE DEF IInv, TypeOK
        <5>. QED
          BY <1>6, <3>2, <5>1
      <4>. QED
        BY <1>6, <2>1, <4>1, <4>4, <4>5
    <3>. QED
      BY <3>1, <3>2
  <2>5. phase' \in Decided /\ active' \in Plan /\ active' = Steps => settled'[active'] # 0
    BY <1>5, <2>1, <2>3 DEF LastStep, Decided
  <2>. QED
    BY <2>4, <2>5 DEF PlanSettledInOrder
<1>. QED
  BY <1>7, <1>8, <1>9, <1>10, <1>11, <1>12

LEMMA NextInv == IInv /\ [Next]_vars => IInv'
<1> SUFFICES ASSUME IInv, [Next]_vars PROVE IInv'
  OBVIOUS
<1>1. TypeOK'
  BY NextType DEF IInv
<1>2. phase \in Negotiating \cup Decided
  BY DEF IInv, Bookkeeping
<1>3. ASSUME NEW m \in Participants, Join(m) PROVE IInv'
  <2>1. members \subseteq members' /\ phase' = phase /\ UNCHANGED <<planVars, proposalVars>>
    BY <1>2, <1>3, TransitionMoves DEF Join
  <2>. QED
    BY <1>1, <1>2, <2>1, ProposalsUntouched
<1>4. ASSUME NEW m \in Participants, NEW state \in BOOLEAN, SetReadyState(m, state)
      PROVE  IInv'
  <2>1. members \subseteq members' /\ phase' \in Bracket(phase)
        /\ UNCHANGED <<planVars, proposalVars>>
    BY <1>4 DEF SetReadyState
  <2>. QED
    BY <1>1, <1>2, <2>1, BracketMoves, ProposalsUntouched
<1>5. CASE EligibilityCommand
  <2>1. /\ members \subseteq members' /\ phase' \in Bracket(phase)
        /\ UNCHANGED <<planVars, proposalVars>>
    BY <1>5 DEF EligibilityCommand, Bracket
  <2>. QED
    BY <1>1, <1>2, <2>1, BracketMoves, ProposalsUntouched
<1>6. ASSUME NEW m \in Participants, NEW p \in Props, NEW c \in Places,
             ProposeDestination(m, p, c)
      PROVE  IInv'
  BY <1>1, <1>6, ProposeInv
<1>7. ASSUME NEW m \in Participants, NEW p \in Props, NEW d \in Dispositions,
             RespondToProposal(m, p, d)
      PROVE  IInv'
  BY <1>1, <1>7, RespondInv
<1>8. ASSUME NEW p \in Props, ConfirmAgreement(p) \/ AbortStage(p) PROVE IInv'
  BY <1>1, <1>8, StageInv
<1>9. ASSUME NEW p \in Props, CommitAgreement(p) PROVE IInv'
  BY <1>1, <1>9, CommitInv
<1>10. ASSUME NEW m \in Participants, PlanArrival(m) PROVE IInv'
  <2>1. phase \in Decided /\ phase' = "arrival" /\ members' = members
        /\ UNCHANGED <<planVars, proposalVars>>
    BY <1>2, <1>10, TransitionMoves DEF PlanArrival
  <2>. QED
    BY <1>1, <2>1, ProposalsUntouched DEF Decided
<1>11. ASSUME UNCHANGED <<phase, members, planVars, proposalVars>> PROVE IInv'
  BY <1>1, <1>2, <1>11, ProposalsUntouched
<1>12. ASSUME NEW p \in Props, CommitRolledBack(p) \/ Mint(p) \/ Expire(p) PROVE IInv'
  BY <1>11, <1>12 DEF CommitRolledBack, Mint, Expire, roomVars
<1>13. CASE Reconnect \/ Restart \/ UNCHANGED vars
  BY <1>11, <1>13 DEF Reconnect, Restart, vars, roomVars
<1>. QED
  BY <1>3, <1>4, <1>5, <1>6, <1>7, <1>8, <1>9, <1>10, <1>12, <1>13 DEF Next

LEMMA Inductive == Spec => []IInv
BY InitInv, NextInv, PTL DEF Spec

-----------------------------------------------------------------------------
(* A vetoed proposal always has a member's rejection standing against it,   *)
(* and an open, staged or committed one has none.                           *)
THEOREM VetoesBlock == Spec => []VetoBlocksWhileItStands
<1>1. IInv => VetoBlocksWhileItStands
  BY DEF IInv
<1>. QED
  BY <1>1, Inductive, PTL

(* No proposal stays live outside deliberation or into the next step. *)
THEOREM NothingCarriedOver == Spec => []LiveOnlyInDeliberation
<1>1. IInv => LiveOnlyInDeliberation
  BY DEF IInv
<1>. QED
  BY <1>1, Inductive, PTL

(* Nobody who was in the room at the commit is without an accept or an      *)
(* abstention on the committed destination.                                 *)
THEOREM ConsentAtCommit == Spec => []CommittedByConsent
<1>1. IInv => CommittedByConsent
  BY DEF IInv
<1>. QED
  BY <1>1, Inductive, PTL

(* A step never gets two destinations, and a room is decided exactly when   *)
(* its current step has one.                                                *)
THEOREM OneSurvivor == Spec => []OneDestinationPerStep
<1>1. IInv => OneDestinationPerStep
  BY DEF IInv
<1>. QED
  BY <1>1, Inductive, PTL

(* The plan's steps are settled one after the other, each by the proposal   *)
(* committed for it.                                                        *)
THEOREM PlanInOrder == Spec => []PlanSettledInOrder
<1>1. IInv => PlanSettledInOrder
  BY DEF IInv
<1>. QED
  BY <1>1, Inductive, PTL

-----------------------------------------------------------------------------
(* Only a commit writes a settlement, and the step it settles had none.     *)
LEMMA SettledStands ==
  ASSUME IInv, [Next]_vars, NEW s \in Plan, settled[s] # 0
  PROVE  settled'[s] = settled[s]
<1>1. CASE \E p \in Props : CommitAgreement(p)
  <2>1. phase = "deliberation"
    BY <1>1 DEF CommitAgreement
  <2>2. s # active
    BY <2>1 DEF IInv, PlanSettledInOrder, Decided
  <2>. QED
    BY <1>1, <2>2 DEF CommitAgreement, IInv, TypeOK
<1>2. CASE ~ \E p \in Props : CommitAgreement(p)
  BY <1>2
  DEF Next, Join, SetReadyState, EligibilityCommand, ProposeDestination, RespondToProposal,
      ConfirmAgreement, AbortStage, CommitRolledBack, PlanArrival, Mint, Expire, Reconnect,
      Restart, planVars, vars
<1>. QED
  BY <1>1, <1>2

(* The five commands that touch the proposals' rows. *)
LEMMA ProposalSteps ==
  ASSUME [Next]_vars
  PROVE  \/ \E m \in Participants, p \in Props, c \in Places : ProposeDestination(m, p, c)
         \/ \E m \in Participants, p \in Props, d \in Dispositions : RespondToProposal(m, p, d)
         \/ \E p \in Props : ConfirmAgreement(p) \/ AbortStage(p)
         \/ \E p \in Props : CommitAgreement(p)
         \/ UNCHANGED proposalVars
BY DEF Next, Join, SetReadyState, EligibilityCommand, CommitRolledBack, PlanArrival, Mint,
       Expire, Reconnect, Restart, vars

(* Every handler's status guard keeps it off a decided proposal. *)
LEMMA DecidedStands ==
  ASSUME IInv, [Next]_vars, NEW q \in Props, status[q] \in {"committed", "withdrawn"}
  PROVE  status'[q] = status[q] /\ stance'[q] = stance[q]
<1> USE DEF IInv, TypeOK
<1>1. ASSUME NEW m \in Participants, NEW p \in Props, NEW c \in Places,
             ProposeDestination(m, p, c)
      PROVE  status'[q] = status[q] /\ stance'[q] = stance[q]
  <2>1. p >= p
    BY RoomAssumption DEF Props
  <2>2. q # p
    BY <1>1, <2>1 DEF ProposeDestination
  <2>. QED
    BY <1>1, <2>2 DEF ProposeDestination
<1>2. ASSUME NEW m \in Participants, NEW p \in Props, NEW d \in Dispositions,
             RespondToProposal(m, p, d)
      PROVE  status'[q] = status[q] /\ stance'[q] = stance[q]
  <2>1. q # p
    BY <1>2 DEF RespondToProposal
  <2>. QED
    BY <1>2, <2>1 DEF RespondToProposal
<1>3. ASSUME NEW p \in Props, ConfirmAgreement(p) \/ AbortStage(p)
      PROVE  status'[q] = status[q] /\ stance'[q] = stance[q]
  BY <1>3 DEF ConfirmAgreement, AbortStage
<1>4. ASSUME NEW p \in Props, CommitAgreement(p)
      PROVE  status'[q] = status[q] /\ stance'[q] = stance[q]
  BY <1>4 DEF CommitAgreement, Competing, Live
<1>5. CASE UNCHANGED proposalVars
  BY <1>5 DEF proposalVars
<1>. QED
  BY <1>1, <1>2, <1>3, <1>4, <1>5, ProposalSteps

(* A committed or withdrawn proposal, the stances on it and a settlement    *)
(* are never touched again, by any command at any later step of the plan.   *)
THEOREM DecisionsAreFinal == Spec => DecisionsStand
<1>1. IInv /\ [Next]_vars =>
        [ /\ \A p \in Props : status[p] \in {"committed", "withdrawn"} =>
               status'[p] = status[p] /\ stance'[p] = stance[p]
          /\ \A s \in Plan : settled[s] # 0 => settled'[s] = settled[s] ]_vars
  BY SettledStands, DecidedStands
<1>. QED
  BY <1>1, Inductive, PTL DEF Spec, DecisionsStand

-----------------------------------------------------------------------------
(* The refinement: each step of the room is a step of Destination. *)
LEMMA BackingType == Backing \in [Promise!Options -> SUBSET members]
BY DEF Backing, Backers, Promise!Options

LEMMA BackingTypeNext == Backing' \in [Promise!Options -> SUBSET members']
BY DEF Backing, Backers, Promise!Options

LEMMA InitPromise == Init => Promise!Init
<1> SUFFICES ASSUME Init PROVE Promise!Init
  OBVIOUS
<1>1. Decisions = {}
  BY DEF Init, Decisions
<1>2. \A o : Backers(o) = {}
  BY DEF Init, Backers, Live
<1>. QED
  BY <1>1, <1>2 DEF Init, Backing, Promise!Init, Promise!Options

LEMMA MindsChange ==
  ASSUME members' = members, Decisions' = Decisions
  PROVE  Promise!Next
BY BackingTypeNext DEF Promise!Next, Promise!ChangeMinds

(* A joiner has taken no stance yet, so backs nothing. *)
LEMMA JoinPromise ==
  ASSUME IInv, NEW m \in Participants, Join(m)
  PROVE  Promise!Next
<1>1. /\ m \in Participants \ members /\ members' = members \cup {m}
      /\ UNCHANGED <<ready, status, place, stepOf, stance>>
  BY DEF Join, proposalVars
<1>2. Decisions' = Decisions
  BY <1>1 DEF Decisions
<1>3. \A p \in Props : stance[p][m] \notin Consent
  BY <1>1 DEF IInv, Bookkeeping, Consent
<1>4. \A o : Backers(o)' = Backers(o)
  BY <1>1, <1>3 DEF Backers
<1>5. Backing' = Backing
  BY <1>4 DEF Backing
<1>. QED
  BY <1>1, <1>2, <1>5 DEF Promise!Next, Promise!Join

(* The commit finds everyone behind the place, its step undecided and every *)
(* step before it decided.                                                  *)
LEMMA CommitPromise ==
  ASSUME IInv, NEW p \in Props, CommitAgreement(p)
  PROVE  Promise!Next
<1> USE DEF IInv
<1>1. /\ phase = "deliberation" /\ status[p] = "staged" /\ stepOf[p] = active
      /\ UNCHANGED <<members, place, stepOf>>
  BY DEF CommitAgreement, LiveOnlyInDeliberation, Live
<1>2. active \in FirstStep..Steps /\ place[p] \in Places
  BY <1>1 DEF Bookkeeping
<1>3. Promise!Undecided(active)
  BY <1>1 DEF Promise!Undecided, Decisions, OneDestinationPerStep, Decided
<1>4. ASSUME NEW r \in FirstStep..Steps, r < active PROVE ~ Promise!Undecided(r)
  <2>1. r \in Plan
    BY <1>2, <1>4, RoomAssumption DEF FirstStep, Plan
  <2>2. settled[r] # 0 /\ status[settled[r]] = "committed" /\ stepOf[settled[r]] = r
    BY <1>4, <2>1 DEF PlanSettledInOrder
  <2>3. settled[r] \in Props
    BY <2>1, <2>2, RoomAssumption DEF TypeOK, Props
  <2>4. <<r, place[settled[r]]>> \in Decisions /\ place[settled[r]] \in Places
    BY <2>2, <2>3 DEF Decisions, Bookkeeping
  <2>. QED
    BY <2>4 DEF Promise!Undecided
<1>5. Backing[<<active, place[p]>>] = members
  <2>1. \A m \in members : ready[m] /\ stance[p][m] \in Consent
    BY UnblockedMeansConsent DEF CommitAgreement
  <2>2. Backers(<<active, place[p]>>) = members
    BY <1>1, <2>1 DEF Backers, Live
  <2>. QED
    BY <1>2, <2>2 DEF Backing
<1>6. Decisions' = Decisions \cup {<<active, place[p]>>}
  <2>1. \A q \in Props : status'[q] = "committed" <=> q = p \/ status[q] = "committed"
    <3>1. /\ status'[p] = "committed"
          /\ \A q \in Props : q # p =>
               status'[q] = IF status[q] \in Live THEN "withdrawn" ELSE status[q]
      BY DEF CommitAgreement, Competing, TypeOK
    <3>. QED
      BY <1>1, <3>1 DEF Live
  <2>. QED
    BY <1>1, <2>1 DEF Decisions
<1>7. Promise!Decide(active, place[p])
  BY <1>1, <1>2, <1>3, <1>4, <1>5, <1>6, BackingTypeNext DEF Promise!Decide
<1>. QED
  BY <1>2, <1>7 DEF Promise!Next

(* No other command moves a committed proposal or makes one. *)
LEMMA CommittedKept ==
  ASSUME IInv, [Next]_vars, ~ \E p \in Props : CommitAgreement(p), NEW q \in Props
  PROVE  /\ status'[q] = "committed" <=> status[q] = "committed"
         /\ status[q] = "committed" => stepOf'[q] = stepOf[q] /\ place'[q] = place[q]
<1> USE DEF IInv, TypeOK
<1> DEFINE kept == /\ status'[q] = "committed" <=> status[q] = "committed"
                   /\ status[q] = "committed" => stepOf'[q] = stepOf[q] /\ place'[q] = place[q]
<1>1. CASE \E m \in Participants, p \in Props, c \in Places : ProposeDestination(m, p, c)
  <2>1. PICK m \in Participants, p \in Props, c \in Places : ProposeDestination(m, p, c)
    BY <1>1
  <2>2. p >= p
    BY RoomAssumption DEF Props
  <2>3. status[p] = "none"
    BY <2>1, <2>2 DEF ProposeDestination
  <2>. QED
    BY <2>1, <2>3 DEF ProposeDestination
<1>2. CASE \E m \in Participants, p \in Props, d \in Dispositions : RespondToProposal(m, p, d)
  BY <1>2 DEF RespondToProposal
<1>3. CASE \E p \in Props : ConfirmAgreement(p) \/ AbortStage(p)
  BY <1>3 DEF ConfirmAgreement, AbortStage
<1>4. CASE UNCHANGED proposalVars
  BY <1>4 DEF proposalVars
<1>. HIDE DEF IInv, TypeOK, kept
<1>. QED
  BY <1>1, <1>2, <1>3, <1>4, ProposalSteps

LEMMA DecisionsKept ==
  ASSUME IInv, [Next]_vars, ~ \E p \in Props : CommitAgreement(p)
  PROVE  Decisions' = Decisions
<1>1. \A d : d \in Decisions <=>
             \E q \in Props : status[q] = "committed" /\ d = <<stepOf[q], place[q]>>
  BY DEF Decisions
<1>2. \A d : d \in Decisions' <=>
             \E q \in Props : status'[q] = "committed" /\ d = <<stepOf'[q], place'[q]>>
  BY DEF Decisions
<1>3. \A d : d \in Decisions' <=> d \in Decisions
  BY <1>1, <1>2, CommittedKept
<1>. QED
  <2>1. Decisions \subseteq Decisions' /\ Decisions' \subseteq Decisions
    BY <1>3
  <2>. QED
    BY <2>1

(* The room keeps Destination's promise: a step is decided once, in order,  *)
(* and only while everyone in the room backs the place.                     *)
THEOREM PromiseKept == Spec => KeepsPromise
<1>1. IInv /\ [Next]_vars => [Promise!Next]_<<members, Backing, Decisions>>
  <2> SUFFICES ASSUME IInv, [Next]_vars PROVE Promise!Next \/ UNCHANGED <<members, Backing, Decisions>>
    OBVIOUS
  <2>1. CASE \E p \in Props : CommitAgreement(p)
    BY <2>1, CommitPromise
  <2>2. CASE \E m \in Participants : Join(m)
    BY <2>2, JoinPromise
  <2>3. CASE /\ ~ \E p \in Props : CommitAgreement(p)
             /\ ~ \E m \in Participants : Join(m)
    <3>1. members' = members
      BY <2>3
      DEF Next, SetReadyState, EligibilityCommand, ProposeDestination, RespondToProposal,
          ConfirmAgreement, AbortStage, CommitRolledBack, PlanArrival, Mint, Expire,
          Reconnect, Restart, roomVars, vars
    <3>. QED
      BY <2>3, <3>1, DecisionsKept, MindsChange
  <2>. QED
    BY <2>1, <2>2, <2>3
<1>. QED
  BY <1>1, InitPromise, Inductive, PTL DEF Spec, KeepsPromise, Promise!Spec

=============================================================================
