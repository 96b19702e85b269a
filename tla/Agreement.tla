----------------------------- MODULE Agreement -----------------------------
(***************************************************************************)
(* How a room agrees on a destination: proposals, stances, readiness, the   *)
(* two-phase stage / commit of an agreement with its confirmation code, the *)
(* session phase machine, and the advance of a multi-step plan.             *)
(*                                                                          *)
(* Source: apps/server/src/{engine,phase,steps,confirmation,invites}.ts.    *)
(*                                                                          *)
(* Every command runs in one transaction that holds the room row            *)
(* (engine.ts SELECT .. FOR UPDATE) and is refused with sync_required unless*)
(* its baseRevision is the current revision, so a command that takes effect *)
(* is one atomic step from the current state; one that is refused changes   *)
(* nothing.  What is NOT atomic with the transaction is the confirmation    *)
(* registry, which lives in process memory: the code of a stage is minted   *)
(* after the COMMIT, is spent even when the transaction that presents it    *)
(* rolls back, expires, and dies with the process.                          *)
(***************************************************************************)
EXTENDS Naturals, FiniteSets

CONSTANTS
    Participants,   \* everyone who is, or may become, a member of the room
    Founders,       \* the members the room is created with
    Organizer,      \* the one member whose role is "organizer"
    Places,         \* the places a step's pool can hold
    NoPlace,        \* "no place": a proposal not made yet
    Steps,          \* number of steps of the room's plan, 0 for no plan
    Openable,       \* the steps whose area and place class are on record
    ProposalLimit,  \* proposals a room can ever hold (64 in the code)
    RoomLimit,      \* participants a room can ever hold (24 in the code)
    Dispositions    \* the stances a run lets participants take

AllDispositions == {"accept", "reject", "abstain", "conditionally_accept"}

ASSUME RoomAssumption ==
    /\ Founders \subseteq Participants
    /\ Organizer \in Founders
    /\ NoPlace \notin Places
    /\ Steps \in Nat
    /\ Openable \subseteq 1..Steps
    /\ ProposalLimit \in Nat
    /\ RoomLimit \in Nat
    /\ Dispositions \subseteq AllDispositions

VARIABLES
    phase,      \* rooms.phase
    members,    \* the participants rows
    ready,      \* participants.ready_state = 'ready'
    active,     \* index of rooms.active_step_id, 0 for a room without a plan
    settled,    \* the proposal each plan step settled on, 0 while it has not
    status,     \* proposals.status, "none" for a row not inserted yet
    place,      \* proposals.candidate_id: the place ...
    stepOf,     \* ... and the step whose pool the place belongs to
    stance,     \* stances.disposition, "none" for no row
    arrival,    \* members holding an arrival plan
    codes,      \* proposals with a live agreement code in the registry
    minting,    \* stages that have committed and not minted their code yet
    electorate  \* history: who was a member when a proposal was committed

roomVars    == <<phase, members, ready, arrival>>
planVars    == <<active, settled>>
proposalVars == <<status, place, stepOf, stance, electorate>>
codeVars    == <<codes, minting>>
vars        == <<roomVars, planVars, proposalVars, codeVars>>

Phases   == {"setup", "gathering", "deliberation", "agreed", "arrival", "closed"}
Statuses == {"none", "open", "vetoed", "staged", "committed", "withdrawn"}
Live     == {"open", "vetoed", "staged"}
Consent  == {"accept", "abstain"}
Props    == 1..ProposalLimit
Plan     == 1..Steps
FirstStep == IF Steps = 0 THEN 0 ELSE 1

TypeOK ==
    /\ phase \in Phases
    /\ members \subseteq Participants
    /\ ready \in [Participants -> BOOLEAN]
    /\ active \in 0..Steps
    /\ settled \in [Plan -> 0..ProposalLimit]
    /\ status \in [Props -> Statuses]
    /\ place \in [Props -> Places \cup {NoPlace}]
    /\ stepOf \in [Props -> 0..Steps]
    /\ stance \in [Props -> [Participants -> AllDispositions \cup {"none"}]]
    /\ arrival \subseteq Participants
    /\ codes \subseteq Props
    /\ minting \subseteq Props
    /\ electorate \in [Props -> SUBSET Participants]

-----------------------------------------------------------------------------
(* The phase machine: one event folded over the current phase. *)
Transition(ph, event) ==
    IF      ph = "setup"        /\ event = "participant_joined"   THEN "gathering"
    ELSE IF ph = "gathering"    /\ event = "proposal_created"     THEN "deliberation"
    ELSE IF ph = "gathering"    /\ event = "impasse_detected"     THEN "deliberation"
    ELSE IF ph = "deliberation" /\ event = "agreement_committed"  THEN "agreed"
    ELSE IF ph = "agreed"       /\ event = "arrival_plan_updated" THEN "arrival"
    ELSE IF ph = "agreed"       /\ event = "step_advanced"        THEN "gathering"
    ELSE ph

Negotiating == {"gathering", "deliberation"}
Decided     == {"agreed", "arrival"}
InRoom      == Phases \ {"closed"}

(* Every command ends in the impasse bracket, which may append              *)
(* impasse_detected to its events; whether it does is decided by the pool   *)
(* and the needs, which this module leaves open.                            *)
Bracket(ph) == {ph, Transition(ph, "impasse_detected")}

ReopenUnlooked(stances) == TRUE  \* mutant: any softer stance reopens
Reopenable(stances) == \A m \in Participants : stances[m] # "reject"

(* The statuses of the competitors a commit retires. *)
CompetingUnstaged == {"open", "vetoed"}       \* mutant: forgets the other stage
CompetingAny      == Statuses \ {"none"}      \* mutant: no status filter
Competing == Live

(* agreementBlockers: why a proposal can be neither staged nor committed. *)
NotReady(p)   == \E m \in members : ~ ready[m]
VetoStands(p) == \E m \in members : stance[p][m] = "reject"
Conditions(p) == \E m \in members : stance[p][m] = "conditionally_accept"
Missing(p)    == \E m \in members : stance[p][m] \notin Consent
BlockedButSilent(p)  == NotReady(p) \/ VetoStands(p) \/ Conditions(p)  \* mutant
BlockedButUnready(p) == VetoStands(p) \/ Conditions(p) \/ Missing(p)   \* mutant
Blocked(p)    == NotReady(p) \/ VetoStands(p) \/ Conditions(p) \/ Missing(p)

(* Whether settleAndAdvance opens another step, and whether it writes the   *)
(* settlement at all: it returns before writing when the next step's area,  *)
(* class or pool is not on record.                                          *)
Advances == active \in Plan /\ active + 1 \in Openable
NoLastStep == FALSE                \* mutant: only an advance settles
LastStep == active \in Plan /\ active = Steps

-----------------------------------------------------------------------------
Init ==
    /\ phase = "gathering"
    /\ members = Founders
    /\ ready = [m \in Participants |-> FALSE]
    /\ active = FirstStep
    /\ settled = [s \in Plan |-> 0]
    /\ status = [p \in Props |-> "none"]
    /\ place = [p \in Props |-> NoPlace]
    /\ stepOf = [p \in Props |-> 0]
    /\ stance = [p \in Props |-> [m \in Participants |-> "none"]]
    /\ arrival = {}
    /\ codes = {}
    /\ minting = {}
    /\ electorate = [p \in Props |-> {}]

(* claimInvite: an unclaimed link brings a new member in, at any phase; it  *)
(* is not a command, so no impasse bracket follows.                         *)
Join(m) ==
    /\ m \in Participants \ members
    /\ Cardinality(members) < RoomLimit
    /\ members' = members \cup {m}
    /\ phase' = Transition(phase, "participant_joined")
    /\ UNCHANGED <<ready, arrival, planVars, proposalVars, codeVars>>

SetReadyState(m, state) ==
    /\ phase \in InRoom
    /\ m \in members
    /\ ready' = [ready EXCEPT ![m] = state]
    /\ phase' \in Bracket(phase)
    /\ UNCHANGED <<members, arrival, planVars, proposalVars, codeVars>>

(* Needs, screening, scope, pool and fact commands: none of them touches a  *)
(* proposal, but any of them can be what detects an impasse.                *)
EligibilityCommand ==
    /\ phase \in Negotiating
    /\ phase' = Transition(phase, "impasse_detected")
    /\ UNCHANGED <<members, ready, arrival, planVars, proposalVars, codeVars>>

(* Proposal ids count up from 1, and only a place of the live pool counts. *)
ProposeDestination(m, p, c) ==
    /\ phase \in Negotiating
    /\ m \in members
    /\ \A q \in Props : status[q] \in Live => <<stepOf[q], place[q]>> # <<active, c>>
    /\ \A q \in Props : status[q] = "none" <=> q >= p
    /\ status' = [status EXCEPT ![p] = "open"]
    /\ place' = [place EXCEPT ![p] = c]
    /\ stepOf' = [stepOf EXCEPT ![p] = active]
    /\ phase' = Transition(phase, "proposal_created")
    /\ UNCHANGED <<members, ready, arrival, planVars, stance, electorate, codeVars>>

RespondToProposal(m, p, d) ==
    /\ phase \in Negotiating
    /\ m \in members
    /\ status[p] \in {"open", "vetoed"}
    /\ stance' = [stance EXCEPT ![p][m] = d]
    /\ status' = [status EXCEPT ![p] =
                    IF d = "reject" THEN "vetoed"
                    ELSE IF Reopenable(stance'[p]) THEN "open" ELSE @]
    /\ ready' = [ready EXCEPT ![m] = @ \/ d = "accept"]
    /\ phase' \in Bracket(phase)
    /\ UNCHANGED <<members, arrival, planVars, place, stepOf, electorate, codeVars>>

(* The organizer stages; the code that authorises the commit is minted only *)
(* after this transaction is durable.                                       *)
ConfirmAgreement(p) ==
    /\ phase = "deliberation"
    /\ status[p] = "open"
    /\ ~ Blocked(p)
    /\ status' = [status EXCEPT ![p] = "staged"]
    /\ minting' = minting \cup {p}
    /\ UNCHANGED <<roomVars, planVars, place, stepOf, stance, electorate, codes>>

(* commitAgreement re-checks the precondition: a blocker that appeared since *)
(* the stage reopens the proposal, and that is a successful command.         *)
AbortStage(p) ==
    /\ phase = "deliberation"
    /\ p \in codes
    /\ status[p] = "staged"
    /\ Blocked(p)
    /\ codes' = codes \ {p}
    /\ status' = [status EXCEPT ![p] = "open"]
    /\ UNCHANGED <<roomVars, planVars, place, stepOf, stance, electorate, minting>>

(* The commit retires every competitor and settles the plan's step in the   *)
(* same transaction, so no one sees the one without the other.              *)
CommitAgreement(p) ==
    /\ phase = "deliberation"
    /\ p \in codes
    /\ status[p] = "staged"
    /\ ~ Blocked(p)
    /\ codes' = codes \ {p}
    /\ status' = [q \in Props |->
                    IF q = p THEN "committed"
                    ELSE IF status[q] \in Competing THEN "withdrawn" ELSE status[q]]
    /\ electorate' = [electorate EXCEPT ![p] = members]
    /\ settled' = IF Advances \/ LastStep THEN [settled EXCEPT ![active] = p]
                                          ELSE settled
    /\ active' = IF Advances THEN active + 1 ELSE active
    /\ phase' = LET agreed == Transition(phase, "agreement_committed")
                IN  IF Advances THEN Transition(agreed, "step_advanced") ELSE agreed
    /\ UNCHANGED <<members, ready, arrival, place, stepOf, stance, minting>>

(* A code is spent on presentation: the proposal is not staged any more, or *)
(* the transaction fails after the code was consumed and rolls back.        *)
CommitRolledBack(p) ==
    /\ phase = "deliberation"
    /\ p \in codes
    /\ codes' = codes \ {p}
    /\ UNCHANGED <<roomVars, planVars, proposalVars, minting>>

PlanArrival(m) ==
    /\ phase \in Decided
    /\ m \in members
    /\ arrival' = arrival \cup {m}
    /\ phase' = Transition(phase, "arrival_plan_updated")
    /\ UNCHANGED <<members, ready, planVars, proposalVars, codeVars>>

-----------------------------------------------------------------------------
(* The confirmation registry of the server process. *)
Mint(p) ==
    /\ p \in minting
    /\ minting' = minting \ {p}
    /\ codes' = codes \cup {p}
    /\ UNCHANGED <<roomVars, planVars, proposalVars>>

Expire(p) ==
    /\ p \in codes
    /\ codes' = codes \ {p}
    /\ UNCHANGED <<roomVars, planVars, proposalVars, minting>>

(* The organizer's page (re)connects: every staged proposal's live code is  *)
(* sent again, or a new one minted.                                         *)
Reconnect ==
    /\ codes' = codes \cup {p \in Props : status[p] = "staged"}
    /\ UNCHANGED <<roomVars, planVars, proposalVars, minting>>

Restart ==
    /\ codes' = {}
    /\ minting' = {}
    /\ UNCHANGED <<roomVars, planVars, proposalVars>>

Next ==
    \/ \E m \in Participants : Join(m)
    \/ \E m \in Participants, state \in BOOLEAN : SetReadyState(m, state)
    \/ EligibilityCommand
    \/ \E m \in Participants, p \in Props, c \in Places : ProposeDestination(m, p, c)
    \/ \E m \in Participants, p \in Props, d \in Dispositions : RespondToProposal(m, p, d)
    \/ \E p \in Props : ConfirmAgreement(p)
    \/ \E p \in Props : AbortStage(p)
    \/ \E p \in Props : CommitAgreement(p)
    \/ \E p \in Props : CommitRolledBack(p)
    \/ \E m \in Participants : PlanArrival(m)
    \/ \E p \in Props : Mint(p)
    \/ \E p \in Props : Expire(p)
    \/ Reconnect
    \/ Restart

Spec == Init /\ [][Next]_vars

-----------------------------------------------------------------------------
(* A veto blocks exactly while it stands: a vetoed proposal has a standing  *)
(* rejection, and none stands against a proposal that is open, staged or    *)
(* committed (respondToProposal's veto and reopen, the gate on staged).     *)
VetoBlocksWhileItStands ==
    \A p \in Props :
        /\ status[p] = "vetoed" => \E m \in members : stance[p][m] = "reject"
        /\ status[p] \in {"open", "staged", "committed"} =>
              \A m \in Participants : stance[p][m] # "reject"

(* A proposal that can still be responded to, staged or committed exists    *)
(* only while the room deliberates, and is about the step the room is on:   *)
(* commitAgreement retires every competitor, those staged beside it too, so *)
(* none is carried into the next step or past the decision.                 *)
LiveOnlyInDeliberation ==
    \A p \in Props : status[p] \in Live => phase = "deliberation" /\ stepOf[p] = active

(* Everyone who was in the room when a destination was committed still      *)
(* stands behind it, the organizer included, however readiness, membership  *)
(* and stances moved between the stage and the commit, and since.           *)
CommittedByConsent ==
    \A p \in Props : status[p] = "committed" =>
        /\ Founders \subseteq electorate[p]
        /\ \A m \in electorate[p] : stance[p][m] \in Consent

(* Exactly one destination survives a commit: no two committed proposals    *)
(* share a step, and a decided room has one for the step it is on.          *)
OneDestinationPerStep ==
    /\ \A p, q \in Props :
          status[p] = "committed" /\ status[q] = "committed" /\ stepOf[p] = stepOf[q] => p = q
    /\ phase \in Decided <=>
          \E p \in Props : status[p] = "committed" /\ stepOf[p] = active

(* The plan is settled in order and each step by the proposal committed for *)
(* it: a step behind the active one is settled, one ahead of it is not, and *)
(* the active one only in a decided room, and then if it was the last       *)
(* (settleAndAdvance).                                                      *)
PlanSettledInOrder ==
    /\ \A s \in Plan :
          /\ s < active => settled[s] # 0
          /\ s > active => settled[s] = 0
          /\ settled[s] # 0 =>
                /\ status[settled[s]] = "committed"
                /\ stepOf[settled[s]] = s
                /\ s = active => phase \in Decided
    /\ phase \in Decided /\ active \in Plan /\ active = Steps => settled[active] # 0

(* Committed and withdrawn are absorbing: neither the proposal, nor a       *)
(* stance on it, nor a settlement ever changes again, through the steps     *)
(* that follow (NEGOTIATION-PROTOCOL 7.3, respondToProposal's first guard). *)
DecisionsStand ==
    [][ /\ \A p \in Props : status[p] \in {"committed", "withdrawn"} =>
             status'[p] = status[p] /\ stance'[p] = stance[p]
        /\ \A s \in Plan : settled[s] # 0 => settled'[s] = settled[s] ]_vars

(* The abstract promise, over the commands' state: a place is backed by the *)
(* members who are ready and accept or abstain on a live proposal of it.    *)
Backers(o) ==
    {m \in members : ready[m] /\ \E p \in Props :
        /\ status[p] \in Live
        /\ <<stepOf[p], place[p]>> = o
        /\ stance[p][m] \in Consent}

Backing == [o \in (FirstStep..Steps) \X Places |-> Backers(o)]

Decisions ==
    {<<stepOf[p], place[p]>> : p \in {q \in Props : status[q] = "committed"}}

Promise == INSTANCE Destination WITH
    Voters  <- Participants,
    StepIds <- FirstStep..Steps,
    roster  <- members,
    backing <- Backing,
    decided <- Decisions

(* Whatever the interleaving of joins, readiness, stances, stages, aborts   *)
(* and expired or re-sent codes, the room decides only as Destination says. *)
KeepsPromise == Promise!Spec

=============================================================================
