------------------------------ MODULE Screening ------------------------------
(* One participant's agent-private condition (nl/holder.ts, screening.ts,    *)
(* POST /api/nl/condition): the text is held in memory only, the room gets a *)
(* declaration without content, and places are judged against the text in    *)
(* the background, a batch at a time.                                        *)
(*                                                                          *)
(* Once the room has agreed on its last step it takes neither declarations   *)
(* nor verdicts (phase.ts): a text may then stay held although places are    *)
(* unscreened.                                                               *)
(*                                                                          *)
(* Texts are numbered in the order they were said.  The room keeps no text:  *)
(* `stands' and the text of a verdict are history.  Revisions are only ever  *)
(* compared with the head, so of a revision that was read the model keeps    *)
(* whether the head is still there; likewise for the revision of a place's   *)
(* facts.                                                                    *)
EXTENDS Integers, FiniteSets

CONSTANTS
    Places,         \* the live pool
    Batch,          \* places judged at a time
    MaxBatches,     \* batches of one run
    MaxTexts,       \* bound: conditions said
    MaxOutside,     \* bound: commits of others, changed facts, withdrawals
    MaxFaults       \* bound: restarts, failed calls and runs

ASSUME ScreeningAssumption ==
    /\ IsFiniteSet(Places)
    /\ {Batch, MaxBatches, MaxTexts} \subseteq Nat \ {0}
    /\ {MaxOutside, MaxFaults} \subseteq Nat

VARIABLES
    held,       \* the text the agent holds, with its generation
    stands,     \* the text the room's declaration was made for; 0: none
    verdict,    \* per place: its verdict row
    request,    \* per text: the call of /api/nl/condition
    run,        \* the screening run under way
    rerun,      \* another run is wanted behind it
    wakes,      \* wakes by commits still on their way
    agreed,     \* the room's phase is agreed or arrival, for good
    refused,    \* history: a declaration was refused
    outside, faults

room == <<stands, agreed>>
vars == <<held, stands, verdict, request, run, rerun, wakes, agreed, refused, outside, faults>>

Texts == 1..MaxTexts
None  == 0

Run == [at     : {"none", "checking", "letting go", "picking", "reading", "judging", "looking",
                  "rereading", "judging again", "recording"},
        text   : {None} \cup Texts,
        gen    : 0..MaxTexts,
        left   : 0..MaxBatches,     \* batches to go
        ids    : SUBSET Places,     \* the batch
        fresh  : BOOLEAN,           \* the room is at the revision the facts were read at
        moved  : SUBSET Places]     \* places whose facts changed since they were read

NoRun  == [at |-> "none", text |-> None, gen |-> 0, left |-> 0, ids |-> {},
           fresh |-> FALSE, moved |-> {}]
NoHold == [text |-> None, gen |-> 0]
NoVerdict == [text |-> None, current |-> FALSE]

TypeOK ==
    /\ held \in [text : {None} \cup Texts, gen : 0..MaxTexts]
    /\ stands \in {None} \cup Texts
    /\ verdict \in [Places -> [text : {None} \cup Texts, current : BOOLEAN]]
    /\ request \in [Texts -> [at : {"none", "held", "sent", "over"}, fresh : BOOLEAN]]
    /\ run \in Run
    /\ {rerun, agreed, refused} \subseteq BOOLEAN
    /\ wakes \in Nat
    /\ outside \in 0..MaxOutside
    /\ faults \in 0..MaxFaults

-----------------------------------------------------------------------------
(* Every commit moves the head, so what was read before it is stale, and     *)
(* wakes the agent if it holds a condition at that moment.                   *)
Stale(requests) == [n \in Texts |-> [requests[n] EXCEPT !.fresh = FALSE]]

StaleRun(r) == [r EXCEPT !.fresh = FALSE]

Woken(h) == wakes + (IF h.text = None THEN 0 ELSE 1)

\* What the phase admits of declarations, withdrawals and verdicts.
StillChoosing == ~agreed

-----------------------------------------------------------------------------
(* Saying a condition.                                                       *)

Hold(n) == held' = [text |-> n, gen |-> held.gen + 1]
Release == held' = NoHold

\* The sentence has been read; the text is held before the room knows of it.
Say(n) ==
    /\ request[n].at = "none"
    /\ \A earlier \in 1..(n - 1) : request[earlier].at # "none"
    /\ Hold(n)
    /\ request' = [request EXCEPT ![n].at = "held"]
    /\ UNCHANGED <<room, verdict, run, rerun, wakes, refused, outside, faults>>

ReadRoom(n) ==
    /\ request[n].at = "held"
    /\ request' = [request EXCEPT ![n] = [at |-> "sent", fresh |-> TRUE]]
    /\ UNCHANGED <<held, room, verdict, run, rerun, wakes, refused, outside, faults>>

HeldAtAll    == held.text # None                 \* mutant: no generations
StillCurrent == held.gen = run.gen

ScreenOnce(h, r) ==                              \* mutant: the wish is dropped
    IF h.text = None \/ r.at # "none" THEN run' = r /\ rerun' = rerun
    ELSE /\ run' = [NoRun EXCEPT !.at = "checking", !.text = h.text, !.gen = h.gen,
                                 !.left = MaxBatches]
         /\ rerun' = rerun

(* screenPending: one run at a time; a wish that comes meanwhile is kept.    *)
ScreenPending(h, r) ==
    CASE h.text = None -> run' = r /\ rerun' = rerun
      [] h.text # None /\ r.at # "none" -> run' = r /\ rerun' = TRUE
      [] h.text # None /\ r.at = "none" ->
            /\ run' = [NoRun EXCEPT !.at = "checking", !.text = h.text, !.gen = h.gen,
                                    !.left = MaxBatches]
            /\ rerun' = rerun

(* SubmitRequirement commits on the head only: earlier verdicts go, and the  *)
(* answer starts a run.                                                      *)
Declare(n) ==
    /\ request[n].at = "sent" /\ request[n].fresh /\ StillChoosing
    /\ stands' = n
    /\ verdict' = [p \in Places |-> NoVerdict]
    /\ request' = [Stale(request) EXCEPT ![n].at = "over"]
    /\ wakes' = Woken(held)
    /\ ScreenPending(held, StaleRun(run))
    /\ UNCHANGED <<held, agreed, refused, outside, faults>>

(* Refused, for a commit that came first, for the room's phase or for one of *)
(* its limits: the text is let go.                                           *)
DeclareRefused(n) ==
    /\ request[n].at = "sent"
    /\ Release
    /\ request' = [request EXCEPT ![n].at = "over"]
    /\ refused' = TRUE
    /\ UNCHANGED <<room, verdict, run, rerun, wakes, outside, faults>>

-----------------------------------------------------------------------------
(* The room goes on.                                                         *)

OtherCommit ==
    /\ outside < MaxOutside
    /\ outside' = outside + 1
    /\ request' = Stale(request)
    /\ run' = StaleRun(run)
    /\ wakes' = Woken(held)
    /\ UNCHANGED <<held, room, verdict, rerun, refused, faults>>

\* The last step of the room is agreed on, whatever is under way.
Agree ==
    /\ outside < MaxOutside
    /\ outside' = outside + 1
    /\ StillChoosing
    /\ agreed' = TRUE
    /\ request' = Stale(request)
    /\ run' = StaleRun(run)
    /\ wakes' = Woken(held)
    /\ UNCHANGED <<held, stands, verdict, rerun, refused, faults>>

\* What is known of a place changes: its verdicts no longer count.
FactsChange(p) ==
    /\ verdict' = [verdict EXCEPT ![p].current = FALSE]
    /\ request' = IF stands = None THEN request ELSE Stale(request)
    /\ wakes' = Woken(held)
    /\ UNCHANGED <<held, room, rerun, refused, faults>>

OutsideFacts ==
    /\ outside < MaxOutside
    /\ outside' = outside + 1
    /\ \E p \in Places :
        /\ FactsChange(p)
        /\ run' = [run EXCEPT !.fresh = @ /\ stands = None,
                              !.moved = IF p \in run.ids THEN @ \cup {p} ELSE @]

\* The owner withdraws the declaration, on the page or through a tool.
Withdraw ==
    /\ outside < MaxOutside
    /\ outside' = outside + 1
    /\ StillChoosing
    /\ stands # None
    /\ stands' = None
    /\ request' = Stale(request)
    /\ run' = StaleRun(run)
    /\ wakes' = Woken(held)
    /\ UNCHANGED <<held, verdict, rerun, agreed, refused, faults>>

-----------------------------------------------------------------------------
(* The run.                                                                  *)

\* The wake has found its participant.
Wake ==
    /\ wakes > 0
    /\ wakes' = wakes - 1
    /\ ScreenPending(held, run)
    /\ UNCHANGED <<held, room, verdict, request, refused, outside, faults>>

RunEndsAlone(h) == rerun' = FALSE /\ run' = NoRun   \* mutant: forgets who asked

(* The end of a run starts the next one if somebody asked for it.            *)
RunEnds(h) ==
    /\ rerun' = FALSE
    /\ run' = IF rerun /\ h.text # None
              THEN [NoRun EXCEPT !.at = "checking", !.text = h.text, !.gen = h.gen,
                                 !.left = MaxBatches]
              ELSE NoRun

Continue(r) == run' = r /\ rerun' = rerun

NextBatch(r) == [r EXCEPT !.at = "picking", !.ids = {}, !.fresh = FALSE, !.moved = {}]

\* declarationStands: what the room says, acted upon when the answer comes.
Check ==
    /\ run.at = "checking"
    /\ IF stands = None THEN Continue([run EXCEPT !.at = "letting go"])
       ELSE IF StillCurrent THEN Continue(NextBatch(run)) ELSE RunEnds(held)
    /\ UNCHANGED <<held, room, verdict, request, wakes, refused, outside, faults>>

(* Withdrawn from any surface, the text goes with the declaration: whatever  *)
(* text is held by then.                                                     *)
LetGo ==
    /\ run.at = "letting go"
    /\ Release
    /\ RunEnds(NoHold)
    /\ UNCHANGED <<room, verdict, request, wakes, refused, outside, faults>>

NeverScreened == {p \in Places : verdict[p].text = None}   \* mutant: stale ones count
Unscreened == {p \in Places : verdict[p].text = None \/ ~verdict[p].current}

Batches(S) == {ids \in SUBSET S :
                Cardinality(ids) = (IF Cardinality(S) < Batch THEN Cardinality(S) ELSE Batch)}

Pick ==
    /\ run.at = "picking"
    /\ IF Unscreened = {} THEN RunEnds(held)
       ELSE \E ids \in Batches(Unscreened) :
                Continue([run EXCEPT !.at = "reading", !.ids = ids])
    /\ UNCHANGED <<held, room, verdict, request, wakes, refused, outside, faults>>

\* inspectCandidates: the facts and the room's revision, in one snapshot.
Read ==
    /\ run.at \in {"reading", "rereading"}
    /\ Continue([run EXCEPT !.at = IF @ = "reading" THEN "judging" ELSE "judging again",
                            !.fresh = TRUE, !.moved = {}])
    /\ UNCHANGED <<held, room, verdict, request, wakes, refused, outside, faults>>

(* The model has answered.  Where it needs information, one lookup is made   *)
(* first; what is recorded is checked once more against the held text.       *)
Judged ==
    /\ run.at \in {"judging", "judging again"}
    /\ \/ /\ run.at = "judging" /\ StillCurrent
          /\ Continue([run EXCEPT !.at = "looking"])
       \/ IF StillCurrent THEN Continue([run EXCEPT !.at = "recording"]) ELSE RunEnds(held)
    /\ UNCHANGED <<held, room, verdict, request, wakes, refused, outside, faults>>

(* The lookup has ended.  New facts about the batch are read and judged      *)
(* again; without any, the first judgement is used.                          *)
Looked ==
    /\ run.at = "looking"
    /\ IF ~StillCurrent THEN RunEnds(held)
       ELSE IF run.moved = {} THEN Continue([run EXCEPT !.at = "recording"])
       ELSE Continue([run EXCEPT !.at = "rereading"])
    /\ UNCHANGED <<held, room, verdict, request, wakes, refused, outside, faults>>

LookupFinds ==
    /\ run.at = "looking" /\ outside < MaxOutside
    /\ outside' = outside + 1
    /\ \E p \in run.ids :
        /\ FactsChange(p)
        /\ run' = [run EXCEPT !.fresh = @ /\ stands = None, !.moved = @ \cup {p}]

AnyBatches  == TRUE                              \* mutant: no limit
MoreBatches == run.left > 1

(* EvaluateCandidates commits on the head only, while the room still         *)
(* chooses, and only for somebody who has a declaration.  Refused, it ends   *)
(* the run.                                                                  *)
Recorded ==
    /\ run.at = "recording"
    /\ IF run.fresh /\ StillChoosing /\ stands # None
       THEN /\ verdict' = [p \in Places |-> IF p \in run.ids
                            THEN [text |-> run.text, current |-> p \notin run.moved]
                            ELSE verdict[p]]
            /\ request' = Stale(request)
            /\ wakes' = Woken(held)
            /\ IF MoreBatches /\ StillCurrent
               THEN Continue(NextBatch([run EXCEPT !.left = @ - 1]))
               ELSE RunEnds(held)
       ELSE RunEnds(held) /\ UNCHANGED <<verdict, request, wakes>>
    /\ UNCHANGED <<held, room, refused, outside, faults>>

-----------------------------------------------------------------------------
(* A call of the endpoint throws, the sentence being held: it stays held,    *)
(* declared or not.                                                          *)
ConditionFails(n) ==
    /\ request[n].at \in {"held", "sent"} /\ faults < MaxFaults
    /\ faults' = faults + 1
    /\ request' = [request EXCEPT ![n].at = "over"]
    /\ UNCHANGED <<held, room, verdict, run, rerun, wakes, refused, outside>>

\* A query, the model or a command fails: the run ends.
RunFails ==
    /\ run.at \notin {"none", "letting go"} /\ faults < MaxFaults
    /\ faults' = faults + 1
    /\ RunEnds(held)
    /\ UNCHANGED <<held, room, verdict, request, wakes, refused, outside>>

\* The process ends: what was held is gone, calls under way with it.
Restart ==
    /\ faults < MaxFaults
    /\ faults' = faults + 1
    /\ Release
    /\ run' = NoRun
    /\ rerun' = FALSE
    /\ wakes' = 0
    /\ request' = [n \in Texts |-> IF request[n].at = "none" THEN request[n]
                                   ELSE [at |-> "over", fresh |-> FALSE]]
    /\ UNCHANGED <<room, verdict, refused, outside>>

Init ==
    /\ held = NoHold
    /\ stands = None
    /\ verdict = [p \in Places |-> NoVerdict]
    /\ request = [n \in Texts |-> [at |-> "none", fresh |-> FALSE]]
    /\ run = NoRun
    /\ rerun = FALSE /\ wakes = 0 /\ agreed = FALSE /\ refused = FALSE
    /\ outside = 0 /\ faults = 0

Condition(n) == Say(n) \/ ReadRoom(n) \/ Declare(n) \/ DeclareRefused(n)
Answered(n)  == ReadRoom(n) \/ Declare(n) \/ DeclareRefused(n)
Outside      == OtherCommit \/ Agree \/ OutsideFacts \/ Withdraw
Fault        == (\E n \in Texts : ConditionFails(n)) \/ RunFails \/ Restart
Step         == Check \/ LetGo \/ Pick \/ Read \/ Judged \/ Looked \/ Recorded

Next == (\E n \in Texts : Condition(n)) \/ Outside \/ LookupFinds \/ Wake \/ Step
            \/ Fault

(* Calls are answered, wakes arrive and runs go on.                          *)
Fairness == (\A n \in Texts : WF_vars(Answered(n))) /\ WF_vars(Wake) /\ WF_vars(Step)

Spec == Init /\ [][Next]_vars /\ Fairness

-----------------------------------------------------------------------------
Quiet == run.at = "none" /\ wakes = 0 /\ \A n \in Texts : request[n].at \in {"none", "over"}

(* Verdicts from an older text never land on a newer declaration, as long as *)
(* no declaration was refused (holder.ts 81-83).                             *)
OlderTextNeverLands ==
    ~refused => \A p \in Places : verdict[p].text # None => stands <= verdict[p].text

(* The same without the condition: the comment at holder.ts 81-83 makes      *)
(* none.                                                                     *)
VerdictsOfTheNewest ==
    \A p \in Places : verdict[p].text # None => stands <= verdict[p].text

(* No wish for another run is lost: when nothing is under way in a room that *)
(* still chooses, every place has been screened against the text that is     *)
(* held and declared, on the facts as they are (holder.ts 67-71).            *)
NothingLeftUnscreened ==
    Quiet /\ ~agreed /\ faults = 0 /\ ~refused /\ held.text # None /\ held.text = stands =>
        \A p \in Places : verdict[p].text = stands /\ verdict[p].current

(* Once the declaration is withdrawn, the text goes (NL-AGENT.md 243).       *)
WithdrawnIsForgotten == Quiet /\ faults = 0 /\ stands = None => held.text = None

(* While its room still chooses, a declared condition that is still held is  *)
(* screened in the end, whatever commits and restatements crossed its runs.  *)
EventuallyScreened ==
    <>[](~agreed /\ held.text # None /\ held.text = stands /\ faults = 0 /\ ~refused
            => \A p \in Places : verdict[p].text = stands /\ verdict[p].current)

=============================================================================
