--------------------------- MODULE ScreeningProofs ---------------------------
(* Type correctness of Screening, and what it promises of one agent's        *)
(* condition: no verdict of an older text lands on a newer declaration, a    *)
(* withdrawn condition is forgotten, and no wish for another run is lost.    *)
(*                                                                          *)
(* The first rests on order: texts are said one after the other, the text    *)
(* that is held is the last one said, and a run with the held generation has *)
(* the held text (Order, OfTheHeld).  The others rest on wakes: whoever      *)
(* spoils a run leaves a wake behind, on its way or kept as a wish, and a    *)
(* wish outlives no run (Forgetting, Pursued).                               *)
EXTENDS Screening, TLAPS

USE DEF room

Said(n) == request[n].at # "none"

(* Texts are said one after the other; only what was said is held, declared, *)
(* judged by, or run for.                                                    *)
Order ==
    /\ \A n \in Texts : \A m \in Texts : m < n /\ Said(n) => Said(m)
    /\ held.gen <= held.text
    /\ held.text # None => Said(held.text) /\ \A n \in Texts : Said(n) => n <= held.text
    /\ stands # None => Said(stands)
    /\ \A p \in Places : verdict[p].text # None => Said(verdict[p].text)
    /\ run.at # "none" => run.text # None /\ Said(run.text)
    /\ rerun => run.at # "none"

(* As long as no declaration was refused, a run is for a text no newer than  *)
(* the held one, for that very text if it is of the held generation, and     *)
(* what it is about to record is not older than the declaration it read.     *)
OfTheHeld ==
    ~refused /\ run.at # "none" =>
        /\ held.text # None
        /\ run.gen <= held.gen
        /\ run.gen = held.gen => run.text = held.text
        /\ run.at = "recording" /\ run.fresh => stands <= run.text

UnderWay == \E n \in Texts : request[n].at \in {"held", "sent"}

(* A text that is held without a declaration is about to be declared, or     *)
(* somebody is on the way to let it go.                                      *)
Forgetting ==
    faults = 0 /\ held.text # None /\ stands = None =>
        UnderWay \/ wakes > 0 \/ rerun \/ run.at \in {"checking", "letting go"}

Screenable == ~agreed /\ faults = 0 /\ ~refused /\ held.text # None /\ held.text = stands

Screened == \A p \in Places : verdict[p].text = stands /\ verdict[p].current

(* While a declared and held text is not screened, a run or a wake is under  *)
(* way; a run that will end in vain has another one asked for behind it.     *)
Pursued ==
    Screenable =>
        /\ run.at # "none" /\ run.gen # held.gen => rerun
        /\ run.at \in {"judging", "judging again", "looking", "recording"} /\ ~run.fresh
             => rerun \/ wakes > 0
        /\ Screened \/ run.at # "none" \/ wakes > 0

IInv ==
    /\ TypeOK
    /\ Order
    /\ OfTheHeld
    /\ OlderTextNeverLands
    /\ Forgetting
    /\ Pursued

-----------------------------------------------------------------------------
LEMMA Bounds == /\ Batch \in Nat /\ MaxBatches \in Nat /\ MaxTexts \in Nat
                /\ MaxOutside \in Nat /\ MaxFaults \in Nat
  BY ScreeningAssumption

LEMMA Reflexive == \A n \in Nat : n <= n
  OBVIOUS

LEMMA Numbers ==
  ASSUME TypeOK
  PROVE  /\ held.gen \in Nat /\ held.text \in Nat /\ stands \in Nat
         /\ run.gen \in Nat /\ run.text \in Nat
         /\ faults \in Nat /\ outside \in Nat /\ wakes \in Nat
         /\ \A n \in Texts : n \in Nat /\ n # None
<1>1. held.gen \in 0..MaxTexts /\ held.text \in {0} \cup 1..MaxTexts /\ stands \in {0} \cup 1..MaxTexts
  BY DEF TypeOK, Texts, None
<1>2. run.gen \in 0..MaxTexts /\ run.text \in {0} \cup 1..MaxTexts
  BY DEF TypeOK, Run, Texts, None
<1>3. faults \in 0..MaxFaults /\ outside \in 0..MaxOutside /\ wakes \in Nat
  BY DEF TypeOK
<1> QED
  BY <1>1, <1>2, <1>3, Bounds DEF Texts, None

(* A run that has just been started, for what is held.                       *)
Started(r, h) ==
    /\ r \in Run
    /\ r.at = "checking" /\ r.text = h.text /\ r.gen = h.gen

LEMMA NoRunIsRun == NoRun \in Run /\ NoRun.at = "none"
  BY ScreeningAssumption DEF NoRun, Run, None

LEMMA StartIsRun ==
  ASSUME NEW h \in [text : {None} \cup Texts, gen : 0..MaxTexts]
  PROVE  Started([NoRun EXCEPT !.at = "checking", !.text = h.text, !.gen = h.gen,
                               !.left = MaxBatches], h)
<1> DEFINE s == [NoRun EXCEPT !.at = "checking", !.text = h.text, !.gen = h.gen,
                              !.left = MaxBatches]
<1>1. h.text \in {None} \cup Texts /\ h.gen \in 0..MaxTexts
  OBVIOUS
<1>2. MaxBatches \in 0..MaxBatches
  BY ScreeningAssumption
<1>3. NoRun \in Run
  BY NoRunIsRun
<1>4. s \in Run
  BY <1>1, <1>2, <1>3 DEF Run
<1>5. s.at = "checking" /\ s.text = h.text /\ s.gen = h.gen
  BY <1>3 DEF Run
<1> QED
  BY <1>4, <1>5 DEF Started

(* What the end of a run leaves: another run if one was asked for.           *)
LEMMA EndOfRun ==
  ASSUME NEW h \in [text : {None} \cup Texts, gen : 0..MaxTexts], RunEnds(h)
  PROVE  /\ ~rerun'
         /\ \/ ~(rerun /\ h.text # None) /\ run' = NoRun
            \/ rerun /\ h.text # None /\ Started(run', h)
<1> DEFINE s == [NoRun EXCEPT !.at = "checking", !.text = h.text, !.gen = h.gen,
                              !.left = MaxBatches]
<1>1. Started(s, h)
  BY StartIsRun
<1> HIDE DEF s
<1>2. rerun' = FALSE /\ run' = IF rerun /\ h.text # None THEN s ELSE NoRun
  BY DEF RunEnds, s
<1> QED
  BY <1>1, <1>2

(* What a wish for a run leaves: the run, or the wish.                       *)
LEMMA WishForRun ==
  ASSUME NEW h \in [text : {None} \cup Texts, gen : 0..MaxTexts], NEW r \in Run,
         ScreenPending(h, r)
  PROVE  \/ h.text = None /\ run' = r /\ rerun' = rerun
         \/ h.text # None /\ r.at # "none" /\ run' = r /\ rerun' = TRUE
         \/ h.text # None /\ r.at = "none" /\ Started(run', h) /\ rerun' = rerun
<1> DEFINE s == [NoRun EXCEPT !.at = "checking", !.text = h.text, !.gen = h.gen,
                              !.left = MaxBatches]
<1>1. Started(s, h)
  BY StartIsRun
<1> HIDE DEF s
<1>2. CASE h.text = None
  BY <1>2 DEF ScreenPending
<1>3. CASE h.text # None /\ r.at # "none"
  BY <1>3 DEF ScreenPending
<1>4. CASE h.text # None /\ r.at = "none"
  <2>1. run' = s /\ rerun' = rerun
    BY <1>4 DEF ScreenPending, s
  <2> QED
    BY <1>1, <1>4, <2>1
<1> QED
  BY <1>2, <1>3, <1>4

(* A commit makes what was read stale and changes nothing else of a request  *)
(* or a run.                                                                 *)
LEMMA StaleRequests ==
  ASSUME request \in [Texts -> [at : {"none", "held", "sent", "over"}, fresh : BOOLEAN]]
  PROVE  /\ Stale(request) \in [Texts -> [at : {"none", "held", "sent", "over"}, fresh : BOOLEAN]]
         /\ \A n \in Texts : Stale(request)[n].at = request[n].at
  BY DEF Stale

LEMMA StaleIsRun ==
  ASSUME NEW r \in Run
  PROVE  /\ StaleRun(r) \in Run
         /\ StaleRun(r).at = r.at /\ StaleRun(r).text = r.text /\ StaleRun(r).gen = r.gen
         /\ ~StaleRun(r).fresh
  BY DEF StaleRun, Run

(* The run goes on, to a stage that IInv allows it.                          *)
LEMMA GoingOnKeeps ==
  ASSUME IInv, NEW r \in Run, Continue(r),
         UNCHANGED <<held, room, verdict, request, wakes, refused, outside, faults>>,
         run.at # "none", r.at # "none", r.text = run.text, r.gen = run.gen,
         ~refused /\ r.at = "recording" /\ r.fresh => stands <= r.text,
         run.at \in {"checking", "letting go"} /\ stands = None => r.at = "letting go",
         Screenable /\ r.at \in {"judging", "judging again", "looking", "recording"} /\ ~r.fresh
             => rerun \/ wakes > 0
  PROVE  IInv'
<1>1. run' = r /\ rerun' = rerun
  BY DEF Continue
<1>2. TypeOK'
  BY <1>1 DEF IInv, TypeOK
<1>3. Order'
  BY <1>1 DEF IInv, Order, Said
<1>4. OfTheHeld' /\ OlderTextNeverLands'
  BY <1>1 DEF IInv, OfTheHeld, OlderTextNeverLands
<1>5. Forgetting'
  BY <1>1 DEF IInv, Forgetting, UnderWay
<1>6. Pursued'
  BY <1>1 DEF IInv, Pursued, Screenable, Screened
<1> QED
  BY <1>2, <1>3, <1>4, <1>5, <1>6 DEF IInv

(* The run ends where nobody relies on it.                                   *)
LEMMA EndKeeps ==
  ASSUME IInv, RunEnds(held), run.at # "none",
         UNCHANGED <<held, room, verdict, request, wakes, refused, outside>>,
         faults' \in 0..MaxFaults, faults' = 0 => faults = 0,
         faults' = 0 => run.at \notin {"checking", "letting go"} \/ stands # None,
         faults' = 0 /\ Screenable => rerun \/ wakes > 0 \/ Screened
  PROVE  IInv'
<1>1. /\ ~rerun'
      /\ \/ ~(rerun /\ held.text # None) /\ run' = NoRun
         \/ rerun /\ held.text # None /\ Started(run', held)
  BY EndOfRun DEF IInv, TypeOK
<1>2. rerun' = FALSE
  BY DEF RunEnds
<1>3. held.gen <= held.gen
  BY Numbers, Reflexive DEF IInv
<1>4. TypeOK'
  BY <1>1, <1>2, NoRunIsRun DEF IInv, TypeOK, Started
<1>5. Order'
  BY <1>1, NoRunIsRun DEF IInv, Order, Said, Started
<1>6. OlderTextNeverLands'
  BY DEF IInv, OlderTextNeverLands
<1>7. CASE run' = NoRun /\ ~(rerun /\ held.text # None)
  <2>1. run'.at = "none"
    BY <1>7, NoRunIsRun
  <2>2. OfTheHeld'
    BY <2>1 DEF OfTheHeld
  <2>3. Forgetting'
    BY <1>7 DEF IInv, Forgetting, UnderWay
  <2>4. Pursued'
    BY <1>7, <2>1 DEF IInv, Pursued, Screenable, Screened
  <2> QED
    BY <1>4, <1>5, <1>6, <2>2, <2>3, <2>4 DEF IInv
<1>8. CASE held.text # None /\ Started(run', held)
  <2>1. run'.at = "checking" /\ run'.text = held.text /\ run'.gen = held.gen
    BY <1>8 DEF Started
  <2>2. OfTheHeld'
    BY <1>3, <1>8, <2>1 DEF OfTheHeld
  <2>3. Forgetting'
    BY <2>1 DEF Forgetting
  <2>4. Pursued'
    BY <2>1 DEF Pursued
  <2> QED
    BY <1>4, <1>5, <1>6, <2>2, <2>3, <2>4 DEF IInv
<1> QED
  BY <1>1, <1>7, <1>8

-----------------------------------------------------------------------------
LEMMA CheckKeeps ==
  ASSUME IInv, Check
  PROVE  IInv'
<1> DEFINE going == [run EXCEPT !.at = "letting go"]
           next  == NextBatch(run)
<1>1. run \in Run /\ run.at = "checking"
  BY DEF IInv, TypeOK, Check
<1>2. CASE stands = None /\ Continue(going)
  <2>1. going \in Run /\ going.at = "letting go" /\ going.text = run.text /\ going.gen = run.gen
    BY <1>1 DEF Run
  <2> HIDE DEF going
  <2> QED
    BY <1>1, <1>2, <2>1, GoingOnKeeps DEF Check
<1>3. CASE stands # None /\ StillCurrent /\ Continue(next)
  <2>1. next \in Run /\ next.at = "picking" /\ next.text = run.text /\ next.gen = run.gen
    BY <1>1 DEF Run, NextBatch
  <2> HIDE DEF next
  <2> QED
    BY <1>1, <1>3, <2>1, GoingOnKeeps DEF Check
<1>4. CASE stands # None /\ ~StillCurrent /\ RunEnds(held)
  <2>1. Screenable => rerun
    BY <1>1, <1>4 DEF IInv, Pursued, StillCurrent
  <2>2. faults \in 0..MaxFaults
    BY DEF IInv, TypeOK
  <2> QED
    BY <1>1, <1>4, <2>1, <2>2, EndKeeps DEF Check
<1> QED
  BY <1>2, <1>3, <1>4 DEF Check

LEMMA PickKeeps ==
  ASSUME IInv, Pick
  PROVE  IInv'
<1>1. run \in Run /\ run.at = "picking"
  BY DEF IInv, TypeOK, Pick
<1>2. CASE Unscreened = {} /\ RunEnds(held)
  <2>1. ASSUME Screenable, NEW p \in Places
        PROVE  verdict[p].text = stands /\ verdict[p].current
    <3>1. verdict[p].text # None /\ verdict[p].current
      BY <1>2 DEF Unscreened
    <3>2. stands <= verdict[p].text
      BY <2>1, <3>1 DEF IInv, OlderTextNeverLands, Screenable
    <3>3. verdict[p].text \in Texts /\ stands \in Texts
      BY <2>1, <3>1 DEF IInv, TypeOK, Screenable
    <3>4. verdict[p].text <= held.text
      BY <2>1, <3>1, <3>3 DEF IInv, Order, Screenable
    <3> QED
      BY <2>1, <3>1, <3>2, <3>3, <3>4, ScreeningAssumption DEF Screenable, Texts
  <2>2. Screenable => Screened
    BY <2>1 DEF Screened
  <2>3. faults \in 0..MaxFaults
    BY DEF IInv, TypeOK
  <2> QED
    BY <1>1, <1>2, <2>2, <2>3, EndKeeps DEF Pick
<1>3. ASSUME NEW ids \in Batches(Unscreened), Continue([run EXCEPT !.at = "reading", !.ids = ids])
      PROVE  IInv'
  <2> DEFINE r == [run EXCEPT !.at = "reading", !.ids = ids]
  <2>1. ids \in SUBSET Places
    BY DEF Batches, Unscreened
  <2>2. r \in Run /\ r.at = "reading" /\ r.text = run.text /\ r.gen = run.gen
    BY <1>1, <2>1 DEF Run
  <2>3. Continue(r)
    BY <1>3
  <2> HIDE DEF r
  <2> QED
    BY <1>1, <2>2, <2>3, GoingOnKeeps DEF Pick
<1> QED
  BY <1>2, <1>3 DEF Pick

LEMMA ReadKeeps ==
  ASSUME IInv, Read
  PROVE  IInv'
<1> DEFINE r == [run EXCEPT !.at = IF @ = "reading" THEN "judging" ELSE "judging again",
                            !.fresh = TRUE, !.moved = {}]
<1>1. run \in Run /\ run.at \in {"reading", "rereading"}
  BY DEF IInv, TypeOK, Read
<1>2. r \in Run /\ r.text = run.text /\ r.gen = run.gen /\ r.fresh
  BY <1>1 DEF Run
<1>3. r.at \in {"judging", "judging again"}
  BY <1>1 DEF Run
<1>4. Continue(r)
  BY DEF Read
<1> HIDE DEF r
<1> QED
  BY <1>1, <1>2, <1>3, <1>4, GoingOnKeeps DEF Read

(* A run of the held generation may record: its text is the held one, and no *)
(* declaration is of a newer text.                                           *)
LEMMA CurrentMayRecord ==
  ASSUME IInv, run.at # "none", StillCurrent, ~refused
  PROVE  stands <= run.text
<1>1. held.text # None /\ run.text = held.text
  BY DEF IInv, OfTheHeld, StillCurrent
<1>2. CASE stands = None
  BY <1>2, Numbers DEF IInv, None
<1>3. CASE stands # None
  BY <1>1, <1>3 DEF IInv, TypeOK, Order
<1> QED
  BY <1>2, <1>3

(* What was read is stale only if somebody has woken the agent since.        *)
LEMMA StaleIsPursued ==
  ASSUME IInv, Screenable, ~run.fresh,
         run.at \in {"judging", "judging again", "looking", "recording"}
  PROVE  rerun \/ wakes > 0
  BY DEF IInv, Pursued

LEMMA JudgedKeeps ==
  ASSUME IInv, Judged
  PROVE  IInv'
<1>1. run \in Run /\ run.at \in {"judging", "judging again"}
  BY DEF IInv, TypeOK, Judged
<1>2. ASSUME StillCurrent, NEW at \in {"looking", "recording"},
             Continue([run EXCEPT !.at = at])
      PROVE  IInv'
  <2> DEFINE r == [run EXCEPT !.at = at]
  <2>1. r \in Run /\ r.at = at /\ r.text = run.text /\ r.gen = run.gen /\ r.fresh = run.fresh
    BY <1>1 DEF Run
  <2>2. Continue(r)
    BY <1>2
  <2> HIDE DEF r
  <2>3. ~refused /\ r.at = "recording" /\ r.fresh => stands <= r.text
    BY <1>1, <1>2, <2>1, CurrentMayRecord
  <2>4. Screenable /\ r.at \in {"judging", "judging again", "looking", "recording"} /\ ~r.fresh
          => rerun \/ wakes > 0
    BY <1>1, <2>1, StaleIsPursued
  <2>5. run.at # "none" /\ r.at # "none" /\ run.at \notin {"checking", "letting go"}
    BY <1>1, <2>1
  <2> QED
    BY <1>1, <2>1, <2>2, <2>3, <2>4, <2>5, GoingOnKeeps DEF Judged
<1>3. CASE ~StillCurrent /\ RunEnds(held)
  <2>1. Screenable => rerun
    BY <1>1, <1>3 DEF IInv, Pursued, StillCurrent
  <2>2. faults \in 0..MaxFaults
    BY DEF IInv, TypeOK
  <2> QED
    BY <1>1, <1>3, <2>1, <2>2, EndKeeps DEF Judged
<1> QED
  BY <1>2, <1>3 DEF Judged

LEMMA LookedKeeps ==
  ASSUME IInv, Looked
  PROVE  IInv'
<1>1. run \in Run /\ run.at = "looking"
  BY DEF IInv, TypeOK, Looked
<1>2. ASSUME StillCurrent, NEW at \in {"rereading", "recording"},
             Continue([run EXCEPT !.at = at])
      PROVE  IInv'
  <2> DEFINE r == [run EXCEPT !.at = at]
  <2>1. r \in Run /\ r.at = at /\ r.text = run.text /\ r.gen = run.gen /\ r.fresh = run.fresh
    BY <1>1 DEF Run
  <2>2. Continue(r)
    BY <1>2
  <2> HIDE DEF r
  <2>3. ~refused /\ r.at = "recording" /\ r.fresh => stands <= r.text
    BY <1>1, <1>2, <2>1, CurrentMayRecord
  <2>4. Screenable /\ r.at \in {"judging", "judging again", "looking", "recording"} /\ ~r.fresh
          => rerun \/ wakes > 0
    BY <1>1, <2>1, StaleIsPursued
  <2>5. run.at # "none" /\ r.at # "none" /\ run.at \notin {"checking", "letting go"}
    BY <1>1, <2>1
  <2> QED
    BY <1>1, <2>1, <2>2, <2>3, <2>4, <2>5, GoingOnKeeps DEF Looked
<1>3. CASE ~StillCurrent /\ RunEnds(held)
  <2>1. Screenable => rerun
    BY <1>1, <1>3 DEF IInv, Pursued, StillCurrent
  <2>2. faults \in 0..MaxFaults
    BY DEF IInv, TypeOK
  <2> QED
    BY <1>1, <1>3, <2>1, <2>2, EndKeeps DEF Looked
<1> QED
  BY <1>2, <1>3 DEF Looked

LEMMA OneMoreFault ==
  ASSUME TypeOK, faults < MaxFaults, faults' = faults + 1
  PROVE  faults' \in 0..MaxFaults /\ faults' # 0
<1>1. faults \in 0..MaxFaults
  BY DEF TypeOK
<1> QED
  BY <1>1, Bounds

LEMMA RunFailsKeeps ==
  ASSUME IInv, RunFails
  PROVE  IInv'
<1>1. run.at # "none" /\ RunEnds(held)
  BY DEF RunFails
<1>2. faults' \in 0..MaxFaults /\ faults' # 0
  BY OneMoreFault DEF IInv, RunFails
<1> QED
  BY <1>1, <1>2, EndKeeps DEF RunFails

LEMMA ConditionFailsKeeps ==
  ASSUME IInv, NEW n \in Texts, ConditionFails(n)
  PROVE  IInv'
<1>1. /\ request' \in [Texts -> [at : {"none", "held", "sent", "over"}, fresh : BOOLEAN]]
      /\ \A m \in Texts : request'[m].at = "none" <=> request[m].at = "none"
  BY DEF IInv, TypeOK, ConditionFails
<1>2. faults' \in 0..MaxFaults /\ faults' # 0
  BY OneMoreFault DEF IInv, ConditionFails
<1>3. TypeOK'
  BY <1>1, <1>2 DEF IInv, TypeOK, ConditionFails
<1>4. /\ stands \in {None} \cup Texts /\ run.text \in {None} \cup Texts
      /\ held.text \in {None} \cup Texts
      /\ \A p \in Places : verdict[p].text \in {None} \cup Texts
  BY DEF IInv, TypeOK, Run
<1>5. Order'
  BY <1>1, <1>4 DEF IInv, Order, Said, ConditionFails
<1>6. OfTheHeld' /\ OlderTextNeverLands'
  BY DEF IInv, OfTheHeld, OlderTextNeverLands, ConditionFails
<1>7. Forgetting' /\ Pursued'
  BY <1>2 DEF Forgetting, Pursued, Screenable
<1> QED
  BY <1>3, <1>5, <1>6, <1>7 DEF IInv

-----------------------------------------------------------------------------
LEMMA WakesLeft ==
  ASSUME TypeOK
  PROVE  /\ Woken(held) \in Nat
         /\ held.text # None => Woken(held) > 0
  BY Numbers DEF Woken

(* The room goes on: whatever it spoils, it wakes the agent.                 *)
LEMMA RoomKeeps ==
  ASSUME IInv, UNCHANGED <<held, rerun, refused, faults>>, outside' \in 0..MaxOutside,
         stands' = stands \/ stands' = None, agreed' = agreed \/ agreed' = TRUE,
         verdict' \in [Places -> [text : {None} \cup Texts, current : BOOLEAN]],
         \A p \in Places : verdict'[p].text = verdict[p].text,
         request' = request \/ request' = Stale(request),
         run' \in Run, run'.at = run.at, run'.text = run.text, run'.gen = run.gen,
         run'.fresh => run.fresh,
         wakes' = Woken(held)
  PROVE  IInv'
<1>1. /\ request' \in [Texts -> [at : {"none", "held", "sent", "over"}, fresh : BOOLEAN]]
      /\ \A n \in Texts : request'[n].at = request[n].at
  BY StaleRequests DEF IInv, TypeOK
<1>2. wakes' \in Nat /\ (held'.text # None => wakes' > 0)
  BY WakesLeft DEF IInv
<1>3. TypeOK'
  BY <1>1, <1>2 DEF IInv, TypeOK
<1>4. Order'
  <2>1. stands \in {None} \cup Texts
    BY DEF IInv, TypeOK
  <2>2. held.text \in {None} \cup Texts /\ run.text \in {None} \cup Texts
    BY DEF IInv, TypeOK, Run
  <2>3. \A p \in Places : verdict[p].text \in {None} \cup Texts
    BY DEF IInv, TypeOK
  <2> QED
    BY <1>1, <2>1, <2>2, <2>3 DEF IInv, Order, Said
<1>5. OfTheHeld'
  <2>1. None <= run.text
    BY Numbers DEF IInv, None
  <2> QED
    BY <2>1 DEF IInv, OfTheHeld
<1>6. OlderTextNeverLands'
  <2>1. \A p \in Places : None <= verdict[p].text
    BY Bounds DEF IInv, TypeOK, Texts, None
  <2> QED
    BY <2>1 DEF IInv, OlderTextNeverLands
<1>7. Forgetting' /\ Pursued'
  <2>1. Forgetting'
    BY <1>2 DEF Forgetting
  <2>2. ASSUME Screenable'
        PROVE  run'.at # "none" /\ run'.gen # held'.gen => rerun'
    BY <2>2 DEF IInv, Pursued, Screenable, OfTheHeld
  <2>3. Pursued'
    BY <1>2, <2>2 DEF Pursued, Screenable
  <2> QED
    BY <2>1, <2>3
<1> QED
  BY <1>3, <1>4, <1>5, <1>6, <1>7 DEF IInv

LEMMA OtherCommitKeeps ==
  ASSUME IInv, OtherCommit
  PROVE  IInv'
<1>1. outside' \in 0..MaxOutside
  BY Bounds DEF IInv, TypeOK, OtherCommit
<1>2. run' \in Run /\ run'.at = run.at /\ run'.text = run.text /\ run'.gen = run.gen /\ ~run'.fresh
  BY StaleIsRun DEF IInv, TypeOK, OtherCommit
<1> QED
  BY <1>1, <1>2, RoomKeeps DEF OtherCommit, IInv, TypeOK

LEMMA AgreeKeeps ==
  ASSUME IInv, Agree
  PROVE  IInv'
<1>1. outside' \in 0..MaxOutside
  BY Bounds DEF IInv, TypeOK, Agree
<1>2. run' \in Run /\ run'.at = run.at /\ run'.text = run.text /\ run'.gen = run.gen /\ ~run'.fresh
  BY StaleIsRun DEF IInv, TypeOK, Agree
<1> QED
  BY <1>1, <1>2, RoomKeeps DEF Agree, IInv, TypeOK

LEMMA WithdrawKeeps ==
  ASSUME IInv, Withdraw
  PROVE  IInv'
<1>1. outside' \in 0..MaxOutside
  BY Bounds DEF IInv, TypeOK, Withdraw
<1>2. run' \in Run /\ run'.at = run.at /\ run'.text = run.text /\ run'.gen = run.gen /\ ~run'.fresh
  BY StaleIsRun DEF IInv, TypeOK, Withdraw
<1> QED
  BY <1>1, <1>2, RoomKeeps DEF Withdraw, IInv, TypeOK

(* New facts about a place leave the texts of its verdicts.                  *)
LEMMA FactsChangeVerdicts ==
  ASSUME TypeOK, NEW p \in Places, FactsChange(p)
  PROVE  /\ verdict' \in [Places -> [text : {None} \cup Texts, current : BOOLEAN]]
         /\ \A q \in Places : verdict'[q].text = verdict[q].text
  BY DEF TypeOK, FactsChange

LEMMA OutsideFactsKeeps ==
  ASSUME IInv, OutsideFacts
  PROVE  IInv'
<1>1. outside' \in 0..MaxOutside
  BY Bounds DEF IInv, TypeOK, OutsideFacts
<1>2. PICK p \in Places :
        /\ FactsChange(p)
        /\ run' = [run EXCEPT !.fresh = @ /\ stands = None,
                              !.moved = IF p \in run.ids THEN @ \cup {p} ELSE @]
  BY DEF OutsideFacts
<1> DEFINE m == IF p \in run.ids THEN run.moved \cup {p} ELSE run.moved
<1>3. run \in Run /\ m \in SUBSET Places /\ (run.fresh /\ stands = None) \in BOOLEAN
  BY DEF IInv, TypeOK, Run
<1>4. run' = [run EXCEPT !.fresh = run.fresh /\ stands = None, !.moved = m]
  BY <1>2
<1> HIDE DEF m
<1>5. /\ run' \in Run /\ run'.at = run.at /\ run'.text = run.text /\ run'.gen = run.gen
      /\ run'.fresh => run.fresh
  BY <1>3, <1>4 DEF Run
<1>6. /\ verdict' \in [Places -> [text : {None} \cup Texts, current : BOOLEAN]]
      /\ \A q \in Places : verdict'[q].text = verdict[q].text
  BY <1>2, FactsChangeVerdicts DEF IInv
<1> QED
  BY <1>1, <1>2, <1>5, <1>6, RoomKeeps DEF FactsChange

LEMMA LookupFindsKeeps ==
  ASSUME IInv, LookupFinds
  PROVE  IInv'
<1>1. outside' \in 0..MaxOutside
  BY Bounds DEF IInv, TypeOK, LookupFinds
<1>2. PICK p \in run.ids :
        /\ FactsChange(p)
        /\ run' = [run EXCEPT !.fresh = @ /\ stands = None, !.moved = @ \cup {p}]
  BY DEF LookupFinds
<1> DEFINE m == run.moved \cup {p}
<1>3. run \in Run /\ p \in Places /\ m \in SUBSET Places /\ (run.fresh /\ stands = None) \in BOOLEAN
  BY DEF IInv, TypeOK, Run
<1>4. run' = [run EXCEPT !.fresh = run.fresh /\ stands = None, !.moved = m]
  BY <1>2
<1> HIDE DEF m
<1>5. /\ run' \in Run /\ run'.at = run.at /\ run'.text = run.text /\ run'.gen = run.gen
      /\ run'.fresh => run.fresh
  BY <1>3, <1>4 DEF Run
<1>6. /\ verdict' \in [Places -> [text : {None} \cup Texts, current : BOOLEAN]]
      /\ \A q \in Places : verdict'[q].text = verdict[q].text
  BY <1>2, <1>3, FactsChangeVerdicts DEF IInv
<1> QED
  BY <1>1, <1>2, <1>5, <1>6, RoomKeeps DEF FactsChange

LEMMA WakeKeeps ==
  ASSUME IInv, Wake
  PROVE  IInv'
<1>1. /\ \/ held.text = None /\ run' = run /\ rerun' = rerun
         \/ held.text # None /\ run.at # "none" /\ run' = run /\ rerun' = TRUE
         \/ held.text # None /\ run.at = "none" /\ Started(run', held) /\ rerun' = rerun
      /\ UNCHANGED <<held, room, verdict, request, refused, outside, faults>>
  BY WishForRun DEF Wake, IInv, TypeOK
<1>2. wakes' \in Nat
  BY Numbers DEF Wake, IInv
<1>3. TypeOK'
  BY <1>1, <1>2 DEF IInv, TypeOK, Started
<1>4. Order'
  BY <1>1 DEF IInv, Order, Said, Started
<1>5. held.gen <= held.gen
  BY Numbers, Reflexive DEF IInv
<1>6. OlderTextNeverLands'
  BY <1>1 DEF IInv, OlderTextNeverLands
<1>7. CASE held.text = None
  BY <1>1, <1>3, <1>4, <1>6, <1>7 DEF IInv, OfTheHeld, Forgetting, Pursued, Screenable
<1>8. CASE held.text # None /\ run.at # "none" /\ run' = run /\ rerun' = TRUE
  <2>1. OfTheHeld'
    BY <1>1, <1>8 DEF IInv, OfTheHeld
  <2> QED
    BY <1>1, <1>3, <1>4, <1>6, <1>8, <2>1 DEF IInv, Forgetting, Pursued
<1>9. CASE held.text # None /\ run.at = "none" /\ Started(run', held)
  <2>1. run'.at = "checking" /\ run'.text = held.text /\ run'.gen = held.gen
    BY <1>9 DEF Started
  <2>2. OfTheHeld'
    BY <1>1, <1>5, <1>9, <2>1 DEF OfTheHeld
  <2> QED
    BY <1>1, <1>3, <1>4, <1>6, <2>1, <2>2 DEF IInv, Forgetting, Pursued
<1> QED
  BY <1>1, <1>7, <1>8, <1>9

(* What is not held can be screened for nobody.                              *)
LEMMA ReleaseKeeps ==
  ASSUME IInv, Release, TypeOK', Order', refused' \/ run'.at = "none",
         UNCHANGED <<room, verdict>>, refused => refused'
  PROVE  IInv'
<1>1. held'.text = None
  BY DEF Release, NoHold
<1>2. OfTheHeld'
  BY DEF OfTheHeld
<1>3. OlderTextNeverLands'
  BY DEF IInv, OlderTextNeverLands
<1>4. Forgetting' /\ Pursued'
  BY <1>1 DEF Forgetting, Pursued, Screenable
<1> QED
  BY <1>2, <1>3, <1>4 DEF IInv

LEMMA NoHoldIsHold == NoHold \in [text : {None} \cup Texts, gen : 0..MaxTexts]
                      /\ NoHold.text = None /\ NoHold.gen <= NoHold.text
  BY Bounds DEF NoHold, None

LEMMA LetGoKeeps ==
  ASSUME IInv, LetGo
  PROVE  IInv'
<1>1. ~rerun' /\ run' = NoRun
  BY EndOfRun, NoHoldIsHold DEF LetGo
<1>2. rerun' = FALSE
  BY DEF LetGo, RunEnds
<1>3. TypeOK'
  BY <1>1, <1>2, NoHoldIsHold, NoRunIsRun DEF IInv, TypeOK, LetGo, Release
<1>4. held'.gen <= held'.text
  BY NoHoldIsHold DEF LetGo, Release
<1>5. Order'
  BY <1>1, <1>4, NoHoldIsHold, NoRunIsRun DEF IInv, Order, Said, LetGo, Release
<1> QED
  BY <1>1, <1>3, <1>5, NoRunIsRun, ReleaseKeeps DEF LetGo

LEMMA RestartKeeps ==
  ASSUME IInv, Restart
  PROVE  IInv'
<1> DEFINE over == [at |-> "over", fresh |-> FALSE]
<1>1. request' = [n \in Texts |-> IF request[n].at = "none" THEN request[n] ELSE over]
  BY DEF Restart
<1>2. over \in [at : {"none", "held", "sent", "over"}, fresh : BOOLEAN] /\ over.at = "over"
  OBVIOUS
<1> HIDE DEF over
<1>3. /\ request' \in [Texts -> [at : {"none", "held", "sent", "over"}, fresh : BOOLEAN]]
      /\ \A n \in Texts : request'[n].at = "none" <=> request[n].at = "none"
  BY <1>1, <1>2 DEF IInv, TypeOK
<1>4. faults' \in 0..MaxFaults
  BY Bounds DEF IInv, TypeOK, Restart
<1>5. TypeOK'
  BY <1>3, <1>4, NoHoldIsHold, NoRunIsRun DEF IInv, TypeOK, Restart, Release
<1>6. held'.gen <= held'.text
  BY NoHoldIsHold DEF Restart, Release
<1>7. stands \in {None} \cup Texts /\ \A p \in Places : verdict[p].text \in {None} \cup Texts
  BY DEF IInv, TypeOK
<1>8. Order'
  BY <1>3, <1>6, <1>7, NoHoldIsHold, NoRunIsRun DEF IInv, Order, Said, Restart, Release
<1> QED
  BY <1>5, <1>8, NoRunIsRun, ReleaseKeeps DEF Restart

LEMMA DeclareRefusedKeeps ==
  ASSUME IInv, NEW n \in Texts, DeclareRefused(n)
  PROVE  IInv'
<1>1. /\ request' \in [Texts -> [at : {"none", "held", "sent", "over"}, fresh : BOOLEAN]]
      /\ \A m \in Texts : request'[m].at = "none" <=> request[m].at = "none"
  BY DEF IInv, TypeOK, DeclareRefused
<1>2. TypeOK'
  BY <1>1, NoHoldIsHold DEF IInv, TypeOK, DeclareRefused, Release
<1>3. held'.gen <= held'.text
  BY NoHoldIsHold DEF DeclareRefused, Release
<1>4. /\ stands \in {None} \cup Texts /\ run.text \in {None} \cup Texts
      /\ \A p \in Places : verdict[p].text \in {None} \cup Texts
  BY DEF IInv, TypeOK, Run
<1>5. Order'
  BY <1>1, <1>3, <1>4, NoHoldIsHold DEF IInv, Order, Said, DeclareRefused, Release
<1> QED
  BY <1>2, <1>5, ReleaseKeeps DEF DeclareRefused

LEMMA ReadRoomKeeps ==
  ASSUME IInv, NEW n \in Texts, ReadRoom(n)
  PROVE  IInv'
<1>1. /\ request' \in [Texts -> [at : {"none", "held", "sent", "over"}, fresh : BOOLEAN]]
      /\ \A m \in Texts : request'[m].at = "none" <=> request[m].at = "none"
      /\ request'[n].at = "sent"
  BY DEF IInv, TypeOK, ReadRoom
<1>2. TypeOK'
  BY <1>1 DEF IInv, TypeOK, ReadRoom
<1>3. /\ stands \in {None} \cup Texts /\ run.text \in {None} \cup Texts
      /\ held.text \in {None} \cup Texts
      /\ \A p \in Places : verdict[p].text \in {None} \cup Texts
  BY DEF IInv, TypeOK, Run
<1>4. Order'
  BY <1>1, <1>3 DEF IInv, Order, Said, ReadRoom
<1>5. OfTheHeld' /\ OlderTextNeverLands'
  BY DEF IInv, OfTheHeld, OlderTextNeverLands, ReadRoom
<1>6. Forgetting'
  BY <1>1 DEF Forgetting, UnderWay
<1>7. Pursued'
  BY DEF IInv, Pursued, Screenable, Screened, ReadRoom
<1> QED
  BY <1>2, <1>4, <1>5, <1>6, <1>7 DEF IInv

(* A new text is newer than every text that was said, and of a generation of *)
(* its own.                                                                  *)
LEMMA SayKeeps ==
  ASSUME IInv, NEW n \in Texts, Say(n)
  PROVE  IInv'
<1>1. held' = [text |-> n, gen |-> held.gen + 1]
  BY DEF Say, Hold
<1>2. held'.text = n /\ held'.gen = held.gen + 1 /\ n \in Nat /\ n # None /\ n \in 1..MaxTexts
  BY <1>1, Numbers DEF IInv, Texts
<1>3. /\ request' \in [Texts -> [at : {"none", "held", "sent", "over"}, fresh : BOOLEAN]]
      /\ \A m \in Texts : m # n => request'[m].at = request[m].at
      /\ request'[n].at = "held"
      /\ request[n].at = "none"
  BY DEF IInv, TypeOK, Say
<1>4. \A m \in Texts : m < n => request[m].at # "none"
  <2>1. \A m \in 1..(n - 1) : request[m].at # "none"
    BY DEF Say
  <2> QED
    BY <1>2, <2>1, Bounds DEF Texts
<1>5. \A m \in Texts : request[m].at # "none" => m < n
  <2> SUFFICES ASSUME NEW m \in Texts, request[m].at # "none", ~(m < n)
               PROVE  FALSE
    OBVIOUS
  <2>1. n < m \/ m = n
    BY <1>2, Bounds DEF Texts
  <2> QED
    BY <1>3, <2>1 DEF IInv, Order, Said
<1>6. held.gen + 1 \in 0..MaxTexts /\ held.gen + 1 <= n /\ held.gen < held.gen + 1
  <2>1. held.gen \in Nat /\ held.text \in Nat /\ held.gen <= held.text
    BY Numbers DEF IInv, Order
  <2>2. held.text < n
    <3>1. CASE held.text = None
      BY <1>2, <3>1, Bounds DEF None
    <3>2. CASE held.text # None
      BY <1>5, <3>2 DEF IInv, TypeOK, Order, Said
    <3> QED
      BY <3>1, <3>2
  <2> QED
    BY <1>2, <2>1, <2>2, Bounds
<1>7. TypeOK'
  <2>1. held' \in [text : {None} \cup Texts, gen : 0..MaxTexts]
    BY <1>1, <1>6
  <2> QED
    BY <1>3, <2>1 DEF IInv, TypeOK, Say
<1>8. Order'
  <2>1. \A m, k \in Texts : k < m /\ Said(m)' => Said(k)'
    BY <1>3, <1>4 DEF IInv, Order, Said
  <2>2. held'.gen <= held'.text
    BY <1>2, <1>6
  <2>3. ASSUME NEW m \in Texts, Said(m)'
        PROVE  m <= n
    <3>1. CASE m = n
      BY <1>2, <3>1, Reflexive
    <3>2. CASE m # n
      BY <1>2, <1>3, <1>5, <2>3, <3>2, Bounds DEF Said, Texts
    <3> QED
      BY <3>1, <3>2
  <2>4. /\ stands \in {None} \cup Texts /\ run.text \in {None} \cup Texts
        /\ \A p \in Places : verdict[p].text \in {None} \cup Texts
    BY DEF IInv, TypeOK, Run
  <2>5. \A m \in Texts : Said(m) => Said(m)'
    BY <1>3 DEF Said
  <2>6. held'.text # None => Said(held.text)' /\ \A m \in Texts : Said(m)' => m <= held'.text
    BY <1>2, <1>3, <2>3 DEF Said
  <2>7. stands' # None => Said(stands)'
    BY <2>4, <2>5 DEF IInv, Order, Say, Said
  <2>8. \A p \in Places : verdict'[p].text # None => Said(verdict[p].text)'
    BY <2>4, <2>5 DEF IInv, Order, Say, Said
  <2>9. /\ run'.at # "none" => run'.text # None /\ Said(run.text)'
        /\ rerun' => run'.at # "none"
    BY <2>4, <2>5 DEF IInv, Order, Say, Said
  <2> QED
    BY <2>1, <2>2, <2>6, <2>7, <2>8, <2>9 DEF Order
<1>9. OfTheHeld'
  <2> SUFFICES ASSUME ~refused, run.at # "none"
               PROVE  OfTheHeld'
    BY DEF OfTheHeld, Say
  <2>1. run.gen \in Nat /\ held.gen \in Nat /\ run.gen <= held.gen
    BY Numbers DEF IInv, OfTheHeld
  <2>2. run.gen < held.gen + 1
    BY <2>1
  <2>3. run.gen <= held'.gen /\ run.gen # held'.gen
    BY <1>2, <2>1, <2>2
  <2> QED
    BY <1>2, <2>3 DEF IInv, OfTheHeld, Say
<1>10. OlderTextNeverLands'
  BY DEF IInv, OlderTextNeverLands, Say
<1>11. Forgetting'
  BY <1>3 DEF Forgetting, UnderWay
<1>12. Pursued'
  <2>1. stands # n
    BY <1>2, <1>3 DEF IInv, Order, Said
  <2> QED
    BY <1>2, <2>1 DEF Pursued, Screenable, Say
<1> QED
  BY <1>7, <1>8, <1>9, <1>10, <1>11, <1>12 DEF IInv

(* A declaration starts the verdicts anew, makes what was read stale and     *)
(* asks for a run.                                                           *)
LEMMA DeclareKeeps ==
  ASSUME IInv, NEW n \in Texts, Declare(n)
  PROVE  IInv'
<1> DEFINE r == StaleRun(run)
<1>1. r \in Run /\ r.at = run.at /\ r.text = run.text /\ r.gen = run.gen /\ ~r.fresh
  BY StaleIsRun DEF IInv, TypeOK
<1>2. /\ stands' = n
      /\ UNCHANGED <<held, agreed, refused, outside, faults>>
      /\ ScreenPending(held, r)
      /\ wakes' = Woken(held)
      /\ verdict' = [p \in Places |-> NoVerdict]
  BY DEF Declare
<1> HIDE DEF r
<1>3. \/ held.text = None /\ run' = r /\ rerun' = rerun
      \/ held.text # None /\ r.at # "none" /\ run' = r /\ rerun' = TRUE
      \/ held.text # None /\ r.at = "none" /\ Started(run', held) /\ rerun' = rerun
  BY <1>1, <1>2, WishForRun DEF IInv, TypeOK
<1>4. /\ request' \in [Texts -> [at : {"none", "held", "sent", "over"}, fresh : BOOLEAN]]
      /\ \A m \in Texts : request'[m].at # "none" <=> request[m].at # "none"
      /\ request'[n].at # "none"
  <2>1. request' = [Stale(request) EXCEPT ![n].at = "over"] /\ request[n].at = "sent"
    BY DEF Declare
  <2> QED
    BY <2>1, StaleRequests DEF IInv, TypeOK
<1>5. wakes' \in Nat /\ (held.text # None => wakes' > 0)
  BY <1>2, WakesLeft DEF IInv
<1>6. /\ verdict' \in [Places -> [text : {None} \cup Texts, current : BOOLEAN]]
      /\ \A p \in Places : verdict'[p].text = None
  BY <1>2 DEF NoVerdict
<1>7. TypeOK'
  BY <1>1, <1>2, <1>3, <1>4, <1>5, <1>6 DEF IInv, TypeOK, Started
<1>8. n # None /\ stands' # None
  BY <1>2, Numbers DEF IInv
<1>9. Order'
  <2>1. /\ run.text \in {None} \cup Texts /\ held.text \in {None} \cup Texts
    BY DEF IInv, TypeOK, Run
  <2>2. run'.at # "none" => run'.text # None /\ Said(run'.text) /\ run'.text \in Texts
    BY <1>1, <1>3, <2>1 DEF IInv, Order, Started
  <2>3. \A m \in Texts : Said(m)' <=> Said(m)
    BY <1>4 DEF Said
  <2>4. rerun' => run'.at # "none"
    BY <1>1, <1>3 DEF IInv, Order, Started
  <2> QED
    BY <1>2, <1>4, <1>6, <1>8, <2>1, <2>2, <2>3, <2>4 DEF IInv, Order, Said
<1>10. OlderTextNeverLands'
  BY <1>6 DEF OlderTextNeverLands
<1>11. held.gen <= held.gen
  BY Numbers, Reflexive DEF IInv
<1>12. OfTheHeld'
  BY <1>1, <1>2, <1>3, <1>11 DEF IInv, OfTheHeld, Order, Started
<1>13. Forgetting'
  BY <1>8 DEF Forgetting
<1>14. Pursued'
  <2> SUFFICES ASSUME Screenable'
               PROVE  Pursued'
    BY DEF Pursued
  <2>1. held.text # None
    BY <1>2 DEF Screenable
  <2>2. run'.at # "none" /\ run'.gen # held'.gen => rerun'
    BY <1>2, <1>3, <2>1 DEF Started
  <2> QED
    BY <1>5, <2>1, <2>2 DEF Pursued
<1> QED
  BY <1>7, <1>9, <1>10, <1>12, <1>13, <1>14 DEF IInv

(* What is recorded is of the run's text, which is not older than the        *)
(* declaration; the commit of the record wakes the agent again.              *)
LEMMA VerdictsRecorded ==
  ASSUME IInv, Recorded, run.fresh, ~agreed, stands # None
  PROVE  IInv'
<1> DEFINE next == NextBatch([run EXCEPT !.left = @ - 1])
           judged(p) == [text |-> run.text, current |-> p \notin run.moved]
<1>1. run \in Run /\ run.at = "recording" /\ run.text # None /\ Said(run.text)
  BY DEF IInv, TypeOK, Order, Recorded
<1>2. /\ verdict' = [p \in Places |-> IF p \in run.ids THEN judged(p) ELSE verdict[p]]
      /\ request' = Stale(request)
      /\ wakes' = Woken(held)
      /\ \/ MoreBatches /\ StillCurrent /\ Continue(next)
         \/ RunEnds(held)
      /\ UNCHANGED <<held, room, refused, outside, faults>>
  BY DEF Recorded, StillChoosing
<1>3. run.text \in {None} \cup Texts
  BY <1>1 DEF Run
<1>4. \A p \in Places : /\ judged(p) \in [text : {None} \cup Texts, current : BOOLEAN]
                        /\ judged(p).text = run.text
  BY <1>3
<1> HIDE DEF judged
<1>5. /\ verdict' \in [Places -> [text : {None} \cup Texts, current : BOOLEAN]]
      /\ \A p \in Places : verdict'[p].text \in {run.text, verdict[p].text}
  BY <1>2, <1>4 DEF IInv, TypeOK
<1>6. MoreBatches => /\ next \in Run /\ next.at = "picking"
                     /\ next.text = run.text /\ next.gen = run.gen
  <2> SUFFICES ASSUME MoreBatches
               PROVE  /\ next \in Run /\ next.at = "picking"
                      /\ next.text = run.text /\ next.gen = run.gen
    OBVIOUS
  <2>1. run.left \in 0..MaxBatches /\ run.left > 1
    BY <1>1 DEF MoreBatches, Run
  <2>2. run.left - 1 \in 0..MaxBatches
    BY <2>1, Bounds
  <2> QED
    BY <1>1, <2>2 DEF NextBatch, Run
<1> HIDE DEF next
<1>7. \/ /\ run'.at = "picking" /\ run' \in Run
         /\ run'.text = run.text /\ run'.gen = run.gen /\ rerun' = rerun
      \/ rerun' = FALSE /\ run' = NoRun
      \/ rerun' = FALSE /\ held.text # None /\ Started(run', held)
  <2>1. CASE MoreBatches /\ StillCurrent /\ Continue(next)
    BY <1>6, <2>1 DEF Continue
  <2>2. CASE RunEnds(held)
    <3>1. \/ run' = NoRun
          \/ held.text # None /\ Started(run', held)
      BY <2>2, EndOfRun DEF IInv, TypeOK
    <3>2. rerun' = FALSE
      BY <2>2 DEF RunEnds
    <3> QED
      BY <3>1, <3>2
  <2> QED
    BY <1>2, <2>1, <2>2
<1>8. /\ request' \in [Texts -> [at : {"none", "held", "sent", "over"}, fresh : BOOLEAN]]
      /\ \A n \in Texts : request'[n].at = request[n].at
  BY <1>2, StaleRequests DEF IInv, TypeOK
<1>9. wakes' \in Nat /\ (held'.text # None => wakes' > 0)
  BY <1>2, WakesLeft DEF IInv
<1>10. TypeOK'
  BY <1>2, <1>5, <1>7, <1>8, <1>9, NoRunIsRun DEF IInv, TypeOK, Started
<1>11. \A n \in Texts : Said(n)' <=> Said(n)
  BY <1>8 DEF Said
<1>12. Order'
  <2>1. /\ stands \in Texts /\ held.text \in {None} \cup Texts /\ run.text \in Texts
        /\ \A p \in Places : verdict[p].text \in {None} \cup Texts
    BY <1>1, <1>3 DEF IInv, TypeOK
  <2>2. \A p \in Places : verdict'[p].text # None => Said(verdict[p].text)'
    <3> SUFFICES ASSUME NEW p \in Places, verdict'[p].text # None
                 PROVE  Said(verdict[p].text)'
      OBVIOUS
    <3>1. CASE verdict'[p].text = run.text
      BY <1>1, <1>8, <2>1, <3>1 DEF Said
    <3>2. CASE verdict'[p].text = verdict[p].text
      BY <1>8, <2>1, <3>2 DEF IInv, Order, Said
    <3> QED
      BY <1>5, <3>1, <3>2
  <2>3. run'.at # "none" => run'.text # None /\ Said(run.text)'
    <3>1. run'.at # "none" => run'.text \in {run.text, held.text} /\ run'.text # None
      BY <1>1, <1>7, NoRunIsRun DEF Started
    <3>2. held.text # None => Said(held.text)
      BY DEF IInv, Order
    <3> QED
      BY <1>1, <1>8, <2>1, <3>1, <3>2 DEF Said
  <2>4. rerun' => run'.at # "none"
    BY <1>7 DEF IInv, Order
  <2>5. held'.text # None => Said(held.text)' /\ \A n \in Texts : Said(n)' => n <= held'.text
    BY <1>2, <1>8, <2>1 DEF IInv, Order, Said
  <2>6. stands' # None => Said(stands)'
    BY <1>2, <1>8, <2>1 DEF IInv, Order, Said
  <2>7. \A n, m \in Texts : m < n /\ Said(n)' => Said(m)'
    BY <1>11 DEF IInv, Order
  <2>8. held'.gen <= held'.text
    BY <1>2 DEF IInv, Order
  <2> QED
    BY <2>2, <2>3, <2>4, <2>5, <2>6, <2>7, <2>8 DEF Order
<1>13. held.gen <= held.gen
  BY Numbers, Reflexive DEF IInv
<1>14. OfTheHeld'
  BY <1>1, <1>2, <1>7, <1>13, NoRunIsRun DEF IInv, OfTheHeld, Started
<1>15. OlderTextNeverLands'
  <2>1. ~refused => stands <= run.text
    BY <1>1 DEF IInv, OfTheHeld
  <2> QED
    BY <1>2, <1>5, <2>1 DEF IInv, OlderTextNeverLands
<1>16. Forgetting'
  BY <1>2 DEF Forgetting
<1>17. Pursued'
  <2> SUFFICES ASSUME Screenable'
               PROVE  Pursued'
    BY DEF Pursued
  <2>1. Screenable /\ held.text # None
    BY <1>2 DEF Screenable
  <2>2. run'.at # "none" /\ run'.gen # held'.gen => rerun'
    BY <1>1, <1>2, <1>7, <2>1, NoRunIsRun DEF IInv, Pursued, Started
  <2> QED
    BY <1>2, <1>9, <2>1, <2>2 DEF Pursued
<1> QED
  BY <1>10, <1>12, <1>14, <1>15, <1>16, <1>17 DEF IInv

LEMMA RecordedKeeps ==
  ASSUME IInv, Recorded
  PROVE  IInv'
<1>1. CASE run.fresh /\ ~agreed /\ stands # None
  BY <1>1, VerdictsRecorded
<1>2. CASE ~(run.fresh /\ ~agreed /\ stands # None)
  <2>1. run.at = "recording" /\ RunEnds(held)
    BY <1>2 DEF Recorded, StillChoosing
  <2>2. UNCHANGED <<held, room, verdict, request, wakes, refused, outside, faults>>
    BY <1>2 DEF Recorded, StillChoosing
  <2>3. Screenable => rerun \/ wakes > 0
    <3>1. Screenable => stands # None /\ ~agreed
      BY DEF Screenable
    <3> QED
      BY <1>2, <2>1, <3>1, StaleIsPursued
  <2>4. faults \in 0..MaxFaults
    BY DEF IInv, TypeOK
  <2> QED
    BY <2>1, <2>2, <2>3, <2>4, EndKeeps
<1> QED
  BY <1>1, <1>2

-----------------------------------------------------------------------------
LEMMA InitIsInvariant == Init => IInv
<1> SUFFICES ASSUME Init
             PROVE  IInv
  OBVIOUS
<1>1. /\ \A n \in Texts : request[n].at = "none"
      /\ request \in [Texts -> [at : {"none", "held", "sent", "over"}, fresh : BOOLEAN]]
  BY DEF Init
<1>2. /\ \A p \in Places : verdict[p].text = None
      /\ verdict \in [Places -> [text : {None} \cup Texts, current : BOOLEAN]]
  BY DEF Init, NoVerdict
<1>3. held.text = None /\ stands = None /\ run.at = "none" /\ ~rerun
  BY NoHoldIsHold, NoRunIsRun DEF Init
<1>4. TypeOK
  <2>1. outside \in 0..MaxOutside /\ faults \in 0..MaxFaults /\ wakes \in Nat
    BY Bounds DEF Init
  <2> QED
    BY <1>1, <1>2, <2>1, NoHoldIsHold, NoRunIsRun DEF Init, TypeOK
<1>5. Order
  BY <1>1, <1>2, <1>3, NoHoldIsHold DEF Init, Order, Said
<1>6. OfTheHeld /\ OlderTextNeverLands /\ Forgetting /\ Pursued
  BY <1>2, <1>3 DEF OfTheHeld, OlderTextNeverLands, Forgetting, Pursued, Screenable
<1> QED
  BY <1>4, <1>5, <1>6 DEF IInv

LEMMA StepKeepsInvariant == IInv /\ [Next]_vars => IInv'
<1> SUFFICES ASSUME IInv, [Next]_vars
             PROVE  IInv'
  OBVIOUS
<1>1. ASSUME NEW n \in Texts, Condition(n)
      PROVE  IInv'
  BY <1>1, SayKeeps, ReadRoomKeeps, DeclareKeeps, DeclareRefusedKeeps DEF Condition
<1>2. CASE Outside
  BY <1>2, OtherCommitKeeps, AgreeKeeps, OutsideFactsKeeps, WithdrawKeeps DEF Outside
<1>3. CASE Step
  BY <1>3, CheckKeeps, LetGoKeeps, PickKeeps, ReadKeeps, JudgedKeeps, LookedKeeps, RecordedKeeps
     DEF Step
<1>4. CASE LookupFinds \/ Wake \/ Fault
  BY <1>4, LookupFindsKeeps, WakeKeeps, ConditionFailsKeeps, RunFailsKeeps, RestartKeeps DEF Fault
<1>5. CASE UNCHANGED vars
  <2>1. TypeOK' /\ Order'
    BY <1>5 DEF vars, IInv, TypeOK, Order, Said
  <2>2. OfTheHeld' /\ OlderTextNeverLands'
    BY <1>5 DEF vars, IInv, OfTheHeld, OlderTextNeverLands
  <2>3. Forgetting'
    BY <1>5 DEF vars, IInv, Forgetting, UnderWay
  <2>4. Pursued'
    BY <1>5 DEF vars, IInv, Pursued, Screenable, Screened
  <2> QED
    BY <2>1, <2>2, <2>3, <2>4 DEF IInv
<1> QED
  BY <1>1, <1>2, <1>3, <1>4, <1>5 DEF Next

(* The inductive invariant holds for any places, texts, batches, changes    *)
(* from outside and faults.                                                 *)
THEOREM Invariance == Spec => []IInv
  BY InitIsInvariant, StepKeepsInvariant, PTL DEF Spec

(* Every record of Screening keeps its shape and every count its bound, for  *)
(* any set of places, any batch and any number of texts.                     *)
THEOREM TypeCorrect == Spec => []TypeOK
<1>1. IInv => TypeOK
  BY DEF IInv
<1> QED
  BY <1>1, Invariance, PTL

(* No verdict of an older text lands on a newer declaration, as long as no   *)
(* declaration was refused: the generation is compared after every answer    *)
(* (screening.ts), and a record is accepted only on the room that was read.  *)
THEOREM OlderTextStaysOut == Spec => []OlderTextNeverLands
<1>1. IInv => OlderTextNeverLands
  BY DEF IInv
<1> QED
  BY <1>1, Invariance, PTL

(* When nothing is under way, no text is held without its declaration: the   *)
(* commit that withdrew it woke the agent, and the run it asked for let the  *)
(* text go, whatever run was in its way.                                     *)
THEOREM WithdrawalIsFollowed == Spec => []WithdrawnIsForgotten
<1>1. IInv => WithdrawnIsForgotten
  <2> SUFFICES ASSUME IInv, Quiet, faults = 0, stands = None, held.text # None
               PROVE  FALSE
    BY DEF WithdrawnIsForgotten
  <2>1. ~UnderWay /\ run.at = "none"
    BY DEF Quiet, UnderWay
  <2>2. ~rerun /\ ~(wakes > 0)
    BY <2>1 DEF IInv, Order, Quiet
  <2> QED
    BY <2>1, <2>2 DEF IInv, Forgetting
<1> QED
  BY <1>1, Invariance, PTL

(* When nothing is under way in a room that still chooses, every place is    *)
(* screened against the text that is held and declared, on the facts as they *)
(* are: a run ends short of that only where another is asked for or a wake   *)
(* is on its way (holder.ts 67-71).                                          *)
THEOREM NoWishIsLost == Spec => []NothingLeftUnscreened
<1>1. IInv => NothingLeftUnscreened
  <2> SUFFICES ASSUME IInv, Quiet, Screenable
               PROVE  Screened
    BY DEF NothingLeftUnscreened, Screenable, Screened
  <2>1. run.at = "none" /\ ~(wakes > 0)
    BY DEF Quiet
  <2> QED
    BY <2>1 DEF IInv, Pursued
<1> QED
  BY <1>1, Invariance, PTL

=============================================================================
