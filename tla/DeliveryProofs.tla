--------------------------- MODULE DeliveryProofs ---------------------------
(* Type correctness of Delivery, and what a page promises its reader: its    *)
(* feed keeps RoomFeed and so has no hole, what it drops from the feed is on *)
(* the map, a refetch reaches whatever it was asked for, and a page that     *)
(* lost nothing and rests shows the room's map.                              *)
(*                                                                          *)
(* Two arguments carry these.  Nothing on its way is ahead of the room, and  *)
(* a catch-up that has read further than the watermark has shown what is in  *)
(* between (Behind, Consumed).  And whoever learns of a new revision leaves  *)
(* a refetch that will ask late enough: one that has been asked since, or    *)
(* one with another round queued behind it (Rounds, Replacing, Covered).     *)
EXTENDS Delivery, SequenceTheorems, TLAPS

(* Nothing the page has, or has coming, is ahead of the room.                *)
Behind ==
    /\ {known, projected, cards, greeting} \subseteq 0..Revision
    /\ base <= projected /\ ctx <= Revision
    /\ \A i \in DOMAIN queue : queue[i].from <= queue[i].to /\ queue[i].to <= Revision
    /\ \A i \in DOMAIN wire : wire[i].from <= wire[i].to /\ wire[i].to <= Revision
    /\ catch.after <= catch.since /\ catch.since <= Revision
    /\ catch.target <= Revision /\ catch.rev <= Revision
    /\ fetch.since <= Revision /\ fetch.min <= Revision
    /\ move.rev <= Revision /\ move.base <= Revision

(* What a catch-up has consumed beyond the watermark is shown already.       *)
Consumed ==
    catch.at = "asked" =>
        \A r \in 1..Revision : projected < r /\ r <= catch.after /\ log[r] \notin Secret => r \in feed

(* A refetch that has no further round queued aims at all that was asked.    *)
Rounds == fetch.at = "asked" /\ ~fetch.queued => fetch.min = fetch.target

(* The refetch that a catch-up waits for, or would share, shows whatever the *)
(* page has read meanwhile: it was asked later, or asks again.               *)
Replacing ==
    /\ catch.at = "replacing" => fetch.at = "asked"
    /\ catch.at = "replacing" =>
         projected <= catch.rev \/ fetch.queued \/ projected <= fetch.since
    /\ catch.at = "asked" /\ fetch.at = "asked" =>
         projected <= catch.since \/ fetch.queued \/ projected <= fetch.since

(* The last broadcast that waits is of the last commit.                      *)
Fresh == queue # <<>> => queue[Len(queue)].to = Revision

(* The room's newest revision is on the map or on its way there.             *)
OnItsWay ==
    \/ ctx = Revision
    \/ queue # <<>>
    \/ \E i \in DOMAIN wire : wire[i].to = Revision
    \/ fetch.at = "asked" /\ (fetch.queued \/ fetch.since = Revision \/ fetch.target = Revision)

Covered ==
    ~spoilt => /\ sock = "read" => OnItsWay \/ greeting = Revision
               /\ sock = "open" => OnItsWay

IInv ==
    /\ TypeOK
    /\ Behind
    /\ Consumed
    /\ Rounds
    /\ Replacing
    /\ Fresh
    /\ Covered

-----------------------------------------------------------------------------
LEMMA Bounds ==
  /\ PageCap \in Nat \ {0} /\ Backlog \in Nat \ {0} /\ MaxRevision \in Nat \ {0}
  /\ MaxCommit \in Nat \ {0} /\ MaxFaults \in Nat
  BY DeliveryAssumption

LEMMA LargerOf ==
  ASSUME NEW a \in Int, NEW b \in Int
  PROVE  /\ Larger(a, b) = a \/ Larger(a, b) = b
         /\ a <= Larger(a, b) /\ b <= Larger(a, b)
  BY DEF Larger

(* The numbers of a state, as numbers.                                       *)
LEMMA Numbers ==
  ASSUME TypeOK
  PROVE  /\ Revision \in Rev
         /\ projected \in Rev /\ known \in Rev /\ base \in Rev /\ cards \in Rev
         /\ greeting \in Rev /\ ctx \in -1..MaxRevision
         /\ catch.after \in Rev /\ catch.since \in Rev /\ catch.rev \in Rev
         /\ catch.target \in -1..MaxRevision
         /\ fetch.min \in Rev /\ fetch.target \in Rev /\ fetch.since \in Rev
         /\ move.base \in Rev /\ move.rev \in Rev
         /\ faults \in 0..MaxFaults
  BY DEF TypeOK, CatchUps, Fetches, Revision

LEMMA RevInt == Rev \subseteq Nat /\ Rev \subseteq Int /\ -1..MaxRevision \subseteq Int /\ 0 \in Rev
  BY Bounds DEF Rev

(* The same numbers below the room's revision.                               *)
LEMMA Limits ==
  ASSUME IInv
  PROVE  /\ Revision \in Nat /\ Revision <= MaxRevision
         /\ projected \in Nat /\ projected <= Revision
         /\ known \in Nat /\ known <= Revision
         /\ cards \in Nat /\ cards <= Revision
         /\ greeting \in Nat /\ greeting <= Revision
         /\ base \in Nat /\ base <= projected
         /\ ctx \in Int /\ -1 <= ctx /\ ctx <= Revision
         /\ catch.after \in Nat /\ catch.after <= catch.since /\ catch.after <= Revision
         /\ catch.since \in Nat /\ catch.since <= Revision
         /\ catch.rev \in Nat /\ catch.rev <= Revision
         /\ catch.target \in Int /\ -1 <= catch.target /\ catch.target <= Revision
         /\ fetch.min \in Nat /\ fetch.min <= Revision
         /\ fetch.since \in Nat /\ fetch.since <= Revision
         /\ fetch.target \in Nat
         /\ move.base \in Nat /\ move.base <= Revision
         /\ move.rev \in Nat /\ move.rev <= Revision
<1>1. TypeOK /\ Behind
  BY DEF IInv
<1>2. /\ Revision \in 0..MaxRevision /\ base \in 0..MaxRevision /\ ctx \in -1..MaxRevision
      /\ catch.after \in 0..MaxRevision /\ catch.since \in 0..MaxRevision
      /\ catch.rev \in 0..MaxRevision /\ catch.target \in -1..MaxRevision
      /\ fetch.min \in 0..MaxRevision /\ fetch.target \in 0..MaxRevision
      /\ fetch.since \in 0..MaxRevision
      /\ move.base \in 0..MaxRevision /\ move.rev \in 0..MaxRevision
  BY <1>1, Numbers DEF Rev
<1>3. /\ projected \in 0..Revision /\ known \in 0..Revision /\ cards \in 0..Revision
      /\ greeting \in 0..Revision /\ base <= projected /\ ctx <= Revision
  BY <1>1 DEF Behind
<1>4. /\ catch.after <= catch.since /\ catch.since <= Revision
      /\ catch.target <= Revision /\ catch.rev <= Revision
      /\ fetch.since <= Revision /\ fetch.min <= Revision
      /\ move.rev <= Revision /\ move.base <= Revision
  BY <1>1 DEF Behind
<1> QED
  BY <1>2, <1>3, <1>4, Bounds

(* Every frame and every broadcast on its way.                               *)
LEMMA FrameLimits ==
  ASSUME IInv
  PROVE  /\ \A i \in DOMAIN wire : /\ wire[i] \in Frame
                                   /\ wire[i].from \in Nat /\ wire[i].to \in Nat
                                   /\ wire[i].from <= wire[i].to /\ wire[i].to <= Revision
         /\ \A i \in DOMAIN queue : /\ queue[i] \in Span
                                    /\ queue[i].from \in Nat /\ queue[i].to \in Nat
                                    /\ queue[i].from <= queue[i].to /\ queue[i].to <= Revision
<1>1. \A i \in DOMAIN wire : wire[i].from <= wire[i].to /\ wire[i].to <= Revision
  BY DEF IInv, Behind
<1>2. \A i \in DOMAIN queue : queue[i].from <= queue[i].to /\ queue[i].to <= Revision
  BY DEF IInv, Behind
<1>3. \A i \in DOMAIN wire : wire[i] \in Frame
  BY DEF IInv, TypeOK
<1>4. \A i \in DOMAIN queue : queue[i] \in Span
  BY DEF IInv, TypeOK
<1>5. \A f \in Frame : f.from \in Nat /\ f.to \in Nat
  BY RevInt DEF Frame
<1>6. \A s \in Span : s.from \in Nat /\ s.to \in Nat
  BY RevInt DEF Span
<1> QED
  BY <1>1, <1>2, <1>3, <1>4, <1>5, <1>6

LEMMA NothingAsked ==
  /\ NoCatchUp \in CatchUps /\ NoCatchUp.at = "idle" /\ NoCatchUp.after = 0
  /\ NoCatchUp.target = -1 /\ NoCatchUp.since = 0 /\ NoCatchUp.rev = 0
  /\ NoFetch \in Fetches /\ NoFetch.at = "idle" /\ NoFetch.min = 0
  /\ NoFetch.target = 0 /\ NoFetch.since = 0 /\ NoFetch.queued = FALSE
<1>1. 0 \in Rev /\ -1 \in -1..MaxRevision
  BY Bounds DEF Rev
<1> QED
  BY <1>1 DEF NoCatchUp, NoFetch, CatchUps, Fetches

LEMMA AskedSync ==
  ASSUME TypeOK, NEW after \in Rev, NEW target \in -1..MaxRevision
  PROVE  /\ AskSync(after, target) \in CatchUps
         /\ AskSync(after, target).at = "asked"
         /\ AskSync(after, target).after = after
         /\ AskSync(after, target).target = target
         /\ AskSync(after, target).since = Revision
         /\ AskSync(after, target).rev = 0
<1>1. Revision \in Rev
  BY Numbers
<1>2. NoCatchUp \in CatchUps /\ NoCatchUp.rev = 0
  BY NothingAsked
<1> QED
  BY <1>1, <1>2 DEF AskSync, CatchUps

LEMMA AskedContext ==
  ASSUME TypeOK, NEW min \in Rev
  PROVE  /\ AskContext(min) \in Fetches
         /\ AskContext(min).at = "asked"
         /\ AskContext(min).min = min
         /\ AskContext(min).target = min
         /\ AskContext(min).since = Revision
         /\ AskContext(min).queued = FALSE
<1>1. Revision \in Rev
  BY Numbers
<1>2. NoFetch \in Fetches /\ NoFetch.queued = FALSE
  BY NothingAsked
<1> QED
  BY <1>1, <1>2 DEF AskContext, Fetches

LEMMA CatchesUp ==
  ASSUME TypeOK, NEW through \in Rev
  PROVE  /\ CatchUp(catch, through) \in CatchUps
         /\ catch.at # "idle" => CatchUp(catch, through) = catch
         /\ catch.at = "idle" =>
              /\ CatchUp(catch, through).at = "asked"
              /\ CatchUp(catch, through).after = through
              /\ CatchUp(catch, through).target = -1
              /\ CatchUp(catch, through).since = Revision
              /\ CatchUp(catch, through).rev = 0
<1>1. -1 \in -1..MaxRevision /\ catch \in CatchUps
  BY Bounds DEF TypeOK
<1> QED
  BY <1>1, AskedSync DEF CatchUp

(* A wish for the map: a new question, or a share in the one under way.      *)
LEMMA Refetches ==
  ASSUME TypeOK, NEW f \in Fetches, NEW min \in Rev
  PROVE  /\ Refetch(f, min) \in Fetches
         /\ Refetch(f, min).at = "asked"
         /\ f.at # "asked" =>
              /\ Refetch(f, min).min = min
              /\ Refetch(f, min).target = min
              /\ Refetch(f, min).since = Revision
              /\ ~Refetch(f, min).queued
         /\ f.at = "asked" =>
              /\ Refetch(f, min).min = Larger(f.min, min)
              /\ Refetch(f, min).target = f.target
              /\ Refetch(f, min).since = f.since
              /\ Refetch(f, min).queued <=> (f.queued \/ min = 0 \/ f.min < min)
<1>1. CASE f.at # "asked"
  <2>1. f.at = "idle"
    BY <1>1 DEF Fetches
  <2>2. Refetch(f, min) = AskContext(min)
    BY <2>1 DEF Refetch
  <2> QED
    BY <1>1, <2>2, AskedContext
<1>2. CASE f.at = "asked"
  <2> DEFINE m == Larger(f.min, min)
             q == f.queued \/ min = 0 \/ f.min < min
  <2>1. m \in Rev
    BY LargerOf, RevInt DEF Fetches
  <2>2. q \in BOOLEAN
    OBVIOUS
  <2>3. Refetch(f, min) = [f EXCEPT !.min = m, !.queued = q]
    BY <1>2 DEF Refetch
  <2> HIDE DEF m, q
  <2>4. /\ [f EXCEPT !.min = m, !.queued = q] \in Fetches
        /\ [f EXCEPT !.min = m, !.queued = q].at = "asked"
        /\ [f EXCEPT !.min = m, !.queued = q].min = m
        /\ [f EXCEPT !.min = m, !.queued = q].target = f.target
        /\ [f EXCEPT !.min = m, !.queued = q].since = f.since
        /\ [f EXCEPT !.min = m, !.queued = q].queued = q
    BY <1>2, <2>1, <2>2 DEF Fetches
  <2> QED
    BY <1>2, <2>3, <2>4 DEF m, q
<1> QED
  BY <1>1, <1>2

-----------------------------------------------------------------------------
(* The room.                                                                 *)

LEMMA EventsOfCommit ==
  ASSUME NEW kinds \in SUBSET Kinds, NEW events \in Commits(kinds)
  PROVE  events \in Seq(Kinds) /\ Len(events) >= 1
<1>1. PICK n \in 1..MaxCommit : events \in [1..n -> kinds]
  BY DEF Commits
<1>2. n \in Nat /\ n >= 1
  BY <1>1, Bounds
<1>3. events \in Seq(kinds) /\ Len(events) = n
  BY <1>1, <1>2
<1>4. \A i \in 1..n : events[i] \in Kinds
  BY <1>1
<1>5. events \in [1..n -> Kinds]
  BY <1>1, <1>4
<1> QED
  BY <1>2, <1>3, <1>5

(* A commit numbers its events on; what was there stays.                     *)
LEMMA CommitGrows ==
  ASSUME IInv, NEW kinds \in SUBSET Kinds, NEW events \in Commits(kinds), Commit(events)
  PROVE  /\ log' \in Seq(Kinds) /\ Revision' \in Rev /\ Revision < Revision'
         /\ Revision \in Nat /\ Revision' \in Nat /\ Revision <= Revision'
         /\ \A r \in 1..Revision : log'[r] = log[r]
         /\ queue' \in Seq(Span)
         /\ \A i \in DOMAIN queue' : queue'[i].from <= queue'[i].to /\ queue'[i].to <= Revision'
         /\ queue' # <<>> /\ queue'[Len(queue')].to = Revision'
<1>1. events \in Seq(Kinds) /\ Len(events) >= 1 /\ Len(events) \in Nat
  BY EventsOfCommit
<1>2. log \in Seq(Kinds) /\ Len(log) \in Rev /\ Len(log) \in Nat /\ queue \in Seq(Span)
  BY RevInt DEF IInv, TypeOK
<1>3. log' = log \o events /\ Len(log) + Len(events) <= MaxRevision
  BY DEF Commit, Revision
<1>4. /\ log \o events \in Seq(Kinds)
      /\ Len(log \o events) = Len(log) + Len(events)
      /\ \A r \in 1..Len(log) : (log \o events)[r] = log[r]
  BY <1>1, <1>2, ConcatProperties
<1>5. Len(log') = Len(log) + Len(events)
  BY <1>3, <1>4
<1>6. Len(log') \in Rev /\ Len(log) < Len(log')
  BY <1>1, <1>2, <1>3, <1>5, Bounds DEF Rev
<1> DEFINE span == [from |-> Len(log), to |-> Len(log')]
<1>7. queue' = Append(queue, span)
  BY <1>3, <1>5 DEF Commit, Revision
<1>8. span \in Span /\ span.from <= span.to /\ span.to = Len(log')
  BY <1>2, <1>6, RevInt DEF Span
<1> HIDE DEF span
<1>9. /\ queue' \in Seq(Span) /\ queue' # <<>>
      /\ Len(queue') = Len(queue) + 1
      /\ \A i \in 1..Len(queue) : queue'[i] = queue[i]
      /\ queue'[Len(queue')] = span
  BY <1>2, <1>7, <1>8, AppendProperties
<1>10. ASSUME NEW i \in DOMAIN queue'
       PROVE  queue'[i].from <= queue'[i].to /\ queue'[i].to <= Len(log')
  <2>1. CASE i \in 1..Len(queue)
    <3>1. queue[i].from <= queue[i].to /\ queue[i].to <= Len(log) /\ queue[i] \in Span
      BY <1>2, <2>1 DEF IInv, Behind, Revision
    <3>2. queue[i].to \in Nat
      BY <3>1, RevInt DEF Span
    <3> QED
      BY <1>2, <1>6, <1>9, <2>1, <3>1, <3>2, RevInt
  <2>2. CASE i = Len(queue')
    BY <1>6, <1>8, <1>9, <2>2, RevInt
  <2> QED
    BY <1>2, <1>9, <2>1, <2>2
<1>11. Len(log') \in Nat /\ Len(log) <= Len(log')
  BY <1>2, <1>6, RevInt
<1> QED
  BY <1>2, <1>3, <1>4, <1>6, <1>8, <1>9, <1>10, <1>11 DEF Revision

(* Whatever else a commit does, it leaves the page where it was.             *)
LEMMA CommitKeeps ==
  ASSUME IInv, NEW kinds \in SUBSET Kinds, NEW events \in Commits(kinds), Commit(events),
         UNCHANGED <<pass, socket, page, faults, spoilt>>,
         move' \in [at : {"none", "sent", "done", "refused", "waiting", "over"},
                    base : Rev, retried : BOOLEAN, rev : Rev],
         move'.base <= Revision', move'.rev <= Revision'
  PROVE  IInv'
<1>1. /\ log' \in Seq(Kinds) /\ Revision' \in Rev /\ Revision < Revision'
      /\ \A r \in 1..Revision : log'[r] = log[r]
      /\ queue' \in Seq(Span)
      /\ \A i \in DOMAIN queue' : queue'[i].from <= queue'[i].to /\ queue'[i].to <= Revision'
      /\ queue' # <<>> /\ queue'[Len(queue')].to = Revision'
  BY CommitGrows
<1>2. UNCHANGED <<pass, sock, greeting, wire, known, projected, feed, base, cards, ctx, catch,
                  fetch, faults, spoilt>>
  BY DEF socket, page
<1>3. TypeOK'
  BY <1>1, <1>2 DEF IInv, TypeOK, Revision
<1>4. Behind'
  <2>1. Revision \in Nat /\ Revision' \in Nat /\ Revision <= Revision'
    BY CommitGrows
  <2>2. {known, projected, cards, greeting} \subseteq 0..Revision'
    BY <2>1, Limits
  <2>3. base <= projected /\ ctx <= Revision'
    BY <2>1, Limits
  <2>4. \A i \in DOMAIN wire : wire[i].from <= wire[i].to /\ wire[i].to <= Revision'
    BY <2>1, FrameLimits
  <2>5. /\ catch.after <= catch.since /\ catch.since <= Revision'
        /\ catch.target <= Revision' /\ catch.rev <= Revision'
    BY <2>1, Limits
  <2>6. fetch.since <= Revision' /\ fetch.min <= Revision'
    BY <2>1, Limits
  <2> QED
    BY <1>1, <1>2, <2>2, <2>3, <2>4, <2>5, <2>6 DEF Behind
<1>5. Consumed'
  <2> SUFFICES ASSUME catch.at = "asked", NEW r \in 1..Revision',
                      projected < r, r <= catch.after, log'[r] \notin Secret
               PROVE  r \in feed
    BY <1>2 DEF Consumed
  <2>1. catch.after <= Revision /\ catch.after \in Nat /\ Revision \in Nat /\ Revision' \in Nat
    BY CommitGrows, Limits
  <2>2. r \in 1..Revision
    BY <2>1
  <2> QED
    BY <1>1, <2>2 DEF IInv, Consumed
<1>6. Rounds' /\ Replacing'
  BY <1>2 DEF IInv, Rounds, Replacing
<1>7. Fresh' /\ Covered'
  BY <1>1 DEF Fresh, Covered, OnItsWay
<1> QED
  BY <1>3, <1>4, <1>5, <1>6, <1>7 DEF IInv

LEMMA PeerCommitsKeeps ==
  ASSUME IInv, PeerCommits
  PROVE  IInv'
<1>1. PICK events \in Commits(PeerKinds) : Commit(events)
  BY DEF PeerCommits
<1>2. PeerKinds \in SUBSET Kinds
  BY DeliveryAssumption
<1>3. UNCHANGED <<pass, socket, page, move, faults, spoilt>>
  BY DEF PeerCommits
<1>4. Revision \in Nat /\ Revision' \in Nat /\ Revision <= Revision'
  BY <1>1, <1>2, CommitGrows
<1>5. move \in [at : {"none", "sent", "done", "refused", "waiting", "over"},
                base : Rev, retried : BOOLEAN, rev : Rev]
  BY DEF IInv, TypeOK
<1>6. move.base <= Revision' /\ move.rev <= Revision'
  BY <1>4, Limits
<1> QED
  BY <1>1, <1>2, <1>3, <1>5, <1>6, CommitKeeps

Moves == [at : {"none", "sent", "done", "refused", "waiting", "over"},
          base : Rev, retried : BOOLEAN, rev : Rev]

(* What happens between the room and the socket leaves the page alone.       *)
LEMMA WayKeeps ==
  ASSUME IInv, UNCHANGED <<log, page>>,
         pass' \in {pass, "outdated", "expired"},
         sock' \in {"off", "down", "joined", "read", "open", "refused"},
         greeting' \in 0..Revision,
         queue' \in Seq(Span),
         \A i \in DOMAIN queue' : queue'[i].from <= queue'[i].to /\ queue'[i].to <= Revision,
         wire' \in Seq(Frame),
         \A i \in DOMAIN wire' : wire'[i].from <= wire'[i].to /\ wire'[i].to <= Revision,
         move' \in Moves, move'.base <= Revision, move'.rev <= Revision,
         faults' \in 0..MaxFaults, spoilt' \in BOOLEAN,
         Fresh', Covered'
  PROVE  IInv'
<1>1. UNCHANGED <<log, known, projected, feed, base, cards, ctx, catch, fetch>>
  BY DEF page
<1>2. Revision' = Revision /\ greeting' \in Rev
  <2>1. Revision \in 0..MaxRevision /\ Revision \in Nat
    BY Limits, Numbers DEF IInv, Rev
  <2> QED
    BY <1>1, <2>1, Bounds DEF Rev, Revision
<1>3. TypeOK'
  BY <1>1, <1>2 DEF IInv, TypeOK, Moves
<1>4. Behind'
  BY <1>1, <1>2 DEF IInv, Behind
<1>5. Consumed' /\ Rounds' /\ Replacing'
  BY <1>1, <1>2 DEF IInv, Consumed, Rounds, Replacing
<1> QED
  BY <1>3, <1>4, <1>5 DEF IInv

LEMMA NothingInIt ==
  /\ Len(<<>>) = 0
  /\ <<>> \in Seq(Span) /\ <<>> \in Seq(Frame)
  /\ DOMAIN <<>> = {}
  OBVIOUS

(* The last broadcast of a queue that gets shorter is still the last one.    *)
LEMMA ShorterQueue ==
  ASSUME IInv, queue # <<>>, queue' = Tail(queue), UNCHANGED log
  PROVE  /\ queue' \in Seq(Span)
         /\ \A i \in DOMAIN queue' : queue'[i].from <= queue'[i].to /\ queue'[i].to <= Revision
         /\ Fresh'
         /\ queue' = <<>> => queue[1].to = Revision
         /\ queue[1] \in Span /\ queue[1].from <= queue[1].to /\ queue[1].to <= Revision
<1>1. queue \in Seq(Span) /\ Len(queue) \in Nat /\ Len(queue) # 0
  BY DEF IInv, TypeOK
<1>2. /\ queue' \in Seq(Span) /\ Len(queue') = Len(queue) - 1
      /\ \A i \in 1..Len(queue') : queue'[i] = queue[i + 1]
  BY <1>1, HeadTailProperties
<1>3. \A i \in DOMAIN queue' : queue'[i].from <= queue'[i].to /\ queue'[i].to <= Revision
  <2> SUFFICES ASSUME NEW i \in DOMAIN queue'
               PROVE  queue'[i].from <= queue'[i].to /\ queue'[i].to <= Revision
    OBVIOUS
  <2>1. i + 1 \in DOMAIN queue /\ queue'[i] = queue[i + 1]
    BY <1>1, <1>2
  <2> QED
    BY <2>1, FrameLimits
<1>4. 1 \in DOMAIN queue
  BY <1>1
<1>5. queue[Len(queue)].to = Revision
  BY DEF IInv, Fresh
<1>6. Fresh'
  <2> SUFFICES ASSUME queue' # <<>>
               PROVE  queue'[Len(queue')].to = Revision
    BY DEF Fresh, Revision
  <2>1. Len(queue') \in 1..Len(queue')
    BY <1>1, <1>2
  <2>2. queue'[Len(queue')] = queue[Len(queue)]
    BY <1>1, <1>2, <2>1
  <2> QED
    BY <1>5, <2>2
<1>7. ASSUME queue' = <<>>
      PROVE  Len(queue) = 1
  <2>1. Len(queue') = 0
    BY <1>7, NothingInIt
  <2> QED
    BY <1>1, <1>2, <2>1
<1> QED
  BY <1>2, <1>3, <1>4, <1>5, <1>6, <1>7, FrameLimits

(* Appending a good frame leaves the wire good.                              *)
LEMMA LongerWire ==
  ASSUME IInv, NEW f \in Frame, f.from <= f.to, f.to <= Revision, wire' = Append(wire, f)
  PROVE  /\ wire' \in Seq(Frame)
         /\ \A i \in DOMAIN wire' : wire'[i].from <= wire'[i].to /\ wire'[i].to <= Revision
         /\ \E i \in DOMAIN wire' : wire'[i] = f
         /\ \A i \in DOMAIN wire : i \in DOMAIN wire' /\ wire'[i] = wire[i]
<1>1. wire \in Seq(Frame) /\ Len(wire) \in Nat
  BY DEF IInv, TypeOK
<1>2. /\ wire' \in Seq(Frame) /\ Len(wire') = Len(wire) + 1
      /\ \A i \in 1..Len(wire) : wire'[i] = wire[i]
      /\ wire'[Len(wire) + 1] = f
  BY <1>1, AppendProperties
<1>3. \A i \in DOMAIN wire' : i \in DOMAIN wire \/ i = Len(wire) + 1
  BY <1>1, <1>2
<1> QED
  BY <1>1, <1>2, <1>3, FrameLimits

LEMMA MoveStays ==
  ASSUME IInv
  PROVE  move \in Moves /\ move.base <= Revision /\ move.rev <= Revision
  BY DEF IInv, TypeOK, Behind, Moves

LEMMA GestureKeeps ==
  ASSUME IInv, Gesture
  PROVE  IInv'
<1>1. /\ move' = [move EXCEPT !.at = "sent", !.base = known]
      /\ UNCHANGED <<log, queue, pass, sock, greeting, wire, page, faults, spoilt>>
  BY DEF Gesture, server, socket
<1>2. known \in Rev /\ known <= Revision
  BY Numbers, Limits DEF IInv
<1>3. move' \in Moves /\ move'.base = known /\ move'.rev = move.rev
  BY <1>1, <1>2, MoveStays DEF Moves
<1>4. greeting \in 0..Revision
  BY DEF IInv, Behind
<1>5. /\ queue \in Seq(Span) /\ wire \in Seq(Frame) /\ faults \in 0..MaxFaults /\ spoilt \in BOOLEAN
      /\ sock \in {"off", "down", "joined", "read", "open", "refused"}
  BY DEF IInv, TypeOK
<1>6. Fresh' /\ Covered'
  BY <1>1 DEF IInv, Fresh, Covered, OnItsWay, Revision, page
<1> QED
  BY <1>1, <1>2, <1>3, <1>4, <1>5, <1>6, FrameLimits, MoveStays, WayKeeps

LEMMA BroadcastKeeps ==
  ASSUME IInv, Broadcast
  PROVE  IInv'
<1>1. /\ queue # <<>> /\ queue' = Tail(queue)
      /\ UNCHANGED <<log, pass, sock, greeting, page, move, faults, spoilt>>
  BY DEF Broadcast
<1>2. /\ queue' \in Seq(Span)
      /\ \A i \in DOMAIN queue' : queue'[i].from <= queue'[i].to /\ queue'[i].to <= Revision
      /\ Fresh'
      /\ queue' = <<>> => queue[1].to = Revision
      /\ queue[1] \in Span /\ queue[1].from <= queue[1].to /\ queue[1].to <= Revision
  BY <1>1, ShorterQueue
<1>3. greeting \in 0..Revision
  BY DEF IInv, Behind
<1>4. /\ wire \in Seq(Frame) /\ faults \in 0..MaxFaults /\ spoilt \in BOOLEAN
      /\ sock \in {"off", "down", "joined", "read", "open", "refused"}
  BY DEF IInv, TypeOK
<1>5. CASE Registered
  <2> DEFINE f == [type |-> "event", from |-> queue[1].from, to |-> queue[1].to]
  <2>1. wire' = Append(wire, f)
    BY <1>5 DEF Broadcast
  <2>2. f \in Frame /\ f.from <= f.to /\ f.to <= Revision /\ f.to = queue[1].to
    BY <1>2 DEF Frame, Span
  <2> HIDE DEF f
  <2>3. /\ wire' \in Seq(Frame)
        /\ \A i \in DOMAIN wire' : wire'[i].from <= wire'[i].to /\ wire'[i].to <= Revision
        /\ \E i \in DOMAIN wire' : wire'[i] = f
        /\ \A i \in DOMAIN wire : i \in DOMAIN wire' /\ wire'[i] = wire[i]
    BY <2>1, <2>2, LongerWire
  <2>4. Revision' = Revision
    BY <1>1 DEF Revision
  <2>5. OnItsWay'
    BY <1>1, <1>2, <2>2, <2>3, <2>4 DEF OnItsWay
  <2>6. Covered'
    BY <2>5 DEF Covered
  <2> QED
    BY <1>1, <1>2, <1>3, <1>4, <2>3, <2>6, MoveStays, WayKeeps
<1>6. CASE ~Registered
  <2>1. wire' = wire
    BY <1>6 DEF Broadcast
  <2>2. Covered'
    BY <1>1, <1>6 DEF Covered, Registered
  <2> QED
    BY <1>1, <1>2, <1>3, <1>4, <2>1, <2>2, FrameLimits, MoveStays, WayKeeps
<1> QED
  BY <1>5, <1>6

LEMMA BroadcastFailsKeeps ==
  ASSUME IInv, BroadcastFails
  PROVE  IInv'
<1>1. /\ queue # <<>> /\ queue' = Tail(queue) /\ spoilt' = TRUE
      /\ UNCHANGED <<log, pass, sock, greeting, wire, page, move>>
  BY DEF BroadcastFails, socket
<1>2. faults' \in 0..MaxFaults
  BY Bounds DEF BroadcastFails, IInv, TypeOK
<1>3. greeting \in 0..Revision
  BY DEF IInv, Behind
<1>4. /\ wire \in Seq(Frame)
      /\ sock \in {"off", "down", "joined", "read", "open", "refused"}
  BY DEF IInv, TypeOK
<1>5. Covered'
  BY <1>1 DEF Covered
<1> QED
  BY <1>1, <1>2, <1>3, <1>4, <1>5, ShorterQueue, FrameLimits, MoveStays, WayKeeps

LEMMA SocketUnchangedKeeps ==
  ASSUME IInv, UNCHANGED <<server, page, move, faults, spoilt>>,
         sock' \in {"joined", "read", "open", "refused"}, greeting' \in 0..Revision,
         wire' \in Seq(Frame),
         \A i \in DOMAIN wire' : wire'[i].from <= wire'[i].to /\ wire'[i].to <= Revision,
         Covered'
  PROVE  IInv'
<1>1. UNCHANGED <<log, queue, pass, page, move, faults, spoilt>>
  BY DEF server
<1>2. queue \in Seq(Span) /\ faults \in 0..MaxFaults /\ spoilt \in BOOLEAN
  BY DEF IInv, TypeOK
<1>3. Fresh'
  BY <1>1 DEF IInv, Fresh, Revision
<1> QED
  BY <1>1, <1>2, <1>3, FrameLimits, MoveStays, WayKeeps

LEMMA JoinKeeps ==
  ASSUME IInv, Join
  PROVE  IInv'
<1>1. greeting \in 0..Revision /\ wire \in Seq(Frame)
  BY DEF IInv, Behind, TypeOK
<1>2. Covered'
  BY DEF Join, Covered
<1> QED
  BY <1>1, <1>2, FrameLimits, SocketUnchangedKeeps DEF Join

(* A page that was refused is promised nothing.                              *)
LEMMA RefuseKeeps ==
  ASSUME IInv, Refuse
  PROVE  IInv'
<1>1. greeting \in 0..Revision /\ wire \in Seq(Frame)
  BY DEF IInv, Behind, TypeOK
<1>2. Covered'
  BY DEF Refuse, Covered
<1> QED
  BY <1>1, <1>2, FrameLimits, SocketUnchangedKeeps DEF Refuse

LEMMA ReadRevisionKeeps ==
  ASSUME IInv, ReadRevision
  PROVE  IInv'
<1>1. Revision \in 0..Revision /\ wire \in Seq(Frame)
  BY Limits DEF IInv, TypeOK
<1>2. Revision' = Revision
  BY DEF ReadRevision, server, Revision
<1>3. Covered'
  BY <1>2 DEF ReadRevision, Covered
<1> QED
  BY <1>1, <1>3, FrameLimits, SocketUnchangedKeeps DEF ReadRevision

(* The welcome carries the revision read for it, or the frames behind it do. *)
LEMMA WelcomeKeeps ==
  ASSUME IInv, Welcome
  PROVE  IInv'
<1> DEFINE f == [type |-> "welcome", from |-> 0, to |-> greeting]
<1>1. wire' = Append(wire, f)
  BY DEF Welcome
<1>2. f \in Frame /\ f.from <= f.to /\ f.to <= Revision /\ f.to = greeting
  <2>1. greeting \in Rev /\ 0 \in Rev /\ 0 <= greeting /\ greeting <= Revision
    BY Numbers, Limits, RevInt DEF IInv
  <2> QED
    BY <2>1 DEF Frame
<1> HIDE DEF f
<1>3. /\ wire' \in Seq(Frame)
      /\ \A i \in DOMAIN wire' : wire'[i].from <= wire'[i].to /\ wire'[i].to <= Revision
      /\ \E i \in DOMAIN wire' : wire'[i] = f
      /\ \A i \in DOMAIN wire : i \in DOMAIN wire' /\ wire'[i] = wire[i]
  BY <1>1, <1>2, LongerWire
<1>4. /\ sock = "read" /\ sock' = "open" /\ greeting' = 0
      /\ UNCHANGED <<server, page, move, faults, spoilt>>
      /\ UNCHANGED <<queue, ctx, fetch>> /\ Revision' = Revision
  BY DEF Welcome, server, page, Revision
<1>5. 0 \in 0..Revision
  BY Limits
<1>6. ASSUME ~spoilt
      PROVE  OnItsWay'
  <2>1. OnItsWay \/ greeting = Revision
    BY <1>4, <1>6 DEF IInv, Covered
  <2>2. CASE OnItsWay
    BY <1>3, <1>4, <2>2 DEF OnItsWay
  <2>3. CASE greeting = Revision
    BY <1>2, <1>3, <1>4, <2>3 DEF OnItsWay
  <2> QED
    BY <2>1, <2>2, <2>3
<1>7. Covered'
  BY <1>4, <1>6 DEF Covered
<1> QED
  BY <1>3, <1>4, <1>5, <1>7, SocketUnchangedKeeps

(* A socket that is gone carries nothing and promises nothing.               *)
LEMMA GoneKeeps ==
  ASSUME IInv, UNCHANGED <<log, page, move, spoilt>>, faults' \in 0..MaxFaults,
         pass' \in {pass, "outdated", "expired"},
         \/ Hangup
         \/ sock \in {"off", "refused"} /\ UNCHANGED socket,
         queue' = <<>> \/ queue' = queue
  PROVE  IInv'
<1>1. /\ sock' \in {"off", "down", "refused"} /\ greeting' \in 0..Revision /\ wire' \in Seq(Frame)
      /\ \A i \in DOMAIN wire' : wire'[i].from <= wire'[i].to /\ wire'[i].to <= Revision
  <2>1. CASE Hangup
    BY <2>1, Limits DEF Hangup
  <2>2. CASE sock \in {"off", "refused"} /\ UNCHANGED socket
    BY <2>2, FrameLimits DEF socket, IInv, TypeOK, Behind
  <2> QED
    BY <2>1, <2>2
<1>2. queue' \in Seq(Span) /\ spoilt \in BOOLEAN
  <2>1. queue \in Seq(Span) /\ spoilt \in BOOLEAN
    BY DEF IInv, TypeOK
  <2>2. CASE queue' = <<>>
    BY <2>1, <2>2, NothingInIt
  <2>3. CASE queue' = queue
    BY <2>1, <2>3
  <2> QED
    BY <2>2, <2>3
<1>3. \A i \in DOMAIN queue' : queue'[i].from <= queue'[i].to /\ queue'[i].to <= Revision
  BY FrameLimits
<1>4. Fresh' /\ Covered'
  BY <1>1 DEF IInv, Fresh, Covered, Revision
<1> QED
  BY <1>1, <1>2, <1>3, <1>4, MoveStays, WayKeeps

LEMMA HangupsKeep ==
  ASSUME IInv, Drop \/ Restart \/ Reauthenticate
  PROVE  IInv'
<1>1. CASE Drop
  <2>1. faults' \in 0..MaxFaults
    BY <1>1, Bounds DEF Drop, IInv, TypeOK
  <2> QED
    BY <1>1, <2>1, GoneKeeps DEF Drop, server
<1>2. CASE Restart
  <2>1. faults' \in 0..MaxFaults
    BY <1>2, Bounds DEF Restart, IInv, TypeOK
  <2> QED
    BY <1>2, <2>1, GoneKeeps DEF Restart
<1>3. CASE Reauthenticate
  <2>1. faults \in 0..MaxFaults
    BY DEF IInv, TypeOK
  <2> QED
    BY <1>3, <2>1, GoneKeeps DEF Reauthenticate, server
<1> QED
  BY <1>1, <1>2, <1>3

LEMMA TokenEndsKeeps ==
  ASSUME IInv, TokenEnds
  PROVE  IInv'
<1>1. /\ pass' = "expired"
      /\ UNCHANGED <<log, queue, sock, greeting, wire, page, move, spoilt>>
  BY DEF TokenEnds, socket
<1>2. faults' \in 0..MaxFaults
  BY Bounds DEF TokenEnds, IInv, TypeOK
<1>3. greeting \in 0..Revision
  BY DEF IInv, Behind
<1>4. /\ queue \in Seq(Span) /\ wire \in Seq(Frame) /\ spoilt \in BOOLEAN
      /\ sock \in {"off", "down", "joined", "read", "open", "refused"}
  BY DEF IInv, TypeOK
<1>5. Fresh' /\ Covered'
  BY <1>1 DEF IInv, Fresh, Covered, OnItsWay, Revision, page
<1> QED
  BY <1>1, <1>2, <1>3, <1>4, <1>5, FrameLimits, MoveStays, WayKeeps

(* The command bus answers a gesture with a commit or with the head.         *)
LEMMA DecideKeeps ==
  ASSUME IInv, Decide
  PROVE  IInv'
<1>1. UNCHANGED <<pass, socket, page, faults, spoilt>>
  BY DEF Decide
<1>2. CASE move.base = Revision
  <2>1. PICK events \in Commits(OwnKinds) : Commit(events)
    BY <1>2 DEF Decide
  <2>2. OwnKinds \in SUBSET Kinds
    BY DeliveryAssumption
  <2>3. Revision \in Nat /\ Revision' \in Nat /\ Revision <= Revision' /\ Revision' \in Rev
    BY <2>1, <2>2, CommitGrows
  <2>4. move' = [move EXCEPT !.at = "done", !.rev = Revision']
    BY <1>2 DEF Decide, Revision
  <2>5. move' \in Moves /\ move'.base = move.base /\ move'.rev = Revision'
    BY <2>3, <2>4, MoveStays DEF Moves
  <2>6. move'.base <= Revision' /\ move'.rev <= Revision'
    BY <2>3, <2>5, Limits
  <2> QED
    BY <1>1, <2>1, <2>2, <2>5, <2>6, CommitKeeps DEF Moves
<1>3. CASE move.base # Revision
  <2>1. move' = [move EXCEPT !.at = "refused"] /\ UNCHANGED <<log, queue>>
    BY <1>3 DEF Decide
  <2>2. move' \in Moves /\ move'.base = move.base /\ move'.rev = move.rev
    BY <2>1, MoveStays DEF Moves
  <2>3. UNCHANGED <<log, queue, pass, sock, greeting, wire, page, faults, spoilt>>
    BY <1>1, <2>1 DEF server, socket
  <2>4. greeting \in 0..Revision
    BY DEF IInv, Behind
  <2>5. /\ queue \in Seq(Span) /\ wire \in Seq(Frame) /\ faults \in 0..MaxFaults /\ spoilt \in BOOLEAN
        /\ sock \in {"off", "down", "joined", "read", "open", "refused"}
    BY DEF IInv, TypeOK
  <2>6. Fresh' /\ Covered'
    BY <2>3 DEF IInv, Fresh, Covered, OnItsWay, Revision, page
  <2> QED
    BY <2>2, <2>3, <2>4, <2>5, <2>6, FrameLimits, MoveStays, WayKeeps
<1> QED
  BY <1>2, <1>3

-----------------------------------------------------------------------------
(* The page.  A catch-up, a refetch and a gesture that are in order.         *)

GoodCatch(c) ==
    /\ c \in CatchUps
    /\ c.after <= c.since /\ c.since <= Revision
    /\ c.target <= Revision /\ c.rev <= Revision

GoodFetch(f) ==
    /\ f \in Fetches /\ f.since <= Revision /\ f.min <= Revision
    /\ f.at = "asked" /\ ~f.queued => f.min = f.target

GoodMove(m) == m \in Moves /\ m.base <= Revision /\ m.rev <= Revision

GoodWire(w) == w \in Seq(Frame) /\ \A i \in DOMAIN w : w[i].from <= w[i].to /\ w[i].to <= Revision

\* The refetch will show the newest revision.
Fetching(f) == f.at = "asked" /\ (f.queued \/ f.since = Revision \/ f.target = Revision)

LEMMA Good ==
  ASSUME IInv
  PROVE  GoodCatch(catch) /\ GoodFetch(fetch) /\ GoodMove(move) /\ GoodWire(wire)
<1>1. GoodCatch(catch)
  BY DEF IInv, TypeOK, Behind, GoodCatch
<1>2. GoodFetch(fetch)
  BY DEF IInv, TypeOK, Behind, Rounds, GoodFetch
<1>3. GoodMove(move)
  BY MoveStays DEF GoodMove
<1>4. GoodWire(wire)
  BY DEF IInv, TypeOK, Behind, GoodWire
<1> QED
  BY <1>1, <1>2, <1>3, <1>4

LEMMA NothingIsGood ==
  ASSUME IInv
  PROVE  GoodCatch(NoCatchUp) /\ GoodFetch(NoFetch)
<1>1. 0 <= Revision /\ -1 <= Revision /\ 0 <= 0
  BY Limits
<1> QED
  BY <1>1, NothingAsked DEF GoodCatch, GoodFetch

LEMMA Below ==
  ASSUME IInv, NEW r \in 0..Revision
  PROVE  r \in Rev
  BY Limits, Bounds DEF Rev

LEMMA AskedIsGood ==
  ASSUME IInv, NEW after \in 0..Revision, NEW target \in -1..MaxRevision, target <= Revision
  PROVE  GoodCatch(AskSync(after, target))
<1>1. after \in Rev /\ after <= Revision /\ Revision <= Revision /\ 0 <= Revision
  BY Below, Limits
<1> QED
  BY <1>1, AskedSync DEF GoodCatch, IInv

LEMMA CatchUpIsGood ==
  ASSUME IInv, NEW through \in 0..Revision
  PROVE  GoodCatch(CatchUp(catch, through))
<1>1. CASE catch.at = "idle"
  <2>1. -1 \in -1..MaxRevision /\ -1 <= Revision
    BY Limits, Bounds
  <2> QED
    BY <1>1, <2>1, AskedIsGood DEF CatchUp
<1>2. CASE catch.at # "idle"
  BY <1>2, Good DEF CatchUp
<1> QED
  BY <1>1, <1>2

(* What a wish does to the refetch: nothing promised before is lost, and a   *)
(* wish for the newest revision, or for whatever is newest, is promised.     *)
LEMMA Wished ==
  ASSUME IInv, NEW f, GoodFetch(f), NEW min \in 0..Revision
  PROVE  /\ GoodFetch(Refetch(f, min)) /\ Refetch(f, min).at = "asked"
         /\ f.at = "asked" => /\ Refetch(f, min).since = f.since
                              /\ f.queued => Refetch(f, min).queued
         /\ f.at # "asked" => Refetch(f, min).since = Revision
         /\ Fetching(f) => Fetching(Refetch(f, min))
         /\ min = Revision => Fetching(Refetch(f, min))
         /\ min = 0 => Refetch(f, min).queued \/ Refetch(f, min).since = Revision
<1> DEFINE g == Refetch(f, min)
<1>1. min \in Rev /\ f \in Fetches /\ TypeOK
  BY Below DEF GoodFetch, IInv
<1>2. /\ g \in Fetches /\ g.at = "asked"
      /\ f.at # "asked" => g.min = min /\ g.target = min /\ g.since = Revision /\ ~g.queued
      /\ f.at = "asked" => /\ g.min = Larger(f.min, min) /\ g.target = f.target
                           /\ g.since = f.since
                           /\ g.queued <=> (f.queued \/ min = 0 \/ f.min < min)
  BY <1>1, Refetches
<1>3. /\ Revision \in Nat /\ min \in Nat /\ min <= Revision /\ Revision <= Revision
      /\ f.min \in Nat /\ f.min <= Revision /\ f.since <= Revision /\ f.target \in Nat
  <2>1. Revision \in Nat /\ min \in Nat /\ min <= Revision /\ Revision <= Revision
    BY Limits
  <2>2. f.min \in Rev /\ f.target \in Rev
    BY <1>1 DEF Fetches
  <2>3. f.min <= Revision /\ f.since <= Revision
    BY DEF GoodFetch
  <2> QED
    BY <2>1, <2>2, <2>3, RevInt
<1>4. f.at = "asked" /\ ~f.queued => f.min = f.target
  BY DEF GoodFetch
<1> HIDE DEF g
<1>5. CASE f.at # "asked"
  BY <1>2, <1>3, <1>5 DEF GoodFetch, Fetching, g
<1>6. CASE f.at = "asked"
  <2>1. /\ Larger(f.min, min) = f.min \/ Larger(f.min, min) = min
        /\ ~(f.min < min) => Larger(f.min, min) = f.min
    BY <1>3 DEF Larger
  <2>2. g.min <= Revision /\ g.since <= Revision
    BY <1>2, <1>3, <1>6, <2>1
  <2>3. ~g.queued => g.min = g.target
    BY <1>2, <1>4, <1>6, <2>1
  <2>4. GoodFetch(g)
    BY <1>2, <2>2, <2>3 DEF GoodFetch
  <2>5. Fetching(f) => Fetching(g)
    BY <1>2, <1>6 DEF Fetching
  <2>6. ASSUME min = Revision
        PROVE  g.queued \/ g.target = Revision
    <3>1. CASE f.min < min
      BY <1>2, <1>6, <3>1
    <3>2. CASE ~(f.min < min)
      <4>1. f.min = Revision
        BY <1>3, <2>6, <3>2
      <4> QED
        BY <1>2, <1>4, <1>6, <4>1
    <3> QED
      BY <3>1, <3>2
  <2> QED
    BY <1>2, <1>6, <2>4, <2>5, <2>6 DEF Fetching, g
<1> QED
  BY <1>5, <1>6

(* What changes only the page, and leaves everything of it in order.         *)
LEMMA PageInOrder ==
  ASSUME IInv, UNCHANGED <<log, queue, pass, greeting>>,
         sock' \in {"off", "down", "joined", "read", "open", "refused"}, GoodWire(wire'),
         known' \in 0..Revision, projected' \in 0..Revision, cards' \in 0..Revision,
         base' \in Nat, base' <= projected',
         feed' \subseteq 1..MaxRevision, ctx' \in Int, -1 <= ctx', ctx' <= Revision,
         GoodCatch(catch'), GoodFetch(fetch'), GoodMove(move'),
         faults' \in 0..MaxFaults, spoilt' \in BOOLEAN
  PROVE  TypeOK' /\ Behind' /\ Rounds' /\ Fresh' /\ Revision' = Revision
<1>1. Revision' = Revision /\ Revision \in Nat /\ Revision <= MaxRevision /\ MaxRevision \in Nat
  BY Limits, Bounds DEF Revision
<1>2. {known', projected', base', cards'} \subseteq Rev /\ ctx' \in -1..MaxRevision
  BY <1>1 DEF Rev
<1>3. /\ log \in Seq(Kinds) /\ Len(log) \in Rev /\ queue \in Seq(Span) /\ greeting \in Rev
      /\ pass \in {"good", "outdated", "expired"} /\ greeting \in 0..Revision
  BY DEF IInv, TypeOK, Behind
<1>4. TypeOK'
  BY <1>2, <1>3 DEF TypeOK, GoodWire, GoodCatch, GoodFetch, GoodMove, Moves
<1>5. Behind'
  <2>1. \A i \in DOMAIN queue : queue[i].from <= queue[i].to /\ queue[i].to <= Revision
    BY FrameLimits
  <2> QED
    BY <1>1, <1>3, <2>1 DEF Behind, GoodWire, GoodCatch, GoodFetch, GoodMove
<1>6. Rounds' /\ Fresh'
  BY <1>1 DEF Rounds, GoodFetch, Fresh, IInv
<1> QED
  BY <1>1, <1>4, <1>5, <1>6

(* Whoever catches up keeps what the catch-up relies on.                     *)
LEMMA CatchUpKeeps ==
  ASSUME IInv, UNCHANGED <<log, projected, feed>>, Revision' = Revision,
         catch' = CatchUp(catch, projected),
         fetch'.at = "asked" \/ fetch' = fetch,
         fetch.at = "asked" =>
           fetch'.since = fetch.since /\ (fetch.queued => fetch'.queued),
         fetch.at # "asked" /\ fetch'.at = "asked" => fetch'.since = Revision
  PROVE  Consumed' /\ Replacing'
<1>1. /\ projected \in Rev /\ projected \in Nat /\ Revision \in Nat /\ projected <= Revision
      /\ TypeOK
  BY Limits, Numbers DEF IInv
<1>2. catch.at = "idle" => /\ catch'.at = "asked" /\ catch'.after = projected
                           /\ catch'.since = Revision
  BY <1>1, CatchesUp
<1>3. catch.at # "idle" => catch' = catch
  BY <1>1, CatchesUp
<1>4. Consumed'
  <2> SUFFICES ASSUME catch'.at = "asked", NEW r \in 1..Revision,
                      projected < r, r <= catch'.after, log[r] \notin Secret
               PROVE  r \in feed
    BY DEF Consumed
  <2>1. r \in Nat /\ ~(r <= projected)
    BY <1>1
  <2>2. catch.at # "idle"
    BY <1>2, <2>1
  <2> QED
    BY <1>3, <2>2 DEF IInv, Consumed
<1>5. Replacing'
  <2>1. CASE catch.at = "idle"
    BY <1>1, <1>2, <2>1 DEF Replacing
  <2>2. CASE catch.at # "idle"
    <3>1. catch' = catch
      BY <1>3, <2>2
    <3>2. CASE fetch.at = "asked"
      BY <3>1, <3>2 DEF IInv, Replacing
    <3>3. CASE fetch.at # "asked"
      BY <1>1, <3>1, <3>3 DEF IInv, Replacing
    <3> QED
      BY <3>2, <3>3
  <2> QED
    BY <2>1, <2>2
<1> QED
  BY <1>4, <1>5

(* What has been promised of the newest revision is still.                   *)
LEMMA StillCovered ==
  ASSUME IInv, UNCHANGED <<queue, greeting, spoilt>>, Revision' = Revision,
         sock' = sock \/ sock' = "down",
         sock' # "down" =>
           /\ ctx = Revision => ctx' = Revision
           /\ Fetching(fetch) => ctx' = Revision \/ Fetching(fetch')
           /\ \A i \in DOMAIN wire : wire[i].to = Revision =>
                \/ Fetching(fetch')
                \/ \E j \in DOMAIN wire' : wire'[j].to = Revision
  PROVE  Covered'
<1>1. CASE sock' = "down"
  BY <1>1 DEF Covered
<1>2. CASE sock' # "down"
  <2>1. sock' = sock
    BY <1>2
  <2>2. OnItsWay => OnItsWay'
    BY <1>2 DEF OnItsWay, Fetching
  <2> QED
    BY <2>1, <2>2 DEF IInv, Covered
<1> QED
  BY <1>1, <1>2

(* A catch-up that ends leaves a page in order.                              *)
LEMMA EndsInOrder ==
  ASSUME IInv, NEW knows \in 0..Revision, NEW f, GoodFetch(f), CatchUpEnds(knows, f)
  PROVE  /\ GoodCatch(catch') /\ catch'.at = "idle"
         /\ GoodMove(move')
         /\ sock' \in {"off", "down", "joined", "read", "open", "refused"}
         /\ sock' = sock \/ sock' = "down"
         /\ GoodFetch(fetch')
         /\ sock' # "down" => fetch' = f
<1>1. GoodCatch(catch') /\ catch'.at = "idle"
  BY NothingIsGood, NothingAsked DEF CatchUpEnds
<1>2. GoodMove(move')
  <2>1. GoodMove(move)
    BY Good
  <2>2. knows \in Rev /\ knows <= Revision
    BY Below, Limits
  <2>3. CASE move.at = "waiting"
    <3>1. move' = [move EXCEPT !.at = "sent", !.base = knows, !.retried = TRUE]
      BY <2>3 DEF CatchUpEnds
    <3>2. move' \in Moves /\ move'.base = knows /\ move'.rev = move.rev
      BY <2>1, <2>2, <3>1 DEF GoodMove, Moves
    <3> QED
      BY <2>1, <2>2, <3>2 DEF GoodMove
  <2>4. CASE move.at # "waiting"
    BY <2>1, <2>4 DEF CatchUpEnds
  <2> QED
    BY <2>3, <2>4
<1>3. sock \in {"off", "down", "joined", "read", "open", "refused"}
  BY DEF IInv, TypeOK
<1>4. GoodFetch(fetch')
  BY Wished DEF CatchUpEnds
<1> QED
  BY <1>1, <1>2, <1>3, <1>4 DEF CatchUpEnds

LEMMA LargerBelow ==
  ASSUME NEW top \in Nat, NEW a \in 0..top, NEW b \in 0..top
  PROVE  Larger(a, b) \in 0..top /\ a <= Larger(a, b) /\ b <= Larger(a, b)
  BY DEF Larger

(* A page that stays as it is, number by number.                             *)
LEMMA AsItIs ==
  ASSUME IInv
  PROVE  /\ Revision \in Nat
         /\ sock \in {"off", "down", "joined", "read", "open", "refused"}
         /\ known \in 0..Revision /\ projected \in 0..Revision /\ cards \in 0..Revision
         /\ base \in Nat /\ base <= projected /\ feed \subseteq 1..MaxRevision
         /\ ctx \in Int /\ -1 <= ctx /\ ctx <= Revision
         /\ faults \in 0..MaxFaults /\ spoilt \in BOOLEAN
  BY Limits DEF IInv, TypeOK

(* The frame at the head of the wire, and the others behind it.              *)
LEMMA WireHead ==
  ASSUME IInv, wire # <<>>, wire' = Tail(wire)
  PROVE  /\ GoodWire(wire')
         /\ wire[1].from \in Nat /\ wire[1].to \in 0..Revision /\ wire[1].from <= wire[1].to
         /\ \A i \in DOMAIN wire : wire[i].to = Revision =>
              wire[1].to = Revision \/ \E j \in DOMAIN wire' : wire'[j].to = Revision
<1>1. wire \in Seq(Frame) /\ Len(wire) \in Nat /\ Len(wire) # 0
  BY DEF IInv, TypeOK
<1>2. /\ wire' \in Seq(Frame) /\ Len(wire') = Len(wire) - 1
      /\ \A i \in 1..Len(wire') : wire'[i] = wire[i + 1]
  BY <1>1, HeadTailProperties
<1>3. \A i \in DOMAIN wire' : i + 1 \in DOMAIN wire /\ wire'[i] = wire[i + 1]
  BY <1>1, <1>2
<1>4. GoodWire(wire')
  <2>1. \A i \in DOMAIN wire' : wire'[i].from <= wire'[i].to /\ wire'[i].to <= Revision
    BY <1>3, FrameLimits
  <2> QED
    BY <1>2, <2>1 DEF GoodWire
<1>5. 1 \in DOMAIN wire
  BY <1>1
<1>6. wire[1].from \in Nat /\ wire[1].to \in Nat /\ wire[1].from <= wire[1].to
      /\ wire[1].to <= Revision /\ Revision \in Nat
  BY <1>5, FrameLimits, Limits
<1>7. ASSUME NEW i \in DOMAIN wire, wire[i].to = Revision
      PROVE  wire[1].to = Revision \/ \E j \in DOMAIN wire' : wire'[j].to = Revision
  <2>1. CASE i = 1
    BY <1>7, <2>1
  <2>2. CASE i # 1
    <3>1. i - 1 \in DOMAIN wire' /\ (i - 1) + 1 = i
      BY <1>1, <1>2, <2>2
    <3>2. wire'[i - 1] = wire[i]
      BY <1>3, <3>1
    <3> QED
      BY <1>7, <3>1, <3>2
  <2> QED
    BY <2>1, <2>2
<1> QED
  BY <1>4, <1>6, <1>7

LEMMA WelcomeOrGapKeeps ==
  ASSUME IInv, WelcomeHeard \/ GapHeard
  PROVE  IInv'
<1>1. /\ wire # <<>> /\ wire' = Tail(wire) /\ known' = Larger(known, wire[1].to)
      /\ catch' = CatchUp(catch, projected)
      /\ fetch' = Refetch(fetch, wire[1].to)
      /\ UNCHANGED <<log, queue, pass, sock, greeting, projected, feed, base, cards, ctx, move,
                     faults, spoilt>>
  BY DEF WelcomeHeard, GapHeard, Received, server
<1>2. /\ GoodWire(wire') /\ wire[1].to \in 0..Revision
      /\ \A i \in DOMAIN wire : wire[i].to = Revision =>
           wire[1].to = Revision \/ \E j \in DOMAIN wire' : wire'[j].to = Revision
  BY <1>1, WireHead
<1>3. known' \in 0..Revision
  BY <1>1, <1>2, AsItIs, LargerBelow
<1>4. GoodCatch(catch') /\ GoodMove(move)
  BY <1>1, CatchUpIsGood, AsItIs, Good
<1>5. /\ GoodFetch(fetch') /\ fetch'.at = "asked"
      /\ fetch.at = "asked" => fetch'.since = fetch.since /\ (fetch.queued => fetch'.queued)
      /\ fetch.at # "asked" => fetch'.since = Revision
      /\ Fetching(fetch) => Fetching(fetch')
      /\ wire[1].to = Revision => Fetching(fetch')
  BY <1>1, <1>2, Good, Wished
<1>6. TypeOK' /\ Behind' /\ Rounds' /\ Fresh' /\ Revision' = Revision
  BY <1>1, <1>2, <1>3, <1>4, <1>5, AsItIs, PageInOrder
<1>7. Consumed' /\ Replacing'
  BY <1>1, <1>5, <1>6, CatchUpKeeps
<1>8. Covered'
  BY <1>1, <1>2, <1>5, <1>6, StillCovered
<1> QED
  BY <1>6, <1>7, <1>8 DEF IInv

(* A frame that begins where the page stopped asks for whatever is newest.   *)
LEMMA FrameHeardKeeps ==
  ASSUME IInv, FrameHeard
  PROVE  IInv'
<1> DEFINE lines == Visible(wire[1].from, wire[1].to)
<1>1. /\ wire # <<>> /\ wire' = Tail(wire) /\ known' = Larger(known, wire[1].to)
      /\ projected = wire[1].from /\ projected' = Larger(projected, wire[1].to)
      /\ feed' = feed \cup {r \in lines : r > projected}
      /\ catch' = CatchUp(catch, projected') \/ catch' = catch
      /\ fetch' = Refetch(fetch, 0)
      /\ UNCHANGED <<log, queue, pass, sock, greeting, base, cards, ctx, move, faults, spoilt>>
  BY DEF FrameHeard, Received, HasRevisionGap, server
<1>2. /\ GoodWire(wire') /\ wire[1].from \in Nat /\ wire[1].to \in 0..Revision
  BY <1>1, WireHead
<1>3. known' \in 0..Revision /\ projected' \in 0..Revision /\ projected <= projected'
  BY <1>1, <1>2, AsItIs, LargerBelow
<1>4. base <= projected'
  BY <1>3, AsItIs
<1>5. feed' \subseteq 1..MaxRevision
  <2>1. lines \subseteq 1..MaxRevision
    BY <1>2, Limits, Bounds DEF Visible
  <2> QED
    BY <1>1, <2>1, AsItIs
<1>6. GoodCatch(catch') /\ GoodMove(move)
  BY <1>1, <1>3, CatchUpIsGood, Good
<1>7. 0 \in 0..Revision
  BY Limits
<1>8. /\ GoodFetch(fetch') /\ fetch'.at = "asked"
      /\ fetch'.queued \/ fetch'.since = Revision
  BY <1>1, <1>7, Good, Wished
<1>9. TypeOK' /\ Behind' /\ Rounds' /\ Fresh' /\ Revision' = Revision
  BY <1>1, <1>2, <1>3, <1>4, <1>5, <1>6, <1>8, AsItIs, PageInOrder
<1>10. projected \in Nat /\ projected' \in Nat /\ Revision \in Nat /\ projected' <= Revision
  BY <1>3, AsItIs
<1>11. projected' \in Rev /\ TypeOK
  BY <1>3, Below DEF IInv
<1>12. Consumed'
  <2> SUFFICES ASSUME catch'.at = "asked", NEW r \in 1..Revision,
                      projected' < r, r <= catch'.after, log[r] \notin Secret
               PROVE  r \in feed
    BY <1>1, <1>9 DEF Consumed
  <2>1. projected < r /\ ~(r <= projected')
    BY <1>3, <1>10
  <2>2. catch' = catch
    BY <1>1, <1>11, <2>1, CatchesUp
  <2> QED
    BY <2>1, <2>2 DEF IInv, Consumed
<1>13. Replacing'
  BY <1>8, <1>9, <1>10 DEF Replacing
<1>14. Covered'
  BY <1>8, <1>9 DEF Covered, OnItsWay
<1> QED
  BY <1>9, <1>12, <1>13, <1>14 DEF IInv

LEMMA TurnedAwayKeeps ==
  ASSUME IInv, TurnedAway
  PROVE  IInv'
<1>1. /\ move' = [move EXCEPT !.at = "over"]
      /\ UNCHANGED <<log, queue, pass, sock, greeting, wire, page, faults, spoilt>>
  BY DEF TurnedAway, server, socket
<1>2. move' \in Moves /\ move'.base = move.base /\ move'.rev = move.rev
  BY <1>1, MoveStays DEF Moves
<1>3. greeting \in 0..Revision
  BY DEF IInv, Behind
<1>4. /\ queue \in Seq(Span) /\ wire \in Seq(Frame) /\ faults \in 0..MaxFaults /\ spoilt \in BOOLEAN
      /\ sock \in {"off", "down", "joined", "read", "open", "refused"}
  BY DEF IInv, TypeOK
<1>5. Fresh' /\ Covered'
  BY <1>1 DEF IInv, Fresh, Covered, OnItsWay, Revision, page
<1> QED
  BY <1>1, <1>2, <1>3, <1>4, <1>5, FrameLimits, MoveStays, WayKeeps

LEMMA MoveDoneKeeps ==
  ASSUME IInv, MoveDone
  PROVE  IInv'
<1>1. /\ move' = [move EXCEPT !.at = "over"]
      /\ known' = Larger(known, move.rev) /\ cards' = Larger(cards, move.rev)
      /\ fetch' = Refetch(fetch, move.rev)
      /\ UNCHANGED <<log, queue, pass, sock, greeting, wire, projected, feed, base, ctx, catch,
                     faults, spoilt>>
  BY DEF MoveDone, server, socket
<1>2. move.rev \in 0..Revision
  BY Limits
<1>3. known' \in 0..Revision /\ cards' \in 0..Revision
  BY <1>1, <1>2, AsItIs, LargerBelow
<1>4. GoodMove(move')
  BY <1>1, Good DEF GoodMove, Moves
<1>5. /\ GoodFetch(fetch') /\ fetch'.at = "asked"
      /\ fetch.at = "asked" => fetch'.since = fetch.since /\ (fetch.queued => fetch'.queued)
      /\ fetch.at # "asked" => fetch'.since = Revision
      /\ Fetching(fetch) => Fetching(fetch')
  BY <1>1, <1>2, Good, Wished
<1>6. TypeOK' /\ Behind' /\ Rounds' /\ Fresh' /\ Revision' = Revision
  BY <1>1, <1>3, <1>4, <1>5, AsItIs, Good, PageInOrder
<1>7. Consumed' /\ Replacing'
  <2>1. Consumed'
    BY <1>1, <1>6 DEF IInv, Consumed
  <2>2. projected \in Nat /\ Revision \in Nat /\ projected <= Revision
    BY Limits
  <2>3. Replacing'
    BY <1>1, <1>5, <1>6, <2>2 DEF IInv, Replacing
  <2> QED
    BY <2>1, <2>3
<1>8. Covered'
  BY <1>1, <1>5, <1>6, StillCovered
<1> QED
  BY <1>6, <1>7, <1>8 DEF IInv

LEMMA MoveRefusedKeeps ==
  ASSUME IInv, MoveRefused
  PROVE  IInv'
<1>1. /\ catch' = CatchUp(catch, projected)
      /\ move' = [move EXCEPT !.at = IF move.retried THEN "over" ELSE "waiting"]
      /\ UNCHANGED <<log, queue, pass, sock, greeting, wire, known, projected, feed, base, cards, ctx,
                     fetch, faults, spoilt>>
  BY DEF MoveRefused, server, socket
<1>2. GoodMove(move')
  <2>1. (IF move.retried THEN "over" ELSE "waiting") \in {"over", "waiting"}
    OBVIOUS
  <2> QED
    BY <1>1, <2>1, Good DEF GoodMove, Moves
<1>3. GoodCatch(catch')
  BY <1>1, CatchUpIsGood, AsItIs
<1>4. TypeOK' /\ Behind' /\ Rounds' /\ Fresh' /\ Revision' = Revision
  BY <1>1, <1>2, <1>3, AsItIs, Good, PageInOrder
<1>5. Consumed' /\ Replacing'
  BY <1>1, <1>4, CatchUpKeeps
<1>6. Covered'
  BY <1>1, <1>4, StillCovered
<1> QED
  BY <1>4, <1>5, <1>6 DEF IInv

-----------------------------------------------------------------------------
(* Answers.                                                                  *)

LEMMA SyncFailsKeeps ==
  ASSUME IInv, SyncFails
  PROVE  IInv'
<1>1. /\ CatchUpEnds(known, fetch)
      /\ UNCHANGED <<log, queue, pass, greeting, wire, known, projected, feed, base, cards, ctx,
                     spoilt>>
  BY DEF SyncFails, server
<1>2. /\ GoodCatch(catch') /\ catch'.at = "idle" /\ GoodMove(move')
      /\ sock' \in {"off", "down", "joined", "read", "open", "refused"}
      /\ sock' = sock \/ sock' = "down"
      /\ GoodFetch(fetch')
      /\ sock' # "down" => fetch' = fetch
  BY <1>1, Good, AsItIs, EndsInOrder
<1>3. faults' \in 0..MaxFaults
  BY Bounds DEF SyncFails, IInv, TypeOK
<1>4. TypeOK' /\ Behind' /\ Rounds' /\ Fresh' /\ Revision' = Revision
  BY <1>1, <1>2, <1>3, AsItIs, Good, PageInOrder
<1>5. Consumed' /\ Replacing'
  BY <1>2 DEF Consumed, Replacing
<1>6. Covered'
  BY <1>1, <1>2, <1>4, StillCovered
<1> QED
  BY <1>4, <1>5, <1>6 DEF IInv

LEMMA Computed ==
  ASSUME IInv, NEW rev \in ComputedAt(catch) \cup ComputedAt(fetch)
  PROVE  rev \in 0..Revision
  BY Limits DEF ComputedAt

(* A backlog too large is replaced at the head the server named, which is    *)
(* not behind what the page has read, or the refetch asks again.             *)
LEMMA BacklogHeardKeeps ==
  ASSUME IInv, BacklogHeard
  PROVE  IInv'
<1>1. PICK rev \in ComputedAt(catch) :
        /\ Observe(rev)
        /\ catch' = [catch EXCEPT !.at = "replacing", !.rev = rev]
        /\ fetch' = Refetch(fetch, rev)
  BY DEF BacklogHeard
<1>2. /\ catch.at = "asked"
      /\ UNCHANGED <<log, queue, pass, sock, greeting, wire, projected, feed, base, ctx, move, faults,
                     spoilt>>
  BY DEF BacklogHeard, server, socket
<1>3. rev \in 0..Revision /\ catch.since <= rev
  BY Computed, Limits DEF ComputedAt
<1>4. known' \in 0..Revision /\ cards' \in 0..Revision
  BY <1>1, <1>3, AsItIs, LargerBelow DEF Observe
<1>5. GoodCatch(catch') /\ catch'.at = "replacing" /\ catch'.rev = rev
  <2>1. rev \in Rev /\ rev <= Revision
    BY <1>3, Below, Limits
  <2> QED
    BY <1>1, <2>1, Good DEF GoodCatch, CatchUps
<1>6. /\ GoodFetch(fetch') /\ fetch'.at = "asked"
      /\ fetch.at = "asked" => fetch'.since = fetch.since /\ (fetch.queued => fetch'.queued)
      /\ fetch.at # "asked" => fetch'.since = Revision
      /\ Fetching(fetch) => Fetching(fetch')
  BY <1>1, <1>3, Good, Wished
<1>7. TypeOK' /\ Behind' /\ Rounds' /\ Fresh' /\ Revision' = Revision
  BY <1>2, <1>4, <1>5, <1>6, AsItIs, Good, PageInOrder
<1>8. Consumed'
  BY <1>5 DEF Consumed
<1>9. Replacing'
  <2>1. projected \in Nat /\ Revision \in Nat /\ projected <= Revision /\ catch.since \in Nat
    BY Limits
  <2>2. projected <= rev \/ fetch'.queued \/ projected <= fetch'.since
    <3>1. CASE fetch.at # "asked"
      BY <1>6, <2>1, <3>1
    <3>2. CASE fetch.at = "asked" /\ projected <= catch.since
      BY <1>3, <2>1, <3>2
    <3>3. CASE fetch.at = "asked" /\ ~(projected <= catch.since)
      BY <1>2, <1>6, <3>3 DEF IInv, Replacing
    <3> QED
      BY <3>1, <3>2, <3>3
  <2> QED
    BY <1>2, <1>5, <1>6, <2>2 DEF Replacing
<1>10. Covered'
  BY <1>2, <1>6, <1>7, StillCovered
<1> QED
  BY <1>7, <1>8, <1>9, <1>10 DEF IInv

LEMMA PageEndOf ==
  ASSUME NEW after, NEW target, NEW cap
  PROVE  PageEnd(after, target, cap) = target \/ PageEnd(after, target, cap) \in (after + 1)..target
<1> DEFINE full == {r \in Visible(after, target) : Cardinality(Visible(after, r)) = cap}
<1>1. PageEnd(after, target, cap) = IF full = {} THEN target ELSE CHOOSE r \in full : log[r] \notin Secret
  BY DEF PageEnd
<1>2. full \subseteq (after + 1)..target /\ \A r \in full : log[r] \notin Secret
  BY DEF Visible
<1> HIDE DEF full
<1>3. CASE full = {}
  BY <1>1, <1>3
<1>4. CASE full # {}
  <2>1. PICK r \in full : TRUE
    BY <1>4
  <2>2. (CHOOSE x \in full : log[x] \notin Secret) \in full
    BY <1>2, <2>1
  <2> QED
    BY <1>1, <1>2, <1>4, <2>2
<1> QED
  BY <1>3, <1>4

(* What a page of the delta does to the feed and to the watermark.           *)
LEMMA PageRead ==
  ASSUME IInv, PageHeard
  PROVE  \E end \in 0..Revision :
           /\ feed' = feed \cup {r \in Visible(catch.after, end) : r > projected}
           /\ \/ projected' = Larger(projected, end) /\ CatchUpEnds(known', fetch)
              \/ /\ UNCHANGED <<projected, move, sock, fetch>>
                 /\ \E next \in -1..MaxRevision :
                      next <= Revision /\ catch' = AskSync(end, next)
           /\ known' \in 0..Revision /\ cards' \in 0..Revision
<1>1. PICK rev \in ComputedAt(catch), cap \in 1..PageCap :
        LET target == IF catch.target = -1 THEN rev ELSE catch.target
            end    == PageEnd(catch.after, target, cap)
        IN  /\ Observe(rev)
            /\ feed' = feed \cup {r \in Visible(catch.after, end) : r > projected}
            /\ IF end = rev
               THEN /\ projected' = Larger(projected, end)
                    /\ CatchUpEnds(known', fetch)
               ELSE /\ catch' = AskSync(end, IF end < target THEN target ELSE -1)
                    /\ UNCHANGED <<projected, move, sock, fetch>>
  BY DEF PageHeard
<1> DEFINE target == IF catch.target = -1 THEN rev ELSE catch.target
           end    == PageEnd(catch.after, target, cap)
           next   == IF end < target THEN target ELSE -1
<1>2. rev \in 0..Revision
  BY Computed
<1>3. target \in 0..Revision
  BY <1>2, Limits
<1>4. /\ Observe(rev)
      /\ feed' = feed \cup {r \in Visible(catch.after, end) : r > projected}
      /\ \/ projected' = Larger(projected, end) /\ CatchUpEnds(known', fetch)
         \/ UNCHANGED <<projected, move, sock, fetch>> /\ catch' = AskSync(end, next)
  BY <1>1
<1> HIDE DEF target
<1>5. end \in 0..Revision
  <2>1. end = target \/ end \in (catch.after + 1)..target
    BY PageEndOf
  <2>2. catch.after \in Nat /\ Revision \in Nat
    BY Limits
  <2> HIDE DEF end
  <2> QED
    BY <1>3, <2>1, <2>2
<1>6. next \in -1..MaxRevision /\ next <= Revision
  <2>1. Revision \in Nat /\ Revision <= MaxRevision /\ MaxRevision \in Nat
    BY Limits, Bounds
  <2> QED
    BY <1>3, <2>1
<1>7. known' \in 0..Revision /\ cards' \in 0..Revision
  BY <1>2, <1>4, AsItIs, LargerBelow DEF Observe
<1> HIDE DEF end, next
<1> QED
  BY <1>4, <1>5, <1>6, <1>7

(* With it, all that may be shown up to where the page ends is shown.        *)
LEMMA ShownUpTo ==
  ASSUME IInv, catch.at = "asked", NEW end \in 0..Revision,
         feed' = feed \cup {r \in Visible(catch.after, end) : r > projected}
  PROVE  /\ \A r \in 1..Revision : projected < r /\ r <= end /\ log[r] \notin Secret => r \in feed'
         /\ \A r \in feed' : r \in feed \/ (r \in 1..Revision /\ log[r] \notin Secret)
         /\ feed \subseteq feed'
<1>1. catch.after \in Nat /\ Revision \in Nat /\ projected \in Nat
  BY Limits
<1>2. ASSUME NEW r \in 1..Revision, projected < r, r <= end, log[r] \notin Secret
      PROVE  r \in feed'
  <2>1. CASE r <= catch.after
    BY <1>2, <2>1 DEF IInv, Consumed
  <2>2. CASE ~(r <= catch.after)
    <3>1. r \in (catch.after + 1)..end /\ r > projected
      BY <1>1, <1>2, <2>2
    <3> QED
      BY <1>2, <3>1 DEF Visible
  <2> QED
    BY <2>1, <2>2
<1>3. ASSUME NEW r \in Visible(catch.after, end)
      PROVE  r \in 1..Revision /\ log[r] \notin Secret
  <2>1. r \in (catch.after + 1)..end /\ log[r] \notin Secret
    BY DEF Visible
  <2> QED
    BY <1>1, <2>1
<1> DEFINE lines == Visible(catch.after, end)
           new   == {r \in lines : r > projected}
<1>4. feed' = feed \cup new /\ new \subseteq lines
  OBVIOUS
<1> HIDE DEF lines, new
<1>5. \A r \in feed' : r \in feed \/ r \in lines
  BY <1>4
<1>6. feed \subseteq feed'
  BY <1>4
<1> QED
  BY <1>2, <1>3, <1>5, <1>6 DEF lines

LEMMA PageHeardKeeps ==
  ASSUME IInv, PageHeard
  PROVE  IInv'
<1>1. /\ catch.at = "asked"
      /\ UNCHANGED <<log, queue, pass, greeting, wire, base, ctx, faults, spoilt>>
  BY DEF PageHeard, server
<1>2. PICK end \in 0..Revision :
           /\ feed' = feed \cup {r \in Visible(catch.after, end) : r > projected}
           /\ \/ projected' = Larger(projected, end) /\ CatchUpEnds(known', fetch)
              \/ /\ UNCHANGED <<projected, move, sock, fetch>>
                 /\ \E next \in -1..MaxRevision :
                      next <= Revision /\ catch' = AskSync(end, next)
           /\ known' \in 0..Revision /\ cards' \in 0..Revision
  BY PageRead
<1>3. /\ \A r \in 1..Revision : projected < r /\ r <= end /\ log[r] \notin Secret => r \in feed'
      /\ \A r \in feed' : r \in feed \/ (r \in 1..Revision /\ log[r] \notin Secret)
  BY <1>1, <1>2, ShownUpTo
<1>4. feed' \subseteq 1..MaxRevision
  <2>1. 1..Revision \subseteq 1..MaxRevision
    BY Limits, Bounds
  <2> QED
    BY <1>3, <2>1, AsItIs
<1>5. CASE projected' = Larger(projected, end) /\ CatchUpEnds(known', fetch)
  <2>1. projected' \in 0..Revision /\ projected <= projected'
    BY <1>5, AsItIs, LargerBelow
  <2>2. base <= projected'
    BY <2>1, AsItIs
  <2>3. /\ GoodCatch(catch') /\ catch'.at = "idle" /\ GoodMove(move')
        /\ sock' \in {"off", "down", "joined", "read", "open", "refused"}
        /\ sock' = sock \/ sock' = "down"
        /\ GoodFetch(fetch')
        /\ sock' # "down" => fetch' = fetch
    BY <1>2, <1>5, Good, EndsInOrder
  <2>4. TypeOK' /\ Behind' /\ Rounds' /\ Fresh' /\ Revision' = Revision
    BY <1>1, <1>2, <1>4, <2>1, <2>2, <2>3, AsItIs, Good, PageInOrder
  <2>5. Consumed' /\ Replacing'
    BY <2>3 DEF Consumed, Replacing
  <2>6. Covered'
    BY <1>1, <2>3, <2>4, StillCovered
  <2> QED
    BY <2>4, <2>5, <2>6 DEF IInv
<1>6. CASE /\ UNCHANGED <<projected, move, sock, fetch>>
           /\ \E next \in -1..MaxRevision :
                next <= Revision /\ catch' = AskSync(end, next)
  <2>1. PICK next \in -1..MaxRevision : next <= Revision /\ catch' = AskSync(end, next)
    BY <1>6
  <2>2. GoodCatch(catch')
    BY <2>1, AskedIsGood
  <2>3. catch'.at = "asked" /\ catch'.after = end /\ catch'.since = Revision
    <3>1. end \in Rev /\ TypeOK
      BY Below DEF IInv
    <3> QED
      BY <2>1, <3>1, AskedSync
  <2>4. TypeOK' /\ Behind' /\ Rounds' /\ Fresh' /\ Revision' = Revision
    BY <1>1, <1>2, <1>4, <1>6, <2>2, AsItIs, Good, PageInOrder
  <2>5. Consumed'
    BY <1>1, <1>3, <1>6, <2>3, <2>4 DEF Consumed
  <2>6. Replacing'
    <3>1. projected <= Revision
      BY Limits
    <3> QED
      BY <1>6, <2>3, <2>4, <3>1 DEF Replacing
  <2>7. Covered'
    BY <1>1, <1>6, <2>4, StillCovered
  <2> QED
    BY <2>4, <2>5, <2>6, <2>7 DEF IInv
<1> QED
  BY <1>2, <1>5, <1>6

-----------------------------------------------------------------------------
(* The map.                                                                  *)

LEMMA RefetchEndsKeeps ==
  ASSUME IInv, fetch.at = "asked", NEW shown \in Int, RefetchEnds(shown),
         UNCHANGED <<log, queue, pass, greeting, wire, known, cards>>,
         ctx' \in Int, -1 <= ctx', ctx' <= Revision,
         faults' \in 0..MaxFaults, spoilt' \in BOOLEAN
  PROVE  /\ TypeOK' /\ Behind' /\ Rounds' /\ Fresh' /\ Consumed' /\ Replacing'
         /\ Revision' = Revision
         /\ sock' = sock \/ sock' = "down"
<1>1. catch.rev \in 0..Revision /\ Revision \in Nat
  BY Limits
<1>2. /\ projected' \in 0..Revision /\ base' \in Nat /\ base' <= projected'
      /\ feed' \subseteq 1..MaxRevision
  <2>1. CASE Replaced(shown)
    <3>1. projected' = Larger(projected, catch.rev) /\ base' = projected' /\ feed' = {}
      BY <2>1 DEF RefetchEnds
    <3>2. projected' \in 0..Revision
      BY <1>1, <3>1, AsItIs, LargerBelow
    <3>3. projected' <= projected'
      BY <1>1, <3>2
    <3> QED
      BY <1>1, <3>1, <3>2, <3>3
  <2>2. CASE ~Replaced(shown)
    BY <2>2, AsItIs DEF RefetchEnds
  <2> QED
    BY <2>1, <2>2
<1>3. CASE catch.at = "replacing"
  <2>1. CatchUpEnds(known, NoFetch)
    BY <1>3 DEF RefetchEnds
  <2>2. /\ GoodCatch(catch') /\ catch'.at = "idle" /\ GoodMove(move')
        /\ sock' \in {"off", "down", "joined", "read", "open", "refused"}
        /\ sock' = sock \/ sock' = "down"
        /\ GoodFetch(fetch')
    BY <2>1, NothingIsGood, AsItIs, EndsInOrder
  <2>3. TypeOK' /\ Behind' /\ Rounds' /\ Fresh' /\ Revision' = Revision
    BY <1>2, <2>2, AsItIs, Good, PageInOrder
  <2>4. Consumed' /\ Replacing'
    BY <2>2 DEF Consumed, Replacing
  <2> QED
    BY <2>2, <2>3, <2>4
<1>4. CASE catch.at # "replacing"
  <2>1. /\ fetch' = NoFetch /\ UNCHANGED <<catch, move, sock>>
        /\ UNCHANGED <<projected, feed, base>>
    BY <1>4 DEF RefetchEnds, Replaced
  <2>2. TypeOK' /\ Behind' /\ Rounds' /\ Fresh' /\ Revision' = Revision
    BY <1>2, <2>1, AsItIs, Good, NothingIsGood, PageInOrder
  <2>3. Consumed'
    BY <2>1, <2>2 DEF IInv, Consumed
  <2>4. Replacing'
    BY <1>4, <2>1, NothingAsked DEF Replacing
  <2> QED
    BY <2>1, <2>2, <2>3, <2>4
<1> QED
  BY <1>3, <1>4

(* An answer that arrived: another round, asked of the newest room, or the   *)
(* end, with a map that shows all that was asked for.                        *)
LEMMA Answered ==
  ASSUME IInv, ContextHeard
  PROVE  /\ ctx' \in 0..Revision /\ ctx <= ctx' /\ fetch.since <= ctx'
         /\ UNCHANGED <<log, queue, pass, greeting, wire, known, cards, faults, spoilt>>
         /\ \/ /\ fetch' = AskContext(fetch.min)
               /\ UNCHANGED <<projected, feed, base, catch, move, sock>>
            \/ RefetchEnds(ctx') /\ ~fetch.queued /\ fetch.target <= ctx'
<1>1. PICK rev \in ComputedAt(fetch) :
        /\ ctx' = Larger(ctx, rev)
        /\ IF fetch.queued \/ ctx' < fetch.target
           THEN /\ fetch' = AskContext(fetch.min)
                /\ UNCHANGED <<projected, feed, base, catch, move, sock>>
           ELSE RefetchEnds(ctx')
  BY DEF ContextHeard
<1>2. rev \in 0..Revision /\ fetch.since <= rev
  BY Computed, Limits DEF ComputedAt
<1>3. ctx \in Int /\ -1 <= ctx /\ ctx <= Revision /\ fetch.since \in Nat /\ fetch.target \in Nat
  BY Limits
<1>4. ctx' \in 0..Revision /\ ctx <= ctx' /\ fetch.since <= ctx'
  BY <1>1, <1>2, <1>3 DEF Larger
<1>5. UNCHANGED <<log, queue, pass, greeting, wire, known, cards, faults, spoilt>>
  BY DEF ContextHeard, server
<1>6. CASE fetch.queued \/ ctx' < fetch.target
  BY <1>1, <1>4, <1>5, <1>6
<1>7. CASE ~fetch.queued /\ ~(ctx' < fetch.target)
  <2>1. fetch.target <= ctx'
    BY <1>3, <1>4, <1>7
  <2>2. RefetchEnds(ctx')
    BY <1>1, <1>7
  <2> QED
    BY <1>4, <1>5, <1>7, <2>1, <2>2
<1> QED
  BY <1>6, <1>7

LEMMA ContextHeardKeeps ==
  ASSUME IInv, ContextHeard
  PROVE  IInv'
<1>1. /\ ctx' \in 0..Revision /\ ctx <= ctx' /\ fetch.since <= ctx'
      /\ UNCHANGED <<log, queue, pass, greeting, wire, known, cards, faults, spoilt>>
      /\ \/ /\ fetch' = AskContext(fetch.min)
            /\ UNCHANGED <<projected, feed, base, catch, move, sock>>
         \/ RefetchEnds(ctx') /\ ~fetch.queued /\ fetch.target <= ctx'
  BY Answered
<1>2. Revision \in Nat /\ ctx' \in Int /\ -1 <= ctx' /\ ctx' <= Revision
  BY <1>1, Limits
<1>3. fetch.at = "asked"
  BY DEF ContextHeard
<1>4. CASE /\ fetch' = AskContext(fetch.min)
           /\ UNCHANGED <<projected, feed, base, catch, move, sock>>
  <2>1. /\ fetch' \in Fetches /\ fetch'.at = "asked" /\ fetch'.min = fetch.min
        /\ fetch'.target = fetch.min /\ fetch'.since = Revision /\ fetch'.queued = FALSE
    <3>1. TypeOK /\ fetch.min \in Rev
      BY Numbers DEF IInv
    <3> QED
      BY <1>4, <3>1, AskedContext
  <2>2. GoodFetch(fetch')
    BY <1>2, <2>1, Limits DEF GoodFetch
  <2>3. TypeOK' /\ Behind' /\ Rounds' /\ Fresh' /\ Revision' = Revision
    BY <1>1, <1>2, <1>4, <2>2, AsItIs, Good, PageInOrder
  <2>4. Consumed'
    BY <1>1, <1>4, <2>3 DEF IInv, Consumed
  <2>5. Replacing'
    <3>1. projected <= Revision
      BY Limits
    <3> QED
      BY <1>4, <2>1, <3>1 DEF IInv, Replacing
  <2>6. Covered'
    BY <2>1, <2>3 DEF Covered, OnItsWay
  <2> QED
    BY <2>3, <2>4, <2>5, <2>6 DEF IInv
<1>5. CASE RefetchEnds(ctx') /\ ~fetch.queued /\ fetch.target <= ctx'
  <2>1. /\ TypeOK' /\ Behind' /\ Rounds' /\ Fresh' /\ Consumed' /\ Replacing'
        /\ Revision' = Revision
        /\ sock' = sock \/ sock' = "down"
    BY <1>1, <1>2, <1>3, <1>5, AsItIs, RefetchEndsKeeps
  <2>2. ctx = Revision => ctx' = Revision
    BY <1>1, <1>2
  <2>3. Fetching(fetch) => ctx' = Revision
    BY <1>1, <1>2, <1>5 DEF Fetching
  <2>4. Covered'
    BY <1>1, <2>1, <2>2, <2>3, StillCovered
  <2> QED
    BY <2>1, <2>4 DEF IInv
<1> QED
  BY <1>1, <1>4, <1>5

LEMMA ContextFailsKeeps ==
  ASSUME IInv, ContextFails
  PROVE  IInv'
<1>1. /\ fetch.at = "asked" /\ RefetchEnds(ctx) /\ spoilt' = TRUE
      /\ UNCHANGED <<log, queue, pass, greeting, wire, known, cards, ctx>>
  BY DEF ContextFails, server
<1>2. faults' \in 0..MaxFaults
  BY Bounds DEF ContextFails, IInv, TypeOK
<1>3. /\ TypeOK' /\ Behind' /\ Rounds' /\ Fresh' /\ Consumed' /\ Replacing'
  BY <1>1, <1>2, AsItIs, RefetchEndsKeeps
<1>4. Covered'
  BY <1>1 DEF Covered
<1> QED
  BY <1>3, <1>4 DEF IInv

-----------------------------------------------------------------------------
LEMMA Initially ==
  ASSUME Init
  PROVE  IInv
<1>1. log \in Seq(Kinds) /\ Len(log) = Found /\ Found \in 0..MaxRevision
  <2>1. Found \in Nat /\ Found \in 0..MaxRevision /\ FoundKinds \subseteq Kinds
    BY DeliveryAssumption
  <2>2. log \in [1..Found -> FoundKinds]
    BY DEF Init
  <2>3. log \in [1..Found -> Kinds]
    BY <2>1, <2>2
  <2> QED
    BY <2>1, <2>3
<1>2. Revision \in Rev /\ Revision \in Nat /\ Revision <= MaxRevision /\ MaxRevision \in Nat
  BY <1>1, Bounds DEF Revision, Rev
<1>3. /\ projected \in Rev /\ projected \in 0..Revision /\ known \in Rev /\ known \in 0..Revision
      /\ base = projected /\ base <= projected /\ 0 \in Rev /\ 0 \in 0..Revision
      /\ projected <= Revision /\ -1 \in -1..MaxRevision /\ -1 <= Revision
      /\ 0 <= Revision /\ Revision <= Revision
  BY <1>2 DEF Init, Rev
<1>4. NoCatchUp \in CatchUps /\ NoCatchUp.rev = 0 /\ NoFetch \in Fetches /\ NoFetch.at = "idle"
      /\ NoFetch.since = 0 /\ NoFetch.min = 0
  BY NothingAsked
<1>5. /\ catch \in CatchUps /\ catch.at = "asked" /\ catch.after = projected
      /\ catch.target = -1 /\ catch.since = Revision /\ catch.rev = 0
  BY <1>2, <1>3, <1>4 DEF Init, AskSync, CatchUps
<1>6. /\ queue = <<>> /\ wire = <<>> /\ queue \in Seq(Span) /\ wire \in Seq(Frame)
      /\ DOMAIN queue = {} /\ DOMAIN wire = {}
  <2>1. queue = <<>> /\ wire = <<>>
    BY DEF Init
  <2> QED
    BY <2>1, NothingInIt
<1>7. /\ move \in Moves /\ move.base = 0 /\ move.rev = 0
  BY <1>3 DEF Init, Moves
<1>8. faults \in 0..MaxFaults /\ spoilt \in BOOLEAN
  <2>1. faults = 0
    BY DEF Init
  <2>2. faults \in 0..MaxFaults
    BY <2>1, Bounds
  <2>3. spoilt \in BOOLEAN
    BY DEF Init
  <2> QED
    BY <2>2, <2>3
<1>9. /\ pass \in {"good", "outdated", "expired"}
      /\ sock = "off" /\ greeting = 0 /\ cards = 0 /\ ctx = -1 /\ feed = {} /\ fetch = NoFetch
  BY DEF Init
<1>10. TypeOK
  BY <1>1, <1>2, <1>3, <1>4, <1>5, <1>6, <1>7, <1>8, <1>9 DEF TypeOK, Moves, Revision
<1>11. Behind
  BY <1>3, <1>4, <1>5, <1>6, <1>7, <1>9 DEF Behind
<1>12. Consumed
  <2>1. ASSUME NEW r \in 1..Revision, projected < r, r <= catch.after
        PROVE  FALSE
    BY <1>2, <1>3, <1>5, <2>1
  <2> QED
    BY <2>1 DEF Consumed
<1>13. Rounds /\ Replacing /\ Fresh /\ Covered
  BY <1>4, <1>5, <1>6, <1>9 DEF Rounds, Replacing, Fresh, Covered
<1> QED
  BY <1>10, <1>11, <1>12, <1>13 DEF IInv

LEMMA StutterKeeps ==
  ASSUME IInv, UNCHANGED vars
  PROVE  IInv'
<1>1. UNCHANGED <<log, queue, pass, sock, greeting, wire, known, projected, feed, base, cards, ctx,
                  catch, fetch, move, faults, spoilt>>
  BY DEF vars
<1>2. Revision' = Revision
  BY <1>1 DEF Revision
<1>3. TypeOK' /\ Behind'
  BY <1>1, <1>2 DEF IInv, TypeOK, Behind
<1>4. Consumed' /\ Rounds' /\ Replacing' /\ Fresh' /\ Covered'
  BY <1>1, <1>2 DEF IInv, Consumed, Rounds, Replacing, Fresh, Covered, OnItsWay
<1> QED
  BY <1>3, <1>4 DEF IInv

LEMMA NextKeeps ==
  ASSUME IInv, [Next]_vars
  PROVE  IInv'
<1>1. CASE PeerCommits
  BY <1>1, PeerCommitsKeeps
<1>2. CASE Gesture
  BY <1>2, GestureKeeps
<1>3. CASE Decide
  BY <1>3, DecideKeeps
<1>4. CASE Broadcast
  BY <1>4, BroadcastKeeps
<1>5. CASE Dial
  BY <1>5, JoinKeeps, RefuseKeeps, ReadRevisionKeeps, WelcomeKeeps DEF Dial
<1>6. CASE Answer
  BY <1>6, BacklogHeardKeeps, PageHeardKeeps DEF Answer
<1>7. CASE ContextHeard
  BY <1>7, ContextHeardKeeps
<1>8. CASE Hear
  BY <1>8, WelcomeOrGapKeeps, FrameHeardKeeps DEF Hear
<1>9. CASE Reply
  BY <1>9, TurnedAwayKeeps, MoveDoneKeeps, MoveRefusedKeeps DEF Reply
<1>10. CASE Reauthenticate \/ Restart \/ Drop
  BY <1>10, HangupsKeep
<1>11. CASE BroadcastFails
  BY <1>11, BroadcastFailsKeeps
<1>12. CASE SyncFails
  BY <1>12, SyncFailsKeeps
<1>13. CASE ContextFails
  BY <1>13, ContextFailsKeeps
<1>14. CASE TokenEnds
  BY <1>14, TokenEndsKeeps
<1>15. CASE UNCHANGED vars
  BY <1>15, StutterKeeps
<1> QED
  BY <1>1, <1>2, <1>3, <1>4, <1>5, <1>6, <1>7, <1>8, <1>9, <1>10, <1>11, <1>12, <1>13, <1>14,
     <1>15 DEF Next, System, Faults

(* Every state of a run satisfies the inductive invariant.                   *)
THEOREM Invariance == Spec => []IInv
<1>1. Init => IInv
  BY Initially
<1>2. IInv /\ [Next]_vars => IInv'
  BY NextKeeps
<1> QED
  BY <1>1, <1>2, PTL DEF Spec

(* The state keeps its types, whatever is lost and however late it arrives.  *)
THEOREM TypeCorrect == Spec => []TypeOK
<1>1. IInv => TypeOK
  BY DEF IInv
<1> QED
  BY <1>1, Invariance, PTL

(* When everything said has been heard and neither a frame nor a refetch was *)
(* lost, the map is the room's, however many events and faults there were    *)
(* (spatial-store.ts 736-738).                                               *)
THEOREM MapIsCurrent == Spec => []QuietMapIsCurrent
<1>1. ASSUME IInv, Quiet, ~spoilt
      PROVE  ctx = Revision
  <2>1. /\ sock = "open" /\ wire = <<>> /\ queue = <<>> /\ fetch.at = "idle"
    BY <1>1 DEF Quiet
  <2>2. OnItsWay
    BY <1>1, <2>1 DEF IInv, Covered
  <2>3. DOMAIN wire = {}
    BY <2>1, NothingInIt
  <2> QED
    BY <2>1, <2>2, <2>3 DEF OnItsWay
<1>2. IInv => QuietMapIsCurrent
  BY <1>1 DEF QuietMapIsCurrent
<1> QED
  BY <1>2, Invariance, PTL

LEMMA RefetchAsks ==
  ASSUME NEW f \in Fetches, NEW min
  PROVE  Refetch(f, min).at = "asked"
<1>1. NoFetch \in Fetches
  BY NothingAsked
<1>2. CASE f.at = "idle"
  BY <1>1, <1>2 DEF Refetch, AskContext, Fetches
<1>3. CASE f.at # "idle"
  BY <1>3 DEF Refetch, Fetches
<1> QED
  BY <1>2, <1>3

(* Only the end of a refetch drops history, and ends a refetch.              *)
LEMMA OtherSteps ==
  ASSUME IInv, [Next]_vars, ~ContextHeard, ~ContextFails
  PROVE  base' = base /\ (fetch' = fetch \/ fetch'.at = "asked")
<1>1. fetch \in Fetches
  BY DEF IInv, TypeOK
<1>2. CASE \/ PeerCommits \/ Broadcast \/ BroadcastFails \/ Drop \/ Restart \/ TokenEnds
           \/ Reauthenticate
  BY <1>2 DEF PeerCommits, Broadcast, BroadcastFails, Drop, Restart, TokenEnds, Reauthenticate,
     page
<1>3. CASE Dial \/ Gesture \/ Decide
  BY <1>3 DEF Dial, Join, Refuse, ReadRevision, Welcome, Gesture, Decide, page
<1>4. CASE SyncFails
  BY <1>1, <1>4, RefetchAsks DEF SyncFails, CatchUpEnds
<1>5. CASE BacklogHeard
  BY <1>1, <1>5, RefetchAsks DEF BacklogHeard
<1>6. CASE PageHeard
  BY <1>1, <1>6, RefetchAsks, PageRead DEF CatchUpEnds, PageHeard
<1>7. CASE Hear
  BY <1>1, <1>7, RefetchAsks DEF Hear, WelcomeHeard, GapHeard, FrameHeard
<1>8. CASE Reply
  BY <1>1, <1>8, RefetchAsks DEF Reply, TurnedAway, MoveDone, MoveRefused, page
<1>9. CASE UNCHANGED vars
  BY <1>9 DEF vars
<1> QED
  BY <1>2, <1>3, <1>4, <1>5, <1>6, <1>7, <1>8, <1>9
     DEF Next, System, Faults, Answer

LEMMA FaultCounted ==
  ASSUME IInv, ContextFails
  PROVE  faults' # faults
BY DEF ContextFails, IInv, TypeOK

(* What a refetch that ends does to the feed: nothing, or a new start at a   *)
(* revision no lower than the one the page had read.                         *)
LEMMA Ending ==
  ASSUME IInv, NEW shown, RefetchEnds(shown)
  PROVE  \/ UNCHANGED <<projected, feed, base>>
         \/ /\ catch.at = "replacing" /\ shown >= catch.rev
            /\ projected' = Larger(projected, catch.rev) /\ base' = projected' /\ feed' = {}
BY DEF RefetchEnds, Replaced

(* A refetch that was not cut short ends only when the map shows every       *)
(* revision it was asked for on the way, whoever asked (spatial-store.ts     *)
(* 736-738).                                                                 *)
THEOREM RefetchReachesAll == Spec => RefetchReaches
<1>1. ASSUME IInv, [Next]_vars
      PROVE  fetch.at = "asked" /\ fetch'.at = "idle" /\ faults' = faults => fetch.min <= ctx'
  <2> SUFFICES ASSUME fetch.at = "asked", fetch'.at = "idle", faults' = faults
               PROVE  fetch.min <= ctx'
    OBVIOUS
  <2>1. CASE ContextHeard
    <3>1. \/ fetch' = AskContext(fetch.min)
          \/ ~fetch.queued /\ fetch.target <= ctx'
      BY <1>1, <2>1, Answered
    <3>2. AskContext(fetch.min).at = "asked"
      BY <1>1, AskedContext, Numbers DEF IInv
    <3> QED
      BY <1>1, <3>1, <3>2 DEF IInv, Rounds
  <2>2. CASE ContextFails
    BY <1>1, <2>2, FaultCounted
  <2>3. CASE ~ContextHeard /\ ~ContextFails
    BY <1>1, <2>3, OtherSteps
  <2> QED
    BY <2>1, <2>2, <2>3
<1>2. IInv /\ [Next]_vars
        => [fetch.at = "asked" /\ fetch'.at = "idle" /\ faults' = faults => fetch.min <= ctx']_vars
  BY <1>1
<1> QED
  BY <1>2, Invariance, PTL DEF Spec, RefetchReaches

(* History is only dropped from the feed once the map shows the room at the  *)
(* revision the server had named, and, unless that refetch was cut short by  *)
(* a failure, at all the page has read by then (App.tsx 388-390).            *)
THEOREM DropsOnlyWhatIsShown == Spec => DroppedIsOnTheMap
<1>1. ASSUME IInv, [Next]_vars, base' # base
      PROVE  catch.rev <= ctx' /\ (faults' = faults => base' <= ctx')
  <2>1. /\ projected \in Nat /\ catch.rev \in Nat /\ fetch.since \in Nat /\ ctx \in Int
        /\ Revision \in Nat
    BY <1>1, Limits
  <2>2. CASE ContextHeard
    <3>1. ctx' \in 0..Revision /\ fetch.since <= ctx'
      BY <1>1, <2>2, Answered
    <3>2. RefetchEnds(ctx') /\ ~fetch.queued
      BY <1>1, <2>2, Answered
    <3>3. /\ catch.at = "replacing" /\ ctx' >= catch.rev
          /\ base' = Larger(projected, catch.rev)
      BY <1>1, <3>2, Ending
    <3>4. projected <= catch.rev \/ projected <= fetch.since
      BY <1>1, <3>2, <3>3 DEF IInv, Replacing
    <3>5. base' <= ctx'
      <4>1. ctx' \in Nat /\ projected <= ctx' /\ catch.rev <= ctx'
        BY <2>1, <3>1, <3>3, <3>4
      <4> QED
        BY <3>3, <4>1 DEF Larger
    <3> QED
      BY <2>1, <3>1, <3>3, <3>5
  <2>3. CASE ContextFails
    <3>1. ctx' = ctx /\ RefetchEnds(ctx)
      BY <2>3 DEF ContextFails
    <3>2. ctx >= catch.rev
      BY <1>1, <3>1, Ending
    <3> QED
      BY <1>1, <2>1, <2>3, <3>1, <3>2, FaultCounted
  <2>4. CASE ~ContextHeard /\ ~ContextFails
    BY <1>1, <2>4, OtherSteps
  <2> QED
    BY <2>2, <2>3, <2>4
<1>2. IInv /\ [Next]_vars
        => [base' # base => catch.rev <= ctx' /\ (faults' = faults => base' <= ctx')]_vars
  BY <1>1
<1> QED
  BY <1>2, Invariance, PTL DEF Spec, DroppedIsOnTheMap

-----------------------------------------------------------------------------
(* The feed is RoomFeed's: each step publishes, reads, replaces, or leaves   *)
(* the feed alone.                                                           *)

LEMMA Publishing ==
  ASSUME IInv, PeerCommits \/ Decide
  PROVE  [Promise!Next]_(Promise!vars)
<1>1. UNCHANGED <<projected, base, feed>>
  BY DEF PeerCommits, Decide, page
<1>2. CASE \E kinds \in SUBSET Kinds : \E events \in Commits(kinds) : Commit(events)
  <2>1. PICK kinds \in SUBSET Kinds : \E events \in Commits(kinds) : Commit(events)
    BY <1>2
  <2>2. PICK events \in Commits(kinds) : Commit(events)
    BY <2>1
  <2>3. /\ log' \in Seq(Kinds) /\ Revision <= Revision'
        /\ \A r \in 1..Revision : log'[r] = log[r]
    BY <2>2, CommitGrows
  <2>4. Promise!Publish
    BY <1>1, <2>3 DEF Promise!Publish, Promise!Revisions, Revision
  <2> QED
    BY <2>4 DEF Promise!Next
<1>3. CASE PeerCommits
  <2>1. PeerKinds \in SUBSET Kinds
    BY DeliveryAssumption
  <2> QED
    BY <1>2, <1>3, <2>1 DEF PeerCommits
<1>4. CASE Decide
  <2>1. OwnKinds \in SUBSET Kinds
    BY DeliveryAssumption
  <2>2. CASE move.base = Revision
    BY <1>2, <1>4, <2>1, <2>2 DEF Decide
  <2>3. CASE move.base # Revision
    BY <1>1, <1>4, <2>3 DEF Decide, server, Promise!vars
  <2> QED
    BY <2>2, <2>3
<1> QED
  BY <1>3, <1>4

(* A page of the delta, or a frame, is read.                                 *)
LEMMA Reading ==
  ASSUME IInv, UNCHANGED <<log, base>>,
         projected' \in 0..Revision, projected <= projected',
         feed \subseteq feed',
         \A r \in feed' : r \in feed \/ (r \in 1..Revision /\ log[r] \notin Secret),
         \A r \in 1..Revision :
           projected < r /\ r <= projected' /\ log[r] \notin Secret => r \in feed'
  PROVE  Promise!Read
<1>1. projected' \in projected..Len(log)
  BY Limits DEF Revision
<1>2. feed' \subseteq feed \cup Promise!Visible
  BY DEF Promise!Visible, Promise!Revisions, Revision
<1>3. \A r \in Promise!Visible : projected < r /\ r <= projected' => r \in feed'
  BY DEF Promise!Visible, Promise!Revisions, Revision
<1> QED
  BY <1>1, <1>2, <1>3 DEF Promise!Read

LEMMA PageReading ==
  ASSUME IInv, PageHeard
  PROVE  Promise!Read
<1>1. catch.at = "asked" /\ UNCHANGED <<log, base>>
  BY DEF PageHeard, server
<1>2. PICK end \in 0..Revision :
        /\ feed' = feed \cup {r \in Visible(catch.after, end) : r > projected}
        /\ projected' = Larger(projected, end) \/ projected' = projected
  BY PageRead
<1>3. /\ \A r \in 1..Revision : projected < r /\ r <= end /\ log[r] \notin Secret => r \in feed'
      /\ \A r \in feed' : r \in feed \/ (r \in 1..Revision /\ log[r] \notin Secret)
      /\ feed \subseteq feed'
  BY <1>1, <1>2, ShownUpTo
<1>4. projected \in Nat /\ projected \in 0..Revision /\ Revision \in Nat
  BY AsItIs
<1>5. projected' \in 0..Revision /\ projected <= projected' /\ projected' \in {projected, end}
  <2>1. Larger(projected, end) \in 0..Revision /\ projected <= Larger(projected, end)
    BY <1>4, LargerBelow
  <2>2. Larger(projected, end) \in {projected, end}
    BY DEF Larger
  <2> QED
    BY <1>2, <1>4, <2>1, <2>2
<1>6. ASSUME NEW r \in 1..Revision, projected < r, r <= projected', log[r] \notin Secret
      PROVE  r \in feed'
  <2>1. projected' = end
    BY <1>4, <1>5, <1>6
  <2> QED
    BY <1>3, <1>6, <2>1
<1> QED
  BY <1>1, <1>3, <1>5, <1>6, Reading

LEMMA FrameReading ==
  ASSUME IInv, FrameHeard
  PROVE  Promise!Read
<1> DEFINE lines == Visible(wire[1].from, wire[1].to)
           new   == {r \in lines : r > projected}
<1>1. /\ wire # <<>> /\ wire' = Tail(wire)
      /\ projected = wire[1].from /\ projected' = Larger(projected, wire[1].to)
      /\ feed' = feed \cup new
      /\ UNCHANGED <<log, base>>
  BY DEF FrameHeard, Received, HasRevisionGap, server
<1>2. wire[1].to \in 0..Revision /\ wire[1].from \in Nat /\ wire[1].from <= wire[1].to
  BY <1>1, WireHead
<1>3. Revision \in Nat /\ projected \in Nat
  BY AsItIs
<1>4. projected' = wire[1].to
  BY <1>1, <1>2 DEF Larger
<1>5. projected' \in 0..Revision /\ projected <= projected'
  BY <1>1, <1>2, <1>4
<1>6. ASSUME NEW r \in lines
      PROVE  r \in 1..Revision /\ log[r] \notin Secret
  <2>1. r \in (wire[1].from + 1)..wire[1].to /\ log[r] \notin Secret
    BY DEF Visible
  <2> QED
    BY <1>2, <1>3, <2>1
<1>7. ASSUME NEW r \in 1..Revision, projected < r, r <= projected', log[r] \notin Secret
      PROVE  r \in new
  <2>1. r \in (wire[1].from + 1)..wire[1].to /\ r > projected
    BY <1>1, <1>2, <1>3, <1>4, <1>7
  <2> QED
    BY <1>7, <2>1 DEF Visible
<1>8. new \subseteq lines
  OBVIOUS
<1> HIDE DEF lines, new
<1>9. \A r \in feed' : r \in feed \/ (r \in 1..Revision /\ log[r] \notin Secret)
  BY <1>1, <1>6, <1>8
<1>10. feed \subseteq feed'
  BY <1>1
<1>11. \A r \in 1..Revision :
         projected < r /\ r <= projected' /\ log[r] \notin Secret => r \in feed'
  BY <1>1, <1>7
<1> QED
  BY <1>1, <1>5, <1>9, <1>10, <1>11, Reading

LEMMA MapReplacing ==
  ASSUME IInv, ContextHeard \/ ContextFails
  PROVE  [Promise!Next]_(Promise!vars)
<1>1. UNCHANGED log
  BY DEF ContextHeard, ContextFails, server
<1>2. \/ UNCHANGED <<projected, feed, base>>
      \/ \E shown : RefetchEnds(shown)
  BY Answered DEF ContextFails
<1>3. CASE UNCHANGED <<projected, feed, base>>
  BY <1>1, <1>3 DEF Promise!vars
<1>4. CASE projected' = Larger(projected, catch.rev) /\ base' = projected' /\ feed' = {}
  <2>1. catch.rev \in 0..Revision /\ projected \in 0..Revision /\ Revision \in Nat
    BY Limits
  <2>2. projected' \in 0..Revision /\ projected <= projected'
    BY <1>4, <2>1, LargerBelow
  <2>3. projected' \in projected..Len(log)
    BY <2>1, <2>2 DEF Revision
  <2>4. Promise!Replace
    BY <1>1, <1>4, <2>3 DEF Promise!Replace
  <2> QED
    BY <2>4 DEF Promise!Next
<1> QED
  BY <1>2, <1>3, <1>4, Ending

LEMMA OtherStepsStutter ==
  ASSUME [Next]_vars, ~PeerCommits, ~Decide, ~PageHeard, ~FrameHeard,
         ~ContextHeard, ~ContextFails
  PROVE  UNCHANGED <<log, projected, base, feed>>
<1>1. CASE Gesture \/ Broadcast \/ Dial
  BY <1>1 DEF Gesture, Broadcast, Dial, Join, Refuse, ReadRevision, Welcome, page, server
<1>2. CASE BroadcastFails \/ Drop \/ Restart \/ TokenEnds \/ Reauthenticate
  BY <1>2 DEF BroadcastFails, Drop, Restart, TokenEnds, Reauthenticate, page, server
<1>3. CASE SyncFails \/ BacklogHeard
  BY <1>3 DEF SyncFails, BacklogHeard, server
<1>4. CASE WelcomeHeard \/ GapHeard
  BY <1>4 DEF WelcomeHeard, GapHeard, server
<1>5. CASE Reply
  BY <1>5 DEF Reply, TurnedAway, MoveDone, MoveRefused, page, server
<1>6. CASE UNCHANGED vars
  BY <1>6 DEF vars
<1> QED
  BY <1>1, <1>2, <1>3, <1>4, <1>5, <1>6 DEF Next, System, Faults, Answer, Hear

LEMMA EachStepKeepsPromise ==
  ASSUME IInv, [Next]_vars
  PROVE  [Promise!Next]_(Promise!vars)
<1>1. CASE PageHeard \/ FrameHeard
  BY <1>1, PageReading, FrameReading DEF Promise!Next
<1>2. CASE ~PageHeard /\ ~FrameHeard /\ ~PeerCommits /\ ~Decide /\ ~ContextHeard /\ ~ContextFails
  <2>1. UNCHANGED <<log, projected, base, feed>>
    BY <1>2, OtherStepsStutter
  <2> QED
    BY <2>1 DEF Promise!vars
<1> QED
  BY <1>1, <1>2, Publishing, MapReplacing

LEMMA PromiseInit ==
  ASSUME Init
  PROVE  Promise!Init
<1>1. IInv
  BY Initially
<1>2. log \in Seq(Kinds) /\ projected \in 0..Len(log)
  BY <1>1, AsItIs DEF IInv, TypeOK, Revision
<1>3. base = projected /\ feed = {}
  BY DEF Init
<1> QED
  BY <1>2, <1>3 DEF Promise!Init

(* However frames, pages of the delta, lost frames and reconnects interleave,*)
(* the page's feed is RoomFeed's, step by step (App.tsx 366-369, 469-471).   *)
THEOREM KeepsItsPromise == Spec => KeepsPromise
<1>1. Init => Promise!Init
  BY PromiseInit
<1>2. IInv /\ [Next]_vars => [Promise!Next]_(Promise!vars)
  BY EachStepKeepsPromise
<1> QED
  BY <1>1, <1>2, Invariance, PTL DEF Spec, KeepsPromise

-----------------------------------------------------------------------------
(* What the promise amounts to, for every kind of event and every reader.    *)

FeedInv ==
    /\ log \in Seq(Kinds) /\ projected \in 0..Len(log) /\ base \in 0..Len(log)
    /\ Promise!NoHole

LEMMA FeedPublished ==
  ASSUME FeedInv, Promise!Publish
  PROVE  FeedInv'
<1>1. /\ log' \in Seq(Kinds) /\ projected' \in 0..Len(log') /\ base' \in 0..Len(log')
  BY DEF FeedInv, Promise!Publish
<1>2. ASSUME NEW r \in Promise!Visible', base' < r, r <= projected'
      PROVE  r \in feed'
  <2>1. r \in Promise!Revisions
    BY <1>2 DEF FeedInv, Promise!Publish, Promise!Visible, Promise!Revisions
  <2>2. r \in Promise!Visible
    BY <1>2, <2>1 DEF Promise!Publish, Promise!Visible
  <2> QED
    BY <1>2, <2>2 DEF FeedInv, Promise!NoHole, Promise!Publish
<1> QED
  BY <1>1, <1>2 DEF FeedInv, Promise!NoHole

LEMMA FeedRead ==
  ASSUME FeedInv, Promise!Read
  PROVE  FeedInv'
<1>1. /\ log' \in Seq(Kinds) /\ projected' \in 0..Len(log') /\ base' \in 0..Len(log')
  BY DEF FeedInv, Promise!Read
<1>2. ASSUME NEW r \in Promise!Visible', base' < r, r <= projected'
      PROVE  r \in feed'
  <2>1. r \in Promise!Visible
    BY <1>2 DEF Promise!Read, Promise!Visible, Promise!Revisions
  <2>2. CASE r <= projected
    BY <1>2, <2>1, <2>2 DEF FeedInv, Promise!NoHole, Promise!Read
  <2>3. CASE ~(r <= projected)
    BY <1>2, <2>1, <2>3 DEF FeedInv, Promise!Read, Promise!Visible, Promise!Revisions
  <2> QED
    BY <2>2, <2>3
<1> QED
  BY <1>1, <1>2 DEF FeedInv, Promise!NoHole

LEMMA FeedReplaced ==
  ASSUME FeedInv, Promise!Replace
  PROVE  FeedInv'
<1>1. /\ log' \in Seq(Kinds) /\ projected' \in 0..Len(log') /\ base' \in 0..Len(log')
  BY DEF FeedInv, Promise!Replace
<1>2. Promise!NoHole'
  BY <1>1 DEF Promise!NoHole, Promise!Replace, Promise!Visible, Promise!Revisions
<1> QED
  BY <1>1, <1>2 DEF FeedInv

(* A feed that keeps the promise has no hole, however long the room goes on: *)
(* every event up to the mark that the reader may see, from where the feed   *)
(* starts, is on the page (App.tsx 366-369).                                 *)
THEOREM FeedHasNoHole == Promise!Spec => []Promise!NoHole
<1>1. Promise!Init => FeedInv
  BY DEF Promise!Init, FeedInv, Promise!NoHole, Promise!Visible, Promise!Revisions
<1>2. FeedInv /\ [Promise!Next]_(Promise!vars) => FeedInv'
  <2> SUFFICES ASSUME FeedInv, [Promise!Next]_(Promise!vars)
               PROVE  FeedInv'
    OBVIOUS
  <2>1. CASE Promise!Next
    BY <2>1, FeedPublished, FeedRead, FeedReplaced DEF Promise!Next
  <2>2. CASE UNCHANGED Promise!vars
    BY <2>2 DEF Promise!vars, FeedInv, Promise!NoHole, Promise!Visible, Promise!Revisions
  <2> QED
    BY <2>1, <2>2
<1>3. FeedInv => Promise!NoHole
  BY DEF FeedInv
<1> QED
  BY <1>1, <1>2, <1>3, PTL DEF Promise!Spec

(* And so the page's own feed has none.                                      *)
THEOREM PageHasNoHole == Spec => []Promise!NoHole
<1>1. KeepsPromise => Promise!Spec
  BY DEF KeepsPromise, Promise!Spec
<1> QED
  BY <1>1, KeepsItsPromise, FeedHasNoHole, PTL

=============================================================================
