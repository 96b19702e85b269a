------------------------------ MODULE Delivery ------------------------------
(* How one page keeps up with its room: the server's room queue and socket   *)
(* (ws.ts), paginated sync (sync.ts, delta.ts), the page's two watermarks    *)
(* (revision-watermarks.ts), its catch-up and its one shared refetch of the  *)
(* map (App.tsx, spatial-store.ts), and a gesture of the page's owner.       *)
(*                                                                          *)
(* Everybody commits; a commit numbers its events on from the room's         *)
(* revision and queues one frame.  Frames can be lost with their query, with *)
(* the socket and with the process; HTTP answers can be late, can overtake   *)
(* frames and can fail.  An event is one of: shown to this reader, shown and *)
(* changing what awaits this reader (OUTSTANDING_EVENTS), or omitted by the  *)
(* reader's projection.                                                      *)
(*                                                                          *)
(* A handshake is refused for good when the page's build is not the server's *)
(* or its token's day is over; such a page does not dial again.  It is out   *)
(* of date until its reload, which opens a page anew (Init): at once where   *)
(* reloading is proven safe, at a click elsewhere.                           *)
(*                                                                          *)
(* Left out: what the events say (and the feed's length), presence and       *)
(* nonces on the same socket, and last_synced_revision, which only the       *)
(* digest of an absence reads.                                               *)
EXTENDS Integers, Sequences, FiniteSets

CONSTANTS
    PageCap,        \* DELTA_CAP: events of one sync page
    Backlog,        \* DELTA_BACKLOG_CAP: events replayed at most
    Found,          \* events the page finds when it opens
    FoundKinds,     \* what they are to this reader
    MaxRevision,    \* bound: events of the room
    MaxCommit,      \* bound: events of one commit
    PeerKinds,      \* what the others' commits are to this reader
    OwnKinds,       \* what the reader's own commits are
    MaxFaults       \* bound: lost frames and sockets, failed requests, restarts, ended tokens

Kinds  == {"plain", "asks", "secret"}
Secret == {"secret"}

ASSUME DeliveryAssumption ==
    /\ {PageCap, Backlog, MaxRevision, MaxCommit} \subseteq Nat \ {0}
    /\ MaxFaults \in Nat
    /\ PeerKinds \cup FoundKinds \subseteq Kinds /\ OwnKinds \subseteq Kinds \ Secret
    /\ Found \in 0..MaxRevision

VARIABLES
    log,        \* the room's events; its revision is their number
    queue,      \* the room's broadcasts still to be delivered
    pass,       \* what the server makes of the page's build and token
    sock,       \* the page's socket
    greeting,   \* the revision read for the welcome
    wire,       \* frames on their way to the page
    known,      \* knownRoomRevision
    projected,  \* projectedThroughRevision
    feed,       \* the revisions the page shows
    base,       \* history: the feed starts behind this revision
    cards,      \* outstandingRevision: what awaits the reader is of this revision
    ctx,        \* the revision of the map the page shows
    catch,      \* the catch-up under way
    fetch,      \* the refetch of the map under way
    move,       \* a command of the page's owner
    faults,     \* faults so far
    spoilt      \* history: a frame or a refetch was lost

server == <<log, queue, pass>>
socket == <<sock, greeting, wire>>
page   == <<known, projected, feed, base, cards, ctx, catch, fetch>>
vars   == <<log, queue, pass, sock, greeting, wire, known, projected, feed, base, cards, ctx,
            catch, fetch, move, faults, spoilt>>

Rev   == 0..MaxRevision
Span  == [from : Rev, to : Rev]
Frame == [type : {"welcome", "event"}, from : Rev, to : Rev]

CatchUps == [at : {"idle", "asked", "replacing"},
             after  : Rev,              \* consumedThrough, or the cursor's place
             target : -1..MaxRevision,  \* the cursor's target; -1: no cursor
             since  : Rev,              \* the room's revision when it was asked
             rev    : Rev]              \* the revision to be replaced at

Fetches == [at : {"idle", "asked"},
            min    : Rev,               \* requestedMinRevision
            target : Rev,               \* targetRevision of this round
            queued : BOOLEAN,
            since  : Rev]               \* the room's revision when it was asked

NoCatchUp == [at |-> "idle", after |-> 0, target |-> -1, since |-> 0, rev |-> 0]
NoFetch   == [at |-> "idle", min |-> 0, target |-> 0, queued |-> FALSE, since |-> 0]

TypeOK ==
    /\ log \in Seq(Kinds) /\ Len(log) \in Rev
    /\ queue \in Seq(Span)
    /\ pass \in {"good", "outdated", "expired"}
    /\ sock \in {"off", "down", "joined", "read", "open", "refused"}
    /\ greeting \in Rev
    /\ wire \in Seq(Frame)
    /\ {known, projected, base, cards} \subseteq Rev
    /\ feed \subseteq 1..MaxRevision
    /\ ctx \in -1..MaxRevision
    /\ catch \in CatchUps
    /\ fetch \in Fetches
    /\ move \in [at : {"none", "sent", "done", "refused", "waiting", "over"},
                 base : Rev, retried : BOOLEAN, rev : Rev]
    /\ faults \in 0..MaxFaults
    /\ spoilt \in BOOLEAN

Revision      == Len(log)
Larger(a, b)  == IF a < b THEN b ELSE a
Visible(a, b) == {r \in (a + 1)..b : log[r] \notin Secret}

-----------------------------------------------------------------------------
(* What the page starts: one catch-up and one refetch at a time.             *)

AskSync(after, target) == [NoCatchUp EXCEPT !.at = "asked", !.after = after,
                                            !.target = target, !.since = Revision]
AskContext(min) == [NoFetch EXCEPT !.at = "asked", !.min = min, !.target = min,
                                   !.since = Revision]

CatchUpFromKnown(c, through) ==                 \* mutant: the wrong watermark
    IF c.at = "idle" THEN AskSync(known, -1) ELSE c

\* catchUp(): whoever asks while one is under way shares it.
CatchUp(c, through) == IF c.at = "idle" THEN AskSync(through, -1) ELSE c

RefetchShared(f, min) ==                        \* mutant: no further round
    IF f.at = "idle" THEN AskContext(min) ELSE [f EXCEPT !.min = Larger(@, min)]

RefetchNumbered(f, min) ==                      \* mutant: a bare wish is shared
    IF f.at = "idle"
    THEN AskContext(min)
    ELSE [f EXCEPT !.min = Larger(@, min), !.queued = @ \/ f.min < min]

\* refetch(minRevision): shared too, with another round for a new wish.
Refetch(f, min) ==
    IF f.at = "idle"
    THEN AskContext(min)
    ELSE [f EXCEPT !.min = Larger(@, min),
                   !.queued = @ \/ min = 0 \/ f.min < min]

-----------------------------------------------------------------------------
(* The room.                                                                 *)

Commits(kinds) == UNION {[1..n -> kinds] : n \in 1..MaxCommit}

CommitNumberedPast(events) ==                   \* mutant: off by one
    /\ Revision + Len(events) <= MaxRevision
    /\ log' = log \o events
    /\ queue' = Append(queue, [from |-> Revision, to |-> Revision + Len(events) + 1])

(* A commit, and synchronously behind it its place in the delivery queue.    *)
Commit(events) ==
    /\ Revision + Len(events) <= MaxRevision
    /\ log' = log \o events
    /\ queue' = Append(queue, [from |-> Revision, to |-> Revision + Len(events)])

\* The bound leaves an open page room for one gesture.
Undecided == move.at \in {"sent", "refused", "waiting"} \/ (move.at = "none" /\ sock # "off")

PeerCommits ==
    /\ \E events \in Commits(PeerKinds) :
        /\ Revision + Len(events) <= MaxRevision - (IF Undecided THEN 1 ELSE 0)
        /\ Commit(events)
    /\ UNCHANGED <<pass, socket, page, move, faults, spoilt>>

Registered == sock \in {"joined", "read", "open"}

(* The head of the queue goes to every registered socket.  All of a room's   *)
(* rows are immutable, so it does not matter when they are read.             *)
Broadcast ==
    /\ queue # <<>>
    /\ queue' = Tail(queue)
    /\ wire' = IF Registered
               THEN Append(wire, [type |-> "event", from |-> queue[1].from, to |-> queue[1].to])
               ELSE wire
    /\ UNCHANGED <<log, pass, sock, greeting, page, move, faults, spoilt>>

(* Its query fails: that frame is lost, the next one is not held back.       *)
BroadcastFails ==
    /\ queue # <<>> /\ faults < MaxFaults
    /\ queue' = Tail(queue)
    /\ faults' = faults + 1
    /\ spoilt' = TRUE
    /\ UNCHANGED <<log, pass, socket, page, move>>

-----------------------------------------------------------------------------
(* The socket.                                                               *)

(* The page dials, its build is the server's and its token is good: from     *)
(* here on the socket hears the room.                                        *)
Join ==
    /\ sock = "down" /\ pass = "good"
    /\ sock' = "joined"
    /\ UNCHANGED <<server, greeting, wire, page, move, faults, spoilt>>

(* Otherwise it is told to reload (4002), or that nobody knows it (4003), and *)
(* dials no more.                                                            *)
Refuse ==
    /\ sock = "down" /\ pass # "good"
    /\ sock' = "refused"
    /\ UNCHANGED <<server, greeting, wire, page, move, faults, spoilt>>

ReadRevision ==
    /\ sock = "joined"
    /\ sock' = "read"
    /\ greeting' = Revision
    /\ UNCHANGED <<server, wire, page, move, faults, spoilt>>

Welcome ==
    /\ sock = "read"
    /\ sock' = "open"
    /\ wire' = Append(wire, [type |-> "welcome", from |-> 0, to |-> greeting])
    /\ greeting' = 0
    /\ UNCHANGED <<server, page, move, faults, spoilt>>

Hangup ==
    /\ sock' = "down"
    /\ wire' = <<>>
    /\ greeting' = 0

\* Closed for any other reason, the page dials again.
Drop ==
    /\ Registered /\ faults < MaxFaults
    /\ Hangup
    /\ faults' = faults + 1
    /\ UNCHANGED <<server, page, move, spoilt>>

(* The process ends: the queue and the socket go, the events stay.  The next *)
(* one is a build of its own, unless its image named one (config.ts); a      *)
(* build that was replaced does not come back.                               *)
Restart ==
    /\ faults < MaxFaults
    /\ queue' = <<>>
    /\ IF sock \in {"off", "refused"} THEN UNCHANGED socket ELSE Hangup
    /\ pass' \in {pass} \cup (IF pass = "good" THEN {"outdated"} ELSE {})
    /\ faults' = faults + 1
    /\ UNCHANGED <<log, page, move, spoilt>>

(* A token is good for a day.  Its socket stays until it is replaced; its    *)
(* requests fail from now on, as any request may.                            *)
TokenEnds ==
    /\ faults < MaxFaults
    /\ pass # "expired"
    /\ pass' = "expired"
    /\ faults' = faults + 1
    /\ UNCHANGED <<log, queue, socket, page, move, spoilt>>

-----------------------------------------------------------------------------
(* HTTP answers.  The server computes an answer at some moment between the   *)
(* question and the answer's arrival, on the room as it was then.            *)
ComputedAt(question) == question.since..Revision

(* A catch-up ends: the next one may start, a gesture that waited for it is  *)
(* repeated on the revision now known, and the page that just booted asks    *)
(* for its map and connects.                                                 *)
CatchUpEnds(knows, fetching) ==
    /\ catch' = NoCatchUp
    /\ move' = IF move.at = "waiting"
               THEN [move EXCEPT !.at = "sent", !.base = knows, !.retried = TRUE]
               ELSE move
    /\ sock' = IF sock = "off" THEN "down" ELSE sock
    /\ fetch' = IF sock = "off" THEN Refetch(fetching, knows) ELSE fetching

SyncFails ==
    /\ catch.at = "asked" /\ faults < MaxFaults
    /\ CatchUpEnds(known, fetch)
    /\ faults' = faults + 1
    /\ UNCHANGED <<server, greeting, wire, known, projected, feed, base, cards, ctx, spoilt>>

(* The reader's own list of what awaits comes with every sync.               *)
Observe(rev) ==
    /\ known' = Larger(known, rev)
    /\ cards' = Larger(cards, rev)

(* Too far behind: the map is replaced before anything is skipped.           *)
BacklogHeard ==
    /\ catch.at = "asked" /\ catch.target = -1
    /\ \E rev \in ComputedAt(catch) :
        /\ rev - catch.after > Backlog
        /\ Observe(rev)
        /\ catch' = [catch EXCEPT !.at = "replacing", !.rev = rev]
        /\ fetch' = Refetch(fetch, rev)
    /\ UNCHANGED <<server, socket, projected, feed, base, ctx, move, faults, spoilt>>

\* A page of the delta ends with its cap-th visible event.
PageEnd(after, target, cap) ==
    LET full == {r \in Visible(after, target) : Cardinality(Visible(after, r)) = cap}
    IN  IF full = {} THEN target ELSE CHOOSE r \in full : log[r] \notin Secret

(* One page of the delta, cut shorter where its envelope is too large: its   *)
(* new lines join the feed.  The watermark moves only when the head the      *)
(* server named has been reached.                                            *)
PageHeard ==
    /\ catch.at = "asked"
    /\ \E rev \in ComputedAt(catch), cap \in 1..PageCap :
        LET target == IF catch.target = -1 THEN rev ELSE catch.target
            end    == PageEnd(catch.after, target, cap)
        IN  /\ catch.target = -1 => rev - catch.after <= Backlog
            /\ Observe(rev)
            /\ feed' = feed \cup {r \in Visible(catch.after, end) : r > projected}
            /\ IF end = rev
               THEN /\ projected' = Larger(projected, end)
                    /\ CatchUpEnds(known', fetch)
               ELSE /\ catch' = AskSync(end, IF end < target THEN target ELSE -1)
                    /\ UNCHANGED <<projected, move, sock, fetch>>
    /\ UNCHANGED <<server, greeting, wire, base, ctx, faults, spoilt>>

ReplacedAnyhow(shown) == catch.at = "replacing"   \* mutant: a failed refetch counts
Replaced(shown)       == catch.at = "replacing" /\ shown >= catch.rev

(* The refetch is over.  A catch-up that waited for it drops the feed if the *)
(* map now shows the room as the server had named it.                        *)
RefetchEnds(shown) ==
    /\ projected' = IF Replaced(shown) THEN Larger(projected, catch.rev) ELSE projected
    /\ feed' = IF Replaced(shown) THEN {} ELSE feed
    /\ base' = IF Replaced(shown) THEN projected' ELSE base
    /\ IF catch.at = "replacing" THEN CatchUpEnds(known, NoFetch)
       ELSE fetch' = NoFetch /\ UNCHANGED <<catch, move, sock>>

(* Never an older map over a newer one, and no end before the map has        *)
(* reached what was asked for.                                               *)
ContextHeard ==
    /\ fetch.at = "asked"
    /\ \E rev \in ComputedAt(fetch) :
        /\ ctx' = Larger(ctx, rev)
        /\ IF fetch.queued \/ ctx' < fetch.target
           THEN /\ fetch' = AskContext(fetch.min)
                /\ UNCHANGED <<projected, feed, base, catch, move, sock>>
           ELSE RefetchEnds(ctx')
    /\ UNCHANGED <<server, greeting, wire, known, cards, faults, spoilt>>

(* A refetch that fails ends at once, whatever was asked for meanwhile.      *)
ContextFails ==
    /\ fetch.at = "asked" /\ faults < MaxFaults
    /\ RefetchEnds(ctx)
    /\ faults' = faults + 1
    /\ spoilt' = TRUE
    /\ UNCHANGED <<server, greeting, wire, known, cards, ctx>>

-----------------------------------------------------------------------------
(* Frames.                                                                   *)

Received(type) ==
    /\ wire # <<>> /\ wire[1].type = type
    /\ wire' = Tail(wire)
    /\ known' = Larger(known, wire[1].to)

WelcomeOldNews ==                               \* mutant: nothing new, nothing to do
    /\ Received("welcome")
    /\ catch' = IF wire[1].to = known THEN catch ELSE CatchUp(catch, projected)
    /\ fetch' = Refetch(fetch, wire[1].to)
    /\ UNCHANGED <<server, sock, greeting, projected, feed, base, cards, ctx, move, faults, spoilt>>

WelcomeHeard ==
    /\ Received("welcome")
    /\ catch' = CatchUp(catch, projected)
    /\ fetch' = Refetch(fetch, wire[1].to)
    /\ UNCHANGED <<server, sock, greeting, projected, feed, base, cards, ctx, move, faults, spoilt>>

HasRevisionGap(through, from) == from # through

(* A frame that does not begin where the page stopped is not rendered.       *)
GapHeard ==
    /\ Received("event")
    /\ HasRevisionGap(projected, wire[1].from)
    /\ catch' = CatchUp(catch, projected)
    /\ fetch' = Refetch(fetch, wire[1].to)
    /\ UNCHANGED <<server, sock, greeting, projected, feed, base, cards, ctx, move, faults, spoilt>>

FrameHeard ==
    LET lines == Visible(wire[1].from, wire[1].to)
    IN  /\ Received("event")
        /\ ~HasRevisionGap(projected, wire[1].from)
        /\ feed' = feed \cup {r \in lines : r > projected}
        /\ projected' = Larger(projected, wire[1].to)
        /\ fetch' = Refetch(fetch, 0)
        /\ catch' = IF \E r \in lines : log[r] = "asks" THEN CatchUp(catch, projected') ELSE catch
        /\ UNCHANGED <<server, sock, greeting, base, cards, ctx, move, faults, spoilt>>

-----------------------------------------------------------------------------
(* A gesture of the page's owner (run in App.tsx).                           *)

Gesture ==
    /\ move.at = "none" /\ sock # "off" /\ Revision < MaxRevision
    /\ move' = [move EXCEPT !.at = "sent", !.base = known]
    /\ UNCHANGED <<server, socket, page, faults, spoilt>>

(* The command bus commits only on the room's head.                          *)
Decide ==
    /\ move.at = "sent" /\ pass # "expired"
    /\ IF move.base = Revision
       THEN /\ \E events \in Commits(OwnKinds) : Commit(events)
            /\ move' = [move EXCEPT !.at = "done", !.rev = Len(log')]
       ELSE /\ move' = [move EXCEPT !.at = "refused"]
            /\ UNCHANGED <<log, queue>>
    /\ UNCHANGED <<pass, socket, page, faults, spoilt>>

(* Not one the server knows any more, or, since its build has a new tool     *)
(* contract, one that has to reload first: the gesture is given up.          *)
TurnedAway ==
    /\ move.at = "sent" /\ pass # "good"
    /\ move' = [move EXCEPT !.at = "over"]
    /\ UNCHANGED <<server, socket, page, faults, spoilt>>

MoveDone ==
    /\ move.at = "done"
    /\ move' = [move EXCEPT !.at = "over"]
    /\ known' = Larger(known, move.rev)
    /\ cards' = Larger(cards, move.rev)
    /\ fetch' = Refetch(fetch, move.rev)
    /\ UNCHANGED <<server, socket, projected, feed, base, ctx, catch, faults, spoilt>>

(* A lost race is tried once more, after a catch-up; the second time it is   *)
(* given up, and the page only catches up.                                   *)
MoveRefused ==
    /\ move.at = "refused"
    /\ catch' = CatchUp(catch, projected)
    /\ move' = [move EXCEPT !.at = IF move.retried THEN "over" ELSE "waiting"]
    /\ UNCHANGED <<server, socket, known, projected, feed, base, cards, ctx, fetch,
                   faults, spoilt>>

-----------------------------------------------------------------------------
Quiet == /\ sock = "open" /\ wire = <<>> /\ queue = <<>>
         /\ catch.at = "idle" /\ fetch.at = "idle" /\ move.at \in {"none", "over"}

(* A socket lives fifteen minutes, long against everything else.             *)
Reauthenticate ==
    /\ Quiet
    /\ Hangup
    /\ UNCHANGED <<server, page, move, faults, spoilt>>

(* A page opens on a room: the tab remembers how far it had read, and the    *)
(* probe, unless it failed, has told it the room's revision.  A page that    *)
(* could not learn its own build passes for outdated.                        *)
Init ==
    /\ log \in [1..Found -> FoundKinds]
    /\ queue = <<>>
    /\ pass \in {"good", "outdated"}
    /\ sock = "off" /\ greeting = 0 /\ wire = <<>>
    /\ projected \in Rev /\ projected <= Revision
    /\ known \in {projected, Revision}
    /\ feed = {} /\ base = projected /\ cards = 0 /\ ctx = -1
    /\ catch = AskSync(projected, -1)
    /\ fetch = NoFetch
    /\ move = [at |-> "none", base |-> 0, retried |-> FALSE, rev |-> 0]
    /\ faults = 0 /\ spoilt = FALSE

Dial   == Join \/ Refuse \/ ReadRevision \/ Welcome
Answer == BacklogHeard \/ PageHeard
Hear   == WelcomeHeard \/ GapHeard \/ FrameHeard
Reply  == TurnedAway \/ MoveDone \/ MoveRefused
Faults == BroadcastFails \/ SyncFails \/ ContextFails \/ Restart \/ TokenEnds \/ Drop

System == Decide \/ Broadcast \/ Dial \/ Answer \/ ContextHeard \/ Hear \/ Reply \/ Reauthenticate

Next == PeerCommits \/ Gesture \/ System \/ Faults

(* Of what is due (a request's answer, a frame, the next connection, the end *)
(* of a socket's life) something happens in the end; nobody need commit      *)
(* anything.                                                                 *)
Fairness == WF_vars(System)

Spec == Init /\ [][Next]_vars /\ Fairness

-----------------------------------------------------------------------------
Promise == INSTANCE RoomFeed WITH through <- projected, lines <- feed

(* The feed has no hole: every event of the room up to the watermark that    *)
(* the reader may see is shown, however frames, pages of the delta, lost     *)
(* frames and reconnects interleaved (App.tsx 366-369, 469-471).             *)
KeepsPromise == Promise!Init /\ [][Promise!Next]_(Promise!vars)

(* History is only dropped from the feed once the map shows the room at the  *)
(* revision the server had named, and, unless that very refetch was cut      *)
(* short by a failure, at every revision the page has read by then           *)
(* (App.tsx 388-390: "never silently jump over omitted events").             *)
DroppedIsOnTheMap ==
    [][base' # base => catch.rev <= ctx' /\ (faults' = faults => base' <= ctx')]_vars

(* A refetch that was not cut short ends only when the map shows every       *)
(* revision it was asked for on the way, whoever asked and whenever the      *)
(* answer was computed (spatial-store.ts 736-738).                           *)
RefetchReaches ==
    [][fetch.at = "asked" /\ fetch'.at = "idle" /\ faults' = faults => fetch.min <= ctx']_vars

(* When everything said has been heard and neither a frame nor a refetch was *)
(* lost, the map is the room's: no order of welcome, frames and answers      *)
(* loses the last refetch.                                                   *)
QuietMapIsCurrent == Quiet /\ ~spoilt => ctx = Revision

(* A page whose room falls silent ends up showing all of it, whatever was    *)
(* lost on the way: its socket is replaced, and a welcome always catches up. *)
(* The one exception is a page that was refused as outdated or unknown: it   *)
(* has stopped dialling, and waits for its reload (ws-client.ts 426-430).    *)
EventuallyCurrent ==
    <>[](\/ sock = "refused"
         \/ /\ projected = Revision /\ ctx = Revision
            /\ \A r \in 1..Revision : log[r] = "asks" => r <= cards)

(* When nothing is under way and nothing failed, whatever awaits this person *)
(* is on the page (App.tsx 487-488).                                         *)
QuietPageShowsWhatAwaits ==
    Quiet /\ ~spoilt => \A r \in 1..Revision : log[r] = "asks" => r <= cards

=============================================================================
