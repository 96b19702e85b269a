----------------------------- MODULE CommandBus -----------------------------
(* The one way into a room: submitCommand (engine.ts) and its record of     *)
(* outcomes by idempotency key.  A page that did not hear back sends the    *)
(* same body under the same key again, possibly while the first request is  *)
(* still at work.  A request looks for a recorded outcome, is validated,    *)
(* runs its handler in a transaction under the room's row lock, and         *)
(* answers; a success is recorded in that transaction, a failure after the  *)
(* rollback.                                                                *)
(*                                                                          *)
(* A body is the revision it was made for and whether it validates.  What   *)
(* the handler decides is a choice: it refuses, or appends a number of      *)
(* events.  The phase gate is one of its refusals.  Keys belong to a        *)
(* participant, so a key here stands for the pair.                          *)
EXTENDS Integers, Sequences, FiniteSets

CONSTANTS
    Requests,       \* HTTP requests at a time; one that is over makes room for another
    Keys,           \* idempotency keys
    None,           \* no key, no record
    MaxEvents,      \* bound: events one command appends
    MaxRevision,    \* bound: revisions of the room
    MaxCommands,    \* bound: commands applied
    MaxWindows,     \* bound: times a key's record may expire
    MaxFaults       \* bound: database errors and restarts

ASSUME CommandBusAssumption ==
    /\ None \notin Keys
    /\ MaxEvents \in Nat \ {0}
    /\ {MaxRevision, MaxCommands, MaxWindows, MaxFaults} \subseteq Nat

VARIABLES
    log,        \* the commands applied, in order, with the revision each led to
    table,      \* command_idempotency: per key, the recorded outcome
    window,     \* per key: how often its record has expired
    req,        \* per request: how far it is
    faults      \* faults so far

vars == <<log, table, window, req, faults>>

(* Of a body that does not validate, nothing else is read. *)
Body    == [base : 0..MaxRevision, valid : {TRUE}] \cup [base : {0}, valid : {FALSE}]
Verdict == {"applied", "refused", "stale", "mismatch", "unavailable"}
Reply   == [verdict : Verdict, revision : 0..MaxRevision]
NoReply == [verdict |-> "unavailable", revision |-> 0]

Stage == {"idle", "arrived", "locking", "storing", "rereading", "opening", "done", "lost"}

Record  == [body : Body, reply : Reply, live : BOOLEAN]
Request == [at : Stage, key : Keys \cup {None}, body : Body, reply : Reply,
            window : 0..MaxWindows]
Applied == [key : Keys \cup {None}, body : Body, window : 0..MaxWindows, to : 0..MaxRevision]

ASSUME NoRecordAssumption == None \notin Record

Idle == [at |-> "idle", key |-> None, body |-> [base |-> 0, valid |-> FALSE],
         reply |-> NoReply, window |-> 0]

TypeOK ==
    /\ log \in Seq(Applied)
    /\ table \in [Keys -> Record \cup {None}]
    /\ window \in [Keys -> 0..MaxWindows]
    /\ req \in [Requests -> Request]
    /\ faults \in 0..MaxFaults

revision == IF log = <<>> THEN 0 ELSE log[Len(log)].to

WindowOf(k) == IF k = None THEN 0 ELSE window[k]

(* expires_at > now(): an expired record still owns its primary key. *)
Recorded(k) == k # None /\ table[k] # None /\ table[k].live

-----------------------------------------------------------------------------
Init ==
    /\ log = <<>>
    /\ table = [k \in Keys |-> None]
    /\ window = [k \in Keys |-> 0]
    /\ req = [r \in Requests |-> Idle]
    /\ faults = 0

Arrive(r, k, body) ==
    /\ req[r].at \in {"idle", "done", "lost"}
    /\ body.base <= revision
    /\ req' = [req EXCEPT ![r] = [Idle EXCEPT !.at = "arrived", !.key = k, !.body = body]]
    /\ UNCHANGED <<log, table, window, faults>>

Answered(q, reply) ==
    [q EXCEPT !.at = "done", !.reply = reply, !.window = WindowOf(q.key)]

(* The recorded outcome, if the body is the one it was recorded for. *)
AnyBody(q) == table[q.key].reply                       \* mutant: the hash is not compared
Replayed(q) ==
    IF table[q.key].body = q.body THEN table[q.key].reply
    ELSE [verdict |-> "mismatch", revision |-> 0]

(* A failure is recorded if the request has a key. *)
Failing(q, verdict) ==
    LET reply == [verdict |-> verdict, revision |-> 0]
    IN  IF q.key = None THEN Answered(q, reply)
        ELSE [q EXCEPT !.at = "storing", !.reply = reply]

(* Before the transaction: a recorded outcome, or validation. *)
Precheck(r) ==
    LET q == req[r]
    IN  /\ q.at = "arrived"
        /\ req' = [req EXCEPT ![r] =
                     IF Recorded(q.key) THEN Answered(q, Replayed(q))
                     ELSE IF ~ q.body.valid THEN Failing(q, "refused")
                     ELSE [q EXCEPT !.at = "locking"]]
        /\ UNCHANGED <<log, table, window, faults>>

NotAgain(q) == FALSE                                   \* mutant: no second look under the lock
Settled(q)  == Recorded(q.key)

NotBehind(q)  == q.body.base <= revision               \* mutant: rebases silently
UpToDate(q)   == q.body.base = revision

RecordSuccess(q, record) ==
    IF q.key = None THEN UNCHANGED table
    ELSE table' = [table EXCEPT ![q.key] = record]

(* The transaction.  A command may append no event at all, and then leaves  *)
(* the revision alone.  With a step to open, the answer waits for that; a COMMIT  *)
(* whose answer is lost has applied and is reported as unavailable.         *)
Apply(r) ==
    LET q == req[r]
    IN  \E n \in 0..MaxEvents, advances, heard \in BOOLEAN :
        LET to     == revision + n
            reply  == [verdict |-> "applied", revision |-> to]
            record == [body |-> q.body, reply |-> reply, live |-> TRUE]
        IN  /\ to <= MaxRevision /\ Len(log) < MaxCommands
            /\ advances => n > 0
            /\ log' = Append(log, [key |-> q.key, body |-> q.body,
                                   window |-> WindowOf(q.key), to |-> to])
            /\ RecordSuccess(q, record)
            /\ \/ /\ heard
                  /\ req' = [req EXCEPT ![r] =
                               IF advances THEN [q EXCEPT !.at = "opening", !.reply = reply]
                               ELSE Answered(q, reply)]
                  /\ UNCHANGED faults
               \/ /\ ~ heard /\ ~ advances
                  /\ faults < MaxFaults /\ faults' = faults + 1
                  /\ req' = [req EXCEPT ![r] = Answered(q, NoReply)]

Transact(r) ==
    LET q == req[r]
    IN  /\ q.at = "locking"
        /\ \/ /\ Settled(q)
              /\ req' = [req EXCEPT ![r] = Answered(q, Replayed(q))]
              /\ UNCHANGED <<log, table, faults>>
           \/ /\ ~ Settled(q) /\ ~ UpToDate(q)
              /\ req' = [req EXCEPT ![r] = Failing(q, "stale")]
              /\ UNCHANGED <<log, table, faults>>
           \/ /\ ~ Settled(q) /\ UpToDate(q)
              /\ req' = [req EXCEPT ![r] = Failing(q, "refused")]
              /\ UNCHANGED <<log, table, faults>>
           \/ /\ ~ Settled(q) /\ UpToDate(q)
              /\ Apply(r)
        /\ UNCHANGED window

(* rememberNonMutatingOutcome: an expired record is cleared away, and the   *)
(* outcome is recorded unless another one was first.                        *)
Overwritable(q) == TRUE                                \* mutant: ON CONFLICT DO UPDATE
Free(q)         == ~ Recorded(q.key)

StoreFailure(r) ==
    LET q == req[r]
    IN  /\ q.at = "storing"
        /\ IF Free(q)
           THEN /\ table' = [table EXCEPT ![q.key] =
                               [body |-> q.body, reply |-> q.reply, live |-> TRUE]]
                /\ req' = [req EXCEPT ![r] = Answered(q, q.reply)]
           ELSE /\ req' = [req EXCEPT ![r].at = "rereading"]
                /\ UNCHANGED table
        /\ UNCHANGED <<log, window, faults>>

Reread(r) ==
    LET q == req[r]
    IN  /\ q.at = "rereading"
        /\ req' = [req EXCEPT ![r] =
                     Answered(q, IF Recorded(q.key) THEN Replayed(q) ELSE q.reply)]
        /\ UNCHANGED <<log, table, window, faults>>

(* openAdvancedStep submits what the new step is owed, as commands of their *)
(* own, and the record is brought up to the head they led to, unless that   *)
(* write fails, which nobody is told.                                       *)
SubmitOwed(r) ==
    /\ req[r].at = "opening"
    /\ revision < MaxRevision /\ Len(log) < MaxCommands
    /\ log' = Append(log, [key |-> None, body |-> [base |-> revision, valid |-> TRUE],
                           window |-> 0, to |-> revision + 1])
    /\ UNCHANGED <<table, window, req, faults>>

KnownHeads(q)  == q.reply.revision..revision

Opened(r) ==
    LET q == req[r]
    IN  /\ q.at = "opening"
        /\ \E head \in KnownHeads(q), recorded \in BOOLEAN :
            LET reply == [q.reply EXCEPT !.revision = head]
            IN  /\ req' = [req EXCEPT ![r] = Answered(q, reply)]
                /\ IF q.key = None \/ ~ recorded THEN UNCHANGED table
                   ELSE table' = [table EXCEPT ![q.key].reply = reply]
        /\ UNCHANGED <<log, window, faults>>

(* Ten minutes pass.  A record is not old enough while a request that did   *)
(* not find it is still being handled.                                      *)
Handling(k) ==
    \E r \in Requests :
        req[r].key = k /\ req[r].at \in {"locking", "storing", "rereading", "opening"}

Expire(k) ==
    /\ Recorded(k)
    /\ ~ Handling(k)
    /\ window[k] < MaxWindows
    /\ window' = [window EXCEPT ![k] = @ + 1]
    /\ table' = [table EXCEPT ![k].live = FALSE]
    /\ UNCHANGED <<log, req, faults>>

Faulty == faults < MaxFaults /\ faults' = faults + 1

(* A database error in the transaction, a lost race for the key's primary   *)
(* key among them, is rolled back, answered and not recorded; one anywhere  *)
(* else leaves the request without an answer.                               *)
DatabaseError(r) ==
    /\ Faulty
    /\ \/ /\ req[r].at = "locking"
          /\ req' = [req EXCEPT ![r] = Answered(@, NoReply)]
       \/ /\ req[r].at \in {"arrived", "storing", "rereading", "opening"}
          /\ req' = [req EXCEPT ![r].at = "lost"]
    /\ UNCHANGED <<log, table, window>>

(* What is in memory is gone; the room and the records are not. *)
Restart ==
    /\ Faulty
    /\ req' = [r \in Requests |->
                 IF req[r].at \in {"idle", "done", "lost"} THEN req[r]
                 ELSE [req[r] EXCEPT !.at = "lost"]]
    /\ UNCHANGED <<log, table, window>>

Next ==
    \/ \E r \in Requests :
        \/ \E k \in Keys \cup {None}, body \in Body : Arrive(r, k, body)
        \/ Precheck(r) \/ Transact(r) \/ StoreFailure(r) \/ Reread(r)
        \/ SubmitOwed(r) \/ Opened(r) \/ DatabaseError(r)
    \/ \E k \in Keys : Expire(k)
    \/ Restart

Spec == Init /\ [][Next]_vars

-----------------------------------------------------------------------------
(* "Ambiguous HTTP delivery cannot create a second event sequence during    *)
(* the ten-minute window": a key applies at most once in its window,        *)
(* whatever is repeated, overlaps, fails or restarts.                       *)
AtMostOnce ==
    \A i, j \in DOMAIN log :
        (log[i].key # None /\ log[i].key = log[j].key /\ log[i].window = log[j].window)
        => i = j

(* "The server applies only when it equals the current room revision": each *)
(* command was made for exactly the room it was applied to.                 *)
BuiltOnHead ==
    \A i \in DOMAIN log : log[i].body.base = (IF i = 1 THEN 0 ELSE log[i - 1].to)

(* An answer is true of the room: "applied" means that this body, under     *)
(* this key, is in the log, and any other definite answer means that no     *)
(* such command was, or within the window will be.                          *)
AppliedAs(q) ==
    {i \in DOMAIN log : /\ log[i].key = q.key /\ log[i].body = q.body
                        /\ log[i].window = q.window}

AnswersAreTrue ==
    \A r \in Requests :
        LET q == req[r]
        IN  (q.at = "done" /\ q.key # None) =>
                /\ q.reply.verdict = "applied" => AppliedAs(q) # {}
                /\ q.reply.verdict \in {"refused", "stale", "mismatch"} => AppliedAs(q) = {}

(* A recorded outcome stands until it expires; only the revision of a       *)
(* success may be brought forward.                                          *)
RecordsStand ==
    [][\A k \in Keys : Recorded(k) =>
        /\ table'[k] # None
        /\ table'[k].body = table[k].body
        /\ table'[k].reply.verdict = table[k].reply.verdict
        /\ table'[k].reply.revision >= table[k].reply.revision]_vars
=============================================================================
