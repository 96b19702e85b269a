-------------------------- MODULE CommandBusProofs --------------------------
(* Type correctness of CommandBus, the three things it promises about one   *)
(* command: it applies at most once in its key's window, on the room it was *)
(* made for, and every answer to it is true; and that a recorded outcome    *)
(* stands.                                                                  *)
(*                                                                          *)
(* None is inductive alone.  What carries them is the record: a command of  *)
(* the current window is in the log exactly when its key is recorded as     *)
(* applied, under the same body (LogIsRecorded, RecordsAreTrue), and a      *)
(* request is never answered "no" while its key could still apply, because  *)
(* the answer finds or leaves a record that lasts as long as the window     *)
(* (Honest).  That no record ever says less rests on there being one        *)
(* request at a time that opens a step under a key, whose answer so far is  *)
(* what the record says (OneOpener).                                        *)
EXTENDS CommandBus, TLAPS

(* The log entry i is the command q asked for, in q's window. *)
IsOf(q, i, l) == l[i].key = q.key /\ l[i].body = q.body /\ l[i].window = q.window

Live(k, t) == t[k] # None /\ t[k].live

Negative == {"refused", "stale", "mismatch"}

(* An entry of a window is recorded for as long as the window lasts. *)
LogIsRecorded(l, t, w) ==
    \A i \in DOMAIN l : l[i].key \in Keys =>
        /\ l[i].window <= w[l[i].key]
        /\ l[i].window = w[l[i].key] => Live(l[i].key, t)

(* A record says what the log says of its window, and for which body. *)
RecordIsTrue(k, l, t, w) ==
    Live(k, t) =>
        /\ t[k].reply.verdict \in {"applied", "refused", "stale"}
        /\ \A i \in DOMAIN l :
             (l[i].key = k /\ l[i].window = w[k])
             => t[k].reply.verdict = "applied" /\ l[i].body = t[k].body
        /\ t[k].reply.verdict = "applied" =>
             \E i \in DOMAIN l : l[i].key = k /\ l[i].window = w[k] /\ l[i].body = t[k].body

RecordsAreTrue(l, t, w) == \A k \in Keys : RecordIsTrue(k, l, t, w)

(* What a request has been told, or is about to be, it is told truly. *)
Honest(q, l, t, w) ==
    /\ q.at \in {"storing", "rereading"} =>
         q.key \in Keys /\ q.reply.verdict \in {"refused", "stale"}
    /\ q.at = "rereading" => Live(q.key, t)
    /\ q.at = "opening" =>
         /\ q.reply.verdict = "applied"
         /\ q.key \in Keys =>
              Live(q.key, t) /\ t[q.key].body = q.body /\ t[q.key].reply.verdict = "applied"
    /\ (q.at = "done" /\ q.key \in Keys) =>
         /\ q.window <= w[q.key]
         /\ q.reply.verdict = "applied" => \E i \in DOMAIN l : IsOf(q, i, l)
         /\ q.reply.verdict \in Negative =>
              /\ \A i \in DOMAIN l : ~ IsOf(q, i, l)
              /\ q.window = w[q.key] => Live(q.key, t)

Honesty == \A r \in Requests : Honest(req[r], log, table, window)

IInv ==
    /\ TypeOK
    /\ BuiltOnHead
    /\ AtMostOnce
    /\ LogIsRecorded(log, table, window)
    /\ RecordsAreTrue(log, table, window)
    /\ Honesty

-----------------------------------------------------------------------------
LEMMA RevisionInRange == ASSUME TypeOK PROVE revision \in 0..MaxRevision
<1>1. CASE log = <<>>
  BY <1>1, CommandBusAssumption DEF revision
<1>2. CASE log # <<>>
  <2>1. Len(log) \in DOMAIN log
    BY <1>2 DEF TypeOK
  <2>2. log[Len(log)] \in Applied
    BY <2>1 DEF TypeOK
  <2> QED
    BY <1>2, <2>2 DEF revision, Applied
<1> QED
  BY <1>1, <1>2

(* Answering puts a request among the answered ones, in the window of now. *)
LEMMA AnswerInType ==
    ASSUME TypeOK, NEW q \in Request, NEW reply \in Reply
    PROVE  /\ Answered(q, reply) \in Request
           /\ Answered(q, reply).at = "done"
           /\ Answered(q, reply).key = q.key
           /\ Answered(q, reply).body = q.body
           /\ Answered(q, reply).reply = reply
           /\ q.key \in Keys => Answered(q, reply).window = window[q.key]
<1>1. WindowOf(q.key) \in 0..MaxWindows
  BY CommandBusAssumption DEF WindowOf, TypeOK, Request
<1>2. q.key \in Keys => WindowOf(q.key) = window[q.key]
  BY CommandBusAssumption DEF WindowOf
<1> QED
  BY <1>1, <1>2 DEF Answered, Request, Stage

(* A recorded outcome is a true answer to whoever sends the key again. *)
LEMMA ReplayIsHonest ==
    ASSUME IInv, NEW q \in Request, Recorded(q.key)
    PROVE  /\ Answered(q, Replayed(q)) \in Request
           /\ Honest(Answered(q, Replayed(q)), log, table, window)
<1> DEFINE k == q.key
           reply == Replayed(q)
<1>1. k \in Keys /\ table[k] # None /\ table[k].live
  BY DEF Recorded, Request
<1>2. table[k] \in Record
  BY <1>1 DEF IInv, TypeOK
<1>3. reply \in Reply
  BY <1>2, CommandBusAssumption DEF Replayed, Record, Reply, Verdict
<1>4. Live(k, table)
  BY <1>1 DEF Live
<1>5. RecordIsTrue(k, log, table, window)
  BY <1>1 DEF IInv, RecordsAreTrue
<1> DEFINE a == Answered(q, reply)
<1>6. /\ a \in Request /\ a.at = "done" /\ a.key = k /\ a.body = q.body
      /\ a.reply = reply /\ a.window = window[k]
  BY <1>1, <1>3, AnswerInType DEF IInv
<1>7. window[k] \in Nat
  BY <1>1 DEF IInv, TypeOK
<1>8. reply.verdict = "applied" => \E i \in DOMAIN log : IsOf(a, i, log)
  <2> SUFFICES ASSUME reply.verdict = "applied"
               PROVE  \E i \in DOMAIN log : IsOf(a, i, log)
    OBVIOUS
  <2>1. table[k].body = q.body /\ reply = table[k].reply
    BY DEF Replayed
  <2> HIDE DEF a, reply
  <2> QED
    BY <1>4, <1>5, <1>6, <2>1 DEF IsOf, RecordIsTrue
<1>9. reply.verdict \in Negative => \A i \in DOMAIN log : ~ IsOf(a, i, log)
  <2>1. CASE table[k].body = q.body
    <3>1. reply = table[k].reply
      BY <2>1 DEF Replayed
    <3> HIDE DEF a, reply
    <3> QED
      BY <1>4, <1>5, <1>6, <3>1 DEF IsOf, RecordIsTrue, Negative
  <2>2. CASE table[k].body # q.body
    <3> HIDE DEF a, reply
    <3> QED
      BY <1>4, <1>5, <1>6, <2>2 DEF IsOf, RecordIsTrue
  <2> QED
    BY <2>1, <2>2
<1> HIDE DEF a
<1>10. Honest(a, log, table, window)
  BY <1>4, <1>6, <1>7, <1>8, <1>9 DEF Honest
<1> QED
  BY <1>6, <1>10 DEF a

(* A failure is told at once to whoever sent no key, else recorded first. *)
LEMMA FailingIsHonest ==
    ASSUME IInv, NEW q \in Request, NEW verdict \in {"refused", "stale"}
    PROVE  /\ Failing(q, verdict) \in Request
           /\ Honest(Failing(q, verdict), log, table, window)
<1> DEFINE reply == [verdict |-> verdict, revision |-> 0]
<1>1. reply \in Reply
  BY CommandBusAssumption DEF Reply, Verdict
<1>2. CASE q.key = None
  <2>1. Failing(q, verdict) = Answered(q, reply)
    BY <1>2 DEF Failing
  <2> HIDE DEF reply
  <2> QED
    BY <1>1, <1>2, <2>1, AnswerInType, CommandBusAssumption DEF Honest, IInv
<1>3. CASE q.key # None
  BY <1>1, <1>3 DEF Failing, Request, Stage, Honest
<1> QED
  BY <1>2, <1>3

(* An answer that says nothing is true whatever happened. *)
LEMMA NoReplyIsHonest ==
    ASSUME IInv, NEW q \in Request
    PROVE  /\ Answered(q, NoReply) \in Request
           /\ Honest(Answered(q, NoReply), log, table, window)
<1>1. NoReply \in Reply /\ NoReply.verdict = "unavailable"
  BY CommandBusAssumption DEF NoReply, Reply, Verdict
<1>2. q.key \in Keys => window[q.key] \in Nat
  BY DEF IInv, TypeOK
<1> QED
  BY <1>1, <1>2, AnswerInType DEF Honest, Negative, IInv

(* A step of one request that leaves room and records alone. *)
LEMMA OneRequestMoves ==
    ASSUME IInv, UNCHANGED <<log, table, window>>, faults' \in 0..MaxFaults,
           NEW r \in Requests, NEW q \in Request,
           Honest(q, log, table, window),
           req' = [req EXCEPT ![r] = q]
    PROVE  IInv'
<1>1. TypeOK'
  BY DEF IInv, TypeOK
<1>2. BuiltOnHead' /\ AtMostOnce'
  BY DEF IInv, BuiltOnHead, AtMostOnce
<1>3. LogIsRecorded(log, table, window)' /\ RecordsAreTrue(log, table, window)'
  BY DEF IInv
<1>4. Honesty'
  <2> SUFFICES ASSUME NEW s \in Requests
               PROVE  Honest(req'[s], log, table, window)
    BY DEF Honesty
  <2> QED
    BY DEF IInv, Honesty, TypeOK
<1> QED
  BY <1>1, <1>2, <1>3, <1>4 DEF IInv

LEMMA InitEstablishes == Init => IInv
<1> SUFFICES ASSUME Init PROVE IInv
  OBVIOUS
<1> USE DEF Init
<1>1. Idle \in Request
  BY CommandBusAssumption DEF Idle, Request, Stage, Body, NoReply, Reply, Verdict
<1>2. TypeOK
  BY <1>1, CommandBusAssumption DEF TypeOK
<1>3. DOMAIN log = {}
  OBVIOUS
<1>4. BuiltOnHead /\ AtMostOnce /\ LogIsRecorded(log, table, window)
  BY <1>3 DEF BuiltOnHead, AtMostOnce, LogIsRecorded
<1>5. RecordsAreTrue(log, table, window)
  BY DEF RecordsAreTrue, RecordIsTrue, Live
<1>6. Honesty
  BY DEF Honesty, Honest, Idle
<1> QED
  BY <1>2, <1>4, <1>5, <1>6 DEF IInv

LEMMA ArriveKeeps ==
    ASSUME IInv, NEW r \in Requests, NEW k \in Keys \cup {None}, NEW body \in Body,
           Arrive(r, k, body)
    PROVE  IInv'
<1> DEFINE q == [Idle EXCEPT !.at = "arrived", !.key = k, !.body = body]
<1>1. q \in Request
  <2>1. 0 \in 0..MaxWindows /\ NoReply \in Reply
    BY CommandBusAssumption DEF NoReply, Reply, Verdict
  <2>2. Idle \in Request
    BY <2>1, CommandBusAssumption DEF Idle, Request, Stage, Body
  <2> QED
    BY <2>2 DEF Request, Stage
<1>2. Honest(q, log, table, window)
  BY DEF Honest, Idle
<1>3. /\ req' = [req EXCEPT ![r] = q]
      /\ UNCHANGED <<log, table, window>> /\ faults' = faults
  BY DEF Arrive
<1>4. faults' \in 0..MaxFaults
  BY <1>3 DEF IInv, TypeOK
<1> HIDE DEF q
<1> QED
  BY <1>1, <1>2, <1>3, <1>4, OneRequestMoves

LEMMA PrecheckKeeps == ASSUME IInv, NEW r \in Requests, Precheck(r) PROVE IInv'
<1> DEFINE q == req[r]
<1>1. q \in Request /\ faults \in 0..MaxFaults /\ Honest(q, log, table, window)
  BY DEF IInv, TypeOK, Honesty
<1>2. UNCHANGED <<log, table, window>> /\ faults' = faults
  BY DEF Precheck
<1>3. CASE Recorded(q.key)
  <2>1. req' = [req EXCEPT ![r] = Answered(q, Replayed(q))]
    BY <1>3 DEF Precheck
  <2> HIDE DEF q
  <2> QED
    BY <1>1, <1>2, <1>3, <2>1, ReplayIsHonest, OneRequestMoves
<1>4. CASE ~ Recorded(q.key) /\ ~ q.body.valid
  <2>1. req' = [req EXCEPT ![r] = Failing(q, "refused")]
    BY <1>4 DEF Precheck
  <2> HIDE DEF q
  <2> QED
    BY <1>1, <1>2, <2>1, FailingIsHonest, OneRequestMoves
<1>5. CASE ~ Recorded(q.key) /\ q.body.valid
  <2> DEFINE p == [q EXCEPT !.at = "locking"]
  <2>1. req' = [req EXCEPT ![r] = p]
    BY <1>5 DEF Precheck
  <2>2. p \in Request /\ Honest(p, log, table, window)
    BY <1>1 DEF Request, Stage, Honest
  <2> HIDE DEF p
  <2> QED
    BY <1>1, <1>2, <2>1, <2>2, OneRequestMoves
<1> QED
  BY <1>3, <1>4, <1>5

LEMMA RereadKeeps == ASSUME IInv, NEW r \in Requests, Reread(r) PROVE IInv'
<1> DEFINE q == req[r]
<1>1. /\ q \in Request /\ faults \in 0..MaxFaults
      /\ q.at = "rereading" /\ Honest(q, log, table, window)
  BY DEF IInv, TypeOK, Honesty, Reread
<1>2. UNCHANGED <<log, table, window>> /\ faults' = faults
  BY DEF Reread
<1>3. Recorded(q.key)
  BY <1>1, CommandBusAssumption DEF Honest, Live, Recorded
<1>4. req' = [req EXCEPT ![r] = Answered(q, Replayed(q))]
  BY <1>3 DEF Reread
<1> HIDE DEF q
<1> QED
  BY <1>1, <1>2, <1>3, <1>4, ReplayIsHonest, OneRequestMoves

LEMMA DatabaseErrorKeeps == ASSUME IInv, NEW r \in Requests, DatabaseError(r) PROVE IInv'
<1> DEFINE q == req[r]
           p == [q EXCEPT !.at = "lost"]
<1>1. q \in Request /\ Honest(q, log, table, window)
  BY DEF IInv, TypeOK, Honesty
<1>2. UNCHANGED <<log, table, window>> /\ faults' \in 0..MaxFaults
  BY CommandBusAssumption DEF DatabaseError, Faulty, IInv, TypeOK
<1>3. CASE req' = [req EXCEPT ![r] = Answered(q, NoReply)]
  <2> HIDE DEF q
  <2> QED
    BY <1>1, <1>2, <1>3, NoReplyIsHonest, OneRequestMoves
<1>4. CASE req' = [req EXCEPT ![r] = p]
  <2>1. p \in Request /\ Honest(p, log, table, window)
    BY <1>1 DEF Request, Stage, Honest
  <2> HIDE DEF p
  <2> QED
    BY <1>2, <1>4, <2>1, OneRequestMoves
<1>5. req' = [req EXCEPT ![r] = Answered(q, NoReply)] \/ req' = [req EXCEPT ![r] = p]
  BY DEF DatabaseError
<1> QED
  BY <1>3, <1>4, <1>5

(* A request that is lost has been told nothing. *)
LEMMA LostIsHonest ==
    ASSUME NEW q \in Request
    PROVE  /\ [q EXCEPT !.at = "lost"] \in Request
           /\ Honest([q EXCEPT !.at = "lost"], log, table, window)
  BY DEF Request, Stage, Honest

LEMMA RestartKeeps == ASSUME IInv, Restart PROVE IInv'
<1>1. UNCHANGED <<log, table, window>> /\ faults' \in 0..MaxFaults
  BY CommandBusAssumption DEF Restart, Faulty, IInv, TypeOK
<1>2. \A r \in Requests : req'[r] \in Request /\ Honest(req'[r], log, table, window)
  BY LostIsHonest DEF Restart, IInv, TypeOK, Honesty
<1>3. req' \in [Requests -> Request]
  BY <1>2 DEF Restart
<1>4. TypeOK'
  BY <1>1, <1>3 DEF IInv, TypeOK
<1>5. BuiltOnHead' /\ AtMostOnce'
  BY <1>1 DEF IInv, BuiltOnHead, AtMostOnce
<1>6. LogIsRecorded(log, table, window)' /\ RecordsAreTrue(log, table, window)'
  BY <1>1 DEF IInv
<1>7. Honesty'
  BY <1>1, <1>2 DEF Honesty
<1> QED
  BY <1>4, <1>5, <1>6, <1>7 DEF IInv

-----------------------------------------------------------------------------
(* A command reaches the log: one without a key, or one whose key has no    *)
(* record and gets one with it.                                             *)
LEMMA LogGrows ==
    ASSUME IInv, NEW e \in Applied,
           e.body.base = revision,
           log' = Append(log, e), window' = window, table' \in [Keys -> Record \cup {None}],
           \A k \in Keys : k # e.key => table'[k] = table[k],
           e.key \in Keys =>
             /\ e.window = window[e.key]
             /\ ~ Live(e.key, table)
             /\ Live(e.key, table')
             /\ table'[e.key].body = e.body
             /\ table'[e.key].reply.verdict = "applied"
    PROVE  /\ BuiltOnHead' /\ AtMostOnce'
           /\ LogIsRecorded(log', table', window') /\ RecordsAreTrue(log', table', window')
           /\ \A q \in Request : Honest(q, log, table, window)
                                 => Honest(q, log', table', window')
<1> DEFINE n == Len(log)
<1>1. /\ n \in Nat /\ DOMAIN log = 1..n /\ DOMAIN log' = 1..(n + 1)
      /\ log'[n + 1] = e
      /\ \A i \in 1..n : log'[i] = log[i] /\ log[i] \in Applied
  BY DEF IInv, TypeOK
<1>2. n = 0 <=> log = <<>>
  BY DEF IInv, TypeOK
<1>3. /\ window \in [Keys -> 0..MaxWindows]
      /\ \A k \in Keys : window[k] \in Nat
  BY DEF IInv, TypeOK
<1>4. \A i \in 1..n : e.key \in Keys => ~ (log[i].key = e.key /\ log[i].window = e.window)
  BY <1>1 DEF IInv, LogIsRecorded
<1>5. revision = IF n = 0 THEN 0 ELSE log[n].to
  BY <1>2 DEF revision
<1>6. \A i \in 1..n : log[i].body.base = (IF i = 1 THEN 0 ELSE log[i - 1].to)
  BY <1>1 DEF IInv, BuiltOnHead
<1>7. IInv
  OBVIOUS
<1> HIDE DEF n
<1>8. BuiltOnHead'
  <2> SUFFICES ASSUME NEW i \in 1..(n + 1)
               PROVE  log'[i].body.base = (IF i = 1 THEN 0 ELSE log'[i - 1].to)
    BY <1>1 DEF BuiltOnHead
  <2>1. CASE i = n + 1
    BY <2>1, <1>1, <1>5
  <2>2. CASE i \in 1..n
    BY <2>2, <1>1, <1>6
  <2> QED
    BY <2>1, <2>2, <1>1
<1>9. AtMostOnce'
  <2> SUFFICES ASSUME NEW i \in 1..(n + 1), NEW j \in 1..(n + 1),
                      log'[i].key # None, log'[i].key = log'[j].key,
                      log'[i].window = log'[j].window
               PROVE  i = j
    BY <1>1 DEF AtMostOnce
  <2>1. e.key \in Keys \/ e.key = None
    BY DEF Applied
  <2>2. CASE i \in 1..n /\ j \in 1..n
    BY <2>2, <1>1, <1>7 DEF IInv, AtMostOnce
  <2>3. CASE i \in 1..n /\ j = n + 1
    BY <2>1, <2>3, <1>1, <1>4
  <2>4. CASE i = n + 1 /\ j \in 1..n
    BY <2>1, <2>4, <1>1, <1>4
  <2> QED
    BY <2>2, <2>3, <2>4, <1>1
<1>10. LogIsRecorded(log', table', window')
  <2> SUFFICES ASSUME NEW i \in 1..(n + 1), log'[i].key \in Keys
               PROVE  /\ log'[i].window <= window[log'[i].key]
                      /\ log'[i].window = window[log'[i].key] => Live(log'[i].key, table')
    BY <1>1 DEF LogIsRecorded
  <2>1. CASE i = n + 1
    BY <2>1, <1>1, <1>3
  <2>2. CASE i \in 1..n
    <3>1. CASE log[i].key = e.key
      BY <2>2, <3>1, <1>1, <1>7 DEF IInv, LogIsRecorded
    <3>2. CASE log[i].key # e.key
      BY <2>2, <3>2, <1>1, <1>7 DEF IInv, LogIsRecorded, Live
    <3> QED
      BY <3>1, <3>2
  <2> QED
    BY <2>1, <2>2, <1>1
<1>11. RecordsAreTrue(log', table', window')
  <2> SUFFICES ASSUME NEW k \in Keys PROVE RecordIsTrue(k, log', table', window')
    BY DEF RecordsAreTrue
  <2>1. RecordIsTrue(k, log, table, window)
    BY <1>7 DEF IInv, RecordsAreTrue
  <2>2. CASE k = e.key
    <3>1. n + 1 \in DOMAIN log'
      BY <1>1
    <3>2. \A i \in DOMAIN log' :
            (log'[i].key = k /\ log'[i].window = window[k]) => log'[i].body = e.body
      BY <2>2, <1>1, <1>4
    <3> QED
      BY <2>2, <3>1, <3>2, <1>1 DEF RecordIsTrue
  <2>3. CASE k # e.key
    <3>1. Live(k, table') => Live(k, table) /\ table'[k] = table[k]
      BY <2>3 DEF Live
    <3>2. \A i \in DOMAIN log' : log'[i].key = k => i \in DOMAIN log /\ log'[i] = log[i]
      BY <2>3, <1>1
    <3>3. \A i \in DOMAIN log : i \in DOMAIN log' /\ log'[i] = log[i]
      BY <1>1
    <3> QED
      BY <2>1, <3>1, <3>2, <3>3 DEF RecordIsTrue
  <2> QED
    BY <2>2, <2>3
<1>12. \A q \in Request : Honest(q, log, table, window) => Honest(q, log', table', window')
  <2> SUFFICES ASSUME NEW q \in Request, Honest(q, log, table, window)
               PROVE  Honest(q, log', table', window')
    OBVIOUS
  <2>1. \A i \in DOMAIN log : i \in DOMAIN log' /\ log'[i] = log[i]
    BY <1>1
  <2>2. CASE q.key \in Keys /\ q.key = e.key
    <3>1. q.at = "done" /\ q.reply.verdict \in Negative => q.window < window[q.key]
      BY <2>2, <1>3 DEF Honest, Request
    <3>2. q.at = "done" /\ q.reply.verdict \in Negative => \A i \in DOMAIN log' : ~ IsOf(q, i, log')
      BY <2>2, <3>1, <1>1, <1>3 DEF Honest, IsOf, Request
    <3> QED
      BY <2>1, <2>2, <3>2, <1>3 DEF Honest, IsOf
  <2>3. CASE q.key \in Keys /\ q.key # e.key
    <3>1. table'[q.key] = table[q.key]
      BY <2>3
    <3>2. \A i \in DOMAIN log' : IsOf(q, i, log') => i \in DOMAIN log /\ IsOf(q, i, log)
      BY <2>3, <1>1 DEF IsOf
    <3> QED
      BY <2>1, <2>3, <3>1, <3>2 DEF Honest, IsOf, Live
  <2>4. CASE q.key \notin Keys
    BY <2>4 DEF Honest
  <2> QED
    BY <2>2, <2>3, <2>4
<1> QED
  BY <1>8, <1>9, <1>10, <1>11, <1>12

LEMMA ApplyKeeps ==
    ASSUME IInv, NEW r \in Requests, req[r].at = "locking", ~ Settled(req[r]),
           UpToDate(req[r]), Apply(r), UNCHANGED window
    PROVE  IInv'
<1> DEFINE q == req[r]
           k == q.key
<1>1. /\ q \in Request /\ revision \in 0..MaxRevision
      /\ faults \in 0..MaxFaults /\ Honest(q, log, table, window)
      /\ q.at = "locking" /\ ~ Recorded(k) /\ q.body.base = revision
  BY RevisionInRange DEF IInv, TypeOK, Honesty, Settled, UpToDate
<1>2. PICK n \in 0..MaxEvents, advances \in BOOLEAN, heard \in BOOLEAN :
        LET to     == revision + n
            reply  == [verdict |-> "applied", revision |-> to]
            record == [body |-> q.body, reply |-> reply, live |-> TRUE]
        IN  /\ to <= MaxRevision /\ Len(log) < MaxCommands
            /\ advances => n > 0
            /\ log' = Append(log, [key |-> k, body |-> q.body,
                                   window |-> WindowOf(k), to |-> to])
            /\ RecordSuccess(q, record)
            /\ \/ /\ heard
                  /\ req' = [req EXCEPT ![r] =
                               IF advances THEN [q EXCEPT !.at = "opening", !.reply = reply]
                               ELSE Answered(q, reply)]
                  /\ UNCHANGED faults
               \/ /\ ~ heard /\ ~ advances
                  /\ faults < MaxFaults /\ faults' = faults + 1
                  /\ req' = [req EXCEPT ![r] = Answered(q, NoReply)]
  BY DEF Apply
<1> DEFINE to     == revision + n
           reply  == [verdict |-> "applied", revision |-> to]
           record == [body |-> q.body, reply |-> reply, live |-> TRUE]
           e      == [key |-> k, body |-> q.body, window |-> WindowOf(k), to |-> to]
<1>3. to \in 0..MaxRevision /\ WindowOf(k) \in 0..MaxWindows /\ q.body \in Body
  BY <1>1, <1>2, CommandBusAssumption DEF WindowOf, IInv, TypeOK, Request
<1>4. k \in Keys \cup {None}
  BY <1>1 DEF Request
<1> HIDE DEF to
<1>5. e \in Applied /\ reply \in Reply
  BY <1>3, <1>4 DEF Applied, Reply, Verdict
<1>6. record \in Record /\ record.body = q.body /\ record.live = TRUE
      /\ record.reply.verdict = "applied"
  BY <1>3, <1>5 DEF Record
<1>7. /\ e.body = q.body /\ e.key = k
      /\ k \in Keys => e.window = window[k] /\ ~ Live(k, table)
  BY <1>1, CommandBusAssumption DEF WindowOf, Recorded, Live
<1>8. /\ log' = Append(log, e) /\ RecordSuccess(q, record) /\ window' = window
      /\ faults' \in 0..MaxFaults
  <2>1. log' = Append(log, e) /\ RecordSuccess(q, record)
    BY <1>2 DEF to
  <2>2. faults' = faults \/ (faults < MaxFaults /\ faults' = faults + 1)
    BY <1>2
  <2> QED
    BY <2>1, <2>2, <1>1, CommandBusAssumption
<1>9. \/ req' = [req EXCEPT ![r] = [q EXCEPT !.at = "opening", !.reply = reply]]
      \/ req' = [req EXCEPT ![r] = Answered(q, reply)]
      \/ req' = [req EXCEPT ![r] = Answered(q, NoReply)]
  BY <1>2 DEF to
<1> HIDE DEF record, reply, e, q
<1>10. /\ table' \in [Keys -> Record \cup {None}]
       /\ \A j \in Keys : j # k => table'[j] = table[j]
       /\ k \in Keys => table'[k] = record /\ record # None
  <2>1. table \in [Keys -> Record \cup {None}]
    BY DEF IInv, TypeOK
  <2>2. CASE k = None
    BY <2>1, <2>2, <1>8, CommandBusAssumption DEF RecordSuccess
  <2>3. CASE k # None
    <3>1. table' = [table EXCEPT ![k] = record] /\ k \in Keys
      BY <2>3, <1>4, <1>8 DEF RecordSuccess
    <3>2. record # None
      BY <1>6, NoRecordAssumption
    <3> QED
      BY <3>1, <3>2, <2>1, <1>6
  <2> QED
    BY <2>2, <2>3
<1>11. k \in Keys => Live(k, table') /\ table'[k] = record
  BY <1>6, <1>10 DEF Live
<1>12. /\ BuiltOnHead' /\ AtMostOnce'
       /\ LogIsRecorded(log', table', window') /\ RecordsAreTrue(log', table', window')
       /\ \A p \in Request : Honest(p, log, table, window)
                             => Honest(p, log', table', window')
  BY <1>1, <1>5, <1>6, <1>7, <1>8, <1>10, <1>11, LogGrows
<1>13. req'[r] \in Request /\ Honest(req'[r], log', table', window')
  <2>1. req \in [Requests -> Request]
    BY DEF IInv, TypeOK
  <2>2. reply.verdict = "applied"
    BY DEF reply
  <2>3. CASE req' = [req EXCEPT ![r] = [q EXCEPT !.at = "opening", !.reply = reply]]
    <3> DEFINE p == [q EXCEPT !.at = "opening", !.reply = reply]
    <3>1. p \in Request /\ p.at = "opening" /\ p.key = k /\ p.body = q.body /\ p.reply = reply
      BY <1>1, <1>5 DEF Request, Stage
    <3>2. req'[r] = p
      BY <2>1, <2>3
    <3> HIDE DEF p
    <3> QED
      BY <3>1, <3>2, <2>2, <1>6, <1>11 DEF Honest
  <2>4. CASE req' = [req EXCEPT ![r] = Answered(q, reply)]
    <3> DEFINE p == Answered(q, reply)
    <3>1. /\ p \in Request /\ p.at = "done" /\ p.key = k /\ p.body = q.body /\ p.reply = reply
          /\ k \in Keys => p.window = window[k]
      BY <1>1, <1>5, AnswerInType DEF IInv
    <3>2. req'[r] = p
      BY <2>1, <2>4
    <3> HIDE DEF p
    <3>3. Len(log) + 1 \in DOMAIN log' /\ log'[Len(log) + 1] = e
      BY <1>5, <1>8 DEF IInv, TypeOK
    <3>4. k \in Keys => IsOf(p, Len(log) + 1, log')
      BY <3>1, <3>3, <1>7 DEF IsOf
    <3>5. k \in Keys => p.window <= window'[k]
      BY <3>1, <1>8 DEF IInv, TypeOK
    <3> QED
      BY <3>1, <3>2, <3>3, <3>4, <3>5, <2>2 DEF Honest, Negative
  <2>5. CASE req' = [req EXCEPT ![r] = Answered(q, NoReply)]
    <3>1. Answered(q, NoReply) \in Request /\ Honest(Answered(q, NoReply), log, table, window)
      BY <1>1, NoReplyIsHonest
    <3>2. req'[r] = Answered(q, NoReply)
      BY <2>1, <2>5
    <3> QED
      BY <3>1, <3>2, <1>12
  <2> QED
    BY <2>3, <2>4, <2>5, <1>9
<1>14. req' \in [Requests -> Request] /\ \A s \in Requests : s # r => req'[s] = req[s]
  <2>1. req \in [Requests -> Request]
    BY DEF IInv, TypeOK
  <2> QED
    BY <2>1, <1>9, <1>13
<1>15. TypeOK'
  <2>1. log' \in Seq(Applied)
    BY <1>5, <1>8 DEF IInv, TypeOK
  <2> QED
    BY <2>1, <1>8, <1>10, <1>14 DEF IInv, TypeOK
<1>16. Honesty'
  <2> SUFFICES ASSUME NEW s \in Requests PROVE Honest(req'[s], log', table', window')
    BY DEF Honesty
  <2>1. CASE s = r
    BY <2>1, <1>13
  <2>2. CASE s # r
    <3>1. req[s] \in Request /\ Honest(req[s], log, table, window)
      BY DEF IInv, TypeOK, Honesty
    <3> QED
      BY <2>2, <3>1, <1>12, <1>14
  <2> QED
    BY <2>1, <2>2
<1> QED
  BY <1>12, <1>15, <1>16 DEF IInv

LEMMA TransactKeeps == ASSUME IInv, NEW r \in Requests, Transact(r) PROVE IInv'
<1> DEFINE q == req[r]
<1>1. q \in Request /\ faults \in 0..MaxFaults
  BY DEF IInv, TypeOK
<1>2. CASE Settled(q) /\ ~ Apply(r)
  <2>1. /\ req' = [req EXCEPT ![r] = Answered(q, Replayed(q))]
        /\ UNCHANGED <<log, table, window, faults>>
    BY <1>2 DEF Transact
  <2>2. Recorded(q.key)
    BY <1>2 DEF Settled
  <2> HIDE DEF q
  <2> QED
    BY <1>1, <2>1, <2>2, ReplayIsHonest, OneRequestMoves
<1>3. CASE ~ Settled(q) /\ \E verdict \in {"refused", "stale"} :
             /\ req' = [req EXCEPT ![r] = Failing(q, verdict)]
             /\ UNCHANGED <<log, table, window, faults>>
  <2> HIDE DEF q
  <2> QED
    BY <1>1, <1>3, FailingIsHonest, OneRequestMoves
<1>4. CASE ~ Settled(q) /\ UpToDate(q) /\ Apply(r)
  BY <1>4, ApplyKeeps DEF Transact
<1>5. CASE Settled(q) /\ Apply(r)
  <2>1. /\ req' = [req EXCEPT ![r] = Answered(q, Replayed(q))]
        /\ UNCHANGED <<log, table, window, faults>>
    BY <1>5 DEF Transact
  <2>2. Recorded(q.key)
    BY <1>5 DEF Settled
  <2> HIDE DEF q
  <2> QED
    BY <1>1, <2>1, <2>2, ReplayIsHonest, OneRequestMoves
<1> QED
  BY <1>2, <1>3, <1>4, <1>5 DEF Transact

LEMMA StoreFailureKeeps == ASSUME IInv, NEW r \in Requests, StoreFailure(r) PROVE IInv'
<1> DEFINE q == req[r]
           k == q.key
<1>1. /\ q \in Request /\ Honest(q, log, table, window) /\ q.at = "storing"
      /\ k \in Keys /\ q.reply.verdict \in {"refused", "stale"}
  BY DEF IInv, TypeOK, Honesty, StoreFailure, Honest
<1>2. /\ UNCHANGED <<log, window>> /\ faults' = faults /\ faults \in 0..MaxFaults
      /\ k # None
  BY <1>1, CommandBusAssumption DEF IInv, TypeOK, StoreFailure
<1>3. CASE Recorded(k)
  <2> DEFINE p == [q EXCEPT !.at = "rereading"]
  <2>1. req' = [req EXCEPT ![r] = p] /\ UNCHANGED table
    <3>1. req' = [req EXCEPT ![r].at = "rereading"] /\ UNCHANGED table
      BY <1>3 DEF StoreFailure, Free
    <3>2. [req EXCEPT ![r].at = "rereading"] = [req EXCEPT ![r] = p]
      OBVIOUS
    <3> QED
      BY <3>1, <3>2
  <2>2. Live(k, table)
    BY <1>3 DEF Recorded, Live
  <2>3. /\ p \in Request /\ p.at = "rereading" /\ p.key = k /\ p.reply = q.reply
    BY <1>1 DEF Request, Stage
  <2> HIDE DEF p, q
  <2>4. Honest(p, log, table, window)
    BY <1>1, <2>2, <2>3 DEF Honest
  <2> QED
    BY <1>2, <2>1, <2>3, <2>4, OneRequestMoves
<1>4. CASE ~ Recorded(k)
  <2> DEFINE record == [body |-> q.body, reply |-> q.reply, live |-> TRUE]
             p == Answered(q, q.reply)
  <2>1. table' = [table EXCEPT ![k] = record] /\ req' = [req EXCEPT ![r] = p]
    BY <1>4 DEF StoreFailure, Free
  <2>2. /\ record \in Record /\ record # None /\ record.live = TRUE
        /\ record.reply = q.reply
    <3>1. q.body \in Body /\ q.reply \in Reply
      BY <1>1 DEF Request
    <3>2. record \in Record
      BY <3>1 DEF Record
    <3> QED
      BY <3>2, NoRecordAssumption
  <2>3. /\ p \in Request /\ p.at = "done" /\ p.key = k /\ p.reply = q.reply
        /\ p.window = window[k] /\ window[k] \in Nat
    BY <1>1, AnswerInType DEF Request, IInv, TypeOK
  <2>4. ~ Live(k, table)
    BY <1>2, <1>4 DEF Recorded, Live
  <2> HIDE DEF record, p, q
  <2>5. /\ table \in [Keys -> Record \cup {None}] /\ req \in [Requests -> Request]
    BY DEF IInv, TypeOK
  <2>6. /\ table' \in [Keys -> Record \cup {None}] /\ table'[k] = record
        /\ \A j \in Keys : j # k => table'[j] = table[j]
    BY <1>1, <2>1, <2>2, <2>5
  <2>7. /\ req' \in [Requests -> Request] /\ req'[r] = p
        /\ \A s \in Requests : s # r => req'[s] = req[s]
    BY <2>1, <2>3, <2>5
  <2>8. Live(k, table')
    BY <2>2, <2>6 DEF Live
  <2>9. \A i \in DOMAIN log : ~ (log[i].key = k /\ log[i].window = window[k])
    BY <1>1, <2>4 DEF IInv, LogIsRecorded
  <2>10. TypeOK' /\ BuiltOnHead' /\ AtMostOnce'
    BY <1>2, <2>6, <2>7 DEF IInv, TypeOK, BuiltOnHead, AtMostOnce
  <2>11. LogIsRecorded(log', table', window')
    BY <1>2, <2>6, <2>9 DEF IInv, LogIsRecorded, Live
  <2>12. RecordsAreTrue(log', table', window')
    <3> SUFFICES ASSUME NEW j \in Keys PROVE RecordIsTrue(j, log', table', window')
      BY DEF RecordsAreTrue
    <3>1. CASE j = k
      BY <3>1, <1>1, <1>2, <2>2, <2>6, <2>9 DEF RecordIsTrue
    <3>2. CASE j # k
      BY <3>2, <1>2, <2>6 DEF IInv, RecordsAreTrue, RecordIsTrue, Live
    <3> QED
      BY <3>1, <3>2
  <2>13. Honest(p, log', table', window')
    BY <1>1, <1>2, <2>3, <2>8, <2>9 DEF Honest, IsOf, Negative
  <2>14. Honesty'
    <3> SUFFICES ASSUME NEW s \in Requests PROVE Honest(req'[s], log', table', window')
      BY DEF Honesty
    <3>1. CASE s = r
      BY <3>1, <2>7, <2>13
    <3>2. CASE s # r
      <4>1. Honest(req[s], log, table, window) /\ req'[s] = req[s]
        BY <3>2, <2>7 DEF IInv, Honesty
      <4>2. CASE req[s].key = k
        BY <4>1, <4>2, <1>2, <2>4, <2>8 DEF Honest, IsOf
      <4>3. CASE req[s].key # k
        BY <4>1, <4>3, <1>2, <2>6 DEF Honest, IsOf, Live
      <4> QED
        BY <4>2, <4>3
    <3> QED
      BY <3>1, <3>2
  <2> QED
    BY <2>10, <2>11, <2>12, <2>14 DEF IInv
<1> QED
  BY <1>3, <1>4

LEMMA SubmitOwedKeeps == ASSUME IInv, NEW r \in Requests, SubmitOwed(r) PROVE IInv'
<1> DEFINE e == [key |-> None, body |-> [base |-> revision, valid |-> TRUE],
                 window |-> 0, to |-> revision + 1]
<1>1. revision \in 0..MaxRevision /\ revision < MaxRevision /\ MaxRevision \in Nat
  BY RevisionInRange, CommandBusAssumption DEF SubmitOwed, IInv
<1>2. revision + 1 \in 0..MaxRevision /\ 0 \in 0..MaxWindows
  BY <1>1, CommandBusAssumption
<1>3. e \in Applied /\ e.body.base = revision /\ e.key = None
  BY <1>1, <1>2 DEF Applied, Body
<1>4. log' = Append(log, e) /\ UNCHANGED <<table, window, req, faults>>
  BY DEF SubmitOwed
<1> HIDE DEF e
<1>5. table' \in [Keys -> Record \cup {None}] /\ \A k \in Keys : table'[k] = table[k]
  BY <1>4 DEF IInv, TypeOK
<1>6. e.key \notin Keys
  BY <1>3, CommandBusAssumption
<1>7. /\ BuiltOnHead' /\ AtMostOnce'
      /\ LogIsRecorded(log', table', window') /\ RecordsAreTrue(log', table', window')
      /\ \A q \in Request : Honest(q, log, table, window)
                            => Honest(q, log', table', window')
  BY <1>3, <1>4, <1>5, <1>6, LogGrows
<1>8. TypeOK'
  BY <1>3, <1>4 DEF IInv, TypeOK
<1>9. Honesty'
  BY <1>4, <1>7 DEF IInv, TypeOK, Honesty
<1> QED
  BY <1>7, <1>8, <1>9 DEF IInv

(* A step that brings forward at most a record's revision, and answers one  *)
(* request.                                                                 *)
LEMMA OpenedKeeps == ASSUME IInv, NEW r \in Requests, Opened(r) PROVE IInv'
<1> DEFINE q == req[r]
           k == q.key
<1>1. /\ q \in Request /\ Honest(q, log, table, window) /\ q.at = "opening"
      /\ q.reply.verdict = "applied"
      /\ k \in Keys => Live(k, table) /\ table[k].body = q.body
                        /\ table[k].reply.verdict = "applied"
      /\ revision \in 0..MaxRevision /\ faults \in 0..MaxFaults
  BY RevisionInRange DEF IInv, TypeOK, Honesty, Opened, Honest
<1>2. PICK head \in KnownHeads(q), recorded \in BOOLEAN :
        /\ req' = [req EXCEPT ![r] = Answered(q, [q.reply EXCEPT !.revision = head])]
        /\ IF k = None \/ ~ recorded THEN UNCHANGED table
           ELSE table' = [table EXCEPT ![k].reply = [q.reply EXCEPT !.revision = head]]
  BY DEF Opened
<1> DEFINE reply == [q.reply EXCEPT !.revision = head]
           p == Answered(q, reply)
<1>3. reply \in Reply /\ reply.verdict = "applied"
  <2>1. head \in 0..MaxRevision
    <3>1. q.reply.revision \in 0..MaxRevision /\ head \in q.reply.revision..revision
      BY <1>1 DEF KnownHeads, Request, Reply
    <3> QED
      BY <3>1, <1>1, CommandBusAssumption
  <2> QED
    BY <1>1, <2>1 DEF Request, Reply
<1>4. UNCHANGED <<log, window, faults>> /\ req' = [req EXCEPT ![r] = p]
  BY <1>2 DEF Opened
<1>5. table \in [Keys -> Record \cup {None}] /\ req \in [Requests -> Request]
  BY DEF IInv, TypeOK
<1>6. /\ table' \in [Keys -> Record \cup {None}]
      /\ \A j \in Keys : Live(j, table') <=> Live(j, table)
      /\ \A j \in Keys : Live(j, table) =>
           /\ table'[j].body = table[j].body
           /\ table'[j].reply.verdict = table[j].reply.verdict
  <2>1. CASE k = None \/ ~ recorded
    BY <2>1, <1>2, <1>5 DEF Live
  <2>2. CASE k # None /\ recorded
    <3> HIDE DEF reply
    <3>1. k \in Keys /\ table[k] \in Record /\ table[k] # None
      BY <2>2, <1>1, <1>5 DEF Request, Live
    <3> DEFINE record == [table[k] EXCEPT !.reply = reply]
    <3>2. /\ record \in Record /\ record.body = table[k].body /\ record.live = table[k].live
          /\ record.reply = reply /\ record # None
      BY <1>3, <3>1, NoRecordAssumption DEF Record
    <3>3. table' = [table EXCEPT ![k] = record]
      BY <2>2, <1>2, <3>1 DEF reply
    <3> HIDE DEF record, k
    <3>4. /\ table' \in [Keys -> Record \cup {None}] /\ table'[k] = record
          /\ \A j \in Keys : j # k => table'[j] = table[j]
      BY <3>1, <3>2, <3>3, <1>5
    <3>5. Live(k, table') <=> Live(k, table)
      BY <3>1, <3>2, <3>4 DEF Live
    <3>6. table'[k].reply.verdict = table[k].reply.verdict
      BY <3>1, <3>2, <3>4, <1>1, <1>3
    <3> QED
      BY <3>2, <3>4, <3>5, <3>6 DEF Live
  <2> QED
    BY <2>1, <2>2
<1> HIDE DEF reply
<1>7. /\ p \in Request /\ p.at = "done" /\ p.key = k /\ p.body = q.body /\ p.reply = reply
      /\ k \in Keys => p.window = window[k] /\ window[k] \in Nat
  BY <1>1, <1>3, AnswerInType DEF IInv, TypeOK
<1> HIDE DEF p, q
<1>8. /\ req' \in [Requests -> Request] /\ req'[r] = p
      /\ \A s \in Requests : s # r => req'[s] = req[s]
  BY <1>4, <1>5, <1>7
<1>9. TypeOK' /\ BuiltOnHead' /\ AtMostOnce'
  BY <1>4, <1>6, <1>8 DEF IInv, TypeOK, BuiltOnHead, AtMostOnce
<1>10. LogIsRecorded(log', table', window')
  BY <1>4, <1>6 DEF IInv, LogIsRecorded
<1>11. RecordsAreTrue(log', table', window')
  BY <1>4, <1>6 DEF IInv, RecordsAreTrue, RecordIsTrue
<1>12. Honest(p, log', table', window')
  <2>1. k \in Keys => \E i \in DOMAIN log : IsOf(p, i, log)
    <3> SUFFICES ASSUME k \in Keys PROVE \E i \in DOMAIN log : IsOf(p, i, log)
      OBVIOUS
    <3>1. RecordIsTrue(k, log, table, window)
      BY DEF IInv, RecordsAreTrue
    <3> QED
      BY <1>1, <1>7, <3>1 DEF RecordIsTrue, IsOf
  <2> QED
    BY <2>1, <1>3, <1>4, <1>7 DEF Honest, Negative
<1>13. Honesty'
  <2> SUFFICES ASSUME NEW s \in Requests PROVE Honest(req'[s], log', table', window')
    BY DEF Honesty
  <2>1. CASE s = r
    BY <2>1, <1>8, <1>12
  <2>2. CASE s # r
    BY <2>2, <1>4, <1>6, <1>8 DEF IInv, Honesty, Honest, IsOf
  <2> QED
    BY <2>1, <2>2
<1> QED
  BY <1>9, <1>10, <1>11, <1>13 DEF IInv

(* A window ends while no request is being handled that relied on it. *)
LEMMA ExpireKeeps == ASSUME IInv, NEW k \in Keys, Expire(k) PROVE IInv'
<1>1. /\ table \in [Keys -> Record \cup {None}] /\ req \in [Requests -> Request]
      /\ window \in [Keys -> 0..MaxWindows] /\ table[k] \in Record
  BY DEF IInv, TypeOK, Expire, Recorded
<1>2. /\ UNCHANGED <<log, req, faults>> /\ ~ Handling(k)
      /\ window' = [window EXCEPT ![k] = @ + 1]
      /\ table' = [table EXCEPT ![k].live = FALSE] /\ window[k] < MaxWindows
  BY DEF Expire
<1>3. /\ table' \in [Keys -> Record \cup {None}] /\ ~ Live(k, table')
      /\ \A j \in Keys : j # k => table'[j] = table[j]
  BY <1>1, <1>2 DEF Live, Record
<1>4. /\ window' \in [Keys -> 0..MaxWindows] /\ window'[k] = window[k] + 1
      /\ \A j \in Keys : window[j] \in Nat
      /\ \A j \in Keys : j # k => window'[j] = window[j]
  BY <1>1, <1>2, CommandBusAssumption
<1>5. TypeOK' /\ BuiltOnHead' /\ AtMostOnce'
  BY <1>2, <1>3, <1>4 DEF IInv, TypeOK, BuiltOnHead, AtMostOnce
<1>6. LogIsRecorded(log', table', window')
  <2> SUFFICES ASSUME NEW i \in DOMAIN log, log[i].key \in Keys
               PROVE  /\ log[i].window <= window'[log[i].key]
                      /\ log[i].window = window'[log[i].key] => Live(log[i].key, table')
    BY <1>2 DEF LogIsRecorded
  <2>1. /\ log[i].window <= window[log[i].key] /\ log[i].window \in Nat
        /\ log[i].window = window[log[i].key] => Live(log[i].key, table)
    <3>1. log[i] \in Applied
      BY DEF IInv, TypeOK
    <3> QED
      BY <3>1 DEF IInv, LogIsRecorded, Applied
  <2>2. CASE log[i].key = k
    BY <2>1, <2>2, <1>4
  <2>3. CASE log[i].key # k
    BY <2>1, <2>3, <1>3, <1>4 DEF Live
  <2> QED
    BY <2>2, <2>3
<1>7. RecordsAreTrue(log', table', window')
  BY <1>2, <1>3, <1>4 DEF IInv, RecordsAreTrue, RecordIsTrue, Live
<1>8. Honesty'
  <2> SUFFICES ASSUME NEW s \in Requests PROVE Honest(req[s], log, table', window')
    BY <1>2 DEF Honesty
  <2>1. Honest(req[s], log, table, window) /\ req[s] \in Request
    BY <1>1 DEF IInv, Honesty
  <2>2. CASE req[s].key = k
    <3>1. req[s].at \notin {"locking", "storing", "rereading", "opening"}
      BY <2>2, <1>2 DEF Handling
    <3>2. req[s].at = "done" => req[s].window <= window[k] /\ req[s].window \in Nat
      BY <2>1, <2>2 DEF Honest, Request
    <3>3. req[s].at = "done" => /\ req[s].window <= window'[k]
                                /\ req[s].window # window'[k]
      BY <3>2, <1>4
    <3> QED
      BY <2>1, <2>2, <3>1, <3>3 DEF Honest
  <2>3. CASE req[s].key # k
    BY <2>1, <2>3, <1>3, <1>4 DEF Honest, Live
  <2> QED
    BY <2>2, <2>3
<1> QED
  BY <1>5, <1>6, <1>7, <1>8 DEF IInv

-----------------------------------------------------------------------------
LEMMA NextKeeps == IInv /\ [Next]_vars => IInv'
<1> SUFFICES ASSUME IInv, [Next]_vars PROVE IInv'
  OBVIOUS
<1>1. CASE UNCHANGED vars
  BY <1>1 DEF vars, IInv, TypeOK, BuiltOnHead, AtMostOnce, Honesty
<1>2. ASSUME NEW r \in Requests, NEW k \in Keys \cup {None}, NEW body \in Body,
             Arrive(r, k, body)
      PROVE  IInv'
  BY <1>2, ArriveKeeps
<1>3. ASSUME NEW r \in Requests,
             Precheck(r) \/ Transact(r) \/ StoreFailure(r) \/ Reread(r)
             \/ SubmitOwed(r) \/ Opened(r) \/ DatabaseError(r)
      PROVE  IInv'
  BY <1>3, PrecheckKeeps, TransactKeeps, StoreFailureKeeps, RereadKeeps, SubmitOwedKeeps,
     OpenedKeeps, DatabaseErrorKeeps
<1>4. ASSUME NEW k \in Keys, Expire(k) PROVE IInv'
  BY <1>4, ExpireKeeps
<1>5. CASE Restart
  BY <1>5, RestartKeeps
<1> QED
  BY <1>1, <1>2, <1>3, <1>4, <1>5 DEF Next

(* The inductive invariant, at every step of every number of requests, of   *)
(* keys and of faults.                                                      *)
THEOREM Invariance == Spec => []IInv
<1> QED
  BY InitEstablishes, NextKeeps, PTL DEF Spec

(* The bus's state keeps its types. *)
THEOREM TypeCorrect == Spec => []TypeOK
<1>1. IInv => TypeOK
  BY DEF IInv
<1> QED
  BY <1>1, Invariance, PTL

(* A key applies at most once in its window, however often its body is sent *)
(* again, overlaps itself, fails or outlives the process.                   *)
THEOREM AppliesOnce == Spec => []AtMostOnce
<1>1. IInv => AtMostOnce
  BY DEF IInv
<1> QED
  BY <1>1, Invariance, PTL

(* Every command in the log was made for the room it was applied to. *)
THEOREM AppliesToItsHead == Spec => []BuiltOnHead
<1>1. IInv => BuiltOnHead
  BY DEF IInv
<1> QED
  BY <1>1, Invariance, PTL

(* "applied" means applied, and any other definite answer means never in    *)
(* this window.                                                             *)
THEOREM AnswersTruly == Spec => []AnswersAreTrue
<1>1. IInv => AnswersAreTrue
  <2> SUFFICES ASSUME IInv, NEW r \in Requests, req[r].at = "done", req[r].key # None
               PROVE  /\ req[r].reply.verdict = "applied" => AppliedAs(req[r]) # {}
                      /\ req[r].reply.verdict \in {"refused", "stale", "mismatch"}
                           => AppliedAs(req[r]) = {}
    BY DEF AnswersAreTrue
  <2>1. req[r].key \in Keys /\ Honest(req[r], log, table, window)
    BY DEF IInv, TypeOK, Request, Honesty
  <2> QED
    BY <2>1 DEF Honest, IsOf, AppliedAs, Negative
<1> QED
  BY <1>1, Invariance, PTL

-----------------------------------------------------------------------------
(* Of the requests under one key, one at a time opens a step, and until it   *)
(* has brought its own record forward nobody else touches it.                *)
OneOpener ==
    \A r \in Requests : (req[r].at = "opening" /\ req[r].key \in Keys) =>
        /\ table[req[r].key].reply = req[r].reply
        /\ \A s \in Requests :
             (req[s].at = "opening" /\ req[s].key = req[r].key) => s = r

(* What RecordsStand asks of a step, of one record.                          *)
Stands(k) ==
    Recorded(k) =>
        /\ table'[k] # None
        /\ table'[k].body = table[k].body
        /\ table'[k].reply.verdict = table[k].reply.verdict
        /\ table'[k].reply.revision >= table[k].reply.revision

LEMMA RecordTypes ==
    ASSUME IInv, NEW k \in Keys
    PROVE  /\ Recorded(k) <=> Live(k, table)
           /\ table[k] # None => table[k] \in Record /\ table[k].reply.revision \in Nat
<1>1. k # None /\ table[k] \in Record \cup {None}
  BY CommandBusAssumption DEF IInv, TypeOK
<1>2. table[k] \in Record => table[k].reply.revision \in Nat
  BY DEF Record, Reply
<1> QED
  BY <1>1, <1>2 DEF Recorded, Live

LEMMA UntouchedStands ==
    ASSUME IInv, NEW k \in Keys, table'[k] = table[k]
    PROVE  Stands(k)
  BY RecordTypes DEF Stands, Recorded

(* A step in which nobody begins to open, and after which the records of     *)
(* those who are opening still say what they are to answer.                  *)
LEMMA NobodyOpens ==
    ASSUME OneOpener,
           \A s \in Requests : req'[s].at = "opening" => req'[s] = req[s],
           \A s \in Requests : (req'[s].at = "opening" /\ req'[s].key \in Keys) =>
               table'[req[s].key].reply = table[req[s].key].reply
    PROVE  OneOpener'
  BY DEF OneOpener

(* One request moves on, and not into the opening of a step.                 *)
LEMMA OnlyOneMoves ==
    ASSUME IInv, NEW r \in Requests, NEW q, q.at # "opening",
           req' = [req EXCEPT ![r] = q]
    PROVE  \A s \in Requests : req'[s].at = "opening" => s # r /\ req'[s] = req[s]
  BY DEF IInv, TypeOK

LEMMA NoneOfTheseOpens ==
    ASSUME NEW q \in Request
    PROVE  /\ \A reply : Answered(q, reply).at = "done"
           /\ \A verdict : Failing(q, verdict).at \in {"done", "storing"}
           /\ [q EXCEPT !.at = "locking"].at = "locking"
           /\ [q EXCEPT !.at = "rereading"].at = "rereading"
           /\ [q EXCEPT !.at = "lost"].at = "lost"
<1>1. \A reply : Answered(q, reply).at = "done"
  BY DEF Request, Answered
<1>2. [q EXCEPT !.at = "storing"].at = "storing"
  BY DEF Request
<1>3. \A verdict : \A reply : [q EXCEPT !.at = "storing", !.reply = reply].at = "storing"
  BY DEF Request
<1>4. \A verdict : Failing(q, verdict).at \in {"done", "storing"}
  BY <1>1, <1>3 DEF Failing
<1> QED
  BY <1>1, <1>4 DEF Request

(* Most steps write no record.                                               *)
LEMMA NoRecordWritten ==
    ASSUME IInv, OneOpener, UNCHANGED table,
           \A s \in Requests : req'[s].at = "opening" => req'[s] = req[s]
    PROVE  OneOpener' /\ \A k \in Keys : Stands(k)
<1>1. OneOpener'
  BY NobodyOpens
<1>2. \A k \in Keys : Stands(k)
  BY UntouchedStands
<1> QED
  BY <1>1, <1>2

(* A record is written where none counted: whoever is opening has one that   *)
(* does, so it is not his.                                                   *)
LEMMA FreeRecordWritten ==
    ASSUME IInv, OneOpener, NEW k \in Keys, ~ Recorded(k), NEW record,
           table' = [table EXCEPT ![k] = record],
           \A s \in Requests : req'[s].at = "opening" => req'[s] = req[s]
    PROVE  OneOpener' /\ \A j \in Keys : Stands(j)
<1>1. \A j \in Keys : j # k => table'[j] = table[j]
  BY DEF IInv, TypeOK
<1>2. ASSUME NEW s \in Requests, req'[s].at = "opening", req'[s].key \in Keys
      PROVE  table'[req[s].key].reply = table[req[s].key].reply
  <2>1. req[s].at = "opening" /\ req[s].key \in Keys
    BY <1>2
  <2>2. Live(req[s].key, table)
    BY <2>1 DEF IInv, Honesty, Honest
  <2>3. req[s].key # k
    BY <2>1, <2>2, RecordTypes
  <2> QED
    BY <1>1, <2>1, <2>3
<1>3. OneOpener'
  BY <1>2, NobodyOpens
<1>4. \A j \in Keys : Stands(j)
  BY <1>1, UntouchedStands DEF Stands
<1> QED
  BY <1>3, <1>4

LEMMA PrecheckStands ==
    ASSUME IInv, OneOpener, NEW r \in Requests, Precheck(r)
    PROVE  OneOpener' /\ \A k \in Keys : Stands(k)
<1> DEFINE q == req[r]
<1>1. q \in Request /\ UNCHANGED table
  BY DEF IInv, TypeOK, Precheck
<1>2. \/ req' = [req EXCEPT ![r] = Answered(q, Replayed(q))]
      \/ req' = [req EXCEPT ![r] = Failing(q, "refused")]
      \/ req' = [req EXCEPT ![r] = [q EXCEPT !.at = "locking"]]
  BY DEF Precheck
<1>3. /\ Answered(q, Replayed(q)).at # "opening"
      /\ Failing(q, "refused").at # "opening"
      /\ [q EXCEPT !.at = "locking"].at # "opening"
  BY <1>1, NoneOfTheseOpens
<1> HIDE DEF q
<1>4. \A s \in Requests : req'[s].at = "opening" => req'[s] = req[s]
  <2>1. ASSUME NEW p, p.at # "opening", req' = [req EXCEPT ![r] = p]
        PROVE  \A s \in Requests : req'[s].at = "opening" => req'[s] = req[s]
    BY <2>1, OnlyOneMoves
  <2> QED
    BY <1>2, <1>3, <2>1
<1> QED
  BY <1>1, <1>4, NoRecordWritten

(* The transaction records its own success where nothing was recorded, and   *)
(* may be the one that opens a step.                                         *)
LEMMA ApplyStands ==
    ASSUME IInv, OneOpener, NEW r \in Requests, ~ Recorded(req[r].key), Apply(r),
           req[r].at = "locking"
    PROVE  OneOpener' /\ \A k \in Keys : Stands(k)
<1> DEFINE q == req[r]
           k == q.key
<1>1. q \in Request /\ k \in Keys \cup {None} /\ req \in [Requests -> Request]
  BY DEF IInv, TypeOK, Request
<1>2. PICK reply :
        /\ RecordSuccess(q, [body |-> q.body, reply |-> reply, live |-> TRUE])
        /\ \/ req' = [req EXCEPT ![r] = [q EXCEPT !.at = "opening", !.reply = reply]]
           \/ req' = [req EXCEPT ![r] = Answered(q, reply)]
           \/ req' = [req EXCEPT ![r] = Answered(q, NoReply)]
  BY DEF Apply
<1> DEFINE record == [body |-> q.body, reply |-> reply, live |-> TRUE]
           opener == [q EXCEPT !.at = "opening", !.reply = reply]
<1>3. record.reply = reply
  OBVIOUS
<1>4. opener.at = "opening" /\ opener.reply = reply /\ opener.key = k
  BY <1>1 DEF Request
<1>5. k \in Keys => table' = [table EXCEPT ![k] = record]
  BY <1>2, CommandBusAssumption DEF RecordSuccess
<1>6. k = None => UNCHANGED table
  BY <1>2 DEF RecordSuccess
<1>7. k \in Keys => table'[k] = record
  BY <1>5 DEF IInv, TypeOK
<1>8. \/ req' = [req EXCEPT ![r] = opener]
      \/ req' = [req EXCEPT ![r] = Answered(q, reply)]
      \/ req' = [req EXCEPT ![r] = Answered(q, NoReply)]
  BY <1>2
<1> HIDE DEF record, opener
<1>9. \A s \in Requests : s # r => req'[s] = req[s]
  BY <1>1, <1>8
<1>10. \A j \in Keys : j # k => table'[j] = table[j]
  BY <1>1, <1>5, <1>6 DEF IInv, TypeOK
<1>11. \A j \in Keys : Stands(j)
  BY <1>10, UntouchedStands DEF Stands
<1>12. \A s \in Requests : (s # r /\ req[s].at = "opening" /\ req[s].key \in Keys)
                           => req[s].key # k
  BY RecordTypes DEF IInv, Honesty, Honest
<1>13. OneOpener'
  <2> SUFFICES ASSUME NEW s \in Requests, req'[s].at = "opening", req'[s].key \in Keys
               PROVE  /\ table'[req'[s].key].reply = req'[s].reply
                      /\ \A u \in Requests :
                           (req'[u].at = "opening" /\ req'[u].key = req'[s].key) => u = s
    BY DEF OneOpener
  <2>1. CASE s = r
    <3>1. req'[r] = opener
      <4>1. CASE req' = [req EXCEPT ![r] = opener]
        BY <4>1, <1>1
      <4>2. CASE req' # [req EXCEPT ![r] = opener]
        <5>1. req'[r].at = "done"
          BY <4>2, <1>1, <1>8, NoneOfTheseOpens
        <5> QED
          BY <5>1, <2>1
      <4> QED
        BY <4>1, <4>2
    <3>2. k \in Keys /\ req'[s].key = k /\ req'[s].reply = reply
      BY <2>1, <3>1, <1>4
    <3>3. table'[k].reply = reply
      BY <3>2, <1>3, <1>7
    <3>4. \A u \in Requests : (u # r /\ req'[u].at = "opening") => req'[u].key # k
      BY <3>2, <1>9, <1>12
    <3> QED
      BY <2>1, <3>2, <3>3, <3>4
  <2>2. CASE s # r
    <3>1. req'[s] = req[s] /\ req[s].key # k
      BY <2>2, <1>9, <1>12
    <3>2. table'[req[s].key].reply = req[s].reply
      BY <3>1, <1>10 DEF OneOpener
    <3>3. \A u \in Requests : (u # r /\ req'[u].at = "opening" /\ req'[u].key = req[s].key)
                              => u = s
      BY <3>1, <1>9 DEF OneOpener
    <3>4. req'[r].key = k
      <4>1. \A rep : Answered(q, rep).key = k
        BY <1>1 DEF Answered, Request
      <4> QED
        BY <4>1, <1>1, <1>4, <1>8
    <3> QED
      BY <3>1, <3>2, <3>3, <3>4
  <2> QED
    BY <2>1, <2>2
<1> QED
  BY <1>11, <1>13

LEMMA TransactStands ==
    ASSUME IInv, OneOpener, NEW r \in Requests, Transact(r)
    PROVE  OneOpener' /\ \A k \in Keys : Stands(k)
<1> DEFINE q == req[r]
<1>1. q \in Request
  BY DEF IInv, TypeOK
<1>2. CASE ~ Settled(q) /\ UpToDate(q) /\ Apply(r)
  BY <1>2, ApplyStands DEF Transact, Settled
<1>3. CASE UNCHANGED table /\ \/ req' = [req EXCEPT ![r] = Answered(q, Replayed(q))]
                              \/ req' = [req EXCEPT ![r] = Failing(q, "stale")]
                              \/ req' = [req EXCEPT ![r] = Failing(q, "refused")]
  <2> HIDE DEF q
  <2>1. PICK p : req' = [req EXCEPT ![r] = p] /\ p.at # "opening"
    BY <1>1, <1>3, NoneOfTheseOpens
  <2>2. \A s \in Requests : req'[s].at = "opening" => req'[s] = req[s]
    BY <2>1, OnlyOneMoves
  <2> QED
    BY <1>3, <2>2, NoRecordWritten
<1> QED
  BY <1>2, <1>3 DEF Transact

LEMMA StoreFailureStands ==
    ASSUME IInv, OneOpener, NEW r \in Requests, StoreFailure(r)
    PROVE  OneOpener' /\ \A k \in Keys : Stands(k)
<1> DEFINE q == req[r]
<1>1. q \in Request /\ q.key \in Keys
  BY DEF IInv, TypeOK, Honesty, StoreFailure, Honest
<1>2. CASE ~ Recorded(q.key)
  <2>1. PICK record : table' = [table EXCEPT ![q.key] = record]
    BY <1>2 DEF StoreFailure, Free
  <2>2. req' = [req EXCEPT ![r] = Answered(q, q.reply)]
    BY <1>2 DEF StoreFailure, Free
  <2> HIDE DEF q
  <2>3. PICK p : req' = [req EXCEPT ![r] = p] /\ p.at # "opening"
    BY <1>1, <2>2, NoneOfTheseOpens
  <2>4. \A s \in Requests : req'[s].at = "opening" => req'[s] = req[s]
    BY <2>3, OnlyOneMoves
  <2> QED
    BY <1>1, <1>2, <2>1, <2>4, FreeRecordWritten
<1>3. CASE Recorded(q.key)
  <2>1. req' = [req EXCEPT ![r] = [q EXCEPT !.at = "rereading"]] /\ UNCHANGED table
    BY <1>3 DEF StoreFailure, Free
  <2> HIDE DEF q
  <2>2. PICK p : req' = [req EXCEPT ![r] = p] /\ p.at # "opening"
    BY <1>1, <2>1, NoneOfTheseOpens
  <2>3. \A s \in Requests : req'[s].at = "opening" => req'[s] = req[s]
    BY <2>2, OnlyOneMoves
  <2> QED
    BY <2>1, <2>3, NoRecordWritten
<1> QED
  BY <1>2, <1>3

(* The one opener brings its record forward, from what it says to a head     *)
(* that is no older.                                                         *)
LEMMA OpenedStands ==
    ASSUME IInv, OneOpener, NEW r \in Requests, Opened(r)
    PROVE  OneOpener' /\ \A k \in Keys : Stands(k)
<1> DEFINE q == req[r]
           k == q.key
<1>1. q \in Request /\ q.at = "opening" /\ q.reply.verdict = "applied" /\ q.reply \in Reply
  BY DEF IInv, TypeOK, Honesty, Opened, Honest, Request
<1>2. PICK head \in KnownHeads(q), recorded \in BOOLEAN :
        /\ req' = [req EXCEPT ![r] = Answered(q, [q.reply EXCEPT !.revision = head])]
        /\ IF k = None \/ ~ recorded THEN UNCHANGED table
           ELSE table' = [table EXCEPT ![k].reply = [q.reply EXCEPT !.revision = head]]
  BY DEF Opened
<1> DEFINE reply == [q.reply EXCEPT !.revision = head]
<1>3. reply.verdict = "applied" /\ reply.revision = head /\ q.reply.revision \in Nat
      /\ head \in Int /\ head >= q.reply.revision
  <2>1. q.reply.revision \in 0..MaxRevision /\ revision \in 0..MaxRevision
    BY <1>1, RevisionInRange DEF IInv, Reply
  <2>2. head \in q.reply.revision..revision
    BY DEF KnownHeads
  <2> QED
    BY <1>1, <2>1, <2>2 DEF Reply
<1>4. req' = [req EXCEPT ![r] = Answered(q, reply)]
  BY <1>2
<1>5. Answered(q, reply).at # "opening"
  BY <1>1, NoneOfTheseOpens
<1>6. \A s \in Requests : req'[s].at = "opening" => s # r /\ req'[s] = req[s]
  BY <1>4, <1>5, OnlyOneMoves
<1>7. CASE k = None \/ ~ recorded
  <2>1. UNCHANGED table
    BY <1>2, <1>7
  <2> QED
    BY <1>6, <2>1, NoRecordWritten
<1>8. CASE k # None /\ recorded
  <2>1. k \in Keys /\ table' = [table EXCEPT ![k].reply = reply]
    BY <1>1, <1>2, <1>8 DEF Request
  <2>2. Live(k, table) /\ table[k].body = q.body /\ table[k].reply.verdict = "applied"
    BY <1>1, <2>1 DEF IInv, Honesty, Honest
  <2>3. table[k] \in Record /\ table[k].reply = q.reply
    BY <1>1, <2>1, <2>2, RecordTypes DEF Live, OneOpener
  <2> HIDE DEF reply
  <2> DEFINE record == [table[k] EXCEPT !.reply = reply]
  <2>4. /\ record.body = table[k].body /\ record.reply = reply /\ record # None
    <3>1. record \in [body : Body, reply : {reply}, live : BOOLEAN]
      BY <2>3 DEF Record
    <3>2. None \notin [body : Body, reply : {reply}, live : BOOLEAN]
      <4>1. reply \in Reply
        <5>1. head \in 0..MaxRevision
          <6>1. q.reply.revision \in 0..MaxRevision /\ revision \in 0..MaxRevision
                /\ head \in q.reply.revision..revision
            BY <1>1, RevisionInRange DEF IInv, Reply, KnownHeads
          <6>2. MaxRevision \in Nat
            BY CommandBusAssumption
          <6> QED
            BY <6>1, <6>2
        <5> QED
          BY <5>1, <1>1 DEF reply, Reply
      <4> QED
        BY <4>1, NoRecordAssumption DEF Record
    <3> QED
      BY <2>3, <3>1, <3>2 DEF Record
  <2>5. table' = [table EXCEPT ![k] = record]
    BY <2>1
  <2> HIDE DEF record
  <2>6. table'[k] = record /\ \A j \in Keys : j # k => table'[j] = table[j]
    BY <2>1, <2>5 DEF IInv, TypeOK
  <2>7. Stands(k)
    <3>1. table'[k] # None /\ table'[k].body = table[k].body /\ table'[k].reply = reply
      BY <2>4, <2>6
    <3>2. reply.verdict = table[k].reply.verdict
      BY <1>3, <2>2
    <3>3. table[k].reply.revision = q.reply.revision
      BY <2>3
    <3>4. reply.revision >= table[k].reply.revision
      BY <3>3, <1>3
    <3> QED
      BY <3>1, <3>2, <3>4 DEF Stands
  <2>8. \A j \in Keys : Stands(j)
    BY <2>6, <2>7, UntouchedStands
  <2>9. \A s \in Requests : (req'[s].at = "opening" /\ req'[s].key \in Keys) =>
            table'[req[s].key].reply = table[req[s].key].reply
    <3> SUFFICES ASSUME NEW s \in Requests, req'[s].at = "opening", req'[s].key \in Keys
                 PROVE  table'[req[s].key].reply = table[req[s].key].reply
      OBVIOUS
    <3>1. s # r /\ req[s].at = "opening" /\ req[s].key \in Keys
      BY <1>6
    <3>2. req[s].key # k
      BY <1>1, <2>1, <3>1 DEF OneOpener
    <3> QED
      BY <2>6, <3>1, <3>2
  <2>10. OneOpener'
    BY <1>6, <2>9, NobodyOpens
  <2> QED
    BY <2>8, <2>10
<1> QED
  BY <1>7, <1>8

(* Nobody is opening a step under a key whose record expires.                *)
LEMMA ExpireStands ==
    ASSUME IInv, OneOpener, NEW k \in Keys, Expire(k)
    PROVE  OneOpener' /\ \A j \in Keys : Stands(j)
<1>1. table[k] \in Record /\ table[k] # None
  BY RecordTypes DEF Expire, Recorded
<1>2. table' = [table EXCEPT ![k].live = FALSE] /\ req' = req
  BY DEF Expire
<1> DEFINE record == [table[k] EXCEPT !.live = FALSE]
<1>3. record \in Record /\ record.body = table[k].body /\ record.reply = table[k].reply
      /\ record # None
  BY <1>1, NoRecordAssumption DEF Record
<1>4. table' = [table EXCEPT ![k] = record]
  BY <1>2
<1> HIDE DEF record
<1>5. table'[k] = record /\ \A j \in Keys : j # k => table'[j] = table[j]
  BY <1>4 DEF IInv, TypeOK
<1>6. \A j \in Keys : table'[j].reply = table[j].reply
  BY <1>3, <1>5
<1>7. OneOpener'
  BY <1>2, <1>6, NobodyOpens
<1>8. Stands(k)
  BY <1>1, <1>3, <1>5, RecordTypes DEF Stands
<1>9. \A j \in Keys : Stands(j)
  BY <1>5, <1>8, UntouchedStands
<1> QED
  BY <1>7, <1>9

LEMMA StepStands ==
    IInv /\ OneOpener /\ [Next]_vars => OneOpener' /\ \A k \in Keys : Stands(k)
<1> SUFFICES ASSUME IInv, OneOpener, [Next]_vars
             PROVE  OneOpener' /\ \A k \in Keys : Stands(k)
  OBVIOUS
<1> DEFINE Quiet == /\ UNCHANGED table
                    /\ \A s \in Requests : req'[s].at = "opening" => req'[s] = req[s]
<1>1. CASE UNCHANGED vars
  BY <1>1, NoRecordWritten DEF vars
<1>2. ASSUME NEW r \in Requests, NEW k \in Keys \cup {None}, NEW body \in Body,
             Arrive(r, k, body)
      PROVE  Quiet
  <2> DEFINE q == [Idle EXCEPT !.at = "arrived", !.key = k, !.body = body]
  <2>1. q.at # "opening"
    BY DEF Idle
  <2>2. req' = [req EXCEPT ![r] = q] /\ UNCHANGED table
    BY <1>2 DEF Arrive
  <2> HIDE DEF q
  <2> QED
    BY <2>1, <2>2, OnlyOneMoves
<1>3. ASSUME NEW r \in Requests, Reread(r) PROVE Quiet
  <2>1. PICK reply : req' = [req EXCEPT ![r] = Answered(req[r], reply)]
    BY <1>3 DEF Reread
  <2>2. Answered(req[r], reply).at # "opening"
    BY NoneOfTheseOpens DEF IInv, TypeOK
  <2> QED
    BY <1>3, <2>1, <2>2, OnlyOneMoves DEF Reread
<1>4. ASSUME NEW r \in Requests, SubmitOwed(r) PROVE Quiet
  BY <1>4 DEF SubmitOwed
<1>5. ASSUME NEW r \in Requests, DatabaseError(r) PROVE Quiet
  <2>1. UNCHANGED table
    BY <1>5 DEF DatabaseError
  <2> DEFINE answered == Answered(req[r], NoReply)
             lost     == [req[r] EXCEPT !.at = "lost"]
  <2>2. req' = [req EXCEPT ![r] = answered] \/ req' = [req EXCEPT ![r] = lost]
    BY <1>5 DEF DatabaseError
  <2>3. answered.at # "opening" /\ lost.at # "opening"
    BY NoneOfTheseOpens DEF IInv, TypeOK
  <2> HIDE DEF answered, lost
  <2> QED
    BY <2>1, <2>2, <2>3, OnlyOneMoves
<1>6. CASE Restart
  <2>1. ASSUME NEW s \in Requests, req'[s].at = "opening" PROVE req'[s] = req[s]
    BY <1>6, <2>1 DEF Restart, IInv, TypeOK, Request
  <2> QED
    BY <1>6, <2>1, NoRecordWritten DEF Restart
<1>7. Quiet => OneOpener' /\ \A k \in Keys : Stands(k)
  BY NoRecordWritten
<1> HIDE DEF Quiet
<1>8. ASSUME NEW r \in Requests,
             Precheck(r) \/ Transact(r) \/ StoreFailure(r) \/ Reread(r)
             \/ SubmitOwed(r) \/ Opened(r) \/ DatabaseError(r)
      PROVE  OneOpener' /\ \A k \in Keys : Stands(k)
  BY <1>3, <1>4, <1>5, <1>7, <1>8, PrecheckStands, TransactStands, StoreFailureStands,
     OpenedStands
<1>9. ASSUME NEW k \in Keys, Expire(k) PROVE OneOpener' /\ \A j \in Keys : Stands(j)
  BY <1>9, ExpireStands
<1> QED
  BY <1>1, <1>2, <1>6, <1>7, <1>8, <1>9 DEF Next

(* What is recorded for a key stands until it expires, whoever repeats,      *)
(* fails late or brings a success forward.                                   *)
THEOREM RecordedStands == Spec => RecordsStand
<1>1. Init => OneOpener
  BY DEF Init, OneOpener, Idle
<1>2. IInv /\ OneOpener /\ [Next]_vars => OneOpener'
  BY StepStands
<1>3. Spec => []OneOpener
  BY <1>1, <1>2, Invariance, PTL DEF Spec
<1>4. IInv /\ OneOpener /\ [Next]_vars =>
        [\A k \in Keys : Recorded(k) =>
            /\ table'[k] # None
            /\ table'[k].body = table[k].body
            /\ table'[k].reply.verdict = table[k].reply.verdict
            /\ table'[k].reply.revision >= table[k].reply.revision]_vars
  BY StepStands DEF Stands
<1> QED
  BY <1>3, <1>4, Invariance, PTL DEF Spec, RecordsStand

=============================================================================
