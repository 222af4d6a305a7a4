-------------------------- MODULE HttpServerProofs --------------------------
(***************************************************************************)
(* For any number of requests and threads, on either service: nothing      *)
(* passes the gates in another order, what a client is told is the truth,  *)
(* and no connection outlives its job.                                     *)
(***************************************************************************)
EXTENDS TransactionProofs, FiniteSetTheorems, SequenceTheorems

\* A request waits in the queue, in a thread, or on the loop, and in one place.
QueueOK ==
    /\ IsFiniteSet(pool)
    /\ \A r \in pool : req[r].pc = "wait"
    /\ \A i \in 1..Len(queue) : req[queue[i]].pc = "wait" /\ ~Running(queue[i])
    /\ \A i, j \in 1..Len(queue) : queue[i] = queue[j] => i = j
    /\ loop # None => req[loop].pc \in {"wait", "read"}

\* A transaction is that of a running job, and writes if the job does.
LinkOK ==
    \A r \in Callers :
        /\ r \in open <=> tx[r].pc \in {"work", "commit", "rollback", "close"}
        /\ tx[r].pc # "idle" =>
              /\ Running(r)
              /\ req[r].job \in {"writable", "resolve", "run", "sign"}
              /\ tx[r].kind = "write" <=> JobWrites(r)

\* How a request q comes through the gates of the administrator's service.
PassesGates(q) ==
    /\ q.job # "resolve"
    /\ q.job # "none" => q.trusted
    /\ q.job \in {"writable", "run"} \/ q.size > 0 => q.secret
    /\ (q.job = "run" \/ q.size > 0) /\ q.route \notin Open => q.hot
    /\ q.pc \in {"route", "read", "handle"} =>
          q.trusted /\ q.secret /\ (q.route \notin Open => q.hot)
    /\ q.pc = "back" /\ q.got = "yes" =>
          /\ q.job = "verify" => q.secret
          /\ q.job = "writable" => q.hot

\* What is in the database for a request q, and what it will be told of it.
TellsOf(q) ==
    /\ q.pc = "gate" => q.job = "none" /\ q.size = 0
    /\ q.pc \in {"gate", "route", "read", "handle"} =>
          q.job \in {"none", "verify", "writable"}
    /\ q.job \in {"none", "verify", "writable", "resolve"} => q.effects = {}
    /\ q.job = "run" =>
          /\ q.pc = "wait" => q.effects = {}
          /\ q.pc = "back" /\ q.got = "no" => q.effects = {}
          /\ q.pc = "back" /\ q.got = "yes" /\ q.route \in Writes => "run" \in q.effects
    /\ q.job = "sign" =>
          /\ q.route \in Signs
          /\ q.route \in Writes => "run" \in q.effects
          /\ q.pc = "back" /\ q.got = "yes" => "sign" \in q.effects
    /\ q.pc = "answer" /\ q.status = "done" =>
          /\ q.route \in Writes => "run" \in q.effects
          /\ q.route \in Signs => "sign" \in q.effects
    /\ q.pc = "answer" /\ q.status = "refused" => q.effects = {}

RequestOK(q, s) ==
    q.pc # "none" => TellsOf(q) /\ (s = "xmr-admin" => PassesGates(q))

RequestsOK == \A r \in Callers : RequestOK(req[r], service)

HttpIInv == HttpTypeOK /\ TxIInv /\ QueueOK /\ LinkOK /\ RequestsOK

-----------------------------------------------------------------------------
\* At the start there is no request.
LEMMA HttpInitInv == HttpInit => HttpIInv
<1> SUFFICES ASSUME HttpInit PROVE HttpIInv
  OBVIOUS
<1>1. NoRequest \in Request /\ NoRequest.pc = "none"
  BY BodyAssumption DEF NoRequest, Request, Routes, Portal, Admin
<1>2. IsFiniteSet(pool) /\ Cardinality(pool) = 0
  BY FS_EmptySet DEF HttpInit
<1>3. TxIInv
  BY InitInv DEF HttpInit
<1>4. HttpTypeOK
  BY <1>1, <1>2, <1>3, ThreadsAssumption DEF HttpInit, HttpTypeOK, TxIInv
<1>5. QueueOK /\ RequestsOK
  BY <1>1, <1>2 DEF HttpInit, QueueOK, RequestsOK, RequestOK
<1>6. LinkOK
  BY DEF HttpInit, TxInit, LinkOK, NoTx
<1> QED
  BY <1>3, <1>4, <1>5, <1>6 DEF HttpIInv

\* A step that changes one request only.
LEMMA OneRequest ==
  ASSUME req \in [Callers -> Request], NEW r \in Callers, NEW q \in Request,
         req' = [req EXCEPT ![r] = q]
  PROVE  /\ req' \in [Callers -> Request]
         /\ req'[r] = q
         /\ \A v \in Callers : v # r => req'[v] = req[v]
  OBVIOUS

\* A request that is not running has no transaction under way.
LEMMA NotRunning ==
  ASSUME HttpIInv, NEW r \in Callers, req[r].pc # "wait"
  PROVE  r \notin pool /\ ~Running(r) /\ tx[r].pc = "idle" /\ r \notin open
<1>1. ~Running(r) /\ r \notin pool
  BY DEF HttpIInv, QueueOK, Running
<1> QED
  BY <1>1 DEF HttpIInv, LinkOK

\* A step of the loop: the coroutine of r goes on to its next await, or waits for
\* a thread, or keeps the loop.
LEMMA LoopMove ==
  ASSUME HttpIInv, NEW r \in Callers, NEW q \in Request,
         req' = [req EXCEPT ![r] = q],
         loop = None, req[r].pc # "wait",
         UNCHANGED <<tx, open, durable, service, pool>>,
         RequestOK(q, service),
         \/ queue' = queue /\ loop' = None /\ q.pc # "wait"
         \/ queue' = Append(queue, r) /\ loop' = None /\ q.pc = "wait"
         \/ queue' = queue /\ loop' = r /\ q.pc = "wait"
  PROVE  HttpIInv'
<1>1. /\ req' \in [Callers -> Request]
      /\ req'[r] = q
      /\ \A v \in Callers : v # r => req'[v] = req[v]
  BY OneRequest DEF HttpIInv, HttpTypeOK
<1>2. r \notin pool /\ tx[r].pc = "idle" /\ r \notin open
  BY NotRunning
<1>3. pool \subseteq Callers /\ queue \in Seq(Callers)
  BY DEF HttpIInv, HttpTypeOK
<1>4. \A i \in 1..Len(queue) : queue[i] \in Callers /\ queue[i] # r
  BY <1>3 DEF HttpIInv, QueueOK
<1>5. TxIInv'
  BY DEF HttpIInv, TxIInv, TxTypeOK
<1>6. HttpTypeOK'
  BY <1>1, <1>3, <1>5 DEF HttpIInv, HttpTypeOK, TxIInv
<1>7. QueueOK'
  <2>1. IsFiniteSet(pool') /\ \A v \in pool' : req'[v].pc = "wait"
    BY <1>1, <1>2, <1>3 DEF HttpIInv, QueueOK
  <2>2. \A v \in Callers : v # r => Running(v)' = Running(v)
    BY <1>1, LoopAssumption DEF Running
  <2>3. \A i \in 1..Len(queue) : \A v \in Callers :
            queue[i] = v => req'[v].pc = "wait" /\ ~Running(v)'
    BY <1>1, <1>4, <2>2 DEF HttpIInv, QueueOK
  <2>4. loop' # None => req'[loop'].pc = "wait"
    BY <1>1
  <2>5. CASE queue' = queue
    BY <1>4, <2>1, <2>3, <2>4, <2>5 DEF HttpIInv, QueueOK, Running
  <2>6. CASE queue' = Append(queue, r) /\ loop' = None /\ q.pc = "wait"
    <3>1. /\ Len(queue') = Len(queue) + 1 /\ Len(queue) \in Nat
          /\ queue'[Len(queue) + 1] = r
          /\ \A i \in 1..Len(queue) : queue'[i] = queue[i]
      BY <1>3, <2>6
    <3>2. ~Running(r)'
      BY <1>2, <2>6, LoopAssumption DEF Running
    <3>3. \A i \in 1..Len(queue') : queue'[i] \in Callers /\ \A v \in Callers :
              queue'[i] = v => req'[v].pc = "wait" /\ ~Running(v)'
      BY <1>1, <1>4, <2>3, <2>6, <3>1, <3>2
    <3>4. \A i, j \in 1..Len(queue') : queue'[i] = queue'[j] => i = j
      BY <1>4, <3>1 DEF HttpIInv, QueueOK
    <3> QED
      BY <2>1, <2>4, <3>3, <3>4 DEF QueueOK, Running
  <2> QED
    BY <2>5, <2>6
<1>8. LinkOK'
  <2> SUFFICES ASSUME NEW v \in Callers
               PROVE  /\ v \in open' <=> tx'[v].pc \in {"work", "commit", "rollback", "close"}
                      /\ tx'[v].pc # "idle" =>
                            /\ Running(v)'
                            /\ req'[v].job \in {"writable", "resolve", "run", "sign"}
                            /\ tx'[v].kind = "write" <=> JobWrites(v)'
    BY DEF LinkOK
  <2>1. CASE v = r
    BY <1>2, <2>1
  <2>2. CASE v # r
    BY <1>1, <2>2, LoopAssumption DEF HttpIInv, LinkOK, Running, JobWrites
  <2> QED
    BY <2>1, <2>2
<1>9. RequestsOK'
  BY <1>1 DEF HttpIInv, RequestsOK
<1> QED
  BY <1>5, <1>6, <1>7, <1>8, <1>9 DEF HttpIInv

\* The client of a request leaves, and no request goes on.
LEMMA LeaveInv ==
  ASSUME HttpIInv, NEW r \in Callers, Leave(r)
  PROVE  HttpIInv'
<1> DEFINE q == [req[r] EXCEPT !.gone = TRUE]
<1>0. /\ q \in Request /\ q.pc = req[r].pc /\ q.job = req[r].job
      /\ q.route = req[r].route /\ q.trusted = req[r].trusted
      /\ q.secret = req[r].secret /\ q.size = req[r].size /\ q.got = req[r].got
      /\ q.hot = req[r].hot /\ q.effects = req[r].effects
      /\ q.status = req[r].status
  <2>1. req[r] \in Request
    BY DEF HttpIInv, HttpTypeOK
  <2>2. q \in Request
    BY <2>1 DEF Request
  <2> QED
    BY <2>1, <2>2 DEF Request
<1>1. RequestOK(q, service)
  BY <1>0 DEF HttpIInv, RequestsOK, RequestOK, TellsOf, PassesGates
<1>2. /\ req' = [req EXCEPT ![r] = q]
      /\ UNCHANGED <<loop, queue, pool, tx, open, durable, service>>
  BY DEF Leave, Idle
<1> HIDE DEF q
<1>3. /\ req' \in [Callers -> Request]
      /\ req'[r] = q
      /\ \A v \in Callers : v # r => req'[v] = req[v]
  BY <1>0, <1>2, OneRequest DEF HttpIInv, HttpTypeOK
<1>4. \A v \in Callers : /\ req'[v].pc = req[v].pc /\ req'[v].job = req[v].job
                         /\ req'[v].route = req[v].route
  BY <1>0, <1>3
<1>5. TxIInv' /\ HttpTypeOK'
  BY <1>2, <1>3 DEF HttpIInv, TxIInv, TxTypeOK, HttpTypeOK
<1>6. QueueOK'
  <2>1. /\ pool \subseteq Callers /\ loop \in Callers \cup {None}
        /\ \A i \in 1..Len(queue) : queue[i] \in Callers
    BY DEF HttpIInv, HttpTypeOK
  <2> QED
    BY <1>2, <1>4, <2>1 DEF HttpIInv, QueueOK, Running
<1>7. LinkOK'
  BY <1>2, <1>4 DEF HttpIInv, LinkOK, Running, JobWrites
<1>8. RequestsOK'
  BY <1>1, <1>2, <1>3 DEF HttpIInv, RequestsOK
<1> QED
  BY <1>5, <1>6, <1>7, <1>8 DEF HttpIInv

\* The loop is kept by a handler that waits for a body that will not come.
LEMMA SpinInv ==
  ASSUME HttpIInv, NEW r \in Callers, Spin(r)
  PROVE  HttpIInv'
<1>1. /\ UNCHANGED <<req, queue, pool, tx, open, durable, service>>
      /\ loop' = r /\ loop \in {None, r} /\ req[r].pc = "read"
  BY DEF Spin, Idle
<1>2. \A v \in Callers : Running(v)' = Running(v)
  BY <1>1, LoopAssumption DEF Running
<1>3. TxIInv' /\ HttpTypeOK'
  BY <1>1 DEF HttpIInv, TxIInv, TxTypeOK, HttpTypeOK
<1>4. QueueOK'
  <2>1. \A i \in 1..Len(queue) : queue[i] \in Callers
    BY DEF HttpIInv, HttpTypeOK
  <2> QED
    BY <1>1, <1>2, <2>1 DEF HttpIInv, QueueOK, Running
<1>5. LinkOK'
  BY <1>1, <1>2 DEF HttpIInv, LinkOK, JobWrites
<1>6. RequestsOK'
  BY <1>1 DEF HttpIInv, RequestsOK
<1> QED
  BY <1>3, <1>4, <1>5, <1>6 DEF HttpIInv

\* A thread takes the request at the head of the queue.
LEMMA TakeInv ==
  ASSUME HttpIInv, NEW r \in Callers, Take(r)
  PROVE  HttpIInv'
<1>1. /\ queue # <<>> /\ r = Head(queue) /\ queue' = Tail(queue)
      /\ pool' = pool \cup {r} /\ Cardinality(pool) < Threads
      /\ UNCHANGED <<tx, open, durable, service, req, loop>>
  BY DEF Take
<1>2. queue \in Seq(Callers) /\ pool \subseteq Callers /\ IsFiniteSet(pool)
  BY DEF HttpIInv, HttpTypeOK, QueueOK
<1>3. /\ Len(queue) \in Nat /\ Len(queue) >= 1 /\ r = queue[1]
      /\ queue' \in Seq(Callers) /\ Len(queue') = Len(queue) - 1
      /\ \A i \in 1..Len(queue') : queue'[i] = queue[i + 1] /\ i + 1 \in 2..Len(queue)
      /\ \A i \in 1..Len(queue) : queue[i] \in Callers
  BY <1>1, <1>2
<1>4. req[r].pc = "wait" /\ ~Running(r)
  BY <1>3 DEF HttpIInv, QueueOK
<1>5. IsFiniteSet(pool') /\ Cardinality(pool') <= Threads
  <2>1. /\ IsFiniteSet(pool \cup {r})
        /\ Cardinality(pool \cup {r}) \in {Cardinality(pool), Cardinality(pool) + 1}
    BY <1>2, FS_AddElement
  <2>2. Cardinality(pool) \in Nat
    BY <1>2, FS_CardinalityType
  <2> QED
    BY <1>1, <2>1, <2>2, ThreadsAssumption
<1>6. TxIInv' /\ HttpTypeOK'
  BY <1>1, <1>2, <1>3, <1>5 DEF HttpIInv, TxIInv, TxTypeOK, HttpTypeOK
<1>7. \A v \in Callers : v # r => Running(v)' = Running(v)
  BY <1>1 DEF Running
<1>8. QueueOK'
  <2>1. \A v \in pool' : req'[v].pc = "wait"
    BY <1>1, <1>4 DEF HttpIInv, QueueOK
  <2>2. \A i \in 1..Len(queue') : /\ queue'[i] \in Callers /\ queue'[i] # r
                                  /\ \A v \in Callers : queue'[i] = v =>
                                        req[v].pc = "wait" /\ ~Running(v)
    BY <1>3 DEF HttpIInv, QueueOK
  <2>3. \A i \in 1..Len(queue') : \A v \in Callers : queue'[i] = v =>
            req'[v].pc = "wait" /\ ~Running(v)'
    BY <1>1, <1>7, <2>2
  <2>4. \A i, j \in 1..Len(queue') : queue'[i] = queue'[j] => i = j
    BY <1>3 DEF HttpIInv, QueueOK
  <2> QED
    BY <1>1, <1>5, <2>1, <2>2, <2>3, <2>4 DEF HttpIInv, QueueOK, Running
<1>9. LinkOK'
  BY <1>1, <1>4, <1>7 DEF HttpIInv, LinkOK, JobWrites
<1>10. RequestsOK'
  BY <1>1 DEF HttpIInv, RequestsOK
<1> QED
  BY <1>6, <1>8, <1>9, <1>10 DEF HttpIInv

\* A job opens its transaction, or takes its next step in it.
LEMMA WorkInv ==
  ASSUME HttpIInv, NEW r \in Callers, Begin(r) \/ DbStep(r)
  PROVE  HttpIInv'
<1> SUFFICES ASSUME UNCHANGED <<service, req, loop, queue, pool>>, Running(r), TxIInv',
                    /\ r \in open' <=> tx'[r].pc \in {"work", "commit", "rollback", "close"}
                    /\ tx'[r].pc # "idle" =>
                          /\ req[r].job \in {"writable", "resolve", "run", "sign"}
                          /\ tx'[r].kind = "write" <=> JobWrites(r)
                    /\ \A v \in Callers : v # r => tx'[v] = tx[v] /\ (v \in open' <=> v \in open)
             PROVE  HttpIInv'
  <2>1. UNCHANGED <<service, req, loop, queue, pool>> /\ Running(r)
    BY DEF Begin, DbStep
  <2>2. TxIInv
    BY DEF HttpIInv
  <2>3. TxIInv'
    BY <2>2, StepInv DEF Begin, DbStep
  <2>4. tx \in [Callers -> Tx]
    BY <2>2 DEF TxIInv, TxTypeOK
  <2>5. CASE Begin(r)
    <3>1. PICK kind \in {"read", "write"} :
              /\ kind = IF JobWrites(r) THEN "write" ELSE "read"
              /\ Connect(r, kind) \/ ConnectFails(r, kind)
      BY <2>5 DEF Begin
    <3>2. /\ req[r].job \in {"writable", "resolve", "run", "sign"}
          /\ r \notin open
      BY <2>5 DEF Begin, HttpIInv, LinkOK
    <3>3. CASE Connect(r, kind)
      BY <2>1, <2>3, <2>4, <3>1, <3>2, <3>3 DEF Connect
    <3>4. CASE ConnectFails(r, kind)
      BY <2>1, <2>3, <2>4, <3>1, <3>2, <3>4 DEF ConnectFails
    <3> QED
      BY <3>1, <3>3, <3>4
  <2>6. CASE DbStep(r)
    <3>1. /\ tx'[r].kind = tx[r].kind
          /\ tx[r].pc # "idle"
          /\ \A v \in Callers : v # r => tx'[v] = tx[v]
          /\ r \in open' <=> tx'[r].pc \in {"work", "commit", "rollback", "close"}
          /\ \A v \in Callers : v # r => (v \in open' <=> v \in open)
      <4>1. r \in open <=> tx[r].pc \in {"work", "commit", "rollback", "close"}
        BY DEF HttpIInv, LinkOK
      <4>2. CASE Close(r)
        BY <2>4, <4>1, <4>2 DEF Close, Moves
      <4>3. CASE Statement(r) \/ StatementFails(r)
        BY <2>4, <4>1, <4>3 DEF Statement, StatementFails, Moves
      <4>4. CASE Commit(r) \/ CommitFails(r) \/ Rollback(r)
        BY <2>4, <4>1, <4>4 DEF Commit, CommitFails, Rollback, Moves
      <4> QED
        BY <2>6, <4>2, <4>3, <4>4 DEF DbStep, TxStep
    <3>2. /\ req[r].job \in {"writable", "resolve", "run", "sign"}
          /\ tx[r].kind = "write" <=> JobWrites(r)
      BY <3>1 DEF HttpIInv, LinkOK
    <3> QED
      BY <2>1, <2>3, <3>1, <3>2
  <2> QED
    BY <2>5, <2>6
<1>1. HttpTypeOK'
  BY DEF HttpIInv, HttpTypeOK, TxIInv
<1>2. \A v \in Callers : Running(v)' = Running(v)
  BY DEF Running
<1>3. QueueOK'
  <2>1. \A i \in 1..Len(queue) : queue[i] \in Callers
    BY DEF HttpIInv, HttpTypeOK
  <2> QED
    BY <2>1 DEF HttpIInv, QueueOK, Running
<1>4. LinkOK'
  BY <1>2 DEF HttpIInv, LinkOK, JobWrites
<1>5. RequestsOK'
  BY DEF HttpIInv, RequestsOK
<1> QED
  BY <1>1, <1>3, <1>4, <1>5 DEF HttpIInv

\* A job ends, and the loop hears of it.  What it says of its write must be true.
LEMMA SettleInv ==
  ASSUME HttpIInv, NEW r \in Callers, NEW got \in {"yes", "no", "error"},
         Running(r), Settles(r, got),
         TxIInv', tx'[r].pc = "idle", r \notin open, open' = open,
         \A v \in Callers : v # r => tx'[v] = tx[v],
         req[r].job = "verify" /\ got = "yes" => req[r].secret,
         req[r].job = "run" /\ got = "no" => ~durable[r],
         req[r].job = "run" /\ got = "yes" /\ req[r].route \in Writes => durable[r],
         req[r].job = "sign" /\ got = "yes" => durable[r]
  PROVE  HttpIInv'
<1> DEFINE hot == req[r].hot \/ (req[r].job = "writable" /\ got = "yes")
           effects == IF durable[r] THEN req[r].effects \cup {req[r].job}
                      ELSE req[r].effects
           q == [req[r] EXCEPT !.pc = "back", !.got = got, !.hot = hot, !.effects = effects]
<1>1. /\ req[r] \in Request /\ req \in [Callers -> Request]
      /\ req[r].pc = "wait"
      /\ RequestOK(req[r], service)
      /\ pool \subseteq Callers /\ queue \in Seq(Callers)
      /\ \A i \in 1..Len(queue) : queue[i] \in Callers
  BY DEF HttpIInv, HttpTypeOK, QueueOK, Running, RequestsOK
<1>2. durable[r] => JobWrites(r)
  BY DEF HttpIInv, TxIInv, ResultOK, LinkOK
<1>3. hot \in BOOLEAN /\ (req[r].hot => hot) /\ (req[r].job = "writable" /\ got = "yes" => hot)
  BY <1>1 DEF Request
<1>4. effects \in SUBSET {"run", "sign"} /\ req[r].effects \subseteq effects
  BY <1>1, <1>2 DEF Request, JobWrites
<1>5. /\ durable[r] => req[r].job \in effects
      /\ ~durable[r] => effects = req[r].effects
  OBVIOUS
<1>6. /\ req' = [req EXCEPT ![r] = q]
      /\ pool' = pool \ {r}
      /\ loop' = IF loop = r THEN None ELSE loop
      /\ UNCHANGED <<queue, service>>
  BY DEF Settles
<1> HIDE DEF hot, effects
<1>7. /\ q \in Request /\ q.pc = "back" /\ q.got = got /\ q.hot = hot
      /\ q.effects = effects /\ q.job = req[r].job /\ q.route = req[r].route
      /\ q.trusted = req[r].trusted /\ q.secret = req[r].secret
      /\ q.size = req[r].size /\ q.status = req[r].status
  BY <1>1, <1>3, <1>4 DEF Request
<1> HIDE DEF q
<1>8. RequestOK(q, service)
  <2>1. TellsOf(req[r]) /\ (service = "xmr-admin" => PassesGates(req[r]))
    BY <1>1 DEF RequestOK
  <2>2. TellsOf(q)
    BY <1>1, <1>2, <1>4, <1>5, <1>7, <2>1 DEF TellsOf, JobWrites
  <2>3. service = "xmr-admin" => PassesGates(q)
    BY <1>1, <1>3, <1>7, <2>1 DEF PassesGates
  <2> QED
    BY <2>2, <2>3 DEF RequestOK
<1>9. /\ req' \in [Callers -> Request]
      /\ req'[r] = q
      /\ \A v \in Callers : v # r => req'[v] = req[v]
  BY <1>1, <1>6, <1>7, OneRequest
<1>10. IsFiniteSet(pool') /\ Cardinality(pool') <= Threads
  <2>1. IsFiniteSet(pool) /\ Cardinality(pool) <= Threads
    BY DEF HttpIInv, HttpTypeOK, QueueOK
  <2>2. IsFiniteSet(pool') /\ Cardinality(pool') <= Cardinality(pool) /\ Cardinality(pool') \in Nat
    BY <1>6, <2>1, FS_Subset, FS_CardinalityType
  <2>3. Cardinality(pool) \in Nat
    BY <2>1, FS_CardinalityType
  <2> QED
    BY <2>1, <2>2, <2>3, ThreadsAssumption
<1>11. HttpTypeOK'
  BY <1>1, <1>6, <1>9, <1>10 DEF HttpIInv, HttpTypeOK, TxIInv
<1>12. \A v \in Callers : v # r => Running(v)' = Running(v)
  BY <1>1, <1>6, <1>9, LoopAssumption DEF Running
<1>13. QueueOK'
  <2>1. \A v \in pool' : req'[v].pc = "wait"
    BY <1>1, <1>6, <1>9 DEF HttpIInv, QueueOK
  <2>2. \A i \in 1..Len(queue) : \A v \in Callers :
            queue[i] = v => v # r /\ req'[v].pc = "wait" /\ ~Running(v)'
    BY <1>1, <1>9, <1>12 DEF HttpIInv, QueueOK
  <2>3. loop' # None => req'[loop'].pc \in {"wait", "read"}
    BY <1>6, <1>9 DEF HttpIInv, HttpTypeOK, QueueOK
  <2> QED
    BY <1>1, <1>6, <1>10, <2>1, <2>2, <2>3 DEF HttpIInv, QueueOK, Running
<1>14. LinkOK'
  BY <1>9, <1>12 DEF HttpIInv, LinkOK, JobWrites
<1>15. RequestsOK'
  BY <1>6, <1>8, <1>9 DEF HttpIInv, RequestsOK
<1> QED
  BY <1>11, <1>13, <1>14, <1>15 DEF HttpIInv

\* The credential is compared without the database.
LEMMA VerifyInv ==
  ASSUME HttpIInv, NEW r \in Callers, Verify(r)
  PROVE  HttpIInv'
<1>1. Running(r) /\ req[r].job = "verify" /\ UNCHANGED <<tx, open, durable>>
  BY DEF Verify, tvars
<1>2. tx[r].pc = "idle" /\ r \notin open
  BY <1>1 DEF HttpIInv, LinkOK
<1>3. TxIInv'
  BY <1>1 DEF HttpIInv, TxIInv, TxTypeOK
<1>4. CASE req[r].secret
  BY <1>1, <1>2, <1>3, <1>4, SettleInv DEF Verify
<1>5. CASE ~req[r].secret
  <2>1. PICK got \in {"no", "error"} : Settles(r, got)
    BY <1>5 DEF Verify
  <2> QED
    BY <1>1, <1>2, <1>3, <2>1, SettleInv
<1> QED
  BY <1>4, <1>5

\* An operation returns before it has written anything.
LEMMA ReturnEarlyInv ==
  ASSUME HttpIInv, NEW r \in Callers, ReturnEarly(r)
  PROVE  HttpIInv'
<1>1. /\ Running(r) /\ req[r].job = "run" /\ tx[r].pc = "idle"
      /\ UNCHANGED <<tx, open, durable>>
  BY DEF ReturnEarly, tvars
<1>2. r \notin open /\ ~durable[r]
  BY <1>1 DEF HttpIInv, LinkOK, TxIInv, ResultOK
<1>3. TxIInv'
  BY <1>1 DEF HttpIInv, TxIInv, TxTypeOK
<1>4. CASE req[r].route = "logo" /\ Settles(r, "yes")
  <2>1. req[r].route \notin Writes
    BY <1>4 DEF Writes
  <2> QED
    BY <1>1, <1>2, <1>3, <1>4, <2>1, SettleInv
<1>5. CASE Settles(r, "no")
  BY <1>1, <1>2, <1>3, <1>5, SettleInv
<1> QED
  BY <1>4, <1>5 DEF ReturnEarly

\* A job returns what its transaction said: a value with its write, a duplicate
\* without.
LEMMA ReturnInv ==
  ASSUME HttpIInv, NEW r \in Callers, Return(r)
  PROVE  HttpIInv'
<1>1. Running(r) /\ tx[r].pc = "over" /\ Forget(r)
  BY DEF Return
<1>2. /\ r \notin open
      /\ req[r].job \in {"writable", "resolve", "run", "sign"}
      /\ tx[r].kind = "write" <=> JobWrites(r)
  BY <1>1 DEF HttpIInv, LinkOK
<1>3. TxIInv'
  BY <1>1, StepInv DEF HttpIInv
<1>4. /\ open' = open /\ tx'[r].pc = "idle"
      /\ \A v \in Callers : v # r => tx'[v] = tx[v]
  BY <1>1 DEF Forget, HttpIInv, TxIInv, TxTypeOK, NoTx
<1>5. ResultOK(tx[r], durable[r])
  BY DEF HttpIInv, TxIInv
<1>6. CASE Settles(r, "error")
  BY <1>1, <1>2, <1>3, <1>4, <1>6, SettleInv
<1>7. CASE /\ tx[r].result = "duplicate"
           /\ Settles(r, IF req[r].job = "run" THEN "no" ELSE "error")
  <2>1. ~durable[r]
    BY <1>5, <1>7 DEF ResultOK
  <2>2. CASE req[r].job = "run"
    BY <1>1, <1>2, <1>3, <1>4, <1>7, <2>1, <2>2, SettleInv
  <2>3. CASE req[r].job # "run"
    BY <1>1, <1>2, <1>3, <1>4, <1>7, <2>1, <2>3, SettleInv
  <2> QED
    BY <2>2, <2>3
<1>8. CASE tx[r].result = "value" /\ Settles(r, "yes")
  <2>1. JobWrites(r) => durable[r]
    BY <1>2, <1>5, <1>8 DEF ResultOK
  <2> QED
    BY <1>1, <1>2, <1>3, <1>4, <1>8, <2>1, SettleInv DEF JobWrites
<1>9. CASE req[r].job \in {"writable", "resolve"} /\ Settles(r, "no")
  BY <1>1, <1>2, <1>3, <1>4, <1>9, SettleInv
<1> QED
  BY <1>6, <1>7, <1>8, <1>9 DEF Return

-----------------------------------------------------------------------------
(* The loop: what each helper needs of the request, and then the handlers.  *)

\* A coroutine goes on to the next part of the handler.
LEMMA GoesInv ==
  ASSUME HttpIInv, NEW r \in Callers, NEW pc \in {"route", "read", "handle"},
         Goes(r, pc), Idle, loop = None, req[r].pc \notin {"none", "wait"},
         req[r].job \in {"none", "verify", "writable"},
         service = "xmr-admin" =>
            req[r].trusted /\ req[r].secret /\ (req[r].route \notin Open => req[r].hot)
  PROVE  HttpIInv'
<1> DEFINE q == [req[r] EXCEPT !.pc = pc]
<1>1. /\ req[r] \in Request
      /\ TellsOf(req[r]) /\ (service = "xmr-admin" => PassesGates(req[r]))
  BY DEF HttpIInv, HttpTypeOK, RequestsOK, RequestOK
<1>2. /\ q \in Request /\ q.pc = pc /\ q.job = req[r].job /\ q.got = req[r].got
      /\ q.hot = req[r].hot /\ q.effects = req[r].effects
      /\ q.route = req[r].route /\ q.trusted = req[r].trusted
      /\ q.secret = req[r].secret /\ q.size = req[r].size
  BY <1>1 DEF Request
<1>3. req' = [req EXCEPT ![r] = q] /\ UNCHANGED <<loop, queue, pool, tx, open, durable, service>>
  BY DEF Goes, Idle
<1> HIDE DEF q
<1>4. RequestOK(q, service)
  BY <1>1, <1>2 DEF RequestOK, TellsOf, PassesGates
<1> QED
  BY <1>2, <1>3, <1>4, LoopMove

\* A coroutine awaits a job.
LEMMA AwaitsInv ==
  ASSUME HttpIInv, NEW r \in Callers,
         NEW job \in {"verify", "writable", "resolve", "run", "sign"},
         Awaits(r, job) \/ (job = "run" /\ Runs(r) /\ req[r].route \in Queries \cup Blocking),
         Idle, loop = None, req[r].pc \notin {"none", "wait"},
         job # "sign" => req[r].effects = {},
         job = "sign" => /\ req[r].route \in Signs
                         /\ req[r].route \in Writes => "run" \in req[r].effects,
         service = "xmr-admin" =>
            /\ job # "resolve"
            /\ req[r].trusted
            /\ job \in {"writable", "run"} \/ req[r].size > 0 => req[r].secret
            /\ (job = "run" \/ req[r].size > 0) /\ req[r].route \notin Open => req[r].hot
  PROVE  HttpIInv'
<1> DEFINE q == [req[r] EXCEPT !.pc = "wait", !.job = job, !.got = "none"]
<1>1. req[r] \in Request
  BY DEF HttpIInv, HttpTypeOK
<1>2. /\ q \in Request /\ q.pc = "wait" /\ q.job = job
      /\ q.hot = req[r].hot /\ q.effects = req[r].effects
      /\ q.route = req[r].route /\ q.trusted = req[r].trusted
      /\ q.secret = req[r].secret /\ q.size = req[r].size
  BY <1>1 DEF Request
<1>3. /\ req' = [req EXCEPT ![r] = q]
      /\ UNCHANGED <<pool, tx, open, durable, service>>
      /\ \/ queue' = Append(queue, r) /\ loop' = None
         \/ queue' = queue /\ loop' = r
  <2>1. CASE Awaits(r, job)
    BY <2>1 DEF Awaits, Idle
  <2>2. CASE job = "run" /\ Runs(r) /\ req[r].route \in Queries \cup Blocking
    <3>1. CASE req[r].route \in Blocking
      BY <2>2, <3>1 DEF Runs, Awaits, Idle
    <3>2. CASE req[r].route \notin Blocking
      BY <2>2, <3>2 DEF Runs, Idle
    <3> QED
      BY <3>1, <3>2
  <2> QED
    BY <2>1, <2>2
<1> HIDE DEF q
<1>4. RequestOK(q, service)
  BY <1>2 DEF RequestOK, TellsOf, PassesGates
<1> QED
  BY <1>2, <1>3, <1>4, LoopMove

\* A coroutine answers.
LEMMA AnswersInv ==
  ASSUME HttpIInv, NEW r \in Callers, NEW status \in {"done", "refused", "error"},
         Answers(r, status), Idle, loop = None, req[r].pc \notin {"none", "wait"},
         status = "refused" => req[r].effects = {},
         status = "done" =>
            /\ req[r].route \in Writes => "run" \in req[r].effects
            /\ req[r].route \in Signs => "sign" \in req[r].effects
  PROVE  HttpIInv'
<1> DEFINE q == [req[r] EXCEPT !.pc = "answer", !.status = status]
<1>1. /\ req[r] \in Request
      /\ TellsOf(req[r]) /\ (service = "xmr-admin" => PassesGates(req[r]))
  BY DEF HttpIInv, HttpTypeOK, RequestsOK, RequestOK
<1>2. /\ q \in Request /\ q.pc = "answer" /\ q.status = status
      /\ q.job = req[r].job /\ q.got = req[r].got
      /\ q.hot = req[r].hot /\ q.effects = req[r].effects
      /\ q.route = req[r].route /\ q.trusted = req[r].trusted
      /\ q.secret = req[r].secret /\ q.size = req[r].size
  BY <1>1 DEF Request
<1>3. req' = [req EXCEPT ![r] = q] /\ UNCHANGED <<loop, queue, pool, tx, open, durable, service>>
  BY DEF Answers, Idle
<1> HIDE DEF q
<1>4. RequestOK(q, service)
  BY <1>1, <1>2 DEF RequestOK, TellsOf, PassesGates
<1> QED
  BY <1>2, <1>3, <1>4, LoopMove

\* A request begins with nothing asked.
LEMMA ArriveInv ==
  ASSUME HttpIInv, NEW r \in Callers, NEW route \in Routes,
         NEW trusted \in BOOLEAN, NEW secret \in BOOLEAN,
         Arrive(r, route, trusted, secret)
  PROVE  HttpIInv'
<1> DEFINE q == [NoRequest EXCEPT !.pc = "gate", !.route = route,
                                  !.trusted = trusted, !.secret = secret]
<1>0. /\ NoRequest \in Request /\ NoRequest.job = "none" /\ NoRequest.size = 0
      /\ NoRequest.effects = {}
  BY BodyAssumption DEF NoRequest, Request, Routes, Portal, Admin
<1>1. /\ q \in Request /\ q.pc = "gate" /\ q.job = "none" /\ q.size = 0
      /\ q.effects = {}
  BY <1>0 DEF Request
<1>2. /\ req' = [req EXCEPT ![r] = q] /\ req[r].pc = "none" /\ loop = None
      /\ UNCHANGED <<loop, queue, pool, tx, open, durable, service>>
  BY DEF Arrive, At, Idle
<1> HIDE DEF q
<1>3. RequestOK(q, service)
  BY <1>1 DEF RequestOK, TellsOf, PassesGates
<1> QED
  BY <1>1, <1>2, <1>3, LoopMove

\* The request of an answered client is over.
LEMMA RespondInv ==
  ASSUME HttpIInv, NEW r \in Callers, Respond(r)
  PROVE  HttpIInv'
<1>1. NoRequest \in Request /\ NoRequest.pc = "none"
  BY BodyAssumption DEF NoRequest, Request, Routes, Portal, Admin
<1>2. RequestOK(NoRequest, service)
  BY <1>1 DEF RequestOK
<1> QED
  BY <1>1, <1>2, LoopMove DEF Respond, At, Idle

\* A message of a body is taken after the gates, if there are any.
LEMMA ReceiveInv ==
  ASSUME HttpIInv, NEW r \in Callers, Receive(r)
  PROVE  HttpIInv'
<1>1. /\ req[r].pc = "read" /\ loop = None /\ Idle
      /\ req[r] \in Request
      /\ TellsOf(req[r]) /\ (service = "xmr-admin" => PassesGates(req[r]))
  BY DEF Receive, At, HttpIInv, HttpTypeOK, RequestsOK, RequestOK
<1>2. CASE /\ req[r].size < MaxBody
           /\ req' = [req EXCEPT ![r].size = @ + 1]
           /\ UNCHANGED <<loop, queue, pool>>
  <2> DEFINE q == [req[r] EXCEPT !.size = req[r].size + 1]
  <2>1. req[r].size + 1 \in 0..MaxBody
    BY <1>1, <1>2, BodyAssumption DEF Request
  <2>2. /\ q \in Request /\ q.pc = "read" /\ q.status = req[r].status
        /\ q.job = req[r].job /\ q.got = req[r].got
        /\ q.hot = req[r].hot /\ q.effects = req[r].effects
        /\ q.route = req[r].route /\ q.trusted = req[r].trusted
        /\ q.secret = req[r].secret
    BY <1>1, <2>1 DEF Request
  <2>3. req' = [req EXCEPT ![r] = q] /\ UNCHANGED <<tx, open, durable, service>>
    BY <1>1, <1>2 DEF Idle
  <2> HIDE DEF q
  <2>4. RequestOK(q, service)
    BY <1>1, <2>2 DEF RequestOK, TellsOf, PassesGates
  <2> QED
    BY <1>1, <1>2, <2>2, <2>3, <2>4, LoopMove
<1>3. CASE Goes(r, "handle")
  BY <1>1, <1>3, GoesInv DEF TellsOf, PassesGates
<1>4. CASE Malformed(r)
  BY <1>1, <1>4, AnswersInv DEF Malformed, TellsOf
<1> QED
  BY <1>2, <1>3, <1>4 DEF Receive

\* An operation is run, where it was asked for by a request that may.
LEMMA RunsInv ==
  ASSUME HttpIInv, NEW r \in Callers, Runs(r), Idle, loop = None,
         req[r].pc \notin {"none", "wait"}, req[r].effects = {},
         service = "xmr-admin" =>
            /\ req[r].trusted /\ req[r].secret
            /\ req[r].route \notin Open => req[r].hot
  PROVE  HttpIInv'
<1>1. CASE req[r].route \in Queries \cup Blocking
  BY <1>1, AwaitsInv
<1>2. CASE req[r].route \notin Queries \cup Blocking
  <2>1. Answers(r, "done")
    BY <1>2 DEF Runs
  <2>2. req[r].route \notin Writes \cup Signs
    BY <1>2 DEF Queries, Writes, Signs
  <2> QED
    BY <2>1, <2>2, AnswersInv
<1> QED
  BY <1>1, <1>2

\* The gates of the administrator's service let through whom they should.
LEMMA GatesInv ==
  ASSUME HttpIInv, NEW r \in Callers,
         CheckClient(r) \/ AfterVerify(r) \/ AfterWritable(r)
  PROVE  HttpIInv'
<1>1. /\ req[r].pc \in {"gate", "back"} /\ loop = None /\ Idle
      /\ service \in {"xmr", "xmr-admin"}
      /\ TellsOf(req[r]) /\ (service = "xmr-admin" => PassesGates(req[r]))
  BY DEF CheckClient, AfterVerify, AfterWritable, Back, At, HttpIInv, HttpTypeOK,
         RequestsOK, RequestOK
<1>2. CASE CheckClient(r)
  <2>1. req[r].pc = "gate" /\ req[r].job = "none" /\ req[r].size = 0 /\ req[r].effects = {}
    BY <1>1, <1>2 DEF CheckClient, At, TellsOf
  <2>2. CASE service = "xmr" /\ Goes(r, "route")
    BY <1>1, <2>1, <2>2, GoesInv
  <2>3. CASE Answers(r, "refused")
    BY <1>1, <2>1, <2>3, AnswersInv
  <2>4. CASE service = "xmr-admin" /\ req[r].trusted /\ Awaits(r, "verify")
    BY <1>1, <2>1, <2>4, AwaitsInv
  <2> QED
    BY <1>2, <2>2, <2>3, <2>4 DEF CheckClient
<1>3. CASE AfterVerify(r)
  <2>1. req[r].pc = "back" /\ req[r].job = "verify" /\ req[r].effects = {}
    BY <1>1, <1>3 DEF AfterVerify, Back, At, TellsOf
  <2>2. CASE Answers(r, "refused")
    BY <1>1, <2>1, <2>2, AnswersInv
  <2>3. CASE req[r].got = "yes" /\ req[r].route \in Open /\ Goes(r, "route")
    BY <1>1, <2>1, <2>3, GoesInv DEF PassesGates
  <2>4. CASE req[r].got = "yes" /\ Awaits(r, "writable")
    BY <1>1, <2>1, <2>4, AwaitsInv DEF PassesGates
  <2>5. CASE Answers(r, "error")
    BY <1>1, <2>1, <2>5, AnswersInv
  <2> QED
    BY <1>3, <2>2, <2>3, <2>4, <2>5 DEF AfterVerify
<1>4. CASE AfterWritable(r)
  <2>1. req[r].pc = "back" /\ req[r].job = "writable" /\ req[r].effects = {}
    BY <1>1, <1>4 DEF AfterWritable, Back, At, TellsOf
  <2>2. CASE Answers(r, "refused")
    BY <1>1, <2>1, <2>2, AnswersInv
  <2>3. CASE Answers(r, "error")
    BY <1>1, <2>1, <2>3, AnswersInv
  <2>4. CASE req[r].got = "yes" /\ Goes(r, "route")
    BY <1>1, <2>1, <2>4, GoesInv DEF PassesGates
  <2> QED
    BY <1>4, <2>2, <2>3, <2>4 DEF AfterWritable
<1> QED
  BY <1>2, <1>3, <1>4

\* The handlers tell the client what came of the job.
LEMMA HandlersInv ==
  ASSUME HttpIInv, NEW r \in Callers,
         Route(r) \/ Handle(r) \/ AfterResolve(r) \/ AfterRun(r) \/ AfterSign(r)
  PROVE  HttpIInv'
<1>1. /\ req[r].pc \in {"route", "handle", "back"} /\ loop = None /\ Idle
      /\ service \in {"xmr", "xmr-admin"}
      /\ TellsOf(req[r]) /\ (service = "xmr-admin" => PassesGates(req[r]))
  BY DEF Route, Handle, AfterResolve, AfterRun, AfterSign, Back, At, HttpIInv,
         HttpTypeOK, RequestsOK, RequestOK
<1>2. CASE Route(r)
  <2>1. /\ req[r].pc = "route" /\ req[r].effects = {}
        /\ req[r].job \in {"none", "verify", "writable"}
    BY <1>1, <1>2 DEF Route, At, TellsOf
  <2>2. CASE Malformed(r)
    BY <1>1, <2>1, <2>2, AnswersInv DEF Malformed
  <2>3. CASE Goes(r, "read") \/ Goes(r, "handle")
    BY <1>1, <2>1, <2>3, GoesInv DEF PassesGates
  <2> QED
    BY <1>2, <2>2, <2>3 DEF Route
<1>3. CASE Handle(r)
  <2>1. req[r].pc = "handle" /\ req[r].effects = {}
    BY <1>1, <1>3 DEF Handle, At, TellsOf
  <2>2. CASE Answers(r, "refused")
    BY <1>1, <2>1, <2>2, AnswersInv
  <2>3. CASE Authenticated(r) /\ Awaits(r, "resolve")
    BY <1>1, <2>1, <2>3, AwaitsInv DEF Authenticated
  <2>4. CASE Runs(r)
    BY <1>1, <2>1, <2>4, RunsInv DEF PassesGates
  <2> QED
    BY <1>3, <2>2, <2>3, <2>4 DEF Handle
<1>4. CASE AfterResolve(r)
  <2>1. /\ req[r].pc = "back" /\ req[r].job = "resolve" /\ req[r].effects = {}
        /\ service # "xmr-admin"
    BY <1>1, <1>4 DEF AfterResolve, Back, At, TellsOf, PassesGates
  <2>2. CASE Answers(r, "error")
    BY <1>1, <2>1, <2>2, AnswersInv
  <2>3. CASE Answers(r, "refused")
    BY <1>1, <2>1, <2>3, AnswersInv
  <2>4. CASE Runs(r)
    BY <1>1, <2>1, <2>4, RunsInv
  <2> QED
    BY <1>4, <2>2, <2>3, <2>4 DEF AfterResolve
<1>5. CASE AfterRun(r)
  <2>1. req[r].pc = "back" /\ req[r].job = "run"
    BY <1>5 DEF AfterRun, Back, At
  <2>2. CASE Answers(r, "error")
    BY <1>1, <2>1, <2>2, AnswersInv
  <2>3. CASE req[r].got = "no" /\ Answers(r, "refused")
    BY <1>1, <2>1, <2>3, AnswersInv DEF TellsOf
  <2>4. CASE req[r].got = "yes" /\ req[r].route \in Signs /\ Awaits(r, "sign")
    BY <1>1, <2>1, <2>4, AwaitsInv DEF TellsOf, PassesGates
  <2>5. CASE req[r].got = "yes" /\ req[r].route \notin Signs /\ Answers(r, "done")
    BY <1>1, <2>1, <2>5, AnswersInv DEF TellsOf
  <2> QED
    BY <1>5, <2>2, <2>3, <2>4, <2>5 DEF AfterRun
<1>6. CASE AfterSign(r)
  <2>1. req[r].pc = "back" /\ req[r].job = "sign"
    BY <1>6 DEF AfterSign, Back, At
  <2>2. CASE req[r].got = "yes"
    <3>1. Answers(r, "done")
      BY <1>6, <2>2 DEF AfterSign
    <3> QED
      BY <1>1, <2>1, <2>2, <3>1, AnswersInv DEF TellsOf
  <2>3. CASE req[r].got # "yes"
    <3>1. Answers(r, "error")
      BY <1>6, <2>3 DEF AfterSign
    <3> QED
      BY <1>1, <2>1, <3>1, AnswersInv
  <2> QED
    BY <2>2, <2>3
<1> QED
  BY <1>2, <1>3, <1>4, <1>5, <1>6

\* Every step keeps the invariant.
LEMMA HttpNextInv ==
  ASSUME HttpIInv, [HttpNext]_hvars
  PROVE  HttpIInv'
<1>1. ASSUME NEW r \in Callers, NEW route \in Routes, NEW trusted \in BOOLEAN,
             NEW secret \in BOOLEAN, Arrive(r, route, trusted, secret)
      PROVE  HttpIInv'
  BY <1>1, ArriveInv
<1>2. ASSUME NEW r \in Callers, Leave(r) \/ Receive(r) \/ Spin(r)
      PROVE  HttpIInv'
  BY <1>2, LeaveInv, ReceiveInv, SpinInv
<1>3. ASSUME NEW r \in Callers, LoopStep(r)
      PROVE  HttpIInv'
  BY <1>3, GatesInv, HandlersInv, RespondInv DEF LoopStep
<1>4. ASSUME NEW r \in Callers, Take(r)
      PROVE  HttpIInv'
  BY <1>4, TakeInv
<1>5. ASSUME NEW r \in Callers, JobStep(r)
      PROVE  HttpIInv'
  BY <1>5, VerifyInv, ReturnEarlyInv, WorkInv, ReturnInv DEF JobStep
<1>6. CASE UNCHANGED hvars
  BY <1>6 DEF hvars, HttpIInv, HttpTypeOK, TxIInv, TxTypeOK, QueueOK, LinkOK,
              RequestsOK, Running, JobWrites
<1> QED
  BY <1>1, <1>2, <1>3, <1>4, <1>5, <1>6 DEF HttpNext

-----------------------------------------------------------------------------
\* The inductive invariant holds whenever an application serves, fair or not.
THEOREM HttpInvariance == HttpSpec => []HttpIInv
<1>1. HttpInit => HttpIInv
  BY HttpInitInv
<1>2. HttpIInv /\ [HttpNext]_hvars => HttpIInv'
  BY HttpNextInv
<1> QED
  BY <1>1, <1>2, PTL DEF HttpSpec

\* HttpTypeOK: the default executor is never asked for a thread it does not have,
\* and a body never passes the limit of _read_body.
THEOREM HttpTypeCorrect == HttpSpec => []HttpTypeOK
<1>1. HttpIInv => HttpTypeOK
  BY DEF HttpIInv
<1> QED
  BY <1>1, HttpInvariance, PTL

\* GatesHold: on the administrator's service the peer is looked at before the
\* credential, the credential before the database, and the database before the
\* body and the operation.
THEOREM GatesInOrder == HttpSpec => []GatesHold
<1>1. HttpIInv => GatesHold
  BY DEF HttpIInv, RequestsOK, RequestOK, PassesGates, GatesHold
<1> QED
  BY <1>1, HttpInvariance, PTL

\* AnswerTells: what an operation answers agrees with what it left in the database.
THEOREM AnswersAreTrue == HttpSpec => []AnswerTells
<1>1. HttpIInv => AnswerTells
  BY DEF HttpIInv, RequestsOK, RequestOK, TellsOf, AnswerTells
<1> QED
  BY <1>1, HttpInvariance, PTL

\* ConnectionsEnd: a connection is open only while its job runs.
THEOREM NoConnectionLeft == HttpSpec => []ConnectionsEnd
<1>1. HttpIInv => ConnectionsEnd
  BY DEF HttpIInv, HttpTypeOK, TxTypeOK, LinkOK, ConnectionsEnd
<1> QED
  BY <1>1, HttpInvariance, PTL
=============================================================================
