----------------------------- MODULE HttpServer -----------------------------
(***************************************************************************)
(* The two ASGI applications, web/server.py and admin/server.py, on the    *)
(* shared web/Server.py and web/Interface.py: one event loop, the threads  *)
(* of asyncio.to_thread, and the requests they serve.                      *)
(*                                                                         *)
(* A coroutine runs on the loop until it awaits something that is not      *)
(* there yet; blocking work waits in a queue for one of the threads.  A    *)
(* handler that blocks keeps the loop.  What an operation does in the      *)
(* database is a Transaction.  uvicorn is modelled from how it is used: it *)
(* answers 500 for an exception that leaves the application, and its       *)
(* receive() answers http.disconnect, at once and every time, when the     *)
(* client is gone.                                                         *)
(***************************************************************************)
EXTENDS Transaction, Integers, Sequences, FiniteSets

CONSTANTS
    None,        \* nobody keeps the loop
    Threads,     \* size of the default executor
    MaxBody      \* messages of a body that fit the limit of _read_body

ASSUME ThreadsAssumption == Threads \in Nat \ {0}
ASSUME BodyAssumption == MaxBody \in Nat
ASSUME LoopAssumption == None \notin Callers

VARIABLES
    service,     \* which of the two applications this is
    req,         \* the requests under way
    loop,        \* the request that keeps the event loop, if any
    queue,       \* requests whose job waits for a thread
    pool         \* requests whose job a thread is doing

hvars == <<tx, open, durable, service, req, loop, queue, pool>>

\* Routes are told apart by how they are served, HEAD like GET.  "static" are the
\* pages without data, "page" those with, "act" the operations that change
\* something; "unknown" is an /api operation that does not exist, "missing" a
\* path or method that does not exist, which may come with a body too.
Portal == {"static", "page", "new_pool", "act", "signin", "signup", "unknown", "missing"}
Admin == {"health", "logo", "page", "act", "unknown", "missing"}
Routes == Portal \cup Admin

InApi == {"act", "signin", "signup", "unknown"}
Posted == InApi \cup {"missing"}
Blocking == {"page", "act", "signin", "signup", "logo"}
Queries == {"page", "new_pool", "act", "signin", "signup"}
Writes == {"act", "signup"}
Signs == {"signin", "signup"}
Open == {"health", "logo"}

Authenticated(r) == service = "xmr" /\ req[r].route \in {"page", "new_pool", "act"}

\* `job` is the blocking work asked for last and `got` what came of it;
\* `hot` that site_data_is_writable said yes; `effects` are the jobs whose
\* writes are in the database.
Request ==
    [pc : {"none", "gate", "wait", "back", "route", "read", "handle", "answer"},
     route : Routes, trusted : BOOLEAN, secret : BOOLEAN, gone : BOOLEAN,
     size : 0..MaxBody,
     job : {"none", "verify", "writable", "resolve", "run", "sign"},
     got : {"none", "yes", "no", "error"}, hot : BOOLEAN,
     effects : SUBSET {"run", "sign"},
     status : {"none", "done", "refused", "error"}]

NoRequest == [pc |-> "none", route |-> "static", trusted |-> TRUE, secret |-> TRUE,
              gone |-> FALSE, size |-> 0, job |-> "none", got |-> "none",
              hot |-> FALSE, effects |-> {}, status |-> "none"]

HttpInit ==
    /\ TxInit
    /\ service \in {"xmr", "xmr-admin"}
    /\ req = [r \in Callers |-> NoRequest]
    /\ loop = None
    /\ queue = <<>>
    /\ pool = {}

At(r, pc) == req[r].pc = pc /\ loop = None

Goes(r, pc) == req' = [req EXCEPT ![r].pc = pc] /\ UNCHANGED <<loop, queue, pool>>

\* await asyncio.to_thread(job)
Awaits(r, job) ==
    /\ req' = [req EXCEPT ![r] = [req[r] EXCEPT !.pc = "wait", !.job = job, !.got = "none"]]
    /\ queue' = Append(queue, r)
    /\ UNCHANGED <<loop, pool>>

\* "done": 200, or the redirect after an action; "refused": any 4xx, 503, or the
\* redirect to /login; "error": 500.
Answers(r, status) ==
    /\ req' = [req EXCEPT ![r] = [req[r] EXCEPT !.pc = "answer", !.status = status]]
    /\ UNCHANGED <<loop, queue, pool>>

Idle == UNCHANGED <<tx, open, durable, service>>
-----------------------------------------------------------------------------
(* Server.__call__ and its gates.                                          *)

\* Peer and credentials matter to the administrator's service alone.
Arrive(r, route, trusted, secret) ==
    /\ At(r, "none")
    /\ route \in IF service = "xmr" THEN Portal ELSE Admin
    /\ service = "xmr" => trusted /\ secret
    /\ req' = [req EXCEPT ![r] = [NoRequest EXCEPT !.pc = "gate", !.route = route,
                                      !.trusted = trusted, !.secret = secret]]
    /\ UNCHANGED <<loop, queue, pool>>
    /\ Idle

\* The client closes the connection while it still owes the body, or at least
\* before the body has been read.
Leave(r) ==
    /\ loop = None
    /\ req[r].pc # "none" /\ ~req[r].gone
    /\ req[r].route \in Posted
    /\ req[r].pc \in {"gate", "route", "read"} \/ req[r].job \in {"verify", "writable"}
    /\ req[r].status = "none"
    /\ req' = [req EXCEPT ![r].gone = TRUE]
    /\ UNCHANGED <<loop, queue, pool>>
    /\ Idle

\* client_is_allowed, and the first await of the gates.
CheckClient(r) ==
    /\ At(r, "gate")
    /\ \/ service = "xmr" /\ Goes(r, "route")
       \/ service = "xmr-admin" /\ ~req[r].trusted /\ Answers(r, "refused")
       \/ service = "xmr-admin" /\ req[r].trusted /\ Awaits(r, "verify")
    /\ Idle

Back(r, job) == At(r, "back") /\ req[r].job = job

\* A slip that would break GatesHold: a coroutine that is not awaited is true.
AfterVerifyUnawaited(r) ==
    /\ Back(r, "verify")
    /\ \/ req[r].got = "error" /\ Answers(r, "error")
       \/ req[r].got = "no" /\ Answers(r, "refused")
       \/ req[r].got = "yes" /\ Goes(r, "route")
    /\ Idle

\* request_is_authenticated is done; site_data_is_available asks the database,
\* for some paths not.
AfterVerify(r) ==
    /\ Back(r, "verify")
    /\ \/ req[r].got = "error" /\ Answers(r, "error")
       \/ req[r].got = "no" /\ Answers(r, "refused")
       \/ req[r].got = "yes" /\ req[r].route \in Open /\ Goes(r, "route")
       \/ req[r].got = "yes" /\ req[r].route \notin Open /\ Awaits(r, "writable")
    /\ Idle

\* A slip that would break HttpAnswered: an error of the gate is logged, and
\* nobody answers.
AfterWritableSilent(r) ==
    /\ Back(r, "writable")
    /\ \/ req[r].got = "no" /\ Answers(r, "refused")
       \/ req[r].got = "yes" /\ Goes(r, "route")
    /\ Idle

AfterWritable(r) ==
    /\ Back(r, "writable")
    /\ \/ req[r].got = "error" /\ Answers(r, "error")
       \/ req[r].got = "no" /\ Answers(r, "refused")
       \/ req[r].got = "yes" /\ Goes(r, "route")
    /\ Idle

-----------------------------------------------------------------------------
(* The handlers of compile_route and compile_dispatch.                     *)

\* _route finds the handler, and _read_arguments parses the query: what it
\* raises is a 400 for /api and an exception elsewhere.
Malformed(r) == Answers(r, IF req[r].route \in InApi THEN "refused" ELSE "error")

Route(r) ==
    /\ At(r, "route")
    /\ \/ req[r].route \in Posted /\ Goes(r, "read")
       \/ req[r].route \notin InApi /\ Goes(r, "handle")
       \/ Malformed(r)
    /\ Idle

\* A slip that would break HttpTypeOK: the limit is off by one.
ReceiveOneMore(r) ==
    /\ At(r, "read")
    /\ ~req[r].gone
    /\ \/ /\ req[r].size <= MaxBody
          /\ req' = [req EXCEPT ![r].size = @ + 1]
          /\ UNCHANGED <<loop, queue, pool>>
       \/ Goes(r, "handle")
       \/ Malformed(r)
    /\ Idle

\* _read_body takes a message with a part of the body, or the last, empty one.
\* A body over the limit, or one that cannot be parsed, raises.
Receive(r) ==
    /\ At(r, "read")
    /\ ~req[r].gone
    /\ \/ /\ req[r].size < MaxBody
          /\ req' = [req EXCEPT ![r].size = @ + 1]
          /\ UNCHANGED <<loop, queue, pool>>
       \/ Goes(r, "handle")
       \/ Malformed(r)
    /\ Idle

\* The client is gone: receive() does not suspend, the message is skipped, and
\* the handler asks again.  Nothing else runs on this loop any more.
Spin(r) ==
    /\ req[r].pc = "read" /\ req[r].gone
    /\ loop \in {None, r}
    /\ loop' = r
    /\ UNCHANGED <<req, queue, pool>>
    /\ Idle

\* _run: in a thread, or here.  Only new_pool has something to wait for here.
Runs(r) ==
    IF req[r].route \in Blocking THEN Awaits(r, "run")
    ELSE IF req[r].route \in Queries
    THEN /\ req' = [req EXCEPT ![r] = [req[r] EXCEPT !.pc = "wait", !.job = "run",
                                                 !.got = "none"]]
         /\ loop' = r
         /\ UNCHANGED <<queue, pool>>
    ELSE Answers(r, "done")

Handle(r) ==
    /\ At(r, "handle")
    /\ \/ req[r].route \in {"unknown", "missing"} /\ Answers(r, "refused")
       \/ Authenticated(r) /\ Awaits(r, "resolve")
       \/ /\ ~Authenticated(r) /\ req[r].route \notin {"unknown", "missing"}
          /\ Runs(r)
    /\ Idle

\* _add_authenticated_account: without an account, a redirect to /login.
AfterResolve(r) ==
    /\ Back(r, "resolve")
    /\ \/ req[r].got = "error" /\ Answers(r, "error")
       \/ req[r].got = "no" /\ Answers(r, "refused")
       \/ req[r].got = "yes" /\ Runs(r)
    /\ Idle

\* _finish_authentication signs in whoever the operation has authenticated.
AfterRun(r) ==
    /\ Back(r, "run")
    /\ \/ req[r].got = "error" /\ Answers(r, "error")
       \/ req[r].got = "no" /\ Answers(r, "refused")
       \/ req[r].got = "yes" /\ req[r].route \in Signs /\ Awaits(r, "sign")
       \/ req[r].got = "yes" /\ req[r].route \notin Signs /\ Answers(r, "done")
    /\ Idle

AfterSign(r) ==
    /\ Back(r, "sign")
    /\ Answers(r, IF req[r].got = "yes" THEN "done" ELSE "error")
    /\ Idle

\* _respond: the body is complete before the first send.
Respond(r) ==
    /\ At(r, "answer")
    /\ req' = [req EXCEPT ![r] = NoRequest]
    /\ UNCHANGED <<loop, queue, pool>>
    /\ Idle

-----------------------------------------------------------------------------
(* The threads.                                                            *)

\* A free thread takes the oldest job.
Take(r) ==
    /\ queue # <<>> /\ r = Head(queue)
    /\ Cardinality(pool) < Threads
    /\ queue' = Tail(queue)
    /\ pool' = pool \cup {r}
    /\ UNCHANGED <<tx, open, durable, service, req, loop>>

Running(r) == r \in pool \/ (loop = r /\ req[r].pc = "wait")

\* The job returns or raises; the loop hears of it.
Settles(r, got) ==
    /\ req' = [req EXCEPT ![r] = [req[r] EXCEPT
                   !.pc = "back", !.got = got,
                   !.hot = req[r].hot \/ (req[r].job = "writable" /\ got = "yes"),
                   !.effects = IF durable[r] THEN req[r].effects \cup {req[r].job}
                               ELSE req[r].effects]]
    /\ pool' = pool \ {r}
    /\ loop' = IF loop = r THEN None ELSE loop
    /\ UNCHANGED <<queue, service>>

\* BasicAuthentication.verify; compare_digest raises for a name that is not ASCII.
Verify(r) ==
    /\ Running(r) /\ req[r].job = "verify"
    /\ \/ req[r].secret /\ Settles(r, "yes")
       \/ ~req[r].secret /\ \E got \in {"no", "error"} : Settles(r, got)
    /\ UNCHANGED tvars

\* An operation that needs no database, or returns before it writes anything: a
\* form that is not valid, a row that is not there, a wrong password.
ReturnEarly(r) ==
    /\ Running(r) /\ req[r].job = "run" /\ tx[r].pc = "idle"
    /\ \/ req[r].route = "logo" /\ Settles(r, "yes")
       \/ req[r].route \in Queries \ {"new_pool"} /\ Settles(r, "no")
    /\ UNCHANGED tvars

JobWrites(r) ==
    \/ req[r].job = "sign"
    \/ req[r].job = "run" /\ req[r].route \in Writes

\* The job opens the transaction that writes, or one that reads.
Begin(r) ==
    /\ Running(r) /\ tx[r].pc = "idle"
    /\ req[r].job \in {"writable", "resolve", "sign"} \/
       (req[r].job = "run" /\ req[r].route \in Queries)
    /\ LET kind == IF JobWrites(r) THEN "write" ELSE "read" IN
          Connect(r, kind) \/ ConnectFails(r, kind)
    /\ UNCHANGED <<service, req, loop, queue, pool>>

DbStep(r) ==
    /\ Running(r)
    /\ TxStep(r)
    /\ UNCHANGED <<service, req, loop, queue, pool>>

\* A slip that would break AnswerTells: every exception is taken for a duplicate.
ReturnRefusals(r) ==
    /\ Running(r) /\ tx[r].pc = "over"
    /\ \/ tx[r].result # "value" /\ Settles(r, IF req[r].job = "run" THEN "no" ELSE "error")
       \/ tx[r].result = "value" /\ Settles(r, "yes")
    /\ Forget(r)

\* The job ends with what the database said.  The gate, the session and a page
\* may say no; a duplicate is a refusal; after its write, or its duplicate, an
\* operation reads on, and may fail there.
Return(r) ==
    /\ Running(r) /\ tx[r].pc = "over"
    /\ \/ tx[r].result = "error" /\ Settles(r, "error")
       \/ tx[r].result = "duplicate" /\ Settles(r, IF req[r].job = "run" THEN "no" ELSE "error")
       \/ tx[r].result = "value" /\ Settles(r, "yes")
       \/ tx[r].result # "error" /\ req[r].job = "run" /\ Settles(r, "error")
       \/ tx[r].result = "value" /\ req[r].job \in {"writable", "resolve"} /\ Settles(r, "no")
    /\ Forget(r)

-----------------------------------------------------------------------------
LoopStep(r) ==
    \/ CheckClient(r)
    \/ AfterVerify(r)
    \/ AfterWritable(r)
    \/ Route(r)
    \/ Handle(r)
    \/ AfterResolve(r)
    \/ AfterRun(r)
    \/ AfterSign(r)
    \/ Respond(r)

JobStep(r) ==
    \/ Verify(r)
    \/ ReturnEarly(r)
    \/ Begin(r)
    \/ DbStep(r)
    \/ Return(r)

HttpNext ==
    \/ \E r \in Callers, route \in Routes, trusted, secret \in BOOLEAN :
          Arrive(r, route, trusted, secret)
    \/ \E r \in Callers : Leave(r) \/ Receive(r) \/ Spin(r)
    \/ \E r \in Callers : LoopStep(r)
    \/ \E r \in Callers : Take(r)
    \/ \E r \in Callers : JobStep(r)

HttpSpec == HttpInit /\ [][HttpNext]_hvars

\* The loop runs its ready callbacks in turn, so one that is ready again and
\* again is run; threads run on, and MariaDB answers or times out.  Clients
\* need not send anything.
HttpFairness ==
    \A r \in Callers :
        /\ SF_hvars(LoopStep(r))
        /\ WF_hvars(Take(r))
        /\ WF_hvars(JobStep(r))

HttpFairSpec == HttpSpec /\ HttpFairness

-----------------------------------------------------------------------------
HttpTypeOK ==
    /\ TxTypeOK
    /\ service \in {"xmr", "xmr-admin"}
    /\ req \in [Callers -> Request]
    /\ loop \in Callers \cup {None}
    /\ queue \in Seq(Callers)
    /\ pool \subseteq Callers /\ Cardinality(pool) <= Threads

\* On the administrator's service nothing is asked of the database for a client
\* that is not of the trusted network or has not given the credential, and no
\* operation runs, nor is a body read, before the database has said that it is
\* the writable one; /health and the logo only do without the last.  So nobody
\* else's unread body can keep that service's loop.
GatesHold ==
    \A r \in Callers : service = "xmr-admin" /\ req[r].pc # "none" =>
        /\ req[r].job # "none" \/ req[r].pc = "read" => req[r].trusted
        /\ req[r].job \in {"writable", "run"} \/ req[r].pc = "read" => req[r].secret
        /\ (req[r].job = "run" \/ req[r].pc = "read") /\ req[r].route \notin Open =>
              req[r].hot

\* What a client is told of its own request is the truth, whatever fails on the
\* way: after "done" everything is in the database, after a refusal nothing is;
\* only a 500 leaves it open.
AnswerTells ==
    \A r \in Callers : req[r].pc = "answer" =>
        /\ req[r].status = "done" =>
              /\ req[r].route \in Writes => "run" \in req[r].effects
              /\ req[r].route \in Signs => "sign" \in req[r].effects
        /\ req[r].status = "refused" => req[r].effects = {}

\* A connection is open only while its job runs, in a thread or on the loop:
\* whatever raises, an answered request leaves none behind.
ConnectionsEnd == \A r \in open : Running(r) /\ tx[r].pc # "over"

\* Every request is either waiting for its own client or answered: a slow
\* client, a full pool or a query on the loop holds nobody for ever.  It takes
\* a client that leaves before its body was read to stop the loop.
Served(r) == req[r].pc \in {"none", "read"}

HttpAnswered ==
    []~(\E r \in Callers : loop = r /\ req[r].pc = "read") =>
        \A r \in Callers : ~Served(r) ~> Served(r)
=============================================================================
