# Verification of the XMR portal

TLA+ models of the portal, its administration, its MariaDB tables, its hot/cold
pair and its installation, checked with TLC and, where the prover reaches,
proved with TLAPS. Paths such as `mgr/SessMgr.py:71` are relative to the root of
the repository.

1. [The system](#the-system)
2. [Modules](#modules)
3. [Runs](#runs)
4. [Fairness](#fairness)
5. [Proofs](#proofs)
6. [What the runs found](#what-the-runs-found)
7. [What is not modelled](#what-is-not-modelled)
8. [Plan](#plan)

## The system

Two nodes run the same software behind Caddy. On each, `xmr.service` is the
public portal and `xmr-admin.service` the administration; both are asyncio ASGI
applications that do their blocking work in threads (`asyncio.to_thread`), with
one MariaDB connection per transaction. One node is hot; the other replicates
its database and is made hot by a shell script.

| Component | Code | State it keeps | Operations that change it |
|---|---|---|---|
| Sessions | `mgr/SessMgr.py`, `db/SessDb.py` | table `sessions`; a call holds the row it has read | `get_or_create`, `get_authenticated`, `authenticate`, `revoke` |
| Portal sign-in | `mgr/AcctMgr.py`, `mgr/AppMgr.py`, `web/UserSession.py`, `web/Interface.py` | the account a request has read | `/login`, `/signup`, authenticated routes |
| Account administration | `mgr/AdminMgr.py`, `db/AdminDb.py`, `db/AppDb.py` | table `users` | `set_account_status`, `update_account`, `create_user` |
| Pools | `db/PoolDb.py`, `mgr/PoolMgr.py` | tables `pools`, `pool_port_sequence`; a transaction's port | `create_pool`, `update_chain` |
| Database adapter | `db/XmrDb.py`, `db/DbMgr.py` | one connection per transaction | `transaction`, `execute`, `fetch_*` |
| Cluster | `scripts/cluster-mgr.sh`, `scripts/db-mgr.sh` | services, `read_only`, replication and its positions on two nodes | `failover-to`, `promote`, `demote`, `restart` |
| Installation | `scripts/initial-install.sh`, `scripts/env-reset.sh` | `/opt/xmr`, `/opt/xmr_ops`, `/root/.xmr`, units, Caddyfile, database | `main` of both |
| HTTP interface | `web/Interface.py`, `web/Server.py`, `web/server.py` | the event loop, the threads and their queue; per request what came of each job | gates, dispatch, body, operation, answer |
| Admin server | `admin/server.py` | per request | network, credential and `read_only` gates |
| Upgrade | `scripts/upgrade-install.sh` | installed files, record of the release | `main` |
| Release tooling, DNS report | `scripts/new-release.sh`, `scripts/pre-release.sh`, `scripts/dns_report.py` | a developer's clone; none | git commands; none |

They interact through the database and through the services:

- the portal asks `SessMgr` for a session and `AcctMgr` for an account, and
  keeps what it was told while a password is being verified;
- the administrator's service writes the rows of `users` and `sessions` under
  the requests of the portal;
- a request passes from the event loop to a thread and back for every piece of
  blocking work; each piece uses the database in transactions of its own;
- `create_pool` requests meet at the row lock on `pool_port_sequence` and at the
  unique keys of `pools`;
- `cluster-mgr.sh` stops and starts the portal on two nodes, and calls
  `db-mgr.sh` there to close, open and repoint the databases, while the
  administrator's service, which it never stops, goes on writing;
- the installation writes what the services, `db-mgr.sh` and the reset rely on.

What is hard in it, and what makes each part correct:

| Part | Hard behaviour | Correct when |
|---|---|---|
| Sessions | time and row are read before the statement that uses them; two calls on one session; revocation in between | expiry never passes the lifetime, one login wins a session, a revoked row is never written, an answer is for the account that holds the session now |
| Portal | the account is read long before the session is written | nobody knows the token of a session not logged in; a disabled account gets no session |
| Pools | lock, unique keys, rollback, lost acknowledgement, last port | no port is lost, shared or given out of turn; refusals are true; every request is answered |
| Account administration | row locks and two unique keys that edits may swap; a name confirmed against a row read earlier | names and wallets stay unique; a status changes only under a name the account had; no request waits for ever |
| Database adapter | every call of the connector may raise, the rollback and the close too | a call takes effect as a whole or not at all; a value means yes, "duplicate" means no; no connection is left open |
| HTTP services | one loop for all; blocking work on it; errors after a write; clients that leave | every request is answered; the answer is true; nothing passes the administrator's gates in another order |
| Cluster | a script of remote statements that dies anywhere; writes and replication under it; restarts | one writable database, no writable replica, no write lost silently, every command ends |
| Installation | a script that dies anywhere, then the other script, then a restart | a running portal has its database; the node gets its Caddyfile back; the last words of each script are true |

`PROJECT.json` lists every hazard at the line where it bites, with the
properties that guard it.

## Modules

| Module | Models | Built on |
|---|---|---|
| `Sessions` | every statement of `SessMgr`/`SessDb`, `create_user`, `set_account_status` | - |
| `SessionsProofs` | theorems about `Sessions` | `Sessions` |
| `Portal` | login, sign-up, pages, the administrator; composes the calls of `Sessions` into requests | `Sessions`; implements `Sessions!Spec` |
| `PortalProofs` | theorems about `Portal`, that it implements `Sessions!Spec` among them | `Portal`, `SessionsProofs` |
| `PoolRegistry` | abstract: pools appear one at a time, each with the lowest free port | - |
| `Pools` | `PoolDb` statement by statement, with transactions | implements `PoolRegistry` |
| `PoolsProofs` | theorems about `Pools`, the refinement among them | `Pools` |
| `Directory` | abstract: accounts with unique names and wallets | - |
| `Accounts` | sign-up, edit and change of status on `users`, with InnoDB's locks | implements `Directory` |
| `AccountsProofs` | theorems about `Accounts`, the refinement among them | `Accounts` |
| `AtomicCalls` | abstract: a database call happens once, as a whole, and tells the truth | - |
| `Transaction` | `XmrDb.transaction` with everything that may raise in it | implements `AtomicCalls` |
| `HttpServer` | both ASGI applications: loop, threads, gates, handlers, answers | `Transaction` |
| `TransactionProofs` | theorems about `Transaction` and its use by `HttpServer` | `HttpServer` |
| `HttpServerProofs` | theorems about the gates, answers and connections of `HttpServer` | `TransactionProofs` |
| `Cluster` | `cluster-mgr.sh` and `db-mgr.sh` on two nodes, MariaDB replication | - |
| `ClusterProofs` | theorems about `Cluster` | `Cluster` |
| `Install` | `initial-install.sh` and `env-reset.sh` on one node | - |
| `InstallProofs` | theorems about `Install` | `Install` |
| `MC...` | instances for TLC | the module they name |

### Sessions

One `SessDb` method is one transaction, so one step. A worker (`calls[w]`) is a
thread inside a `SessMgr` method: `pc` is the statement it executes next
(`find`, `touch`, `create`, `rotate`), `now` the time it took when the call
began, and `id`, `account`, `authenticated`, `absolute` the row as it read it.
All of these may be stale when used. `held` is a `Session` in its caller's hands.

`FindMisses`, `FindHits`, `TouchHits`, `TouchMisses`, `Create`, `Authenticate`,
`RotateHits`, `RotateMisses` are the statements; `Abort` is a database error or a
restart of the service between two of them. `TouchMisses` may also happen when
the row is live and the update changes nothing: MariaDB counts *changed* rows and
the code takes a count other than 1 for a miss. Digests stand for their tokens
(the hash is taken as injective) and the shape check of a token is the choice
`None`. The clock is shared; a call sees it as it was when it began.

`rows`, `status` are the tables; `issued`, `cookies` are history: which tokens
were generated, and which a client was given.

### Portal

`task[w]` is what the handler around those calls knows: `verify` after
`find_login_account`, `signin` once the password is right and the status that
was *read* is active, `page` for an authenticated route. Every action of Portal
is an action of Sessions plus a change of `task`, which `UsesSessions` checks.
Three things the module leaves out make no difference to it: validation of
fields, the cookie's attributes, and what a page does after `resolve`.

### Pools

`pools` and `nextPort` are the committed tables; `lock` is the row lock that
`SELECT ... FOR UPDATE` takes; `calls[w]` is a transaction with what it has
written and not committed. `Committed` publishes both writes at once.
`CommitUnanswered` is a commit whose acknowledgement is lost. `Change` waits
while an uncommitted insert holds the unique key it needs (`KeyLocked`).

The mapping to `PoolRegistry` is the identity on `pools`: everything before the
commit is a stutter.

### Accounts

`calls[w]` is one of the three statements on `users`, each in a transaction of its
own, from the request on: `read` (`_set_status` reads the account and compares
the confirmed name), `row` (an UPDATE waits for its row), `keys` (it or an INSERT
waits for the two unique keys of its new values), `commit`. `Blocks` is what
InnoDB makes it wait for: a transaction that is not over and has inserted the key,
or removed it by an edit. `Deadlocked` is a set of transactions that wait for
each other in this way, and `Victim` the one MariaDB rolls back. `Fold` is what
the collation `utf8mb4_unicode_ci` compares. `borne` is history: the account
has had the confirmed name at some time since the request came.

Left out: what a change of status does to sessions (`Sessions`), validation of the
fields (a form that is not valid changes nothing), the lists and forms. The
mapping to `Directory` is the identity on `users`.

### Transaction

`tx[c]` follows one caller through the context manager: `work` (connected, in
the body of the `with`), `commit`, `rollback`, `close`, `over`. Each call of the
connector is a step and may raise; `result` is the value or the exception that is
on its way. `CommitFails` leaves open whether MariaDB has committed. Only errno
1062 of a statement is told apart, since it is the only one the callers ask for.
`open` holds the connections. To `AtomicCalls` a caller has asked from connect
on, and knows a result at `over`.

### HttpServer

`service` is one of the two applications, chosen at the start. `loop` is the
request that keeps the event loop, `None` when it takes the next ready callback;
`queue` and `pool` are the executor of `asyncio.to_thread`. `req[r]` is a
coroutine: `pc` where it goes on, `job` the blocking work it asked for last and
`got` what came of it. The jobs are the awaits of the code:

| `job` | Code |
|---|---|
| `verify` | `request_is_authenticated`, the administrator's credential |
| `writable` | `site_data_is_writable` |
| `resolve` | `_add_authenticated_account` |
| `run` | the operation of a route or an action |
| `sign` | `_finish_authentication` |

Routes are grouped by how they are served (`static`, `page`, `act`, `signin`,
...); `new_pool` stands alone because its query lacks `blocking=True` and runs on
the loop. `Spin` is `_read_body` on a connection whose client is gone: `receive()`
answers `http.disconnect` without suspending, the message is skipped, and the loop
is never given back. An operation is an early return, or the one transaction that
matters for what its client is told: the one that writes, if there is one. Reads
before it collapse into `ReturnEarly`, reads after it into a `Return` that fails.
HEAD is served like GET, a query that cannot be parsed is a choice
(`Malformed`), and uvicorn, asyncio's executor and MariaDB are modelled from how
the code uses them.

### Cluster

`script` is the operator's command: `cmd`, the statement `pc` it is at, the
`node` it is about. `failover-to` walks healthy, stop, wait, read-only, reset,
open, then demotes the old primary (demote, position, close, forget, replicate,
running), then start; `promote` and `demote` are the respective parts. `Dies`
ends a command between any two statements and undoes nothing, as `set -e`, a lost
connection or an interrupt do. `CheckFails` is a check that is not satisfied or a
machine that does not answer.

MariaDB is modelled by what the scripts use of it:

- `binlog[n]` holds the writes made on `n` itself (`log_slave_updates` is not
  set); `got` and `done` are the positions of the I/O and the SQL thread in the
  peer's binlog;
- `CaughtUp` is `Seconds_Behind_Master: 0`: nothing that was *received* and is
  not applied is older than a second (`recent`);
- a restart turns `read_only` off (`SET GLOBAL` is not persistent) and resumes
  replication (`Boot`);
- `RESET SLAVE ALL` drops what was received and not applied.

One assumption about the operator is in the model: one command runs at a time.
`promote` on its own is meant for an emergency, when `status` shows the peer
unreachable or read-only, but the script does not check this, and neither does
`Promote`: over an open peer it is one command away from two writable databases.
The history variable `intact` records that this has happened, or that a machine
has come back that had to stay away, and the safety properties hold until then.

### Install

`script.pc` is the next step of the script that runs: a statement, or some whose
parts no property tells apart (the directories, the unit files, the grants).
`Ends` may stop it at any of them, `Reboot` restarts the machine. A password
stands for all credentials of an installation. `base` is `/opt/xmr` with what
matters in it: the environment file, the backup of the Caddyfile, the marker
that Caddy was active. `own` is history: the Caddyfile the node last had without
the portal. Two assumptions: MariaDB answers when env-reset.sh asks whether it
is read-only (`DetachReplica`); that it does not is covered where the script
says so (`DropTables`, "could not be removed; continuing reset"). And `systemctl
disable --now`, whose failure the script ignores, stops and disables whatever is
installed (`StopPortal`, `StopAdmin`).

## Runs

| Run | Specification, bounds | Checks |
|---|---|---|
| `sessions` | 2 workers, 2 accounts, 1 session, 3 tokens, idle 2, lifetime 3, clock to 4 | `TypeOK`, `SessionClock`, `OneLoginPerSession`, `RevokedIsFinal`, `TokenDenotesOneLogin`, `ResolvedIsCurrent`, and the proofs' `IInv` |
| `portal` | 2 workers, 2 accounts, 2 sessions, 4 tokens, idle 1, lifetime 2, clock to 2 | `PortalTypeOK`, `AnonymousStaysPrivate`, `DisabledSettles`, `UsesSessions` |
| `pools` | 2 workers, 2 accounts, 2 chains, 3 keys, 2 ports; fair | `PoolsTypeOK`, `RefusalsAreTrue`, `IsRegistry`, `Answered` |
| `accounts` | 2 requests, 2 accounts, 2 wallets, 3 names of which two differ in case; fair | `TypeOK`, `IsDirectory`, `ConfirmedByName`, `AccountsEnd` |
| `http` | 2 requests, 1 thread, bodies of 1 message, either service; fair | `HttpTypeOK`, `GatesHold`, `AnswerTells`, `ConnectionsEnd`, `IsAtomic`, `HttpAnswered` |
| `cluster_crashes` | 2 writes, 2 crashes, 1 round of waiting | `TypeOK`, `OneWriter`, `ReplicaIsReadOnly`, `Accounted`, and the proofs' `IInv` |
| `cluster_live` | 1 write, 1 crash, 2 rounds; fair | `ScriptEnds` |
| `install_reset` | 2 passwords, both roles | `InstallTypeOK`, `PortalHasItsDatabase`, `CaddyIsTheNodes`, `InstalledServes`, `ResetIsClean` |
| `portal_straggler`, `cluster_caught_up`, `cluster_standby`, `cluster_reboot` | each violates one property | see [below](#what-the-runs-found) |

What they show:

- **sessions.** Two calls overlap in every order on a session that idles out,
  reaches the end of its lifetime, is revoked or has its account disabled. Its
  expiry is always its last activity plus the timeout, capped by the lifetime.
  Of two logins one wins. A token never changes meaning. A row once revoked is
  never written. When `get_authenticated` succeeds, the row it answers from is
  still true, although it was read before the touch.
- **portal.** The token of a session that is not logged in never leaves its
  request. Once an account is disabled and the sign-ins that saw it active are
  over, no client or worker can give it a session again.
- **pools.** With duplicates, rollbacks and lost acknowledgements the tables are
  the abstract registry. The port read under the lock is never taken, so that
  error 1062 really means "account already has that chain", and "no ports remain"
  is said only when all are in use. Every request is answered.
- **accounts.** Through swaps of names, races for one and rollbacks, `users` is the
  abstract directory. A status changes only if the account had the confirmed name,
  letter by letter, while the request was served: it may be renamed between the
  check and the change. Two edits that wait for each other both end.
- **http.** On the administrator's service no question goes to the database
  before network and credential are checked, and no operation runs, and no body
  is waited for, before the database has said that it is writable. "Done" means
  that what the route writes is in the database, a refusal that nothing is,
  whichever step of the transaction fails and whatever the operation reads
  afterwards; only a 500 leaves it open. Whatever raises, no connection outlives
  its job. A slow client, a full executor or `new_pool`'s query on the loop
  delays others but stops nobody; a client that leaves before its body is read
  stops the loop, which is the premise of `HttpAnswered` (without it the
  property fails).
- **cluster_crashes.** However failovers, promotions and demotions die and are
  tried again, and wherever a machine goes down meanwhile, at most one running
  database accepts writes, a replica accepts none, and every acknowledged write
  is in the open database or was lost in one of four named ways (`explained`):
  an emergency promotion gave it up; `failover_to` found the replica caught up
  when the write was not received, or was younger than a second; the
  administrator made it between that check and `read_only`; a demotion adopted a
  position past it. This includes the restart of the machine that is hot. It
  ends (`intact`) when a node is promoted over an open peer, or a machine comes
  back that had to stay away: one that was read-only, because MariaDB has
  forgotten it; one that was promoted over; one a running command is taking out
  of service. What remains then is the types, and the run looks no further
  (`StillIntact`).
- **cluster_live.** Every wait of the scripts is bounded, also when a machine is
  gone.
- **install_reset.** After any sequence of failed installations, failed resets
  and restarts a portal that runs has its password and its tables; the portal's
  Caddyfile is never there without the backup of the file it replaced; a reset
  that reports success leaves nothing that runs or comes back.

Why the bounds are enough. Two workers are what a race of stale reads needs:
every action of a worker looks at one row and at nothing of a third. Two
requests and one thread are what it takes for one to wait in the queue while the
other holds the thread, or the loop; one message is a body that arrives, one
that is too long and one that never ends. Three names with two spellings and two
wallets let two edits swap either key, and a rename keep the folded name. Clock
4 is past the end of a session created at 0 and of one created at 1. Three
tokens are the first, its rotation and a competitor's; `portal` has a second
session and a fourth token. Two ports and three keys let the ports run out while
a key remains. Two writes let one be replicated and the other not; two crashes
let a machine come back and another, or the same, go down after it. No safety
property of a passing run rests on these bounds, since each is proved for all
values; the liveness properties do. Rounds of waiting (`MaxTries`, 30 in the
script) only repeat; `MaxCrashes` and `MaxTime` bound counters that would make
the state space infinite.

Symmetry is used where only safety is checked, and nowhere with a liveness
property. Deadlock is checked in every run.

## Fairness

`Pools!Fairness`: a thread that can execute its next statement does (WF per
worker: threads of a running service), and MariaDB grants a lock to a transaction
that waits for it again and again (SF per worker: InnoDB queues waiters, and a
waiter that is not granted fails by `innodb_lock_wait_timeout`, which the model
also allows and does not need). Neither requests nor failures are fair.

`Cluster!FairSpec`: WF on `ScriptStep`, a shell that runs on. Nothing is assumed
of replication, users, machines or the operator, so a replica may never catch up;
the command ends all the same, by its bounded loop.

`HttpServer!HttpFairness`: SF on a request's steps on the loop (asyncio runs its
ready callbacks in turn, so that one which is ready again and again is run), WF on
`Take` (the executor's queue is first in, first out) and on a job's steps (threads
run on; MariaDB answers or the connector times out). Clients need not send, read
or stay.

`Accounts!Fairness`: as in `Pools`, and InnoDB finds a deadlock (WF on `Victim`,
in `Step`).

The other specifications state no fairness.

## Proofs

Every invariant, action property and refinement that a passing run checks is also
a theorem. They hold for every value of the constants under the `ASSUME`s of the
modules: lifetimes that `SessMgr.__init__` accepts; a range of ports as `PoolDb`
checks it on import; a pair of nodes; at least one thread and a limit of the
body that is a number; and that `None` is not the name of anything.

**`SessionsProofs`.** `Invariance` proves `IInv == TypeOK /\ SessionClock /\
TokensOK /\ FreshOK /\ CallsOK`. The properties alone are not inductive: that a
stale touch cannot move activity before the creation of its session depends on
when the call began, so on who can have known the token. `TokensOK` says where
tokens can be, `FreshOK` that the one a rotation is about to write is known to it
alone, `CallsOK` what a call in flight still knows of the table. From it follow
`TypeCorrect`, `ClockSafety`, `OneLogin`, and the action properties
`RevocationFinal`, `ResolutionCurrent` and `TokenBinding`.

**`PoolsProofs`.** `IInv` says what the row lock buys: only its holder is between
`SELECT ... FOR UPDATE` and the commit (`LockOK`), so the port it has read is
still the next, and the ports in use are exactly those below the sequence
(`PortsOK`). From it follow `TypeCorrect`, `TrueRefusals` and `Implements`: every
step of `Pools` is a step of `PoolRegistry` or leaves it unchanged.

**`ClusterProofs`.** In three layers, each inductive over the one before:

- `TInv`, types and which statements belong to which command (`TypeCorrect`);
- `RInv`, who is closed: when a command is about to open a node, the other is
  read-only and this one has forgotten its master; when it is about to replicate,
  the node is read-only (`WriterIsUnique`, `ReplicasAreReadOnly`);
- `AInv`, where each write is: a node has its own, a replica has what it applied
  up to the explained ones, the position a demotion adopted is explained, the
  source of a planned failover serves nobody, and a node about to be opened has
  everything that is not explained (`WritesAreAccounted`).

The last two hold until a node is promoted over an open peer, which is the
operator's mistake, or a machine comes back that had to stay away: a restart of
MariaDB forgets `read_only` (run `cluster_reboot`). `Harmless` says which
returns are no danger: the machine's database was open, its peer's is closed,
and no command is taking the machine out of service (that one would find its
portal started again). `intact` is history: every return so far was of this
kind, and every emergency promotion over a peer that was down or closed. So
`IInv == TInv /\ (intact => RInv /\ AInv)` is inductive for any number of
crashes, and the four theorems assume nothing else of the machines. The old
primary may go down, still open, in the middle of a failover or before an
emergency promotion; it may come back as the primary it was as long as nobody
was promoted over it. `OpenHasAll` is what that needs: a database that is open
has every write while its machine is down too, until the other is opened; and
when a demotion closes a node (`close`), one of the two was closed before.

**`TransactionProofs`.** `TxIInv` adds to the types what a result says of the write
at each statement (`ResultOK`): nothing is written before the commit, what goes to
a rollback is an error or a duplicate, a value comes with its write, a duplicate
without. From it follow `TransactionIsAtomic` (every step of `Transaction` is a
step of `AtomicCalls` or changes nothing there) and, since every step of the loop
and of the threads leaves the transactions alone or is one of `Transaction`'s,
`ServicesAreAtomic` for both HTTP services.

**`PortalProofs`.** `PortalUsesSessions` shows step by step that the portal asks
nothing of `SessMgr` that `Sessions` does not offer; the one thing to know is that
the account a sign-in binds is one. With it `PortalInherits` carries the theorems
of `SessionsProofs` over to the portal as it is wired. `AnonymousPrivate` and
`DisabledAtRest` need more: `PortalIInv` adds to the invariant of `Sessions` where
each request is in `SessMgr` (`TaskOK`), that no cookie has the token of a row
without a login (`RowsPrivate`), and that no two sign-ins hold one session
(`HeldApart`). Only together are they inductive: a sign-in's row stays as it was
because nobody else knows its token, and nobody knows it because nobody else holds
the row.

**`AccountsProofs`.** A row is written without a look at the keys of the others, so
the invariant has to keep what the transaction found when it waited for them:
nothing committed has its keys (`AccountOK`), and no other transaction that is
about to commit has (`Apart`, for every two). From it follow `AccountsTypeCorrect`,
`AccountsAreDirectory` (a commit is a step of `Directory`, everything else leaves
it unchanged) and `StatusConfirmed`. Nothing is assumed of `Fold`: the results
hold for any collation.

**`HttpServerProofs`.** `HttpIInv` says of each request where it waits (`QueueOK`:
queue, thread or loop, and in one place), that a transaction under way is that of
a running job and writes if the job does (`LinkOK`), and, of the request itself,
which gates it has passed (`PassesGates`) and what the database has of it
(`TellsOf`). The last two are about one request record, so each handler is proved
on one record, and two lemmas carry it to all requests: `LoopMove`, for whatever the
loop does, and `SettleInv`, for a job that ends. The link between result and write
comes from `TxIInv`. From it follow `HttpTypeCorrect`, `GatesInOrder`,
`AnswersAreTrue` and `NoConnectionLeft`.

**`InstallProofs`.** `IInv` says for each statement of either script what it has
behind it: an installation has written its password to every file before the
statement that needs it there and has started nothing before that (`InstallOK`,
`RoleOK`), and what a reset has removed stays removed (`ResetOK`); `NodeOK` and
`CaddyOK` are what is left wherever a script dies. From it follow `TypeCorrect`,
`DatabaseIsThere`, `CaddyReturns`, `InstalledIsTrue` and `ResetIsTrue`.

Only model-checked, not proved: liveness (`Answered`, `ScriptEnds`, `AccountsEnd`,
`HttpAnswered`), since fairness and ENABLED are out of the prover's reach. No
module uses recursion, so nothing rests on induction over data.

## What the runs found

Each is a disagreement between the code and a sentence in the repository.

- `portal_straggler`. A sign-in reads the account, verifies the password, and
  rotates its session without looking at the status again. If the account is
  disabled in between, it has a session that is not revoked
  (`admin/templates/edit-account.html:25`: "Existing sessions are revoked when an
  account is disabled"). While the account is disabled `find_active` refuses it;
  enabling the account revives it.
- `cluster_caught_up`. `failover_to` stops the portal and waits for the replica,
  and makes the source read-only only afterwards. The administrator's service
  writes in between, and the check does not see what was not received.
- `cluster_standby`. `demote_to` starts replication at the primary's current
  position, past anything the node does not have.
- `cluster_reboot`. After a restart the cold node accepts writes and goes on
  replicating. (`env-reset.sh:43` then also takes it for a primary, and leaves
  its replication in place.)

Steps the models take that no sentence of the repository rules out, and which
are therefore hazards without a property: `xmr.service` stays enabled on the node
installed as hot, so that a restart after a failover starts it there again; a
`DROP TABLE` of a reset is replicated; a failed one leaves the old accounts to the
next installation; a live session may be refused because a touch changed nothing;
a reset after an installation that failed early, or a second reset, finds no backup
of the Caddyfile, takes that for "there was none" and removes the node's own
(`CaddyIsTheNodes` promises the file back once the portal's has replaced it);
`new_pool`'s query on the loop delays every other request; a request whose account
is disabled after it was resolved goes on; of two administrators who edit one
account the later form overwrites both fields of the earlier.

One step is excluded by a premise and not by the code: a client that leaves before
its body was read keeps the loop of its service until the process is restarted
(`Spin`).

## What is not modelled

- `upgrade-install.sh`: it copies files, without a state of its own, and restarts
  nothing. What could go wrong is that a running process mixes two releases, and
  this depends on when Python imports a module and Jinja reads a template again,
  which is not in this code.
- The lifespan messages of ASGI, and the headers and formats of requests and
  answers.
- Validation, formats, prompts, templates, hashing, parsing of configuration and
  credentials: pure functions of one input without state.
- `dns_report.py` (reads and prints), and `new-release.sh`/`pre-release.sh` (one
  developer's git commands).
- `web/session_middleware.py` is not wired to any server; the calls it would make
  are among those `Sessions` allows.
- Two operators at once, and the composition of an installation with its peer.

## Plan

Done, in this order: `Sessions` and its proofs, `Portal`, `PoolRegistry`, `Pools`
and its proofs, `Cluster` and its proofs, `Install`, `AtomicCalls`, `Transaction`,
`HttpServer`, `TransactionProofs`, `Directory`, `Accounts`, `InstallProofs`,
`HttpServerProofs`, `PortalProofs`, `AccountsProofs`, and `ClusterProofs` again for
machines that go down.

To do, most important first:

1. `Cluster` past a return that does harm: what an operator may do after each
   kind, and which promises hold again then, could be stated and proved.
2. `Install` on both nodes at once, so that the roles it gives are the initial
   states of `Cluster` by proof and not by reading.
3. Safety under which the liveness properties hold for all values: that each wait
   has a measure which every step decreases (the rounds of `Wait`, the statements of
   a transaction), as action properties; the step from there to "eventually" stays
   with TLC.
