------------------------------- MODULE Pools --------------------------------
(***************************************************************************)
(* Pools and their ports: db/PoolDb.py under the requests of               *)
(* mgr/AppMgr.py create_pool and update_pool.                              *)
(*                                                                         *)
(* create_pool is a transaction of three statements.  What it writes is    *)
(* its own until the commit, and the row lock that SELECT ... FOR UPDATE   *)
(* takes on pool_port_sequence makes others wait.  update_chain is one     *)
(* statement.  A transaction may fail at any point, and a commit may take  *)
(* effect although its caller sees an error.                               *)
(***************************************************************************)
EXTENDS Integers

CONSTANTS
    Workers,     \* threads that serve requests
    Accounts,    \* accounts a request may act as
    Chains,      \* PoolMgr's "main", "mini", "nano"
    PoolIds,     \* AUTO_INCREMENT keys, only their identity matters
    None,        \* no holder of the lock, no row
    StartPort,   \* DDefault.STARTING_P2POOL_PORT
    MaxPort      \* 65535, the last port create_pool hands out

\* Checked when PoolDb is imported.
ASSUME PortAssumption ==
    /\ StartPort \in Nat /\ MaxPort \in Nat
    /\ 1 <= StartPort /\ StartPort <= MaxPort

ASSUME HolderAssumption == None \notin Workers \cup PoolIds

VARIABLES
    pools,      \* the pools table as committed
    nextPort,   \* pool_port_sequence.next_port as committed
    lock,       \* the transaction that holds the lock on pool_port_sequence
    calls       \* what each worker is doing

vars == <<pools, nextPort, lock, calls>>

PoolRow == [account : Accounts, chain : Chains, port : StartPort..MaxPort]

\* The pool a transaction has inserted, or a request is about to change, is
\* `id`; `port` is the next_port it has read.
Call == [pc : {"idle", "lock", "insert", "bump", "commit", "read", "change"},
         account : Accounts \cup {None}, chain : Chains \cup {None},
         port : Nat, id : PoolIds \cup {None}]

NoCall == [pc |-> "idle", account |-> None, chain |-> None, port |-> 0, id |-> None]

\* uq_pools_account_chain and uq_pools_port, seen by a row with key `own`.
ChainTaken(account, chain, own) ==
    \E id \in DOMAIN pools \ {own} :
        pools[id].account = account /\ pools[id].chain = chain

PortTaken(port) == \E id \in DOMAIN pools : pools[id].port = port

Goes(w, pc) == calls' = [calls EXCEPT ![w].pc = pc]
Ends(w) == calls' = [calls EXCEPT ![w] = NoCall]

-----------------------------------------------------------------------------
Init ==
    /\ pools = [id \in {} |-> NoCall]
    /\ nextPort = StartPort
    /\ lock = None
    /\ calls = [w \in Workers |-> NoCall]

\* create_pool is called with a chain PoolMgr accepts.
AskCreate(w, account, chain) ==
    /\ calls[w].pc = "idle"
    /\ calls' = [calls EXCEPT ![w] = [NoCall EXCEPT
                     !.pc = "lock", !.account = account, !.chain = chain]]
    /\ UNCHANGED <<pools, nextPort, lock>>

\* A slip that would break RefusalsAreTrue: the row is read without a lock.
ReadSequence(w) ==
    /\ calls[w].pc = "lock"
    /\ lock' = w
    /\ calls' = [calls EXCEPT ![w].pc = "insert", ![w].port = nextPort]
    /\ UNCHANGED <<pools, nextPort>>

\* SELECT next_port ... FOR UPDATE: waits for the lock, reads what is committed.
LockSequence(w) ==
    /\ calls[w].pc = "lock"
    /\ lock = None
    /\ lock' = w
    /\ calls' = [calls EXCEPT ![w].pc = "insert", ![w].port = nextPort]
    /\ UNCHANGED <<pools, nextPort>>

\* The end of a transaction, by commit or rollback.
Release(w) == lock' = IF lock = w THEN None ELSE lock

\* A slip that would break Answered: the transaction is left open.
NoPortsRemainOpen(w) ==
    /\ calls[w].pc = "insert"
    /\ calls[w].port > MaxPort
    /\ Ends(w)
    /\ UNCHANGED <<pools, nextPort, lock>>

\* "no P2Pool ports remain".
NoPortsRemain(w) ==
    /\ calls[w].pc = "insert"
    /\ calls[w].port > MaxPort
    /\ Release(w)
    /\ Ends(w)
    /\ UNCHANGED <<pools, nextPort>>

\* A slip that would break PoolsTypeOK: the check of the port is off by one.
InsertPastLast(w) ==
    /\ calls[w].pc = "insert"
    /\ calls[w].port <= MaxPort + 1
    /\ ~ChainTaken(calls[w].account, calls[w].chain, None)
    /\ ~PortTaken(calls[w].port)
    /\ \E id \in PoolIds \ DOMAIN pools :
          calls' = [calls EXCEPT ![w].pc = "bump", ![w].id = id]
    /\ UNCHANGED <<pools, nextPort, lock>>

\* INSERT INTO pools, not yet committed.
Insert(w) ==
    /\ calls[w].pc = "insert"
    /\ calls[w].port <= MaxPort
    /\ ~ChainTaken(calls[w].account, calls[w].chain, None)
    /\ ~PortTaken(calls[w].port)
    /\ \E id \in PoolIds \ DOMAIN pools :
          calls' = [calls EXCEPT ![w].pc = "bump", ![w].id = id]
    /\ UNCHANGED <<pools, nextPort, lock>>

\* errno 1062, by whichever unique key: DuplicatePoolError, and a rollback.
InsertDuplicate(w) ==
    /\ calls[w].pc = "insert"
    /\ calls[w].port <= MaxPort
    /\ \/ ChainTaken(calls[w].account, calls[w].chain, None)
       \/ PortTaken(calls[w].port)
    /\ Release(w)
    /\ Ends(w)
    /\ UNCHANGED <<pools, nextPort>>

\* A slip that would break the registry: the update is a transaction of its own.
BumpAtOnce(w) ==
    /\ calls[w].pc = "bump"
    /\ Goes(w, "commit")
    /\ nextPort' = calls[w].port + 1
    /\ UNCHANGED <<pools, lock>>

\* UPDATE pool_port_sequence, not yet committed.
Bump(w) ==
    /\ calls[w].pc = "bump"
    /\ Goes(w, "commit")
    /\ UNCHANGED <<pools, nextPort, lock>>

\* Insert and update of the sequence become visible together.
Committed(w) ==
    /\ pools' = [id \in DOMAIN pools \cup {calls[w].id} |->
                    IF id = calls[w].id
                    THEN [account |-> calls[w].account, chain |-> calls[w].chain,
                          port |-> calls[w].port]
                    ELSE pools[id]]
    /\ nextPort' = calls[w].port + 1
    /\ Release(w)

Commit(w) ==
    /\ calls[w].pc = "commit"
    /\ Committed(w)
    /\ Goes(w, "read")

\* The commit reaches MariaDB, its acknowledgement is lost: the request fails.
CommitUnanswered(w) ==
    /\ calls[w].pc = "commit"
    /\ Committed(w)
    /\ Ends(w)

\* get_pool of the new id, in a transaction of its own.
ReadBack(w) ==
    /\ calls[w].pc = "read"
    /\ Ends(w)
    /\ UNCHANGED <<pools, nextPort, lock>>

\* AppMgr.update_pool up to get_pool(account, id).  When that finds no pool of
\* the account the answer is 404 and nothing changes.
AskChange(w, account, id, chain) ==
    /\ calls[w].pc = "idle"
    /\ id \in DOMAIN pools
    /\ pools[id].account = account
    /\ calls' = [calls EXCEPT ![w] = [NoCall EXCEPT
                     !.pc = "change", !.account = account, !.id = id,
                     !.chain = chain]]
    /\ UNCHANGED <<pools, nextPort, lock>>

\* Somebody's uncommitted insert holds the unique key the update needs.
KeyLocked(account, chain) ==
    \E v \in Workers : /\ calls[v].pc \in {"bump", "commit"}
                       /\ calls[v].account = account
                       /\ calls[v].chain = chain

\* UPDATE pools SET chain, WHERE id and account_id; for a row of another account
\* it would match nothing.
ChangeSet(call) ==
    IF pools[call.id].account = call.account
    THEN [pools EXCEPT ![call.id].chain = call.chain] ELSE pools

Change(w) ==
    /\ calls[w].pc = "change"
    /\ ~KeyLocked(calls[w].account, calls[w].chain)
    /\ ~ChainTaken(calls[w].account, calls[w].chain, calls[w].id)
    /\ pools' = ChangeSet(calls[w])
    /\ Ends(w)
    /\ UNCHANGED <<nextPort, lock>>

ChangeDuplicate(w) ==
    /\ calls[w].pc = "change"
    /\ ~KeyLocked(calls[w].account, calls[w].chain)
    /\ ChainTaken(calls[w].account, calls[w].chain, calls[w].id)
    /\ Ends(w)
    /\ UNCHANGED <<pools, nextPort, lock>>

\* A lock wait times out, the connection or the process is lost: MariaDB rolls
\* the transaction back and nothing of it remains.
Fail(w) ==
    /\ calls[w].pc # "idle"
    /\ Release(w)
    /\ Ends(w)
    /\ UNCHANGED <<pools, nextPort>>

Step(w) ==
    \/ NoPortsRemain(w)
    \/ Insert(w)
    \/ InsertDuplicate(w)
    \/ Bump(w)
    \/ Commit(w)
    \/ ReadBack(w)

Next ==
    \/ \E w \in Workers, account \in Accounts, chain \in Chains :
          AskCreate(w, account, chain)
    \/ \E w \in Workers, account \in Accounts, id \in PoolIds, chain \in Chains :
          AskChange(w, account, id, chain)
    \/ \E w \in Workers : LockSequence(w)
    \/ \E w \in Workers : Step(w)
    \/ \E w \in Workers : Change(w) \/ ChangeDuplicate(w)
    \/ \E w \in Workers : CommitUnanswered(w) \/ Fail(w)

Spec == Init /\ [][Next]_vars

\* Threads run on, and MariaDB grants the lock on the sequence, and those on the
\* unique keys, to every transaction that waits for them long enough.  Requests
\* and failures need not happen.
Fairness ==
    \A w \in Workers :
        /\ WF_vars(Step(w))
        /\ SF_vars(LockSequence(w))
        /\ SF_vars(Change(w) \/ ChangeDuplicate(w))

FairSpec == Spec /\ Fairness

-----------------------------------------------------------------------------
PoolsTypeOK ==
    /\ DOMAIN pools \subseteq PoolIds
    /\ pools \in [DOMAIN pools -> PoolRow]
    /\ nextPort \in Nat
    /\ lock \in Workers \cup {None}
    /\ calls \in [Workers -> Call]

\* create_pool tells every errno 1062 as "account already has that chain",
\* though the port has a unique key too, and gives up when it has read a port
\* past the last.  Both are the truth: the port it holds is never taken, and
\* the ports have run out only when every one is in use.
RefusalsAreTrue ==
    \A w \in Workers : calls[w].pc = "insert" =>
        /\ ~PortTaken(calls[w].port)
        /\ calls[w].port > MaxPort =>
              \A port \in StartPort..MaxPort : PortTaken(port)

\* Seen from outside, with every transaction at its commit, the tables are the
\* abstract registry: whatever fails or is rolled back, no port is lost, given
\* twice or given out of turn.
Registry == INSTANCE PoolRegistry WITH pools <- pools
IsRegistry == Registry!Spec

\* No request waits for ever: not on the lock of a transaction that ended, nor
\* on a key that another has inserted.
Answered == \A w \in Workers : calls[w].pc # "idle" ~> calls[w].pc = "idle"
=============================================================================
