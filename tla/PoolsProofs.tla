---------------------------- MODULE PoolsProofs -----------------------------
(***************************************************************************)
(* Proofs about Pools, for any requests, accounts and chains and any range *)
(* of ports: its invariants, and that it implements PoolRegistry.          *)
(*                                                                         *)
(* IInv adds what the lock on the sequence buys: only its holder is between*)
(* SELECT ... FOR UPDATE and the commit (LockOK), so the port it has read  *)
(* is still the next one, which divides the ports in use from the others   *)
(* (PortsOK); and what a request knows of its pool (CallsOK).              *)
(***************************************************************************)
EXTENDS Pools, TLAPS

InTransaction(w) == calls[w].pc \in {"insert", "bump", "commit"}

LockOK == \A w \in Workers : InTransaction(w) <=> lock = w

PortsOK ==
    /\ nextPort \in StartPort..(MaxPort + 1)
    /\ \A port \in Nat : PortTaken(port) <=> port \in StartPort..(nextPort - 1)

CallOK(w) ==
    /\ calls[w].pc # "idle" =>
          calls[w].account \in Accounts /\ calls[w].chain \in Chains
    /\ InTransaction(w) => calls[w].port = nextPort
    /\ calls[w].pc \in {"bump", "commit"} =>
          /\ calls[w].id \in PoolIds
          /\ calls[w].id \notin DOMAIN pools
          /\ calls[w].port <= MaxPort
          /\ ~ChainTaken(calls[w].account, calls[w].chain, None)
    /\ calls[w].pc = "change" =>
          /\ calls[w].id \in DOMAIN pools
          /\ pools[calls[w].id].account = calls[w].account

CallsOK == \A w \in Workers : CallOK(w)

IInv == PoolsTypeOK /\ LockOK /\ PortsOK /\ CallsOK
-----------------------------------------------------------------------------
\* Without pools and calls the invariant holds.
LEMMA InitInv == Init => IInv
<1> SUFFICES ASSUME Init PROVE IInv
    OBVIOUS
<1>1. PoolsTypeOK
    BY PortAssumption DEF Init, PoolsTypeOK, NoCall, Call
<1>2. LockOK
    BY HolderAssumption DEF Init, LockOK, InTransaction, NoCall
<1>3. PortsOK
    BY PortAssumption DEF Init, PortsOK, PortTaken
<1>4. CallsOK
    BY DEF Init, CallsOK, CallOK, InTransaction, NoCall
<1> QED
    BY <1>1, <1>2, <1>3, <1>4 DEF IInv

\* A step that changes the call of one worker only.
LEMMA OneCall ==
    ASSUME PoolsTypeOK, NEW w \in Workers, NEW c \in Call,
           calls' = [calls EXCEPT ![w] = c]
    PROVE  /\ calls' \in [Workers -> Call]
           /\ calls'[w] = c
           /\ \A v \in Workers : v # w => calls'[v] = calls[v]
BY DEF PoolsTypeOK

\* No call.
LEMMA NoCallType == NoCall \in Call /\ NoCall.pc = "idle"
BY DEF NoCall, Call

\* A step that leaves the tables alone and moves one call: only the lock and
\* that call need looking at.
LEMMA OneCallInv ==
    ASSUME IInv, NEW w \in Workers, NEW c \in Call,
           calls' = [calls EXCEPT ![w] = c],
           UNCHANGED <<pools, nextPort>>,
           \/ lock' = lock
           \/ lock = None /\ lock' = w
           \/ lock = w /\ lock' = None,
           c.pc \in {"insert", "bump", "commit"} <=> lock' = w,
           CallOK(w)'
    PROVE  IInv'
<1>1. /\ calls' \in [Workers -> Call]
      /\ calls'[w] = c
      /\ \A v \in Workers : v # w => calls'[v] = calls[v]
    BY OneCall DEF IInv
<1>2. PoolsTypeOK'
    BY <1>1 DEF IInv, PoolsTypeOK
<1>3. LockOK'
    BY <1>1, HolderAssumption DEF IInv, LockOK, InTransaction
<1>4. PortsOK'
    BY DEF IInv, PortsOK, PortTaken
<1>5. CallsOK'
  <2> SUFFICES ASSUME NEW v \in Workers, v # w PROVE CallOK(v)'
      BY DEF CallsOK
  <2> QED
      BY <1>1 DEF IInv, CallsOK, CallOK, InTransaction, ChainTaken
<1> QED
    BY <1>2, <1>3, <1>4, <1>5 DEF IInv

\* A transaction or a request that ends without writing.
LEMMA EndsInv ==
    ASSUME IInv, NEW w \in Workers, Ends(w), Release(w), UNCHANGED <<pools, nextPort>>
    PROVE  IInv'
<1>1. calls' = [calls EXCEPT ![w] = NoCall] /\ calls'[w] = NoCall
    BY NoCallType, OneCall DEF IInv, Ends
<1>2. CallOK(w)'
    BY <1>1, NoCallType DEF CallOK, InTransaction
<1> QED
    BY <1>1, <1>2, NoCallType, OneCallInv, HolderAssumption DEF Release

\* A call of create_pool that waits for the lock has done nothing.
LEMMA AskCreateInv ==
    ASSUME IInv, NEW w \in Workers, NEW account \in Accounts, NEW chain \in Chains,
           AskCreate(w, account, chain)
    PROVE  IInv'
<1> DEFINE c == [NoCall EXCEPT !.pc = "lock", !.account = account, !.chain = chain]
<1>1. c \in Call /\ c.pc = "lock" /\ c.account = account /\ c.chain = chain
    BY DEF NoCall, Call
<1>2. calls' = [calls EXCEPT ![w] = c] /\ UNCHANGED <<pools, nextPort, lock>>
    BY DEF AskCreate
<1>3. lock # w
    BY DEF IInv, LockOK, InTransaction, AskCreate
<1> HIDE DEF c
<1>4. CallOK(w)'
    BY <1>1, <1>2, OneCall DEF IInv, CallOK, InTransaction
<1> QED
    BY <1>1, <1>2, <1>3, <1>4, OneCallInv

\* Nor has a call of update_pool that has found the pool of its account.
LEMMA AskChangeInv ==
    ASSUME IInv, NEW w \in Workers, NEW account \in Accounts, NEW id \in PoolIds,
           NEW chain \in Chains, AskChange(w, account, id, chain)
    PROVE  IInv'
<1> DEFINE c == [NoCall EXCEPT !.pc = "change", !.account = account, !.id = id,
                               !.chain = chain]
<1>1. /\ c \in Call /\ c.pc = "change"
      /\ c.account = account /\ c.id = id /\ c.chain = chain
    BY DEF NoCall, Call
<1>2. calls' = [calls EXCEPT ![w] = c] /\ UNCHANGED <<pools, nextPort, lock>>
    BY DEF AskChange
<1>3. lock # w
    BY DEF IInv, LockOK, InTransaction, AskChange
<1>4. id \in DOMAIN pools /\ pools[id].account = account
    BY DEF AskChange
<1> HIDE DEF c
<1>5. CallOK(w)'
    BY <1>1, <1>2, <1>4, OneCall DEF IInv, CallOK, InTransaction
<1> QED
    BY <1>1, <1>2, <1>3, <1>5, OneCallInv

\* The port a transaction reads is the next one, and stays so under the lock.
LEMMA LockSequenceInv ==
    ASSUME IInv, NEW w \in Workers, LockSequence(w)
    PROVE  IInv'
<1> DEFINE c == [calls[w] EXCEPT !.pc = "insert", !.port = nextPort]
<1>1. /\ c \in Call /\ c.pc = "insert" /\ c.port = nextPort
      /\ c.account = calls[w].account /\ c.chain = calls[w].chain
    BY DEF IInv, PoolsTypeOK, Call
<1>2. /\ calls' = [calls EXCEPT ![w] = c]
      /\ UNCHANGED <<pools, nextPort>>
      /\ lock = None /\ lock' = w /\ calls[w].pc = "lock"
    BY DEF LockSequence
<1> HIDE DEF c
<1>3. CallOK(w)'
    BY <1>1, <1>2, OneCall DEF IInv, CallsOK, CallOK, InTransaction
<1> QED
    BY <1>1, <1>2, <1>3, OneCallInv

\* INSERT takes an id that no pool has, inside the transaction.
LEMMA InsertInv ==
    ASSUME IInv, NEW w \in Workers, Insert(w)
    PROVE  IInv'
<1> DEFINE c(id) == [calls[w] EXCEPT !.pc = "bump", !.id = id]
<1>1. PICK id \in PoolIds \ DOMAIN pools : calls' = [calls EXCEPT ![w] = c(id)]
    BY DEF Insert
<1>2. /\ c(id) \in Call /\ c(id).pc = "bump" /\ c(id).id = id
      /\ c(id).account = calls[w].account /\ c(id).chain = calls[w].chain
      /\ c(id).port = calls[w].port
    BY DEF IInv, PoolsTypeOK, Call
<1>3. /\ UNCHANGED <<pools, nextPort, lock>>
      /\ calls[w].pc = "insert" /\ lock = w
      /\ calls[w].port <= MaxPort
      /\ ~ChainTaken(calls[w].account, calls[w].chain, None)
    BY DEF IInv, LockOK, InTransaction, Insert
<1> HIDE DEF c
<1>4. CallOK(w)'
    BY <1>1, <1>2, <1>3, OneCall
    DEF IInv, CallsOK, CallOK, InTransaction, ChainTaken
<1> QED
    BY <1>1, <1>2, <1>3, <1>4, OneCallInv

\* UPDATE of the sequence is not to be seen before the commit.
LEMMA BumpInv ==
    ASSUME IInv, NEW w \in Workers, Bump(w)
    PROVE  IInv'
<1> DEFINE c == [calls[w] EXCEPT !.pc = "commit"]
<1>1. /\ c \in Call /\ c.pc = "commit" /\ c.id = calls[w].id
      /\ c.account = calls[w].account /\ c.chain = calls[w].chain
      /\ c.port = calls[w].port
    BY DEF IInv, PoolsTypeOK, Call
<1>2. /\ calls' = [calls EXCEPT ![w] = c]
      /\ UNCHANGED <<pools, nextPort, lock>>
      /\ calls[w].pc = "bump" /\ lock = w
    BY DEF IInv, LockOK, InTransaction, Bump, Goes
<1> HIDE DEF c
<1>3. CallOK(w)'
    BY <1>1, <1>2, OneCall DEF IInv, CallsOK, CallOK, InTransaction, ChainTaken
<1> QED
    BY <1>1, <1>2, <1>3, OneCallInv

\* What a commit writes: a row nobody else can have written, at the next port.
LEMMA CommittedRow ==
    ASSUME IInv, NEW w \in Workers, calls[w].pc = "commit", Committed(w)
    PROVE  LET row == [account |-> calls[w].account, chain |-> calls[w].chain,
                       port |-> nextPort] IN
           /\ row \in PoolRow
           /\ calls[w].id \in PoolIds
           /\ calls[w].id \notin DOMAIN pools
           /\ DOMAIN pools' = DOMAIN pools \cup {calls[w].id}
           /\ pools'[calls[w].id] = row
           /\ \A id \in DOMAIN pools : pools'[id] = pools[id]
           /\ nextPort \in StartPort..MaxPort
           /\ nextPort' = nextPort + 1
           /\ lock = w
           /\ lock' = None
<1>1. /\ calls[w].account \in Accounts /\ calls[w].chain \in Chains
      /\ calls[w].id \in PoolIds /\ calls[w].id \notin DOMAIN pools
      /\ calls[w].port = nextPort /\ calls[w].port <= MaxPort
      /\ lock = w
    BY DEF IInv, CallsOK, CallOK, LockOK, InTransaction
<1>2. nextPort \in StartPort..MaxPort
    BY <1>1, PortAssumption DEF IInv, PortsOK
<1> QED
    BY <1>1, <1>2, PortAssumption DEF Committed, Release, PoolRow

\* COMMIT, answered or not, publishes the pool and the next port together.
LEMMA CommitInv ==
    ASSUME IInv, NEW w \in Workers, Commit(w) \/ CommitUnanswered(w)
    PROVE  IInv'
<1> DEFINE row == [account |-> calls[w].account, chain |-> calls[w].chain,
                   port |-> nextPort]
           read == [calls[w] EXCEPT !.pc = "read"]
           id == calls[w].id
<1>1. Committed(w) /\ calls[w].pc = "commit"
    BY DEF Commit, CommitUnanswered
<1>2. /\ row \in PoolRow
      /\ id \in PoolIds /\ id \notin DOMAIN pools
      /\ DOMAIN pools' = DOMAIN pools \cup {id}
      /\ pools'[id] = row
      /\ \A i \in DOMAIN pools : pools'[i] = pools[i]
      /\ nextPort \in StartPort..MaxPort
      /\ nextPort' = nextPort + 1
      /\ lock = w /\ lock' = None
    BY <1>1, CommittedRow
<1>3. PICK c \in Call : /\ c = NoCall \/ c = read
                        /\ calls' = [calls EXCEPT ![w] = c]
    BY NoCallType DEF IInv, PoolsTypeOK, Call, Commit, CommitUnanswered, Goes, Ends
<1>4. /\ calls' \in [Workers -> Call]
      /\ calls'[w] = c
      /\ \A v \in Workers : v # w => calls'[v] = calls[v]
    BY <1>3, OneCall DEF IInv
<1>5. /\ c.pc \in {"idle", "read"}
      /\ c.pc = "read" => /\ c.account = calls[w].account
                         /\ c.chain = calls[w].chain
    BY <1>3, NoCallType DEF IInv, PoolsTypeOK, Call
<1>6. \A v \in Workers : v # w => ~InTransaction(v) /\ ~InTransaction(v)'
    BY <1>2, <1>4 DEF IInv, LockOK, InTransaction
<1>7. PoolsTypeOK'
  <2>1. pools' \in [DOMAIN pools' -> PoolRow]
    <3>1. pools' = [i \in DOMAIN pools' |-> pools'[i]]
        BY <1>1 DEF Committed
    <3> QED
        BY <3>1, <1>2 DEF IInv, PoolsTypeOK
  <2> QED
      BY <2>1, <1>2, <1>4, PortAssumption DEF IInv, PoolsTypeOK
<1>8. LockOK'
    BY <1>2, <1>4, <1>5, <1>6, HolderAssumption DEF LockOK, InTransaction
<1>9. PortsOK'
  <2>1. row.port = nextPort
      OBVIOUS
  <2>2. \A port \in Nat : PortTaken(port)' <=> PortTaken(port) \/ port = nextPort
      BY <1>2, <2>1 DEF PortTaken
  <2> QED
      BY <1>2, <2>2, PortAssumption DEF IInv, PortsOK
<1>10. CallsOK'
  <2> SUFFICES ASSUME NEW v \in Workers PROVE CallOK(v)'
      BY DEF CallsOK
  <2>1. CASE v = w
      BY <2>1, <1>1, <1>4, <1>5 DEF IInv, CallsOK, CallOK, InTransaction
  <2>2. CASE v # w
      BY <2>2, <1>2, <1>4, <1>6 DEF IInv, CallsOK, CallOK, InTransaction
  <2> QED
      BY <2>1, <2>2
<1> QED
    BY <1>7, <1>8, <1>9, <1>10 DEF IInv

\* update_chain changes one chain to one that no pool of the account has, nor
\* any insert under way.
LEMMA ChangeInv ==
    ASSUME IInv, NEW w \in Workers, Change(w)
    PROVE  IInv'
<1> DEFINE id == calls[w].id
           row == [pools[id] EXCEPT !.chain = calls[w].chain]
<1>1. /\ calls[w].pc = "change"
      /\ id \in DOMAIN pools
      /\ pools[id] \in PoolRow
      /\ pools[id].account = calls[w].account
      /\ calls[w].chain \in Chains
      /\ UNCHANGED <<nextPort, lock>>
      /\ lock # w
      /\ calls' = [calls EXCEPT ![w] = NoCall]
    BY DEF IInv, PoolsTypeOK, LockOK, InTransaction, CallsOK, CallOK, Change, Ends
<1>2. /\ calls' \in [Workers -> Call]
      /\ calls'[w] = NoCall
      /\ \A v \in Workers : v # w => calls'[v] = calls[v]
    BY <1>1, NoCallType, OneCall DEF IInv
<1>3. pools' = [pools EXCEPT ![id] = row]
    BY <1>1 DEF Change, ChangeSet
<1>4. /\ row \in PoolRow
      /\ row.port = pools[id].port
      /\ row.account = pools[id].account
      /\ row.chain = calls[w].chain
    BY <1>1 DEF PoolRow
<1>5. /\ DOMAIN pools' = DOMAIN pools
      /\ pools'[id] = row
      /\ \A i \in DOMAIN pools : i # id => pools'[i] = pools[i]
    BY <1>1, <1>3
<1> HIDE DEF row
<1>6. PoolsTypeOK'
    BY <1>1, <1>2, <1>3, <1>4 DEF IInv, PoolsTypeOK
<1>7. LockOK'
    BY <1>1, <1>2, NoCallType DEF IInv, LockOK, InTransaction
<1>8. PortsOK'
  <2>1. \A port \in Nat : PortTaken(port)' <=> PortTaken(port)
      BY <1>1, <1>4, <1>5 DEF PortTaken
  <2> QED
      BY <2>1, <1>1 DEF IInv, PortsOK
<1>9. CallsOK'
  <2> SUFFICES ASSUME NEW v \in Workers PROVE CallOK(v)'
      BY DEF CallsOK
  <2>1. CASE v = w
      BY <2>1, <1>2, NoCallType DEF CallOK, InTransaction
  <2>2. CASE v # w
    <3>1. CallOK(v) /\ calls'[v] = calls[v]
        BY <2>2, <1>2 DEF IInv, CallsOK
    <3>2. ASSUME calls[v].pc \in {"bump", "commit"}
          PROVE  ~ChainTaken(calls[v].account, calls[v].chain, None)'
      <4>1. ~ChainTaken(calls[v].account, calls[v].chain, None)
          BY <3>1, <3>2 DEF CallOK
      <4>2. ~(calls[v].account = calls[w].account /\ calls[v].chain = calls[w].chain)
          BY <3>2 DEF Change, KeyLocked
      <4> QED
          BY <3>1, <4>1, <4>2, <1>1, <1>4, <1>5 DEF ChainTaken
    <3> QED
        BY <3>1, <3>2, <1>1, <1>4, <1>5 DEF CallOK, InTransaction
  <2> QED
      BY <2>1, <2>2
<1> QED
    BY <1>6, <1>7, <1>8, <1>9 DEF IInv

\* Every step of Pools preserves the inductive invariant.
LEMMA NextInv == IInv /\ [Next]_vars => IInv'
<1> SUFFICES ASSUME IInv, [Next]_vars PROVE IInv'
    OBVIOUS
<1>1. ASSUME NEW w \in Workers, calls[w].pc \in {"read", "change"},
             Ends(w), UNCHANGED <<pools, nextPort, lock>>
      PROVE  IInv'
  <2>1. Release(w)
      BY <1>1 DEF IInv, LockOK, InTransaction, Release
  <2> QED
      BY <1>1, <2>1, EndsInv
<1>2. ASSUME NEW w \in Workers, Step(w) PROVE IInv'
  <2>1. CASE NoPortsRemain(w) \/ InsertDuplicate(w)
      BY <2>1, EndsInv DEF NoPortsRemain, InsertDuplicate
  <2>2. CASE Insert(w)
      BY <2>2, InsertInv
  <2>3. CASE Bump(w)
      BY <2>3, BumpInv
  <2>4. CASE Commit(w)
      BY <2>4, CommitInv
  <2>5. CASE ReadBack(w)
      BY <2>5, <1>1 DEF ReadBack
  <2> QED
      BY <1>2, <2>1, <2>2, <2>3, <2>4, <2>5 DEF Step
<1>3. ASSUME NEW w \in Workers, NEW account \in Accounts, NEW chain \in Chains,
             AskCreate(w, account, chain)
      PROVE  IInv'
    BY <1>3, AskCreateInv
<1>4. ASSUME NEW w \in Workers, NEW account \in Accounts, NEW id \in PoolIds,
             NEW chain \in Chains, AskChange(w, account, id, chain)
      PROVE  IInv'
    BY <1>4, AskChangeInv
<1>5. ASSUME NEW w \in Workers, LockSequence(w) PROVE IInv'
    BY <1>5, LockSequenceInv
<1>6. ASSUME NEW w \in Workers, Change(w) \/ ChangeDuplicate(w) PROVE IInv'
    BY <1>1, <1>6, ChangeInv DEF ChangeDuplicate
<1>7. ASSUME NEW w \in Workers, CommitUnanswered(w) \/ Fail(w) PROVE IInv'
    BY <1>7, CommitInv, EndsInv DEF Fail
<1>8. CASE UNCHANGED vars
    BY <1>8 DEF IInv, PoolsTypeOK, LockOK, PortsOK, CallsOK, CallOK, InTransaction,
                PortTaken, ChainTaken, vars
<1> QED
    BY <1>2, <1>3, <1>4, <1>5, <1>6, <1>7, <1>8 DEF Next

\* The inductive invariant holds, whatever waits, fails or is rolled back.
THEOREM Invariance == Spec => []IInv
BY InitInv, NextInv, PTL DEF Spec

\* Type correctness: in particular no pool has a port past the last.
THEOREM TypeCorrect == Spec => []PoolsTypeOK
<1>1. IInv => PoolsTypeOK
    BY DEF IInv
<1> QED
    BY <1>1, Invariance, PTL

\* What create_pool tells its user when it refuses is true.
THEOREM TrueRefusals == Spec => []RefusalsAreTrue
<1>1. IInv => RefusalsAreTrue
  <2> SUFFICES ASSUME IInv, NEW w \in Workers, calls[w].pc = "insert"
               PROVE  /\ ~PortTaken(calls[w].port)
                      /\ calls[w].port > MaxPort =>
                            \A port \in StartPort..MaxPort : PortTaken(port)
      BY DEF RefusalsAreTrue
  <2>1. calls[w].port = nextPort
      BY DEF IInv, CallsOK, CallOK, InTransaction
  <2> QED
      BY <2>1, PortAssumption DEF IInv, PortsOK
<1> QED
    BY <1>1, Invariance, PTL
-----------------------------------------------------------------------------
\* A commit creates a pool of the registry, with the lowest free port.
LEMMA CommitCreates ==
    ASSUME IInv, NEW w \in Workers, calls[w].pc = "commit", Committed(w)
    PROVE  Registry!Next
<1> DEFINE c == calls[w]
<1>1. /\ c.account \in Accounts /\ c.chain \in Chains
      /\ c.id \in PoolIds /\ c.id \notin DOMAIN pools
      /\ c.port = nextPort
      /\ ~ChainTaken(c.account, c.chain, None)
      /\ nextPort \in StartPort..MaxPort
    BY CommittedRow DEF IInv, CallsOK, CallOK, InTransaction
<1>2. Registry!LowestFree(c.port)
    BY <1>1, PortAssumption
    DEF IInv, PortsOK, PortTaken, Registry!LowestFree, Registry!Used
<1>3. Registry!Free(c.account, c.chain)
  <2>1. ASSUME NEW id \in DOMAIN pools, id # None
        PROVE  ~(pools[id].account = c.account /\ pools[id].chain = c.chain)
      BY <1>1, <2>1, HolderAssumption DEF ChainTaken
  <2> QED
      BY <2>1, HolderAssumption DEF IInv, PoolsTypeOK, Registry!Free
<1>4. Registry!Create(c.id, c.account, c.chain, c.port)
    BY <1>1, <1>2, <1>3 DEF Committed, Registry!Create
<1> QED
    BY <1>1, <1>4 DEF Registry!Next

\* Every behaviour of the transactions is one of the registry: ports are given
\* out in order, none is lost or given twice, whatever fails.
THEOREM Implements == Spec => IsRegistry
<1>1. Init => Registry!Init
    BY DEF Init, Registry!Init
<1>2. ASSUME IInv, [Next]_vars PROVE [Registry!Next]_pools
  <2>1. ASSUME NEW w \in Workers, Change(w) PROVE Registry!Next \/ UNCHANGED pools
    <3> DEFINE c == calls[w]
    <3>1. /\ c.id \in DOMAIN pools /\ c.chain \in Chains
          /\ pools[c.id].account = c.account
        BY <1>2, <2>1 DEF IInv, CallsOK, CallOK, Change
    <3>2. pools' = [pools EXCEPT ![c.id].chain = c.chain]
        BY <2>1, <3>1 DEF Change, ChangeSet
    <3>3. CASE pools[c.id].chain = c.chain
        BY <3>1, <3>2, <3>3, <1>2 DEF IInv, PoolsTypeOK, PoolRow
    <3>4. CASE pools[c.id].chain # c.chain
      <4>1. Registry!Free(c.account, c.chain)
          BY <2>1, <3>1, <3>4 DEF Change, ChainTaken, Registry!Free
      <4> QED
          BY <3>1, <3>2, <4>1 DEF Registry!Rechain, Registry!Next
    <3> QED
        BY <3>3, <3>4
  <2>2. ASSUME NEW w \in Workers, Commit(w) \/ CommitUnanswered(w)
        PROVE  Registry!Next
      BY <1>2, <2>2, CommitCreates DEF Commit, CommitUnanswered
  <2> QED
      BY <1>2, <2>1, <2>2
      DEF Next, Step, AskCreate, AskChange, LockSequence, NoPortsRemain, Insert,
          InsertDuplicate, Bump, ReadBack, ChangeDuplicate, Fail, vars
<1> QED
    BY <1>1, <1>2, Invariance, PTL DEF Spec, IsRegistry, Registry!Spec
=============================================================================
