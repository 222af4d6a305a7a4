---------------------------- MODULE PoolRegistry ----------------------------
(***************************************************************************)
(* What db/PoolDb.py promises its callers, without transactions, locks or  *)
(* a port sequence: pools come into being one at a time, each with the     *)
(* lowest port not yet given to any, no account has two pools on a chain,  *)
(* and afterwards only the chain of a pool changes.                        *)
(***************************************************************************)
EXTENDS Integers

CONSTANTS Accounts, Chains, PoolIds,
          StartPort,   \* DDefault.STARTING_P2POOL_PORT
          MaxPort      \* 65535

VARIABLE pools         \* the pools table: id -> [account, chain, port]

Used == {pools[id].port : id \in DOMAIN pools}

LowestFree(port) ==
    /\ port \in StartPort..MaxPort
    /\ port \notin Used
    /\ \A q \in StartPort..(port - 1) : q \in Used

Free(account, chain) ==
    \A id \in DOMAIN pools :
        ~(pools[id].account = account /\ pools[id].chain = chain)

Init == DOMAIN pools = {}

Create(id, account, chain, port) ==
    /\ id \notin DOMAIN pools
    /\ LowestFree(port)
    /\ Free(account, chain)
    /\ pools' = [i \in DOMAIN pools \cup {id} |->
                    IF i = id
                    THEN [account |-> account, chain |-> chain, port |-> port]
                    ELSE pools[i]]

Rechain(id, chain) ==
    /\ Free(pools[id].account, chain)
    /\ pools' = [pools EXCEPT ![id].chain = chain]

Next ==
    \/ \E id \in PoolIds, account \in Accounts, chain \in Chains,
          port \in StartPort..MaxPort : Create(id, account, chain, port)
    \/ \E id \in DOMAIN pools, chain \in Chains : Rechain(id, chain)

Spec == Init /\ [][Next]_pools
=============================================================================
