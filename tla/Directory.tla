----------------------------- MODULE Directory ------------------------------
(***************************************************************************)
(* What db/AppDb.py and db/AdminDb.py promise of the users table, without  *)
(* transactions, locks or failures: accounts come into being and stay, no  *)
(* two have names that differ in spelling only, no two have one wallet,    *)
(* and an edit or a change of status is seen as a whole.                   *)
(***************************************************************************)
CONSTANTS Ids, Names, Wallets,
          Fold          \* what utf8mb4_unicode_ci compares of a name

VARIABLE users          \* id -> [name, wallet, status]

Free(name, wallet, own) ==
    \A id \in DOMAIN users \ {own} :
        Fold[users[id].name] # Fold[name] /\ users[id].wallet # wallet

Init == DOMAIN users = {}

Register(id, name, wallet) ==
    /\ id \notin DOMAIN users
    /\ Free(name, wallet, id)
    /\ users' = [i \in DOMAIN users \cup {id} |->
                    IF i = id
                    THEN [name |-> name, wallet |-> wallet, status |-> "active"]
                    ELSE users[i]]

Edit(id, name, wallet) ==
    /\ Free(name, wallet, id)
    /\ users' = [users EXCEPT ![id].name = name, ![id].wallet = wallet]

SetStatus(id, status) == users' = [users EXCEPT ![id].status = status]

Next ==
    \/ \E id \in Ids, name \in Names, wallet \in Wallets : Register(id, name, wallet)
    \/ \E id \in DOMAIN users, name \in Names, wallet \in Wallets :
          Edit(id, name, wallet)
    \/ \E id \in DOMAIN users, status \in {"active", "disabled"} : SetStatus(id, status)

Spec == Init /\ [][Next]_users
=============================================================================
