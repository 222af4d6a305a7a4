------------------------------ MODULE Accounts ------------------------------
(***************************************************************************)
(* The users table under sign-ups (mgr/AcctMgr.py create_user) and the     *)
(* administrator's edits and changes of status (mgr/AdminMgr.py            *)
(* update_account and _set_status, db/AdminDb.py).                         *)
(*                                                                         *)
(* Each is one statement on users in a transaction of its own.  It locks   *)
(* the row it updates, then needs the two unique keys of the new values,   *)
(* and waits where another transaction that is not over has inserted or    *)
(* removed the same key.  Two edits may wait for each other: MariaDB then  *)
(* fails one of them.  What an administrator confirms or edits was read in *)
(* an earlier transaction.  The sessions that a change of status revokes   *)
(* are the module Sessions'.                                               *)
(***************************************************************************)
CONSTANTS
    Workers,    \* threads that serve requests, of both services
    Ids,        \* AUTO_INCREMENT keys, only their identity matters
    Names,      \* usernames AcctMgr.validate_profile accepts
    Wallets,    \* wallet addresses it accepts
    Fold,       \* what utf8mb4_unicode_ci compares of a name
    None        \* no account yet

ASSUME NoneIsNoId == None \notin Ids

VARIABLES
    users,      \* the users table as committed
    calls       \* what each worker is doing

vars == <<users, calls>>

User == [name : Names, wallet : Wallets, status : {"active", "disabled"}]

\* `name` and `wallet` are the values of the form, for a change of status
\* `name` is the one the administrator confirmed, and `borne` that the account has
\* had it at some time since the request came.
Call == [pc : {"idle", "read", "row", "keys", "commit"},
         op : {"create", "edit", "active", "disabled"},
         id : Ids \cup {None}, name : Names \cup {None},
         wallet : Wallets \cup {None}, borne : BOOLEAN]

NoCall == [pc |-> "idle", op |-> "create", id |-> None, name |-> None,
           wallet |-> None, borne |-> FALSE]

ChangesStatus(call) == call.op \in {"active", "disabled"}

Init ==
    /\ users = [id \in {} |-> NoCall]
    /\ calls = [w \in Workers |-> NoCall]

Goes(w, pc) == calls' = [calls EXCEPT ![w].pc = pc] /\ UNCHANGED users
Ends(w) == calls' = [calls EXCEPT ![w] = NoCall] /\ UNCHANGED users

-----------------------------------------------------------------------------
(* Requests.  Values that validate_profile refuses change nothing (422).   *)

\* AppMgr.new_account and AcctMgr.create_user
AskCreate(w, name, wallet) ==
    /\ calls[w].pc = "idle"
    /\ calls' = [calls EXCEPT ![w] = [NoCall EXCEPT
                     !.pc = "keys", !.name = name, !.wallet = wallet]]
    /\ UNCHANGED users

\* AdminMgr.update_account up to the UPDATE; the row it reads first only decides
\* about 404.
AskEdit(w, id, name, wallet) ==
    /\ calls[w].pc = "idle"
    /\ id \in DOMAIN users
    /\ calls' = [calls EXCEPT ![w] = [NoCall EXCEPT
                     !.pc = "row", !.op = "edit", !.id = id,
                     !.name = name, !.wallet = wallet]]
    /\ UNCHANGED users

\* A request to disable or enable the account, with the name as confirmed.
AskStatus(w, id, status, confirmed) ==
    /\ calls[w].pc = "idle"
    /\ id \in DOMAIN users
    /\ calls' = [calls EXCEPT ![w] = [NoCall EXCEPT
                     !.pc = "read", !.op = status, !.id = id, !.name = confirmed,
                     !.borne = users[id].name = confirmed]]
    /\ UNCHANGED users

\* A slip that would break ConfirmedByName: names are compared as MariaDB does.
ConfirmFolded(w) ==
    /\ calls[w].pc = "read"
    /\ IF Fold[calls[w].name] = Fold[users[calls[w].id].name]
       THEN Goes(w, "row") ELSE Ends(w)

\* _set_status reads the account and compares, spelling included (else 422).
Confirm(w) ==
    /\ calls[w].pc = "read"
    /\ IF calls[w].name = users[calls[w].id].name
       THEN Goes(w, "row") ELSE Ends(w)

-----------------------------------------------------------------------------
(* The statement.                                                          *)

HoldsRow(v, id) == calls[v].pc \in {"keys", "commit"} /\ calls[v].id = id

\* An UPDATE has its row; a change of status needs nothing more.
LockRow(w) ==
    /\ calls[w].pc = "row"
    /\ \A v \in Workers : ~HoldsRow(v, calls[w].id)
    /\ Goes(w, IF calls[w].op = "edit" THEN "keys" ELSE "commit")

SameKey(a, b) == Fold[a.name] = Fold[b.name] \/ a.wallet = b.wallet

\* v has removed, or inserted, a key that w needs, and is not over.
Blocks(v, w) ==
    /\ v # w /\ ~ChangesStatus(calls[v])
    /\ \/ /\ calls[v].op = "edit" /\ calls[v].pc \in {"keys", "commit"}
          /\ SameKey(users[calls[v].id], calls[w])
       \/ calls[v].pc = "commit" /\ SameKey(calls[v], calls[w])

\* A slip that would break IsDirectory: only the name has a unique key.
NameTaken(w) ==
    \E id \in DOMAIN users \ {calls[w].id} : Fold[users[id].name] = Fold[calls[w].name]

\* uq_users_username and uq_users_wallet
Taken(w) == \E id \in DOMAIN users \ {calls[w].id} : SameKey(users[id], calls[w])

Unblocked(w) == \A v \in Workers : ~Blocks(v, w)

\* A slip that would break TypeOK: last_insert_id is not looked at.
WriteWithoutId(w) ==
    /\ calls[w].pc = "keys"
    /\ Unblocked(w)
    /\ ~Taken(w)
    /\ Goes(w, "commit")

\* INSERT, or UPDATE of name and wallet, not yet committed.
Write(w) ==
    /\ calls[w].pc = "keys"
    /\ Unblocked(w)
    /\ ~Taken(w)
    /\ IF calls[w].op = "edit" THEN Goes(w, "commit")
       ELSE /\ \E id \in Ids \ (DOMAIN users \cup {calls[v].id : v \in Workers}) :
                  calls' = [calls EXCEPT ![w].pc = "commit", ![w].id = id]
            /\ UNCHANGED users

\* A slip that would break AccountsEnd: the transaction of a duplicate stays open.
DuplicateOpen(w) ==
    /\ calls[w].pc = "keys"
    /\ Unblocked(w)
    /\ Taken(w)
    /\ UNCHANGED vars

\* errno 1062: DuplicateUserError, a rollback, and 409.
Duplicate(w) ==
    /\ calls[w].pc = "keys"
    /\ Unblocked(w)
    /\ Taken(w)
    /\ Ends(w)

\* Transactions that wait for each other.
Deadlocked(w) ==
    \E waiting \in SUBSET Workers :
        /\ w \in waiting
        /\ \A u \in waiting :
              calls[u].pc = "keys" /\ \E v \in waiting : Blocks(v, u)

\* MariaDB rolls one of them back (errno 1213), which is an error like others.
Victim(w) == Deadlocked(w) /\ Ends(w)

\* The statement's effect.
Written(call) ==
    CASE call.op = "create" ->
            [id \in DOMAIN users \cup {call.id} |->
                IF id = call.id
                THEN [name |-> call.name, wallet |-> call.wallet, status |-> "active"]
                ELSE users[id]]
      [] call.op = "edit" ->
            [users EXCEPT ![call.id].name = call.name, ![call.id].wallet = call.wallet]
      [] OTHER -> [users EXCEPT ![call.id].status = call.op]

\* The commit, whether its acknowledgement arrives or not; reading the account
\* again changes nothing.
Commit(w) ==
    /\ calls[w].pc = "commit"
    /\ users' = Written(calls[w])
    /\ calls' = [v \in Workers |->
                    IF v = w THEN NoCall
                    ELSE IF ChangesStatus(calls[v]) /\ calls[v].id = calls[w].id
                    THEN [calls[v] EXCEPT !.borne = @ \/ users'[calls[w].id].name = calls[v].name]
                    ELSE calls[v]]

\* A lock wait times out, or the connection or the process is lost.
Fail(w) == calls[w].pc # "idle" /\ Ends(w)

Step(w) == Confirm(w) \/ Victim(w) \/ Commit(w)

Next ==
    \/ \E w \in Workers, name \in Names, wallet \in Wallets :
          \/ AskCreate(w, name, wallet)
          \/ \E id \in Ids : AskEdit(w, id, name, wallet)
    \/ \E w \in Workers, id \in Ids, status \in {"active", "disabled"}, name \in Names :
          AskStatus(w, id, status, name)
    \/ \E w \in Workers : LockRow(w) \/ Write(w) \/ Duplicate(w)
    \/ \E w \in Workers : Step(w) \/ Fail(w)

Spec == Init /\ [][Next]_vars

\* Threads run on, MariaDB breaks deadlocks, and grants a lock to every
\* transaction that waits for it long enough.  Requests and failures need not
\* happen.
Fairness ==
    \A w \in Workers :
        /\ WF_vars(Step(w))
        /\ SF_vars(LockRow(w))
        /\ SF_vars(Write(w) \/ Duplicate(w))

FairSpec == Spec /\ Fairness

-----------------------------------------------------------------------------
TypeOK ==
    /\ DOMAIN users \subseteq Ids
    /\ users \in [DOMAIN users -> User]
    /\ calls \in [Workers -> Call]

\* Whatever waits, fails or is rolled back, and whichever of two edits comes
\* first, the users table is the directory: the keys that are unique in it stay
\* unique through swaps of names and races for one.
TheDirectory == INSTANCE Directory WITH users <- users, Fold <- Fold
IsDirectory == TheDirectory!Spec

\* admin/templates/edit-account.html asks for the name of an account to confirm
\* a change of its status.  The name is checked before the change and in another
\* transaction, so the account may be renamed in between; but the confirmed name
\* is one, letter by letter, that the account had while the request was served.
ConfirmedByName ==
    [][\A id \in DOMAIN users : users'[id].status # users[id].status =>
          \E w \in Workers : /\ calls[w].pc = "commit" /\ calls[w].id = id
                             /\ calls[w].op = users'[id].status
                             /\ calls[w].borne]_vars

\* No request waits for ever, not even one of two edits that swap names.
AccountsEnd == \A w \in Workers : calls[w].pc # "idle" ~> calls[w].pc = "idle"
=============================================================================
