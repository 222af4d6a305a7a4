--------------------------- MODULE AccountsProofs ---------------------------
(***************************************************************************)
(* For any number of requests, names, wallets and accounts, and whatever   *)
(* comparison of names: the users table is the directory of the module     *)
(* Directory, and an administrator changes the status of the account whose *)
(* name was confirmed.                                                     *)
(*                                                                         *)
(* A row is written without looking again at the keys of the others, so    *)
(* what has to be kept is what a transaction has found when it wrote: that *)
(* nothing committed (AccountOK) and nothing about to be (Apart) has them. *)
(***************************************************************************)
EXTENDS Accounts, TLAPS

\* What a call c still knows of the table.
AccountOK(c) ==
    /\ c.op = "create" => c.pc \in {"idle", "keys", "commit"}
    /\ c.pc = "read" => ChangesStatus(c)
    /\ c.pc = "keys" => ~ChangesStatus(c)
    /\ c.pc # "idle" =>
          /\ c.name \in Names
          /\ ~ChangesStatus(c) => c.wallet \in Wallets
          /\ c.op # "create" => c.id \in DOMAIN users
    /\ c.op = "create" /\ c.pc = "keys" => c.id = None
    /\ c.op = "create" /\ c.pc = "commit" => c.id \in Ids \ DOMAIN users
    /\ c.pc = "commit" /\ ~ChangesStatus(c) =>
          \A id \in DOMAIN users \ {c.id} : ~SameKey(users[id], c)
    /\ c.pc = "read" /\ users[c.id].name = c.name => c.borne
    /\ c.pc \in {"row", "commit"} /\ ChangesStatus(c) => c.borne

\* Two calls never have one row, nor one key.
Apart(c, d) ==
    /\ c.pc \in {"keys", "commit"} /\ d.pc \in {"keys", "commit"} /\ c.id # None =>
          c.id # d.id
    /\ c.pc = "commit" /\ d.pc = "commit" /\ ~ChangesStatus(c) /\ ~ChangesStatus(d) =>
          ~SameKey(c, d)

AccountsIInv ==
    /\ TypeOK
    /\ \A w \in Workers : AccountOK(calls[w])
    /\ \A v, w \in Workers : v # w => Apart(calls[v], calls[w])

-----------------------------------------------------------------------------
\* A worker without a call.
LEMMA NoCallOK ==
  /\ NoCall \in Call
  /\ NoCall.pc = "idle" /\ NoCall.op = "create"
  /\ NoCall.name = None /\ NoCall.wallet = None /\ NoCall.id = None /\ NoCall.borne = FALSE
  /\ AccountOK(NoCall)
BY DEF NoCall, Call, AccountOK

\* At the start there are no accounts and no calls.
LEMMA AccountsInit == Init => AccountsIInv
<1> SUFFICES ASSUME Init PROVE AccountsIInv
  OBVIOUS
<1>1. TypeOK
  BY NoCallOK DEF Init, TypeOK
<1>2. \A w \in Workers : calls[w] = NoCall
  BY DEF Init
<1>3. \A v, w \in Workers : Apart(calls[v], calls[w])
  BY <1>2, NoCallOK DEF Apart
<1> QED
  BY <1>1, <1>2, <1>3, NoCallOK DEF AccountsIInv

\* A step that changes one call and no account.
LEMMA OneMoves ==
  ASSUME AccountsIInv, NEW w \in Workers, NEW c \in Call,
         calls' = [calls EXCEPT ![w] = c], users' = users,
         AccountOK(c),
         \A v \in Workers : v # w => Apart(c, calls[v])
  PROVE  AccountsIInv'
<1>1. /\ calls' \in [Workers -> Call] /\ calls'[w] = c
      /\ \A v \in Workers : v # w => calls'[v] = calls[v]
  BY DEF AccountsIInv, TypeOK
<1>2. TypeOK'
  BY <1>1 DEF AccountsIInv, TypeOK
<1>3. ASSUME NEW v \in Workers PROVE AccountOK(calls[v])'
  <2>1. AccountOK(calls'[v])
    BY <1>1 DEF AccountsIInv
  <2> QED
    BY <2>1 DEF AccountOK
<1>4. ASSUME NEW u \in Workers, NEW v \in Workers, u # v PROVE Apart(calls[u], calls[v])'
  <2>1. Apart(calls'[u], calls'[v])
    <3>1. CASE u = w
      BY <1>1, <1>4, <3>1
    <3>2. CASE v = w
      <4>1. Apart(c, calls[u])
        BY <1>4, <3>2
      <4>2. Apart(calls[u], c)
        BY <4>1 DEF Apart, SameKey
      <4> QED
        BY <1>1, <1>4, <3>2, <4>2
    <3>3. CASE u # w /\ v # w
      BY <1>1, <1>4, <3>3 DEF AccountsIInv
    <3> QED
      BY <3>1, <3>2, <3>3
  <2> QED
    BY <2>1 DEF Apart
<1> QED
  BY <1>2, <1>3, <1>4 DEF AccountsIInv

\* A call that ends without a write.
LEMMA EndsKeeps ==
  ASSUME AccountsIInv, NEW w \in Workers, Ends(w)
  PROVE  AccountsIInv'
<1>1. \A v \in Workers : Apart(NoCall, calls[v])
  BY NoCallOK DEF Apart
<1> QED
  BY <1>1, NoCallOK, OneMoves DEF Ends

\* A request comes.
LEMMA AskKeeps ==
  ASSUME AccountsIInv, NEW w \in Workers, NEW name \in Names,
         \/ \E wallet \in Wallets :
               AskCreate(w, name, wallet) \/ \E id \in Ids : AskEdit(w, id, name, wallet)
         \/ \E id \in Ids, status \in {"active", "disabled"} : AskStatus(w, id, status, name)
  PROVE  AccountsIInv'
<1>1. ASSUME NEW wallet \in Wallets, AskCreate(w, name, wallet) PROVE AccountsIInv'
  <2> DEFINE c == [NoCall EXCEPT !.pc = "keys", !.name = name, !.wallet = wallet]
  <2>1. /\ c \in Call /\ c.pc = "keys" /\ c.op = "create" /\ c.id = None
        /\ c.name = name /\ c.wallet = wallet
    BY NoCallOK DEF Call
  <2>2. calls' = [calls EXCEPT ![w] = c] /\ users' = users
    BY <1>1 DEF AskCreate
  <2> HIDE DEF c
  <2>3. AccountOK(c) /\ \A v \in Workers : Apart(c, calls[v])
    BY <2>1 DEF AccountOK, Apart, ChangesStatus
  <2> QED
    BY <2>1, <2>2, <2>3, OneMoves
<1>2. ASSUME NEW wallet \in Wallets, NEW id \in Ids, AskEdit(w, id, name, wallet)
      PROVE  AccountsIInv'
  <2> DEFINE c == [NoCall EXCEPT !.pc = "row", !.op = "edit", !.id = id,
                                 !.name = name, !.wallet = wallet]
  <2>1. /\ c \in Call /\ c.pc = "row" /\ c.op = "edit" /\ c.id = id
        /\ c.name = name /\ c.wallet = wallet
    BY NoCallOK DEF Call
  <2>2. calls' = [calls EXCEPT ![w] = c] /\ users' = users /\ id \in DOMAIN users
    BY <1>2 DEF AskEdit
  <2> HIDE DEF c
  <2>3. AccountOK(c) /\ \A v \in Workers : Apart(c, calls[v])
    BY <2>1, <2>2 DEF AccountOK, Apart, ChangesStatus
  <2> QED
    BY <2>1, <2>2, <2>3, OneMoves
<1>3. ASSUME NEW id \in Ids, NEW status \in {"active", "disabled"},
             AskStatus(w, id, status, name)
      PROVE  AccountsIInv'
  <2> DEFINE borne == users[id].name = name
             c == [NoCall EXCEPT !.pc = "read", !.op = status, !.id = id,
                                 !.name = name, !.borne = borne]
  <2>1. borne \in BOOLEAN /\ (users[id].name = name => borne)
    OBVIOUS
  <2>2. calls' = [calls EXCEPT ![w] = c] /\ users' = users /\ id \in DOMAIN users
    BY <1>3 DEF AskStatus
  <2> HIDE DEF borne
  <2>3. /\ c \in Call /\ c.pc = "read" /\ c.op = status /\ c.id = id
        /\ c.name = name /\ c.borne = borne
    BY <2>1, NoCallOK DEF Call
  <2> HIDE DEF c
  <2>4. AccountOK(c) /\ \A v \in Workers : Apart(c, calls[v])
    BY <2>1, <2>2, <2>3 DEF AccountOK, Apart, ChangesStatus
  <2> QED
    BY <2>2, <2>3, <2>4, OneMoves
<1> QED
  BY <1>1, <1>2, <1>3

\* An administrator's name is confirmed, or a row is locked.
LEMMA ProceedKeeps ==
  ASSUME AccountsIInv, NEW w \in Workers, Confirm(w) \/ LockRow(w)
  PROVE  AccountsIInv'
<1>0. calls[w] \in Call /\ AccountOK(calls[w])
  BY DEF AccountsIInv, TypeOK
<1>1. ASSUME NEW pc \in {"row", "keys", "commit"}, Goes(w, pc),
             AccountOK([calls[w] EXCEPT !.pc = pc]),
             \A v \in Workers : v # w => Apart([calls[w] EXCEPT !.pc = pc], calls[v])
      PROVE  AccountsIInv'
  <2>1. [calls[w] EXCEPT !.pc = pc] \in Call
    BY <1>0 DEF Call
  <2>2. calls' = [calls EXCEPT ![w] = [calls[w] EXCEPT !.pc = pc]] /\ users' = users
    BY <1>1 DEF Goes
  <2> QED
    BY <1>1, <2>1, <2>2, OneMoves
<1>2. ASSUME NEW pc \in {"row", "keys", "commit"}
      PROVE  LET c == [calls[w] EXCEPT !.pc = pc] IN
             /\ c.pc = pc /\ c.op = calls[w].op /\ c.id = calls[w].id
             /\ c.name = calls[w].name /\ c.wallet = calls[w].wallet
             /\ c.borne = calls[w].borne
  BY <1>0 DEF Call
<1>3. CASE Confirm(w)
  <2>1. CASE calls[w].name = users[calls[w].id].name
    <3> DEFINE c == [calls[w] EXCEPT !.pc = "row"]
    <3>1. /\ c.pc = "row" /\ c.op = calls[w].op /\ c.id = calls[w].id
          /\ c.name = calls[w].name /\ c.wallet = calls[w].wallet
          /\ c.borne = calls[w].borne
      BY <1>2
    <3>2. calls[w].pc = "read" /\ Goes(w, "row")
      BY <1>3, <2>1 DEF Confirm
    <3> HIDE DEF c
    <3>3. AccountOK(c) /\ \A v \in Workers : Apart(c, calls[v])
      BY <1>0, <2>1, <3>1, <3>2 DEF AccountOK, Apart, ChangesStatus
    <3> QED
      BY <1>1, <3>2, <3>3 DEF c
  <2>2. CASE calls[w].name # users[calls[w].id].name
    BY <1>3, <2>2, EndsKeeps DEF Confirm
  <2> QED
    BY <2>1, <2>2
<1>4. CASE LockRow(w)
  <2>1. PICK pc \in {"keys", "commit"} :
           /\ pc = IF calls[w].op = "edit" THEN "keys" ELSE "commit"
           /\ Goes(w, pc)
    BY <1>4 DEF LockRow
  <2> DEFINE c == [calls[w] EXCEPT !.pc = pc]
  <2>2. /\ c.pc = pc /\ c.op = calls[w].op /\ c.id = calls[w].id
        /\ c.name = calls[w].name /\ c.wallet = calls[w].wallet
        /\ c.borne = calls[w].borne
    BY <1>2
  <2>3. calls[w].pc = "row" /\ \A v \in Workers : ~HoldsRow(v, calls[w].id)
    BY <1>4 DEF LockRow
  <2> HIDE DEF c
  <2>4. AccountOK(c)
    BY <1>0, <2>1, <2>2, <2>3 DEF AccountOK, ChangesStatus, Call
  <2>5. \A v \in Workers : Apart(c, calls[v])
    BY <1>0, <2>1, <2>2, <2>3 DEF AccountOK, ChangesStatus, Call, Apart, HoldsRow
  <2> QED
    BY <1>1, <2>1, <2>4, <2>5 DEF c
<1> QED
  BY <1>3, <1>4

\* A statement writes where no other has the keys, committed or not.
LEMMA WriteKeeps ==
  ASSUME AccountsIInv, NEW w \in Workers, Write(w)
  PROVE  AccountsIInv'
<1>0. /\ calls[w] \in Call /\ AccountOK(calls[w]) /\ calls[w].pc = "keys"
      /\ calls \in [Workers -> Call] /\ DOMAIN users \subseteq Ids
      /\ ~ChangesStatus(calls[w])
  BY DEF AccountsIInv, TypeOK, Write, AccountOK
<1>1. \A id \in DOMAIN users \ {calls[w].id} : ~SameKey(users[id], calls[w])
  BY DEF Write, Taken
<1>2. ASSUME NEW v \in Workers, v # w, calls[v].pc = "commit", ~ChangesStatus(calls[v])
      PROVE  ~SameKey(calls[v], calls[w])
  BY <1>2 DEF Write, Unblocked, Blocks
<1>3. CASE calls[w].op = "edit"
  <2> DEFINE c == [calls[w] EXCEPT !.pc = "commit"]
  <2>1. /\ c \in Call /\ c.pc = "commit" /\ c.op = calls[w].op /\ c.id = calls[w].id
        /\ c.name = calls[w].name /\ c.wallet = calls[w].wallet
        /\ c.borne = calls[w].borne
    BY <1>0 DEF Call
  <2>2. calls' = [calls EXCEPT ![w] = c] /\ users' = users
    BY <1>3 DEF Write, Goes
  <2> HIDE DEF c
  <2>3. AccountOK(c)
    BY <1>0, <1>1, <1>3, <2>1 DEF AccountOK, ChangesStatus, SameKey
  <2>4. ASSUME NEW v \in Workers, v # w PROVE Apart(c, calls[v])
    <3>1. Apart(calls[w], calls[v])
      BY <2>4 DEF AccountsIInv
    <3> QED
      BY <1>0, <1>2, <2>1, <2>4, <3>1 DEF Apart, SameKey
  <2> QED
    BY <2>1, <2>2, <2>3, <2>4, OneMoves
<1>4. CASE calls[w].op # "edit"
  <2>1. PICK id \in Ids \ (DOMAIN users \cup {calls[v].id : v \in Workers}) :
           calls' = [calls EXCEPT ![w].pc = "commit", ![w].id = id] /\ users' = users
    BY <1>4 DEF Write
  <2> DEFINE c == [calls[w] EXCEPT !.pc = "commit", !.id = id]
  <2>2. /\ c \in Call /\ c.pc = "commit" /\ c.op = calls[w].op /\ c.id = id
        /\ c.name = calls[w].name /\ c.wallet = calls[w].wallet
        /\ c.borne = calls[w].borne
    BY <1>0 DEF Call
  <2>3. calls' = [calls EXCEPT ![w] = c]
    BY <1>0, <2>1
  <2> HIDE DEF c
  <2>4. calls[w].op = "create" /\ calls[w].id = None
    BY <1>0, <1>4 DEF AccountOK, ChangesStatus, Call
  <2>5. AccountOK(c)
    BY <1>0, <1>1, <2>1, <2>2, <2>4, NoneIsNoId DEF AccountOK, ChangesStatus, SameKey
  <2>6. ASSUME NEW v \in Workers, v # w PROVE Apart(c, calls[v])
    BY <1>0, <1>2, <2>1, <2>2, <2>6 DEF Apart, SameKey
  <2> QED
    BY <2>1, <2>2, <2>3, <2>5, <2>6, OneMoves
<1> QED
  BY <1>3, <1>4

\* What a commit does to the table: it writes one row, of which no other call at
\* its commit knows, and leaves the name and the wallet of a row alone whose
\* status it changes.
LEMMA CommitWrites ==
  ASSUME AccountsIInv, NEW w \in Workers, Commit(w)
  PROVE  /\ calls[w].id \in Ids
         /\ DOMAIN users' = DOMAIN users \cup {calls[w].id}
         /\ users'[calls[w].id] \in User
         /\ \A id \in DOMAIN users : id # calls[w].id => users'[id] = users[id]
         /\ ~ChangesStatus(calls[w]) =>
               /\ users'[calls[w].id].name = calls[w].name
               /\ users'[calls[w].id].wallet = calls[w].wallet
         /\ ChangesStatus(calls[w]) =>
               /\ users'[calls[w].id].name = users[calls[w].id].name
               /\ users'[calls[w].id].wallet = users[calls[w].id].wallet
         /\ users' \in [DOMAIN users' -> User]
<1> DEFINE c == calls[w]
<1>0. /\ c \in Call /\ AccountOK(c) /\ c.pc = "commit"
      /\ DOMAIN users \subseteq Ids /\ users \in [DOMAIN users -> User]
      /\ \A id \in DOMAIN users : users[id] \in User
      /\ users' = Written(c)
  BY DEF AccountsIInv, TypeOK, Commit
<1>1. CASE c.op = "create"
  <2>1. users' = [id \in DOMAIN users \cup {c.id} |->
                    IF id = c.id
                    THEN [name |-> c.name, wallet |-> c.wallet, status |-> "active"]
                    ELSE users[id]]
    BY <1>0, <1>1 DEF Written
  <2>2. c.id \in Ids \ DOMAIN users /\ c.name \in Names /\ c.wallet \in Wallets
    BY <1>0, <1>1 DEF AccountOK, ChangesStatus
  <2>3. [name |-> c.name, wallet |-> c.wallet, status |-> "active"] \in User
    BY <2>2 DEF User
  <2>4. users' \in [DOMAIN users' -> User]
    BY <1>0, <2>1, <2>3
  <2> QED
    BY <1>1, <2>1, <2>2, <2>3, <2>4 DEF ChangesStatus
<1>2. CASE c.op = "edit"
  <2>1. users' = [users EXCEPT ![c.id].name = c.name, ![c.id].wallet = c.wallet]
    BY <1>0, <1>2 DEF Written
  <2>2. c.id \in DOMAIN users /\ c.name \in Names /\ c.wallet \in Wallets
    BY <1>0, <1>2 DEF AccountOK, ChangesStatus
  <2>3. /\ users'[c.id] \in User /\ users'[c.id].name = c.name /\ users'[c.id].wallet = c.wallet
        /\ DOMAIN users' = DOMAIN users
        /\ \A id \in DOMAIN users : id # c.id => users'[id] = users[id]
    <3> DEFINE u == [users[c.id] EXCEPT !.name = c.name, !.wallet = c.wallet]
    <3>1. u \in User /\ u.name = c.name /\ u.wallet = c.wallet
      BY <1>0, <2>2 DEF User
    <3>2. users' = [users EXCEPT ![c.id] = u]
      BY <1>0, <2>1, <2>2
    <3> HIDE DEF u
    <3> QED
      BY <1>0, <2>2, <3>1, <3>2
  <2>4. users' \in [DOMAIN users' -> User]
    BY <1>0, <2>1, <2>3
  <2> QED
    BY <1>0, <1>2, <2>2, <2>3, <2>4 DEF ChangesStatus
<1>3. CASE ChangesStatus(c)
  <2>1. users' = [users EXCEPT ![c.id].status = c.op]
    BY <1>0, <1>3 DEF Written, ChangesStatus
  <2>2. c.id \in DOMAIN users /\ c.op \in {"active", "disabled"}
    BY <1>0, <1>3 DEF AccountOK, ChangesStatus
  <2>3. /\ users'[c.id] \in User
        /\ users'[c.id].name = users[c.id].name /\ users'[c.id].wallet = users[c.id].wallet
        /\ DOMAIN users' = DOMAIN users
        /\ \A id \in DOMAIN users : id # c.id => users'[id] = users[id]
    BY <1>0, <2>1, <2>2 DEF User
  <2>4. users' \in [DOMAIN users' -> User]
    BY <1>0, <2>1, <2>3
  <2> QED
    BY <1>0, <1>3, <2>2, <2>3, <2>4
<1> QED
  BY <1>0, <1>1, <1>2, <1>3 DEF Call, ChangesStatus

\* A commit takes nothing from the calls that go on.
LEMMA CommitKeeps ==
  ASSUME AccountsIInv, NEW w \in Workers, Commit(w)
  PROVE  AccountsIInv'
<1>0. /\ calls[w].pc = "commit" /\ AccountOK(calls[w])
      /\ calls \in [Workers -> Call]
      /\ DOMAIN users \subseteq Ids
  BY DEF AccountsIInv, TypeOK, Commit
<1>1. /\ calls[w].id \in Ids
      /\ DOMAIN users' = DOMAIN users \cup {calls[w].id}
      /\ users'[calls[w].id] \in User
      /\ \A id \in DOMAIN users : id # calls[w].id => users'[id] = users[id]
      /\ ~ChangesStatus(calls[w]) =>
            /\ users'[calls[w].id].name = calls[w].name
            /\ users'[calls[w].id].wallet = calls[w].wallet
      /\ ChangesStatus(calls[w]) =>
            /\ users'[calls[w].id].name = users[calls[w].id].name
            /\ users'[calls[w].id].wallet = users[calls[w].id].wallet
      /\ users' \in [DOMAIN users' -> User]
  BY CommitWrites
<1> DEFINE Seen(v) == calls[v].borne \/ users'[calls[w].id].name = calls[v].name
           Told(v) == ChangesStatus(calls[v]) /\ calls[v].id = calls[w].id
           c(v) == IF v = w THEN NoCall
                   ELSE IF Told(v) THEN [calls[v] EXCEPT !.borne = Seen(v)]
                   ELSE calls[v]
<1>2. calls' = [v \in Workers |-> c(v)]
  BY DEF Commit
<1>3. \A v \in Workers : Seen(v) \in BOOLEAN
  BY <1>0 DEF Call
<1>4. ASSUME NEW v \in Workers, v # w
      PROVE  /\ c(v) \in Call /\ c(v).pc = calls[v].pc /\ c(v).op = calls[v].op
             /\ c(v).id = calls[v].id /\ c(v).name = calls[v].name
             /\ c(v).wallet = calls[v].wallet
             /\ calls[v].borne => c(v).borne
             /\ Told(v) /\ users'[calls[w].id].name = calls[v].name => c(v).borne
  <2>1. CASE Told(v)
    <3> HIDE DEF Seen
    <3>1. /\ calls[v] \in Call /\ c(v) = [calls[v] EXCEPT !.borne = Seen(v)]
          /\ Seen(v) \in BOOLEAN
      BY <1>0, <1>3, <1>4, <2>1
    <3>2. /\ c(v) \in Call /\ c(v).pc = calls[v].pc /\ c(v).op = calls[v].op
          /\ c(v).id = calls[v].id /\ c(v).name = calls[v].name
          /\ c(v).wallet = calls[v].wallet /\ c(v).borne = Seen(v)
      BY <3>1 DEF Call
    <3>3. /\ calls[v].borne => Seen(v)
          /\ users'[calls[w].id].name = calls[v].name => Seen(v)
      BY DEF Seen
    <3> QED
      BY <3>2, <3>3
  <2>2. CASE ~Told(v)
    BY <1>0, <1>4, <2>2
  <2> QED
    BY <2>1, <2>2
<1>5. c(w) = NoCall /\ \A v \in Workers : calls'[v] = c(v)
  BY <1>2
<1> HIDE DEF c
<1>6. TypeOK'
  BY <1>0, <1>1, <1>2, <1>4, <1>5, NoCallOK DEF TypeOK
<1>7. ASSUME NEW v \in Workers PROVE AccountOK(calls[v])'
  <2>1. CASE v = w
    BY <1>5, <2>1, NoCallOK DEF AccountOK
  <2>2. CASE v # w
    <3>1. AccountOK(calls[v]) /\ Apart(calls[w], calls[v]) /\ calls[v] \in Call
      BY <1>0, <2>2 DEF AccountsIInv
    <3>2. calls[v].pc = "commit" => calls[v].id # calls[w].id
      BY <1>0, <1>1, <3>1, NoneIsNoId DEF Apart
    <3>3. ASSUME calls[v].pc = "commit", ~ChangesStatus(calls[v]),
                 NEW id \in DOMAIN users' \ {calls[v].id}
          PROVE  ~SameKey(users'[id], calls[v])
      <4>1. CASE id # calls[w].id
        BY <1>1, <3>1, <3>3, <4>1 DEF AccountOK
      <4>2. CASE id = calls[w].id /\ ~ChangesStatus(calls[w])
        BY <1>0, <1>1, <3>1, <3>3, <4>2 DEF Apart, SameKey
      <4>3. CASE id = calls[w].id /\ ChangesStatus(calls[w])
        <5>1. calls[w].id \in DOMAIN users
          BY <1>0, <4>3 DEF AccountOK, ChangesStatus
        <5> QED
          BY <1>1, <3>1, <3>3, <4>3, <5>1 DEF AccountOK, SameKey
      <4> QED
        BY <4>1, <4>2, <4>3
    <3>4. calls[v].pc = "read" /\ users'[calls[v].id].name = calls[v].name => c(v).borne
      BY <1>1, <1>4, <2>2, <3>1 DEF AccountOK, ChangesStatus
    <3>5. calls'[v] = c(v)
      BY <1>5
    <3>6. /\ calls[v].op = "create" /\ calls[v].pc = "commit" => calls[v].id \in Ids \ DOMAIN users'
          /\ calls[v].pc # "idle" /\ calls[v].op # "create" => calls[v].id \in DOMAIN users'
      BY <1>1, <3>1, <3>2 DEF AccountOK
    <3>7. c(v).pc = "commit" /\ ~ChangesStatus(c(v)) =>
            \A id \in DOMAIN users' \ {c(v).id} : ~SameKey(users'[id], c(v))
      BY <1>4, <2>2, <3>3 DEF ChangesStatus, SameKey
    <3> QED
      BY <1>4, <2>2, <3>1, <3>4, <3>5, <3>6, <3>7 DEF AccountOK, ChangesStatus, SameKey
  <2> QED
    BY <2>1, <2>2
<1>8. ASSUME NEW u \in Workers, NEW v \in Workers, u # v PROVE Apart(calls[u], calls[v])'
  <2>1. CASE u = w \/ v = w
    BY <1>5, <2>1, NoCallOK DEF Apart
  <2>2. CASE u # w /\ v # w
    <3>1. Apart(calls[u], calls[v])
      BY <1>8 DEF AccountsIInv
    <3> QED
      BY <1>4, <1>5, <2>2, <3>1 DEF Apart, ChangesStatus, SameKey
  <2> QED
    BY <2>1, <2>2
<1> QED
  BY <1>6, <1>7, <1>8 DEF AccountsIInv

\* Every step keeps the invariant.
LEMMA AccountsNext ==
  ASSUME AccountsIInv, [Next]_vars
  PROVE  AccountsIInv'
<1>1. ASSUME NEW w \in Workers, NEW name \in Names, NEW wallet \in Wallets,
             AskCreate(w, name, wallet) \/ \E id \in Ids : AskEdit(w, id, name, wallet)
      PROVE  AccountsIInv'
  BY <1>1, AskKeeps
<1>2. ASSUME NEW w \in Workers, NEW id \in Ids, NEW status \in {"active", "disabled"},
             NEW name \in Names, AskStatus(w, id, status, name)
      PROVE  AccountsIInv'
  BY <1>2, AskKeeps
<1>3. ASSUME NEW w \in Workers, LockRow(w) \/ Write(w) \/ Duplicate(w) PROVE AccountsIInv'
  BY <1>3, ProceedKeeps, WriteKeeps, EndsKeeps DEF Duplicate
<1>4. ASSUME NEW w \in Workers, Step(w) \/ Fail(w) PROVE AccountsIInv'
  BY <1>4, ProceedKeeps, EndsKeeps, CommitKeeps DEF Step, Victim, Fail
<1>5. CASE UNCHANGED vars
  <2>1. users' = users /\ calls' = calls
    BY <1>5 DEF vars
  <2> QED
    BY <2>1 DEF AccountsIInv, TypeOK, AccountOK, Apart
<1> QED
  BY <1>1, <1>2, <1>3, <1>4, <1>5 DEF Next

-----------------------------------------------------------------------------
\* The inductive invariant holds, whatever waits, fails or is rolled back.
THEOREM AccountsInvariance == Spec => []AccountsIInv
BY AccountsInit, AccountsNext, PTL DEF Spec

\* TypeOK: a row that is committed has a name, a wallet and a status, and its id
\* is one that AUTO_INCREMENT gave.
THEOREM AccountsTypeCorrect == Spec => []TypeOK
<1>1. AccountsIInv => TypeOK
  BY DEF AccountsIInv
<1> QED
  BY <1>1, AccountsInvariance, PTL

\* Only a commit writes to the table.
LEMMA OnlyCommits ==
  ASSUME [Next]_vars
  PROVE  users' = users \/ \E w \in Workers : Commit(w)
BY DEF Next, AskCreate, AskEdit, AskStatus, LockRow, Write, Duplicate, Step, Confirm, Victim,
       Fail, Goes, Ends, vars

\* A commit is a step of the directory.
LEMMA CommitRefines ==
  ASSUME AccountsIInv, NEW w \in Workers, Commit(w)
  PROVE  TheDirectory!Next
<1> DEFINE c == calls[w]
<1>0. /\ c \in Call /\ AccountOK(c) /\ c.pc = "commit" /\ users' = Written(c)
  BY DEF AccountsIInv, TypeOK, Commit
<1>1. ASSUME ~ChangesStatus(c) PROVE TheDirectory!Free(c.name, c.wallet, c.id)
  BY <1>0, <1>1 DEF AccountOK, SameKey, TheDirectory!Free
<1>2. CASE c.op = "create"
  <2>1. c.id \in Ids \ DOMAIN users /\ c.name \in Names /\ c.wallet \in Wallets
        /\ ~ChangesStatus(c)
    BY <1>0, <1>2 DEF AccountOK, ChangesStatus
  <2>2. TheDirectory!Register(c.id, c.name, c.wallet)
    BY <1>0, <1>1, <1>2, <2>1 DEF Written, TheDirectory!Register
  <2> QED
    BY <2>1, <2>2 DEF TheDirectory!Next
<1>3. CASE c.op = "edit"
  <2>1. c.id \in DOMAIN users /\ c.name \in Names /\ c.wallet \in Wallets
        /\ ~ChangesStatus(c)
    BY <1>0, <1>3 DEF AccountOK, ChangesStatus
  <2>2. TheDirectory!Edit(c.id, c.name, c.wallet)
    BY <1>0, <1>1, <1>3, <2>1 DEF Written, TheDirectory!Edit
  <2> QED
    BY <2>1, <2>2 DEF TheDirectory!Next
<1>4. CASE ChangesStatus(c)
  <2>1. c.id \in DOMAIN users /\ c.op \in {"active", "disabled"}
    BY <1>0, <1>4 DEF AccountOK, ChangesStatus
  <2>2. TheDirectory!SetStatus(c.id, c.op)
    BY <1>0, <1>4 DEF Written, ChangesStatus, TheDirectory!SetStatus
  <2> QED
    BY <2>1, <2>2 DEF TheDirectory!Next
<1> QED
  BY <1>0, <1>2, <1>3, <1>4 DEF Call, ChangesStatus

\* IsDirectory: locks, waits and rollbacks are not to be seen in the table, and no
\* race gives two accounts one name or one wallet.
THEOREM AccountsAreDirectory == Spec => IsDirectory
<1>1. Init => TheDirectory!Init
  BY DEF Init, TheDirectory!Init
<1>2. AccountsIInv /\ [Next]_vars => [TheDirectory!Next]_users
  BY OnlyCommits, CommitRefines
<1> QED
  BY <1>1, <1>2, AccountsInvariance, PTL DEF Spec, IsDirectory, TheDirectory!Spec

\* ConfirmedByName: an administrator who confirms a name changes no account that
\* did not have it while the request was served.
THEOREM StatusConfirmed == Spec => ConfirmedByName
<1> DEFINE Confirmed == \A id \in DOMAIN users : users'[id].status # users[id].status =>
              \E w \in Workers : /\ calls[w].pc = "commit" /\ calls[w].id = id
                                 /\ calls[w].op = users'[id].status
                                 /\ calls[w].borne
<1>1. ASSUME AccountsIInv, [Next]_vars PROVE Confirmed
  <2> SUFFICES ASSUME NEW id \in DOMAIN users, users'[id].status # users[id].status
               PROVE  \E w \in Workers : /\ calls[w].pc = "commit" /\ calls[w].id = id
                                         /\ calls[w].op = users'[id].status
                                         /\ calls[w].borne
    OBVIOUS
  <2>1. PICK w \in Workers : Commit(w)
    BY <1>1, OnlyCommits
  <2>2. /\ calls[w] \in Call /\ AccountOK(calls[w]) /\ calls[w].pc = "commit"
        /\ users \in [DOMAIN users -> User] /\ users[id] \in User
        /\ users' = Written(calls[w])
    BY <1>1, <2>1 DEF AccountsIInv, TypeOK, Commit
  <2>3. calls[w].id = id
    BY <1>1, <2>1, CommitWrites
  <2>4. calls[w].op # "create"
    BY <2>2, <2>3 DEF AccountOK
  <2>5. calls[w].op # "edit"
    BY <2>2, <2>3 DEF Written, User
  <2>6. ChangesStatus(calls[w])
    BY <2>2, <2>4, <2>5 DEF Call, ChangesStatus
  <2>7. users'[id].status = calls[w].op
    BY <2>2, <2>3, <2>6 DEF Written, ChangesStatus, User
  <2> QED
    BY <2>2, <2>3, <2>6, <2>7 DEF AccountOK
<1> QED
  BY <1>1, AccountsInvariance, PTL DEF Spec, ConfirmedByName
=============================================================================
