--------------------------- MODULE SessionsProofs ---------------------------
(***************************************************************************)
(* Proofs about Sessions, for any number of workers, sessions, tokens and  *)
(* accounts and any lifetimes SessMgr accepts.                             *)
(*                                                                         *)
(* The properties of Sessions are not inductive: that a touch cannot move  *)
(* an expiry before the creation of its session depends on what the call   *)
(* has read, which depends on who can know a token.  IInv adds those facts *)
(* about tokens (TokensOK, FreshOK) and about calls in flight (CallsOK).   *)
(***************************************************************************)
EXTENDS Sessions, TLAPS

HasRow(w) == calls[w].pc \in {"touch", "held", "rotate"}

\* Where tokens can be: rows have distinct issued ones, and clients and calls
\* know only issued ones.
TokensOK ==
    /\ cookies \subseteq issued
    /\ \A id \in DOMAIN rows : rows[id].token \in issued
    /\ \A i, j \in DOMAIN rows : rows[i].token = rows[j].token => i = j
    /\ \A w \in Workers : calls[w].token \in issued \cup {None}

\* The token a rotation is about to write is known to that rotation only.
FreshOK ==
    \A w \in Workers : calls[w].pc = "rotate" =>
        /\ calls[w].want \in Accounts
        /\ calls[w].fresh \in issued
        /\ calls[w].fresh \notin cookies
        /\ ~calls[w].authenticated
        /\ \A id \in DOMAIN rows : rows[id].token # calls[w].fresh
        /\ \A v \in Workers :
              /\ calls[v].token # calls[w].fresh
              /\ v # w /\ calls[v].pc = "rotate" => calls[v].fresh # calls[w].fresh

\* What a call in flight still knows of the table: a row it has read keeps its
\* creation and lifetime; a session it holds as authenticated is still the one
\* it read; one under the token it read has not logged in since; and a row read
\* for an active account is revoked if the account is active no more.
CallOK(w) ==
    /\ calls[w].now <= clock
    /\ calls[w].pc = "find" =>
          \A id \in DOMAIN rows : rows[id].token = calls[w].token =>
              rows[id].created <= calls[w].now
    /\ HasRow(w) =>
          /\ calls[w].id \in DOMAIN rows
          /\ calls[w].token \in issued
          /\ calls[w].absolute = rows[calls[w].id].absolute
          /\ rows[calls[w].id].created <= calls[w].now
          /\ calls[w].authenticated =>
                rows[calls[w].id].token = calls[w].token
          /\ rows[calls[w].id].token = calls[w].token =>
                /\ rows[calls[w].id].authenticated <=> calls[w].authenticated
                /\ rows[calls[w].id].account = calls[w].account
    /\ calls[w].pc = "touch" /\ calls[w].op = "get_authenticated" =>
          calls[w].authenticated
    /\ calls[w].pc = "touch" /\ calls[w].authenticated =>
          /\ calls[w].account \in Accounts
          /\ rows[calls[w].id].revoked \/ status[calls[w].account] = "active"

CallsOK == \A w \in Workers : CallOK(w)

IInv == TypeOK /\ SessionClock /\ TokensOK /\ FreshOK /\ CallsOK

-----------------------------------------------------------------------------
\* What TypeOK says of one call and of one row, in the form proofs cite it.
LEMMA Types ==
    ASSUME TypeOK
    PROVE  /\ \A w \in Workers : calls[w] \in Call
           /\ \A id \in DOMAIN rows : rows[id] \in Row
BY DEF TypeOK

\* The initial states satisfy the inductive invariant.
LEMMA InitInv == Init => IInv
<1> SUFFICES ASSUME Init PROVE IInv
    OBVIOUS
<1>1. TypeOK
    BY NoneAssumption DEF Init, TypeOK, NoCall, Call, Row
<1>2. SessionClock
    BY DEF Init, SessionClock
<1>3. TokensOK
    BY DEF Init, TokensOK, NoCall
<1>4. FreshOK
    BY DEF Init, FreshOK, NoCall
<1>5. CallsOK
    BY DEF Init, CallsOK, CallOK, NoCall, HasRow
<1> QED
    BY <1>1, <1>2, <1>3, <1>4, <1>5 DEF IInv

\* A step that changes the call of one worker only.
LEMMA OneCall ==
    ASSUME TypeOK, NEW w \in Workers, NEW c \in Call,
           calls' = [calls EXCEPT ![w] = c]
    PROVE  /\ calls' \in [Workers -> Call]
           /\ calls'[w] = c
           /\ \A v \in Workers : v # w => calls'[v] = calls[v]
BY DEF TypeOK

\* No call.
LEMMA NoCallType ==
    /\ NoCall \in Call
    /\ NoCall.pc = "idle"
    /\ NoCall.token = None
    /\ NoCall.now = 0
    /\ NoCall.account = None
    /\ NoCall.authenticated = FALSE
BY NoneAssumption DEF NoCall, Call

\* A step that moves no token, gives none to a client, and starts no rotation:
\* calls only forget their token or take up one that clients know.
LEMMA TokensFrame ==
    ASSUME TokensOK, FreshOK,
           DOMAIN rows' = DOMAIN rows,
           \A id \in DOMAIN rows : rows'[id].token = rows[id].token,
           issued' = issued, cookies' = cookies,
           \A v \in Workers :
              /\ calls'[v].token \in {calls[v].token, None} \cup cookies
              /\ calls'[v].pc = "rotate" => calls'[v] = calls[v],
           None \notin issued
    PROVE  TokensOK' /\ FreshOK'
<1>1. TokensOK'
    BY DEF TokensOK
<1>2. FreshOK'
    BY DEF TokensOK, FreshOK
<1> QED
    BY <1>1, <1>2

\* What a step by others must leave alone for a call in flight to stay right.
LEMMA CallFrame ==
    ASSUME NEW v \in Workers, CallOK(v), calls'[v] = calls[v],
           calls[v].now \in Nat, clock \in Nat, clock' \in Nat, clock' >= clock,
           issued \subseteq issued',
           DOMAIN rows \subseteq DOMAIN rows',
           \A id \in DOMAIN rows' \ DOMAIN rows : rows'[id].token # calls[v].token,
           \A id \in DOMAIN rows :
              /\ rows'[id].created = rows[id].created
              /\ rows'[id].absolute = rows[id].absolute
              /\ rows'[id].token = rows[id].token
              /\ rows'[id].account = rows[id].account
              /\ rows'[id].authenticated = rows[id].authenticated
              /\ rows[id].revoked => rows'[id].revoked
              /\ \A a \in Accounts :
                    rows[id].account = a /\ status[a] = "active" =>
                        rows'[id].revoked \/ status'[a] = "active"
    PROVE  CallOK(v)'
<1>1. HasRow(v)' <=> HasRow(v)
    BY DEF HasRow
<1>2. calls[v].pc = "touch" => HasRow(v)
    BY DEF HasRow
<1> QED
    BY <1>1, <1>2 DEF CallOK

\* A touch writes a time between the creation of the row and the present.
LEMMA TouchHitsInv ==
    ASSUME IInv, NEW w \in Workers, TouchHits(w)
    PROVE  IInv'
<1> DEFINE c == calls[w]
           id == calls[w].id
<1> USE DEF TouchHits, TouchSet, Missed
<1>1. /\ id \in DOMAIN rows
      /\ id \in SessionIds
      /\ DOMAIN rows' = DOMAIN rows
      /\ c \in Call
      /\ c.now \in Nat /\ c.absolute \in Nat
      /\ rows[id] \in Row
      /\ Expiry(c) \in Nat
    BY LifetimeAssumption
    DEF IInv, TypeOK, CallsOK, CallOK, HasRow, Call, Expiry, Earlier
<1>2. rows' = [rows EXCEPT ![id] = [rows[id] EXCEPT !.last = c.now, !.expires = Expiry(c)]]
    BY <1>1
<1>3. /\ rows'[id] = [rows[id] EXCEPT !.last = c.now, !.expires = Expiry(c)]
      /\ \A i \in DOMAIN rows : i # id => rows'[i] = rows[i]
    BY <1>1, <1>2 DEF IInv, TypeOK
<1>4. /\ calls' \in [Workers -> Call]
      /\ \A v \in Workers : v # w => calls'[v] = calls[v]
      /\ calls'[w] = NoCall \/ calls'[w] = [c EXCEPT !.pc = "held"]
  <2>1. CASE c.op = "get_authenticated" /\ c.account = None
    BY <2>1, NoCallType, OneCall DEF IInv
  <2>2. CASE ~(c.op = "get_authenticated" /\ c.account = None)
    <3>1. [c EXCEPT !.pc = "held"] \in Call
        BY <1>1 DEF Call
    <3>2. calls' = [calls EXCEPT ![w] = [c EXCEPT !.pc = "held"]]
        BY <2>2
    <3> QED
        BY <3>1, <3>2, OneCall DEF IInv
  <2> QED
    BY <2>1, <2>2
<1>5. /\ calls'[w].pc \in {"idle", "held"}
      /\ calls'[w].token \in {c.token, None}
    BY <1>1, <1>4, NoCallType DEF Call
<1>6. TypeOK'
  <2>1. rows' \in [DOMAIN rows' -> Row]
    <3>1. [rows[id] EXCEPT !.last = c.now, !.expires = Expiry(c)] \in Row
        BY <1>1 DEF Row
    <3>2. rows \in [DOMAIN rows -> Row]
        BY DEF IInv, TypeOK
    <3> HIDE DEF TouchHits
    <3> QED
        BY <1>1, <1>2, <3>1, <3>2
  <2>2. UNCHANGED <<clock, status, issued, cookies>> /\ DOMAIN rows' = DOMAIN rows
    BY <1>1, <1>2
  <2>3. calls' \in [Workers -> Call]
    BY <1>4
  <2> QED
    BY <2>1, <2>2, <2>3 DEF IInv, TypeOK
<1>7. SessionClock'
    BY <1>1, <1>3, LifetimeAssumption
    DEF IInv, TypeOK, SessionClock, CallsOK, CallOK, HasRow, Row, Call, Expiry
<1>8. TokensOK' /\ FreshOK'
    BY <1>1, <1>3, <1>4, <1>5, TokensFrame, NoneAssumption DEF IInv, TypeOK, Row
<1>9. CallsOK'
  <2> SUFFICES ASSUME NEW v \in Workers PROVE CallOK(v)'
      BY DEF CallsOK
  <2>1. CASE v # w
    <3>1. /\ CallOK(v) /\ calls'[v] = calls[v] /\ calls[v].now \in Nat
          /\ clock \in Nat
        BY <2>1, <1>4 DEF IInv, TypeOK, CallsOK, Call
    <3>2. DOMAIN rows' = DOMAIN rows /\ UNCHANGED <<clock, status, issued>>
        BY <1>1, <1>2
    <3>3. rows[id] \in Row
        BY <1>1
    <3>4. \A i \in DOMAIN rows :
             /\ rows'[i].created = rows[i].created
             /\ rows'[i].absolute = rows[i].absolute
             /\ rows'[i].token = rows[i].token
             /\ rows'[i].account = rows[i].account
             /\ rows'[i].authenticated = rows[i].authenticated
             /\ rows'[i].revoked = rows[i].revoked
        BY <1>3, <3>3 DEF Row
    <3>5. \A i \in DOMAIN rows, a \in Accounts :
             rows[i].account = a /\ status[a] = "active" =>
                rows'[i].revoked \/ status'[a] = "active"
        BY <3>2
    <3>6. /\ clock' \in Nat /\ clock' >= clock
          /\ issued \subseteq issued'
          /\ DOMAIN rows \subseteq DOMAIN rows' /\ DOMAIN rows' \ DOMAIN rows = {}
        BY <3>1, <3>2
    <3> HIDE DEF TouchHits
    <3> QED
        BY <3>1, <3>4, <3>5, <3>6, CallFrame
  <2>2. CASE v = w /\ calls'[w] = NoCall
      BY <2>2, <1>1, NoCallType DEF IInv, TypeOK, CallOK, HasRow
  <2>3. CASE v = w /\ calls'[w] = [c EXCEPT !.pc = "held"]
      BY <2>3, <1>1, <1>3 DEF IInv, TypeOK, CallsOK, CallOK, HasRow, Row, Call
  <2> QED
      BY <2>1, <2>2, <2>3, <1>4
<1> QED
    BY <1>6, <1>7, <1>8, <1>9 DEF IInv

\* A step of one call that neither writes nor begins a rotation.
LEMMA OneCallInv ==
    ASSUME IInv, NEW w \in Workers, NEW c \in Call,
           calls' = [calls EXCEPT ![w] = c],
           UNCHANGED <<clock, status, rows, issued, cookies>>,
           c.pc # "rotate",
           c.token \in {calls[w].token, None} \cup cookies,
           CallOK(w)'
    PROVE  IInv'
<1>1. /\ calls' \in [Workers -> Call]
      /\ calls'[w] = c
      /\ \A v \in Workers : v # w => calls'[v] = calls[v]
    BY OneCall DEF IInv
<1>2. TypeOK' /\ SessionClock'
    BY <1>1 DEF IInv, TypeOK, SessionClock
<1>3. TokensOK' /\ FreshOK'
    BY <1>1, TokensFrame, NoneAssumption DEF IInv, TypeOK
<1>4. CallsOK'
  <2> SUFFICES ASSUME NEW v \in Workers, v # w PROVE CallOK(v)'
      BY DEF CallsOK
  <2>1. CallOK(v) /\ calls[v].now \in Nat /\ clock \in Nat
      BY DEF IInv, TypeOK, CallsOK, Call
  <2> QED
      BY <2>1, <1>1, CallFrame DEF IInv
<1> QED
    BY <1>2, <1>3, <1>4 DEF IInv

\* A call that ends keeps the invariant.
LEMMA IdleInv ==
    ASSUME IInv, NEW w \in Workers, calls' = [calls EXCEPT ![w] = NoCall],
           UNCHANGED <<clock, status, rows, issued, cookies>>
    PROVE  IInv'
<1>1. calls'[w] = NoCall
    BY NoCallType, OneCall DEF IInv
<1>2. CallOK(w)'
    BY <1>1, NoCallType DEF IInv, TypeOK, CallOK, HasRow
<1> QED
    BY <1>2, NoCallType, OneCallInv

\* A call that finds no row ends, or goes on to create one.
LEMMA MissedInv ==
    ASSUME IInv, NEW w \in Workers, Missed(w),
           UNCHANGED <<clock, status, rows, issued, cookies>>
    PROVE  IInv'
<1>1. CASE calls[w].op = "get_authenticated"
    BY <1>1, IdleInv DEF Missed
<1>2. CASE calls[w].op # "get_authenticated"
  <2> DEFINE c == [calls[w] EXCEPT !.pc = "create"]
  <2>1. calls[w] \in Call /\ c \in Call
      BY DEF IInv, TypeOK, Call
  <2>2. calls' = [calls EXCEPT ![w] = c]
      BY <1>2 DEF Missed
  <2>3. calls'[w] = c
      BY <2>1, <2>2, OneCall DEF IInv
  <2>4. c.pc = "create" /\ c.now = calls[w].now /\ c.token = calls[w].token
      BY <2>1 DEF Call
  <2>5. CallOK(w)'
      BY <2>3, <2>4 DEF IInv, CallsOK, CallOK, HasRow
  <2> HIDE DEF c
  <2> QED
      BY <2>1, <2>2, <2>4, <2>5, OneCallInv
<1> QED
    BY <1>1, <1>2

\* A call begins with a token its client has: every row under that token is
\* there already, so it is no younger than the call.
LEMMA BeginInv ==
    ASSUME IInv, NEW w \in Workers, NEW token \in Tokens \cup {None},
           GetAuthenticated(w, token) \/ GetOrCreate(w, token)
    PROVE  IInv'
<1>1. PICK pc \in {"find", "create"}, op \in {"get_authenticated", "get_or_create"} :
         calls' = [calls EXCEPT ![w] = Begun(op, pc, token)]
    BY DEF GetAuthenticated, GetOrCreate
<1>2. /\ Begun(op, pc, token) \in Call
      /\ Begun(op, pc, token).pc = pc
      /\ Begun(op, pc, token).now = clock
      /\ Begun(op, pc, token).token = token
    BY DEF IInv, TypeOK, Call, NoCall, Begun
<1>3. calls'[w] = Begun(op, pc, token)
    BY <1>1, <1>2, OneCall DEF IInv
<1>4. /\ UNCHANGED <<clock, status, rows, issued, cookies>>
      /\ token \in {None} \cup cookies
    BY DEF GetAuthenticated, GetOrCreate
<1>5. \A id \in DOMAIN rows : rows[id].created <= clock
    BY DEF IInv, TypeOK, SessionClock, Row
<1>6. CallOK(w)'
    BY <1>2, <1>3, <1>4, <1>5 DEF IInv, TypeOK, CallOK, HasRow
<1> QED
    BY <1>1, <1>2, <1>3, <1>4, <1>6, OneCallInv

\* find_active found a row under the token: it is older than the call, and it
\* is authenticated only for an account that is active.
LEMMA FindHitsInv ==
    ASSUME IInv, NEW w \in Workers, FindHits(w)
    PROVE  IInv'
<1> DEFINE found(id) == [calls[w] EXCEPT !.pc = "touch", !.id = id,
                             !.account = rows[id].account,
                             !.authenticated = rows[id].authenticated,
                             !.absolute = rows[id].absolute]
<1>1. UNCHANGED <<clock, status, rows, issued, cookies>>
    BY DEF FindHits
<1>2. PICK id \in FindActive(calls[w].token, calls[w].now) :
         \/ Missed(w)
         \/ /\ calls[w].op = "get_authenticated" => rows[id].authenticated
            /\ calls' = [calls EXCEPT ![w] = found(id)]
  <2>1. PICK id \in FindActive(calls[w].token, calls[w].now) :
           IF calls[w].op = "get_authenticated" /\ ~rows[id].authenticated
           THEN Missed(w)
           ELSE calls' = [calls EXCEPT ![w].pc = "touch", ![w].id = id,
                             ![w].account = rows[id].account,
                             ![w].authenticated = rows[id].authenticated,
                             ![w].absolute = rows[id].absolute]
    BY DEF FindHits
  <2>2. calls \in [Workers -> Call]
    BY DEF IInv, TypeOK
  <2>3. CASE calls[w].op = "get_authenticated" /\ ~rows[id].authenticated
    BY <2>1, <2>3
  <2>4. CASE ~(calls[w].op = "get_authenticated" /\ ~rows[id].authenticated)
    <3>1. calls' = [calls EXCEPT ![w] = found(id)]
      BY <2>1, <2>2, <2>4
    <3> QED
      BY <2>4, <3>1
  <2> QED
    BY <2>3, <2>4
<1>3. CASE Missed(w)
    BY <1>1, <1>3, MissedInv
<1>4. CASE /\ calls[w].op = "get_authenticated" => rows[id].authenticated
           /\ calls' = [calls EXCEPT ![w] = found(id)]
  <2>1. /\ id \in DOMAIN rows /\ id \in SessionIds
        /\ rows[id] \in Row
        /\ rows[id].token = calls[w].token
        /\ rows[id].authenticated =>
              rows[id].account \in Accounts /\ status[rows[id].account] = "active"
        /\ calls[w] \in Call
        /\ calls[w].pc = "find"
      BY DEF IInv, TypeOK, FindActive, FindHits
  <2>2. /\ found(id) \in Call
        /\ found(id).pc = "touch" /\ found(id).id = id
        /\ found(id).op = calls[w].op
        /\ found(id).now = calls[w].now /\ found(id).token = calls[w].token
        /\ found(id).account = rows[id].account
        /\ found(id).authenticated = rows[id].authenticated
        /\ found(id).absolute = rows[id].absolute
      BY <2>1 DEF Call, Row
  <2>3. calls'[w] = found(id)
      BY <1>4, <2>2, OneCall DEF IInv
  <2>4. rows[id].token \in issued
      BY <2>1 DEF IInv, TokensOK
  <2> HIDE DEF found
  <2>5. CallOK(w)'
      BY <1>1, <1>4, <2>1, <2>2, <2>3, <2>4 DEF IInv, CallsOK, CallOK, HasRow
  <2> QED
      BY <1>1, <1>4, <2>2, <2>5, OneCallInv
<1> QED
    BY <1>2, <1>3, <1>4

\* _create makes a row under a token nobody knows, dated when the call began.
LEMMA CreateInv ==
    ASSUME IInv, NEW w \in Workers, Create(w)
    PROVE  IInv'
<1> DEFINE made(token, id) == [NoCall EXCEPT
                !.pc = "held", !.now = calls[w].now, !.token = token, !.id = id,
                !.absolute = NewRow(token, calls[w].now).absolute]
           now == calls[w].now
<1>1. PICK token \in Tokens \ issued, id \in SessionIds \ DOMAIN rows :
         /\ rows' = [i \in DOMAIN rows \cup {id} |->
                       IF i = id THEN NewRow(token, now) ELSE rows[i]]
         /\ issued' = issued \cup {token}
         /\ calls' = [calls EXCEPT ![w] = made(token, id)]
    BY DEF Create
<1>2. /\ UNCHANGED <<clock, status, cookies>>
      /\ calls[w] \in Call /\ now \in Nat /\ now <= clock /\ clock \in Nat
    BY DEF IInv, TypeOK, CallsOK, CallOK, Call, Create
<1>3. /\ NewRow(token, now) \in Row
      /\ NewRow(token, now).token = token
      /\ NewRow(token, now).account = None
      /\ NewRow(token, now).authenticated = FALSE
      /\ NewRow(token, now).created = now
      /\ NewRow(token, now).last = now
      /\ NewRow(token, now).expires = now + IdleTimeout
      /\ NewRow(token, now).absolute = now + AbsoluteLifetime
      /\ NewRow(token, now).absolute \in Nat
    BY <1>2, LifetimeAssumption DEF NewRow, Row
<1>4. /\ made(token, id) \in Call
      /\ made(token, id).pc = "held" /\ made(token, id).now = now
      /\ made(token, id).token = token /\ made(token, id).id = id
      /\ made(token, id).absolute = NewRow(token, now).absolute
      /\ made(token, id).account = None
      /\ made(token, id).authenticated = FALSE
    BY <1>2, <1>3, NoCallType DEF Call
<1>5. /\ DOMAIN rows' = DOMAIN rows \cup {id}
      /\ rows'[id] = NewRow(token, now)
      /\ \A i \in DOMAIN rows : i # id /\ rows'[i] = rows[i]
    BY <1>1
<1>6. /\ calls' \in [Workers -> Call]
      /\ calls'[w] = made(token, id)
      /\ \A v \in Workers : v # w => calls'[v] = calls[v]
    BY <1>1, <1>4, OneCall DEF IInv
<1> HIDE DEF made
<1>7. TypeOK'
    BY <1>1, <1>2, <1>3, <1>5, <1>6 DEF IInv, TypeOK
<1>8. SessionClock'
    BY <1>2, <1>3, <1>5, LifetimeAssumption
    DEF IInv, TypeOK, SessionClock, Earlier, Row
<1>9. TokensOK'
    BY <1>1, <1>2, <1>3, <1>4, <1>5, <1>6 DEF IInv, TypeOK, TokensOK
<1>10. FreshOK'
    BY <1>1, <1>2, <1>3, <1>4, <1>5, <1>6, NoneAssumption
    DEF IInv, TypeOK, TokensOK, FreshOK
<1>11. CallsOK'
  <2> SUFFICES ASSUME NEW v \in Workers PROVE CallOK(v)'
      BY DEF CallsOK
  <2>1. CASE v = w
      BY <2>1, <1>1, <1>2, <1>3, <1>4, <1>5, <1>6 DEF CallOK, HasRow
  <2>2. CASE v # w
    <3>1. CallOK(v) /\ calls[v].token # token /\ calls'[v] = calls[v]
        BY <2>2, <1>1, <1>6, NoneAssumption DEF IInv, TypeOK, TokensOK, CallsOK
    <3>2. calls[v].now \in Nat
        BY DEF IInv, TypeOK, Call
    <3>3. \A i \in DOMAIN rows : rows'[i] = rows[i]
        BY <1>5
    <3> QED
        BY <3>1, <3>2, <3>3, <1>1, <1>2, <1>3, <1>5, CallFrame
  <2> QED
      BY <2>1, <2>2
<1> QED
    BY <1>7, <1>8, <1>9, <1>10, <1>11 DEF IInv

\* authenticate draws a token nobody knows; no call changes its own otherwise.
LEMMA AuthenticateInv ==
    ASSUME IInv, NEW w \in Workers, NEW account \in Accounts,
           Authenticate(w, account)
    PROVE  IInv'
<1> DEFINE asking(token) == [calls[w] EXCEPT !.pc = "rotate", !.now = clock,
                                 !.want = account, !.fresh = token]
<1>1. PICK token \in Tokens \ issued :
         /\ issued' = issued \cup {token}
         /\ calls' = [calls EXCEPT ![w] = asking(token)]
    BY DEF Authenticate
<1>2. /\ UNCHANGED <<clock, status, rows, cookies>>
      /\ calls[w] \in Call
      /\ calls[w].pc = "held"
      /\ ~calls[w].authenticated
      /\ clock \in Nat
    BY DEF IInv, TypeOK, Authenticate
<1>3. /\ asking(token) \in Call
      /\ asking(token).pc = "rotate" /\ asking(token).now = clock
      /\ asking(token).want = account /\ asking(token).fresh = token
      /\ asking(token).token = calls[w].token
      /\ asking(token).id = calls[w].id
      /\ asking(token).absolute = calls[w].absolute
      /\ asking(token).account = calls[w].account
      /\ asking(token).authenticated = calls[w].authenticated
    BY <1>2 DEF Call
<1>4. /\ calls' \in [Workers -> Call]
      /\ calls'[w] = asking(token)
      /\ \A v \in Workers : v # w => calls'[v] = calls[v]
    BY <1>1, <1>3, OneCall DEF IInv
<1> HIDE DEF asking
<1>5. TypeOK' /\ SessionClock'
    BY <1>1, <1>2, <1>4 DEF IInv, TypeOK, SessionClock
<1>6. \A v \in Workers : calls'[v].token = calls[v].token
    BY <1>3, <1>4
<1>7. TokensOK'
    BY <1>1, <1>2, <1>6 DEF IInv, TokensOK
<1>8. FreshOK'
    BY <1>1, <1>2, <1>3, <1>4, <1>6, NoneAssumption
    DEF IInv, TypeOK, TokensOK, FreshOK
<1>9. CallsOK'
  <2> SUFFICES ASSUME NEW v \in Workers PROVE CallOK(v)'
      BY DEF CallsOK
  <2>1. CASE v = w
      BY <2>1, <1>1, <1>2, <1>3, <1>4
      DEF IInv, TypeOK, SessionClock, CallsOK, CallOK, HasRow, Row
  <2>2. CASE v # w
      BY <2>2, <1>1, <1>2, <1>4, CallFrame DEF IInv, TypeOK, CallsOK, Call
  <2> QED
      BY <2>1, <2>2
<1> QED
    BY <1>5, <1>7, <1>8, <1>9 DEF IInv

\* The rotation finds the row under the token its anonymous call holds, so no
\* other call holds that session as authenticated.
LEMMA RotateHitsInv ==
    ASSUME IInv, NEW w \in Workers, RotateHits(w)
    PROVE  IInv'
<1> DEFINE c == calls[w]
           id == calls[w].id
           written == [rows[id] EXCEPT !.token = c.fresh, !.account = c.want,
                           !.authenticated = TRUE, !.last = c.now,
                           !.expires = Expiry(c)]
           done == [c EXCEPT !.token = c.fresh, !.account = c.want, !.pc = "held",
                       !.authenticated = TRUE, !.want = None, !.fresh = None]
<1>1. /\ UNCHANGED <<clock, status, issued, cookies>>
      /\ c \in Call
      /\ c.pc = "rotate"
      /\ id \in DOMAIN rows /\ id \in SessionIds
      /\ rows[id] \in Row
      /\ rows[id].token = c.token
      /\ c.now \in Nat /\ c.now <= clock /\ clock \in Nat
      /\ c.absolute = rows[id].absolute
      /\ rows[id].created <= c.now
      /\ ~c.authenticated
      /\ ~rows[id].authenticated
      /\ c.want \in Accounts
      /\ c.fresh \in issued /\ c.fresh \in Tokens
      /\ c.fresh \notin cookies
      /\ Expiry(c) \in Nat
    BY LifetimeAssumption
    DEF IInv, TypeOK, FreshOK, CallsOK, CallOK, HasRow, Call, Expiry, Earlier,
        RotateHits, RotateWhere
<1>2. /\ rows' = [rows EXCEPT ![id] = written]
      /\ calls' = [calls EXCEPT ![w] = done]
    BY <1>1 DEF RotateHits, RotateSet
<1>3. /\ written \in Row
      /\ written.token = c.fresh /\ written.account = c.want
      /\ written.authenticated = TRUE
      /\ written.created = rows[id].created /\ written.last = c.now
      /\ written.expires = Expiry(c) /\ written.absolute = rows[id].absolute
    BY <1>1 DEF Row
<1>4. /\ done \in Call
      /\ done.pc = "held" /\ done.token = c.fresh /\ done.id = id
      /\ done.account = c.want /\ done.authenticated = TRUE
      /\ done.absolute = c.absolute /\ done.now = c.now
    BY <1>1 DEF Call
<1>5. /\ DOMAIN rows' = DOMAIN rows
      /\ rows'[id] = written
      /\ \A i \in DOMAIN rows : i # id => rows'[i] = rows[i]
    BY <1>1, <1>2
<1>6. /\ calls' \in [Workers -> Call]
      /\ calls'[w] = done
      /\ \A v \in Workers : v # w => calls'[v] = calls[v]
    BY <1>2, <1>4, OneCall DEF IInv
<1> HIDE DEF written, done
<1>7. TypeOK'
    BY <1>1, <1>2, <1>3, <1>5, <1>6 DEF IInv, TypeOK
<1>8. SessionClock'
    BY <1>1, <1>3, <1>5, LifetimeAssumption DEF IInv, TypeOK, SessionClock, Expiry
<1>9. /\ \A i \in DOMAIN rows : rows[i].token # c.fresh
      /\ \A v \in Workers : calls[v].token # c.fresh
    BY <1>1 DEF IInv, FreshOK
<1>10. TokensOK'
    BY <1>1, <1>3, <1>4, <1>5, <1>6, <1>9 DEF IInv, TokensOK
<1>11. FreshOK'
    BY <1>1, <1>3, <1>4, <1>5, <1>6, <1>9 DEF IInv, FreshOK
<1>12. CallsOK'
  <2> SUFFICES ASSUME NEW v \in Workers PROVE CallOK(v)'
      BY DEF CallsOK
  <2>1. CASE v = w
      BY <2>1, <1>1, <1>3, <1>4, <1>5, <1>6 DEF CallOK, HasRow
  <2>2. CASE v # w /\ ~(HasRow(v) /\ calls[v].id = id)
    <3>1. calls[v].pc = "touch" => HasRow(v)
        BY DEF HasRow
    <3>2. CallOK(v) /\ calls'[v] = calls[v] /\ (HasRow(v)' <=> HasRow(v))
        BY <2>2, <1>6 DEF IInv, CallsOK, HasRow
    <3>3. HasRow(v) => rows'[calls[v].id] = rows[calls[v].id]
        BY <2>2, <3>2, <1>5 DEF CallOK
    <3> QED
        BY <3>1, <3>2, <3>3, <1>1, <1>3, <1>5, <1>9 DEF CallOK
  <2>3. CASE v # w /\ HasRow(v) /\ calls[v].id = id
    <3>1. CallOK(v) /\ calls'[v] = calls[v] /\ HasRow(v)'
        BY <2>3, <1>6 DEF IInv, CallsOK, HasRow
    <3>2. ~calls[v].authenticated
        BY <2>3, <3>1, <1>1 DEF CallOK
    <3>3. calls[v].pc # "find"
        BY <2>3 DEF HasRow
    <3> QED
        BY <2>3, <3>1, <3>2, <3>3, <1>1, <1>3, <1>5, <1>9 DEF CallOK
  <2> QED
      BY <2>1, <2>2, <2>3
<1> QED
    BY <1>7, <1>8, <1>10, <1>11, <1>12 DEF IInv

\* The client gets a token that is issued and that no rotation is about to write.
LEMMA ReturnInv ==
    ASSUME IInv, NEW w \in Workers, Return(w)
    PROVE  IInv'
<1>1. /\ UNCHANGED <<clock, status, rows, issued>>
      /\ calls[w].token \in issued
      /\ cookies' = cookies \cup {calls[w].token}
      /\ calls' = [calls EXCEPT ![w] = NoCall]
    BY DEF IInv, CallsOK, CallOK, HasRow, Return
<1>2. /\ calls' \in [Workers -> Call]
      /\ calls'[w] = NoCall
      /\ \A v \in Workers : v # w => calls'[v] = calls[v]
    BY <1>1, NoCallType, OneCall DEF IInv
<1>3. TypeOK' /\ SessionClock'
    BY <1>1, <1>2 DEF IInv, TypeOK, SessionClock
<1>4. TokensOK'
    BY <1>1, <1>2, NoCallType DEF IInv, TokensOK
<1>5. FreshOK'
    BY <1>1, <1>2, NoCallType, NoneAssumption DEF IInv, TypeOK, FreshOK
<1>6. CallsOK'
  <2> SUFFICES ASSUME NEW v \in Workers PROVE CallOK(v)'
      BY DEF CallsOK
  <2>1. CASE v = w
      BY <2>1, <1>1, <1>2, NoCallType DEF IInv, TypeOK, CallOK, HasRow
  <2>2. CASE v # w
      BY <2>2, <1>1, <1>2, CallFrame DEF IInv, TypeOK, CallsOK, Call
  <2> QED
      BY <2>1, <2>2
<1> QED
    BY <1>3, <1>4, <1>5, <1>6 DEF IInv

\* A step outside the calls that at most revokes rows: all of those of an
\* account that it makes inactive.
LEMMA OutsideInv ==
    ASSUME IInv, UNCHANGED <<issued, cookies, calls>>,
           clock' \in Nat, clock' >= clock,
           status' \in [Accounts -> {"none", "active", "disabled"}],
           DOMAIN rows' = DOMAIN rows,
           rows' \in [DOMAIN rows -> Row],
           \A id \in DOMAIN rows :
              /\ \/ rows'[id] = rows[id]
                 \/ rows'[id] = [rows[id] EXCEPT !.revoked = TRUE]
              /\ \A a \in Accounts :
                    rows[id].account = a /\ status[a] = "active" =>
                        rows'[id].revoked \/ status'[a] = "active"
    PROVE  IInv'
<1>1. \A id \in DOMAIN rows :
         /\ rows'[id].created = rows[id].created
         /\ rows'[id].last = rows[id].last
         /\ rows'[id].expires = rows[id].expires
         /\ rows'[id].absolute = rows[id].absolute
         /\ rows'[id].token = rows[id].token
         /\ rows'[id].account = rows[id].account
         /\ rows'[id].authenticated = rows[id].authenticated
         /\ rows[id].revoked => rows'[id].revoked
    BY DEF IInv, TypeOK, Row
<1>2. TypeOK'
    BY DEF IInv, TypeOK
<1>3. SessionClock'
    BY <1>1 DEF IInv, TypeOK, SessionClock, Row
<1>4. TokensOK' /\ FreshOK'
    BY <1>1, TokensFrame, NoneAssumption DEF IInv, TypeOK
<1>5. CallsOK'
  <2> SUFFICES ASSUME NEW v \in Workers PROVE CallOK(v)'
      BY DEF CallsOK
  <2> QED
      BY <1>1, CallFrame DEF IInv, TypeOK, CallsOK, Call
<1> QED
    BY <1>2, <1>3, <1>4, <1>5 DEF IInv

\* A row that is revoked is a row.
LEMMA RevokedRow ==
    ASSUME TypeOK, NEW id \in DOMAIN rows
    PROVE  /\ rows[id] \in Row
           /\ [rows[id] EXCEPT !.revoked = TRUE] \in Row
BY DEF TypeOK, Row

\* revoke writes to the rows of one token and to nothing else.
LEMMA RevokeInv ==
    ASSUME IInv, NEW token \in Tokens, Revoke(token)
    PROVE  IInv'
<1>1. /\ UNCHANGED <<clock, status, issued, cookies, calls>>
      /\ DOMAIN rows' = DOMAIN rows
      /\ \A id \in DOMAIN rows : \/ rows'[id] = rows[id]
                               \/ rows'[id] = [rows[id] EXCEPT !.revoked = TRUE]
    BY DEF Revoke
<1>2. rows' \in [DOMAIN rows -> Row]
    BY RevokedRow DEF IInv, Revoke
<1> QED
    BY <1>1, <1>2, OutsideInv DEF IInv, TypeOK

\* No call relies on an account that did not exist.
LEMMA CreateUserInv ==
    ASSUME IInv, NEW account \in Accounts, CreateUser(account)
    PROVE  IInv'
<1>1. /\ UNCHANGED <<clock, rows, issued, cookies, calls>>
      /\ status' \in [Accounts -> {"none", "active", "disabled"}]
      /\ \A a \in Accounts : status[a] = "active" => status'[a] = "active"
    BY DEF IInv, TypeOK, CreateUser
<1> QED
    BY <1>1, OutsideInv DEF IInv, TypeOK

\* A change of status and the revocations that go with it keep the invariant.
LEMMA SetAccountStatusInv ==
    ASSUME IInv, NEW account \in Accounts, NEW new \in {"active", "disabled"},
           SetAccountStatus(account, new)
    PROVE  IInv'
<1>1. /\ UNCHANGED <<clock, issued, cookies, calls>>
      /\ status' = [status EXCEPT ![account] = new]
      /\ status' \in [Accounts -> {"none", "active", "disabled"}]
      /\ DOMAIN rows' = DOMAIN rows
      /\ \A id \in DOMAIN rows : \/ rows'[id] = rows[id]
                               \/ rows'[id] = [rows[id] EXCEPT !.revoked = TRUE]
    BY DEF IInv, TypeOK, SetAccountStatus, StatusSet
<1>2. rows' \in [DOMAIN rows -> Row]
    BY RevokedRow DEF IInv, SetAccountStatus, StatusSet
<1>3. ASSUME NEW id \in DOMAIN rows, NEW a \in Accounts,
             rows[id].account = a, status[a] = "active", status'[a] # "active"
      PROVE  rows'[id].revoked
  <2>1. a = account /\ new = "disabled"
      BY <1>1, <1>3 DEF IInv, TypeOK
  <2>2. rows'[id] = [rows[id] EXCEPT !.revoked = TRUE]
      BY <2>1, <1>3 DEF SetAccountStatus, StatusSet
  <2> QED
      BY <2>2 DEF IInv, TypeOK, Row
<1> QED
    BY <1>1, <1>2, <1>3, OutsideInv DEF IInv, TypeOK

\* Time passes.
LEMMA TickInv == ASSUME IInv, Tick PROVE IInv'
<1>1. /\ UNCHANGED <<status, rows, issued, cookies, calls>>
      /\ clock' \in Nat /\ clock' >= clock
    BY DEF IInv, TypeOK, Tick
<1> QED
    BY <1>1, OutsideInv DEF IInv, TypeOK

\* Every step of Sessions preserves the inductive invariant.
LEMMA NextInv == IInv /\ [Next]_vars => IInv'
<1> SUFFICES ASSUME IInv, [Next]_vars PROVE IInv'
    OBVIOUS
<1>1. ASSUME NEW w \in Workers, NEW token \in Tokens, GetAuthenticated(w, token)
      PROVE  IInv'
    BY <1>1, BeginInv
<1>2. ASSUME NEW w \in Workers, NEW token \in Tokens \cup {None},
             GetOrCreate(w, token)
      PROVE  IInv'
    BY <1>2, BeginInv
<1>3. ASSUME NEW w \in Workers, NEW account \in Accounts, Authenticate(w, account)
      PROVE  IInv'
    BY <1>3, AuthenticateInv
<1>4. ASSUME NEW w \in Workers, SessMgrStep(w) \/ Return(w) PROVE IInv'
  <2>1. CASE FindMisses(w)
      BY <2>1, MissedInv DEF FindMisses
  <2>2. CASE FindHits(w)
      BY <2>2, FindHitsInv
  <2>3. CASE TouchHits(w)
      BY <2>3, TouchHitsInv
  <2>4. CASE TouchMisses(w)
      BY <2>4, MissedInv DEF TouchMisses
  <2>5. CASE Create(w)
      BY <2>5, CreateInv
  <2>6. CASE RotateHits(w)
      BY <2>6, RotateHitsInv
  <2>7. CASE RotateMisses(w)
      BY <2>7, IdleInv DEF RotateMisses
  <2>8. CASE Abort(w)
      BY <2>8, IdleInv DEF Abort
  <2>9. CASE Return(w)
      BY <2>9, ReturnInv
  <2> QED
      BY <1>4, <2>1, <2>2, <2>3, <2>4, <2>5, <2>6, <2>7, <2>8, <2>9 DEF SessMgrStep
<1>5. ASSUME NEW token \in Tokens, Revoke(token) PROVE IInv'
    BY <1>5, RevokeInv
<1>6. ASSUME NEW account \in Accounts, CreateUser(account) PROVE IInv'
    BY <1>6, CreateUserInv
<1>7. ASSUME NEW account \in Accounts, NEW new \in {"active", "disabled"},
             SetAccountStatus(account, new)
      PROVE  IInv'
    BY <1>7, SetAccountStatusInv
<1>8. CASE Tick
    BY <1>8, TickInv
<1>9. CASE UNCHANGED vars
    BY <1>9 DEF IInv, TypeOK, SessionClock, TokensOK, FreshOK, CallsOK, CallOK,
                HasRow, vars
<1> QED
    BY <1>1, <1>2, <1>3, <1>4, <1>5, <1>6, <1>7, <1>8, <1>9 DEF Next

\* The inductive invariant holds throughout.
THEOREM Invariance == Spec => []IInv
BY InitInv, NextInv, PTL DEF Spec

\* Type correctness, and with it that every row has the shape the schema gives it.
THEOREM TypeCorrect == Spec => []TypeOK
<1>1. IInv => TypeOK
    BY DEF IInv
<1> QED
    BY <1>1, Invariance, PTL

\* No interleaving of touches with stale times takes an expiry out of the bounds
\* that the idle timeout and the lifetime set.
THEOREM ClockSafety == Spec => []SessionClock
<1>1. IInv => SessionClock
    BY DEF IInv
<1> QED
    BY <1>1, Invariance, PTL

\* Of any number of logins on one anonymous session, one wins.
THEOREM OneLogin == Spec => []OneLoginPerSession
<1>1. IInv => OneLoginPerSession
    BY DEF IInv, CallsOK, CallOK, HasRow, OneLoginPerSession
<1> QED
    BY <1>1, Invariance, PTL

\* To revoke a row that is revoked changes nothing.
LEMMA RevokedAlready ==
    ASSUME NEW row \in Row, row.revoked
    PROVE  row = [row EXCEPT !.revoked = TRUE]
<1>1. row.revoked = TRUE
    BY DEF Row
<1> QED
    BY <1>1 DEF Row

\* No statement issued on the strength of an earlier read writes to a session
\* that has been revoked since.
THEOREM RevocationFinal == Spec => RevokedIsFinal
<1> DEFINE Final == \A id \in DOMAIN rows : rows[id].revoked =>
                       id \in DOMAIN rows' /\ rows'[id] = rows[id]
<1>1. ASSUME IInv, [Next]_vars PROVE Final
  <2> SUFFICES ASSUME NEW id \in DOMAIN rows, rows[id].revoked
               PROVE  id \in DOMAIN rows' /\ rows'[id] = rows[id]
      OBVIOUS
  <2>1. rows[id] \in Row
      BY <1>1, RevokedRow DEF IInv
  <2>2. rows[id] = [rows[id] EXCEPT !.revoked = TRUE]
      BY <2>1, RevokedAlready
  <2>3. ASSUME NEW w \in Workers, SessMgrStep(w) \/ Return(w)
        PROVE  id \in DOMAIN rows' /\ rows'[id] = rows[id]
    <3>1. CASE TouchHits(w)
        BY <1>1, <2>1, <3>1 DEF IInv, TypeOK, TouchHits, TouchWhere, TouchSet, Live
    <3>2. CASE RotateHits(w)
        BY <1>1, <2>1, <3>2 DEF IInv, TypeOK, RotateHits, RotateWhere, RotateSet, Live
    <3>3. CASE Create(w)
        BY <3>3 DEF Create
    <3>4. CASE FindMisses(w) \/ FindHits(w) \/ TouchMisses(w) \/ RotateMisses(w)
               \/ Abort(w) \/ Return(w)
        BY <3>4 DEF FindMisses, FindHits, TouchMisses, RotateMisses, Abort, Return
    <3> QED
        BY <2>3, <3>1, <3>2, <3>3, <3>4 DEF SessMgrStep
  <2>4. ASSUME NEW token \in Tokens, Revoke(token)
        PROVE  id \in DOMAIN rows' /\ rows'[id] = rows[id]
      BY <2>1, <2>2, <2>4 DEF Revoke
  <2>5. ASSUME NEW account \in Accounts, NEW new \in {"active", "disabled"},
               SetAccountStatus(account, new)
        PROVE  id \in DOMAIN rows' /\ rows'[id] = rows[id]
      BY <2>1, <2>2, <2>5 DEF SetAccountStatus, StatusSet
  <2>6. CASE rows' = rows
      BY <2>6
  <2> QED
      BY <1>1, <2>3, <2>4, <2>5, <2>6
      DEF Next, GetAuthenticated, GetOrCreate, Authenticate, CreateUser, Tick, vars
<1> QED
    BY <1>1, Invariance, PTL DEF Spec, RevokedIsFinal

\* A request resolves only to a session and an account that are good when it
\* does, not merely when it looked.
THEOREM ResolutionCurrent == Spec => ResolvedIsCurrent
<1>1. ASSUME IInv, [Next]_vars, NEW w \in Workers, Resolves(w) PROVE IsCurrent(w)
  <2>1. /\ calls[w].pc = "touch" /\ calls'[w].pc = "held"
        /\ calls[w].op = "get_authenticated"
        /\ HasRow(w)
      BY <1>1 DEF Resolves, HasRow
  <2>2. TouchHits(w)
    <3>1. calls \in [Workers -> Call] /\ calls'[w] # calls[w]
        BY <1>1, <2>1 DEF IInv, TypeOK
    <3>2. \A v \in Workers : Missed(v) => calls'[w].pc # "held"
        BY <2>1, <3>1, NoCallType DEF Missed, Call
    <3>3. ASSUME NEW v \in Workers, SessMgrStep(v) \/ Return(v) PROVE TouchHits(w)
      <4>1. CASE FindHits(v) \/ Create(v) \/ RotateHits(v)
          BY <2>1, <3>1, <3>2, <4>1 DEF FindHits, Create, RotateHits
      <4>2. CASE FindMisses(v) \/ TouchMisses(v)
          BY <2>1, <3>2, <4>2 DEF FindMisses, TouchMisses
      <4>3. CASE RotateMisses(v) \/ Abort(v) \/ Return(v)
          BY <2>1, <3>1, <4>3, NoCallType DEF RotateMisses, Abort, Return
      <4>4. CASE TouchHits(v)
          BY <2>1, <3>1, <3>2, <4>4 DEF TouchHits
      <4> QED
          BY <3>3, <4>1, <4>2, <4>3, <4>4 DEF SessMgrStep
    <3>4. ASSUME NEW v \in Workers, NEW token \in Tokens \cup {None},
                 GetAuthenticated(v, token) \/ GetOrCreate(v, token)
          PROVE  FALSE
        BY <2>1, <3>1, <3>4 DEF GetAuthenticated, GetOrCreate
    <3>5. ASSUME NEW v \in Workers, NEW account \in Accounts, Authenticate(v, account)
          PROVE  FALSE
        BY <2>1, <3>1, <3>5 DEF Authenticate
    <3> QED
        BY <1>1, <3>1, <3>3, <3>4, <3>5
        DEF Next, Revoke, CreateUser, SetAccountStatus, Tick, vars
  <2>3. /\ Live(rows[calls[w].id], calls[w].now)
        /\ calls[w].account # None
        /\ calls'[w].account = calls[w].account
    <3>1. calls[w] \in Call /\ TouchWhere(calls[w])
        BY <1>1, <2>2 DEF IInv, TypeOK, TouchHits
    <3>2. ~(calls[w].account = None)
        BY <1>1, <2>1, <2>2, NoCallType DEF IInv, TypeOK, TouchHits, Missed
    <3>3. calls' = [calls EXCEPT ![w].pc = "held"]
        BY <2>2, <3>2 DEF TouchHits
    <3> QED
        BY <1>1, <3>1, <3>2, <3>3 DEF IInv, TypeOK, Call, TouchWhere
  <2>4. calls[w].authenticated
      BY <1>1, <2>1 DEF IInv, CallsOK, CallOK
  <2>5. /\ rows[calls[w].id].authenticated
        /\ rows[calls[w].id].account = calls[w].account
        /\ rows[calls[w].id].revoked \/ status[calls[w].account] = "active"
        /\ calls[w].id \in DOMAIN rows
      BY <1>1, <2>1, <2>4 DEF IInv, CallsOK, CallOK
  <2>6. rows[calls[w].id].absolute = rows[calls[w].id].created + AbsoluteLifetime
      BY <1>1, <2>5 DEF IInv, SessionClock
  <2> QED
      BY <1>1, <2>3, <2>5, <2>6 DEF IInv, TypeOK, Row, Call, Live, IsCurrent
<1>2. IInv /\ [Next]_vars => [\A w \in Workers : Resolves(w) => IsCurrent(w)]_vars
    BY <1>1
<1> QED
    BY <1>2, Invariance, PTL DEF Spec, ResolvedIsCurrent

\* No token that was ever in the table comes to denote another session, or the
\* same one in another state of authentication: a cookie handed out before a
\* login is worth nothing after it.
THEOREM TokenBinding == Spec => TokenDenotesOneLogin
<1> DEFINE Bound(i, j) == rows[i].token = rows'[j].token =>
                            /\ i = j
                            /\ rows[i].account = rows'[j].account
                            /\ rows[i].authenticated = rows'[j].authenticated
           SameRow(j) == /\ rows'[j].token = rows[j].token
                         /\ rows'[j].account = rows[j].account
                         /\ rows'[j].authenticated = rows[j].authenticated
           Denotes == \A i \in DOMAIN rows, j \in DOMAIN rows' : Bound(i, j)
<1>1. ASSUME IInv, \A j \in DOMAIN rows' : j \in DOMAIN rows /\ SameRow(j)
      PROVE  Denotes
    BY <1>1 DEF IInv, TokensOK
<1>2. ASSUME IInv, NEW w \in Workers, SessMgrStep(w) \/ Return(w) PROVE Denotes
  <2>1. CASE TouchHits(w)
    <3>1. \A j \in DOMAIN rows' : j \in DOMAIN rows /\ SameRow(j)
        BY <1>2, <2>1 DEF IInv, TypeOK, Row, TouchHits, TouchSet
    <3> QED
        BY <1>1, <1>2, <3>1
  <2>2. CASE RotateHits(w)
    <3>1. \A i \in DOMAIN rows : rows[i].token # calls[w].fresh
        BY <1>2, <2>2 DEF IInv, FreshOK, RotateHits
    <3>2. calls[w].id \in DOMAIN rows /\ rows[calls[w].id] \in Row
        BY <1>2, <2>2, RevokedRow DEF IInv, CallsOK, CallOK, HasRow, RotateHits
    <3>3. /\ DOMAIN rows' = DOMAIN rows
          /\ rows'[calls[w].id].token = calls[w].fresh
          /\ \A j \in DOMAIN rows : j # calls[w].id => rows'[j] = rows[j]
        BY <2>2, <3>2 DEF Row, RotateHits, RotateSet
    <3> QED
        BY <1>2, <3>1, <3>3 DEF IInv, TokensOK
  <2>3. CASE Create(w)
    <3>1. PICK token \in Tokens \ issued, id \in SessionIds \ DOMAIN rows :
             rows' = [i \in DOMAIN rows \cup {id} |->
                        IF i = id THEN NewRow(token, calls[w].now) ELSE rows[i]]
        BY <2>3 DEF Create
    <3>2. \A i \in DOMAIN rows : rows[i].token # NewRow(token, calls[w].now).token
        BY <1>2, <3>1 DEF IInv, TokensOK, NewRow
    <3>3. \A j \in DOMAIN rows' : \/ rows'[j] = NewRow(token, calls[w].now)
                                  \/ j \in DOMAIN rows /\ rows'[j] = rows[j]
        BY <3>1
    <3> QED
        BY <1>2, <3>2, <3>3 DEF IInv, TokensOK
  <2>4. CASE FindMisses(w) \/ FindHits(w) \/ TouchMisses(w) \/ RotateMisses(w)
             \/ Abort(w) \/ Return(w)
      BY <1>1, <1>2, <2>4
      DEF FindMisses, FindHits, TouchMisses, RotateMisses, Abort, Return
  <2> QED
      BY <1>2, <2>1, <2>2, <2>3, <2>4 DEF SessMgrStep
<1>3. ASSUME IInv, NEW token \in Tokens, Revoke(token) PROVE Denotes
  <2>1. \A j \in DOMAIN rows' : j \in DOMAIN rows /\ SameRow(j)
      BY <1>3 DEF IInv, TypeOK, Row, Revoke
  <2> QED
      BY <1>1, <1>3, <2>1
<1>4. ASSUME IInv, NEW account \in Accounts, NEW new \in {"active", "disabled"},
             SetAccountStatus(account, new)
      PROVE  Denotes
  <2>1. \A j \in DOMAIN rows' : j \in DOMAIN rows /\ SameRow(j)
      BY <1>4 DEF IInv, TypeOK, Row, SetAccountStatus, StatusSet
  <2> QED
      BY <1>1, <1>4, <2>1
<1>5. ASSUME IInv, rows' = rows PROVE Denotes
    BY <1>1, <1>5
<1>6. ASSUME IInv, [Next]_vars PROVE Denotes
    BY <1>2, <1>3, <1>4, <1>5, <1>6
    DEF Next, GetAuthenticated, GetOrCreate, Authenticate, CreateUser, Tick, vars
<1> QED
    BY <1>6, Invariance, PTL DEF Spec, TokenDenotesOneLogin
=============================================================================
