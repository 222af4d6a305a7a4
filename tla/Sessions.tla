------------------------------ MODULE Sessions ------------------------------
(***************************************************************************)
(* The server-side sessions of the portal: mgr/SessMgr.py on top of        *)
(* db/SessDb.py, together with the one statement outside them that writes  *)
(* the sessions table, db/AdminDb.py set_account_status.                   *)
(*                                                                         *)
(* Every SessDb method is one MariaDB transaction (db/XmrDb.py execute and *)
(* fetch_one), so each is one atomic step here; between two of them other  *)
(* workers, the administrator and the clock may step.  A worker is one     *)
(* thread inside a SessMgr method.  It takes the time once, when the call  *)
(* begins (`now`), and keeps it, and the row it has read, across its later *)
(* statements: both may be stale by the time they are used.                *)
(***************************************************************************)
EXTENDS Integers, FiniteSets

CONSTANTS
    Workers,           \* threads that serve requests (asyncio.to_thread)
    Accounts,          \* rows the users table may come to hold
    SessionIds,        \* AUTO_INCREMENT keys, only their identity matters
    Tokens,            \* outcomes of secrets.token_urlsafe, never repeated
    None,              \* SQL NULL and Python None
    IdleTimeout,       \* SessMgr idle_timeout, in ticks
    AbsoluteLifetime,  \* SessMgr absolute_lifetime, in ticks
    MaxTime            \* bound on the clock

\* SessMgr.__init__ refuses any other pair of lifetimes.
ASSUME LifetimeAssumption ==
    /\ IdleTimeout \in Nat \ {0}
    /\ AbsoluteLifetime \in Nat
    /\ AbsoluteLifetime >= IdleTimeout

ASSUME BoundAssumption == MaxTime \in Nat

ASSUME NoneAssumption == None \notin Accounts \cup SessionIds \cup Tokens

VARIABLES
    clock,    \* datetime.now(UTC), the same for every worker
    status,   \* users.status, "none" where the users table has no row
    rows,     \* the sessions table
    issued,   \* tokens generated so far
    cookies,  \* tokens clients have been given
    calls     \* what each worker is doing

vars == <<clock, status, rows, issued, cookies, calls>>

Row == [token : Tokens, account : Accounts \cup {None}, authenticated : BOOLEAN,
        created : Nat, last : Nat, expires : Nat, absolute : Nat,
        revoked : BOOLEAN]

\* `token`, `id`, `account`, `authenticated` and `absolute` are the Session the
\* call holds (or the row it has read); `want` and `fresh` are the arguments of
\* an authenticate_and_rotate about to be executed.
Call == [pc : {"idle", "find", "touch", "create", "held", "rotate"},
         op : {"get_authenticated", "get_or_create"},
         now : Nat, token : Tokens \cup {None}, id : SessionIds \cup {None},
         account : Accounts \cup {None}, authenticated : BOOLEAN,
         absolute : Nat, want : Accounts \cup {None},
         fresh : Tokens \cup {None}]

NoCall == [pc |-> "idle", op |-> "get_or_create", now |-> 0, token |-> None,
           id |-> None, account |-> None, authenticated |-> FALSE,
           absolute |-> 0, want |-> None, fresh |-> None]

Earlier(s, t) == IF s < t THEN s ELSE t

-----------------------------------------------------------------------------
(* The statements of SessDb, as predicates and values of one row.          *)

\* The part of the WHERE clause that find_active, touch and
\* authenticate_and_rotate share.
Live(row, now) ==
    /\ ~row.revoked
    /\ row.expires > now
    /\ row.absolute > now

FindActive(token, now) ==
    {id \in DOMAIN rows :
        /\ rows[id].token = token
        /\ Live(rows[id], now)
        /\ \/ ~rows[id].authenticated
           \/ /\ rows[id].account \in Accounts
              /\ status[rows[id].account] = "active"}

\* A slip that would break SessionClock: the cap is forgotten.
ExpiryUncapped(call) == call.now + IdleTimeout

\* `expires_at` as get_or_create, get_authenticated and authenticate compute it.
Expiry(call) == Earlier(call.now + IdleTimeout, call.absolute)

\* A slip that would break RevokedIsFinal: touch trusts the row it read.
TouchWhereExpiryOnly(call) ==
    rows[call.id].expires > call.now /\ rows[call.id].absolute > call.now

TouchWhere(call) == Live(rows[call.id], call.now)

TouchSet(call) ==
    [rows EXCEPT ![call.id].last = call.now,
                 ![call.id].expires = Expiry(call)]

\* A slip that would break OneLoginPerSession: no compare of the old digest.
RotateWhereById(call) == Live(rows[call.id], call.now)

RotateWhere(call) ==
    /\ rows[call.id].token = call.token
    /\ Live(rows[call.id], call.now)

\* A slip that would break TokenDenotesOneLogin: the session keeps its token.
RotateSetSameToken(call) ==
    [rows EXCEPT ![call.id].account = call.want,
                 ![call.id].authenticated = TRUE,
                 ![call.id].last = call.now,
                 ![call.id].expires = Expiry(call)]

RotateSet(call) ==
    [rows EXCEPT ![call.id].token = call.fresh,
                 ![call.id].account = call.want,
                 ![call.id].authenticated = TRUE,
                 ![call.id].last = call.now,
                 ![call.id].expires = Expiry(call)]

\* A slip that would break TypeOK: the timeout counts backwards.
NewRowExpired(token, now) ==
    [token |-> token, account |-> None, authenticated |-> FALSE,
     created |-> now, last |-> now, expires |-> now - IdleTimeout,
     absolute |-> now + AbsoluteLifetime, revoked |-> FALSE]

NewRow(token, now) ==
    [token |-> token, account |-> None, authenticated |-> FALSE,
     created |-> now, last |-> now, expires |-> now + IdleTimeout,
     absolute |-> now + AbsoluteLifetime, revoked |-> FALSE]

-----------------------------------------------------------------------------
Init ==
    /\ clock = 0
    /\ status = [a \in Accounts |-> "none"]
    /\ rows = [id \in {} |-> NewRow(None, 0)]
    /\ issued = {}
    /\ cookies = {}
    /\ calls = [w \in Workers |-> NoCall]

\* A call reads the clock once, and its token from the request.
Begun(op, pc, token) ==
    [NoCall EXCEPT !.pc = pc, !.op = op, !.now = clock, !.token = token]

\* SessMgr.get_authenticated(token): the request carries some cookie a client
\* was given, the current one or not.  A token of the wrong shape returns None
\* before any statement and changes nothing.
GetAuthenticated(w, token) ==
    /\ calls[w].pc = "idle"
    /\ token \in cookies
    /\ calls' = [calls EXCEPT ![w] = Begun("get_authenticated", "find", token)]
    /\ UNCHANGED <<clock, status, rows, issued, cookies>>

\* SessMgr.get_or_create(token), where None also stands for a token of the
\* wrong shape: UserSession.authenticate calls it with None,
\* SessionMiddleware with the request's cookie.
GetOrCreate(w, token) ==
    /\ calls[w].pc = "idle"
    /\ token \in cookies \cup {None}
    /\ calls' = [calls EXCEPT ![w] =
          Begun("get_or_create", IF token = None THEN "create" ELSE "find", token)]
    /\ UNCHANGED <<clock, status, rows, issued, cookies>>

\* Where a call goes that has no usable row: get_authenticated returns None,
\* get_or_create goes on to _create.
Missed(w) ==
    calls' = [calls EXCEPT ![w] =
                 IF calls[w].op = "get_authenticated" THEN NoCall
                 ELSE [calls[w] EXCEPT !.pc = "create"]]

FindMisses(w) ==
    /\ calls[w].pc = "find"
    /\ FindActive(calls[w].token, calls[w].now) = {}
    /\ Missed(w)
    /\ UNCHANGED <<clock, status, rows, issued, cookies>>

FindHits(w) ==
    /\ calls[w].pc = "find"
    /\ \E id \in FindActive(calls[w].token, calls[w].now) :
          IF calls[w].op = "get_authenticated" /\ ~rows[id].authenticated
          THEN Missed(w)
          ELSE calls' = [calls EXCEPT ![w].pc = "touch", ![w].id = id,
                            ![w].account = rows[id].account,
                            ![w].authenticated = rows[id].authenticated,
                            ![w].absolute = rows[id].absolute]
    /\ UNCHANGED <<clock, status, rows, issued, cookies>>

\* The touch of the row that was read, by its id.  get_authenticated still
\* refuses a row without an account, after having touched it.
TouchHits(w) ==
    /\ calls[w].pc = "touch"
    /\ TouchWhere(calls[w])
    /\ rows' = TouchSet(calls[w])
    /\ IF calls[w].op = "get_authenticated" /\ calls[w].account = None
       THEN Missed(w)
       ELSE calls' = [calls EXCEPT ![w].pc = "held"]
    /\ UNCHANGED <<clock, status, issued, cookies>>

\* affected_rows is not 1: the row is no longer live, or it is and the update
\* writes the values it already holds, which MariaDB may count as no row.
TouchMisses(w) ==
    /\ calls[w].pc = "touch"
    /\ TouchWhere(calls[w]) => TouchSet(calls[w]) = rows
    /\ Missed(w)
    /\ UNCHANGED <<clock, status, rows, issued, cookies>>

\* SessMgr._create, with the time the call began at.
Create(w) ==
    /\ calls[w].pc = "create"
    /\ \E token \in Tokens \ issued, id \in SessionIds \ DOMAIN rows :
          LET row == NewRow(token, calls[w].now) IN
          /\ rows' = [i \in DOMAIN rows \cup {id} |->
                         IF i = id THEN row ELSE rows[i]]
          /\ issued' = issued \cup {token}
          /\ calls' = [calls EXCEPT ![w] = [NoCall EXCEPT
                           !.pc = "held", !.now = calls[w].now,
                           !.token = token, !.id = id,
                           !.absolute = row.absolute]]
    /\ UNCHANGED <<clock, status, cookies>>

\* SessMgr.authenticate(session, account): a caller logs in on the anonymous
\* session it holds; it takes the time again and draws the new token.  No
\* caller in src/ does so on a session that is authenticated already.
Authenticate(w, account) ==
    /\ calls[w].pc = "held"
    /\ ~calls[w].authenticated
    /\ \E token \in Tokens \ issued :
          /\ issued' = issued \cup {token}
          /\ calls' = [calls EXCEPT ![w].pc = "rotate", ![w].now = clock,
                          ![w].want = account, ![w].fresh = token]
    /\ UNCHANGED <<clock, status, rows, cookies>>

\* authenticate_and_rotate: the account must exist (fk_sessions_account).
RotateHits(w) ==
    /\ calls[w].pc = "rotate"
    /\ RotateWhere(calls[w])
    /\ status[calls[w].want] # "none"
    /\ rows' = RotateSet(calls[w])
    /\ calls' = [calls EXCEPT ![w].pc = "held", ![w].token = calls[w].fresh,
                    ![w].account = calls[w].want, ![w].authenticated = TRUE,
                    ![w].want = None, ![w].fresh = None]
    /\ UNCHANGED <<clock, status, issued, cookies>>

\* "session expired or was revoked", or the foreign key error.
RotateMisses(w) ==
    /\ calls[w].pc = "rotate"
    /\ RotateWhere(calls[w]) => status[calls[w].want] = "none"
    /\ calls' = [calls EXCEPT ![w] = NoCall]
    /\ UNCHANGED <<clock, status, rows, issued, cookies>>

\* The caller is done and the token reaches the client in Set-Cookie.
Return(w) ==
    /\ calls[w].pc = "held"
    /\ cookies' = cookies \cup {calls[w].token}
    /\ calls' = [calls EXCEPT ![w] = NoCall]
    /\ UNCHANGED <<clock, status, rows, issued>>

\* A database error or a restart of xmr.service between two statements: what
\* was committed stays, the rest of the call is gone, and so is its answer.
Abort(w) ==
    /\ calls[w].pc # "idle"
    /\ calls' = [calls EXCEPT ![w] = NoCall]
    /\ UNCHANGED <<clock, status, rows, issued, cookies>>

\* SessMgr.revoke(token).
Revoke(token) ==
    /\ token \in cookies
    /\ rows' = [id \in DOMAIN rows |->
                  IF rows[id].token = token THEN [rows[id] EXCEPT !.revoked = TRUE]
                  ELSE rows[id]]
    /\ UNCHANGED <<clock, status, issued, cookies, calls>>

\* AppDb.create_user.
CreateUser(account) ==
    /\ status[account] = "none"
    /\ status' = [status EXCEPT ![account] = "active"]
    /\ UNCHANGED <<clock, rows, issued, cookies, calls>>

\* A slip that would break ResolvedIsCurrent: the sessions are left alone.
StatusSetUsersOnly(account, new) == rows

\* The sessions table after AdminDb.set_account_status.
StatusSet(account, new) ==
    [id \in DOMAIN rows |->
        IF new = "disabled" /\ rows[id].account = account
        THEN [rows[id] EXCEPT !.revoked = TRUE] ELSE rows[id]]

\* AdminDb.set_account_status, one transaction: the row lock on users and the
\* foreign key check of a rotation order the two, so it is atomic to them.
SetAccountStatus(account, new) ==
    /\ status[account] # "none"
    /\ status' = [status EXCEPT ![account] = new]
    /\ rows' = StatusSet(account, new)
    /\ UNCHANGED <<clock, issued, cookies, calls>>

Tick ==
    /\ clock < MaxTime
    /\ clock' = clock + 1
    /\ UNCHANGED <<status, rows, issued, cookies, calls>>

SessMgrStep(w) ==
    \/ FindMisses(w)
    \/ FindHits(w)
    \/ TouchHits(w)
    \/ TouchMisses(w)
    \/ Create(w)
    \/ RotateHits(w)
    \/ RotateMisses(w)
    \/ Abort(w)

Next ==
    \/ \E w \in Workers : \E token \in Tokens : GetAuthenticated(w, token)
    \/ \E w \in Workers : \E token \in Tokens \cup {None} : GetOrCreate(w, token)
    \/ \E w \in Workers : \E account \in Accounts : Authenticate(w, account)
    \/ \E w \in Workers : SessMgrStep(w) \/ Return(w)
    \/ \E token \in Tokens : Revoke(token)
    \/ \E account \in Accounts : CreateUser(account)
    \/ \E account \in Accounts : \E new \in {"active", "disabled"} :
          SetAccountStatus(account, new)
    \/ Tick

Spec == Init /\ [][Next]_vars

-----------------------------------------------------------------------------
(* Types: every variable holds what the schema and the managers put there. *)
TypeOK ==
    /\ clock \in Nat
    /\ status \in [Accounts -> {"none", "active", "disabled"}]
    /\ DOMAIN rows \subseteq SessionIds
    /\ rows \in [DOMAIN rows -> Row]
    /\ issued \subseteq Tokens
    /\ cookies \subseteq issued
    /\ calls \in [Workers -> Call]

\* Whatever stale times the touches of a session were made with, and in
\* whatever order they reached the table, its expiry is the idle timeout after
\* its recorded activity capped by its lifetime, the lifetime is counted from
\* its creation, and its activity lies between its creation and the present.
SessionClock ==
    \A id \in DOMAIN rows :
        /\ rows[id].absolute = rows[id].created + AbsoluteLifetime
        /\ rows[id].expires =
              Earlier(rows[id].last + IdleTimeout, rows[id].absolute)
        /\ rows[id].created <= rows[id].last
        /\ rows[id].last <= clock

\* Two callers that log in on the same anonymous session: the compare-and-set
\* on token_digest lets one win, so that all who hold the session as
\* authenticated hold it under one token and for one account.
OneLoginPerSession ==
    \A v, w \in Workers :
        /\ calls[v].pc = "held" /\ calls[v].authenticated
        /\ calls[w].pc = "held" /\ calls[w].authenticated
        /\ calls[v].id = calls[w].id
        => /\ calls[v].token = calls[w].token
           /\ calls[v].account = calls[w].account

\* No touch or rotation that read the row before it was revoked writes to it
\* afterwards: once revoked, a session never changes again.
RevokedIsFinal ==
    [][\A id \in DOMAIN rows : rows[id].revoked =>
          id \in DOMAIN rows' /\ rows'[id] = rows[id]]_vars

\* A token denotes one session in one state of authentication for ever: a
\* cookie handed out before the login never becomes the logged-in one.
TokenDenotesOneLogin ==
    [][\A i \in DOMAIN rows, j \in DOMAIN rows' :
          rows[i].token = rows'[j].token =>
             /\ i = j
             /\ rows[i].account = rows'[j].account
             /\ rows[i].authenticated = rows'[j].authenticated]_vars

Resolves(w) ==
    /\ calls[w].pc = "touch"
    /\ calls[w].op = "get_authenticated"
    /\ calls'[w].pc = "held"

IsCurrent(w) ==
    LET row == rows[calls[w].id] IN
    /\ ~row.revoked
    /\ row.authenticated
    /\ calls'[w].account = row.account
    /\ status[row.account] = "active"
    /\ calls[w].now < row.created + AbsoluteLifetime

\* get_authenticated answers from the row it read before the touch.  All the
\* same, at the moment it succeeds the session is not revoked, it is still the
\* session of the account answered, that account is active, and the request
\* began within the session's lifetime.
ResolvedIsCurrent == [][\A w \in Workers : Resolves(w) => IsCurrent(w)]_vars
=============================================================================
