---------------------------- MODULE PortalProofs ----------------------------
(***************************************************************************)
(* For any number of requests, accounts and sessions: the portal uses      *)
(* sessions as SessMgr offers them, a session is private to its sign-in    *)
(* until it is logged in, and a disabled account that has come to rest     *)
(* stays at rest.                                                          *)
(***************************************************************************)
EXTENDS Portal, SessionsProofs

\* A request that signs in holds the session it has begun.
Holding(w) == task[w].stage = "signin" /\ calls[w].pc \in {"held", "rotate"}

\* Where a request is in SessMgr, and that what a sign-in has begun is still as
\* it was: nobody else writes to a session that is not logged in.
TaskOK(w) ==
    /\ task[w].stage \in {"none", "verify"} => calls[w].pc = "idle"
    /\ task[w].stage \in {"verify", "signin"} => task[w].account \in Accounts
    /\ task[w].stage = "page" =>
          /\ calls[w].pc \in {"find", "touch", "held"}
          /\ calls[w].op = "get_authenticated"
          /\ calls[w].pc \in {"touch", "held"} => calls[w].authenticated
    /\ task[w].stage = "signin" =>
          /\ calls[w].pc \in {"idle", "create", "held", "rotate"}
          /\ calls[w].pc = "rotate" => calls[w].want = task[w].account
          /\ calls[w].pc \in {"held", "rotate"} /\ ~calls[w].authenticated =>
                /\ rows[calls[w].id].token = calls[w].token
                /\ ~rows[calls[w].id].authenticated
                /\ ~rows[calls[w].id].revoked

\* No client has the token of a session without a login, and no account is
\* disabled that it would be revoked with.
RowsPrivate ==
    \A id \in DOMAIN rows : ~rows[id].authenticated =>
        rows[id].token \notin cookies /\ rows[id].account = None

HeldApart == \A v, w \in Workers : v # w /\ Holding(v) /\ Holding(w) => calls[v].id # calls[w].id

PortalIInv ==
    /\ IInv
    /\ task \in [Workers -> Task]
    /\ \A w \in Workers : TaskOK(w)
    /\ RowsPrivate
    /\ HeldApart

-----------------------------------------------------------------------------
(* The portal makes no other calls of SessMgr than Sessions allows.        *)

\* With the account of a sign-in known to be one, each step of the portal is a
\* step of Sessions or leaves sessions alone.
LEMMA PortalUses ==
  ASSUME \A w \in Workers : TaskOK(w), [PortalNext]_pvars
  PROVE  [Next]_vars
<1>1. ASSUME NEW w \in Workers, NEW account \in Accounts,
             LoginReads(w, account) \/ SignUp(w, account)
      PROVE  [Next]_vars
  BY <1>1 DEF LoginReads, SignUp, Next
<1>2. ASSUME NEW w \in Workers, NEW token \in Tokens, OpenPage(w, token)
      PROVE  [Next]_vars
  BY <1>2 DEF OpenPage, Next
<1>3. ASSUME NEW w \in Workers, LoginVerified(w) \/ StartSession(w) \/ BindSession(w)
      PROVE  [Next]_vars
  <2>1. CASE LoginVerified(w) \/ StartSession(w)
    BY <2>1 DEF LoginVerified, StartSession, Next
  <2>2. CASE BindSession(w)
    <3>1. task[w].account \in Accounts
      BY <2>2 DEF BindSession, TaskOK
    <3> QED
      BY <2>2, <3>1 DEF BindSession, Next
  <2> QED
    BY <1>3, <2>1, <2>2
<1>4. ASSUME NEW w \in Workers, SessionStep(w) \/ Respond(w) \/ GiveUp(w)
      PROVE  [Next]_vars
  BY <1>4 DEF SessionStep, Respond, GiveUp, SessMgrStep, Next
<1>5. CASE Elsewhere
  BY <1>5 DEF Elsewhere, Next
<1>6. CASE UNCHANGED pvars
  BY <1>6 DEF pvars
<1> QED
  BY <1>1, <1>2, <1>3, <1>4, <1>5, <1>6 DEF PortalNext

-----------------------------------------------------------------------------
\* A worker without a request is not in SessMgr.
LEMMA NoTaskType ==
  /\ NoTask \in Task /\ NoTask.stage = "none"
BY DEF NoTask, Task

\* At the start nobody is in SessMgr.
LEMMA PortalInitInv == PortalInit => PortalIInv
<1> SUFFICES ASSUME PortalInit PROVE PortalIInv
  OBVIOUS
<1>1. IInv
  BY InitInv DEF PortalInit
<1>2. task \in [Workers -> Task] /\ \A w \in Workers : task[w].stage = "none"
  BY NoTaskType DEF PortalInit
<1>3. \A w \in Workers : calls[w].pc = "idle"
  BY NoCallType DEF PortalInit, Init
<1>4. DOMAIN rows = {}
  BY DEF PortalInit, Init
<1> QED
  BY <1>1, <1>2, <1>3, <1>4 DEF PortalIInv, TaskOK, RowsPrivate, HeldApart, Holding

\* What the other requests rely on in the table is there after a step that
\* writes at most times to it.
SameRows ==
    /\ DOMAIN rows' = DOMAIN rows
    /\ \A id \in DOMAIN rows :
          /\ rows'[id].token = rows[id].token
          /\ rows'[id].account = rows[id].account
          /\ rows'[id].authenticated = rows[id].authenticated
          /\ rows'[id].revoked = rows[id].revoked

\* A step of one request that leaves to the others what they rely on in the table
\* keeps the invariant.
LEMMA SameRowsInv ==
  ASSUME PortalIInv, IInv', NEW w \in Workers,
         task' \in [Workers -> Task],
         \A v \in Workers : v # w => calls'[v] = calls[v] /\ task'[v] = task[v],
         SameRows,
         \A id \in DOMAIN rows : ~rows[id].authenticated => rows[id].token \notin cookies',
         TaskOK(w)',
         Holding(w)' => Holding(w) /\ calls'[w].id = calls[w].id
  PROVE  PortalIInv'
<1>1. ASSUME NEW v \in Workers PROVE TaskOK(v)'
  <2>1. CASE v # w
    <3>1. calls[v].pc \in {"held", "rotate"} => calls[v].id \in DOMAIN rows
      BY DEF PortalIInv, IInv, CallsOK, CallOK, HasRow
    <3>2. TaskOK(v) /\ calls'[v] = calls[v] /\ task'[v] = task[v]
      BY <2>1 DEF PortalIInv
    <3> QED
      BY <3>1, <3>2 DEF TaskOK, SameRows
  <2> QED
    BY <2>1
<1>2. RowsPrivate'
  BY DEF PortalIInv, RowsPrivate, SameRows
<1>3. HeldApart'
  <2>1. \A v \in Workers : Holding(v)' => Holding(v) /\ calls'[v].id = calls[v].id
    BY DEF Holding
  <2> QED
    BY <2>1 DEF PortalIInv, HeldApart
<1> QED
  BY <1>1, <1>2, <1>3 DEF PortalIInv

\* A request that ends, wherever it is in SessMgr.
LEMMA EndsInv ==
  ASSUME PortalIInv, IInv', NEW w \in Workers,
         task' = [task EXCEPT ![w] = NoTask],
         calls'[w].pc = "idle",
         \A v \in Workers : v # w => calls'[v] = calls[v],
         SameRows,
         \A id \in DOMAIN rows : ~rows[id].authenticated => rows[id].token \notin cookies'
  PROVE  PortalIInv'
<1>1. /\ task' \in [Workers -> Task] /\ task'[w].stage = "none"
      /\ \A v \in Workers : v # w => task'[v] = task[v]
  BY NoTaskType DEF PortalIInv
<1>2. TaskOK(w)' /\ ~Holding(w)'
  BY <1>1 DEF TaskOK, Holding
<1> QED
  BY <1>1, <1>2, SameRowsInv

\* A request comes, or a password is found to be right.
LEMMA RequestInv ==
  ASSUME PortalIInv, IInv', NEW w \in Workers,
         \/ \E account \in Accounts : LoginReads(w, account) \/ SignUp(w, account)
         \/ \E token \in Tokens : OpenPage(w, token)
         \/ LoginVerified(w)
  PROVE  PortalIInv'
<1>0. /\ task \in [Workers -> Task] /\ task[w] \in Task /\ TaskOK(w)
      /\ calls \in [Workers -> Call]
  BY DEF PortalIInv, IInv, TypeOK
<1>1. SameRows /\ cookies' = cookies
  BY DEF LoginReads, SignUp, OpenPage, LoginVerified, CreateUser, GetAuthenticated, vars, SameRows
<1>2. \A id \in DOMAIN rows : ~rows[id].authenticated => rows[id].token \notin cookies'
  BY <1>1 DEF PortalIInv, RowsPrivate
<1>3. ASSUME NEW account \in Accounts, LoginReads(w, account) \/ SignUp(w, account)
      PROVE  PortalIInv'
  <2>1. PICK t \in Task : /\ task' = [task EXCEPT ![w] = t] /\ t.account = account
                          /\ t.stage \in {"verify", "signin"}
    <3>1. status[account] \in {"none", "active", "disabled"}
      BY DEF PortalIInv, IInv, TypeOK
    <3>2. CASE LoginReads(w, account)
      <4> DEFINE t == [stage |-> "verify", account |-> account, seen |-> status[account]]
      <4>1. t \in Task
        BY <3>1, <3>2 DEF LoginReads, Task
      <4>2. task' = [task EXCEPT ![w] = t]
        BY <3>2 DEF LoginReads
      <4> QED
        BY <4>1, <4>2
    <3>3. CASE SignUp(w, account)
      <4> DEFINE t == [stage |-> "signin", account |-> account, seen |-> "active"]
      <4>1. t \in Task
        BY DEF Task
      <4>2. task' = [task EXCEPT ![w] = t]
        BY <3>3 DEF SignUp
      <4> QED
        BY <4>1, <4>2
    <3> QED
      BY <1>3, <3>2, <3>3
  <2>2. calls' = calls /\ calls[w].pc = "idle"
    BY <1>0, <1>3, NoTaskType DEF LoginReads, SignUp, CreateUser, vars, TaskOK
  <2>3. /\ task' \in [Workers -> Task] /\ task'[w] = t
        /\ \A v \in Workers : v # w => task'[v] = task[v]
    BY <1>0, <2>1
  <2>4. TaskOK(w)' /\ ~Holding(w)'
    BY <2>1, <2>2, <2>3 DEF TaskOK, Holding
  <2> QED
    BY <1>1, <1>2, <2>2, <2>3, <2>4, SameRowsInv
<1>4. ASSUME NEW token \in Tokens, OpenPage(w, token) PROVE PortalIInv'
  <2> DEFINE t == [task[w] EXCEPT !.stage = "page"]
  <2>1. t \in Task /\ t.stage = "page"
    BY <1>0 DEF Task
  <2>2. task' = [task EXCEPT ![w] = t]
    BY <1>4 DEF OpenPage
  <2> HIDE DEF t
  <2>3. /\ task' \in [Workers -> Task] /\ task'[w].stage = "page"
        /\ \A v \in Workers : v # w => task'[v] = task[v]
    BY <1>0, <2>1, <2>2
  <2>4. /\ calls'[w].pc = "find" /\ calls'[w].op = "get_authenticated"
        /\ \A v \in Workers : v # w => calls'[v] = calls[v]
    BY <1>0, <1>4 DEF OpenPage, GetAuthenticated, Begun, NoCall
  <2>5. TaskOK(w)' /\ ~Holding(w)'
    BY <2>3, <2>4 DEF TaskOK, Holding
  <2> QED
    BY <1>1, <1>2, <2>3, <2>4, <2>5, SameRowsInv
<1>5. CASE LoginVerified(w)
  <2> DEFINE t == [task[w] EXCEPT !.stage = "signin"]
  <2>1. t \in Task /\ t.stage = "signin" /\ t.account = task[w].account
    BY <1>0 DEF Task
  <2>2. /\ task' = [task EXCEPT ![w] = t] /\ calls' = calls /\ calls[w].pc = "idle"
        /\ task[w].account \in Accounts
    BY <1>0, <1>5 DEF LoginVerified, vars, TaskOK
  <2> HIDE DEF t
  <2>3. /\ task' \in [Workers -> Task] /\ task'[w] = t
        /\ \A v \in Workers : v # w => task'[v] = task[v]
    BY <1>0, <2>1, <2>2
  <2>4. TaskOK(w)' /\ ~Holding(w)'
    BY <2>1, <2>2, <2>3 DEF TaskOK, Holding
  <2> QED
    BY <1>1, <1>2, <2>2, <2>3, <2>4, SameRowsInv
<1> QED
  BY <1>3, <1>4, <1>5

\* A sign-in begins a session, or asks for its rotation.
LEMMA SignInInv ==
  ASSUME PortalIInv, IInv', NEW w \in Workers, StartSession(w) \/ BindSession(w)
  PROVE  PortalIInv'
<1>0. /\ task \in [Workers -> Task] /\ calls \in [Workers -> Call] /\ calls[w] \in Call
      /\ TaskOK(w)
  BY DEF PortalIInv, IInv, TypeOK
<1>1. SameRows /\ cookies' = cookies /\ task' = task /\ task[w].stage = "signin"
  BY DEF StartSession, BindSession, GetOrCreate, Authenticate, SameRows
<1>2. \A id \in DOMAIN rows : ~rows[id].authenticated => rows[id].token \notin cookies'
  BY <1>1 DEF PortalIInv, RowsPrivate
<1>3. CASE StartSession(w)
  <2>1. /\ calls'[w].pc = "create"
        /\ \A v \in Workers : v # w => calls'[v] = calls[v]
    BY <1>0, <1>3 DEF StartSession, GetOrCreate, Begun, NoCall
  <2>2. TaskOK(w)' /\ ~Holding(w)'
    BY <1>0, <1>1, <2>1 DEF TaskOK, Holding
  <2> QED
    BY <1>0, <1>1, <1>2, <2>1, <2>2, SameRowsInv
<1>4. CASE BindSession(w)
  <2>1. PICK token \in Tokens :
           calls' = [calls EXCEPT ![w].pc = "rotate", ![w].now = clock,
                                  ![w].want = task[w].account, ![w].fresh = token]
    BY <1>4 DEF BindSession, Authenticate
  <2> DEFINE c == [calls[w] EXCEPT !.pc = "rotate", !.now = clock,
                                   !.want = task[w].account, !.fresh = token]
  <2>2. /\ c.pc = "rotate" /\ c.want = task[w].account /\ c.id = calls[w].id
        /\ c.token = calls[w].token /\ c.authenticated = calls[w].authenticated
    BY <1>0 DEF Call
  <2>3. calls'[w] = c /\ \A v \in Workers : v # w => calls'[v] = calls[v]
    BY <1>0, <2>1
  <2> HIDE DEF c
  <2>4. calls[w].pc = "held" /\ Holding(w) /\ calls[w].id \in DOMAIN rows
    BY <1>1, <1>4 DEF BindSession, Authenticate, Holding, PortalIInv, IInv, CallsOK, CallOK, HasRow
  <2>5. TaskOK(w)'
    BY <1>0, <1>1, <2>2, <2>3, <2>4 DEF TaskOK, SameRows
  <2> QED
    BY <1>0, <1>1, <1>2, <2>2, <2>3, <2>4, <2>5, SameRowsInv
<1> QED
  BY <1>3, <1>4

\* A statement of SessMgr that writes no more than times: it looks a session up,
\* touches it, or misses.
LEMMA LookInv ==
  ASSUME PortalIInv, IInv', NEW w \in Workers, SessionStep(w),
         FindMisses(w) \/ FindHits(w) \/ TouchHits(w) \/ TouchMisses(w) \/ RotateMisses(w)
  PROVE  PortalIInv'
<1>0. /\ task \in [Workers -> Task] /\ calls \in [Workers -> Call] /\ calls[w] \in Call
      /\ TaskOK(w)
  BY DEF PortalIInv, IInv, TypeOK
<1>1. cookies' = cookies
  BY DEF FindMisses, FindHits, TouchHits, TouchMisses, RotateMisses
<1>2. SameRows
  <2>1. CASE TouchHits(w)
    BY <2>1 DEF TouchHits, TouchSet, SameRows, PortalIInv, IInv, TypeOK, Row
  <2>2. CASE rows' = rows
    BY <2>2 DEF SameRows
  <2> QED
    BY <2>1, <2>2 DEF FindMisses, FindHits, TouchMisses, RotateMisses
<1>3. \A id \in DOMAIN rows : ~rows[id].authenticated => rows[id].token \notin cookies'
  BY <1>1 DEF PortalIInv, RowsPrivate
<1>4. \A v \in Workers : v # w => calls'[v] = calls[v]
  BY <1>0 DEF FindMisses, FindHits, TouchHits, TouchMisses, RotateMisses, Missed
<1>5. calls' \in [Workers -> Call]
  BY DEF IInv, TypeOK
<1>6. CASE calls'[w].pc = "idle"
  BY <1>0, <1>2, <1>3, <1>4, <1>6, EndsInv DEF SessionStep
<1>7. CASE calls'[w].pc # "idle"
  <2>1. ~RotateMisses(w) /\ task' = task
    BY <1>0, <1>7, NoCallType DEF RotateMisses, SessionStep
  <2>2. task[w].stage = "page" /\ calls[w].op = "get_authenticated"
    BY <1>0, <2>1 DEF FindMisses, FindHits, TouchHits, TouchMisses, TaskOK, Task
  <2>3. ~Missed(w)
    BY <1>0, <1>7, <2>2, NoCallType DEF Missed
  <2>4. CASE FindHits(w)
    <3>1. PICK id \in DOMAIN rows :
             calls' = [calls EXCEPT ![w].pc = "touch", ![w].id = id,
                            ![w].account = rows[id].account,
                            ![w].authenticated = rows[id].authenticated,
                            ![w].absolute = rows[id].absolute]
      BY <2>3, <2>4 DEF FindHits, FindActive
    <3>2. calls'[w].pc = "touch" /\ calls'[w].op = calls[w].op
      BY <1>0, <3>1 DEF Call
    <3>3. calls'[w].authenticated
      BY <2>2, <3>2 DEF IInv, CallsOK, CallOK
    <3>4. TaskOK(w)' /\ ~Holding(w)'
      BY <2>1, <2>2, <3>2, <3>3 DEF TaskOK, Holding
    <3> QED
      BY <1>0, <1>2, <1>3, <1>4, <2>1, <3>4, SameRowsInv
  <2>5. CASE TouchHits(w)
    <3>1. /\ calls'[w].pc = "held" /\ calls'[w].op = calls[w].op
          /\ calls'[w].authenticated = calls[w].authenticated
          /\ calls[w].pc = "touch"
      BY <1>0, <2>3, <2>5 DEF TouchHits, Call
    <3>2. TaskOK(w)' /\ ~Holding(w)'
      BY <1>0, <2>1, <2>2, <3>1 DEF TaskOK, Holding
    <3> QED
      BY <1>0, <1>2, <1>3, <1>4, <2>1, <3>2, SameRowsInv
  <2> QED
    BY <2>1, <2>3, <2>4, <2>5 DEF FindMisses, TouchMisses
<1> QED
  BY <1>6, <1>7

\* A sign-in creates its session, under a token nobody has seen.
LEMMA CreateSessionInv ==
  ASSUME PortalIInv, IInv', NEW w \in Workers, SessionStep(w), Create(w)
  PROVE  PortalIInv'
<1>0. /\ task \in [Workers -> Task] /\ calls \in [Workers -> Call] /\ calls[w] \in Call
      /\ TaskOK(w) /\ task[w] \in Task
  BY DEF PortalIInv, IInv, TypeOK
<1>1. PICK token \in Tokens \ issued, id \in SessionIds \ DOMAIN rows :
         /\ rows' = [i \in DOMAIN rows \cup {id} |->
                        IF i = id THEN NewRow(token, calls[w].now) ELSE rows[i]]
         /\ calls' = [calls EXCEPT ![w] = [NoCall EXCEPT
                          !.pc = "held", !.now = calls[w].now, !.token = token, !.id = id,
                          !.absolute = NewRow(token, calls[w].now).absolute]]
         /\ cookies' = cookies
  BY DEF Create
<1>2. /\ calls'[w].pc = "held" /\ calls'[w].token = token /\ calls'[w].id = id
      /\ ~calls'[w].authenticated
      /\ \A v \in Workers : v # w => calls'[v] = calls[v]
  BY <1>0, <1>1 DEF NoCall
<1>3. /\ rows'[id].token = token /\ ~rows'[id].authenticated
      /\ ~rows'[id].revoked /\ rows'[id].account = None
      /\ DOMAIN rows' = DOMAIN rows \cup {id}
      /\ \A i \in DOMAIN rows : rows'[i] = rows[i]
  BY <1>1 DEF NewRow
<1>4. task' = task /\ task[w].stage = "signin"
  BY <1>0, <1>2 DEF SessionStep, Create, TaskOK, Task
<1>5. \A v \in Workers : calls[v].pc \in {"held", "rotate"} => calls[v].id \in DOMAIN rows
  BY DEF PortalIInv, IInv, CallsOK, CallOK, HasRow
<1>6. ASSUME NEW v \in Workers PROVE TaskOK(v)'
  <2>1. CASE v = w
    BY <1>0, <1>2, <1>3, <1>4, <2>1 DEF TaskOK
  <2>2. CASE v # w
    <3>1. TaskOK(v)
      BY DEF PortalIInv
    <3> QED
      BY <1>2, <1>3, <1>4, <1>5, <2>2, <3>1 DEF TaskOK
  <2> QED
    BY <2>1, <2>2
<1>7. RowsPrivate'
  <2>1. token \notin cookies
    BY <1>1 DEF PortalIInv, IInv, TypeOK
  <2> QED
    BY <1>1, <1>3, <2>1 DEF PortalIInv, RowsPrivate
<1>8. HeldApart'
  <2>1. \A v \in Workers : v # w /\ Holding(v)' => Holding(v) /\ calls'[v].id = calls[v].id
    BY <1>2, <1>4 DEF Holding
  <2>2. \A v \in Workers : v # w /\ Holding(v)' => calls'[v].id # id
    BY <1>5, <2>1 DEF Holding
  <2> QED
    BY <1>2, <2>1, <2>2 DEF PortalIInv, HeldApart
<1> QED
  BY <1>0, <1>4, <1>6, <1>7, <1>8 DEF PortalIInv

\* A sign-in logs in on the session it has begun, and on no other.
LEMMA RotateSessionInv ==
  ASSUME PortalIInv, IInv', NEW w \in Workers, SessionStep(w), RotateHits(w)
  PROVE  PortalIInv'
<1> DEFINE id == calls[w].id
<1>0. /\ task \in [Workers -> Task] /\ calls \in [Workers -> Call] /\ calls[w] \in Call
      /\ TaskOK(w) /\ task[w] \in Task /\ rows \in [DOMAIN rows -> Row]
  BY DEF PortalIInv, IInv, TypeOK
<1>1. /\ calls[w].pc = "rotate" /\ cookies' = cookies /\ rows' = RotateSet(calls[w])
      /\ id \in DOMAIN rows
  BY DEF RotateHits, PortalIInv, IInv, CallsOK, CallOK, HasRow
<1>2. /\ calls'[w].pc = "held" /\ calls'[w].id = id /\ calls'[w].authenticated
      /\ \A v \in Workers : v # w => calls'[v] = calls[v]
  BY <1>0 DEF RotateHits, Call
<1>3. /\ rows'[id].authenticated
      /\ DOMAIN rows' = DOMAIN rows
      /\ \A i \in DOMAIN rows : i # id => rows'[i] = rows[i]
  BY <1>0, <1>1 DEF RotateSet, Row
<1>4. task' = task /\ task[w].stage = "signin" /\ Holding(w)
  BY <1>0, <1>1, <1>2 DEF SessionStep, TaskOK, Task, Holding
<1>5. ASSUME NEW v \in Workers, v # w PROVE TaskOK(v)'
  <2>1. TaskOK(v) /\ (Holding(v) => calls[v].id \in DOMAIN rows /\ calls[v].id # id)
    BY <1>4, <1>5 DEF PortalIInv, HeldApart, Holding, IInv, CallsOK, CallOK, HasRow
  <2> QED
    BY <1>2, <1>3, <1>4, <1>5, <2>1 DEF TaskOK, Holding
<1>6. TaskOK(w)'
  BY <1>0, <1>2, <1>4 DEF TaskOK
<1>7. RowsPrivate'
  BY <1>1, <1>3 DEF PortalIInv, RowsPrivate
<1>8. HeldApart'
  <2>1. \A v \in Workers : Holding(v)' => Holding(v) /\ calls'[v].id = calls[v].id
    BY <1>2, <1>4 DEF Holding
  <2> QED
    BY <2>1 DEF PortalIInv, HeldApart
<1> QED
  BY <1>0, <1>4, <1>5, <1>6, <1>7, <1>8 DEF PortalIInv

\* A request answers or is given up.  Only the token of a session that is logged
\* in leaves the portal.
LEMMA OverInv ==
  ASSUME PortalIInv, IInv', NEW w \in Workers, Respond(w) \/ GiveUp(w)
  PROVE  PortalIInv'
<1>0. calls \in [Workers -> Call]
  BY DEF PortalIInv, IInv, TypeOK
<1>1. task' = [task EXCEPT ![w] = NoTask] /\ rows' = rows
  BY DEF Respond, GiveUp, Return, Abort, vars
<1>2. /\ calls'[w].pc = "idle"
      /\ \A v \in Workers : v # w => calls'[v] = calls[v]
  BY <1>0, NoCallType DEF Respond, GiveUp, Return, Abort, vars
<1>3. ASSUME NEW id \in DOMAIN rows, ~rows[id].authenticated
      PROVE  rows[id].token \notin cookies'
  <2>1. rows[id].token \notin cookies
    BY <1>3 DEF PortalIInv, RowsPrivate
  <2>2. CASE GiveUp(w)
    BY <2>1, <2>2 DEF GiveUp, Abort, vars
  <2>3. CASE Respond(w)
    <3>1. /\ calls[w].id \in DOMAIN rows
          /\ rows[calls[w].id].token = calls[w].token
          /\ rows[calls[w].id].authenticated
      BY <2>3 DEF Respond, Return, PortalIInv, IInv, CallsOK, CallOK, HasRow
    <3>2. rows[id].token # calls[w].token
      BY <1>3, <3>1 DEF PortalIInv, IInv, TokensOK
    <3> QED
      BY <2>1, <2>3, <3>2 DEF Respond, Return
  <2> QED
    BY <2>2, <2>3
<1> QED
  BY <1>1, <1>2, <1>3, EndsInv DEF SameRows

\* The administrator disables sessions of accounts, and time passes: neither
\* concerns a session without a login.
LEMMA ElsewhereInv ==
  ASSUME PortalIInv, IInv', Elsewhere
  PROVE  PortalIInv'
<1>0. calls' = calls /\ task' = task /\ cookies' = cookies
  BY DEF Elsewhere, Tick, SetAccountStatus
<1>1. /\ DOMAIN rows' = DOMAIN rows
      /\ \A id \in DOMAIN rows :
            /\ rows'[id].token = rows[id].token
            /\ rows'[id].account = rows[id].account
            /\ rows'[id].authenticated = rows[id].authenticated
            /\ rows[id].account = None => rows'[id].revoked = rows[id].revoked
  <2>1. CASE Tick
    BY <2>1 DEF Tick
  <2>2. CASE \E account \in Accounts, new \in {"active", "disabled"} :
                SetAccountStatus(account, new)
    <3>1. PICK account \in Accounts, new \in {"active", "disabled"} :
             rows' = StatusSet(account, new)
      BY <2>2 DEF SetAccountStatus
    <3>2. account # None
      BY NoneAssumption
    <3>3. ASSUME NEW id \in DOMAIN rows
          PROVE  /\ rows'[id].token = rows[id].token
                 /\ rows'[id].account = rows[id].account
                 /\ rows'[id].authenticated = rows[id].authenticated
                 /\ rows[id].account = None => rows'[id].revoked = rows[id].revoked
      <4>1. rows[id] \in Row
        BY DEF PortalIInv, IInv, TypeOK
      <4>2. CASE new = "disabled" /\ rows[id].account = account
        <5>1. rows'[id] = [rows[id] EXCEPT !.revoked = TRUE]
          BY <3>1, <4>2 DEF StatusSet
        <5> QED
          BY <3>2, <4>1, <4>2, <5>1 DEF Row
      <4>3. CASE ~(new = "disabled" /\ rows[id].account = account)
        BY <3>1, <4>3 DEF StatusSet
      <4> QED
        BY <4>2, <4>3
    <3>4. DOMAIN rows' = DOMAIN rows
      BY <3>1 DEF StatusSet
    <3> QED
      BY <3>3, <3>4
  <2> QED
    BY <2>1, <2>2 DEF Elsewhere
<1>2. ASSUME NEW v \in Workers PROVE TaskOK(v)'
  <2>1. /\ TaskOK(v)
        /\ calls[v].pc \in {"held", "rotate"} => calls[v].id \in DOMAIN rows
    BY DEF PortalIInv, IInv, CallsOK, CallOK, HasRow
  <2> QED
    BY <1>0, <1>1, <2>1 DEF TaskOK, PortalIInv, RowsPrivate
<1>3. RowsPrivate'
  BY <1>0, <1>1 DEF PortalIInv, RowsPrivate
<1>4. HeldApart'
  BY <1>0 DEF PortalIInv, HeldApart, Holding
<1> QED
  BY <1>0, <1>2, <1>3, <1>4 DEF PortalIInv

\* Every step of the portal keeps the invariant.
LEMMA PortalNextInv ==
  ASSUME PortalIInv, [PortalNext]_pvars
  PROVE  PortalIInv'
<1>1. [Next]_vars
  BY PortalUses DEF PortalIInv
<1>2. IInv'
  BY <1>1, NextInv DEF PortalIInv
<1>3. ASSUME NEW w \in Workers, NEW account \in Accounts,
             LoginReads(w, account) \/ SignUp(w, account)
      PROVE  PortalIInv'
  BY <1>2, <1>3, RequestInv
<1>4. ASSUME NEW w \in Workers, NEW token \in Tokens, OpenPage(w, token)
      PROVE  PortalIInv'
  BY <1>2, <1>4, RequestInv
<1>5. ASSUME NEW w \in Workers, LoginVerified(w) \/ StartSession(w) \/ BindSession(w)
      PROVE  PortalIInv'
  BY <1>2, <1>5, RequestInv, SignInInv
<1>6. ASSUME NEW w \in Workers, SessionStep(w) PROVE PortalIInv'
  <2>1. CASE Create(w)
    BY <1>2, <1>6, <2>1, CreateSessionInv
  <2>2. CASE RotateHits(w)
    BY <1>2, <1>6, <2>2, RotateSessionInv
  <2>3. CASE FindMisses(w) \/ FindHits(w) \/ TouchHits(w) \/ TouchMisses(w) \/ RotateMisses(w)
    BY <1>2, <1>6, <2>3, LookInv
  <2> QED
    BY <1>6, <2>1, <2>2, <2>3 DEF SessionStep
<1>7. ASSUME NEW w \in Workers, Respond(w) \/ GiveUp(w) PROVE PortalIInv'
  BY <1>2, <1>7, OverInv
<1>8. CASE Elsewhere
  BY <1>2, <1>8, ElsewhereInv
<1>9. CASE UNCHANGED pvars
  BY <1>2, <1>9 DEF pvars, vars, PortalIInv, TaskOK, RowsPrivate, HeldApart, Holding
<1> QED
  BY <1>3, <1>4, <1>5, <1>6, <1>7, <1>8, <1>9 DEF PortalNext

-----------------------------------------------------------------------------
\* The inductive invariant holds whatever the portal and the administrator do.
THEOREM PortalInvariance == PortalSpec => []PortalIInv
<1>1. PortalInit => PortalIInv
  BY PortalInitInv
<1>2. PortalIInv /\ [PortalNext]_pvars => PortalIInv'
  BY PortalNextInv
<1> QED
  BY <1>1, <1>2, PTL DEF PortalSpec

\* UsesSessions: the portal implements Sessions, so that every theorem about
\* SessMgr is one about the portal, as it is wired.
THEOREM PortalUsesSessions == PortalSpec => UsesSessions
<1>1. PortalInit => Init
  BY DEF PortalInit
<1>2. PortalIInv /\ [PortalNext]_pvars => [Next]_vars
  BY PortalUses DEF PortalIInv
<1> QED
  BY <1>1, <1>2, PortalInvariance, PTL DEF PortalSpec, UsesSessions, Spec

\* What is proved of SessMgr holds of the portal: expiries within their bounds, one
\* login on a session, no write to a revoked one, requests resolved to what is good
\* when they are, and no token that comes to denote another login.
THEOREM PortalInherits ==
  PortalSpec => /\ [](SessionClock /\ OneLoginPerSession)
                /\ RevokedIsFinal
                /\ ResolvedIsCurrent
                /\ TokenDenotesOneLogin
BY PortalUsesSessions, ClockSafety, OneLogin, RevocationFinal, ResolutionCurrent,
   TokenBinding, PTL DEF UsesSessions

\* PortalTypeOK: what a request knows of an account has the shape of its row.
THEOREM PortalTypeCorrect == PortalSpec => []PortalTypeOK
<1>1. PortalIInv => PortalTypeOK
  BY DEF PortalIInv, IInv, PortalTypeOK
<1> QED
  BY <1>1, PortalInvariance, PTL

\* AnonymousStaysPrivate: no client can plant a session, or race the rotation of
\* one that a sign-in has begun.
THEOREM AnonymousPrivate == PortalSpec => []AnonymousStaysPrivate
<1>1. ASSUME PortalIInv PROVE AnonymousStaysPrivate
  <2>1. \A id \in DOMAIN rows : ~rows[id].authenticated => rows[id].token \notin cookies
    BY <1>1 DEF PortalIInv, RowsPrivate
  <2>2. ASSUME NEW w \in Workers, task[w].stage = "signin", calls[w].pc = "rotate"
        PROVE  rows[calls[w].id].token = calls[w].token /\ ~rows[calls[w].id].revoked
    BY <1>1, <2>2 DEF PortalIInv, TaskOK, IInv, FreshOK
  <2>3. HeldApart
    BY <1>1 DEF PortalIInv
  <2> QED
    BY <2>1, <2>2, <2>3 DEF AnonymousStaysPrivate, HeldApart, Holding
<1> QED
  BY <1>1, PortalInvariance, PTL

\* A step of the portal leaves a disabled account that has come to rest at rest.
LEMMA SettledStays ==
  ASSUME PortalIInv, PortalIInv', [PortalNext]_pvars, NEW account \in Accounts,
         Settled(account), status'[account] = "disabled"
  PROVE  Settled(account)'
<1>0. /\ task \in [Workers -> Task] /\ calls \in [Workers -> Call]
      /\ rows \in [DOMAIN rows -> Row]
      /\ \A id \in DOMAIN rows : rows[id] \in Row
  BY DEF PortalIInv, IInv, TypeOK
<1>1. /\ status[account] = "disabled"
      /\ \A id \in DOMAIN rows : rows[id].account = account => rows[id].revoked
      /\ \A w \in Workers : ~SigningIn(w, account)
  BY DEF Settled
<1> DEFINE Kept == \A id \in DOMAIN rows' : rows'[id].account = account => rows'[id].revoked
           Quiet == \A w \in Workers : ~SigningIn(w, account)'
<1>2. ASSUME NEW w \in Workers, NEW a \in Accounts, LoginReads(w, a) \/ SignUp(w, a)
      PROVE  Kept /\ Quiet
  BY <1>0, <1>1, <1>2 DEF LoginReads, SignUp, CreateUser, vars, SigningIn
<1>3. ASSUME NEW w \in Workers, task' = [task EXCEPT ![w].stage = "page"], task[w] = NoTask,
             rows' = rows
      PROVE  Kept /\ Quiet
  BY <1>0, <1>1, <1>3 DEF SigningIn, NoTask, Task
<1>4. ASSUME NEW w \in Workers, LoginVerified(w) PROVE Kept /\ Quiet
  BY <1>0, <1>1, <1>4 DEF LoginVerified, vars, SigningIn, Task
<1>5. ASSUME task' = task \/ \E w \in Workers : task' = [task EXCEPT ![w] = NoTask]
      PROVE  Quiet
  BY <1>0, <1>1, <1>5 DEF SigningIn, NoTask
<1>6. ASSUME NEW w \in Workers, SessionStep(w) PROVE Kept
  <2>1. CASE Create(w)
    <3>1. PICK token \in Tokens, id \in SessionIds \ DOMAIN rows :
             rows' = [i \in DOMAIN rows \cup {id} |->
                        IF i = id THEN NewRow(token, calls[w].now) ELSE rows[i]]
      BY <2>1 DEF Create
    <3>2. NewRow(token, calls[w].now).account # account
      BY NoneAssumption DEF NewRow
    <3> QED
      BY <1>1, <3>1, <3>2
  <2>2. CASE RotateHits(w)
    <3>1. /\ calls[w].pc = "rotate" /\ rows' = RotateSet(calls[w])
          /\ calls[w].id \in DOMAIN rows
      BY <2>2 DEF RotateHits, PortalIInv, IInv, CallsOK, CallOK, HasRow
    <3>2. task[w].stage = "signin" /\ calls[w].want = task[w].account
      <4>1. TaskOK(w) /\ task[w] \in Task
        BY DEF PortalIInv
      <4> QED
        BY <3>1, <4>1 DEF TaskOK, Task
    <3>3. calls[w].want # account
      BY <1>1, <3>2 DEF SigningIn
    <3>4. /\ DOMAIN rows' = DOMAIN rows
          /\ rows'[calls[w].id].account = calls[w].want
          /\ \A i \in DOMAIN rows : i # calls[w].id => rows'[i] = rows[i]
      BY <1>0, <3>1 DEF RotateSet, Row
    <3> QED
      BY <1>1, <3>3, <3>4
  <2>3. CASE TouchHits(w)
    <3>1. /\ DOMAIN rows' = DOMAIN rows
          /\ \A i \in DOMAIN rows : rows'[i].account = rows[i].account /\ rows'[i].revoked = rows[i].revoked
      BY <1>0, <2>3 DEF TouchHits, TouchSet, Row
    <3> QED
      BY <1>1, <3>1
  <2>4. CASE rows' = rows
    BY <1>1, <2>4
  <2> QED
    BY <1>6, <2>1, <2>2, <2>3, <2>4 DEF SessionStep, FindMisses, FindHits, TouchMisses, RotateMisses
<1>7. ASSUME Elsewhere PROVE Kept
  <2>1. /\ DOMAIN rows' = DOMAIN rows
        /\ \A i \in DOMAIN rows : rows'[i].account = rows[i].account /\ (rows[i].revoked => rows'[i].revoked)
    BY <1>0, <1>7 DEF Elsewhere, Tick, SetAccountStatus, StatusSet, Row
  <2> QED
    BY <1>1, <2>1
<1>8. ASSUME rows' = rows PROVE Kept
  BY <1>1, <1>8
<1>9. Kept /\ Quiet
  <2>1. ASSUME NEW w \in Workers, SessionStep(w) PROVE Kept /\ Quiet
    BY <1>5, <1>6, <2>1 DEF SessionStep
  <2>2. ASSUME NEW w \in Workers, Respond(w) \/ GiveUp(w) PROVE Kept /\ Quiet
    BY <1>5, <1>8, <2>2 DEF Respond, GiveUp, Return, Abort, vars
  <2>3. ASSUME NEW w \in Workers, StartSession(w) \/ BindSession(w) PROVE Kept /\ Quiet
    BY <1>5, <1>8, <2>3 DEF StartSession, BindSession, GetOrCreate, Authenticate
  <2>4. ASSUME NEW w \in Workers, NEW token \in Tokens, OpenPage(w, token) PROVE Kept /\ Quiet
    BY <1>3, <2>4 DEF OpenPage, GetAuthenticated
  <2>5. CASE Elsewhere
    BY <1>5, <1>7, <2>5 DEF Elsewhere
  <2>6. CASE UNCHANGED pvars
    BY <1>5, <1>8, <2>6 DEF pvars, vars
  <2> HIDE DEF Kept, Quiet
  <2> QED
    BY <1>2, <1>4, <2>1, <2>2, <2>3, <2>4, <2>5, <2>6 DEF PortalNext
<1> QED
  BY <1>9 DEF Settled

\* DisabledSettles: once the sign-ins that had read the row before are over, no
\* request brings a session of a disabled account back.
THEOREM DisabledAtRest == PortalSpec => DisabledSettles
<1>1. PortalIInv /\ PortalIInv' /\ [PortalNext]_pvars =>
        [\A account \in Accounts :
            Settled(account) /\ status'[account] = "disabled" => Settled(account)']_pvars
  BY SettledStays
<1> QED
  BY <1>1, PortalInvariance, PTL DEF PortalSpec, DisabledSettles
=============================================================================
