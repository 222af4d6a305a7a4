------------------------------- MODULE Portal -------------------------------
(***************************************************************************)
(* The public portal as web/Interface.py wires it: which SessMgr calls a   *)
(* request makes, in which order, and with what the request knows.  It     *)
(* composes mgr/AcctMgr.py and the AppMgr handlers that sign an account in *)
(* with Sessions, beside the administrator's service.                      *)
(*                                                                         *)
(* A sign-in reads the account, verifies the password for a long time, and *)
(* then acts on what it read; the administrator may disable the account in *)
(* between.  SessMgr.revoke and SessionMiddleware are not wired, so a      *)
(* session is only ever created and logged in by the request it serves.    *)
(***************************************************************************)
EXTENDS Sessions

VARIABLE task      \* the request each worker serves, around its SessMgr calls

pvars == <<vars, task>>

\* stage "verify": the account row is read, the password is being verified;
\* "signin": the request may sign `account` in; "page": an authenticated route.
Task == [stage : {"none", "verify", "signin", "page"},
         account : Accounts \cup {None},
         seen : {"none", "active", "disabled"}]

NoTask == [stage |-> "none", account |-> None, seen |-> "none"]

PortalInit ==
    /\ Init
    /\ task = [w \in Workers |-> NoTask]

\* AcctMgr.authenticate up to the row it reads with find_login_account.  For a
\* name without a row the answer is 401 and nothing changes.
LoginReads(w, account) ==
    /\ task[w] = NoTask
    /\ status[account] # "none"
    /\ task' = [task EXCEPT ![w] = [stage |-> "verify", account |-> account,
                                    seen |-> status[account]]]
    /\ UNCHANGED vars

\* A slip that would break DisabledSettles: the status is not looked at.
LoginVerifiedPasswordOnly(w) ==
    /\ task[w].stage = "verify"
    /\ task' = [task EXCEPT ![w].stage = "signin"]
    /\ UNCHANGED vars

\* The password is right and the row that was read is active.
LoginVerified(w) ==
    /\ task[w].stage = "verify"
    /\ task[w].seen = "active"
    /\ task' = [task EXCEPT ![w].stage = "signin"]
    /\ UNCHANGED vars

\* AppMgr.new_account: the row is committed before a session is begun.  A
\* username or wallet that is taken answers 409 and changes nothing.
SignUp(w, account) ==
    /\ task[w] = NoTask
    /\ CreateUser(account)
    /\ task' = [task EXCEPT ![w] = [stage |-> "signin", account |-> account,
                                    seen |-> "active"]]

\* A slip that would break AnonymousStaysPrivate: the cookie the request came
\* with is sent back before the login.
StartSessionAndSend(w) ==
    /\ task[w].stage = "signin"
    /\ \/ GetOrCreate(w, None)
       \/ Return(w)
    /\ UNCHANGED task

\* UserSession.authenticate, first half: sessions.get_or_create(None).
StartSession(w) ==
    /\ task[w].stage = "signin"
    /\ GetOrCreate(w, None)
    /\ UNCHANGED task

\* UserSession.authenticate, second half.
BindSession(w) ==
    /\ task[w].stage = "signin"
    /\ Authenticate(w, task[w].account)
    /\ UNCHANGED task

\* An authenticated route: UserSession.resolve with the request's cookie.
OpenPage(w, token) ==
    /\ task[w] = NoTask
    /\ GetAuthenticated(w, token)
    /\ task' = [task EXCEPT ![w].stage = "page"]

\* A statement of SessMgr under way; when it ends the call without a session
\* the request is over, with a redirect to /login or an error.
SessionStep(w) ==
    /\ \/ FindMisses(w)
       \/ FindHits(w)
       \/ TouchHits(w)
       \/ TouchMisses(w)
       \/ Create(w)
       \/ RotateHits(w)
       \/ RotateMisses(w)
    /\ task' = IF calls'[w].pc = "idle" THEN [task EXCEPT ![w] = NoTask] ELSE task

\* A slip that would break UsesSessions: the new token is sent without waiting
\* for the rotation to succeed.
RespondUnrotated(w) ==
    /\ calls[w].pc = "rotate"
    /\ cookies' = cookies \cup {calls[w].fresh}
    /\ calls' = [calls EXCEPT ![w] = NoCall]
    /\ UNCHANGED <<clock, status, rows, issued>>
    /\ task' = [task EXCEPT ![w] = NoTask]

\* The response: a sign-in sends the rotated token in Set-Cookie; a page sends
\* none, and its client has the token already.
Respond(w) ==
    /\ calls[w].authenticated
    /\ Return(w)
    /\ task' = [task EXCEPT ![w] = NoTask]

\* The request ends early: a wrong password or a disabled account (401), an
\* error of the database, or the end of the process.
GiveUp(w) ==
    /\ task[w] # NoTask
    /\ Abort(w) \/ (calls[w].pc = "idle" /\ UNCHANGED vars)
    /\ task' = [task EXCEPT ![w] = NoTask]

\* The administrator's service, and time.
Elsewhere ==
    /\ \/ \E account \in Accounts : \E new \in {"active", "disabled"} :
             SetAccountStatus(account, new)
       \/ Tick
    /\ UNCHANGED task

PortalNext ==
    \/ \E w \in Workers : \E account \in Accounts :
          LoginReads(w, account) \/ SignUp(w, account)
    \/ \E w \in Workers : \E token \in Tokens : OpenPage(w, token)
    \/ \E w \in Workers :
          LoginVerified(w) \/ StartSession(w) \/ BindSession(w)
    \/ \E w \in Workers : SessionStep(w)
    \/ \E w \in Workers : Respond(w) \/ GiveUp(w)
    \/ Elsewhere

PortalSpec == PortalInit /\ [][PortalNext]_pvars

-----------------------------------------------------------------------------
PortalTypeOK == TypeOK /\ task \in [Workers -> Task]

\* No client ever knows the token of a session that is not logged in: the one
\* a sign-in creates is private to its request until it is rotated, so nobody
\* can plant a session or race the rotation.
AnonymousStaysPrivate ==
    /\ \A id \in DOMAIN rows :
          ~rows[id].authenticated => rows[id].token \notin cookies
    /\ \A w \in Workers : task[w].stage = "signin" /\ calls[w].pc = "rotate" =>
          /\ rows[calls[w].id].token = calls[w].token
          /\ ~rows[calls[w].id].revoked
    /\ \A v, w \in Workers :
          /\ v # w
          /\ task[v].stage = "signin" /\ calls[v].pc \in {"held", "rotate"}
          /\ task[w].stage = "signin" /\ calls[w].pc \in {"held", "rotate"}
          => calls[v].id # calls[w].id

\* A sign-in of an account that has seen it active and is not over.
SigningIn(w, account) ==
    /\ task[w].account = account
    /\ \/ task[w].stage = "verify" /\ task[w].seen = "active"
       \/ task[w].stage = "signin"

\* The account is disabled, its sessions are revoked, and no sign-in that began
\* before is still under way.
Settled(account) ==
    /\ status[account] = "disabled"
    /\ \A id \in DOMAIN rows :
          rows[id].account = account => rows[id].revoked
    /\ \A w \in Workers : ~SigningIn(w, account)

\* Nothing a client or a worker can do takes a disabled account out of that
\* condition: only the administrator, by enabling it, does.
DisabledSettles ==
    [][\A account \in Accounts :
          Settled(account) /\ status'[account] = "disabled" =>
              Settled(account)']_pvars

\* The portal uses sessions as SessMgr offers them, so what is proved of every
\* use of SessMgr holds of the portal.
UsesSessions == Spec

\* admin/templates/edit-account.html:25, "Existing sessions are revoked when an
\* account is disabled": a disabled account has no session left that is not
\* revoked.  A sign-in that read the row before creates one afterwards.
DisabledMeansRevoked ==
    \A id \in DOMAIN rows :
        rows[id].account # None /\ status[rows[id].account] = "disabled" =>
            rows[id].revoked
=============================================================================
