------------------------------ MODULE Session ------------------------------
(***************************************************************************)
(* Signing in and out: the API's AuthService with its counter of failed     *)
(* attempts, and the page's session (page.tsx): its token, its user, the    *)
(* session cookie and the refresh that follows a sign-in.  Console composes *)
(* these actions with the page's forms.                                     *)
(* A definition named <name>_<change> is an altered form of <name>, used by *)
(* no action: see Payments.                                                *)
(*                                                                         *)
(* A task is an asynchronous function of the page between its start and its *)
(* end.  It holds the token and the month that the page had when it began;  *)
(* every await lets other tasks and the user's clicks in.                   *)
(***************************************************************************)
EXTENDS Naturals, FiniteSets

CONSTANTS
    Users,        \* accounts that may sign in
    Tokens,       \* access tokens that are ever issued
    Tasks,        \* the page's asynchronous functions in flight
    Months,       \* billing periods that the page can show
    MaxFailures,  \* MAX_LOGIN_FAILURES
    MaxBusy,      \* bound: clicks made while the page works
    None          \* no token, no user, no cookie

ASSUME SessionAssumption ==
    /\ None \notin Users \cup Tokens
    /\ None \notin [token : Tokens, user : Users]
    /\ MaxFailures \in Nat \ {0}
    /\ MaxBusy \in Nat
    /\ IsFiniteSet(Tasks)

VARIABLES
    owner,    \* API: whom a token was issued to
    expired,  \* API: tokens that the guard accepts no more
    failure,  \* API: the failed attempts of an account, and their age
    token,    \* page: the token in use
    user,     \* page: the user on display
    cookie,   \* page: the session that a reload restores
    month,    \* page: the billing period chosen
    task,     \* page: the functions in flight
    busy      \* clicks made while the page was at work

sessionVars == <<owner, expired, failure, token, user, cookie, month, task, busy>>

Idle == [op |-> "idle"]

Calm == \A t \in Tasks : task[t] = Idle

(* The user has always waited for the page.                                *)
Quiet == busy = 0

Click ==
    \/ Calm /\ UNCHANGED busy
    \/ ~Calm /\ busy < MaxBusy /\ busy' = busy + 1

Start(t, first) ==
    /\ task[t] = Idle
    /\ task' = [task EXCEPT ![t] = first]
    /\ Click

Goes(t, next) == task' = [task EXCEPT ![t] = next]

(* isLoggedIn.                                                             *)
LoggedIn == token # None /\ user # None

NoFailure == [count |-> 0, old |-> FALSE]

-----------------------------------------------------------------------------
(* AuthService.                                                            *)

(* The button is shown while nobody is signed in.                          *)
SubmitLogin(t, u, right) ==
    /\ ~LoggedIn
    /\ Start(t, [op |-> "login", at |-> "check", by |-> u, right |-> right,
                 month |-> month])
    /\ UNCHANGED <<owner, expired, failure, token, user, cookie, month>>

(* Altered: a locked account may go on.                                    *)
AssertLoginAllowed_Locked(t) ==
    /\ task[t].op = "login"
    /\ task[t].at = "check"
    /\ Goes(t, [task[t] EXCEPT !.at = "compare"])
    /\ UNCHANGED <<owner, expired, failure, token, user, cookie, month, busy>>

(* A locked account is refused; a record whose window is over is dropped.   *)
AssertLoginAllowed(t) ==
    LET u == task[t].by
    IN /\ task[t].op = "login"
       /\ task[t].at = "check"
       /\ Goes(t, IF failure[u].count >= MaxFailures THEN Idle
                  ELSE [task[t] EXCEPT !.at = "compare"])
       /\ failure' = IF failure[u].count < MaxFailures /\ failure[u].old
                     THEN [failure EXCEPT ![u] = NoFailure] ELSE failure
       /\ UNCHANGED <<owner, expired, token, user, cookie, month, busy>>

(* recordFailedLogin: the window starts with the first failure.            *)
Failed(record) ==
    [count |-> IF record.old THEN 1 ELSE record.count + 1, old |-> FALSE]

(* The password has been compared since the check.                         *)
Compare(t) ==
    LET u == task[t].by
    IN /\ task[t].op = "login"
       /\ task[t].at = "compare"
       /\ UNCHANGED <<expired, token, user, cookie, month, busy>>
       /\ \/ /\ ~task[t].right
             /\ failure' = [failure EXCEPT ![u] = Failed(@)]
             /\ Goes(t, Idle)
             /\ UNCHANGED owner
          \/ /\ task[t].right
             /\ failure' = [failure EXCEPT ![u] = NoFailure]
             /\ \E k \in Tokens :
                  /\ owner[k] = None
                  /\ owner' = [owner EXCEPT ![k] = u]
                  /\ Goes(t, [op |-> "login", at |-> "answer", by |-> u, token |-> k,
                              month |-> task[t].month])

(* The window of the first failure, then the lock of the last, is over.     *)
WindowEnds(u) ==
    /\ failure[u].count > 0
    /\ failure' = [failure EXCEPT ![u] =
         IF @.old \/ @.count < MaxFailures THEN NoFailure ELSE [@ EXCEPT !.old = TRUE]]
    /\ UNCHANGED <<owner, expired, token, user, cookie, month, task, busy>>

(* The token's time is over, or its user has been switched off or deleted.  *)
Expire(k) ==
    /\ owner[k] # None
    /\ k \notin expired
    /\ expired' = expired \cup {k}
    /\ UNCHANGED <<owner, failure, token, user, cookie, month, task, busy>>

-----------------------------------------------------------------------------
(* The page's session.                                                     *)

Cookie(k, u) == [token |-> k, user |-> u]

LoginAnswer(t) ==
    /\ task[t].op = "login"
    /\ task[t].at = "answer"
    /\ cookie' = Cookie(task[t].token, task[t].by)
    /\ token' = task[t].token
    /\ user' = task[t].by
    /\ Goes(t, [op |-> "refresh", at |-> "me", token |-> task[t].token,
                month |-> task[t].month])
    /\ UNCHANGED <<owner, expired, failure, month, busy>>

(* Altered: the cookie stays.                                              *)
ResetSession_CookieStays ==
    /\ token' = None
    /\ user' = None
    /\ cookie' = cookie

ResetSession ==
    /\ token' = None
    /\ user' = None
    /\ cookie' = None

(* logout, also while tasks are in flight: nothing stops them.             *)
Logout ==
    /\ LoggedIn
    /\ ResetSession
    /\ Click
    /\ UNCHANGED <<owner, expired, failure, month, task>>

Refresh(t) ==
    /\ token # None
    /\ Start(t, [op |-> "refresh", at |-> "me", token |-> token, month |-> month])
    /\ UNCHANGED <<owner, expired, failure, token, user, cookie, month>>

ChangeMonth(m) ==
    /\ month' = m
    /\ Click
    /\ UNCHANGED <<owner, expired, failure, token, user, cookie, task>>

(* refresh, /auth/me: what the answer says is shown and kept, whatever the  *)
(* session has become meanwhile.                                           *)
Me(t) ==
    /\ task[t].op \in {"refresh", "action"}
    /\ task[t].at = "me"
    /\ task[t].token \notin expired
    /\ user' = owner[task[t].token]
    /\ cookie' = Cookie(task[t].token, owner[task[t].token])
    /\ Goes(t, [task[t] EXCEPT !.at = "data"])
    /\ UNCHANGED <<owner, expired, failure, token, month, busy>>

(* Any request with a token that the guard refuses.                        *)
Unauthorized(t) ==
    /\ task[t].op \in {"refresh", "action", "view"}
    /\ task[t].at \in {"me", "data", "presign", "request", "list", "preview"}
    /\ task[t].token \in expired
    /\ ResetSession
    /\ Goes(t, Idle)
    /\ UNCHANGED <<owner, expired, failure, month, busy>>

(* A reload ends the tasks; the cookie's session is taken up again.        *)
Reload(t, m) ==
    /\ token' = IF cookie = None THEN None ELSE cookie.token
    /\ user' = IF cookie = None THEN None ELSE cookie.user
    /\ month' = m
    /\ task' = [s \in Tasks |->
         IF s = t /\ cookie # None
         THEN [op |-> "refresh", at |-> "me", token |-> cookie.token, month |-> m]
         ELSE Idle]
    /\ UNCHANGED <<owner, expired, failure, cookie, busy>>
=============================================================================
