------------------------------ MODULE AppSession ------------------------------
(***************************************************************************)
(* The session of the page: the access token is held twice, by the API       *)
(* client and by the App component, next to the profile and the browser's    *)
(* refresh cookie (api/client.ts, api/session.ts, App.tsx, the login form).  *)
(* Calls overlap, the server answers them in any order, and an answer is      *)
(* handled later still.  The n-th login or rotation issues access token n     *)
(* and refresh token n.                                                      *)
(***************************************************************************)
EXTENDS Naturals, Sequences, FiniteSets

CONSTANTS Users,
          NoUser,
          MaxIssued,     \* bound: tokens the server issues
          MaxCalls       \* bound: calls under way at a time

ASSUME AppSessionAssumption ==
    /\ Users # {} /\ NoUser \notin Users
    /\ MaxIssued \in Nat \ {0} /\ MaxCalls \in Nat

VARIABLES clientToken,   \* ApiClient.token
          appToken,      \* App: token
          profile,       \* App: profile
          isInitializing,
          loginForm,     \* the token of a login whose form is not done with it
          calls,         \* the API calls under way
          cookie,        \* the refresh token the browser holds
          owners,        \* server: the user of every issued token
          expired,       \* server: access tokens it does not take any more
          valid          \* server: refresh tokens it takes

pageVars == <<clientToken, appToken, profile, isInitializing, loginForm>>
serverVars == <<owners, expired, valid>>
appSessionVars == <<pageVars, calls, cookie, serverVars>>

NoToken == 0
Tokens == 0 .. MaxIssued
Kinds == {"refresh", "me", "search", "login", "logout"}
Answers == {"none", "ok", "unauthorized", "failed"}
\* `then' is the call that waits for a refresh, `result' the token or the owner
\* of the token that the answer is about.
Call == [kind : Kinds, then : Kinds \cup {"nothing"}, retry : BOOLEAN,
         user : Users \cup {NoUser}, token : Tokens, cookie : Tokens,
         answer : Answers, result : Tokens]

NewCall(kind, then, retry, user, token, c) ==
    [kind |-> kind, then |-> then, retry |-> retry, user |-> user,
     token |-> token, cookie |-> c, answer |-> "none", result |-> NoToken]
Refresh(then, c) == NewCall("refresh", then, TRUE, NoUser, clientToken, c)
Me(token, retry) == NewCall("me", "nothing", retry, NoUser, token, NoToken)

\* The page is loaded, with or without a cookie of an earlier visit; the App
\* tries to refresh at once.
AppSessionInit ==
    /\ \E u \in Users : owners = <<u>>
    /\ expired = {1}
    /\ valid \in {{}, {1}}
    /\ cookie \in {NoToken, 1}
    /\ clientToken = NoToken /\ appToken = NoToken /\ profile = NoUser
    /\ isInitializing = TRUE
    /\ loginForm = NoToken
    /\ calls = {NewCall("refresh", "nothing", TRUE, NoUser, NoToken, cookie)}

-----------------------------------------------------------------------------
(* What a handler does to the page.                                        *)

\* The token goes to both holders; a new one makes the App ask for the profile.
SetToken(n, rest) ==
    /\ clientToken' = n /\ appToken' = n
    /\ calls' = rest \cup (IF n # appToken THEN {Me(n, TRUE)} ELSE {})
    /\ UNCHANGED profile

ResetAuthState(rest) ==
    /\ appToken' = NoToken /\ profile' = NoUser
    /\ calls' = rest

\* The client forgets the token and nobody is told.
ForgetToken(rest) ==
    /\ clientToken' = NoToken
    /\ calls' = rest
    /\ UNCHANGED <<appToken, profile>>

\* this.token = null and onTokenExpired, which is handleSessionExpired.
SessionExpired(rest) ==
    /\ clientToken' = NoToken
    /\ ResetAuthState(rest)

-----------------------------------------------------------------------------
(* Calls are sent.                                                         *)

Send(c) == Cardinality(calls) < MaxCalls /\ calls' = calls \cup {c}

\* handleSearch stands for every authorised call that only shows its result.
Search ==
    /\ appToken # NoToken /\ profile # NoUser
    /\ Send(NewCall("search", "nothing", TRUE, NoUser, clientToken, NoToken))
    /\ UNCHANGED <<pageVars, cookie, serverVars>>

\* The socket was told that its token has expired.
SocketRefreshes ==
    /\ appToken # NoToken
    /\ Send(Refresh("nothing", cookie))
    /\ UNCHANGED <<pageVars, cookie, serverVars>>

Logout ==
    /\ appToken # NoToken
    /\ Send(NewCall("logout", "nothing", TRUE, NoUser, clientToken, cookie))
    /\ UNCHANGED <<pageVars, cookie, serverVars>>

\* The form is shown while there is no token; it submits once at a time.
Login == \E user \in Users :
    /\ ~isInitializing /\ appToken = NoToken
    /\ \A c \in calls : c.kind # "login"
    /\ Send(NewCall("login", "nothing", TRUE, user, clientToken, NoToken))
    /\ loginForm' = NoToken
    /\ UNCHANGED <<clientToken, appToken, profile, isInitializing,
                   cookie, serverVars>>

-----------------------------------------------------------------------------
(* The server takes a call.                                                *)

Answered(c, answer, result) ==
    calls' = (calls \ {c}) \cup {[c EXCEPT !.answer = answer, !.result = result]}

Issue(c, user, revoked) ==
    /\ Len(owners) < MaxIssued
    /\ owners' = Append(owners, user)
    /\ valid' = (valid \ revoked) \cup {Len(owners) + 1}
    /\ Answered(c, "ok", Len(owners) + 1)
    /\ UNCHANGED expired

Knows(c) == c.token # NoToken /\ c.token \notin expired

ServerAnswers == \E c \in calls :
    /\ c.answer = "none"
    /\ \/ c.kind = "refresh" /\ c.cookie \in valid
          /\ Issue(c, owners[c.cookie], {c.cookie})
       \/ c.kind = "login" /\ Issue(c, c.user, {})
       \/ /\ \/ c.kind = "refresh" /\ c.cookie \notin valid
             \/ c.kind \in {"me", "search"} /\ ~Knows(c)
          /\ Answered(c, "unauthorized", NoToken)
          /\ UNCHANGED serverVars
       \/ /\ c.kind \in {"me", "search"} /\ Knows(c)
          /\ Answered(c, "ok", c.token)
          /\ UNCHANGED serverVars
       \/ /\ c.kind = "logout"
          /\ expired' = expired \cup ({c.token} \ {NoToken})
          /\ valid' = valid \ {c.cookie}
          /\ Answered(c, "ok", NoToken)
          /\ UNCHANGED owners
       \/ Answered(c, "failed", NoToken) /\ UNCHANGED serverVars
    /\ UNCHANGED <<pageVars, cookie>>

TokenExpires == \E n \in DOMAIN owners \ expired :
    /\ expired' = expired \cup {n}
    /\ UNCHANGED <<pageVars, calls, cookie, owners, valid>>

-----------------------------------------------------------------------------
(* The page handles an answer.                                             *)

Handled(c, kind, answers) == c.kind = kind /\ c.answer \in answers

\* refreshAccessToken, and the call that waited for it is repeated once.
RefreshSucceeds == \E c \in calls :
    /\ Handled(c, "refresh", {"ok"})
    /\ cookie' = c.result
    /\ SetToken(c.result, (calls \ {c}) \cup
          (IF c.then = "nothing" THEN {}
           ELSE {NewCall(c.then, "nothing", FALSE, NoUser, c.result, NoToken)}))
    /\ isInitializing' = FALSE
    /\ UNCHANGED <<loginForm, serverVars>>

\* A refresh that is refused ends the session, and so does one that fails while
\* a call waits for it; the one that failed at the start leaves no session.
RefreshFails == \E c \in calls :
    /\ Handled(c, "refresh", {"unauthorized", "failed"})
    /\ IF c.answer = "unauthorized" \/ c.then # "nothing"
       THEN SessionExpired(calls \ {c})
       ELSE IF isInitializing
       THEN ResetAuthState(calls \ {c}) /\ UNCHANGED clientToken
       ELSE calls' = calls \ {c} /\ UNCHANGED <<clientToken, appToken, profile>>
    /\ isInitializing' = FALSE
    /\ UNCHANGED <<loginForm, cookie, serverVars>>

\* 401: the call is repeated after a refresh, if it was not repeated before and
\* the client holds a token by now.
CallUnauthorized == \E c \in calls :
    /\ c.kind \in {"me", "search"} /\ c.answer = "unauthorized"
    /\ IF c.retry /\ clientToken # NoToken
       THEN /\ calls' = (calls \ {c}) \cup {Refresh(c.kind, cookie)}
            /\ UNCHANGED <<clientToken, appToken, profile>>
       ELSE SessionExpired(calls \ {c})
    /\ UNCHANGED <<isInitializing, loginForm, cookie, serverVars>>

\* The answer is shown in whatever session there is by then.
ProfileArrives == \E c \in calls :
    /\ Handled(c, "me", {"ok"})
    /\ profile' = owners[c.result]
    /\ calls' = calls \ {c}
    /\ UNCHANGED <<clientToken, appToken, isInitializing, loginForm,
                   cookie, serverVars>>

\* The error is shown and the session goes on.
ProfileFailsWithToast == \E c \in calls :
    /\ Handled(c, "me", {"failed"})
    /\ calls' = calls \ {c}
    /\ UNCHANGED <<pageVars, cookie, serverVars>>

ProfileFails == \E c \in calls :
    /\ Handled(c, "me", {"failed"})
    /\ ResetAuthState(calls \ {c})
    /\ UNCHANGED <<clientToken, isInitializing, loginForm, cookie,
                   serverVars>>

SearchDone == \E c \in calls :
    /\ Handled(c, "search", {"ok", "failed"})
    /\ calls' = calls \ {c}
    /\ UNCHANGED <<pageVars, cookie, serverVars>>

LogoutDone == \E c \in calls :
    /\ Handled(c, "logout", {"ok", "failed"})
    /\ SessionExpired(calls \ {c})
    /\ cookie' = IF c.answer = "ok" THEN NoToken ELSE cookie
    /\ UNCHANGED <<isInitializing, loginForm, serverVars>>

\* The form gives the token to the client and goes on to the identity key.
LoginAnswered == \E c \in calls :
    /\ Handled(c, "login", {"ok", "failed"})
    /\ IF c.answer = "ok"
       THEN clientToken' = c.result /\ loginForm' = c.result /\ cookie' = c.result
       ELSE UNCHANGED <<clientToken, loginForm, cookie>>
    /\ calls' = calls \ {c}
    /\ UNCHANGED <<appToken, profile, isInitializing, serverVars>>

\* onAuthenticated.
LoginDone ==
    /\ loginForm # NoToken
    /\ SetToken(loginForm, calls)
    /\ loginForm' = NoToken
    /\ UNCHANGED <<isInitializing, cookie, serverVars>>

AppSessionNext ==
    \/ Search \/ SocketRefreshes \/ Logout \/ Login
    \/ ServerAnswers \/ TokenExpires
    \/ RefreshSucceeds \/ RefreshFails \/ CallUnauthorized
    \/ ProfileArrives \/ ProfileFails \/ SearchDone \/ LogoutDone
    \/ LoginAnswered \/ LoginDone

AppSessionSpec == AppSessionInit /\ [][AppSessionNext]_appSessionVars

-----------------------------------------------------------------------------
\* The type invariant: the state of App, of the API client and of the server.
AppSessionTypeOK ==
    /\ {clientToken, appToken, cookie, loginForm} \subseteq 0 .. Len(owners)
    /\ profile \in Users \cup {NoUser}
    /\ isInitializing \in BOOLEAN
    /\ calls \subseteq Call
    /\ owners \in Seq(Users) /\ Len(owners) <= MaxIssued
    /\ valid \cup expired \subseteq DOMAIN owners

\* While the App shows a session the API client holds the very same token,
\* whatever calls were refused, refreshed and repeated meanwhile; only a login
\* form that is between its two steps may differ.
TokensAgree == (appToken # NoToken /\ loginForm = NoToken) => clientToken = appToken

\* The App with a session and no profile, in which nothing can be done, is on
\* its way to one: the call for the profile of this very token is under way, or a
\* refresh that will repeat it is, whatever was refused, failed, refreshed or
\* ended meanwhile (App.tsx 135-171, api/client.ts 58-146).
ProfileIsComing ==
    (appToken # NoToken /\ profile = NoUser) =>
        \E c \in calls : (c.kind = "me" /\ c.token = appToken) \/ c.then = "me"
=============================================================================
