---------------------------- MODULE RefreshTokens ----------------------------
(***************************************************************************)
(* The refresh tokens of one user: AuthService.RefreshAccessToken, Login,  *)
(* RevokeRefreshToken (auth_service.go), RefreshTokenRotator,              *)
(* RefreshTokenCache, the transactions and queries of the repository       *)
(* package, and the hourly cleanup.                                        *)
(*                                                                         *)
(* HTTP requests run concurrently; the rows live in PostgreSQL (READ       *)
(* COMMITTED, row locks), the cache in the process, which may restart.     *)
(* A token is named by the order of its created_at.  Time is abstracted:   *)
(* a token, or a cache entry, may expire at any moment.                    *)
(***************************************************************************)
EXTENDS Integers, FiniteSets

CONSTANTS
    Requests,     \* HTTP requests that may be in progress at once
    MaxTokens,    \* maxRefreshTokens of the rotator
    TokenLimit,   \* bound: tokens created
    Faulty        \* whether database calls may fail and the process restart

ASSUME TokensAssumption ==
    /\ IsFiniteSet(Requests)
    /\ MaxTokens \in Nat \ {0} /\ TokenLimit \in Nat \ {0}
    /\ Faulty \in BOOLEAN

VARIABLES
    rows,       \* table refresh_tokens, as committed
    cache,      \* RefreshTokenCache.cache
    stamp,      \* the newest created_at
    handed,     \* tokens clients have been given
    expired,    \* tokens past expires_at
    spent,      \* tokens exchanged, or deleted by a revocation
    loggedOut,  \* tokens a logout has been answered for
    lost,       \* tokens whose deletion was lost in a failed commit
    busiest,    \* the most requests that have been issuing tokens at once
    pc, tok, hit, doomed, new,
    late        \* what had become of the token when the request began

tableVars == <<rows, stamp>>
clientVars == <<handed, expired, spent, loggedOut, lost, busiest>>
requestVars == <<pc, tok, hit, doomed, new, late>>
vars == <<tableVars, cache, clientVars, requestVars>>

Tokens == 1..TokenLimit
NoToken == 0

TypeOK ==
    /\ rows \in SUBSET Tokens /\ cache \in SUBSET Tokens
    /\ stamp \in Tokens
    /\ handed \in SUBSET Tokens /\ expired \in SUBSET Tokens
    /\ spent \in SUBSET Tokens /\ loggedOut \in SUBSET Tokens
    /\ lost \in SUBSET Tokens /\ busiest \in Nat
    /\ pc \in [Requests -> {"idle", "lookup", "select", "delete", "commit",
                            "succeed", "fail", "rotate", "evict", "create",
                            "find", "revoke", "forget"}]
    /\ tok \in [Requests -> Tokens \cup {NoToken}]
    /\ new \in [Requests -> Tokens \cup {NoToken}]
    /\ hit \in [Requests -> BOOLEAN]
    /\ doomed \in [Requests -> SUBSET Tokens]
    /\ late \in [Requests -> SUBSET {"expired", "spent", "loggedOut"}]

\* The user has registered and holds a first token.
Init ==
    /\ rows = {1} /\ stamp = 1 /\ cache = {}
    /\ handed = {1} /\ expired = {} /\ spent = {} /\ loggedOut = {}
    /\ lost = {} /\ busiest = 0
    /\ pc = [r \in Requests |-> "idle"]
    /\ tok = [r \in Requests |-> NoToken]
    /\ new = [r \in Requests |-> NoToken]
    /\ hit = [r \in Requests |-> FALSE]
    /\ doomed = [r \in Requests |-> {}]
    /\ late = [r \in Requests |-> {}]

----------------------------------------------------------------------------
\* The row lock of SELECT ... FOR UPDATE, or of DELETE, until the transaction
\* of request r ends.
Holds(r, t) ==
    /\ tok[r] = t /\ t \in rows
    /\ pc[r] = "commit" \/ (pc[r] = "delete" /\ ~hit[r])

LockFree(r, t) == \A s \in Requests \ {r} : ~Holds(s, t)

\* Mutant: one token more survives the rotation.
ExcessOffByOne == {t \in rows : Cardinality({s \in rows : s > t}) > MaxTokens}

\* DELETE ... NOT IN (... ORDER BY created_at DESC LIMIT MaxTokens)
Excess == {t \in rows : Cardinality({s \in rows : s > t}) >= MaxTokens}

Goto(r, label) == pc' = [pc EXCEPT ![r] = label]

\* Bound: every request in progress can still create its token.
MayCreate ==
    stamp + Cardinality({r \in Requests :
        pc[r] \notin {"idle", "create", "find", "revoke", "forget"}}) < TokenLimit

\* issueTokens begins.
Issuing == {r \in Requests : pc[r] \in {"rotate", "evict", "create"}}
EnterIssue(r) ==
    /\ Goto(r, "rotate")
    /\ busiest' = IF busiest > Cardinality(Issuing)
                  THEN busiest ELSE Cardinality(Issuing) + 1

\* The request is answered: nothing of it stays behind.
Answer(r) ==
    /\ Goto(r, "idle")
    /\ tok' = [tok EXCEPT ![r] = NoToken]
    /\ new' = [new EXCEPT ![r] = NoToken]
    /\ hit' = [hit EXCEPT ![r] = FALSE]
    /\ doomed' = [doomed EXCEPT ![r] = {}]
    /\ late' = [late EXCEPT ![r] = {}]

----------------------------------------------------------------------------
\* RefreshAccessToken

RefreshStart(r, t) ==
    /\ pc[r] = "idle" /\ t \in handed /\ MayCreate
    /\ Goto(r, "lookup")
    /\ tok' = [tok EXCEPT ![r] = t]
    /\ late' = [late EXCEPT ![r] =
           {reason \in {"expired", "spent", "loggedOut"} :
               t \in CASE reason = "expired" -> expired
                       [] reason = "spent" -> spent
                       [] reason = "loggedOut" -> loggedOut}]
    /\ UNCHANGED <<tableVars, cache, clientVars, hit, doomed, new>>

\* The cached token spares the query, unless the token itself has expired.
RefreshLookup(r) ==
    /\ pc[r] = "lookup"
    /\ hit' = [hit EXCEPT ![r] = tok[r] \in cache \ expired]
    /\ cache' = cache \ ({tok[r]} \cap expired)
    /\ Goto(r, IF tok[r] \in cache \ expired THEN "delete" ELSE "select")
    /\ UNCHANGED <<tableVars, clientVars, tok, doomed, new, late>>

\* Mutant: the row's expires_at is not looked at.
RefreshSelectUnchecked(r) ==
    /\ pc[r] = "select" /\ LockFree(r, tok[r])
    /\ IF tok[r] \in rows
       THEN Goto(r, "delete") /\ cache' = cache \cup {tok[r]}
       ELSE Goto(r, "fail") /\ UNCHANGED cache
    /\ UNCHANGED <<tableVars, clientVars, tok, hit, doomed, new, late>>

\* An expired row is deleted, but the error then rolls the deletion back.
RefreshSelect(r) ==
    /\ pc[r] = "select" /\ LockFree(r, tok[r])
    /\ IF tok[r] \in rows \ expired
       THEN Goto(r, "delete") /\ cache' = cache \cup {tok[r]}
       ELSE /\ Goto(r, "fail")
            /\ cache' = cache \ (rows \cap {tok[r]})
    /\ UNCHANGED <<tableVars, clientVars, tok, hit, doomed, new, late>>

\* Deleting no row is no error.
RefreshDelete(r) ==
    /\ pc[r] = "delete" /\ LockFree(r, tok[r])
    /\ Goto(r, "commit")
    /\ UNCHANGED <<tableVars, cache, clientVars, tok, hit, doomed, new, late>>

RefreshCommit(r) ==
    /\ pc[r] = "commit"
    /\ rows' = rows \ {tok[r]}
    /\ Goto(r, "succeed")
    /\ UNCHANGED <<stamp, cache, clientVars, tok, hit, doomed, new, late>>

\* WithTx assigns the error of Commit to a variable nobody returns any more.
RefreshCommitFails(r) ==
    /\ Faulty /\ pc[r] = "commit"
    /\ lost' = lost \cup (rows \cap {tok[r]})
    /\ Goto(r, "succeed")
    /\ UNCHANGED <<tableVars, cache, handed, expired, spent, loggedOut, busiest,
                   tok, hit, doomed, new, late>>

\* The breaker is open, a query fails or times out: the rollback keeps the row.
RefreshTxFails(r) ==
    /\ Faulty /\ pc[r] \in {"select", "delete"}
    /\ Goto(r, "fail")
    /\ UNCHANGED <<tableVars, cache, clientVars, tok, hit, doomed, new, late>>

\* Mutant: Invalidate after the error return, so only when the exchange succeeds.
RefreshForgetsSuccesses(r) ==
    /\ pc[r] \in {"succeed", "fail"}
    /\ IF pc[r] = "succeed"
       THEN /\ EnterIssue(r)
            /\ cache' = cache \ {tok[r]}
            /\ spent' = spent \cup {tok[r]}
            /\ hit' = [hit EXCEPT ![r] = FALSE]
            /\ UNCHANGED <<tok, doomed, new, late>>
       ELSE Answer(r) /\ UNCHANGED <<cache, spent, busiest>>
    /\ UNCHANGED <<tableVars, handed, expired, loggedOut, lost>>

RefreshInvalidate(r) ==
    /\ pc[r] \in {"succeed", "fail"}
    /\ cache' = cache \ {tok[r]}
    /\ IF pc[r] = "succeed"
       THEN /\ EnterIssue(r)
            /\ spent' = spent \cup {tok[r]}
            /\ hit' = [hit EXCEPT ![r] = FALSE]
            /\ UNCHANGED <<tok, doomed, new, late>>
       ELSE Answer(r) /\ UNCHANGED <<spent, busiest>>
    /\ UNCHANGED <<tableVars, handed, expired, loggedOut, lost>>

----------------------------------------------------------------------------
\* issueTokens: RotateIfNeeded, then Create

Login(r) ==
    /\ pc[r] = "idle" /\ MayCreate
    /\ EnterIssue(r)
    /\ UNCHANGED <<tableVars, cache, handed, expired, spent, loggedOut, lost,
                   tok, hit, doomed, new, late>>

\* The statement picks its rows, then waits for those that are locked.
RotateSelect(r) ==
    /\ pc[r] = "rotate"
    /\ doomed' = [doomed EXCEPT ![r] = Excess]
    /\ Goto(r, "evict")
    /\ UNCHANGED <<tableVars, cache, clientVars, tok, hit, new, late>>

RotateDelete(r) ==
    /\ pc[r] = "evict"
    /\ \A t \in doomed[r] : LockFree(r, t)
    /\ rows' = rows \ doomed[r]
    /\ stamp' = stamp + 1
    /\ new' = [new EXCEPT ![r] = stamp + 1]
    /\ doomed' = [doomed EXCEPT ![r] = {}]
    /\ Goto(r, "create")
    /\ UNCHANGED <<cache, clientVars, tok, hit, late>>

Create(r) ==
    /\ pc[r] = "create"
    /\ rows' = rows \cup {new[r]}
    /\ handed' = handed \cup {new[r]}
    /\ Answer(r)
    /\ UNCHANGED <<stamp, cache, expired, spent, loggedOut, lost, busiest>>

\* The answer is an error, although a statement that timed out may be done.
IssueFails(r) ==
    /\ Faulty /\ pc[r] \in {"rotate", "evict", "create"}
    /\ \/ UNCHANGED rows
       \/ /\ pc[r] = "evict" /\ \A t \in doomed[r] : LockFree(r, t)
          /\ rows' = rows \ doomed[r]
       \/ pc[r] = "create" /\ rows' = rows \cup {new[r]}
    /\ Answer(r)
    /\ UNCHANGED <<stamp, cache, clientVars>>

----------------------------------------------------------------------------
\* logout: RevokeRefreshToken, whose errors the handler only logs

\* Mutant: logout goes on without a refresh cookie.
LogoutWithoutCookie(r, t) ==
    /\ pc[r] = "idle" /\ t \in handed
    /\ Goto(r, "find")
    /\ UNCHANGED <<tableVars, cache, clientVars, tok, hit, doomed, new, late>>

LogoutStart(r, t) ==
    /\ pc[r] = "idle" /\ t \in handed
    /\ Goto(r, "find")
    /\ tok' = [tok EXCEPT ![r] = t]
    /\ UNCHANGED <<tableVars, cache, clientVars, hit, doomed, new, late>>

LogoutAnswer(r) ==
    /\ loggedOut' = loggedOut \cup {tok[r]}
    /\ Answer(r)

\* A token without a row is taken to be revoked.
RevokeFind(r) ==
    /\ pc[r] = "find"
    /\ IF tok[r] \in rows
       THEN /\ Goto(r, "revoke")
            /\ UNCHANGED <<tok, hit, doomed, new, late, loggedOut>>
       ELSE LogoutAnswer(r)
    /\ UNCHANGED <<tableVars, cache, handed, expired, spent, lost, busiest>>

RevokeDelete(r) ==
    /\ pc[r] = "revoke" /\ LockFree(r, tok[r])
    /\ rows' = rows \ {tok[r]}
    /\ Goto(r, "forget")
    /\ UNCHANGED <<stamp, cache, clientVars, tok, hit, doomed, new, late>>

RevokeInvalidate(r) ==
    /\ pc[r] = "forget"
    /\ cache' = cache \ {tok[r]}
    /\ spent' = spent \cup {tok[r]}
    /\ LogoutAnswer(r)
    /\ UNCHANGED <<tableVars, handed, expired, lost, busiest>>

\* The row may be gone, but then the cache has not been told.
RevokeFails(r) ==
    /\ Faulty /\ pc[r] \in {"find", "revoke"}
    /\ \/ UNCHANGED rows
       \/ /\ pc[r] = "revoke" /\ LockFree(r, tok[r])
          /\ rows' = rows \ {tok[r]}
    /\ LogoutAnswer(r)
    /\ UNCHANGED <<stamp, cache, handed, expired, spent, lost, busiest>>

----------------------------------------------------------------------------
TokenExpires(t) ==
    /\ t \in handed \ expired
    /\ expired' = expired \cup {t}
    /\ UNCHANGED <<tableVars, cache, handed, spent, loggedOut, lost, busiest,
                   requestVars>>

\* Get after RefreshTokenCacheTTL, or the ticker of cleanup.
CacheEntryExpires(t) ==
    /\ t \in cache
    /\ cache' = cache \ {t}
    /\ UNCHANGED <<tableVars, clientVars, requestVars>>

\* StartCleanup: DELETE ... WHERE expires_at < NOW()
DeleteExpired ==
    /\ rows \cap expired # {}
    /\ \A t \in rows \cap expired, r \in Requests : ~Holds(r, t)
    /\ rows' = rows \ expired
    /\ UNCHANGED <<stamp, cache, clientVars, requestVars>>

\* Transactions in progress roll back; nobody gets an answer.
Restart ==
    /\ Faulty
    /\ cache' = {}
    /\ pc' = [r \in Requests |-> "idle"]
    /\ tok' = [r \in Requests |-> NoToken]
    /\ new' = [r \in Requests |-> NoToken]
    /\ hit' = [r \in Requests |-> FALSE]
    /\ doomed' = [r \in Requests |-> {}]
    /\ late' = [r \in Requests |-> {}]
    /\ UNCHANGED <<tableVars, clientVars>>

RefreshStep(r) ==
    \/ \E t \in Tokens : RefreshStart(r, t)
    \/ RefreshLookup(r)
    \/ RefreshSelect(r)
    \/ RefreshDelete(r)
    \/ RefreshCommit(r)
    \/ RefreshCommitFails(r)
    \/ RefreshTxFails(r)
    \/ RefreshInvalidate(r)

IssueStep(r) ==
    \/ Login(r)
    \/ RotateSelect(r)
    \/ RotateDelete(r)
    \/ Create(r)
    \/ IssueFails(r)

LogoutStep(r) ==
    \/ \E t \in Tokens : LogoutStart(r, t)
    \/ RevokeFind(r)
    \/ RevokeDelete(r)
    \/ RevokeInvalidate(r)
    \/ RevokeFails(r)

Next ==
    \/ \E r \in Requests : RefreshStep(r) \/ IssueStep(r) \/ LogoutStep(r)
    \/ \E t \in Tokens : TokenExpires(t) \/ CacheEntryExpires(t)
    \/ DeleteExpired
    \/ Restart

Spec == Init /\ [][Next]_vars

----------------------------------------------------------------------------
(***************************************************************************)
(* Properties                                                              *)
(***************************************************************************)
\* The token of request r is accepted: new tokens are being issued for it.
Exchanged(r) == pc[r] \in {"rotate", "evict", "create"} /\ tok[r] # NoToken

\* A token that had been exchanged or revoked, or had expired, before a
\* request began is never accepted from that request, whatever the cache
\* holds; the exception is a deletion that a failed commit has lost.
StaleTokensAreRefused == \A r \in Requests :
    Exchanged(r) => late[r] \cap {"expired", "spent"} = {} \/ tok[r] \in lost

\* A token is only cached while the request that cached it goes on: the entry
\* is gone when the exchange has succeeded or failed, also after a restart.
CachedWhileExchanged == \A t \in cache : \E r \in Requests :
    /\ tok[r] = t /\ ~hit[r]
    /\ pc[r] \in {"delete", "commit", "succeed", "fail"}

\* RotateIfNeeded and Create are two statements, so a user may have more than
\* maxRefreshTokens rows: one more if tokens were never issued concurrently,
\* and never more extra rows than requests that were issuing at once.
TokensAreBounded == Cardinality(rows) <= MaxTokens + busiest

\* README.md:401: logout invalidates the tokens.  A request that begins after
\* the logout of its token was answered gets no new tokens.
LogoutInvalidates == \A r \in Requests :
    Exchanged(r) => "loggedOut" \notin late[r]
=============================================================================
