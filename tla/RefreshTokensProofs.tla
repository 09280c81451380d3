------------------------ MODULE RefreshTokensProofs ------------------------
(***************************************************************************)
(* Proofs about RefreshTokens, for any set of requests, any limits, and    *)
(* with or without faults.  The row locks play no part in them: a refresh  *)
(* only gets past its lookups with a token that is in the table or in the  *)
(* cache, and a token that was spent is in neither.                        *)
(***************************************************************************)
EXTENDS RefreshTokens, FiniteSetTheorems, TLAPS

\* Requests that are still going to create a token.
Creating == {r \in Requests :
    pc[r] \notin {"idle", "create", "find", "revoke", "forget"}}

\* MayCreate lets a request begin only when its token still fits.
BoundInv == stamp + Cardinality(Creating) <= TokenLimit

\* What the fields of a request hold in each of its states.
RequestInv == \A r \in Requests :
    /\ pc[r] = "idle" => tok[r] = NoToken
    /\ pc[r] \notin {"idle", "rotate", "evict", "create"} => tok[r] \in handed
    /\ pc[r] \in {"idle", "find", "revoke", "forget"} => late[r] = {}
    /\ pc[r] \in {"idle", "select"} => ~hit[r]
    /\ new[r] # NoToken => pc[r] = "create"
    /\ pc[r] = "create" => new[r] \in 1..stamp /\ new[r] \notin handed

\* Tokens are created in the order of their names, each by one request.
FreshInv ==
    /\ handed \subseteq 1..stamp /\ spent \subseteq handed
    /\ \A r, s \in Requests :
           r # s /\ pc[r] = "create" /\ pc[s] = "create" => new[r] # new[s]

\* A token that was spent is neither in the table nor in the cache, unless
\* the commit of its deletion was lost.
SpentInv ==
    /\ \A t \in spent : t \in lost \/ t \notin rows \cup cache
    /\ \A r \in Requests :
           pc[r] = "succeed" => tok[r] \in lost \/ tok[r] \notin rows
    /\ \A r \in Requests : pc[r] = "forget" => tok[r] \notin rows

\* A request for a token that was stale when it began has not been let past
\* its lookups.
LateInv == \A r \in Requests :
    /\ "expired" \in late[r] =>
           tok[r] \in expired /\ pc[r] \in {"lookup", "select", "fail"}
    /\ "spent" \in late[r] =>
           tok[r] \in spent
           /\ (tok[r] \in lost \/ pc[r] \in {"lookup", "select", "fail"})

TokensInv == TypeOK /\ RequestInv /\ FreshInv /\ SpentInv /\ LateInv

----------------------------------------------------------------------------
LEMMA CreatingIsFinite ==
    /\ IsFiniteSet(Creating)
    /\ Cardinality(Creating) \in Nat
BY TokensAssumption, FS_Subset, FS_CardinalityType DEF Creating

LEMMA BusiestIsCounted ==
    ASSUME TypeOK, NEW r \in Requests, EnterIssue(r)
    PROVE  busiest' \in Nat
<1>1. Issuing \subseteq Requests
  BY DEF Issuing
<1>2. Cardinality(Issuing) \in Nat
  BY <1>1, TokensAssumption, FS_Subset, FS_CardinalityType
<1>3. QED
  BY <1>2 DEF EnterIssue, TypeOK

LEMMA CreatingIsFiniteNext ==
    /\ IsFiniteSet(Creating')
    /\ Cardinality(Creating') \in Nat
BY TokensAssumption, FS_Subset, FS_CardinalityType DEF Creating

LEMMA BoundInvInit == Init => BoundInv
<1> SUFFICES ASSUME Init
             PROVE  BoundInv
  OBVIOUS
<1>1. Creating = {}
  BY DEF Init, Creating
<1>2. QED
  BY <1>1, FS_EmptySet, TokensAssumption DEF Init, BoundInv

\* A request enters Creating only where MayCreate has left room, and the
\* action that takes the next stamp leaves it.
LEMMA BoundInvNext == TypeOK /\ BoundInv /\ [Next]_vars => BoundInv'
<1> SUFFICES ASSUME TypeOK, BoundInv, [Next]_vars
             PROVE  BoundInv'
  OBVIOUS
<1> USE CreatingIsFinite, CreatingIsFiniteNext, TokensAssumption
    DEF Tokens, tableVars, clientVars, requestVars
<1>1. stamp \in Nat
  BY DEF TypeOK
<1>2. ASSUME Creating' \subseteq Creating, stamp' = stamp
      PROVE  BoundInv'
  BY <1>1, <1>2, FS_Subset DEF BoundInv
<1>3. ASSUME NEW r \in Requests, MayCreate, stamp' = stamp,
             Creating' \subseteq Creating \cup {r}
      PROVE  BoundInv'
  <2>1. stamp + Cardinality(Creating) < TokenLimit
    BY <1>3 DEF MayCreate, Creating
  <2>2. /\ IsFiniteSet(Creating \cup {r})
        /\ Cardinality(Creating \cup {r})
             = IF r \in Creating THEN Cardinality(Creating)
                                ELSE Cardinality(Creating) + 1
    BY FS_AddElement, Zenon
  <2>3. Cardinality(Creating') <= Cardinality(Creating \cup {r})
    BY <1>3, <2>2, FS_Subset
  <2>4. Cardinality(Creating \cup {r}) \in Nat
    BY <2>2, FS_CardinalityType
  <2>5. QED
    BY <1>1, <1>3, <2>1, <2>2, <2>3, <2>4 DEF BoundInv
<1>4. ASSUME NEW r \in Requests, RotateDelete(r)
      PROVE  BoundInv'
  <2>1. r \in Creating /\ Creating' = Creating \ {r} /\ stamp' = stamp + 1
    BY <1>4 DEF RotateDelete, Goto, TypeOK, Creating
  <2>2. Cardinality(Creating') = Cardinality(Creating) - 1
    BY <2>1, FS_RemoveElement
  <2>3. QED
    BY <1>1, <2>1, <2>2 DEF BoundInv
<1>5. ASSUME NEW r \in Requests, NEW t \in Tokens, RefreshStart(r, t)
      PROVE  BoundInv'
  BY <1>3, <1>5 DEF RefreshStart, Goto, TypeOK, Creating
<1>6. ASSUME NEW r \in Requests, Login(r)
      PROVE  BoundInv'
  BY <1>3, <1>6 DEF Login, EnterIssue, Goto, TypeOK, Creating
<1>7. ASSUME NEW r \in Requests, RefreshStep(r)
      PROVE  BoundInv'
  BY <1>2, <1>5, <1>7
  DEF RefreshStep, RefreshLookup, RefreshSelect, RefreshDelete, RefreshCommit,
      RefreshCommitFails, RefreshTxFails, RefreshInvalidate, EnterIssue, Goto,
      Answer, TypeOK, Creating
<1>8. ASSUME NEW r \in Requests, IssueStep(r)
      PROVE  BoundInv'
  BY <1>2, <1>4, <1>6, <1>8
  DEF IssueStep, RotateSelect, Create, IssueFails, Goto, Answer, TypeOK,
      Creating
<1>9. ASSUME NEW r \in Requests, LogoutStep(r)
      PROVE  BoundInv'
  BY <1>2, <1>9
  DEF LogoutStep, LogoutStart, LogoutAnswer, RevokeFind, RevokeDelete,
      RevokeInvalidate, RevokeFails, Goto, Answer, TypeOK, Creating
<1>10. CASE \/ \E t \in Tokens : TokenExpires(t) \/ CacheEntryExpires(t)
            \/ DeleteExpired \/ Restart \/ UNCHANGED vars
  BY <1>2, <1>10
  DEF TokenExpires, CacheEntryExpires, DeleteExpired, Restart, vars, TypeOK,
      Creating
<1>11. QED
  BY <1>7, <1>8, <1>9, <1>10 DEF Next

----------------------------------------------------------------------------
LEMMA TokensInvInit == Init => TokensInv
BY TokensAssumption
DEF Init, TokensInv, TypeOK, RequestInv, FreshInv, SpentInv, LateInv, Tokens,
    NoToken

\* The tokens a request adds to a set are tokens by RequestInv, and the next
\* stamp is one by BoundInv.
LEMMA TypeOKNext == TypeOK /\ RequestInv /\ BoundInv /\ [Next]_vars => TypeOK'
<1> SUFFICES ASSUME TypeOK, RequestInv, BoundInv, [Next]_vars
             PROVE  TypeOK'
  OBVIOUS
<1> USE TokensAssumption
    DEF TypeOK, tableVars, clientVars, requestVars, Goto, Answer
<1>1. /\ Tokens \subseteq Nat /\ NoToken \notin Tokens
      /\ \A r \in Requests :
             pc[r] \notin {"idle", "rotate", "evict", "create"} =>
                 tok[r] \in Tokens
      /\ \A r \in Requests : pc[r] = "create" => new[r] \in Tokens
  BY DEF RequestInv, Tokens, NoToken
<1>2. ASSUME NEW r \in Requests, RefreshStep(r)
      PROVE  TypeOK'
  <2>1. ASSUME NEW t \in Tokens, RefreshStart(r, t)
        PROVE  TypeOK'
    BY <2>1 DEF RefreshStart
  <2>2. CASE RefreshLookup(r)
    BY <2>2 DEF RefreshLookup
  <2>3. CASE RefreshSelect(r)
    BY <2>3 DEF RefreshSelect
  <2>4. CASE RefreshDelete(r)
    BY <2>4 DEF RefreshDelete
  <2>5. CASE RefreshCommit(r)
    BY <2>5 DEF RefreshCommit
  <2>6. CASE RefreshCommitFails(r)
    BY <2>6 DEF RefreshCommitFails
  <2>7. CASE RefreshTxFails(r)
    BY <2>7 DEF RefreshTxFails
  <2>8. CASE RefreshInvalidate(r)
    <3>1. CASE pc[r] = "succeed"
      <4>1. tok[r] \in Tokens
        BY <1>1, <3>1
      <4>2. /\ cache' = cache \ {tok[r]} /\ spent' = spent \cup {tok[r]}
            /\ pc' = [pc EXCEPT ![r] = "rotate"]
            /\ hit' = [hit EXCEPT ![r] = FALSE]
            /\ busiest' \in Nat
            /\ UNCHANGED <<rows, stamp, handed, expired, loggedOut, lost, tok,
                           doomed, new, late>>
        BY <2>8, <3>1, BusiestIsCounted DEF RefreshInvalidate, EnterIssue
      <4>3. QED
        BY <4>1, <4>2
    <3>2. CASE pc[r] # "succeed"
      BY <2>8, <3>2 DEF RefreshInvalidate
    <3>3. QED
      BY <3>1, <3>2
  <2>9. QED
    BY <1>2, <2>1, <2>2, <2>3, <2>4, <2>5, <2>6, <2>7, <2>8 DEF RefreshStep
<1>3. ASSUME NEW r \in Requests, IssueStep(r)
      PROVE  TypeOK'
  <2>1. CASE Login(r)
    <3>1. busiest' \in Nat
      BY <2>1, BusiestIsCounted DEF Login
    <3>2. QED
      BY <2>1, <3>1 DEF Login, EnterIssue
  <2>2. CASE RotateSelect(r)
    BY <2>2 DEF RotateSelect, Excess
  <2>3. CASE RotateDelete(r)
    <3>1. r \in Creating
      BY <2>3 DEF RotateDelete, Creating
    <3>2. Cardinality(Creating) >= 1
      BY <3>1, CreatingIsFinite, FS_EmptySet
    <3>3. stamp + 1 \in Tokens
      BY <3>2, CreatingIsFinite DEF BoundInv, Tokens
    <3>4. QED
      BY <2>3, <3>3 DEF RotateDelete
  <2>4. CASE Create(r)
    BY <1>1, <2>4 DEF Create
  <2>5. CASE IssueFails(r)
    BY <1>1, <2>5 DEF IssueFails
  <2>6. QED
    BY <1>3, <2>1, <2>2, <2>3, <2>4, <2>5 DEF IssueStep
<1>4. ASSUME NEW r \in Requests, LogoutStep(r)
      PROVE  TypeOK'
  <2>1. ASSUME NEW t \in Tokens, LogoutStart(r, t)
        PROVE  TypeOK'
    BY <2>1 DEF LogoutStart
  <2>2. CASE RevokeFind(r)
    <3>1. CASE tok[r] \in rows
      BY <2>2, <3>1 DEF RevokeFind
    <3>2. CASE tok[r] \notin rows
      <4>1. tok[r] \in Tokens
        BY <1>1, <2>2 DEF RevokeFind
      <4>2. /\ loggedOut' = loggedOut \cup {tok[r]}
            /\ Answer(r)
            /\ UNCHANGED <<rows, stamp, cache, handed, expired, spent, lost,
                           busiest>>
        BY <2>2, <3>2 DEF RevokeFind, LogoutAnswer
      <4>3. QED
        BY <4>1, <4>2
    <3>3. QED
      BY <3>1, <3>2
  <2>3. CASE RevokeDelete(r)
    BY <2>3 DEF RevokeDelete
  <2>4. CASE RevokeInvalidate(r)
    BY <1>1, <2>4 DEF RevokeInvalidate, LogoutAnswer
  <2>5. CASE RevokeFails(r)
    BY <1>1, <2>5 DEF RevokeFails, LogoutAnswer
  <2>6. QED
    BY <1>4, <2>1, <2>2, <2>3, <2>4, <2>5 DEF LogoutStep
<1>5. ASSUME NEW t \in Tokens, TokenExpires(t)
      PROVE  TypeOK'
  BY <1>5 DEF TokenExpires
<1>6. ASSUME NEW t \in Tokens, CacheEntryExpires(t)
      PROVE  TypeOK'
  BY <1>6 DEF CacheEntryExpires
<1>7. CASE DeleteExpired
  BY <1>7 DEF DeleteExpired
<1>8. CASE Restart
  BY <1>8 DEF Restart
<1>9. CASE UNCHANGED vars
  BY <1>9 DEF vars
<1>10. QED
  BY <1>2, <1>3, <1>4, <1>5, <1>6, <1>7, <1>8, <1>9 DEF Next

----------------------------------------------------------------------------
(***************************************************************************)
(* The actions that hand tokens out, spend them, or let a request begin    *)
(* are the ones that can disturb the four parts of TokensInv.              *)
(***************************************************************************)
LEMMA TokensInvRefresh ==
    ASSUME TokensInv, NEW r \in Requests, RefreshStep(r)
    PROVE  (RequestInv /\ FreshInv /\ SpentInv /\ LateInv)'
<1> USE DEF TokensInv, TypeOK, RequestInv, FreshInv, SpentInv, LateInv, Tokens,
            NoToken, tableVars, clientVars, requestVars, Goto, Answer
<1>1. ASSUME NEW t \in Tokens, RefreshStart(r, t)
      PROVE  (RequestInv /\ FreshInv /\ SpentInv /\ LateInv)'
  BY <1>1 DEF RefreshStart
<1>2. CASE RefreshLookup(r)
  BY <1>2 DEF RefreshLookup
<1>3. CASE RefreshSelect(r)
  BY <1>3 DEF RefreshSelect
<1>4. CASE RefreshDelete(r)
  BY <1>4 DEF RefreshDelete
<1>5. CASE RefreshCommit(r)
  BY <1>5 DEF RefreshCommit
<1>6. CASE RefreshCommitFails(r)
  BY <1>6 DEF RefreshCommitFails
<1>7. CASE RefreshTxFails(r)
  BY <1>7 DEF RefreshTxFails
<1>8. CASE RefreshInvalidate(r)
  <2>1. CASE pc[r] = "succeed"
    <3>1. tok[r] \in handed /\ (tok[r] \in lost \/ tok[r] \notin rows)
      BY <2>1
    <3>2. /\ cache' = cache \ {tok[r]} /\ spent' = spent \cup {tok[r]}
          /\ pc' = [pc EXCEPT ![r] = "rotate"]
          /\ hit' = [hit EXCEPT ![r] = FALSE]
          /\ UNCHANGED <<rows, stamp, handed, expired, lost, tok, new, late>>
      BY <1>8, <2>1 DEF RefreshInvalidate, EnterIssue
    <3>3. (RequestInv /\ FreshInv)'
      BY <2>1, <3>1, <3>2
    <3>4. SpentInv'
      BY <2>1, <3>1, <3>2
    <3>5. LateInv'
      BY <2>1, <3>1, <3>2
    <3>6. QED
      BY <3>3, <3>4, <3>5
  <2>2. CASE pc[r] = "fail"
    <3>1. /\ cache' = cache \ {tok[r]}
          /\ pc' = [pc EXCEPT ![r] = "idle"]
          /\ tok' = [tok EXCEPT ![r] = NoToken]
          /\ new' = [new EXCEPT ![r] = NoToken]
          /\ hit' = [hit EXCEPT ![r] = FALSE]
          /\ late' = [late EXCEPT ![r] = {}]
          /\ UNCHANGED <<rows, stamp, handed, expired, spent, lost>>
      BY <1>8, <2>2 DEF RefreshInvalidate
    <3>2. (RequestInv /\ FreshInv)'
      BY <3>1
    <3>3. (SpentInv /\ LateInv)'
      BY <3>1
    <3>4. QED
      BY <3>2, <3>3
  <2>3. QED
    BY <1>8, <2>1, <2>2 DEF RefreshInvalidate
<1>9. QED
  BY <1>1, <1>2, <1>3, <1>4, <1>5, <1>6, <1>7, <1>8 DEF RefreshStep

LEMMA TokensInvIssue ==
    ASSUME TokensInv, NEW r \in Requests, IssueStep(r)
    PROVE  (RequestInv /\ FreshInv /\ SpentInv /\ LateInv)'
<1> USE DEF TokensInv, TypeOK, RequestInv, FreshInv, SpentInv, LateInv, Tokens,
            NoToken, tableVars, clientVars, requestVars, Goto, Answer
<1>1. CASE Login(r)
  BY <1>1 DEF Login, EnterIssue
<1>2. CASE RotateSelect(r)
  BY <1>2 DEF RotateSelect
<1>3. CASE RotateDelete(r)
  BY <1>3 DEF RotateDelete
<1>4. CASE Create(r)
  BY <1>4 DEF Create
<1>5. CASE IssueFails(r)
  BY <1>5 DEF IssueFails
<1>6. QED
  BY <1>1, <1>2, <1>3, <1>4, <1>5 DEF IssueStep

LEMMA TokensInvLogout ==
    ASSUME TokensInv, NEW r \in Requests, LogoutStep(r)
    PROVE  (RequestInv /\ FreshInv /\ SpentInv /\ LateInv)'
<1> USE DEF TokensInv, TypeOK, RequestInv, FreshInv, SpentInv, LateInv, Tokens,
            NoToken, tableVars, clientVars, requestVars, Goto, Answer
<1>1. ASSUME NEW t \in Tokens, LogoutStart(r, t)
      PROVE  (RequestInv /\ FreshInv /\ SpentInv /\ LateInv)'
  BY <1>1 DEF LogoutStart
<1>2. CASE RevokeFind(r)
  <2>1. CASE tok[r] \in rows
    BY <1>2, <2>1 DEF RevokeFind
  <2>2. CASE tok[r] \notin rows
    BY <1>2, <2>2 DEF RevokeFind, LogoutAnswer
  <2>3. QED
    BY <2>1, <2>2
<1>3. CASE RevokeDelete(r)
  BY <1>3 DEF RevokeDelete
<1>4. CASE RevokeInvalidate(r)
  <2>1. (RequestInv /\ FreshInv)'
    BY <1>4 DEF RevokeInvalidate, LogoutAnswer
  <2>2. SpentInv'
    BY <1>4 DEF RevokeInvalidate, LogoutAnswer
  <2>3. LateInv'
    BY <1>4 DEF RevokeInvalidate, LogoutAnswer
  <2>4. QED
    BY <2>1, <2>2, <2>3
<1>5. CASE RevokeFails(r)
  BY <1>5 DEF RevokeFails, LogoutAnswer
<1>6. QED
  BY <1>1, <1>2, <1>3, <1>4, <1>5 DEF LogoutStep

LEMMA TokensInvNext == TokensInv /\ BoundInv /\ [Next]_vars => TokensInv'
<1> SUFFICES ASSUME TokensInv, BoundInv, [Next]_vars
             PROVE  TokensInv'
  OBVIOUS
<1>1. TypeOK'
  BY TypeOKNext DEF TokensInv
<1>2. ASSUME NEW t \in Tokens, TokenExpires(t) \/ CacheEntryExpires(t)
      PROVE  (RequestInv /\ FreshInv /\ SpentInv /\ LateInv)'
  BY <1>2
  DEF TokenExpires, CacheEntryExpires, TokensInv, RequestInv, FreshInv,
      SpentInv, LateInv, tableVars, clientVars, requestVars
<1>3. CASE DeleteExpired
  BY <1>3
  DEF DeleteExpired, TokensInv, TypeOK, RequestInv, FreshInv, SpentInv,
      LateInv, clientVars, requestVars
<1>4. CASE Restart
  BY <1>4
  DEF Restart, TokensInv, TypeOK, RequestInv, FreshInv, SpentInv, LateInv,
      NoToken, tableVars, clientVars
<1>5. CASE UNCHANGED vars
  BY <1>5
  DEF vars, TokensInv, TypeOK, RequestInv, FreshInv, SpentInv, LateInv,
      tableVars, clientVars, requestVars
<1>6. ASSUME NEW r \in Requests,
             RefreshStep(r) \/ IssueStep(r) \/ LogoutStep(r)
      PROVE  TokensInv'
  <2>1. CASE RefreshStep(r)
    BY <1>1, <2>1, TokensInvRefresh DEF TokensInv
  <2>2. CASE IssueStep(r)
    BY <1>1, <2>2, TokensInvIssue DEF TokensInv
  <2>3. CASE LogoutStep(r)
    BY <1>1, <2>3, TokensInvLogout DEF TokensInv
  <2>4. QED
    BY <1>6, <2>1, <2>2, <2>3
<1>7. ASSUME NEW t \in Tokens, TokenExpires(t) \/ CacheEntryExpires(t)
      PROVE  TokensInv'
  BY <1>1, <1>2, <1>7 DEF TokensInv
<1>8. QED
  BY <1>3, <1>4, <1>5, <1>6, <1>7 DEF Next

LEMMA TokensInvHolds == Spec => []TokensInv
<1>1. TokensInv => TypeOK
  BY DEF TokensInv
<1>2. BoundInv /\ TokensInv /\ [Next]_vars => BoundInv' /\ TokensInv'
  BY <1>1, BoundInvNext, TokensInvNext
<1>3. QED
  BY BoundInvInit, TokensInvInit, <1>2, PTL DEF Spec

\* The type invariant of RefreshTokens; that a stamp never leaves the tokens
\* rests on the count of the requests that still create one.
THEOREM TypeOKHolds == Spec => []TypeOK
<1>1. TokensInv => TypeOK
  BY DEF TokensInv
<1>2. QED
  BY <1>1, TokensInvHolds, PTL

\* RefreshAccessToken never accepts a token that was exchanged, revoked or
\* expired before the request began, unless a failed commit lost its deletion.
THEOREM StaleTokensAreRefusedHolds == Spec => []StaleTokensAreRefused
<1>1. TokensInv => StaleTokensAreRefused
  BY DEF TokensInv, LateInv, StaleTokensAreRefused, Exchanged
<1>2. QED
  BY <1>1, TokensInvHolds, PTL

----------------------------------------------------------------------------
\* A step that leaves the cached tokens as they are, or removes some, leaves
\* the witnesses of CachedWhileExchanged in place.
LEMMA CachedNext ==
    TokensInv /\ CachedWhileExchanged /\ [Next]_vars => CachedWhileExchanged'
<1> SUFFICES ASSUME TokensInv, CachedWhileExchanged, [Next]_vars
             PROVE  CachedWhileExchanged'
  OBVIOUS
<1> USE DEF TokensInv, TypeOK, RequestInv, CachedWhileExchanged, tableVars,
            clientVars, requestVars, Goto, Answer
<1>1. ASSUME NEW r \in Requests, RefreshSelect(r)
      PROVE  CachedWhileExchanged'
  BY <1>1 DEF RefreshSelect
<1>2. ASSUME NEW r \in Requests, RefreshInvalidate(r)
      PROVE  CachedWhileExchanged'
  BY <1>2 DEF RefreshInvalidate, EnterIssue
<1>3. ASSUME NEW r \in Requests, RefreshStep(r)
      PROVE  CachedWhileExchanged'
  BY <1>1, <1>2, <1>3
  DEF RefreshStep, RefreshStart, RefreshLookup, RefreshDelete, RefreshCommit,
      RefreshCommitFails, RefreshTxFails
<1>4. ASSUME NEW r \in Requests, IssueStep(r)
      PROVE  CachedWhileExchanged'
  BY <1>4
  DEF IssueStep, Login, EnterIssue, RotateSelect, RotateDelete, Create,
      IssueFails
<1>5. ASSUME NEW r \in Requests, LogoutStep(r)
      PROVE  CachedWhileExchanged'
  BY <1>5
  DEF LogoutStep, LogoutStart, LogoutAnswer, RevokeFind, RevokeDelete,
      RevokeInvalidate, RevokeFails
<1>6. CASE \/ \E t \in Tokens : TokenExpires(t) \/ CacheEntryExpires(t)
           \/ DeleteExpired \/ Restart \/ UNCHANGED vars
  BY <1>6
  DEF TokenExpires, CacheEntryExpires, DeleteExpired, Restart, vars
<1>7. QED
  BY <1>3, <1>4, <1>5, <1>6 DEF Next

\* The cache never keeps a token beyond the request that put it there: errors,
\* replays, logouts and restarts included.
THEOREM CachedWhileExchangedHolds == Spec => []CachedWhileExchanged
<1>1. Init => CachedWhileExchanged
  BY DEF Init, CachedWhileExchanged
<1>2. QED
  BY <1>1, CachedNext, TokensInvHolds, PTL DEF Spec

----------------------------------------------------------------------------
(***************************************************************************)
(* The number of rows.  A request that has picked the rows of its rotation *)
(* (RotateSelect) and has still to create its token has slack for the      *)
(* tokens created meanwhile; there are at most k such requests with slack  *)
(* for k or less.  Slack shrinks when one of them creates its token, and   *)
(* then that one is gone.                                                  *)
(***************************************************************************)
Past == {r \in Requests : pc[r] \in {"evict", "create"}}
Slack(r) == MaxTokens + busiest - Cardinality(rows \ doomed[r])
Tight(k) == {r \in Past : Slack(r) <= k}

RowsInv ==
    /\ Cardinality(Issuing) <= busiest
    /\ \A r \in Requests : pc[r] = "create" => doomed[r] = {}
    /\ \A k \in Nat : Cardinality(Tight(k)) <= k
    /\ TokensAreBounded

LEMMA SetsAreFinite ==
    ASSUME TypeOK
    PROVE  /\ IsFiniteSet(rows) /\ Cardinality(rows) \in Nat
           /\ \A D : /\ IsFiniteSet(rows \ D) /\ Cardinality(rows \ D) \in Nat
                     /\ Cardinality(rows \ D) <= Cardinality(rows)
           /\ IsFiniteSet(Issuing) /\ Cardinality(Issuing) \in Nat
           /\ Past \subseteq Issuing /\ Issuing \subseteq Requests
           /\ \A k : IsFiniteSet(Tight(k)) /\ Cardinality(Tight(k)) \in Nat
           /\ busiest \in Nat /\ MaxTokens \in Nat
<1>1. IsFiniteSet(Tokens)
  BY TokensAssumption, FS_Interval DEF Tokens
<1>2. IsFiniteSet(rows) /\ Cardinality(rows) \in Nat
  BY <1>1, FS_Subset, FS_CardinalityType DEF TypeOK
<1>3. \A D : rows \ D \in SUBSET rows
  OBVIOUS
<1>4. \A D : /\ IsFiniteSet(rows \ D) /\ Cardinality(rows \ D) \in Nat
             /\ Cardinality(rows \ D) <= Cardinality(rows)
  BY <1>2, <1>3, FS_Subset, FS_CardinalityType
<1>5. Past \subseteq Issuing /\ Issuing \subseteq Requests
  BY DEF Past, Issuing
<1>6. IsFiniteSet(Issuing) /\ Cardinality(Issuing) \in Nat
  BY <1>5, TokensAssumption, FS_Subset, FS_CardinalityType
<1>7. \A k : Tight(k) \in SUBSET Requests
  BY <1>5 DEF Tight
<1>8. \A k : IsFiniteSet(Tight(k)) /\ Cardinality(Tight(k)) \in Nat
  BY <1>7, TokensAssumption, FS_Subset, FS_CardinalityType
<1>9. QED
  BY <1>2, <1>4, <1>5, <1>6, <1>8, TokensAssumption DEF TypeOK

\* The rotation leaves MaxTokens of the rows it has seen: the number of newer rows
\* tells two of them apart.
LEMMA FewSurvive == TypeOK => Cardinality(rows \ Excess) <= MaxTokens
<1> SUFFICES ASSUME TypeOK, ~(Cardinality(rows \ Excess) <= MaxTokens)
             PROVE  FALSE
  OBVIOUS
<1> DEFINE K == rows \ Excess
           Newer(t) == {s \in rows : s > t}
           T == 0 .. MaxTokens - 1
           f == [t \in K |-> Cardinality(Newer(t))]
<1>1. /\ IsFiniteSet(rows) /\ rows \subseteq Nat
      /\ IsFiniteSet(K) /\ Cardinality(K) \in Nat
  BY SetsAreFinite DEF TypeOK, Tokens
<1>2. IsFiniteSet(T) /\ Cardinality(T) = MaxTokens
  BY TokensAssumption, FS_Interval
<1>3. \A t \in Nat : IsFiniteSet(Newer(t)) /\ Cardinality(Newer(t)) \in Nat
  BY <1>1, FS_Subset, FS_CardinalityType
<1>4. \A t \in K : ~(Cardinality(Newer(t)) >= MaxTokens)
  BY DEF Excess
<1>5. \A t \in K : Cardinality(Newer(t)) \in T
  BY <1>1, <1>3, <1>4, TokensAssumption
<1>6. Cardinality(T) < Cardinality(K)
  BY <1>1, <1>2, TokensAssumption
<1> HIDE DEF T, K, Newer
<1>7. f \in [K -> T]
  BY <1>5
<1>8. PICK x, y \in K : x # y /\ f[x] = f[y]
  <2> HIDE DEF f
  <2>1. QED
    BY <1>1, <1>2, <1>6, <1>7, FS_PigeonHole
<1>9. Cardinality(Newer(x)) = Cardinality(Newer(y))
  BY <1>8
<1>10. x \in rows /\ y \in rows
  BY DEF K
<1>11. ASSUME NEW a \in rows, NEW b \in rows, a < b,
              Cardinality(Newer(a)) = Cardinality(Newer(b))
       PROVE  FALSE
  <2>1. Newer(b) \subseteq Newer(a) /\ b \in Newer(a) /\ b \notin Newer(b)
    <3>1. a \in Nat /\ b \in Nat /\ \A s \in rows : s \in Nat
      BY <1>1
    <3>2. /\ \A s \in rows : s > b => s > a
          /\ b > a /\ ~(b > b)
      BY <1>11, <3>1
    <3>3. QED
      BY <3>2 DEF Newer
  <2>2. IsFiniteSet(Newer(a))
    BY <1>1, <1>3
  <2>3. Newer(a) = Newer(b)
    BY <1>11, <2>1, <2>2, FS_Subset
  <2>4. QED
    BY <2>1, <2>3
<1>12. x < y \/ y < x
  BY <1>1, <1>8, <1>10
<1>13. QED
  BY <1>9, <1>10, <1>11, <1>12

\* Fewer rows, fewer requests past their selection, more slack.
LEMMA SlackGrows ==
    ASSUME TypeOK, TypeOK', RowsInv, Past' \subseteq Past, rows' \subseteq rows,
           busiest <= busiest', Cardinality(Issuing') <= busiest',
           \A r \in Past' : rows' \ doomed'[r] \subseteq rows \ doomed[r],
           \A r \in Requests : pc'[r] = "create" => doomed'[r] = {}
    PROVE  RowsInv'
<1>1. \A k \in Nat : Cardinality(Tight(k)') <= k
  <2> SUFFICES ASSUME NEW k \in Nat
               PROVE  Cardinality(Tight(k)') <= k
    OBVIOUS
  <2>1. ASSUME NEW r \in Past', Slack(r)' <= k
        PROVE  Slack(r) <= k
    <3>1. /\ IsFiniteSet(rows \ doomed[r]) /\ Cardinality(rows \ doomed[r]) \in Nat
          /\ busiest \in Nat /\ MaxTokens \in Nat
      BY SetsAreFinite
    <3>2. rows' \ doomed'[r] \in SUBSET (rows \ doomed[r])
      BY <2>1
    <3>3. Cardinality(rows' \ doomed'[r]) <= Cardinality(rows \ doomed[r])
          /\ Cardinality(rows' \ doomed'[r]) \in Nat
      BY <3>1, <3>2, FS_Subset, FS_CardinalityType
    <3>4. MaxTokens + busiest' - Cardinality(rows' \ doomed'[r]) <= k
      BY <2>1 DEF Slack
    <3>5. busiest' \in Nat
      BY DEF TypeOK
    <3>6. MaxTokens + busiest - Cardinality(rows \ doomed[r]) <= k
      BY <3>1, <3>3, <3>4, <3>5
    <3>7. QED
      BY <3>6 DEF Slack
  <2>2. Tight(k)' \subseteq Tight(k)
    BY <2>1 DEF Tight
  <2>3. Cardinality(Tight(k)') <= Cardinality(Tight(k))
        /\ Cardinality(Tight(k)) \in Nat /\ Cardinality(Tight(k)') \in Nat
    BY <2>2, SetsAreFinite, FS_Subset, FS_CardinalityType
  <2>4. Cardinality(Tight(k)) <= k
    BY DEF RowsInv
  <2>5. QED
    BY <2>3, <2>4
<1>2. TokensAreBounded'
  <2>1. IsFiniteSet(rows) /\ Cardinality(rows) \in Nat /\ busiest \in Nat
        /\ MaxTokens \in Nat /\ busiest' \in Nat
    BY SetsAreFinite DEF TypeOK
  <2>2. Cardinality(rows') <= Cardinality(rows) /\ Cardinality(rows') \in Nat
    BY <2>1, FS_Subset, FS_CardinalityType
  <2>3. Cardinality(rows) <= MaxTokens + busiest
    BY DEF RowsInv, TokensAreBounded
  <2>4. Cardinality(rows') <= MaxTokens + busiest'
    BY <2>1, <2>2, <2>3
  <2>5. QED
    BY <2>4 DEF TokensAreBounded
<1>3. QED
  BY <1>1, <1>2 DEF RowsInv

\* A request that creates its token costs every other one slack for one token.
LEMMA SlackShrinks ==
    ASSUME TypeOK, TypeOK', RowsInv, NEW r \in Requests, pc[r] = "create",
           Past' \subseteq Past \ {r}, NEW n, rows' = rows \cup {n},
           busiest' = busiest, Cardinality(Issuing') <= busiest,
           \A q \in Past' : doomed'[q] = doomed[q],
           \A q \in Requests : pc'[q] = "create" => doomed'[q] = {}
    PROVE  RowsInv'
<1> DEFINE all == Cardinality(rows)
<1>1. /\ IsFiniteSet(rows) /\ all \in Nat /\ busiest \in Nat /\ MaxTokens \in Nat
      /\ \A D : /\ IsFiniteSet(rows \ D) /\ Cardinality(rows \ D) \in Nat
                /\ Cardinality(rows \ D) <= all
  BY SetsAreFinite
<1>2. r \in Past /\ Slack(r) = MaxTokens + busiest - all
  <2>1. rows \ doomed[r] = rows
    BY DEF RowsInv
  <2>2. QED
    BY <2>1 DEF Past, Slack
<1>3. Cardinality(rows \cup {n}) <= all + 1 /\ Cardinality(rows \cup {n}) \in Nat
  <2>1. Cardinality(rows \cup {n}) = IF n \in rows THEN all ELSE all + 1
    BY <1>1, FS_AddElement, Zenon
  <2>2. QED
    BY <1>1, <2>1
<1>4. all + 1 <= MaxTokens + busiest
  <2>1. 0 \in Nat /\ Cardinality(Tight(0)) <= 0
    BY DEF RowsInv
  <2>2. Tight(0) = {}
    BY <2>1, SetsAreFinite, FS_EmptySet
  <2>3. ~(Slack(r) <= 0)
    BY <1>2, <2>2 DEF Tight
  <2>4. QED
    BY <1>1, <1>2, <2>3
<1>5. TokensAreBounded'
  <2>1. Cardinality(rows') <= MaxTokens + busiest
    BY <1>1, <1>3, <1>4
  <2>2. QED
    BY <2>1 DEF TokensAreBounded
<1>6. ASSUME NEW q \in Past'
      PROVE  /\ Slack(q) \in Int /\ Slack(q)' \in Int /\ Slack(q) <= Slack(q)' + 1
             /\ Slack(r) \in Int /\ Slack(r) <= Slack(q)
  <2> DEFINE S == rows \ doomed[q]
  <2>1. IsFiniteSet(S) /\ Cardinality(S) \in Nat /\ Cardinality(S) <= all
    BY <1>1
  <2>2. rows' \ doomed'[q] \in SUBSET (S \cup {n})
    BY <1>6
  <2> HIDE DEF S
  <2>3. IsFiniteSet(S \cup {n}) /\ Cardinality(S \cup {n}) <= Cardinality(S) + 1
        /\ Cardinality(S \cup {n}) \in Nat
    <3>1. /\ IsFiniteSet(S \cup {n})
          /\ Cardinality(S \cup {n})
                = IF n \in S THEN Cardinality(S) ELSE Cardinality(S) + 1
      BY <2>1, FS_AddElement, Zenon
    <3>2. QED
      BY <2>1, <3>1
  <2>4. Cardinality(rows' \ doomed'[q]) <= Cardinality(S) + 1
        /\ Cardinality(rows' \ doomed'[q]) \in Nat
    <3>1. Cardinality(rows' \ doomed'[q]) <= Cardinality(S \cup {n})
          /\ Cardinality(rows' \ doomed'[q]) \in Nat
      BY <2>2, <2>3, FS_Subset, FS_CardinalityType
    <3>2. QED
      BY <2>1, <2>3, <3>1
  <2>5. /\ Slack(q) = MaxTokens + busiest - Cardinality(S)
        /\ Slack(q)' = MaxTokens + busiest - Cardinality(rows' \ doomed'[q])
    BY DEF Slack, S
  <2>6. QED
    BY <1>1, <1>2, <2>1, <2>4, <2>5
<1>7. ASSUME NEW k \in Nat
      PROVE  Cardinality(Tight(k)') <= k
  <2>1. k + 1 \in Nat /\ Cardinality(Tight(k + 1)) <= k + 1
    BY DEF RowsInv
  <2>2. IsFiniteSet(Tight(k + 1)) /\ Cardinality(Tight(k + 1)) \in Nat
    BY SetsAreFinite
  <2>3. CASE Slack(r) <= k + 1
    <3>1. r \in Tight(k + 1)
      BY <1>2, <2>3 DEF Tight
    <3>2. Cardinality(Tight(k + 1) \ {r}) = Cardinality(Tight(k + 1)) - 1
          /\ IsFiniteSet(Tight(k + 1) \ {r})
      BY <2>2, <3>1, FS_RemoveElement
    <3>3. Tight(k)' \subseteq Tight(k + 1) \ {r}
      <4>1. ASSUME NEW q \in Past', Slack(q)' <= k
            PROVE  q \in Past /\ q # r /\ Slack(q) <= k + 1
        BY <1>6, <4>1
      <4>2. QED
        BY <4>1 DEF Tight
    <3>4. Cardinality(Tight(k)') <= Cardinality(Tight(k + 1) \ {r})
          /\ Cardinality(Tight(k)') \in Nat
      BY <3>2, <3>3, FS_Subset, FS_CardinalityType
    <3>5. QED
      BY <2>1, <2>2, <3>2, <3>4
  <2>4. CASE ~(Slack(r) <= k + 1)
    <3>1. \A q \in Past' : ~(Slack(q)' <= k)
      BY <1>6, <2>4
    <3>2. Tight(k)' = {}
      BY <3>1 DEF Tight
    <3>3. QED
      BY <3>2, FS_EmptySet
  <2>5. QED
    BY <2>3, <2>4
<1>8. QED
  BY <1>5, <1>7 DEF RowsInv

\* A request that picks the rows of its rotation has slack for all that issue.
LEMMA SelectGivesSlack ==
    ASSUME TypeOK, TypeOK', RowsInv, NEW r \in Requests, RotateSelect(r)
    PROVE  RowsInv'
<1>1. /\ doomed' = [doomed EXCEPT ![r] = Excess] /\ pc' = [pc EXCEPT ![r] = "evict"]
      /\ pc[r] = "rotate" /\ rows' = rows /\ busiest' = busiest
  BY DEF RotateSelect, Goto, tableVars, clientVars
<1>2. /\ Past' = Past \cup {r} /\ r \notin Past /\ Issuing' = Issuing
      /\ \A q \in Requests : q # r => doomed'[q] = doomed[q] /\ pc'[q] = pc[q]
      /\ doomed'[r] = Excess /\ pc'[r] = "evict"
  BY <1>1 DEF TypeOK, Past, Issuing
<1>3. /\ IsFiniteSet(Issuing) /\ Cardinality(Issuing) \in Nat
      /\ busiest \in Nat /\ MaxTokens \in Nat
      /\ Cardinality(rows \ Excess) \in Nat
      /\ Cardinality(rows \ Excess) <= MaxTokens
      /\ Cardinality(Issuing) <= busiest
  BY SetsAreFinite, FewSurvive DEF RowsInv
<1>4. ASSUME NEW k \in Nat
      PROVE  Cardinality(Tight(k)') <= k
  <2>1. CASE k < busiest
    <3>1. Slack(r)' = MaxTokens + busiest - Cardinality(rows \ Excess)
      BY <1>1, <1>2 DEF Slack
    <3>2. ~(Slack(r)' <= k)
      BY <1>3, <2>1, <3>1
    <3>3. \A q \in Past' : q # r => Slack(q)' = Slack(q)
      BY <1>1, <1>2 DEF Slack, Past
    <3>4. Tight(k)' \subseteq Tight(k)
      BY <1>2, <3>2, <3>3 DEF Tight
    <3>5. /\ Cardinality(Tight(k)') <= Cardinality(Tight(k))
          /\ Cardinality(Tight(k)') \in Nat /\ Cardinality(Tight(k)) \in Nat
      BY <3>4, SetsAreFinite, FS_Subset, FS_CardinalityType
    <3>6. Cardinality(Tight(k)) <= k
      BY DEF RowsInv
    <3>7. QED
      BY <3>5, <3>6
  <2>2. CASE ~(k < busiest)
    <3>1. Tight(k)' \subseteq Issuing
      BY <1>2 DEF Tight, Past, Issuing
    <3>2. Cardinality(Tight(k)') <= Cardinality(Issuing)
          /\ Cardinality(Tight(k)') \in Nat
      BY <1>3, <3>1, FS_Subset, FS_CardinalityType
    <3>3. QED
      BY <1>3, <2>2, <3>2
  <2>3. QED
    BY <2>1, <2>2
<1>5. TokensAreBounded'
  BY <1>1 DEF RowsInv, TokensAreBounded
<1>6. \A q \in Requests : pc'[q] = "create" => doomed'[q] = {}
  BY <1>2 DEF RowsInv
<1>7. Cardinality(Issuing') <= busiest'
  BY <1>1, <1>2, <1>3
<1>8. QED
  BY <1>4, <1>5, <1>6, <1>7 DEF RowsInv

LEMMA BusiestCounts ==
    ASSUME TypeOK, RowsInv, NEW r \in Requests, EnterIssue(r), pc[r] \notin
           {"rotate", "evict", "create"}
    PROVE  /\ Past' = Past /\ busiest <= busiest' /\ Cardinality(Issuing') <= busiest'
           /\ pc'[r] = "rotate"
           /\ \A q \in Requests : q # r => pc'[q] = pc[q]
<1>1. /\ pc'[r] = "rotate" /\ \A q \in Requests : q # r => pc'[q] = pc[q]
  BY DEF EnterIssue, Goto, TypeOK
<1>2. Past' = Past /\ Issuing' = Issuing \cup {r} /\ r \notin Issuing
  BY <1>1 DEF Past, Issuing
<1>3. IsFiniteSet(Issuing) /\ Cardinality(Issuing) \in Nat /\ busiest \in Nat
  BY SetsAreFinite
<1>4. Cardinality(Issuing') = Cardinality(Issuing) + 1
  BY <1>2, <1>3, FS_AddElement
<1>5. busiest' = IF busiest > Cardinality(Issuing)
                 THEN busiest ELSE Cardinality(Issuing) + 1
  BY DEF EnterIssue
<1>6. busiest <= busiest' /\ Cardinality(Issuing') <= busiest'
  BY <1>3, <1>4, <1>5
<1>7. QED
  BY <1>1, <1>2, <1>6

\* Requests that only go on, or end, before they have picked rows or after.
LEMMA FewerIssue ==
    ASSUME TypeOK, RowsInv, Issuing' \subseteq Issuing, busiest' = busiest
    PROVE  busiest <= busiest' /\ Cardinality(Issuing') <= busiest'
<1>1. /\ IsFiniteSet(Issuing) /\ Cardinality(Issuing) \in Nat /\ busiest \in Nat
      /\ Cardinality(Issuing) <= busiest
  BY SetsAreFinite DEF RowsInv
<1>2. Cardinality(Issuing') <= Cardinality(Issuing) /\ Cardinality(Issuing') \in Nat
  BY <1>1, FS_Subset, FS_CardinalityType
<1>3. QED
  BY <1>1, <1>2

LEMMA RowsInvRefresh ==
    ASSUME TypeOK, TypeOK', RowsInv, NEW r \in Requests, RefreshStep(r)
    PROVE  RowsInv'
<1>1. CASE RefreshInvalidate(r) /\ pc[r] = "succeed"
  <2>1. EnterIssue(r) /\ UNCHANGED <<rows, doomed>>
    BY <1>1 DEF RefreshInvalidate, tableVars
  <2>2. /\ Past' = Past /\ busiest <= busiest' /\ Cardinality(Issuing') <= busiest'
        /\ pc'[r] = "rotate"
        /\ \A q \in Requests : q # r => pc'[q] = pc[q]
    BY <1>1, <2>1, BusiestCounts
  <2>3. \A q \in Requests : pc'[q] = "create" => doomed'[q] = {}
    BY <2>1, <2>2 DEF RowsInv
  <2>4. QED
    BY <2>1, <2>2, <2>3, SlackGrows
<1>2. CASE ~(RefreshInvalidate(r) /\ pc[r] = "succeed")
  <2>1. /\ pc'[r] \notin {"rotate", "evict", "create"}
        /\ \A q \in Requests : q # r => pc'[q] = pc[q] /\ doomed'[q] = doomed[q]
        /\ rows' \subseteq rows /\ busiest' = busiest
    BY <1>2
    DEF RefreshStep, RefreshStart, RefreshLookup, RefreshSelect, RefreshDelete,
        RefreshCommit, RefreshCommitFails, RefreshTxFails, RefreshInvalidate,
        Goto, Answer, TypeOK, tableVars, clientVars
  <2>2. Past' \subseteq Past \ {r} /\ Issuing' \subseteq Issuing
    BY <2>1 DEF Past, Issuing
  <2>3. busiest <= busiest' /\ Cardinality(Issuing') <= busiest'
    BY <2>1, <2>2, FewerIssue
  <2>4. \A q \in Past' : rows' \ doomed'[q] \subseteq rows \ doomed[q]
    BY <2>1, <2>2 DEF Past
  <2>5. \A q \in Requests : pc'[q] = "create" => doomed'[q] = {}
    BY <2>1 DEF RowsInv
  <2>6. QED
    BY <2>1, <2>2, <2>3, <2>4, <2>5, SlackGrows
<1>3. QED
  BY <1>1, <1>2

LEMMA RowsInvIssue ==
    ASSUME TypeOK, TypeOK', RowsInv, NEW r \in Requests, IssueStep(r)
    PROVE  RowsInv'
<1>1. CASE Login(r)
  <2>1. EnterIssue(r) /\ pc[r] = "idle" /\ UNCHANGED <<rows, doomed>>
    BY <1>1 DEF Login, tableVars
  <2>2. /\ Past' = Past /\ busiest <= busiest' /\ Cardinality(Issuing') <= busiest'
        /\ pc'[r] = "rotate"
        /\ \A q \in Requests : q # r => pc'[q] = pc[q]
    BY <2>1, BusiestCounts
  <2>3. \A q \in Requests : pc'[q] = "create" => doomed'[q] = {}
    BY <2>1, <2>2 DEF RowsInv
  <2>4. QED
    BY <2>1, <2>2, <2>3, SlackGrows
<1>2. CASE RotateSelect(r)
  BY <1>2, SelectGivesSlack
<1>3. CASE RotateDelete(r)
  <2>1. /\ pc[r] = "evict" /\ pc'[r] = "create" /\ doomed'[r] = {}
        /\ \A q \in Requests : q # r => pc'[q] = pc[q] /\ doomed'[q] = doomed[q]
        /\ rows' = rows \ doomed[r] /\ busiest' = busiest
    BY <1>3 DEF RotateDelete, Goto, TypeOK, clientVars
  <2>2. Past' \subseteq Past /\ Issuing' \subseteq Issuing
    BY <2>1 DEF Past, Issuing
  <2>3. busiest <= busiest' /\ Cardinality(Issuing') <= busiest'
    BY <2>1, <2>2, FewerIssue
  <2>4. \A q \in Past' : rows' \ doomed'[q] \subseteq rows \ doomed[q]
    BY <2>1 DEF Past
  <2>5. \A q \in Requests : pc'[q] = "create" => doomed'[q] = {}
    BY <2>1 DEF RowsInv
  <2>6. QED
    BY <2>1, <2>2, <2>3, <2>4, <2>5, SlackGrows
<1>4. CASE Create(r) \/ IssueFails(r)
  <2>1. /\ pc[r] \in {"rotate", "evict", "create"} /\ pc'[r] = "idle"
        /\ \A q \in Requests : q # r => pc'[q] = pc[q] /\ doomed'[q] = doomed[q]
        /\ busiest' = busiest
        /\ rows' \subseteq rows \/ (pc[r] = "create" /\ rows' = rows \cup {new[r]})
    BY <1>4 DEF Create, IssueFails, Goto, Answer, TypeOK, clientVars
  <2>2. Past' \subseteq Past \ {r} /\ Issuing' \subseteq Issuing
    BY <2>1 DEF Past, Issuing
  <2>3. busiest <= busiest' /\ Cardinality(Issuing') <= busiest'
    BY <2>1, <2>2, FewerIssue
  <2>4. \A q \in Past' : doomed'[q] = doomed[q]
    BY <2>1, <2>2 DEF Past
  <2>5. \A q \in Requests : pc'[q] = "create" => doomed'[q] = {}
    BY <2>1 DEF RowsInv
  <2>6. CASE rows' \subseteq rows
    <3>1. \A q \in Past' : rows' \ doomed'[q] \subseteq rows \ doomed[q]
      BY <2>4, <2>6
    <3>2. QED
      BY <2>2, <2>3, <2>5, <2>6, <3>1, SlackGrows
  <2>7. CASE pc[r] = "create" /\ rows' = rows \cup {new[r]}
    <3>1. Cardinality(Issuing') <= busiest
      BY <2>1, <2>3
    <3> DEFINE n == new[r]
    <3>2. rows' = rows \cup {n} /\ pc[r] = "create"
      BY <2>7
    <3> HIDE DEF n
    <3>3. QED
      BY <2>1, <2>2, <2>4, <2>5, <3>1, <3>2, SlackShrinks
  <2>8. QED
    BY <2>1, <2>6, <2>7
<1>5. QED
  BY <1>1, <1>2, <1>3, <1>4 DEF IssueStep

LEMMA RowsInvNext == TypeOK /\ TypeOK' /\ RowsInv /\ [Next]_vars => RowsInv'
<1> SUFFICES ASSUME TypeOK, TypeOK', RowsInv, [Next]_vars
             PROVE  RowsInv'
  OBVIOUS
<1>1. ASSUME NEW r \in Requests, RefreshStep(r)
      PROVE  RowsInv'
  BY <1>1, RowsInvRefresh
<1>2. ASSUME NEW r \in Requests, IssueStep(r)
      PROVE  RowsInv'
  BY <1>2, RowsInvIssue
<1>3. ASSUME Past' \subseteq Past, Issuing' \subseteq Issuing,
             rows' \subseteq rows, busiest' = busiest,
             \A q \in Requests : pc'[q] \in {"evict", "create"} =>
                pc'[q] = pc[q] /\ doomed'[q] = doomed[q]
      PROVE  RowsInv'
  <2>1. busiest <= busiest' /\ Cardinality(Issuing') <= busiest'
    BY <1>3, FewerIssue
  <2>2. \A q \in Past' : rows' \ doomed'[q] \subseteq rows \ doomed[q]
    BY <1>3 DEF Past
  <2>3. \A q \in Requests : pc'[q] = "create" => doomed'[q] = {}
    BY <1>3 DEF RowsInv
  <2>4. QED
    BY <1>3, <2>1, <2>2, <2>3, SlackGrows
<1>4. ASSUME NEW r \in Requests, LogoutStep(r)
      PROVE  RowsInv'
  <2>1. /\ pc'[r] \notin {"rotate", "evict", "create"}
        /\ \A q \in Requests : q # r => pc'[q] = pc[q] /\ doomed'[q] = doomed[q]
        /\ rows' \subseteq rows /\ busiest' = busiest
    BY <1>4
    DEF LogoutStep, LogoutStart, LogoutAnswer, RevokeFind, RevokeDelete,
        RevokeInvalidate, RevokeFails, Goto, Answer, TypeOK, tableVars, clientVars
  <2>2. Past' \subseteq Past /\ Issuing' \subseteq Issuing
    BY <2>1 DEF Past, Issuing
  <2>3. QED
    BY <1>3, <2>1, <2>2
<1>5. CASE \/ \E t \in Tokens : TokenExpires(t) \/ CacheEntryExpires(t)
           \/ DeleteExpired \/ UNCHANGED vars
  <2>1. pc' = pc /\ doomed' = doomed /\ rows' \subseteq rows /\ busiest' = busiest
    BY <1>5 DEF TokenExpires, CacheEntryExpires, DeleteExpired, vars, tableVars,
                clientVars, requestVars
  <2>2. Past' = Past /\ Issuing' = Issuing
    BY <2>1 DEF Past, Issuing
  <2>3. QED
    BY <1>3, <2>1, <2>2
<1>6. CASE Restart
  <2>1. /\ \A q \in Requests : pc'[q] = "idle"
        /\ rows' = rows /\ busiest' = busiest
    BY <1>6 DEF Restart, tableVars, clientVars
  <2>2. Past' = {} /\ Issuing' = {}
    BY <2>1 DEF Past, Issuing
  <2>3. QED
    BY <1>3, <2>1, <2>2
<1>7. QED
  BY <1>1, <1>2, <1>4, <1>5, <1>6 DEF Next

LEMMA RowsInvInit == Init => RowsInv
<1> SUFFICES ASSUME Init
             PROVE  RowsInv
  OBVIOUS
<1>1. /\ \A r \in Requests : pc[r] = "idle"
      /\ rows = {1} /\ busiest = 0
  BY DEF Init
<1>2. Issuing = {} /\ \A k \in Nat : Tight(k) = {}
  BY <1>1 DEF Issuing, Tight, Past
<1>3. Cardinality({}) = 0 /\ Cardinality({1}) = 1
  BY FS_EmptySet, FS_Singleton
<1>4. TokensAreBounded
  BY <1>1, <1>3, TokensAssumption DEF TokensAreBounded
<1>5. QED
  BY <1>1, <1>2, <1>3, <1>4 DEF RowsInv

\* The table never holds more than MaxTokens rows and one more for each request
\* that was issuing at once, although RotateIfNeeded and Create are statements of
\* their own, and however they interleave, fail or are cut off by a restart.
THEOREM TokensAreBoundedHolds == Spec => []TokensAreBounded
<1>1. RowsInv => TokensAreBounded
  BY DEF RowsInv
<1>2. TypeOK /\ RowsInv /\ [Next]_vars /\ TypeOK' => RowsInv'
  BY RowsInvNext
<1>3. QED
  BY <1>1, <1>2, RowsInvInit, TypeOKHolds, PTL DEF Spec
=============================================================================
