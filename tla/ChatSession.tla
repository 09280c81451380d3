----------------------------- MODULE ChatSession -----------------------------
(***************************************************************************)
(* The key exchange of two chat windows (useChatSession, useAckManager and  *)
(* the dispatch of useMessageHandler), joined by the server.  A callback    *)
(* runs to its first await in one step; every await splits it, and what it  *)
(* reads from a ref afterwards is what the ref holds then.  `tasks' holds   *)
(* the callbacks that wait.  Ephemeral keys are named by the start that     *)
(* generates them, a session key by the pair of ephemeral keys it is        *)
(* derived from.  The server forwards frames in any order, answers an       *)
(* ephemeral_key to an absent peer with peer_offline, drops other frames to *)
(* it, and announces a lost connection with peer_disconnected.              *)
(***************************************************************************)
EXTENDS Naturals, FiniteSets

CONSTANTS Peers,            \* the two users of the chat
          AckMaxRetries,    \* ACK_MAX_RETRIES
          MaxStarts,        \* bound: sessions a window starts
          PromptEffects,    \* do effects run before anything else of the window
          FaultKinds,       \* what may go wrong, and windows that close
          MaxFaults,        \* bound: how often, both sides together
          NoKey

ASSUME ChatPeersAssumption == IsFiniteSet(Peers) /\ Cardinality(Peers) = 2
ASSUME ChatBoundsAssumption ==
    AckMaxRetries \in Nat \ {0} /\ MaxStarts \in Nat /\ MaxFaults \in Nat
ASSUME ChatKeyAssumption == NoKey \notin [Peers -> 1 .. MaxStarts]

VARIABLES state,             \* the ChatSessionState of a window
          enabled,           \* is the peer's fingerprint verified
          link,              \* its WebSocket client: none, not open, open
          sessionKey, myEphemeralKey, peerEphemeralKey,   \* the refs
          tasks,             \* callbacks of a window that wait at an await
          pending,           \* pendingAcksRef: key -> retries, armed timer
          timers,            \* the timers the browser will fire
          net,               \* frames on their way to a window
          accepted,          \* keys the server has taken, and takes only once
          starts,            \* sessions started, which names the next key
          faults             \* faults so far

chatVars == <<state, enabled, link, sessionKey, myEphemeralKey,
              peerEphemeralKey, tasks, pending, timers, net, accepted, starts,
              faults>>
refs == <<sessionKey, myEphemeralKey, peerEphemeralKey>>
acks == <<pending, timers>>
server == <<net, accepted>>
session == <<state, refs, tasks, acks, starts>>
environment == <<enabled, link, faults>>

Keys == 1 .. MaxStarts
None == 0                          \* no ephemeral key
SessionStates == {"idle", "establishing", "active",
                  "peer_offline", "peer_disconnected", "error"}
Frames == [type : {"ephemeral_key", "ack"}, key : Keys]
          \cup [type : {"peer_offline", "peer_disconnected"}, key : {None}]
Tasks == [step : {"generate", "sign", "verify", "derive"},
          mine : Keys \cup {None}, theirs : Keys \cup {None}]

Other(p) == CHOOSE q \in Peers : q # p
Frame(type, key) == [type |-> type, key |-> key]
Without(f, key) == [k \in DOMAIN f \ {key} |-> f[k]]

ChatInit ==
    /\ state = [p \in Peers |-> "idle"]
    /\ enabled = [p \in Peers |-> FALSE]
    /\ link = [p \in Peers |-> "none"]
    /\ sessionKey = [p \in Peers |-> NoKey]
    /\ myEphemeralKey = [p \in Peers |-> None]
    /\ peerEphemeralKey = [p \in Peers |-> None]
    /\ tasks = [p \in Peers |-> {}]
    /\ pending = [p \in Peers |-> <<>>]
    /\ timers = [p \in Peers |-> {}]
    /\ net = [p \in Peers |-> {}]
    /\ accepted = [p \in Peers |-> {}]
    /\ starts = [p \in Peers |-> 0]
    /\ faults = 0

-----------------------------------------------------------------------------
(* Helpers of the handlers.                                                *)

\* p calls send(f): the server takes an ephemeral key once, within its
\* idempotency TTL, and forwards what its receiver is there for.
Send(p, f) ==
    LET q == Other(p)
        isKey == f.type = "ephemeral_key"
    IN  IF link[p] # "open" \/ (isKey /\ f.key \in accepted[p])
        THEN UNCHANGED server
        ELSE /\ accepted' = IF isKey THEN [accepted EXCEPT ![p] = @ \cup {f.key}]
                            ELSE accepted
             /\ net' = IF link[q] = "open" THEN [net EXCEPT ![q] = @ \cup {f}]
                       ELSE IF isKey
                       THEN [net EXCEPT ![p] = @ \cup {Frame("peer_offline", None)}]
                       ELSE net

\* A send on a socket that is not open reports an error to the window.
AfterSend(p) == IF link[p] = "closed" THEN "error" ELSE state[p]

ClearSession(p) ==
    /\ sessionKey' = [sessionKey EXCEPT ![p] = NoKey]
    /\ myEphemeralKey' = [myEphemeralKey EXCEPT ![p] = None]
    /\ peerEphemeralKey' = [peerEphemeralKey EXCEPT ![p] = None]

ClearPendingAcks(p) ==
    /\ pending' = [pending EXCEPT ![p] = <<>>]
    /\ timers' = [timers EXCEPT ![p] = @ \
                     {<<k, pending[p][k].timeout>> : k \in DOMAIN pending[p]}]

HandleAckLeavesTimer(p, key) ==
    /\ pending' = [pending EXCEPT ![p] = Without(@, key)]
    /\ UNCHANGED timers

HandleAck(p, key) ==
    IF key \in DOMAIN pending[p]
    THEN /\ pending' = [pending EXCEPT ![p] = Without(@, key)]
         /\ timers' = [timers EXCEPT ![p] =
                          @ \ {<<key, pending[p][key].timeout>>}]
    ELSE UNCHANGED acks

Fault(kind) ==
    /\ kind \in FaultKinds /\ faults < MaxFaults
    /\ faults' = faults + 1

Continue(p, task, next) == tasks' = [tasks EXCEPT ![p] = (@ \ {task}) \cup next]

-----------------------------------------------------------------------------
(* startSession, as the effect on [enabled, isConnected, state] runs it.   *)

\* An effect waits for the next render of the window.
EffectDue(p) ==
    \/ /\ enabled[p] /\ link[p] = "open" /\ starts[p] < MaxStarts
       /\ state[p] \in {"idle", "peer_disconnected"}
    \/ ~enabled[p] /\ state[p] # "idle"

StartSession(p) ==
    /\ enabled[p] /\ EffectDue(p)
    /\ starts' = [starts EXCEPT ![p] = @ + 1]
    /\ state' = [state EXCEPT ![p] = "establishing"]
    /\ ClearSession(p)
    /\ ClearPendingAcks(p)
    /\ tasks' = [tasks EXCEPT ![p] = @ \cup
          {[step |-> "generate", mine |-> starts[p] + 1, theirs |-> None]}]
    /\ UNCHANGED <<server, environment>>

KeyGenerated(p) == \E t \in tasks[p] :
    /\ t.step = "generate"
    /\ myEphemeralKey' = [myEphemeralKey EXCEPT ![p] = t.mine]
    /\ Continue(p, t, {[t EXCEPT !.step = "sign"]})
    /\ UNCHANGED <<state, sessionKey, peerEphemeralKey, acks, server, starts,
                   environment>>

\* A step of startSession or of handlePeerEphemeralKey fails: no identity
\* key, a fetch or a derivation that throws, a signature that does not hold.
CallbackFails(p) == \E t \in tasks[p] :
    /\ Fault("callback")
    /\ state' = [state EXCEPT ![p] = "error"]
    /\ Continue(p, t, {})
    /\ UNCHANGED <<refs, acks, server, starts, enabled, link>>

\* The key is exported and signed: sendWithAck, then a peer key that has
\* arrived meanwhile is used.
KeySigned(p) == \E t \in tasks[p] :
    /\ t.step = "sign"
    /\ pending' = [pending EXCEPT ![p] = [k \in DOMAIN @ \cup {t.mine} |->
          IF k = t.mine THEN [retries |-> 0, timeout |-> "ack"] ELSE @[k]]]
    /\ timers' = [timers EXCEPT ![p] = @ \cup {<<t.mine, "ack">>}]
    /\ Send(p, Frame("ephemeral_key", t.mine))
    /\ state' = [state EXCEPT ![p] = AfterSend(p)]
    /\ Continue(p, t, IF peerEphemeralKey[p] = None THEN {}
                      ELSE {[t EXCEPT !.step = "derive",
                                      !.theirs = peerEphemeralKey[p]]})
    /\ UNCHANGED <<refs, starts, environment>>

\* deriveSessionKey returns, in startSession or in handlePeerEphemeralKey.  The
\* session_established that is sent now changes nothing at its receiver: its
\* peer_id names the receiver, who compares it with the sender's.
KeyDerived(p) == \E t \in tasks[p] :
    /\ t.step = "derive"
    /\ sessionKey' = [sessionKey EXCEPT ![p] =
                        [q \in Peers |-> IF q = p THEN t.mine ELSE t.theirs]]
    /\ state' = [state EXCEPT ![p] = "active"]
    /\ Continue(p, t, {})
    /\ UNCHANGED <<myEphemeralKey, peerEphemeralKey, acks, server, starts,
                   environment>>

-----------------------------------------------------------------------------
(* Frames from the server.                                                 *)

ReceiveEphemeralKey(p) == \E f \in net[p] :
    /\ f.type = "ephemeral_key" /\ link[p] = "open"
    /\ IF state[p] \in {"peer_disconnected", "peer_offline"}
       THEN /\ ClearSession(p)
            /\ state' = [state EXCEPT ![p] = "idle"]
       ELSE UNCHANGED <<refs, state>>
    /\ tasks' = [tasks EXCEPT ![p] = @ \cup
          {[step |-> "verify", mine |-> None, theirs |-> f.key]}]
    /\ net' = [net EXCEPT ![p] = @ \ {f}]
    /\ UNCHANGED <<accepted, acks, starts, environment>>

\* The identity key is fetched, the signature holds, the ack leaves and the key
\* is imported: one step, since nobody reads in between what either changes.
KeyVerified(p) == \E t \in tasks[p] :
    /\ t.step = "verify"
    /\ Send(p, Frame("ack", t.theirs))
    /\ state' = [state EXCEPT ![p] = AfterSend(p)]
    /\ peerEphemeralKey' = [peerEphemeralKey EXCEPT ![p] = t.theirs]
    /\ Continue(p, t, IF myEphemeralKey[p] = None THEN {}
                      ELSE {[t EXCEPT !.step = "derive",
                                      !.mine = myEphemeralKey[p]]})
    /\ UNCHANGED <<sessionKey, myEphemeralKey, acks, starts, environment>>

ReceiveAck(p) == \E f \in net[p] :
    /\ f.type = "ack" /\ link[p] = "open"
    /\ HandleAck(p, f.key)
    /\ net' = [net EXCEPT ![p] = @ \ {f}]
    /\ UNCHANGED <<accepted, state, refs, tasks, starts, environment>>

ReceivePeerOffline(p) == \E f \in net[p] :
    /\ f.type = "peer_offline" /\ link[p] = "open"
    /\ ClearPendingAcks(p)
    /\ state' = [state EXCEPT ![p] = "peer_offline"]
    /\ net' = [net EXCEPT ![p] = @ \ {f}]
    /\ UNCHANGED <<accepted, refs, tasks, starts, environment>>

ReceivePeerDisconnected(p) == \E f \in net[p] :
    /\ f.type = "peer_disconnected" /\ link[p] = "open"
    /\ state' = [state EXCEPT ![p] = "peer_disconnected"]
    /\ ClearSession(p)
    /\ net' = [net EXCEPT ![p] = @ \ {f}]
    /\ UNCHANGED <<accepted, tasks, acks, starts, environment>>

-----------------------------------------------------------------------------
(* Timers of useAckManager.                                                *)

\* The key or its ack is still on its way: a timeout now is a late answer.
OnItsWay(p, key) ==
    \/ Frame("ephemeral_key", key) \in net[Other(p)]
    \/ \E t \in tasks[Other(p)] : t.step = "verify" /\ t.theirs = key
    \/ Frame("ack", key) \in net[p]

GivesUpLate(p, key) == pending[p][key].retries >= AckMaxRetries
GivesUp(p, key) == pending[p][key].retries + 1 >= AckMaxRetries

\* scheduleRetry: the ack did not come within ACK_TIMEOUT_MS.
AckTimeout(p) == \E key \in Keys :
    /\ <<key, "ack">> \in timers[p]
    /\ IF OnItsWay(p, key) THEN Fault("delay") ELSE UNCHANGED faults
    /\ IF key \notin DOMAIN pending[p]
       THEN /\ timers' = [timers EXCEPT ![p] = @ \ {<<key, "ack">>}]
            /\ UNCHANGED <<state, pending>>
       ELSE IF GivesUp(p, key)
       THEN /\ pending' = [pending EXCEPT ![p] = Without(@, key)]
            /\ timers' = [timers EXCEPT ![p] = @ \ {<<key, "ack">>}]
            /\ state' = [state EXCEPT ![p] = "error"]
       ELSE /\ pending' = [pending EXCEPT ![p][key] =
                  [retries |-> @.retries + 1, timeout |-> "retry"]]
            /\ timers' = [timers EXCEPT ![p] =
                  (@ \ {<<key, "ack">>}) \cup {<<key, "retry">>}]
            /\ UNCHANGED state
    /\ UNCHANGED <<refs, tasks, server, starts, enabled, link>>

\* After ACK_RETRY_DELAY_MS the key is sent again and its timer restarts.
RetryFires(p) == \E key \in Keys :
    /\ <<key, "retry">> \in timers[p]
    /\ Send(p, Frame("ephemeral_key", key))
    /\ state' = [state EXCEPT ![p] = AfterSend(p)]
    /\ timers' = [timers EXCEPT ![p] =
          (@ \ {<<key, "retry">>}) \cup {<<key, "ack">>}]
    /\ pending' = IF key \in DOMAIN pending[p]
                  THEN [pending EXCEPT ![p][key].timeout = "ack"]
                  ELSE pending
    /\ UNCHANGED <<refs, tasks, starts, environment>>

-----------------------------------------------------------------------------
(* The window and its connection.                                          *)

\* The fingerprint is verified: useWebSocket makes a client.
Enable(p) ==
    /\ ~enabled[p]
    /\ enabled' = [enabled EXCEPT ![p] = TRUE]
    /\ link' = [link EXCEPT ![p] = "closed"]
    /\ UNCHANGED <<session, server, faults>>

LinkUp(p) ==
    /\ link[p] = "closed"
    /\ link' = [link EXCEPT ![p] = "open"]
    /\ UNCHANGED <<session, server, enabled, faults>>

\* What the server does when a connection of p ends: frames to p are lost, a
\* connected peer is told.
Departed(p) ==
    net' = [net EXCEPT ![p] = {},
                       ![Other(p)] = IF link[p] = "open" /\ link[Other(p)] = "open"
                                     THEN @ \cup {Frame("peer_disconnected", None)}
                                     ELSE @]

\* The connection is lost; an error event may come first.
LinkDown(p) ==
    /\ link[p] = "open"
    /\ Fault("link")
    /\ link' = [link EXCEPT ![p] = "closed"]
    /\ Departed(p)
    /\ state' \in {state, [state EXCEPT ![p] = "error"]}
    /\ UNCHANGED <<accepted, refs, tasks, acks, starts, enabled>>

\* The reset forgets the ephemeral keys but not the session key.
ResetSessionKeepsKey(p) ==
    /\ state' = [state EXCEPT ![p] = "idle"]
    /\ myEphemeralKey' = [myEphemeralKey EXCEPT ![p] = None]
    /\ peerEphemeralKey' = [peerEphemeralKey EXCEPT ![p] = None]
    /\ UNCHANGED sessionKey
    /\ ClearPendingAcks(p)

\* The effect when enabled is false or its state changes while it is.
ResetSession(p) ==
    /\ state' = [state EXCEPT ![p] = "idle"]
    /\ ClearSession(p)
    /\ ClearPendingAcks(p)

\* The fingerprint modal closes without a verified fingerprint.
Disable(p) ==
    /\ enabled[p]
    /\ Fault("disable")
    /\ enabled' = [enabled EXCEPT ![p] = FALSE]
    /\ link' = [link EXCEPT ![p] = "none"]
    /\ Departed(p)
    /\ ResetSession(p)
    /\ UNCHANGED <<accepted, tasks, starts>>

DisabledEffect(p) ==
    /\ ~enabled[p] /\ EffectDue(p)
    /\ ResetSession(p)
    /\ UNCHANGED <<tasks, server, starts, environment>>

\* The window is closed and opened anew: the callbacks of the old one hold
\* the refs of the old one.
Remount(p) ==
    /\ enabled[p]
    /\ Fault("remount")
    /\ enabled' = [enabled EXCEPT ![p] = FALSE]
    /\ link' = [link EXCEPT ![p] = "none"]
    /\ Departed(p)
    /\ ResetSession(p)
    /\ tasks' = [tasks EXCEPT ![p] = {}]
    /\ UNCHANGED <<accepted, starts>>

\* A full queue of the server drops a frame.
LoseFrame(p) == \E f \in net[p] :
    /\ Fault("loss")
    /\ net' = [net EXCEPT ![p] = @ \ {f}]
    /\ UNCHANGED <<accepted, session, enabled, link>>

SessionStep(p) ==
    \/ StartSession(p) \/ DisabledEffect(p) \/ LinkUp(p)
    \/ /\ ~(PromptEffects /\ EffectDue(p))
       /\ \/ KeyGenerated(p) \/ KeySigned(p) \/ KeyDerived(p)
          \/ ReceiveEphemeralKey(p) \/ KeyVerified(p)
          \/ ReceiveAck(p)
          \/ ReceivePeerOffline(p) \/ ReceivePeerDisconnected(p)
          \/ AckTimeout(p) \/ RetryFires(p)

ChatNext == \E p \in Peers :
    \/ SessionStep(p)
    \/ Enable(p) \/ LinkDown(p) \/ Disable(p) \/ Remount(p)
    \/ CallbackFails(p) \/ LoseFrame(p)

ChatSpec == ChatInit /\ [][ChatNext]_chatVars

-----------------------------------------------------------------------------
\* The type invariant: the refs and tasks of both windows and what is on its way
\* (useChatSession.ts 115-153).
ChatTypeOK ==
    /\ state \in [Peers -> SessionStates]
    /\ enabled \in [Peers -> BOOLEAN]
    /\ link \in [Peers -> {"none", "closed", "open"}]
    /\ sessionKey \in [Peers -> [Peers -> Keys] \cup {NoKey}]
    /\ myEphemeralKey \in [Peers -> Keys \cup {None}]
    /\ peerEphemeralKey \in [Peers -> Keys \cup {None}]
    /\ tasks \in [Peers -> SUBSET Tasks]
    /\ DOMAIN pending = Peers
    /\ \A p \in Peers :
          /\ DOMAIN pending[p] \subseteq Keys
          /\ \A k \in DOMAIN pending[p] :
                pending[p][k] \in [retries : 0 .. AckMaxRetries - 1,
                                   timeout : {"ack", "retry"}]
    /\ timers \in [Peers -> SUBSET (Keys \X {"ack", "retry"})]
    /\ net \in [Peers -> SUBSET Frames]
    /\ accepted \in [Peers -> SUBSET Keys]
    /\ starts \in [Peers -> 0 .. MaxStarts]
    /\ faults \in 0 .. MaxFaults

\* A window that shows an active session can encrypt, and one that is idle, is
\* establishing a session or has lost its peer holds no key of an earlier
\* session, whatever callbacks of that session return late.
KeyMatchesState == \A p \in Peers :
    /\ state[p] = "active" => sessionKey[p] # NoKey
    /\ state[p] \in {"idle", "establishing", "peer_disconnected"}
          => sessionKey[p] = NoKey

\* Every armed timer belongs to an acknowledgement that is awaited, and is the
\* one its entry names: after an ack, a new session or the end of the chat
\* nothing is left that sends an old key or fails the session that followed.
TimersAreOwned == \A p \in Peers : \A t \in timers[p] :
    t[1] \in DOMAIN pending[p] /\ pending[p][t[1]].timeout = t[2]

\* Nothing is on its way or waited for, and no window reports a problem.
Quiet == \A p \in Peers :
    /\ enabled[p] /\ link[p] = "open"
    /\ net[p] = {} /\ tasks[p] = {} /\ DOMAIN pending[p] = {}
    /\ state[p] \in {"establishing", "active"}

\* README.md:130-147: the keys cross, each side derives the session key, and the
\* protected session is established.  So when the exchange has come to rest
\* both windows are active with one key.
ExchangeEstablishes ==
    Quiet => \A p, q \in Peers : /\ state[p] = "active"
                                 /\ sessionKey[p] = sessionKey[q]
=============================================================================
