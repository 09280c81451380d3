--------------------------- MODULE ChatSessionProofs ---------------------------
(***************************************************************************)
(* Proofs about ChatSession, for any number of sessions, retries and faults *)
(* and whatever may go wrong.  The keys and the timers are proved together:  *)
(* that a timer is owned rests on a key that is being generated or signed     *)
(* being new to pendingAcksRef, which rests on starts naming each key once.   *)
(***************************************************************************)
EXTENDS ChatSession, FiniteSetTheorems, TLAPS

\* Callbacks of startSession whose key has not been sent yet.
Unsent(p) == {t \in tasks[p] : t.step \in {"generate", "sign"}}

\* A callback holds the keys that its next step works with.
TasksHoldKeys == \A p \in Peers : \A t \in tasks[p] :
    /\ t.step \in {"generate", "sign", "derive"} => t.mine \in Keys
    /\ t.step \in {"verify", "derive"} => t.theirs \in Keys

\* A key is generated by one start and sent by one callback.
KeysAreSentOnce == \A p \in Peers :
    /\ DOMAIN pending[p] \subseteq 1 .. starts[p]
    /\ \A t \in Unsent(p) :
          /\ t.mine \in (1 .. starts[p]) \ DOMAIN pending[p]
          /\ \A u \in Unsent(p) : u.mine = t.mine => u = t

ChatInv == /\ ChatTypeOK /\ TasksHoldKeys /\ KeysAreSentOnce
           /\ KeyMatchesState /\ TimersAreOwned
\* The conjunct of the type invariant about the entries of pendingAcksRef.
PendingOK ==
    /\ DOMAIN pending = Peers
    /\ \A p \in Peers :
          /\ DOMAIN pending[p] \subseteq Keys
          /\ \A k \in DOMAIN pending[p] :
                pending[p][k] \in [retries : 0 .. AckMaxRetries - 1,
                                   timeout : {"ack", "retry"}]

-----------------------------------------------------------------------------
(* The helpers of the handlers.                                            *)

\* The two windows of a chat are each other's peers.
LEMMA OtherIsAPeer == \A p \in Peers : Other(p) \in Peers /\ Other(p) # p
<1> SUFFICES ASSUME NEW p \in Peers
             PROVE  Other(p) \in Peers /\ Other(p) # p
  OBVIOUS
<1>1. IsFiniteSet(Peers \ {p}) /\ Cardinality(Peers \ {p}) = 1
  BY ChatPeersAssumption, FS_RemoveElement
<1>2. Peers \ {p} # {}
  BY <1>1, FS_EmptySet
<1>3. \E q \in Peers : q # p
  BY <1>2
<1>4. QED
  BY <1>3 DEF Other

LEMMA FramesOfKeys ==
    /\ \A key \in Keys : Frame("ephemeral_key", key) \in Frames
    /\ \A key \in Keys : Frame("ack", key) \in Frames
    /\ Frame("peer_offline", None) \in Frames
    /\ Frame("peer_disconnected", None) \in Frames
BY DEF Frame, Frames

LEMMA SendKeepsType ==
    ASSUME ChatTypeOK, NEW p \in Peers, NEW f \in Frames, Send(p, f)
    PROVE  /\ net' \in [Peers -> SUBSET Frames]
           /\ accepted' \in [Peers -> SUBSET Keys]
<1>1. Other(p) \in Peers
  BY OtherIsAPeer
<1>2. f.type = "ephemeral_key" => f.key \in Keys
  BY DEF Frames
<1>3. QED
  BY <1>1, <1>2, FramesOfKeys DEF Send, ChatTypeOK, server

LEMMA DepartedKeepsType ==
    ASSUME ChatTypeOK, NEW p \in Peers, Departed(p)
    PROVE  net' \in [Peers -> SUBSET Frames]
BY OtherIsAPeer, FramesOfKeys DEF Departed, ChatTypeOK

\* Clearing the acknowledgements keeps the types and, when every armed timer is
\* owned, leaves no timer.
LEMMA ClearPendingAcksClears ==
    ASSUME ChatTypeOK, NEW p \in Peers, ClearPendingAcks(p)
    PROVE  /\ PendingOK' /\ DOMAIN pending'[p] = {}
           /\ \A q \in Peers \ {p} : pending'[q] = pending[q]
           /\ timers' \in [Peers -> SUBSET (Keys \X {"ack", "retry"})]
           /\ \A q \in Peers \ {p} : timers'[q] = timers[q]
           /\ TimersAreOwned => timers'[p] = {}
<1>1. pending' = [pending EXCEPT ![p] = <<>>]
  BY DEF ClearPendingAcks
<1>2. /\ DOMAIN pending' = Peers /\ DOMAIN pending'[p] = {}
      /\ \A q \in Peers \ {p} : pending'[q] = pending[q]
  BY <1>1 DEF ChatTypeOK
<1>3. timers' = [timers EXCEPT ![p] = @ \
                     {<<k, pending[p][k].timeout>> : k \in DOMAIN pending[p]}]
  BY DEF ClearPendingAcks
<1>4. /\ timers' \in [Peers -> SUBSET (Keys \X {"ack", "retry"})]
      /\ \A q \in Peers \ {p} : timers'[q] = timers[q]
  BY <1>3 DEF ChatTypeOK
<1>5. ASSUME TimersAreOwned, NEW t \in timers'[p]
      PROVE  FALSE
  <2>1. t \in timers[p] /\ t \in Keys \X {"ack", "retry"}
    BY <1>3, <1>5 DEF ChatTypeOK
  <2>2. t = <<t[1], pending[p][t[1]].timeout>> /\ t[1] \in DOMAIN pending[p]
    BY <2>1, <1>5 DEF TimersAreOwned
  <2>3. QED
    BY <1>3, <1>5, <2>1, <2>2 DEF ChatTypeOK
<1>6. PendingOK'
  BY <1>2 DEF PendingOK, ChatTypeOK
<1>7. QED
  BY <1>2, <1>4, <1>5, <1>6


-----------------------------------------------------------------------------
(* Every step keeps the types.                                             *)

LEMMA ChatInvInit == ChatInit => ChatInv
BY ChatBoundsAssumption
DEF ChatInit, ChatInv, ChatTypeOK, TasksHoldKeys, KeysAreSentOnce, Unsent,
    KeyMatchesState, TimersAreOwned, SessionStates, Keys, None

LEMMA AfterSendIsState ==
    ASSUME ChatTypeOK, NEW p \in Peers
    PROVE  AfterSend(p) \in SessionStates
BY DEF ChatTypeOK, AfterSend, SessionStates

LEMMA FaultIsCounted ==
    ASSUME ChatTypeOK, NEW kind, Fault(kind)
    PROVE  faults' \in 0 .. MaxFaults
BY ChatBoundsAssumption DEF ChatTypeOK, Fault

LEMMA ChatTypeNext ==
    ASSUME ChatTypeOK, TasksHoldKeys, [ChatNext]_chatVars
    PROVE  ChatTypeOK'
<1> USE DEF refs, acks, server, session, environment
<1> USE ChatBoundsAssumption, FramesOfKeys, OtherIsAPeer
<1>1. ASSUME NEW p \in Peers, StartSession(p)
      PROVE  ChatTypeOK'
  <2>1. [step |-> "generate", mine |-> starts[p] + 1, theirs |-> None] \in Tasks
    BY <1>1 DEF StartSession, EffectDue, ChatTypeOK, Tasks, Keys, None
  <2>2. tasks' \in [Peers -> SUBSET Tasks] /\ starts' \in [Peers -> 0 .. MaxStarts]
    BY <1>1, <2>1 DEF StartSession, EffectDue, ChatTypeOK
  <2>3. state' \in [Peers -> SessionStates]
    BY <1>1 DEF StartSession, ChatTypeOK, SessionStates
  <2>4. /\ sessionKey' \in [Peers -> [Peers -> Keys] \cup {NoKey}]
        /\ myEphemeralKey' \in [Peers -> Keys \cup {None}]
        /\ peerEphemeralKey' \in [Peers -> Keys \cup {None}]
    BY <1>1 DEF StartSession, ClearSession, ChatTypeOK
  <2>5. QED
    BY <1>1, <2>2, <2>3, <2>4, ClearPendingAcksClears
    DEF StartSession, PendingOK, ChatTypeOK
<1>2. ASSUME NEW p \in Peers, KeyGenerated(p)
      PROVE  ChatTypeOK'
  BY <1>2 DEF KeyGenerated, Continue, ChatTypeOK, Tasks, TasksHoldKeys
<1>3. ASSUME NEW p \in Peers, CallbackFails(p)
      PROVE  ChatTypeOK'
  BY <1>3, FaultIsCounted DEF CallbackFails, Continue, ChatTypeOK, SessionStates
<1>4. ASSUME NEW p \in Peers, KeySigned(p)
      PROVE  ChatTypeOK'
  <2>1. PICK t \in tasks[p] : KeySigned(p)!(t)
    BY <1>4 DEF KeySigned
  <2>2. t \in Tasks /\ t.mine \in Keys
    BY <2>1 DEF ChatTypeOK, TasksHoldKeys
  <2>3. [t EXCEPT !.step = "derive", !.theirs = peerEphemeralKey[p]] \in Tasks
    BY <2>2 DEF ChatTypeOK, Tasks
  <2>4. tasks' \in [Peers -> SUBSET Tasks]
    BY <2>1, <2>3 DEF Continue, ChatTypeOK
  <2>5. state' \in [Peers -> SessionStates]
    BY <2>1, AfterSendIsState DEF ChatTypeOK
  <2>6. PendingOK'
    BY <2>1, <2>2 DEF PendingOK, ChatTypeOK
  <2>7. timers' \in [Peers -> SUBSET (Keys \X {"ack", "retry"})]
    BY <2>1, <2>2 DEF ChatTypeOK
  <2>8. net' \in [Peers -> SUBSET Frames] /\ accepted' \in [Peers -> SUBSET Keys]
    BY <2>1, <2>2, SendKeepsType
  <2>9. QED
    BY <2>1, <2>4, <2>5, <2>6, <2>7, <2>8 DEF PendingOK, ChatTypeOK
<1>5. ASSUME NEW p \in Peers, KeyDerived(p)
      PROVE  ChatTypeOK'
  BY <1>5 DEF KeyDerived, Continue, ChatTypeOK, TasksHoldKeys, SessionStates
<1>6. ASSUME NEW p \in Peers, ReceiveEphemeralKey(p)
      PROVE  ChatTypeOK'
  <2>1. PICK f \in net[p] : ReceiveEphemeralKey(p)!(f)
    BY <1>6 DEF ReceiveEphemeralKey
  <2>2. [step |-> "verify", mine |-> None, theirs |-> f.key] \in Tasks
    BY <2>1 DEF ChatTypeOK, Frames, Tasks, None
  <2>3. tasks' \in [Peers -> SUBSET Tasks]
    BY <2>1, <2>2 DEF ChatTypeOK
  <2>4. /\ state' \in [Peers -> SessionStates]
        /\ sessionKey' \in [Peers -> [Peers -> Keys] \cup {NoKey}]
        /\ myEphemeralKey' \in [Peers -> Keys \cup {None}]
        /\ peerEphemeralKey' \in [Peers -> Keys \cup {None}]
    BY <2>1 DEF ClearSession, ChatTypeOK, SessionStates
  <2>5. QED
    BY <2>1, <2>3, <2>4 DEF ChatTypeOK
<1>7. ASSUME NEW p \in Peers, KeyVerified(p)
      PROVE  ChatTypeOK'
  <2>1. PICK t \in tasks[p] : KeyVerified(p)!(t)
    BY <1>7 DEF KeyVerified
  <2>2. t \in Tasks /\ t.theirs \in Keys
    BY <2>1 DEF ChatTypeOK, TasksHoldKeys
  <2>3. [t EXCEPT !.step = "derive", !.mine = myEphemeralKey[p]] \in Tasks
    BY <2>2 DEF ChatTypeOK, Tasks
  <2>4. tasks' \in [Peers -> SUBSET Tasks]
    BY <2>1, <2>3 DEF Continue, ChatTypeOK
  <2>5. state' \in [Peers -> SessionStates]
    BY <2>1, AfterSendIsState DEF ChatTypeOK
  <2>6. net' \in [Peers -> SUBSET Frames] /\ accepted' \in [Peers -> SUBSET Keys]
    BY <2>1, <2>2, SendKeepsType
  <2>7. QED
    BY <2>1, <2>2, <2>4, <2>5, <2>6 DEF ChatTypeOK
<1>8. ASSUME NEW p \in Peers, ReceiveAck(p)
      PROVE  ChatTypeOK'
  <2>1. PICK f \in net[p] : ReceiveAck(p)!(f)
    BY <1>8 DEF ReceiveAck
  <2>2. net' \in [Peers -> SUBSET Frames]
    BY <2>1 DEF ChatTypeOK
  <2>3. PendingOK'
    BY <2>1 DEF HandleAck, Without, PendingOK, ChatTypeOK
  <2>4. timers' \in [Peers -> SUBSET (Keys \X {"ack", "retry"})]
    BY <2>1 DEF HandleAck, ChatTypeOK
  <2>5. QED
    BY <2>1, <2>2, <2>3, <2>4 DEF PendingOK, ChatTypeOK
<1>9. ASSUME NEW p \in Peers, ReceivePeerOffline(p)
      PROVE  ChatTypeOK'
  <2>1. net' \in [Peers -> SUBSET Frames] /\ state' \in [Peers -> SessionStates]
    BY <1>9 DEF ReceivePeerOffline, ChatTypeOK, SessionStates
  <2>2. QED
    BY <1>9, <2>1, ClearPendingAcksClears DEF ReceivePeerOffline, PendingOK, ChatTypeOK
<1>10. ASSUME NEW p \in Peers, ReceivePeerDisconnected(p)
      PROVE  ChatTypeOK'
  BY <1>10 DEF ReceivePeerDisconnected, ClearSession, ChatTypeOK, SessionStates, None
<1>11. ASSUME NEW p \in Peers, AckTimeout(p)
      PROVE  ChatTypeOK'
  <2>1. PICK key \in Keys : AckTimeout(p)!(key)
    BY <1>11 DEF AckTimeout
  <2>2. faults' \in 0 .. MaxFaults
    BY <2>1, FaultIsCounted DEF ChatTypeOK
  <2>3. state' \in [Peers -> SessionStates]
    BY <2>1 DEF ChatTypeOK, SessionStates
  <2>4. timers' \in [Peers -> SUBSET (Keys \X {"ack", "retry"})]
    BY <2>1 DEF ChatTypeOK
  <2>5. PendingOK'
    <3>1. CASE key \notin DOMAIN pending[p]
      BY <2>1, <3>1 DEF PendingOK, ChatTypeOK
    <3>2. CASE key \in DOMAIN pending[p] /\ GivesUp(p, key)
      BY <2>1, <3>2 DEF Without, PendingOK, ChatTypeOK
    <3>3. CASE key \in DOMAIN pending[p] /\ ~GivesUp(p, key)
      <4>1. pending' = [pending EXCEPT ![p][key] =
                           [retries |-> @.retries + 1, timeout |-> "retry"]]
        BY <2>1, <3>3
      <4>2. pending[p][key].retries + 1 \in 0 .. AckMaxRetries - 1
        BY <3>3 DEF GivesUp, ChatTypeOK
      <4>3. QED
        BY <4>1, <4>2, <3>3 DEF PendingOK, ChatTypeOK
    <3>4. QED
      BY <3>1, <3>2, <3>3
  <2>6. QED
    BY <2>1, <2>2, <2>3, <2>4, <2>5 DEF PendingOK, ChatTypeOK
<1>12. ASSUME NEW p \in Peers, RetryFires(p)
      PROVE  ChatTypeOK'
  BY <1>12, SendKeepsType, AfterSendIsState DEF RetryFires, ChatTypeOK
<1>13. ASSUME NEW p \in Peers, Enable(p) \/ LinkUp(p)
      PROVE  ChatTypeOK'
  BY <1>13 DEF Enable, LinkUp, ChatTypeOK
<1>14. ASSUME NEW p \in Peers, LinkDown(p)
      PROVE  ChatTypeOK'
  BY <1>14, FaultIsCounted, DepartedKeepsType DEF LinkDown, ChatTypeOK, SessionStates
<1>15. ASSUME NEW p \in Peers, Disable(p) \/ Remount(p)
      PROVE  ChatTypeOK'
  <2>1. /\ state' \in [Peers -> SessionStates]
        /\ sessionKey' \in [Peers -> [Peers -> Keys] \cup {NoKey}]
        /\ myEphemeralKey' \in [Peers -> Keys \cup {None}]
        /\ peerEphemeralKey' \in [Peers -> Keys \cup {None}]
    <3>1. ResetSession(p)
      BY <1>15 DEF Disable, Remount
    <3>2. QED
      BY <3>1 DEF ResetSession, ClearSession, ChatTypeOK, SessionStates
  <2>2. /\ enabled' \in [Peers -> BOOLEAN]
        /\ link' \in [Peers -> {"none", "closed", "open"}]
        /\ tasks' \in [Peers -> SUBSET Tasks]
    <3>1. CASE Disable(p)
      BY <3>1 DEF Disable, ChatTypeOK
    <3>2. CASE Remount(p)
      BY <3>2 DEF Remount, ChatTypeOK
    <3>3. QED
      BY <1>15, <3>1, <3>2
  <2>3. /\ faults' \in 0 .. MaxFaults /\ net' \in [Peers -> SUBSET Frames]
    BY <1>15, FaultIsCounted, DepartedKeepsType DEF Disable, Remount
  <2>4. ClearPendingAcks(p) /\ UNCHANGED <<accepted, starts>>
    BY <1>15 DEF Disable, Remount, ResetSession
  <2>5. PendingOK' /\ timers' \in [Peers -> SUBSET (Keys \X {"ack", "retry"})]
    BY <2>4, ClearPendingAcksClears
  <2>6. QED
    BY <2>1, <2>2, <2>3, <2>4, <2>5 DEF PendingOK, ChatTypeOK
<1>16. ASSUME NEW p \in Peers, DisabledEffect(p)
      PROVE  ChatTypeOK'
  BY <1>16, ClearPendingAcksClears
  DEF DisabledEffect, ResetSession, ClearSession, PendingOK, ChatTypeOK, SessionStates,
      None
<1>17. ASSUME NEW p \in Peers, LoseFrame(p)
      PROVE  ChatTypeOK'
  BY <1>17, FaultIsCounted DEF LoseFrame, ChatTypeOK
<1>18. CASE UNCHANGED chatVars
  BY <1>18 DEF chatVars, ChatTypeOK
<1>19. QED
  BY <1>1, <1>2, <1>3, <1>4, <1>5, <1>6, <1>7, <1>8, <1>9, <1>10, <1>11, <1>12, <1>13, <1>14, <1>15, <1>16, <1>17, <1>18
  DEF ChatNext, SessionStep

-----------------------------------------------------------------------------
(* The callbacks and their keys.                                           *)

LEMMA TasksHoldKeysNext ==
    ASSUME ChatTypeOK, TasksHoldKeys, [ChatNext]_chatVars
    PROVE  TasksHoldKeys'
<1> USE DEF refs, acks, server, session, environment
<1>1. ASSUME NEW p \in Peers,
             \A t \in tasks'[p] \ tasks[p] :
                /\ t.step \in {"generate", "sign", "derive"} => t.mine \in Keys
                /\ t.step \in {"verify", "derive"} => t.theirs \in Keys,
             \A q \in Peers \ {p} : tasks'[q] = tasks[q]
      PROVE  TasksHoldKeys'
  BY <1>1 DEF TasksHoldKeys
<1>2. ASSUME NEW p \in Peers, StartSession(p)
      PROVE  TasksHoldKeys'
  <2>1. starts[p] + 1 \in Keys
    BY <1>2, ChatBoundsAssumption DEF StartSession, EffectDue, ChatTypeOK, Keys
  <2>2. QED
    BY <1>1, <1>2, <2>1 DEF StartSession, ChatTypeOK
<1>3. ASSUME NEW p \in Peers, KeyGenerated(p)
      PROVE  TasksHoldKeys'
  <2>1. PICK t \in tasks[p] : t.step = "generate"
                              /\ Continue(p, t, {[t EXCEPT !.step = "sign"]})
    BY <1>3 DEF KeyGenerated
  <2>2. t \in Tasks /\ t.mine \in Keys
    BY <2>1 DEF ChatTypeOK, TasksHoldKeys
  <2>3. QED
    BY <1>1, <2>1, <2>2 DEF Continue, ChatTypeOK, Tasks
<1>4. ASSUME NEW p \in Peers, KeySigned(p)
      PROVE  TasksHoldKeys'
  <2>1. PICK t \in tasks[p] :
          /\ t.step = "sign"
          /\ Continue(p, t, IF peerEphemeralKey[p] = None THEN {}
                            ELSE {[t EXCEPT !.step = "derive",
                                            !.theirs = peerEphemeralKey[p]]})
    BY <1>4 DEF KeySigned
  <2>2. t \in Tasks /\ t.mine \in Keys
    BY <2>1 DEF ChatTypeOK, TasksHoldKeys
  <2>3. peerEphemeralKey[p] # None => peerEphemeralKey[p] \in Keys
    BY DEF ChatTypeOK
  <2> DEFINE d == [t EXCEPT !.step = "derive", !.theirs = peerEphemeralKey[p]]
  <2>4. d.step = "derive" /\ d.mine = t.mine /\ d.theirs = peerEphemeralKey[p]
    BY <2>2 DEF Tasks
  <2>5. /\ tasks'[p] \ tasks[p] \subseteq {d}
        /\ tasks'[p] # tasks[p] \ {t} => peerEphemeralKey[p] # None
        /\ \A q \in Peers \ {p} : tasks'[q] = tasks[q]
    BY <2>1 DEF Continue, ChatTypeOK
  <2> HIDE DEF d
  <2>6. QED
    BY <1>1, <2>2, <2>3, <2>4, <2>5
<1>5. ASSUME NEW p \in Peers, ReceiveEphemeralKey(p)
      PROVE  TasksHoldKeys'
  <2>1. PICK f \in net[p] :
          /\ f.type = "ephemeral_key"
          /\ tasks' = [tasks EXCEPT ![p] = @ \cup
                {[step |-> "verify", mine |-> None, theirs |-> f.key]}]
    BY <1>5 DEF ReceiveEphemeralKey
  <2>2. f.key \in Keys
    BY <2>1 DEF ChatTypeOK, Frames
  <2>3. QED
    BY <1>1, <2>1, <2>2 DEF ChatTypeOK
<1>6. ASSUME NEW p \in Peers, KeyVerified(p)
      PROVE  TasksHoldKeys'
  <2>1. PICK t \in tasks[p] :
          /\ t.step = "verify"
          /\ Continue(p, t, IF myEphemeralKey[p] = None THEN {}
                            ELSE {[t EXCEPT !.step = "derive",
                                            !.mine = myEphemeralKey[p]]})
    BY <1>6 DEF KeyVerified
  <2>2. t \in Tasks /\ t.theirs \in Keys
    BY <2>1 DEF ChatTypeOK, TasksHoldKeys
  <2>3. myEphemeralKey[p] # None => myEphemeralKey[p] \in Keys
    BY DEF ChatTypeOK
  <2> DEFINE d == [t EXCEPT !.step = "derive", !.mine = myEphemeralKey[p]]
  <2>4. d.step = "derive" /\ d.theirs = t.theirs /\ d.mine = myEphemeralKey[p]
    BY <2>2 DEF Tasks
  <2>5. /\ tasks'[p] \ tasks[p] \subseteq {d}
        /\ tasks'[p] # tasks[p] \ {t} => myEphemeralKey[p] # None
        /\ \A q \in Peers \ {p} : tasks'[q] = tasks[q]
    BY <2>1 DEF Continue, ChatTypeOK
  <2> HIDE DEF d
  <2>6. QED
    BY <1>1, <2>2, <2>3, <2>4, <2>5
<1>7. ASSUME NEW p \in Peers, KeyDerived(p) \/ CallbackFails(p) \/ Remount(p)
      PROVE  TasksHoldKeys'
  BY <1>1, <1>7 DEF KeyDerived, CallbackFails, Remount, Continue, ChatTypeOK
<1>8. CASE UNCHANGED tasks
  BY <1>8 DEF TasksHoldKeys
<1>9. ASSUME NEW p \in Peers,
             \/ DisabledEffect(p) \/ LinkUp(p) \/ ReceiveAck(p)
             \/ ReceivePeerOffline(p) \/ ReceivePeerDisconnected(p)
             \/ AckTimeout(p) \/ RetryFires(p)
             \/ Enable(p) \/ LinkDown(p) \/ Disable(p) \/ LoseFrame(p)
      PROVE  TasksHoldKeys'
  BY <1>8, <1>9
  DEF DisabledEffect, LinkUp, ReceiveAck, ReceivePeerOffline,
      ReceivePeerDisconnected, AckTimeout, RetryFires, Enable, LinkDown,
      Disable, LoseFrame
<1>10. QED
  BY <1>2, <1>3, <1>4, <1>5, <1>6, <1>7, <1>8, <1>9
  DEF ChatNext, SessionStep, chatVars

\* An unsent key stays new to pendingAcksRef until KeySigned enters it there.
LEMMA KeysAreSentOnceNext ==
    ASSUME ChatTypeOK, TasksHoldKeys, KeysAreSentOnce, [ChatNext]_chatVars
    PROVE  KeysAreSentOnce'
<1> USE DEF refs, acks, server, session, environment
<1>1. ASSUME NEW p \in Peers, UNCHANGED starts,
             Unsent(p)' \subseteq Unsent(p),
             DOMAIN pending'[p] \subseteq DOMAIN pending[p],
             \A q \in Peers \ {p} :
                pending'[q] = pending[q] /\ tasks'[q] = tasks[q]
      PROVE  KeysAreSentOnce'
  BY <1>1 DEF KeysAreSentOnce, Unsent
<1>2. ASSUME NEW p \in Peers, StartSession(p)
      PROVE  KeysAreSentOnce'
  <2>1. /\ starts[p] + 1 \in 1 .. starts'[p]
        /\ 1 .. starts[p] \subseteq 1 .. starts'[p]
        /\ starts[p] + 1 \notin 1 .. starts[p]
        /\ \A q \in Peers \ {p} : starts'[q] = starts[q]
    BY <1>2 DEF StartSession, ChatTypeOK
  <2>2. DOMAIN pending'[p] = {} /\ \A q \in Peers \ {p} : pending'[q] = pending[q]
    BY <1>2, ClearPendingAcksClears DEF StartSession
  <2>3. /\ Unsent(p)' = Unsent(p) \cup
              {[step |-> "generate", mine |-> starts[p] + 1, theirs |-> None]}
        /\ \A q \in Peers \ {p} : Unsent(q)' = Unsent(q)
    BY <1>2 DEF StartSession, ChatTypeOK, Unsent
  <2>4. QED
    BY <2>1, <2>2, <2>3 DEF KeysAreSentOnce
<1>3. ASSUME NEW p \in Peers, KeyGenerated(p)
      PROVE  KeysAreSentOnce'
  <2>1. PICK t \in tasks[p] : t.step = "generate"
                              /\ Continue(p, t, {[t EXCEPT !.step = "sign"]})
    BY <1>3 DEF KeyGenerated
  <2> DEFINE s == [t EXCEPT !.step = "sign"]
  <2>2. t \in Unsent(p) /\ s.mine = t.mine /\ s.step = "sign"
    BY <2>1 DEF Unsent, ChatTypeOK, Tasks
  <2>3. /\ Unsent(p)' = (Unsent(p) \ {t}) \cup {s}
        /\ \A q \in Peers \ {p} : Unsent(q)' = Unsent(q)
    BY <2>1, <2>2 DEF Continue, ChatTypeOK, Unsent
  <2>4. UNCHANGED <<pending, starts>>
    BY <1>3 DEF KeyGenerated
  <2> HIDE DEF s
  <2>5. QED
    BY <2>2, <2>3, <2>4 DEF KeysAreSentOnce
<1>4. ASSUME NEW p \in Peers, KeySigned(p)
      PROVE  KeysAreSentOnce'
  <2>1. PICK t \in tasks[p] : KeySigned(p)!(t)
    BY <1>4 DEF KeySigned
  <2>2. t \in Unsent(p) /\ t \in Tasks
    BY <2>1 DEF Unsent, ChatTypeOK
  <2>3. [t EXCEPT !.step = "derive", !.theirs = peerEphemeralKey[p]].step = "derive"
    BY <2>2 DEF Tasks
  <2>4. /\ Unsent(p)' = Unsent(p) \ {t}
        /\ \A q \in Peers \ {p} : Unsent(q)' = Unsent(q)
    BY <2>1, <2>3 DEF Continue, ChatTypeOK, Unsent
  <2>5. /\ DOMAIN pending'[p] = DOMAIN pending[p] \cup {t.mine}
        /\ \A q \in Peers \ {p} : pending'[q] = pending[q]
    BY <2>1 DEF ChatTypeOK
  <2>6. QED
    BY <2>1, <2>2, <2>4, <2>5 DEF KeysAreSentOnce
<1>5. ASSUME NEW p \in Peers, KeyVerified(p)
      PROVE  KeysAreSentOnce'
  <2>1. PICK t \in tasks[p] : KeyVerified(p)!(t)
    BY <1>5 DEF KeyVerified
  <2>2. [t EXCEPT !.step = "derive", !.mine = myEphemeralKey[p]].step = "derive"
    BY <2>1 DEF ChatTypeOK, Tasks
  <2>3. Unsent(p)' = Unsent(p) /\ \A q \in Peers \ {p} : tasks'[q] = tasks[q]
    BY <2>1, <2>2 DEF Continue, ChatTypeOK, Unsent
  <2>4. QED
    BY <1>1, <2>1, <2>3
<1>6. ASSUME NEW p \in Peers, ReceiveEphemeralKey(p)
      PROVE  KeysAreSentOnce'
  BY <1>1, <1>6 DEF ReceiveEphemeralKey, ChatTypeOK, Unsent
<1>7. ASSUME NEW p \in Peers, KeyDerived(p) \/ CallbackFails(p)
      PROVE  KeysAreSentOnce'
  BY <1>1, <1>7 DEF KeyDerived, CallbackFails, Continue, ChatTypeOK, Unsent
<1>8. ASSUME NEW p \in Peers, ClearPendingAcks(p), UNCHANGED starts,
             tasks' \in {tasks, [tasks EXCEPT ![p] = {}]}
      PROVE  KeysAreSentOnce'
  BY <1>1, <1>8, ClearPendingAcksClears DEF ChatTypeOK, Unsent
<1>9. ASSUME NEW p \in Peers,
             \/ DisabledEffect(p) \/ ReceivePeerOffline(p) \/ Disable(p)
             \/ Remount(p)
      PROVE  KeysAreSentOnce'
  BY <1>8, <1>9
  DEF DisabledEffect, ReceivePeerOffline, Disable, Remount, ResetSession
<1>10. ASSUME NEW p \in Peers, ReceiveAck(p) \/ AckTimeout(p) \/ RetryFires(p)
      PROVE  KeysAreSentOnce'
  <2>1. UNCHANGED <<tasks, starts>> /\ Unsent(p)' = Unsent(p)
    BY <1>10 DEF ReceiveAck, AckTimeout, RetryFires, Unsent
  <2>2. /\ \A q \in Peers \ {p} : pending'[q] = pending[q]
        /\ DOMAIN pending'[p] \subseteq DOMAIN pending[p]
    <3>1. CASE ReceiveAck(p)
      BY <3>1 DEF ReceiveAck, HandleAck, Without, ChatTypeOK
    <3>2. CASE AckTimeout(p)
      <4>1. PICK key \in Keys : AckTimeout(p)!(key)
        BY <3>2 DEF AckTimeout
      <4>2. QED
        BY <4>1 DEF Without, ChatTypeOK
    <3>3. CASE RetryFires(p)
      <4>1. PICK key \in Keys : RetryFires(p)!(key)
        BY <3>3 DEF RetryFires
      <4>2. QED
        BY <4>1 DEF ChatTypeOK
    <3>4. QED
      BY <1>10, <3>1, <3>2, <3>3
  <2>3. QED
    BY <1>1, <2>1, <2>2
<1>11. CASE UNCHANGED <<tasks, pending, starts>>
  BY <1>11 DEF KeysAreSentOnce, Unsent
<1>12. ASSUME NEW p \in Peers,
              \/ LinkUp(p) \/ ReceivePeerDisconnected(p) \/ Enable(p)
              \/ LinkDown(p) \/ LoseFrame(p)
      PROVE  KeysAreSentOnce'
  BY <1>11, <1>12
  DEF LinkUp, ReceivePeerDisconnected, Enable, LinkDown, LoseFrame
<1>13. QED
  BY <1>2, <1>3, <1>4, <1>5, <1>6, <1>7, <1>9, <1>10, <1>11, <1>12
  DEF ChatNext, SessionStep, chatVars

-----------------------------------------------------------------------------
(* The session key and the state of a window.                              *)

LEMMA KeyMatchesStateNext ==
    ASSUME ChatTypeOK, TasksHoldKeys, KeyMatchesState, [ChatNext]_chatVars
    PROVE  KeyMatchesState'
<1> USE DEF refs, acks, server, session, environment
\* Steps that end in a state of no concern, or keep state and key.
<1>1. ASSUME NEW p \in Peers, UNCHANGED sessionKey,
             \/ state' = state
             \/ \E s \in {"error", "peer_offline"} : state' = [state EXCEPT ![p] = s]
      PROVE  KeyMatchesState'
  BY <1>1 DEF KeyMatchesState, ChatTypeOK
\* Steps that forget the key.
<1>2. ASSUME NEW p \in Peers, ClearSession(p),
             \E s \in {"idle", "establishing", "peer_disconnected"} :
                state' = [state EXCEPT ![p] = s]
      PROVE  KeyMatchesState'
  BY <1>2 DEF KeyMatchesState, ChatTypeOK, ClearSession
<1>3. ASSUME NEW p \in Peers,
             \/ StartSession(p) \/ ReceivePeerDisconnected(p)
             \/ DisabledEffect(p) \/ Disable(p) \/ Remount(p)
      PROVE  KeyMatchesState'
  BY <1>2, <1>3
  DEF StartSession, ReceivePeerDisconnected, DisabledEffect, Disable, Remount,
      ResetSession
<1>4. ASSUME NEW p \in Peers, KeyDerived(p)
      PROVE  KeyMatchesState'
  <2>1. PICK t \in tasks[p] : KeyDerived(p)!(t)
    BY <1>4 DEF KeyDerived
  <2>2. t.mine \in Keys /\ t.theirs \in Keys
    BY <2>1 DEF TasksHoldKeys
  <2>3. [q \in Peers |-> IF q = p THEN t.mine ELSE t.theirs] # NoKey
    BY <2>2, ChatKeyAssumption DEF Keys
  <2>4. QED
    BY <2>1, <2>3 DEF KeyMatchesState, ChatTypeOK
<1>5. ASSUME NEW p \in Peers, ReceiveEphemeralKey(p)
      PROVE  KeyMatchesState'
  BY <1>1, <1>2, <1>5 DEF ReceiveEphemeralKey
<1>6. ASSUME NEW p \in Peers, state' = [state EXCEPT ![p] = AfterSend(p)],
             UNCHANGED sessionKey
      PROVE  KeyMatchesState'
  BY <1>1, <1>6 DEF AfterSend, ChatTypeOK
<1>7. ASSUME NEW p \in Peers, KeySigned(p) \/ KeyVerified(p) \/ RetryFires(p)
      PROVE  KeyMatchesState'
  BY <1>6, <1>7 DEF KeySigned, KeyVerified, RetryFires
<1>8. ASSUME NEW p \in Peers,
             \/ KeyGenerated(p) \/ CallbackFails(p) \/ ReceiveAck(p)
             \/ ReceivePeerOffline(p) \/ AckTimeout(p) \/ Enable(p)
             \/ LinkUp(p) \/ LinkDown(p) \/ LoseFrame(p)
      PROVE  KeyMatchesState'
  BY <1>1, <1>8
  DEF KeyGenerated, CallbackFails, ReceiveAck, ReceivePeerOffline, AckTimeout,
      Enable, LinkUp, LinkDown, LoseFrame
<1>9. CASE UNCHANGED chatVars
  BY <1>9 DEF chatVars, KeyMatchesState
<1>10. QED
  BY <1>3, <1>4, <1>5, <1>7, <1>8, <1>9 DEF ChatNext, SessionStep

-----------------------------------------------------------------------------
(* The timers and the acknowledgements.                                    *)

LEMMA TimersAreOwnedNext ==
    ASSUME ChatTypeOK, TasksHoldKeys, KeysAreSentOnce, TimersAreOwned,
           [ChatNext]_chatVars
    PROVE  TimersAreOwned'
<1> USE DEF refs, acks, server, session, environment
<1>1. \A p \in Peers : \A t \in timers[p] :
          t = <<t[1], t[2]>> /\ t[1] \in Keys /\ t[2] \in {"ack", "retry"}
  BY DEF ChatTypeOK
<1>2. CASE UNCHANGED acks
  BY <1>2 DEF TimersAreOwned
<1>3. ASSUME NEW p \in Peers, ClearPendingAcks(p)
      PROVE  TimersAreOwned'
  BY <1>3, ClearPendingAcksClears DEF TimersAreOwned
<1>4. ASSUME NEW p \in Peers,
             \/ StartSession(p) \/ ReceivePeerOffline(p)
             \/ DisabledEffect(p) \/ Disable(p) \/ Remount(p)
      PROVE  TimersAreOwned'
  BY <1>3, <1>4
  DEF StartSession, ReceivePeerOffline, DisabledEffect, Disable, Remount,
      ResetSession
<1>5. ASSUME NEW p \in Peers, KeySigned(p)
      PROVE  TimersAreOwned'
  <2>1. PICK t \in tasks[p] : KeySigned(p)!(t)
    BY <1>5 DEF KeySigned
  <2>2. t.mine \notin DOMAIN pending[p]
    BY <2>1 DEF KeysAreSentOnce, Unsent
  <2>3. /\ pending'[p] = [k \in DOMAIN pending[p] \cup {t.mine} |->
              IF k = t.mine THEN [retries |-> 0, timeout |-> "ack"]
              ELSE pending[p][k]]
        /\ timers'[p] = timers[p] \cup {<<t.mine, "ack">>}
        /\ \A q \in Peers \ {p} :
              pending'[q] = pending[q] /\ timers'[q] = timers[q]
    BY <2>1 DEF ChatTypeOK
  <2>4. QED
    BY <2>2, <2>3 DEF TimersAreOwned
<1>6. ASSUME NEW p \in Peers, ReceiveAck(p)
      PROVE  TimersAreOwned'
  <2>1. PICK f \in net[p] : HandleAck(p, f.key)
    BY <1>6 DEF ReceiveAck
  <2>2. CASE f.key \in DOMAIN pending[p]
    <3>1. /\ pending'[p] = Without(pending[p], f.key)
          /\ timers'[p] = timers[p] \ {<<f.key, pending[p][f.key].timeout>>}
          /\ \A q \in Peers \ {p} :
                pending'[q] = pending[q] /\ timers'[q] = timers[q]
      BY <2>1, <2>2 DEF HandleAck, ChatTypeOK
    <3>2. \A t \in timers'[p] : t[1] # f.key
      BY <1>1, <3>1 DEF TimersAreOwned
    <3>3. QED
      BY <3>1, <3>2 DEF TimersAreOwned, Without
  <2>3. QED
    BY <1>2, <2>1, <2>2 DEF HandleAck
<1>7. ASSUME NEW p \in Peers, AckTimeout(p)
      PROVE  TimersAreOwned'
  <2>1. PICK key \in Keys : AckTimeout(p)!(key)
    BY <1>7 DEF AckTimeout
  <2>2. key \in DOMAIN pending[p]
    BY <2>1 DEF TimersAreOwned
  <2>3. \A t \in timers[p] : t[1] = key => t = <<key, "ack">>
    BY <1>1, <2>1 DEF TimersAreOwned
  <2>4. \A q \in Peers \ {p} : pending'[q] = pending[q] /\ timers'[q] = timers[q]
    BY <2>1 DEF ChatTypeOK
  <2>5. CASE GivesUp(p, key)
    <3>1. /\ pending'[p] = Without(pending[p], key)
          /\ timers'[p] = timers[p] \ {<<key, "ack">>}
      BY <2>1, <2>2, <2>5 DEF ChatTypeOK
    <3>2. QED
      BY <2>3, <2>4, <3>1 DEF TimersAreOwned, Without
  <2>6. CASE ~GivesUp(p, key)
    <3>1. /\ pending'[p] = [pending[p] EXCEPT ![key] =
                               [retries |-> @.retries + 1, timeout |-> "retry"]]
          /\ timers'[p] = (timers[p] \ {<<key, "ack">>}) \cup {<<key, "retry">>}
      BY <2>1, <2>2, <2>6 DEF ChatTypeOK
    <3>2. QED
      BY <2>2, <2>3, <2>4, <3>1 DEF TimersAreOwned
  <2>7. QED
    BY <2>5, <2>6
<1>8. ASSUME NEW p \in Peers, RetryFires(p)
      PROVE  TimersAreOwned'
  <2>1. PICK key \in Keys : RetryFires(p)!(key)
    BY <1>8 DEF RetryFires
  <2>2. key \in DOMAIN pending[p] /\ pending[p][key] \in
            [retries : 0 .. AckMaxRetries - 1, timeout : {"ack", "retry"}]
    BY <2>1 DEF TimersAreOwned, ChatTypeOK
  <2>3. \A t \in timers[p] : t[1] = key => t = <<key, "retry">>
    BY <1>1, <2>1 DEF TimersAreOwned
  <2>4. /\ pending'[p] = [pending[p] EXCEPT ![key] = [@ EXCEPT !.timeout = "ack"]]
        /\ timers'[p] = (timers[p] \ {<<key, "retry">>}) \cup {<<key, "ack">>}
        /\ \A q \in Peers \ {p} :
              pending'[q] = pending[q] /\ timers'[q] = timers[q]
    BY <2>1, <2>2 DEF ChatTypeOK
  <2>5. QED
    BY <2>2, <2>3, <2>4 DEF TimersAreOwned
<1>9. ASSUME NEW p \in Peers,
             \/ KeyGenerated(p) \/ CallbackFails(p) \/ KeyDerived(p)
             \/ ReceiveEphemeralKey(p) \/ KeyVerified(p)
             \/ ReceivePeerDisconnected(p) \/ Enable(p)
             \/ LinkUp(p) \/ LinkDown(p) \/ LoseFrame(p)
      PROVE  TimersAreOwned'
  BY <1>2, <1>9
  DEF KeyGenerated, CallbackFails, KeyDerived, ReceiveEphemeralKey, KeyVerified,
      ReceivePeerDisconnected, Enable, LinkUp, LinkDown, LoseFrame
<1>10. CASE UNCHANGED chatVars
  BY <1>2, <1>10 DEF chatVars
<1>11. QED
  BY <1>4, <1>5, <1>6, <1>7, <1>8, <1>9, <1>10 DEF ChatNext, SessionStep

-----------------------------------------------------------------------------
(* The theorems.                                                           *)

LEMMA ChatInvHolds == ChatSpec => []ChatInv
<1>1. ChatInv /\ [ChatNext]_chatVars => ChatInv'
  BY ChatTypeNext, TasksHoldKeysNext, KeysAreSentOnceNext, KeyMatchesStateNext,
     TimersAreOwnedNext
  DEF ChatInv
<1>2. QED
  BY <1>1, ChatInvInit, PTL DEF ChatSpec

\* The refs, callbacks, timers and frames of both windows always have the values
\* their code gives them (useChatSession.ts, useAckManager.ts).
THEOREM ChatTypeOKHolds == ChatSpec => []ChatTypeOK
BY ChatInvHolds, PTL DEF ChatInv

\* A window that shows an active session can encrypt, and no key of an earlier
\* session is left in one that is idle, is establishing or has lost its peer, in
\* whatever order callbacks, frames and faults come (useChatSession.ts).
THEOREM KeyMatchesStateHolds == ChatSpec => []KeyMatchesState
BY ChatInvHolds, PTL DEF ChatInv

\* No timer is left behind by an acknowledgement, a new session or the end of
\* the chat: each belongs to the entry that names it (useAckManager.ts).
THEOREM TimersAreOwnedHolds == ChatSpec => []TimersAreOwned
BY ChatInvHolds, PTL DEF ChatInv
================================================================================
