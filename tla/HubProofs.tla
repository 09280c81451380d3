----------------------------- MODULE HubProofs -----------------------------
(***************************************************************************)
(* Proofs about Hub for every set of connections, users and workers, every *)
(* limit and buffer size.                                                  *)
(***************************************************************************)
EXTENDS Hub, FiniteSetTheorems, TLAPS

\* The connection a goroutine is handling is one, where its code uses it.
ControlOK ==
    /\ hubPC \notin {"select", "stopped"} => hubConn \in Conns
    /\ hubPC = "replace" => hubOld \in Conns
    /\ \A g \in Goroutines : sdPC[g] \in {"notify", "wait"} => sdConn[g] \in Conns
    /\ \A w \in Workers : workerPC[w] = "sending" => workerTo[w] \in Conns

TypeInv == TypeOK /\ ControlOK

LEMMA TypeInvInit == Init => TypeInv
<1> SUFFICES ASSUME Init
             PROVE  TypeInv
  OBVIOUS
<1>1. sendq \in [Conns -> 0..SendBufSize]
  BY LimitsAssumption DEF Init
<1>2. TypeOK
  <2>1. /\ clients \in [Users -> Conns \cup {None}]
        /\ reader \in [Conns -> ReaderStates]
        /\ writer \in [Conns -> {"none", "running", "done"}]
        /\ workerPC \in [Workers -> {"idle", "sending", "dead"}]
        /\ workerTo \in [Workers -> Conns \cup {None}]
    BY DEF Init, ReaderStates
  <2>2. /\ sdPC \in [Goroutines -> ShutdownStates]
        /\ sdTodo \in [Goroutines -> SUBSET Conns]
        /\ sdConn \in [Goroutines -> Conns \cup {None}]
    BY DEF Init, ShutdownStates
  <2>3. /\ clientCount \in Int
        /\ hubPC \in HubStates
        /\ hubConn \in Conns \cup {None}
        /\ hubOld \in Conns \cup {None}
        /\ hubNotify \in SUBSET Users
        /\ ctxDone \in SUBSET Conns
        /\ closed \in SUBSET Conns
        /\ connOpen \in SUBSET Conns
        /\ expired \in SUBSET Goroutines
    BY DEF Init, HubStates
  <2>4. crashed \in BOOLEAN
    BY DEF Init
  <2>5. QED
    BY <1>1, <2>1, <2>2, <2>3, <2>4 DEF TypeOK
<1>3. ControlOK
  BY DEF Init, ControlOK, Goroutines
<1>4. QED
  BY <1>2, <1>3 DEF TypeInv

LEMMA TypeInvHub == TypeInv /\ HubStep => TypeInv'
<1> USE ConnsAssumption, OwnerAssumption, LimitsAssumption
    DEF TypeInv, TypeOK, ControlOK, HubStates, ReaderStates, ShutdownStates,
        Goroutines, hubVars, connVars, workerVars, sdVars
<1>1. ASSUME TypeInv, NEW c \in Conns, HubReceiveRegister(c)
      PROVE  TypeInv'
  BY <1>1 DEF HubReceiveRegister
<1>2. TypeInv /\ HubReplace => TypeInv'
  BY DEF HubReplace
<1>3. ASSUME TypeInv, HubAdmit
      PROVE  TypeInv'
  <2>1. hubConn \in Conns
    BY <1>3 DEF HubAdmit
  <2>2. TypeOK'
    BY <1>3, <2>1 DEF HubAdmit
  <2>3. ControlOK'
    BY <1>3, <2>1 DEF HubAdmit
  <2>4. QED
    BY <2>2, <2>3
<1>4. TypeInv /\ HubReject => TypeInv'
  BY DEF HubReject
<1>5. ASSUME TypeInv, NEW c \in Conns, NEW R \in SUBSET Users,
             HubReceiveUnregister(c, R)
      PROVE  TypeInv'
  BY <1>5 DEF HubReceiveUnregister
<1>6. ASSUME TypeInv, NEW u \in Users, HubNotifyFailed(u)
      PROVE  TypeInv'
  <2>1. clients[u] # None => clients[u] \in Conns
    BY <1>6
  <2>2. sendq' \in [Conns -> 0..SendBufSize]
    BY <1>6, <2>1 DEF HubNotifyFailed, HasRoom
  <2>3. crashed' \in BOOLEAN
    BY <1>6 DEF HubNotifyFailed
  <2>4. QED
    BY <1>6, <2>2, <2>3 DEF HubNotifyFailed
<1>7. TypeInv /\ HubCloseUnregistered => TypeInv'
  BY DEF HubCloseUnregistered
<1>8. TypeInv /\ HubBroadcast => TypeInv'
  BY DEF HubBroadcast, HasRoom
<1>9. TypeInv /\ RunCtxDone => TypeInv'
  BY DEF RunCtxDone, ShutdownStart, RegisteredConns, Registered
<1>10. QED
  BY <1>1, <1>2, <1>3, <1>4, <1>5, <1>6, <1>7, <1>8, <1>9 DEF HubStep

LEMMA TypeInvConn ==
    ASSUME TypeInv, NEW c \in Conns, ConnStep(c)
    PROVE  TypeInv'
<1> USE ConnsAssumption, LimitsAssumption
    DEF TypeInv, TypeOK, ControlOK, HubStates, ReaderStates, ShutdownStates,
        Goroutines, hubVars, connVars, workerVars, sdVars
<1>1. ASSUME NEW way \in AuthWays, Connect(c, way)
      PROVE  TypeInv'
  BY <1>1 DEF Connect
<1>2. CASE HandlerStart(c)
  BY <1>2 DEF HandlerStart
<1>3. CASE Authenticate(c)
  BY <1>3 DEF Authenticate, HasRoom
<1>4. CASE PeerLeaves(c)
  BY <1>4 DEF PeerLeaves
<1>5. CASE UnauthenticatedExit(c)
  BY <1>5 DEF UnauthenticatedExit
<1>6. CASE ReaderExit(c)
  BY <1>6 DEF ReaderExit
<1>7. CASE ReaderFinish(c)
  BY <1>7 DEF ReaderFinish
<1>8. CASE WriterWrite(c)
  BY <1>8 DEF WriterWrite
<1>9. CASE WriterExit(c)
  BY <1>9 DEF WriterExit
<1>10. QED
  BY ConnStep(c), <1>1, <1>2, <1>3, <1>4, <1>5, <1>6, <1>7, <1>8, <1>9
     DEF ConnStep

LEMMA TypeInvWorker ==
    ASSUME TypeInv, NEW w \in Workers, WorkerStep(w)
    PROVE  TypeInv'
<1> USE LimitsAssumption
    DEF TypeInv, TypeOK, ControlOK, hubVars, connVars, workerVars, sdVars
<1>1. ASSUME NEW u \in Users, WorkerLoad(w, u)
      PROVE  TypeInv'
  BY <1>1 DEF WorkerLoad
<1>2. CASE WorkerSend(w)
  BY <1>2 DEF WorkerSend, HasRoom
<1>3. CASE WorkerPanic(w)
  BY <1>3 DEF WorkerPanic
<1>4. QED
  BY WorkerStep(w), <1>1, <1>2, <1>3 DEF WorkerStep

LEMMA TypeInvShutdown ==
    ASSUME TypeInv, NEW g \in Goroutines, ShutdownStep(g)
    PROVE  TypeInv'
<1> USE ConnsAssumption, LimitsAssumption
    DEF TypeInv, TypeOK, ControlOK, ShutdownStates, Goroutines, hubVars,
        connVars, workerVars, sdVars
<1>1. ASSUME NEW c \in Conns, ShutdownStop(g, c)
      PROVE  TypeInv'
  BY <1>1 DEF ShutdownStop
<1>2. CASE ShutdownNotify(g)
  BY <1>2 DEF ShutdownNotify, HasRoom
<1>3. CASE ShutdownWaited(g)
  BY <1>3 DEF ShutdownWaited
<1>4. CASE ShutdownClear(g)
  BY <1>4 DEF ShutdownClear
<1>5. QED
  BY ShutdownStep(g), <1>1, <1>2, <1>3, <1>4 DEF ShutdownStep

LEMMA TypeInvNext == TypeInv /\ [Next]_vars => TypeInv'
<1> SUFFICES ASSUME TypeInv, [Next]_vars
             PROVE  TypeInv'
  OBVIOUS
<1> USE DEF TypeInv, TypeOK, ControlOK, hubVars, connVars, workerVars, sdVars,
            vars
<1>1. CASE MainShutdown
  BY <1>1 DEF MainShutdown, ShutdownStart, RegisteredConns, Registered,
              ShutdownStates, Goroutines
<1>2. ASSUME NEW g \in Goroutines, TimerExpires(g)
      PROVE  TypeInv'
  BY <1>2 DEF TimerExpires
<1>3. CASE UNCHANGED vars
  BY <1>3
<1>4. QED
  <2> HIDE DEF TypeInv, vars
  <2> QED
    BY <1>1, <1>2, <1>3, TypeInvHub, TypeInvConn, TypeInvWorker,
       TypeInvShutdown DEF Next, Terminating

\* Every reachable state is well typed, and each goroutine handles a
\* connection wherever its code dereferences one.
THEOREM TypeCorrect == Spec => []TypeInv
<1>1. QED
  BY TypeInvInit, TypeInvNext, PTL DEF Spec

\* The same fact under the name the runs check.
COROLLARY TypeOKHolds == Spec => []TypeOK
<1>1. TypeInv => TypeOK
  BY DEF TypeInv
<1>2. QED
  BY <1>1, TypeCorrect, PTL

----------------------------------------------------------------------------
(***************************************************************************)
(* The map and the read pumps.  A registered connection is stored under    *)
(* its owner, and its read pump has not got past Unregister.               *)
(***************************************************************************)
Unregistered == {"idle", "handler", "unauth", "register"}
Pumping == {"start", "reading", "unregister"}

MapInv ==
    /\ \A u \in Users : clients[u] # None =>
           Owner[clients[u]] = u /\ reader[clients[u]] \in Pumping
    /\ hubPC \in {"replace", "admit"} => reader[hubConn] \in Pumping
    /\ hubPC \notin {"select", "stopped"} => reader[hubConn] \notin Unregistered
    /\ hubPC \in {"notify", "unreg"} => clients[Owner[hubConn]] = None

LEMMA MapInvInit == Init => MapInv
BY DEF Init, MapInv

LEMMA MapInvNext == TypeInv /\ MapInv /\ [Next]_vars => MapInv'
<1> SUFFICES ASSUME TypeInv, MapInv, [Next]_vars
             PROVE  MapInv'
  OBVIOUS
<1> USE ConnsAssumption, OwnerAssumption
    DEF TypeInv, TypeOK, ControlOK, MapInv, Unregistered, Pumping,
        ReaderStates, HubStates, hubVars, connVars, workerVars, sdVars
<1>1. ASSUME NEW c \in Conns, HubReceiveRegister(c)
      PROVE  MapInv'
  BY <1>1 DEF HubReceiveRegister
<1>2. CASE HubReplace
  BY <1>2 DEF HubReplace
<1>3. CASE HubAdmit
  <2>1. hubConn \in Conns /\ Owner[hubConn] \in Users
    BY <1>3 DEF HubAdmit
  <2>2. QED
    BY <1>3, <2>1 DEF HubAdmit
<1>4. CASE HubReject
  BY <1>4 DEF HubReject
<1>5. ASSUME NEW c \in Conns, NEW R \in SUBSET Users, HubReceiveUnregister(c, R)
      PROVE  MapInv'
  BY <1>5 DEF HubReceiveUnregister
<1>6. ASSUME NEW u \in Users, HubNotifyFailed(u)
      PROVE  MapInv'
  BY <1>6 DEF HubNotifyFailed
<1>7. CASE HubCloseUnregistered
  BY <1>7 DEF HubCloseUnregistered
<1>8. CASE HubBroadcast
  BY <1>8 DEF HubBroadcast
<1>9. CASE RunCtxDone
  BY <1>9 DEF RunCtxDone, ShutdownStart
<1>10. ASSUME NEW c \in Conns, ConnStep(c)
       PROVE  MapInv'
  <2>1. UNCHANGED hubVars
    BY <1>10 DEF ConnStep, Connect, HandlerStart, Authenticate, PeerLeaves,
                 UnauthenticatedExit, ReaderExit, ReaderFinish, WriterWrite,
                 WriterExit
  <2>2. \A d \in Conns :
           /\ reader[d] \in Pumping => reader'[d] \in Pumping
           /\ reader[d] \notin Unregistered => reader'[d] \notin Unregistered
    BY <1>10 DEF ConnStep, Connect, HandlerStart, Authenticate, PeerLeaves,
                 UnauthenticatedExit, ReaderExit, ReaderFinish, WriterWrite,
                 WriterExit
  <2>3. QED
    BY <2>1, <2>2
<1>11. ASSUME NEW w \in Workers, WorkerStep(w)
       PROVE  MapInv'
  BY <1>11 DEF WorkerStep, WorkerLoad, WorkerSend, WorkerPanic
<1>12. CASE MainShutdown
  BY <1>12 DEF MainShutdown, ShutdownStart
<1>13. ASSUME NEW g \in Goroutines, ShutdownStep(g)
       PROVE  MapInv'
  BY <1>13 DEF ShutdownStep, ShutdownStop, ShutdownNotify, ShutdownWaited,
               ShutdownClear
<1>14. ASSUME NEW g \in Goroutines, TimerExpires(g)
       PROVE  MapInv'
  BY <1>14 DEF TimerExpires
<1>15. CASE UNCHANGED vars
  BY <1>15 DEF vars
<1>16. QED
  BY <1>1, <1>2, <1>3, <1>4, <1>5, <1>6, <1>7, <1>8, <1>9, <1>10, <1>11,
     <1>12, <1>13, <1>14, <1>15 DEF Next, HubStep, Terminating

\* No dead connection stays in the map, during shutdown included.
THEOREM RegisteredHaveReaderHolds == Spec => []RegisteredHaveReader
<1>1. MapInv => RegisteredHaveReader
  BY DEF MapInv, RegisteredHaveReader, RegisteredConns, Registered, Pumping
<1>2. Spec => [](TypeInv /\ MapInv)
  BY TypeInvInit, TypeInvNext, MapInvInit, MapInvNext, PTL DEF Spec
<1>3. QED
  BY <1>1, <1>2, PTL

----------------------------------------------------------------------------
(***************************************************************************)
(* Before shutdown.  Only Hub.Run closes channels, and what it has closed  *)
(* is out of the map before it sends again: the channel of the connection  *)
(* being replaced is the exception, and Run sends nothing meanwhile.       *)
(***************************************************************************)
ServingInv == Serving =>
    /\ sdPC["run"] = "off"
    /\ ~crashed
    /\ hubPC = "replace" => clients[Owner[hubConn]] = hubOld
    /\ hubPC \in {"admit", "reject", "notify", "unreg"} =>
           clients[Owner[hubConn]] = None
    /\ hubPC \in {"replace", "admit"} => hubConn \notin closed \cup ctxDone
    /\ \A c \in Conns : reader[c] \in Unregistered => c \notin closed \cup ctxDone
    /\ \A u \in Users : clients[u] # None /\ clients[u] \in closed =>
           hubPC = "replace" /\ clients[u] = hubOld

\* Once main has entered Hub.Shutdown it never serves again, and neither main
\* nor Hub.Run is in Hub.shutdown before that.
LEMMA ServingIsLeftForGood ==
    ASSUME TypeInv, ServingInv, [Next]_vars, Serving'
    PROVE  /\ Serving
           /\ ~MainShutdown /\ ~RunCtxDone
           /\ \A g \in Goroutines : ~ShutdownStep(g)
<1> USE DEF Serving
<1>1. Serving
  <2>1. \A g \in Goroutines :
          ShutdownStep(g) => sdPC[g] # "off" /\ sdPC'[g] # "off"
                             /\ \A h \in Goroutines \ {g} : sdPC'[h] = sdPC[h]
    BY DEF TypeInv, TypeOK, ShutdownStep, ShutdownStop, ShutdownNotify,
           ShutdownWaited, ShutdownClear
  <2>2. \/ sdPC' = sdPC
        \/ MainShutdown
        \/ RunCtxDone
        \/ \E g \in Goroutines : ShutdownStep(g)
    BY DEF Next, HubStep, ConnStep, WorkerStep, Terminating, vars, sdVars,
           HubReceiveRegister, HubReplace, HubAdmit, HubReject,
           HubReceiveUnregister, HubNotifyFailed, HubCloseUnregistered,
           HubBroadcast, Connect, HandlerStart, Authenticate, PeerLeaves,
           UnauthenticatedExit, ReaderExit, ReaderFinish, WriterWrite,
           WriterExit, WorkerLoad, WorkerSend, WorkerPanic, TimerExpires
  <2>3. MainShutdown => Serving
    BY DEF MainShutdown
  <2>4. RunCtxDone => sdPC'["main"] = sdPC["main"]
    BY DEF RunCtxDone, ShutdownStart, TypeInv, TypeOK, Goroutines
  <2>5. QED
    BY <2>1, <2>2, <2>3, <2>4 DEF Goroutines
<1>2. ~MainShutdown
  BY DEF MainShutdown, ShutdownStart, TypeInv, TypeOK, Goroutines
<1>3. ~RunCtxDone
  BY <1>1 DEF RunCtxDone
<1>4. ASSUME NEW g \in Goroutines, ShutdownStep(g)
      PROVE  FALSE
  <2>1. sdPC[g] # "off" /\ sdPC'[g] # "off"
    BY <1>4 DEF TypeInv, TypeOK, ShutdownStep, ShutdownStop, ShutdownNotify,
                ShutdownWaited, ShutdownClear
  <2>2. g = "run"
    BY <1>1, <2>1 DEF Goroutines
  <2>3. QED
    BY <1>1, <2>1, <2>2 DEF ServingInv
<1>5. QED
  BY <1>1, <1>2, <1>3, <1>4

LEMMA ServingInvInit == Init => ServingInv
BY ConnsAssumption DEF Init, ServingInv, Goroutines

LEMMA ServingInvNext ==
    TypeInv /\ MapInv /\ ServingInv /\ [Next]_vars => ServingInv'
<1> SUFFICES ASSUME TypeInv, MapInv, ServingInv, [Next]_vars, Serving'
             PROVE  ServingInv'
  BY DEF ServingInv
<1>0. Serving
  BY ServingIsLeftForGood
<1> USE <1>0, ConnsAssumption, OwnerAssumption
    DEF TypeInv, TypeOK, ControlOK, MapInv, ServingInv, Unregistered, Pumping,
        ReaderStates, HubStates, hubVars, connVars, workerVars, sdVars
<1>1. ASSUME NEW c \in Conns, HubReceiveRegister(c)
      PROVE  ServingInv'
  <2>1. Owner[c] \in Users /\ c # clients[Owner[c]]
    BY <1>1 DEF HubReceiveRegister
  <2>2. QED
    BY <1>1, <2>1 DEF HubReceiveRegister
<1>2. CASE HubReplace
  <2>1. hubConn \in Conns /\ Owner[hubConn] \in Users
    BY <1>2 DEF HubReplace
  <2>2. QED
    BY <1>2, <2>1 DEF HubReplace
<1>3. CASE HubAdmit
  <2>1. hubConn \in Conns /\ Owner[hubConn] \in Users
    BY <1>3 DEF HubAdmit
  <2>2. QED
    BY <1>3, <2>1 DEF HubAdmit
<1>4. CASE HubReject
  BY <1>4 DEF HubReject
<1>5. ASSUME NEW c \in Conns, NEW R \in SUBSET Users, HubReceiveUnregister(c, R)
      PROVE  ServingInv'
  BY <1>5 DEF HubReceiveUnregister
<1>6. ASSUME NEW u \in Users, HubNotifyFailed(u)
      PROVE  ServingInv'
  BY <1>6 DEF HubNotifyFailed
<1>7. CASE HubCloseUnregistered
  <2>1. \A u \in Users : clients[u] # hubConn
    BY <1>7 DEF HubCloseUnregistered
  <2>2. QED
    BY <1>7, <2>1 DEF HubCloseUnregistered
<1>8. CASE HubBroadcast
  <2>1. RegisteredConns \cap closed = {}
    BY <1>8 DEF HubBroadcast, RegisteredConns, Registered
  <2>2. QED
    BY <1>8, <2>1 DEF HubBroadcast
<1>9. ASSUME NEW c \in Conns, ConnStep(c)
      PROVE  ServingInv'
  <2>1. UNCHANGED <<hubVars, sdVars, closed, crashed>>
    BY <1>9 DEF ConnStep, Connect, HandlerStart, Authenticate, PeerLeaves,
                UnauthenticatedExit, ReaderExit, ReaderFinish, WriterWrite,
                WriterExit
  <2>2. \A d \in Conns :
           /\ reader[d] \notin Unregistered => reader'[d] \notin Unregistered
           /\ d \in ctxDone' => d \in ctxDone \/ reader[d] = "closing"
           /\ reader[d] = "closing" => reader'[d] \notin Unregistered
    BY <1>9 DEF ConnStep, Connect, HandlerStart, Authenticate, PeerLeaves,
                UnauthenticatedExit, ReaderExit, ReaderFinish, WriterWrite,
                WriterExit
  <2>3. QED
    BY <2>1, <2>2
<1>10. ASSUME NEW w \in Workers, WorkerStep(w)
       PROVE  ServingInv'
  BY <1>10 DEF WorkerStep, WorkerLoad, WorkerSend, WorkerPanic
<1>11. ASSUME NEW g \in Goroutines, TimerExpires(g)
       PROVE  ServingInv'
  BY <1>11 DEF TimerExpires
<1>12. CASE UNCHANGED vars
  BY <1>12 DEF vars
<1>13. QED
  BY <1>1, <1>2, <1>3, <1>4, <1>5, <1>6, <1>7, <1>8, <1>9, <1>10, <1>11,
     <1>12, ServingIsLeftForGood DEF Next, HubStep, Terminating

HubInv == TypeInv /\ MapInv /\ ServingInv

LEMMA HubInvHolds == Spec => []HubInv
<1>1. Init => HubInv
  BY TypeInvInit, MapInvInit, ServingInvInit DEF HubInv
<1>2. HubInv /\ [Next]_vars => HubInv'
  BY TypeInvNext, MapInvNext, ServingInvNext DEF HubInv
<1>3. QED
  BY <1>1, <1>2, PTL DEF Spec

\* Until shutdown Hub.Run never sends on a closed channel.
THEOREM HubNeverPanicsHolds == Spec => []HubNeverPanics
<1>1. HubInv => HubNeverPanics
  BY DEF HubInv, ServingInv, HubNeverPanics
<1>2. QED
  BY <1>1, HubInvHolds, PTL

\* Until shutdown a registered connection with a closed channel is the one
\* being replaced.
THEOREM OnlyReplacedIsClosedHolds == Spec => []OnlyReplacedIsClosed
<1>1. HubInv => OnlyReplacedIsClosed
  BY DEF HubInv, ServingInv, OnlyReplacedIsClosed, RegisteredConns, Registered
<1>2. QED
  BY <1>1, HubInvHolds, PTL

\* Whoever is announced as disconnected is not in the map.
THEOREM AnnouncedUsersAreOfflineHolds == Spec => AnnouncedUsersAreOffline
<1>1. HubInv => (hubPC = "unreg" /\ hubPC' = "select"
                    => clients[Owner[hubConn]] = None)
  BY DEF HubInv, MapInv
<1>2. QED
  BY <1>1, HubInvHolds, PTL DEF AnnouncedUsersAreOffline

----------------------------------------------------------------------------
(***************************************************************************)
(* The counter.  While a connection is being replaced its user keeps the   *)
(* slot, even if a concurrent shutdown has emptied the map; so the counter *)
(* never falls below the slots held, and HubAdmit keeps it at the limit.   *)
(***************************************************************************)
Held == Registered \cup (IF hubPC = "replace" THEN {Owner[hubConn]} ELSE {})

CountInv ==
    /\ Cardinality(Held) <= clientCount
    /\ clientCount <= MaxConnections
    /\ CountIsExact

LEMMA HeldIsFinite ==
    ASSUME TypeInv
    PROVE  /\ Held \subseteq Users /\ Registered \subseteq Held
           /\ IsFiniteSet(Held) /\ IsFiniteSet(Registered)
           /\ Cardinality(Held) \in Nat /\ Cardinality(Registered) \in Nat
           /\ Cardinality(Registered) <= Cardinality(Held)
<1>1. Held \subseteq Users /\ Registered \subseteq Held
  BY OwnerAssumption DEF TypeInv, ControlOK, Held, Registered
<1>2. IsFiniteSet(Held) /\ IsFiniteSet(Registered)
  BY <1>1, ConnsAssumption, FS_Subset
<1>3. QED
  BY <1>1, <1>2, FS_Subset, FS_CardinalityType

LEMMA CountInvInit == Init => CountInv
<1> SUFFICES ASSUME Init
             PROVE  CountInv
  OBVIOUS
<1>1. Held = {} /\ Registered = {}
  BY DEF Init, Held, Registered
<1>2. QED
  BY <1>1, FS_EmptySet, LimitsAssumption DEF Init, CountInv, CountIsExact

\* A step that leaves the map, the counter and the slots alone.
LEMMA CountInvFrame ==
    ASSUME CountInv, UNCHANGED <<clients, clientCount>>, Held' = Held,
           Serving' => Serving
    PROVE  CountInv'
<1>1. Registered' = Registered
  BY DEF Registered
<1>2. QED
  BY <1>1 DEF CountInv, CountIsExact

LEMMA CountInvNext == HubInv /\ CountInv /\ [Next]_vars => CountInv'
<1> SUFFICES ASSUME HubInv, CountInv, [Next]_vars
             PROVE  CountInv'
  OBVIOUS
<1>0. /\ TypeInv /\ MapInv /\ ServingInv
      /\ Serving' => Serving
      /\ clientCount \in Int /\ MaxConnections \in Nat
  BY ServingIsLeftForGood, LimitsAssumption DEF HubInv, TypeInv, TypeOK
<1>f. /\ IsFiniteSet(Held) /\ IsFiniteSet(Registered)
      /\ Cardinality(Held) \in Nat /\ Cardinality(Registered) \in Nat
      /\ Cardinality(Registered) <= Cardinality(Held)
  BY <1>0, HeldIsFinite
<1>1. ASSUME NEW c \in Conns, HubReceiveRegister(c)
      PROVE  CountInv'
  <2>1. Held' = Held
    BY <1>0, <1>1, OwnerAssumption
       DEF HubReceiveRegister, Held, Registered
  <2>2. QED
    BY <1>0, <1>1, <2>1, CountInvFrame DEF HubReceiveRegister
<1>2. CASE HubReplace
  <2> DEFINE u == Owner[hubConn]
  <2>1. u \in Users
    BY <1>0, <1>2, OwnerAssumption DEF HubReplace, TypeInv, ControlOK
  <2>2. Held = Registered \cup {u} /\ Registered' = Registered \ {u} /\ Held' = Held \ {u}
    BY <1>0, <1>2, <2>1 DEF HubReplace, Held, Registered, TypeInv, TypeOK
  <2>3. Cardinality(Held') = Cardinality(Held) - 1
    BY <1>f, <2>2, FS_RemoveElement
  <2>4. Serving => u \in Registered
    BY <1>0, <1>2, <2>1, ConnsAssumption
       DEF HubReplace, ServingInv, TypeInv, ControlOK, Registered
  <2>5. Serving => Cardinality(Registered') = Cardinality(Registered) - 1
    BY <1>f, <2>2, <2>4, FS_RemoveElement
  <2>6. clientCount' = clientCount - 1
    BY <1>2 DEF HubReplace
  <2>7. QED
    BY <1>0, <1>f, <2>3, <2>5, <2>6 DEF CountInv, CountIsExact
<1>3. CASE HubAdmit
  <2> DEFINE u == Owner[hubConn]
  <2>1. u \in Users /\ hubConn \in Conns
    BY <1>0, <1>3, OwnerAssumption DEF HubAdmit, TypeInv, ControlOK
  <2>2. CASE clientCount >= MaxConnections
    <3>1. Held' = Held
      BY <1>3, <2>2 DEF HubAdmit, Held, Registered
    <3>2. QED
      BY <1>0, <1>3, <2>2, <3>1, CountInvFrame DEF HubAdmit
  <2>3. CASE ~(clientCount >= MaxConnections)
    <3>1. Held = Registered /\ Registered' = Registered \cup {u} /\ Held' = Registered'
      BY <1>0, <1>3, <2>1, <2>3, ConnsAssumption
         DEF HubAdmit, Held, Registered, TypeInv, TypeOK
    <3>2. Cardinality(Registered') <= Cardinality(Registered) + 1
      BY <1>f, <3>1, FS_AddElement
    <3>3. Serving => u \notin Registered
      BY <1>0, <1>3 DEF HubAdmit, ServingInv, Registered
    <3>4. Serving => Cardinality(Registered') = Cardinality(Registered) + 1
      BY <1>f, <3>1, <3>3, FS_AddElement
    <3>5. clientCount' = clientCount + 1
      BY <1>3, <2>3 DEF HubAdmit
    <3>6. IsFiniteSet(Registered') /\ Cardinality(Registered') \in Nat
      BY <1>f, <3>1, FS_AddElement, FS_CardinalityType
    <3>7. QED
      BY <1>0, <1>f, <2>3, <3>1, <3>2, <3>4, <3>5, <3>6
         DEF CountInv, CountIsExact
  <2>4. QED
    BY <2>2, <2>3
<1>4. ASSUME NEW c \in Conns, NEW R \in SUBSET Users, HubReceiveUnregister(c, R)
      PROVE  CountInv'
  <2>1. CASE clients[Owner[c]] = None
    BY <1>0, <1>4, <2>1, CountInvFrame
       DEF HubReceiveUnregister, hubVars, Held, Registered
  <2>2. CASE clients[Owner[c]] # None
    <3>1. Owner[c] \in Registered
      BY <2>2, OwnerAssumption DEF Registered
    <3>2. /\ Held = Registered /\ Registered' = Registered \ {Owner[c]}
          /\ Held' = Registered'
      BY <1>0, <1>4, <2>2 DEF HubReceiveUnregister, Held, Registered, TypeInv, TypeOK
    <3>3. Cardinality(Registered \ {Owner[c]}) = Cardinality(Registered) - 1
      BY <1>f, <3>1, FS_RemoveElement
    <3>4. Cardinality(Registered') = Cardinality(Registered) - 1
      BY <3>2, <3>3
    <3>5. clientCount' = clientCount - 1
      BY <1>4, <2>2 DEF HubReceiveUnregister
    <3>6. QED
      BY <1>0, <1>f, <3>2, <3>4, <3>5 DEF CountInv, CountIsExact
  <2>3. QED
    BY <2>1, <2>2
<1>5. ASSUME NEW g \in Goroutines, ShutdownClear(g)
      PROVE  CountInv'
  <2>1. ~Serving'
    BY <1>0, <1>5, ServingIsLeftForGood DEF ShutdownStep
  <2>2. Held' \in SUBSET Held
    BY <1>5 DEF ShutdownClear, Held, Registered
  <2>3. IsFiniteSet(Held') /\ Cardinality(Held') \in Nat
        /\ Cardinality(Held') <= Cardinality(Held)
    BY <1>f, <2>2, FS_Subset, FS_CardinalityType
  <2>4. clientCount' = clientCount
    BY <1>5 DEF ShutdownClear
  <2>5. QED
    BY <1>0, <1>f, <2>1, <2>3, <2>4 DEF CountInv, CountIsExact
<1>6. ASSUME UNCHANGED <<clients, clientCount, hubConn>>,
             hubPC' = hubPC \/ (hubPC # "replace" /\ hubPC' # "replace")
      PROVE  CountInv'
  BY <1>0, <1>6, CountInvFrame DEF Held, Registered
<1>7. CASE HubReject \/ HubCloseUnregistered \/ HubBroadcast
  <2>1. Held' = Held
    BY <1>7 DEF HubReject, HubCloseUnregistered, HubBroadcast, Held, Registered
  <2>2. QED
    BY <1>0, <1>7, <2>1, CountInvFrame
       DEF HubReject, HubCloseUnregistered, HubBroadcast
<1>8. ASSUME NEW u \in Users, HubNotifyFailed(u)
      PROVE  CountInv'
  BY <1>6, <1>8 DEF HubNotifyFailed
<1>9. CASE RunCtxDone \/ MainShutdown
  BY <1>6, <1>9 DEF RunCtxDone, MainShutdown, ShutdownStart
<1>10. ASSUME NEW c \in Conns, ConnStep(c)
       PROVE  CountInv'
  BY <1>6, <1>10
     DEF ConnStep, Connect, HandlerStart, Authenticate, PeerLeaves,
         UnauthenticatedExit, ReaderExit, ReaderFinish, WriterWrite,
         WriterExit, hubVars
<1>11. ASSUME NEW w \in Workers, WorkerStep(w)
       PROVE  CountInv'
  BY <1>6, <1>11 DEF WorkerStep, WorkerLoad, WorkerSend, WorkerPanic, hubVars
<1>12. ASSUME NEW g \in Goroutines, ShutdownStep(g)
       PROVE  CountInv'
  BY <1>5, <1>6, <1>12
     DEF ShutdownStep, ShutdownStop, ShutdownNotify, ShutdownWaited, hubVars
<1>13. ASSUME NEW g \in Goroutines, TimerExpires(g)
       PROVE  CountInv'
  BY <1>6, <1>13 DEF TimerExpires, hubVars
<1>14. CASE UNCHANGED vars
  BY <1>6, <1>14 DEF vars, hubVars
<1>15. QED
  BY <1>1, <1>2, <1>3, <1>4, <1>7, <1>8, <1>9, <1>10, <1>11, <1>12, <1>13,
     <1>14 DEF Next, HubStep, Terminating

LEMMA CountInvHolds == Spec => [](HubInv /\ CountInv)
<1>1. Init => CountInv
  BY CountInvInit
<1>2. HubInv /\ CountInv /\ [Next]_vars => CountInv'
  BY CountInvNext
<1>3. QED
  BY <1>1, <1>2, HubInvHolds, PTL DEF Spec

\* The map never holds more connections than the limit, shutdown included.
THEOREM ConnectionLimitHolds == Spec => []ConnectionLimit
<1>1. HubInv /\ CountInv => ConnectionLimit
  BY HeldIsFinite, LimitsAssumption
     DEF HubInv, TypeInv, TypeOK, CountInv, ConnectionLimit
<1>2. QED
  BY <1>1, CountInvHolds, PTL

\* Until shutdown the counter is the size of the map.
THEOREM CountIsExactHolds == Spec => []CountIsExact
<1>1. CountInv => CountIsExact
  BY DEF CountInv
<1>2. QED
  BY <1>1, CountInvHolds, PTL

----------------------------------------------------------------------------
(***************************************************************************)
(* A hub that is not shut down implements the abstract registry.           *)
(***************************************************************************)
LEMMA NeverShutDown ==
    ASSUME ~MayShutdown
    PROVE  Spec => []Serving
<1>1. Init => Serving
  BY DEF Init, Serving, Goroutines
<1>2. HubInv /\ Serving /\ [Next]_vars => Serving'
  <2> SUFFICES ASSUME HubInv, Serving, [Next]_vars
               PROVE  Serving'
    OBVIOUS
  <2>1. CASE RunCtxDone
    BY <2>1 DEF RunCtxDone, Serving
  <2>2. ASSUME NEW g \in Goroutines, ShutdownStep(g)
        PROVE  Serving'
    BY <2>2 DEF ShutdownStep, ShutdownStop, ShutdownNotify, ShutdownWaited,
                ShutdownClear, HubInv, TypeInv, TypeOK, ServingInv, Serving,
                Goroutines
  <2>3. CASE UNCHANGED sdPC
    BY <2>3 DEF Serving
  <2>4. ~MainShutdown
    BY DEF MainShutdown
  <2>5. \/ sdPC' = sdPC
        \/ MainShutdown
        \/ RunCtxDone
        \/ \E g \in Goroutines : ShutdownStep(g)
    BY DEF Next, HubStep, ConnStep, WorkerStep, Terminating, vars, sdVars,
           HubReceiveRegister, HubReplace, HubAdmit, HubReject,
           HubReceiveUnregister, HubNotifyFailed, HubCloseUnregistered,
           HubBroadcast, Connect, HandlerStart, Authenticate, PeerLeaves,
           UnauthenticatedExit, ReaderExit, ReaderFinish, WriterWrite,
           WriterExit, WorkerLoad, WorkerSend, WorkerPanic, TimerExpires
  <2>6. QED
    BY <2>1, <2>2, <2>3, <2>4, <2>5
<1>3. QED
  BY <1>1, <1>2, HubInvHolds, PTL DEF Spec

\* A step of the hub, its connections or its workers is one step of the
\* registry or none.
LEMMA StepsOfTheRegistry ==
    ASSUME HubInv, CountInv, Serving, Serving', [Next]_vars
    PROVE  [Registry!RegistryNext]_(Registry!registryVars)
<1>0. TypeInv /\ MapInv /\ ServingInv /\ CountInv
  BY DEF HubInv
<1> USE DEF Registry!RegistryNext, Registry!registryVars
<1>1. ASSUME NEW c \in Conns, HubReceiveRegister(c)
      PROVE  [Registry!RegistryNext]_(Registry!registryVars)
  <2>1. CASE clients[Owner[c]] = None
    BY <1>1, <2>1 DEF HubReceiveRegister
  <2>2. CASE clients[Owner[c]] # None
    <3>1. clients[Owner[c]] \in Conns
      BY <1>0, <2>2, OwnerAssumption DEF TypeInv, TypeOK
    <3>2. Registry!Shut(clients[Owner[c]])
      BY <1>1, <2>2 DEF HubReceiveRegister, Registry!Shut
    <3>3. QED
      BY <3>1, <3>2
  <2>3. QED
    BY <2>1, <2>2
<1>2. CASE HubReplace
  <2>1. Owner[hubConn] \in Users
    BY <1>0, <1>2, OwnerAssumption DEF HubReplace, TypeInv, ControlOK
  <2>2. Registry!Leave(Owner[hubConn])
    BY <1>0, <1>2, ConnsAssumption
       DEF HubReplace, ServingInv, TypeInv, ControlOK, connVars,
           Registry!Leave
  <2>3. QED
    BY <2>1, <2>2
<1>3. CASE HubAdmit
  <2>1. hubConn \in Conns
    BY <1>0, <1>3 DEF HubAdmit, TypeInv, ControlOK
  <2>2. CASE clientCount >= MaxConnections
    <3>1. Registry!Shut(hubConn)
      BY <1>3, <2>2 DEF HubAdmit, Registry!Shut
    <3>2. QED
      BY <2>1, <3>1
  <2>3. CASE ~(clientCount >= MaxConnections)
    <3>1. Registry!RegisteredUsers = Registered
      BY DEF Registry!RegisteredUsers, Registered
    <3>2. Cardinality(Registry!RegisteredUsers) < MaxConnections
      BY <1>0, <2>3, <3>1, LimitsAssumption
         DEF CountInv, CountIsExact, TypeInv, TypeOK
    <3>3. clients[Owner[hubConn]] = None /\ hubConn \notin ctxDone \cup closed
      BY <1>0, <1>3 DEF HubAdmit, ServingInv
    <3>4. clients' = [clients EXCEPT ![Owner[hubConn]] = hubConn]
          /\ UNCHANGED <<ctxDone, closed>>
      BY <1>3, <2>3 DEF HubAdmit
    <3>5. Registry!Enter(hubConn)
      BY <3>2, <3>3, <3>4 DEF Registry!Enter, Registry!Cardinality, Cardinality
    <3>6. QED
      BY <2>1, <3>5
  <2>4. QED
    BY <2>2, <2>3
<1>4. ASSUME NEW c \in Conns, NEW R \in SUBSET Users, HubReceiveUnregister(c, R)
      PROVE  [Registry!RegistryNext]_(Registry!registryVars)
  <2>1. CASE clients[Owner[c]] = None
    BY <1>4, <2>1 DEF HubReceiveUnregister, hubVars
  <2>2. CASE clients[Owner[c]] # None
    <3>1. Registry!Leave(Owner[c]) /\ Owner[c] \in Users
      BY <1>4, <2>2, OwnerAssumption DEF HubReceiveUnregister, Registry!Leave
    <3>2. QED
      BY <3>1
  <2>3. QED
    BY <2>1, <2>2
<1>5. CASE HubCloseUnregistered
  <2>1. Registry!Shut(hubConn) /\ hubConn \in Conns
    BY <1>0, <1>5 DEF HubCloseUnregistered, TypeInv, ControlOK, Registry!Shut
  <2>2. QED
    BY <2>1
<1>6. ASSUME NEW c \in Conns, ReaderFinish(c)
      PROVE  [Registry!RegistryNext]_(Registry!registryVars)
  <2>1. \A u \in Users : clients[u] # c
    BY <1>0, <1>6, ConnsAssumption DEF ReaderFinish, MapInv, Pumping
  <2>2. Registry!Cancel(c)
    BY <1>6, <2>1 DEF ReaderFinish, hubVars, Registry!Cancel
  <2>3. QED
    BY <2>2
<1>7. CASE UNCHANGED <<clients, ctxDone, closed>>
  BY <1>7
<1>8. QED
  BY <1>1, <1>2, <1>3, <1>4, <1>5, <1>6, <1>7, <1>0, ServingIsLeftForGood
     DEF Next, HubStep, ConnStep, WorkerStep, Terminating, vars, hubVars,
         connVars, HubReject, HubNotifyFailed, HubBroadcast, Connect,
         HandlerStart, Authenticate, PeerLeaves, UnauthenticatedExit,
         ReaderExit, WriterWrite, WriterExit, WorkerLoad, WorkerSend,
         WorkerPanic, TimerExpires

\* Every behaviour of a hub that is not shut down is one of the registry.
THEOREM HubImplementsRegistry ==
    ASSUME ~MayShutdown
    PROVE  Spec => ImplementsRegistry
<1>1. Init => Registry!RegistryInit
  BY DEF Init, Registry!RegistryInit
<1>2. HubInv /\ CountInv /\ Serving /\ Serving' /\ [Next]_vars
        => [Registry!RegistryNext]_(Registry!registryVars)
  BY StepsOfTheRegistry
<1>3. Spec => [](HubInv /\ CountInv) /\ []Serving
  BY CountInvHolds, NeverShutDown
<1>4. QED
  BY <1>1, <1>2, <1>3, PTL DEF Spec, ImplementsRegistry, Registry!RegistrySpec
=============================================================================
