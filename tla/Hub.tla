-------------------------------- MODULE Hub --------------------------------
(***************************************************************************)
(* The WebSocket hub of the chat service (chat/websocket/hub.go and        *)
(* client.go, wired by chat/http/router.go and cmd/chat/main.go).          *)
(*                                                                         *)
(* Goroutines: Hub.Run, which alone receives from the unbuffered channels  *)
(* register and unregister; a read pump and a write pump per connection;   *)
(* the HTTP handler that registers a connection authenticated by header;   *)
(* the processor's workers, which call SendToUser; and main, which runs    *)
(* Hub.Shutdown while Hub.Run is still receiving.                          *)
(*                                                                         *)
(* A connection is used once: a user who reconnects takes a new one.  The  *)
(* frames of a send channel are only counted.  sync.Map.Range is one step. *)
(***************************************************************************)
EXTENDS Integers, FiniteSets

CONSTANTS
    Conns,            \* WebSocket connections (a *Client each)
    Users,
    Workers,          \* goroutines that call SendToUser
    Owner,            \* the user whose token a connection presents
    MaxConnections,   \* HubConfig.MaxConnections
    SendBufSize,      \* capacity of Client.send
    AuthWays,         \* how connections authenticate
    MayShutdown,      \* whether main ever receives SIGTERM
    None

ASSUME ConnsAssumption == IsFiniteSet(Users) /\ None \notin Conns
ASSUME OwnerAssumption == Owner \in [Conns -> Users]
ASSUME LimitsAssumption ==
    /\ MaxConnections \in Nat
    /\ SendBufSize \in Nat \ {0}
    /\ MayShutdown \in BOOLEAN
    /\ AuthWays \subseteq {"header", "message"}

VARIABLES
    clients,      \* Hub.clients: the registered connection of each user
    clientCount,  \* Hub.clientCount
    hubPC,        \* where Hub.Run is
    hubConn,      \* the connection Hub.Run is handling
    hubOld,       \* the connection it replaces
    hubNotify,    \* receivers of transfers still to be told of a failure
    reader,       \* HTTP handler, then read pump, of a connection
    writer,       \* its write pump
    ctxDone,      \* connections whose context is cancelled
    closed,       \* connections whose send channel is closed
    connOpen,     \* connections whose socket is open
    sendq,        \* number of frames in Client.send
    workerPC, workerTo,
    sdPC, sdTodo, sdConn,  \* Hub.shutdown, run by main and by Hub.Run
    expired,      \* goroutines whose time.After has fired
    crashed       \* a panic nobody recovers has ended the process

hubVars == <<clients, clientCount, hubPC, hubConn, hubOld, hubNotify>>
connVars == <<reader, writer, ctxDone, closed, connOpen, sendq>>
workerVars == <<workerPC, workerTo>>
sdVars == <<sdPC, sdTodo, sdConn>>
vars == <<hubVars, connVars, workerVars, sdVars, expired, crashed>>

Goroutines == {"run", "main"}
HubStates == {"select", "replace", "admit", "reject", "notify", "unreg",
              "stopped"}
\* idle: not yet connected.  handler: blocked in Register.  start: about to
\* call Start.  unauth: reading before auth.  register: the read pump blocked
\* in Register.  unregister: blocked in Unregister.  closing: after it.
ReaderStates == {"idle", "handler", "start", "unauth", "register", "reading",
                 "unregister", "closing", "done"}
ShutdownStates == {"off", "next", "notify", "wait", "done"}

TypeOK ==
    /\ clients \in [Users -> Conns \cup {None}]
    /\ clientCount \in Int
    /\ hubPC \in HubStates
    /\ hubConn \in Conns \cup {None}
    /\ hubOld \in Conns \cup {None}
    /\ hubNotify \in SUBSET Users
    /\ reader \in [Conns -> ReaderStates]
    /\ writer \in [Conns -> {"none", "running", "done"}]
    /\ ctxDone \in SUBSET Conns
    /\ closed \in SUBSET Conns
    /\ connOpen \in SUBSET Conns
    /\ sendq \in [Conns -> 0..SendBufSize]
    /\ workerPC \in [Workers -> {"idle", "sending", "dead"}]
    /\ workerTo \in [Workers -> Conns \cup {None}]
    /\ sdPC \in [Goroutines -> ShutdownStates]
    /\ sdTodo \in [Goroutines -> SUBSET Conns]
    /\ sdConn \in [Goroutines -> Conns \cup {None}]
    /\ expired \in SUBSET Goroutines
    /\ crashed \in BOOLEAN

Init ==
    /\ clients = [u \in Users |-> None]
    /\ clientCount = 0
    /\ hubPC = "select" /\ hubConn = None /\ hubOld = None /\ hubNotify = {}
    /\ reader = [c \in Conns |-> "idle"]
    /\ writer = [c \in Conns |-> "none"]
    /\ ctxDone = {} /\ closed = {} /\ connOpen = {}
    /\ sendq = [c \in Conns |-> 0]
    /\ workerPC = [w \in Workers |-> "idle"]
    /\ workerTo = [w \in Workers |-> None]
    /\ sdPC = [g \in Goroutines |-> "off"]
    /\ sdTodo = [g \in Goroutines |-> {}]
    /\ sdConn = [g \in Goroutines |-> None]
    /\ expired = {}
    /\ crashed = FALSE

----------------------------------------------------------------------------
Registered == {u \in Users : clients[u] # None}
RegisteredConns == {clients[u] : u \in Registered}

\* Mutant: one frame more than the channel holds.
HasRoomOffByOne(c) == sendq[c] <= SendBufSize

HasRoom(c) == sendq[c] < SendBufSize

\* The WaitGroup of Client.Start is zero: not started, or both pumps over.
PumpsDone(c) ==
    /\ reader[c] \in {"idle", "handler", "start", "done"}
    /\ writer[c] \in {"none", "done"}

\* Mutant: WaitForShutdown without its timer.
WaitOverUntimed(g, c) == PumpsDone(c)

\* WaitForShutdown(c) returns to goroutine g.
WaitOver(g, c) == PumpsDone(c) \/ g \in expired

----------------------------------------------------------------------------
\* Hub.Run

HubReceiveRegister(c) ==
    LET u == Owner[c] IN
    /\ hubPC = "select"
    /\ reader[c] \in {"handler", "register"}
    /\ reader' = [reader EXCEPT ![c] = IF @ = "handler" THEN "start"
                                                         ELSE "reading"]
    /\ hubConn' = c
    /\ hubOld' = clients[u]
    /\ IF clients[u] # None
       THEN /\ hubPC' = "replace"
            /\ ctxDone' = ctxDone \cup {clients[u]}
            /\ closed' = closed \cup {clients[u]}
       ELSE hubPC' = "admit" /\ UNCHANGED <<ctxDone, closed>>
    /\ UNCHANGED <<clients, clientCount, hubNotify, writer, connOpen, sendq,
                   workerVars, sdVars, expired, crashed>>

\* Mutant: the counter is not decremented for the replaced connection.
HubReplaceKeepsCount ==
    /\ hubPC = "replace"
    /\ WaitOver("run", hubOld)
    /\ clients' = [clients EXCEPT ![Owner[hubConn]] = None]
    /\ hubPC' = "admit" /\ hubOld' = None
    /\ expired' = expired \ {"run"}
    /\ UNCHANGED <<clientCount, hubConn, hubNotify, connVars, workerVars,
                   sdVars, crashed>>

\* Mutant: the replaced connection is closed but stays in the map.
HubReplaceKeepsEntry ==
    /\ hubPC = "replace"
    /\ WaitOver("run", hubOld)
    /\ clientCount' = clientCount - 1
    /\ hubPC' = "admit" /\ hubOld' = None
    /\ expired' = expired \ {"run"}
    /\ UNCHANGED <<clients, hubConn, hubNotify, connVars, workerVars, sdVars,
                   crashed>>

HubReplace ==
    /\ hubPC = "replace"
    /\ WaitOver("run", hubOld)
    /\ clients' = [clients EXCEPT ![Owner[hubConn]] = None]
    /\ clientCount' = clientCount - 1
    /\ hubPC' = "admit" /\ hubOld' = None
    /\ expired' = expired \ {"run"}
    /\ UNCHANGED <<hubConn, hubNotify, connVars, workerVars, sdVars, crashed>>

\* Mutant: the limit is compared with > instead of >=.
HubAdmitOffByOne ==
    /\ hubPC = "admit" /\ clientCount <= MaxConnections
    /\ clients' = [clients EXCEPT ![Owner[hubConn]] = hubConn]
    /\ clientCount' = clientCount + 1
    /\ hubPC' = "select" /\ hubConn' = None
    /\ UNCHANGED <<hubOld, hubNotify, connVars, workerVars, sdVars, expired,
                   crashed>>

HubAdmit ==
    /\ hubPC = "admit"
    /\ IF clientCount >= MaxConnections
       THEN /\ hubPC' = "reject"
            /\ ctxDone' = ctxDone \cup {hubConn}
            /\ closed' = closed \cup {hubConn}
            /\ UNCHANGED <<clients, clientCount, hubConn>>
       ELSE /\ clients' = [clients EXCEPT ![Owner[hubConn]] = hubConn]
            /\ clientCount' = clientCount + 1
            /\ hubPC' = "select" /\ hubConn' = None
            /\ UNCHANGED <<ctxDone, closed>>
    /\ UNCHANGED <<hubOld, hubNotify, reader, writer, connOpen, sendq,
                   workerVars, sdVars, expired, crashed>>

HubReject ==
    /\ hubPC = "reject"
    /\ WaitOver("run", hubConn)
    /\ connOpen' = connOpen \ {hubConn}
    /\ hubPC' = "select" /\ hubConn' = None
    /\ expired' = expired \ {"run"}
    /\ UNCHANGED <<clients, clientCount, hubOld, hubNotify, reader, writer,
                   ctxDone, closed, sendq, workerVars, sdVars, crashed>>

\* Mutant: the connection is torn down without being taken from the map.
HubUnregisterKeepsEntry(c, receivers) ==
    /\ hubPC = "select"
    /\ reader[c] = "unregister"
    /\ reader' = [reader EXCEPT ![c] = "closing"]
    /\ clients[Owner[c]] # None
    /\ hubPC' = "notify" /\ hubConn' = c
    /\ hubNotify' = receivers
    /\ UNCHANGED <<clients, clientCount, hubOld, writer, ctxDone, closed,
                   connOpen, sendq, workerVars, sdVars, expired, crashed>>

\* handleUnregister looks the map up by user, whatever connection it holds.
\* OnUserDisconnected then notifies the receivers of the user's transfers.
HubReceiveUnregister(c, receivers) ==
    LET u == Owner[c] IN
    /\ hubPC = "select"
    /\ reader[c] = "unregister"
    /\ reader' = [reader EXCEPT ![c] = "closing"]
    /\ IF clients[u] = None
       THEN /\ receivers = {}
            /\ UNCHANGED hubVars
       ELSE /\ clients' = [clients EXCEPT ![u] = None]
            /\ clientCount' = clientCount - 1
            /\ hubPC' = "notify" /\ hubConn' = c
            /\ hubNotify' = receivers
            /\ UNCHANGED hubOld
    /\ UNCHANGED <<writer, ctxDone, closed, connOpen, sendq, workerVars,
                   sdVars, expired, crashed>>

\* SendToUser on the goroutine of Hub.Run gives up: the user is offline, the
\* channel is full for too long, or Hub.Shutdown has cancelled the context.
NoticeGivenUp(c) ==
    \/ c = None
    \/ sdPC["main"] # "off"
    \/ c # None /\ "run" \in expired /\ c \notin closed /\ ~HasRoom(c)

\* NotifyFailed: SendToUser(tr.To).
HubNotifyFailed(u) ==
    LET c == clients[u] IN
    /\ hubPC = "notify" /\ u \in hubNotify
    /\ hubNotify' = hubNotify \ {u}
    /\ expired' = expired \ {"run"}
    /\ \/ NoticeGivenUp(c) /\ UNCHANGED <<sendq, crashed>>
       \/ /\ c # None /\ c \notin closed /\ HasRoom(c)
          /\ sendq' = [sendq EXCEPT ![c] = @ + 1]
          /\ UNCHANGED crashed
       \/ /\ c # None /\ c \in closed
          /\ crashed' = TRUE
          /\ UNCHANGED sendq
    /\ UNCHANGED <<clients, clientCount, hubPC, hubConn, hubOld, reader,
                   writer, ctxDone, closed, connOpen, workerVars, sdVars>>

\* Mutant: Close without the Stop before it.
HubCloseWithoutStop ==
    /\ hubPC = "notify" /\ hubNotify = {}
    /\ closed' = closed \cup {hubConn}
    /\ hubPC' = "unreg"
    /\ UNCHANGED <<clients, clientCount, hubConn, hubOld, hubNotify, reader,
                   writer, ctxDone, connOpen, sendq, workerVars, sdVars,
                   expired, crashed>>

HubCloseUnregistered ==
    /\ hubPC = "notify" /\ hubNotify = {}
    /\ ctxDone' = ctxDone \cup {hubConn}
    /\ closed' = closed \cup {hubConn}
    /\ hubPC' = "unreg"
    /\ UNCHANGED <<clients, clientCount, hubConn, hubOld, hubNotify, reader,
                   writer, connOpen, sendq, workerVars, sdVars, expired,
                   crashed>>

\* peer_disconnected goes to every registered connection that has room.
HubBroadcast ==
    /\ hubPC = "unreg"
    /\ WaitOver("run", hubConn)
    /\ crashed' = (RegisteredConns \cap closed # {})
    /\ sendq' = [c \in Conns |-> IF c \in RegisteredConns /\ HasRoom(c)
                                 THEN sendq[c] + 1 ELSE sendq[c]]
    /\ hubPC' = "select" /\ hubConn' = None
    /\ expired' = expired \ {"run"}
    /\ UNCHANGED <<clients, clientCount, hubOld, hubNotify, reader, writer,
                   ctxDone, closed, connOpen, workerVars, sdVars>>

----------------------------------------------------------------------------
\* Connections: handleWebSocket, readPump, writePump

\* A valid token in the Authorization header leads to Register, then Start;
\* otherwise the pumps start and wait for an auth message.
Connect(c, way) ==
    /\ reader[c] = "idle"
    /\ connOpen' = connOpen \cup {c}
    /\ reader' = [reader EXCEPT ![c] = IF way = "header" THEN "handler"
                                                           ELSE "unauth"]
    /\ writer' = [writer EXCEPT ![c] = IF way = "header" THEN "none"
                                                           ELSE "running"]
    /\ UNCHANGED <<hubVars, ctxDone, closed, sendq, workerVars, sdVars,
                   expired, crashed>>

HandlerStart(c) ==
    /\ reader[c] = "start"
    /\ reader' = [reader EXCEPT ![c] = "reading"]
    /\ writer' = [writer EXCEPT ![c] = "running"]
    /\ UNCHANGED <<hubVars, ctxDone, closed, connOpen, sendq, workerVars,
                   sdVars, expired, crashed>>

\* A valid auth message: the response is queued, then Register blocks.
Authenticate(c) ==
    /\ reader[c] = "unauth" /\ c \in connOpen
    /\ reader' = [reader EXCEPT ![c] = "register"]
    /\ sendq' = [sendq EXCEPT ![c] = IF HasRoom(c) THEN @ + 1 ELSE @]
    /\ UNCHANGED <<hubVars, writer, ctxDone, closed, connOpen, workerVars,
                   sdVars, expired, crashed>>

\* The network, or the peer, ends the connection.
PeerLeaves(c) ==
    /\ c \in connOpen
    /\ connOpen' = connOpen \ {c}
    /\ UNCHANGED <<hubVars, reader, writer, ctxDone, closed, sendq,
                   workerVars, sdVars, expired, crashed>>

\* A failed auth or a read error before it: nothing was registered.
UnauthenticatedExit(c) ==
    /\ reader[c] = "unauth"
    /\ reader' = [reader EXCEPT ![c] = "closing"]
    /\ UNCHANGED <<hubVars, writer, ctxDone, closed, connOpen, sendq,
                   workerVars, sdVars, expired, crashed>>

\* Mutant: readPump returns without unregistering.
ReaderExitSilently(c) ==
    /\ reader[c] = "reading"
    /\ c \notin connOpen \/ c \in ctxDone \/ sdPC["main"] # "off"
    /\ reader' = [reader EXCEPT ![c] = "closing"]
    /\ UNCHANGED <<hubVars, writer, ctxDone, closed, connOpen, sendq,
                   workerVars, sdVars, expired, crashed>>

\* A read error, a cancelled context seen at the loop head, or the panic of
\* Submit on the queue that messageHandler.Shutdown closed.
ReaderExit(c) ==
    /\ reader[c] = "reading"
    /\ c \notin connOpen \/ c \in ctxDone \/ sdPC["main"] # "off"
    /\ reader' = [reader EXCEPT ![c] = "unregister"]
    /\ UNCHANGED <<hubVars, writer, ctxDone, closed, connOpen, sendq,
                   workerVars, sdVars, expired, crashed>>

ReaderFinish(c) ==
    /\ reader[c] = "closing"
    /\ reader' = [reader EXCEPT ![c] = "done"]
    /\ connOpen' = connOpen \ {c}
    /\ ctxDone' = ctxDone \cup {c}
    /\ UNCHANGED <<hubVars, writer, closed, sendq, workerVars, sdVars,
                   expired, crashed>>

WriterWrite(c) ==
    /\ writer[c] = "running" /\ sendq[c] > 0
    /\ sendq' = [sendq EXCEPT ![c] = @ - 1]
    /\ UNCHANGED <<hubVars, reader, writer, ctxDone, closed, connOpen,
                   workerVars, sdVars, expired, crashed>>

\* Mutant: writePump returns without closing the socket.
WriterExitLeavesSocket(c) ==
    /\ writer[c] = "running"
    /\ c \in ctxDone \/ (c \in closed /\ sendq[c] = 0) \/ c \notin connOpen
    /\ writer' = [writer EXCEPT ![c] = "done"]
    /\ UNCHANGED <<hubVars, reader, ctxDone, closed, connOpen, sendq,
                   workerVars, sdVars, expired, crashed>>

\* Cancelled, channel closed and drained, or a write or ping that fails.
WriterExit(c) ==
    /\ writer[c] = "running"
    /\ c \in ctxDone \/ (c \in closed /\ sendq[c] = 0) \/ c \notin connOpen
    /\ writer' = [writer EXCEPT ![c] = "done"]
    /\ connOpen' = connOpen \ {c}
    /\ UNCHANGED <<hubVars, reader, ctxDone, closed, sendq, workerVars,
                   sdVars, expired, crashed>>

----------------------------------------------------------------------------
\* SendToUserWithContext and sendWithTimeout, called by a worker

WorkerLoad(w, u) ==
    /\ workerPC[w] = "idle" /\ clients[u] # None
    /\ workerPC' = [workerPC EXCEPT ![w] = "sending"]
    /\ workerTo' = [workerTo EXCEPT ![w] = clients[u]]
    /\ UNCHANGED <<hubVars, connVars, sdVars, expired, crashed>>

\* The frame is queued, or the timeout drops it on a channel still full.
WorkerSend(w) ==
    LET c == workerTo[w] IN
    /\ workerPC[w] = "sending" /\ c \notin closed
    /\ sendq' = [sendq EXCEPT ![c] = IF HasRoom(c) THEN @ + 1 ELSE @]
    /\ workerPC' = [workerPC EXCEPT ![w] = "idle"]
    /\ workerTo' = [workerTo EXCEPT ![w] = None]
    /\ UNCHANGED <<hubVars, reader, writer, ctxDone, closed, connOpen,
                   sdVars, expired, crashed>>

\* Sending on a closed channel panics; the recover of worker() is outside
\* its loop, so the worker ends with it.
WorkerPanic(w) ==
    /\ workerPC[w] = "sending" /\ workerTo[w] \in closed
    /\ workerPC' = [workerPC EXCEPT ![w] = "dead"]
    /\ workerTo' = [workerTo EXCEPT ![w] = None]
    /\ UNCHANGED <<hubVars, connVars, sdVars, expired, crashed>>

----------------------------------------------------------------------------
\* Hub.shutdown

ShutdownStart(g) ==
    /\ sdPC' = [sdPC EXCEPT ![g] = "next"]
    /\ sdTodo' = [sdTodo EXCEPT ![g] = RegisteredConns]
    /\ UNCHANGED <<clients, clientCount, hubConn, hubOld, hubNotify, connVars,
                   workerVars, sdConn, expired, crashed>>

MainShutdown ==
    /\ MayShutdown /\ sdPC["main"] = "off"
    /\ ShutdownStart("main")
    /\ UNCHANGED hubPC

\* main's cancel() after Hub.Shutdown ends Hub.Run, which shuts down again.
RunCtxDone ==
    /\ hubPC = "select" /\ sdPC["main"] = "done"
    /\ hubPC' = "stopped"
    /\ ShutdownStart("run")

ShutdownStop(g, c) ==
    /\ sdPC[g] = "next" /\ c \in sdTodo[g]
    /\ sdPC' = [sdPC EXCEPT ![g] = "notify"]
    /\ sdTodo' = [sdTodo EXCEPT ![g] = @ \ {c}]
    /\ sdConn' = [sdConn EXCEPT ![g] = c]
    /\ ctxDone' = ctxDone \cup {c}
    /\ UNCHANGED <<hubVars, reader, writer, closed, connOpen, sendq,
                   workerVars, expired, crashed>>

\* The shutdown frame is sent, or times out on a full channel; then Close.
ShutdownNotify(g) ==
    LET c == sdConn[g] IN
    /\ sdPC[g] = "notify"
    /\ crashed' = (c \in closed)
    /\ sendq' = [sendq EXCEPT ![c] = IF HasRoom(c) THEN @ + 1 ELSE @]
    /\ closed' = closed \cup {c}
    /\ sdPC' = [sdPC EXCEPT ![g] = "wait"]
    /\ UNCHANGED <<hubVars, reader, writer, ctxDone, connOpen, workerVars,
                   sdTodo, sdConn, expired>>

ShutdownWaited(g) ==
    /\ sdPC[g] = "wait" /\ WaitOver(g, sdConn[g])
    /\ sdPC' = [sdPC EXCEPT ![g] = "next"]
    /\ sdConn' = [sdConn EXCEPT ![g] = None]
    /\ expired' = expired \ {g}
    /\ UNCHANGED <<hubVars, connVars, workerVars, sdTodo, crashed>>

ShutdownClear(g) ==
    /\ sdPC[g] = "next" /\ sdTodo[g] = {}
    /\ clients' = [u \in Users |-> None]
    /\ sdPC' = [sdPC EXCEPT ![g] = "done"]
    /\ UNCHANGED <<clientCount, hubPC, hubConn, hubOld, hubNotify, connVars,
                   workerVars, sdTodo, sdConn, expired, crashed>>

----------------------------------------------------------------------------
Waiting(g) ==
    \/ sdPC[g] = "wait"
    \/ g = "run" /\ hubPC \in {"replace", "reject", "unreg"}
    \/ g = "run" /\ hubPC = "notify" /\ hubNotify # {}

TimerExpires(g) ==
    /\ Waiting(g) /\ g \notin expired
    /\ expired' = expired \cup {g}
    /\ UNCHANGED <<hubVars, connVars, workerVars, sdVars, crashed>>

HubStep ==
    \/ \E c \in Conns : HubReceiveRegister(c)
    \/ HubReplace
    \/ HubAdmit
    \/ HubReject
    \/ \E c \in Conns, R \in SUBSET Users : HubReceiveUnregister(c, R)
    \/ \E u \in Users : HubNotifyFailed(u)
    \/ HubCloseUnregistered
    \/ HubBroadcast
    \/ RunCtxDone

ConnStep(c) ==
    \/ \E way \in AuthWays : Connect(c, way)
    \/ HandlerStart(c)
    \/ Authenticate(c)
    \/ PeerLeaves(c)
    \/ UnauthenticatedExit(c)
    \/ ReaderExit(c)
    \/ ReaderFinish(c)
    \/ WriterWrite(c)
    \/ WriterExit(c)

WorkerStep(w) ==
    \/ \E u \in Users : WorkerLoad(w, u)
    \/ WorkerSend(w)
    \/ WorkerPanic(w)

ShutdownStep(g) ==
    \/ \E c \in Conns : ShutdownStop(g, c)
    \/ ShutdownNotify(g)
    \/ ShutdownWaited(g)
    \/ ShutdownClear(g)

\* Nothing is left to happen: the process has ended or waits for peers.
Terminating ==
    /\ \/ crashed
       \/ sdPC["run"] = "done"
       \/ hubPC = "select" /\ \A c \in Conns : reader[c] = "done"
    /\ UNCHANGED vars

Next ==
    \/ /\ ~crashed
       /\ \/ HubStep
          \/ \E c \in Conns : ConnStep(c)
          \/ \E w \in Workers : WorkerStep(w)
          \/ MainShutdown
          \/ \E g \in Goroutines : ShutdownStep(g) \/ TimerExpires(g)
    \/ Terminating

\* The steps of the pumps that wait for nobody.
PumpProgress(c) ==
    \/ HandlerStart(c)
    \/ c \notin connOpen /\ (ReaderExit(c) \/ UnauthenticatedExit(c))
    \/ ReaderFinish(c)
    \/ WriterExit(c)

\* Of Hub.Run, the shutdowns and the pumps, some goroutine that can go on does;
\* timers fire, and the ping ticker makes a write pump notice a dead socket.
\* Peers promise nothing.
Fairness == WF_vars(~crashed /\ \/ HubStep
                                \/ \E c \in Conns : PumpProgress(c)
                                \/ \E g \in Goroutines :
                                       ShutdownStep(g) \/ TimerExpires(g))

Spec == Init /\ [][Next]_vars
FairSpec == Spec /\ Fairness
----------------------------------------------------------------------------
(***************************************************************************)
(* Properties                                                              *)
(***************************************************************************)
Serving == sdPC["main"] = "off"

\* The hub never holds more registered connections than MaxConnections,
\* although the count it compares is kept apart from the map it bounds.
ConnectionLimit == Cardinality(Registered) <= MaxConnections

\* Until shutdown the counter equals the size of the map in every state, also
\* between the removal of a replaced connection and the storing of its
\* successor, and after an Unregister that removed somebody else's connection.
CountIsExact == Serving => clientCount = Cardinality(Registered)

\* Hub.Run has no recover and sends on channels it has itself closed for other
\* connections: until shutdown it never sends on a closed one.
HubNeverPanics == Serving => ~crashed

\* Until shutdown the only registered connection whose channel may be closed
\* is the one Hub.Run is replacing at this moment.
OnlyReplacedIsClosed ==
    Serving => \A c \in RegisteredConns \cap closed :
                   hubPC = "replace" /\ c = hubOld

\* The map never keeps a connection whose read pump is over: Unregister blocks
\* until Hub.Run has taken it, even when Run stores the connection after the
\* pump asked to be unregistered.
RegisteredHaveReader ==
    \A c \in RegisteredConns : reader[c] \notin {"closing", "done"}

\* The hub implements what the rest of the service relies on.
Registry == INSTANCE ConnectionRegistry
    WITH registered <- clients, cancelled <- ctxDone, shut <- closed
ImplementsRegistry == Registry!RegistrySpec

\* peer_disconnected is only announced for a user who is not in the map when
\* the announcement goes out, although Run waits up to two seconds in between.
AnnouncedUsersAreOffline ==
    [][hubPC = "unreg" /\ hubPC' = "select" => clients[Owner[hubConn]] = None]_vars

\* Hub.Run, which waits for pumps that may themselves be blocked on Hub.Run
\* and for full channels, always gets back to its select.
HubReturnsToSelect ==
    hubPC # "select" ~> hubPC = "select" \/ hubPC = "stopped" \/ crashed

\* A read pump blocked in Unregister is released, unless the hub shuts down.
UnregisterIsServed ==
    \A c \in Conns : reader[c] = "unregister" ~> reader[c] = "done" \/ ~Serving

\* A connection the hub has replaced or refused ends: both its pumps return.
ClosedConnectionsEnd ==
    \A c \in Conns : c \in closed ~>
        (reader[c] = "done" /\ writer[c] = "done") \/ ~Serving

\* Hub.Shutdown, and the second shutdown that Run starts when main cancels its
\* context, come to an end although pumps block on a hub that stops receiving.
ShutdownCompletes == ~Serving ~> sdPC["run"] = "done" \/ crashed

\* README.md:453 and the metric's name: chat_websocket_connections_active is
\* the number of active connections.  When nothing is in progress, that is the
\* number of authenticated connections whose pumps and socket are up.
Live(c) == reader[c] = "reading" /\ writer[c] = "running" /\ c \in connOpen
Settled ==
    /\ Serving /\ hubPC = "select"
    /\ \A c \in Conns : Live(c) \/ reader[c] \in {"idle", "done"}
ActiveGaugeIsAccurate == Settled => clientCount = Cardinality({c \in Conns : Live(c)})
=============================================================================
