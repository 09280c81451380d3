---------------------------- MODULE WebSocketClient ----------------------------
(***************************************************************************)
(* The browser's connection: useWebSocket.ts makes a WebSocketClient          *)
(* (websocket/client.ts) for every access token and drops the one before.     *)
(* A client reconnects by a timer, and has its token refreshed when the       *)
(* server refuses it; sockets open, close and deliver when they like, also     *)
(* after their client was dropped or has opened another.  An onerror of a      *)
(* socket is left out: onclose follows it and overwrites the state it set.     *)
(***************************************************************************)
EXTENDS Naturals, Sequences

CONSTANTS MaxReconnectAttempts,
          MaxClients, MaxSockets   \* bounds: clients made, sockets opened

ASSUME SocketAssumption == /\ MaxReconnectAttempts \in Nat \ {0}
                           /\ MaxClients \in Nat /\ MaxSockets \in Nat

VARIABLES hasToken,      \* the hook is given an access token
          hookEnabled,
          effectDue,     \* props have changed and the effect has not run
          clientRef,     \* the client of the hook
          hookState,     \* what the hook returns
          clients,       \* every client there has been
          sockets        \* every socket there has been

propVars == <<hasToken, hookEnabled, effectDue>>
socketVars == <<propVars, clientRef, hookState, clients, sockets>>

NoClient == 0
NoSocket == 0
ConnectionStates == {"disconnected", "connecting", "connected"}
ReadyStates == {"connecting", "open", "closing", "closed"}
Client == [attempts : 0 .. MaxReconnectAttempts,
           reconnectTimer : BOOLEAN, lateConnect : BOOLEAN,
           isRefreshing : BOOLEAN, asking : BOOLEAN,
           state : ConnectionStates, ws : 0 .. MaxSockets,
           dropped : BOOLEAN, refreshed : BOOLEAN]
Socket == [owner : 1 .. MaxClients, ready : ReadyStates,
           auth : {"none", "sent", "answered"}]

NewClient ==
    [attempts |-> 0, reconnectTimer |-> FALSE,
     lateConnect |-> FALSE, isRefreshing |-> FALSE, asking |-> FALSE,
     state |-> "disconnected", ws |-> NoSocket, dropped |-> FALSE,
     refreshed |-> FALSE]

SocketInit ==
    /\ hasToken = TRUE /\ hookEnabled \in BOOLEAN /\ effectDue = TRUE
    /\ clientRef = NoClient /\ hookState = "disconnected"
    /\ clients = <<>> /\ sockets = <<>>

-----------------------------------------------------------------------------
(* What the methods of a client do: to the clients cs and the sockets ss.   *)

Live(ss, s) == s # NoSocket /\ ss[s].ready \in {"connecting", "open"}

Connects(cs, ss, i) == ~Live(ss, cs[i].ws)

\* connect(): a socket that is closing does not keep it from opening another.
AfterConnect(cs, ss, i) ==
    IF ~Connects(cs, ss, i) THEN <<cs, ss>>
    ELSE <<[cs EXCEPT ![i].state = "connecting", ![i].ws = Len(ss) + 1],
           Append(ss, [owner |-> i, ready |-> "connecting", auth |-> "none"])>>

\* this.ws.close().
Close(ss, s) == IF Live(ss, s) THEN [ss EXCEPT ![s].ready = "closing"] ELSE ss

\* disconnect(), without using up the attempts.
DisconnectOnly(c) ==
    [c EXCEPT !.reconnectTimer = FALSE, !.ws = NoSocket, !.dropped = TRUE,
              !.state = "disconnected"]

\* disconnect(): the timer of a refresh is not cleared.
Disconnect(c) ==
    [c EXCEPT !.reconnectTimer = FALSE, !.ws = NoSocket, !.dropped = TRUE,
              !.state = "disconnected", !.attempts = MaxReconnectAttempts]

\* setState tells the hook what has changed, whichever client it is.
ClientsBecome(cs, ss, i) ==
    /\ clients' = cs /\ sockets' = ss
    /\ hookState' = IF cs[i].state # clients[i].state THEN cs[i].state ELSE hookState

Connect(cs, i) ==
    /\ Connects(cs, sockets, i) => Len(sockets) < MaxSockets
    /\ LET after == AfterConnect(cs, sockets, i)
       IN ClientsBecome(after[1], after[2], i)

-----------------------------------------------------------------------------
(* The hook.                                                               *)

\* Elsewhere the token was refreshed or the session ended.
PropsChange ==
    /\ hasToken' \in BOOLEAN /\ hookEnabled' \in BOOLEAN
    /\ effectDue' = TRUE
    /\ UNCHANGED <<clientRef, hookState, clients, sockets>>

\* The effect drops the client and makes one for the new props.
EffectRuns ==
    /\ effectDue /\ effectDue' = FALSE
    /\ LET old == clientRef
           ss == IF old = NoClient THEN sockets ELSE Close(sockets, clients[old].ws)
           cs == IF old = NoClient THEN clients
                 ELSE [clients EXCEPT ![old] = Disconnect(@)]
           new == Len(clients) + 1
       IN IF hookEnabled /\ hasToken
          THEN /\ new <= MaxClients /\ Len(sockets) < MaxSockets
               /\ LET after == AfterConnect(Append(cs, NewClient), ss, new)
                  IN clients' = after[1] /\ sockets' = after[2]
               /\ clientRef' = new
               /\ hookState' = "connecting"
          ELSE /\ clients' = cs /\ sockets' = ss
               /\ clientRef' = NoClient
               /\ hookState' = "disconnected"
    /\ UNCHANGED <<hasToken, hookEnabled>>

-----------------------------------------------------------------------------
(* A socket.                                                               *)

\* onopen: the token goes out over the socket the client has now.
SocketOpens(s) == LET w == clients[sockets[s].owner].ws IN
    /\ sockets[s].ready = "connecting"
    /\ LET ss == [sockets EXCEPT ![s].ready = "open"]
       IN sockets' = IF w # NoSocket /\ ss[w].ready = "open"
                     THEN [ss EXCEPT ![w].auth = "sent"]
                     ELSE ss
    /\ UNCHANGED <<propVars, clientRef, hookState, clients>>

\* The answer to the token is due.
AnswerDue(s) == sockets[s].ready = "open" /\ sockets[s].auth = "sent"

Connected(s) == LET i == sockets[s].owner IN
    /\ AnswerDue(s)
    /\ ClientsBecome([clients EXCEPT ![i].state = "connected", ![i].attempts = 0,
                                     ![i].isRefreshing = FALSE],
                     [sockets EXCEPT ![s].auth = "answered"], i)
    /\ UNCHANGED <<propVars, clientRef>>

\* Any message ends a state of connecting.
Receives(s) == LET i == sockets[s].owner IN
    /\ sockets[s].ready = "open" /\ sockets[s].auth = "answered"
    /\ clients[i].state = "connecting"
    /\ ClientsBecome([clients EXCEPT ![i].state = "connected", ![i].attempts = 0], sockets, i)
    /\ UNCHANGED <<propVars, clientRef>>

\* The token is refused for the first time: it is refreshed.  (A second refresh
\* that meets the first is counted as one.)
TokenRefused(s) == LET i == sockets[s].owner IN
    /\ AnswerDue(s) /\ ~clients[i].isRefreshing
    /\ clients' = [clients EXCEPT ![i].isRefreshing = TRUE, ![i].asking = TRUE,
                                  ![i].refreshed = TRUE]
    /\ sockets' = Close([sockets EXCEPT ![s].auth = "answered"], clients[i].ws)
    /\ UNCHANGED <<propVars, clientRef, hookState>>

\* Any other refusal only closes the socket the client has.
Refused(s) ==
    /\ AnswerDue(s)
    /\ sockets' = Close([sockets EXCEPT ![s].auth = "answered"],
                        clients[sockets[s].owner].ws)
    /\ UNCHANGED <<propVars, clientRef, hookState, clients>>

\* onclose: the client loses its socket, even if that is a newer one.
SocketCloses(s) == LET i == sockets[s].owner
                       c == clients[i]
                       closed == [c EXCEPT !.state = "disconnected", !.ws = NoSocket]
                       again == /\ ~c.isRefreshing /\ ~c.reconnectTimer
                                /\ c.attempts < MaxReconnectAttempts IN
    /\ sockets[s].ready # "closed"
    /\ ClientsBecome([clients EXCEPT ![i] =
                         IF again
                         THEN [closed EXCEPT !.reconnectTimer = TRUE, !.attempts = @ + 1]
                         ELSE closed],
                     [sockets EXCEPT ![s].ready = "closed"], i)
    /\ UNCHANGED <<propVars, clientRef>>

-----------------------------------------------------------------------------
(* Timers and the refresh.                                                 *)

ReconnectFires(i) ==
    /\ clients[i].reconnectTimer
    /\ Connect([clients EXCEPT ![i].reconnectTimer = FALSE], i)
    /\ UNCHANGED <<propVars, clientRef>>

\* onTokenExpired: the token becomes the prop and that of the hook's client;
\* this client connects again in a while, dropped or not.
TokenRefreshed(i) ==
    LET told == IF clientRef = NoClient THEN clients
                ELSE [clients EXCEPT ![clientRef].isRefreshing = FALSE]
    IN /\ clients[i].asking
       /\ clients' = [told EXCEPT ![i].attempts = 0, ![i].asking = FALSE,
                                  ![i].lateConnect = TRUE]
       /\ hasToken' = TRUE /\ effectDue' = TRUE
       /\ UNCHANGED <<hookEnabled, clientRef, hookState, sockets>>

\* Without a token the client stays where it is.
TokenNotRefreshed(i) ==
    /\ clients[i].asking
    /\ clients' = [clients EXCEPT ![i].asking = FALSE, ![i].isRefreshing = FALSE]
    /\ UNCHANGED <<propVars, clientRef, hookState, sockets>>

LateConnectFires(i) ==
    /\ clients[i].lateConnect
    /\ Connect([clients EXCEPT ![i].lateConnect = FALSE], i)
    /\ UNCHANGED <<propVars, clientRef>>

SocketNext ==
    \/ PropsChange \/ EffectRuns
    \/ \E s \in DOMAIN sockets : \/ SocketOpens(s) \/ Connected(s) \/ Receives(s)
                                 \/ TokenRefused(s) \/ Refused(s) \/ SocketCloses(s)
    \/ \E i \in DOMAIN clients : \/ ReconnectFires(i) \/ TokenRefreshed(i)
                                 \/ TokenNotRefreshed(i) \/ LateConnectFires(i)

SocketSpec == SocketInit /\ [][SocketNext]_socketVars

-----------------------------------------------------------------------------
\* The type invariant: a client and its socket belong to each other (the fields
\* of WebSocketClient, client.ts 25-33).
SocketTypeOK ==
    /\ hasToken \in BOOLEAN /\ hookEnabled \in BOOLEAN /\ effectDue \in BOOLEAN
    /\ clientRef \in 0 .. Len(clients) /\ hookState \in ConnectionStates
    /\ clients \in Seq(Client) /\ Len(clients) <= MaxClients
    /\ sockets \in Seq(Socket) /\ Len(sockets) <= MaxSockets
    /\ \A i \in DOMAIN clients : clients[i].ws # NoSocket =>
          clients[i].ws \in DOMAIN sockets /\ sockets[clients[i].ws].owner = i

\* A dropped client connects no more: unless it had its token refreshed, it
\* keeps no timer and no socket that is or becomes open, although the close
\* events of its sockets come after disconnect (client.ts 172-206).
DroppedIsSilent ==
    \A i \in DOMAIN clients : clients[i].dropped /\ ~clients[i].refreshed =>
        /\ ~clients[i].reconnectTimer
        /\ \A s \in DOMAIN sockets : sockets[s].owner = i => ~Live(sockets, s)
===============================================================================
