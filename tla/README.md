# Formal model of dh-secure-chat

TLA+ models of the messenger in `src/`: a Go backend (`src/backend`: `auth`,
`identity` and `chat` services with PostgreSQL) and a React client
(`src/frontend`). The modules are translated from the source; TLC checks them
on small instances, and TLAPS proves nearly all of their safety properties for
every instance. `PROJECT.json` maps every definition to the lines it stands for.

## 1. Inventory

Paths are relative to `src/backend/internal` or `src/frontend/src`.

### 1.1 Backend

| Component | State | Operations | Talks to |
|---|---|---|---|
| Hub and client pumps (`chat/websocket/hub.go`, `client.go`) | `sync.Map` user → connection, counter, unbuffered channels `register`/`unregister`; per connection a send channel, a context, a socket, two goroutines and a WaitGroup | register (with replacement and rejection), unregister (notices, broadcast), `SendToUser*`, `Shutdown`, read pump, write pump | transfer tracking on disconnect; workers send through it; the HTTP endpoint registers |
| Message pipeline (`incoming_message_handler.go`, `processor.go`, `router.go` of `chat/websocket`) | bounded queue, 10 workers | `HandleMessage`, `Submit`, `process`, `Route`, `Shutdown` | read pumps produce, the hub sends, tracker counts |
| Idempotency tracker (`idempotency.go`, `middleware/idempotency.go`) | map operation → result and time | `Execute`, `cleanup` | called by read pumps |
| WebSocket endpoint, start-up (`chat/http/router.go`, `cmd/chat/main.go`) | – | upgrade, authentication by header or by message, order of the shutdown hooks | hub, token verification |
| Refresh tokens (`auth/service/auth_service.go`, `refresh_token_rotator.go`, `refresh_token_cache.go`, repositories, `common/db` transactions, cleanup) | table `refresh_tokens`, in-process cache | refresh, login, logout, rotation, cleanup | database, circuit breaker |
| Access tokens (`token_issuer.go`, `revoked_token_repository.go`, `jwtverify`) | table of revoked `jti`s | issue, parse, revoke, verify | every service |
| File transfer tracking (`chat/websocket/file_transfer_service.go`, `chat/transfer/tracker.go`) | map file → transfer | track, progress, complete, cleanup, disconnect | router, hub |
| Presence cache (`presence_service.go`) | user → exists, with TTL | `CheckUserExists`, cleanup | router |
| Last seen updater (`last_seen_updater.go`) | debounce times, queue, batch | enqueue, flush | hub on unregister, database |
| Circuit breaker (`common/resilience/circuit_breaker.go`) | failure counter, time of last failure | `Call`, `CallWithFallback`, `IsOpen` | repositories' callers |
| Identity keys (`identity/service/service.go`) | table of public keys | create, update, get | frontend key exchange |
| Search, configuration, logging, HTTP helpers, metrics | none of their own | queries, formatting | – |

### 1.2 Frontend

| Component | State | Operations | Talks to |
|---|---|---|---|
| WebSocket client (`shared/websocket/client.ts`, `useWebSocket.ts`) | socket, state, attempts, reconnect timer, refresh in progress; the hook's client | connect, authenticate, refresh, reconnect, disconnect, replace | chat session, API session |
| Sequence manager (`shared/websocket/sequence-manager.ts`) | next number, numbers received, buffer with times, last number delivered | number, add, expire, flush, trim, reset | WebSocket client |
| Chat session (`modules/chat/useChatSession.ts`, `hooks/useAckManager.ts`, `useMessageHandlers.ts`) | phase, ephemeral keys, session key, acknowledgements with two timers each | start, peer key, ack, retry, give up, peer offline or gone, reset | WebSocket client, fingerprints |
| Message list (`useChatSession.ts`, `useIncomingMessageHandlers.ts`, `MessageBubble.tsx`) | messages with status, reactions and quotations | send, edit, delete, react, read, and what comes of the peer's | chat session |
| File transfer (`useFileTransfer.ts`, `shared/crypto/file-encryption*.ts`) | buffers of chunks; worker with calls in two maps | start, chunk, complete, decrypt; encrypt in worker or page | chat session |
| API client and session (`shared/api`, `modules/app/App.tsx`) | token in the client and in the App, profile, cookie | request, refresh after 401, login, logout | auth service, WebSocket client |
| Identity keys (`shared/storage/indexeddb.ts`, `shared/crypto/identity.ts`, `modules/auth/AuthForm.tsx`) | key in IndexedDB or localStorage | generate, save, publish, clear | API session |
| Fingerprints (`shared/crypto/fingerprint.ts`, `FingerprintVerificationModal.tsx`, `ChatWindow.tsx`) | verified prints, history, the chat's and the dialog's copy | load, verify, close, block | chat session, which it enables |
| Recorders (`shared/audio/audio-recorder.ts`, `VoiceRecorder.tsx`, `VideoRecorder*.tsx`) | media recorder, stream, timers, modal | start, stop, cancel, limit, error, unmount | file transfer |
| Input line (`ChatWindow.tsx`) | draft, reply, typing timer, pending file | type, send, blur, choose and send a file | chat session |
| Playback, viewers, toasts, menus | what is on the screen | – | – |

### 1.3 How the parts interact

A frame travels: the sender's read pump → idempotency tracker → bounded queue →
one of the workers → router (decode, is the receiver online?) → the hub's map →
the receiver's send channel → its write pump. Registration and removal travel
the other way, through two unbuffered channels that only `Hub.Run` receives
from; `Hub.Run` in turn waits, for at most a timeout, for the pumps of the
connections it closes. The hub's map is read by every worker without a lock on
the connection it finds. `main` runs `Hub.Shutdown` on its own goroutine before
it cancels the context of `Hub.Run`, which shuts down a second time.
In the browser everything runs on one thread, in callbacks: a handler runs to
its next `await` and goes on later, when refs and state may belong to another
session. The fingerprint check enables the chat session, which makes the
WebSocket client connect; the client's frames are dispatched to the session, the
list and the file buffers; a refused token goes from the socket to the API
session, whose new token makes a new client. The parts share little else: the
server keeps nothing of `sequence`, so frames from it never reach the
sequence manager's `addMessage`, which only a server that forwards it would use.
An HTTP client exchanges a refresh token for a pair of new tokens; row locks in
the database and a cache in the process both decide whether it may.

### 1.4 What is hard, and what makes each part correct

- *Hub*: three kinds of goroutines wait for one another. Correct when counter
  and map agree, the limit holds, a removed connection is the one that left, no
  frame goes to a channel that is closed, and `Hub.Run` never waits for good.
- *Pipeline*: ten workers take from one queue while connections vanish.
  Correct when an accepted frame is forwarded or given up exactly once, a retry
  is not forwarded twice, frames of a sender keep their order, the queue drains.
- *Refresh tokens*: cache, row lock, commit and rotation interleave. Correct
  when a token is exchanged once, an expired or revoked one is refused, logout
  ends the session, and the number of rows is bounded.
- *File transfer tracking*: the router and the hub change it concurrently.
  Correct when exactly the transfers in progress are tracked at the end.
- *Presence, last seen, breaker*: values read, then acted upon. Correct when a
  stale value lives no longer than its TTL, the latest time is written, and the
  breaker rejects only above the threshold and lets calls through again.
- *Key exchange*: both sides start at once, frames are repeated, lost and late.
  Correct when the state shown and the key held agree, no timer outlives what it
  waits for, and both sides end with one key.
- *Message list*: results of decryption are applied in another order than the
  frames came. Correct when both windows agree in the end, a status is true and
  never taken back, and a quotation says what the quoted message says.
- *Reorder buffer*: correct when it is a channel that hands over in order and at
  most once, whatever expires or is trimmed.
- *Tokens, profile, keys, prints*: two or three copies of one fact, changed by
  answers that come late. Correct when the copies agree and belong to one user.
- *Recorders, worker, files, socket client, typing notice*: something is started
  and must be ended by one of several events. Correct when the device is
  released, the call answered, the file whole, the dropped client silent.

The hazards, each at its line, are listed in `PROJECT.json`.

## 2. Plan

1. **Backend core (done)**: `ConnectionRegistry` (abstract), `Hub` which
   implements it, `MessagePipeline` on top of the registry, `RefreshTokens`.
2. **Frontend (done)**: `OrderedChannel` (abstract) and `SequenceManager` which
   implements it; `ChatSession` (two windows, their timers and the server);
   `Conversation`, `FileTransfer`, `EncryptionWorker`, `AppSession`,
   `IdentityKeys`, `FingerprintCheck`, `VoiceRecording`, `VideoRecording`,
   `WebSocketClient`, `Composer`.
3. **Proofs (done)**: `HubProofs`, `RefreshTokensProofs`, `MessagePipelineProofs`,
   `ChatSessionProofs`, `ConversationProofs`, `TransferProofs` (files and the
   worker), `ClientProofs` (the other parts of the client), `MCClientProofs` (all
   parts beside each other). What stays with TLC is listed at the end of section 5.
4. **Left aside**: the small backend parts of section 6, each a table or a
   counter that few others depend on.

Every module takes its sets and limits as constants with named assumptions,
has one action per operation, and declares no recursive operator.

## 3. Modules

### ConnectionRegistry – what the hub promises
A map from users to connections, the connections whose context is cancelled
(`cancelled`) and those whose channel is closed (`shut`). A connection is
admitted for its owner only while that owner has none and the limit allows; it
is cancelled before it is shut; the map forgets a user at any moment. That last
freedom is the hub's: an unregistration removes whatever connection its user
has. `MessagePipeline` extends this module instead of the detailed hub.

### Hub – hub.go, client.go, the endpoint, the shutdown hooks
`hubPC` is the place of `Hub.Run`: each wait of its handlers (`WaitForShutdown`,
a notice to the receiver of a broken transfer) is a state of its own, so pumps
and workers run in between; what happens without waiting is one action.
`reader[c]` follows a connection from the HTTP handler (blocked in `Register`)
through the read pump (blocked in `Register` after an auth message, reading,
blocked in `Unregister`); `writer[c]` is its write pump. `sendq` counts the
frames of the send channel, `closed` and `ctxDone` are `Close` and `Stop`.
`sdPC` has one shutdown for `main` and one for `Hub.Run`, because the code runs
both. `expired` holds the goroutines whose `time.After` has fired; a timer may
fire at any moment of a wait. `crashed` is a panic that nobody recovers: it
ends the process. Receivers of notices are any set of users, since the tracker
is not part of this module.

### MessagePipeline – from the read pump to the receiver
`pumpPC` puts a step between the lookup, the submission and the storing of an
operation, as `Execute` does. A task keeps the connection it came from, for its
context. A worker checks that the receiver is online, later loads its
connection and later sends, so the connection may change in between; a send to
a channel closed meanwhile panics and ends the worker, because `recover` is
outside the loop (processor.go:47). Whether a frame decodes is the sender's
choice: the router may reject any frame and then answers with an error. `accepted`, `forwarded`, `dropped` and `lapses` record
what has happened.

### RefreshTokens – the tokens of one user
One action per statement or cache access of a request. A row lock
(`SELECT … FOR UPDATE`, or the delete of a transaction) is held until the
commit; a statement under READ COMMITTED picks its rows and then waits for
locks, hence two actions for the rotation. With `Faulty`, a statement may fail
or time out (done or not), a commit may fail, and the process may restart: the
cache and all requests vanish, the table stays. Three details come from the
code and decide what holds: `WithTx` assigns the error of `Commit` to a local
variable, so a lost commit looks like success (`lost`); the row of an expired
token is deleted in a transaction that the error then rolls back; and logout
answers success whatever the revocation returned.

### ChatSession – the key exchange of two windows
An action is a callback up to its next `await`; `tasks` holds the callbacks that
wait, with the keys they were given, and what they read from a ref afterwards is
what the ref holds then. `pending` is `pendingAcksRef`, `timers` the timers the
browser will fire, which are not the same: only an entry knows which timer to
clear. The server part is as `MessagePipeline` has it: frames overtake each
other, an `ephemeral_key` is taken once within the TTL, an absent peer is
answered with `peer_offline`, a departure is announced. `FaultKinds` names what
may go wrong; `Fault` counts. Three things are merged or left out: the ack of a
key and its import are one step, since nothing reads what lies between; React
runs the updater of `setState` at once; `session_established` changes nothing at
its receiver, as its `peer_id` names the receiver and is compared with the peer.
A timer that fires while the key or its ack is on its way is a fault (`delay`).

### Conversation – the message lists of both windows
`messages[p]` maps ids to the fields that anything depends on. Encryption and
decryption are awaited in `crypting`. Frames are delivered in any order, unless
the conversation is `calm`, a choice made in `Init`: then frames come in order and one is
decrypted before the next is handled. `ViewsAgree` is only claimed for calm
conversations; in the others a deletion can overtake its message, which then
stays. Texts are versions, the order of a message's emojis is left out.

### SequenceManager implements OrderedChannel
All of `sequence-manager.ts`. Times are reduced to what is `overdue` at the next
call: those of the buffer that came first, as many as time has passed for.
`receivedSequences` is a sequence because a JavaScript `Set` keeps the order of
insertion, which trimming follows. `OrderedChannel` has a log and the number passed last: it hands over
numbers beyond that one in increasing order, may pass some, or restarts.

### AppSession – the page, its API calls and the tokens
A call is a record on its way: sent, answered by the server at any time, handled
later. `clientToken` and `appToken` are the two copies. Rotation makes the
server refuse a refresh token at its second use, so of two calls refused at once
one loses. Answers are handled in whatever session there is when they come, as the
code does. Two things one would expect of the page are therefore not claimed. The
profile may be another user's than the token's: a logout and the login of another
user overtake the answer about the first (App.tsx:145, `ProfileArrives`). And a logout
may not last: a refresh that the server answered before it and the page handles
after it sets its token again (App.tsx:69, `RefreshSucceeds`). What is claimed is that the
page never stays with a token and without a profile, in which state its user can neither
chat nor log in. One login form is in use at a time.

### IdentityKeys – the two halves of the identity key
`mishaps` records the events after which the browser's half and the published
half may differ in this code: a registration that failed after the key was
saved, another account on the same device, a failed update, a login that reads
before the background clearing is done, the copy in `localStorage` (never
cleared at logout), another device. `KeysAgree` says that nothing else separates them.

### FingerprintCheck – the chat and its verification dialog
Both load the print for themselves, again with every new token; answers arrive
in any order, an answer is fixed when it is asked for. The peer's key may change
at any time. The branch of ChatWindow.tsx:205 for a print that is both changed and
verified is never taken, since the two exclude each other. The code and its
documentation disagree about the first contact: README.md:341 promises that the
print is saved automatically (trust on first use), the code blocks the chat until
the user has verified it (ChatWindow.tsx:196), and saves a print only in the dialog
(FingerprintVerificationModal.tsx:57). `EnabledIsVerified` states what the code does; a session
that a first print enables by itself, as the documentation has it, would violate it.

### WebSocketClient – every client of the hook and every socket
A socket keeps its owner after the owner has dropped it, so late events of it
are in the model; so are timers of a client that was dropped. `dropped` and
`refreshed` are history. Two refreshes of one client, and two late timers, are
counted as one; `onerror` is left out because `onclose` follows.

### VoiceRecording, VideoRecording – recorders and their components
`VoiceRecording` keeps every `AudioRecorder` there has been, since the button
forgets one while its callbacks are still to come. `overlapped` marks a start
before the last had begun, after which the code does leave a microphone open.
`VideoRecording` keeps every modal for the same reason; `ChatRenders` is the
effect that runs again because ChatWindow.tsx:810 passes an inline function.

### FileTransfer, EncryptionWorker – files
`FileTransfer` sends in bursts, loses and reorders frames, and changes the
session on either side at any time; a chunk remembers the key it was encrypted
with. `EncryptionWorker` has the page's calls, the worker's queue, and the
fallback to the page; a worker whose script did not load (`deaf`) answers nothing.

### Composer – the input line and the typing notice
The draft, the encryption that is awaited, and the timer that takes the notice
back with the link of the render that set it. A notice goes through `Submit` and
one of ten workers, without a record of its identity (incoming_message_handler.go:70):
so it may be dropped, and overtaken by a later one. `notices` is a bag of those on
their way, any of which may arrive next. What the peer shows can therefore differ from
the last notice sent, with the link up, and nothing is claimed about it but that it has a
timer of its own which ends it. `TypingIsTakenBack` is about the sender.

### MC modules
`MCHub`, `MCMessagePipeline`, `MCRefreshTokens` and `MCChatSession` only give constants their
values and name the symmetries: the two connections of one user, and requests,
are interchangeable. Symmetry is used in no run with a liveness property.
`MCClient` checks the eleven parts of the client that share no variable. Their
product would say no more than each of them, and be too large; so `part`, chosen
in `Init`, says which one runs, and the others keep their initial state. A
property of one part is evaluated in all states, and tested in those of its own.

## 4. Runs

| Run | Instance | Shows |
|---|---|---|
| hub_safety | 3 connections of 2 users (one reconnects), 1 worker, limit 2, channel of 1 | counter = map, no send on a closed channel by `Hub.Run`, a registered connection has a reader, a departure is announced only for a user who is gone, refinement of the registry |
| hub_limit | the same 3 connections, no worker, limit 1 | the limit, with rejections and replacements for the one slot |
| hub_shutdown | 2 connections of one user, limit 1, shutdown | both shutdowns come to an end while pumps are blocked on the hub; until then an unregistration is served, both pumps of a closed connection end, and `Hub.Run` returns to its select |
| pipeline_safety | 2 workers, queue of 1, a message with its retry and an acknowledgement, shutdown | every accepted copy is accounted for; a connection gets no retry accepted within the TTL; the queue drains unless panics have ended every worker |
| tokens | 2 requests, 3 tokens, 1 row kept, faults and restarts | a spent or expired token is refused; the cache holds a token only during its exchange; rows exceed the limit by no more than the requests that were issuing at once |
| chat_session | 2 windows, 2 starts each, 2 attempts, 1 fault of any kind; effects run at any time | an active window holds a key, a window without a session holds none, and every armed timer belongs to an acknowledgement that is awaited |
| client | eleven parts, each with the instance below | each part keeps what it promises |

| Part of `client` | Instance | Shows |
|---|---|---|
| SequenceManager | numbers 0 to 5, buffer of 2, 2 numbers kept | `ImplementsOrderedChannel`; `BufferIsAhead`: what waits is new and known |
| Conversation | 2 users, 3 emojis, 2 messages, 3 operations | `DeliveryIsTruthful`, `StatusNeverRegresses`, `PreviewFollowsTarget`, `ViewsAgree` |
| AppSession | 2 users, 3 tokens, 2 calls at once | `TokensAgree`: both copies are the same; `ProfileIsComing`: a session without a profile has a call under way that will bring one or end the session |
| IdentityKeys | 2 accounts, 4 key pairs | `KeysAgree`: a session signs with the key the server shows |
| VoiceRecording | 3 recorders | `MicrophoneIsReleased`: an open microphone is being started or stopped, or a running limit will stop it |
| VideoRecording | 2 modals, 2 renders of the chat each | `SentAsRecorded`: what is delivered is whole unless cut off, and was not cancelled |
| FileTransfer | 2 files of 2 chunks in bursts of 1, 2 sessions, a lost frame | `FilesArriveWhole`: a file shown has every chunk in place and is shown once, and only a file that was shown is reported delivered |
| EncryptionWorker | 2 calls of 2 chunks, one error of the worker | `NoCallIsForgotten`: a call that waits is in the worker's queue, in its hands or in its answers |
| FingerprintCheck | 3 prints, 6 loads | `EnabledIsVerified`: the session is enabled only for a print the user has verified, at the first contact too |
| WebSocketClient | 2 clients, 3 sockets, 2 attempts | `DroppedIsSilent`: a client that was dropped opens nothing again, unless it was refreshing |
| Composer | 3 drafts or files, 2 notices of a kind on their way | `TypingIsTakenBack`: when the last notice sent says that somebody types, the timer that sends its withdrawal is set, or the link was lost since |

`ClientTypeOK` is the one type invariant of the run, the conjunction of the parts'.

Runs that refute what the repository says of itself:

| Run | What the code does |
|---|---|
| hub_gauge | `handleUnregister` removes by user. The read pump of a replaced connection unregisters after its successor was stored, takes the successor out of the map, and the gauge of README.md:453 shows fewer connections than are live. |
| pipeline_duplicate | Lookup and store are not atomic: copies of a message on an old and a new connection are both accepted, against README.md:230. |
| pipeline_order | Two workers forward `file_complete` before the chunk sent ahead of it, against the sequence of README.md:182-192. |
| chat_establishes | A window that opens first has its key answered by `peer_offline`. Its peer connects and sends a key; the late `peer_offline` then clears the acknowledgement of the first key (useMessageHandlers.ts:119). The first window becomes active, the second establishes for good, against README.md:147. No fault is needed, and effects run promptly. |
| tokens_logout | A logout that finds no row leaves the cache as it is; a request that begins later exchanges the cached token, against README.md:401. |

Every property of a passing run has a mutant in its module – an off-by-one, a
forgotten reset, a dropped guard – that TLC finds to violate it.

### Bounds
- *Connections.* Three for two users give a replaced connection, its
  successor and a bystander, the least in which a late unregistration meets a
  successor and a broadcast has another receiver. With a limit of 2 both users
  are registered at once; with 1, connections are rejected. The liveness run
  keeps the replaced connection and its successor only.
- *Send channel of 1, queue of 1 or 2.* Full and empty both occur; the code's
  256 and 10 000 only make full rarer.
- *Copies.* `MaxCopies` says how often each operation is sent: twice for the
  message of the retry, once for the others.
- *Tokens.* `TokenLimit` 3: the first token and two more, by exchanges or
  logins; `MayCreate` only lets a request begin when its token still fits, so
  no request is cut off.
- *AckMaxRetries of 2* in chat_session (the code has 3, as chat_establishes): one retry, then giving up; a third
  attempt repeats the second. *MaxStarts of 2*: an old and a new key of a window.
  *MaxFaults of 1* over six kinds: the interplay of a fault with the exchange,
  not of faults with each other. The violation has no faults.
- *PromptEffects.* React may run an effect after another event or before; the
  passing run allows both, the violation needs only the prompt ones.
- *MaxNotices of 2*: a notice, its withdrawal and a second notice on their way
  at once, so that each can overtake the others.
- *MaxReconnectAttempts of 2* (the code has 5), *two clients*: the one that is
  replaced and its successor.
- *Two messages, three emojis*: a message with a reply to it, and the third
  reaction that replaces one of two.
- *Two files, two sessions*: frames of an old session meet buffers of a new one.
- *MaxTokens of 1* makes every second issue rotate; the code's 5 do so later.

### Fairness
`Hub.FairSpec`: Go schedules runnable goroutines, so of `Hub.Run`, the two
shutdowns, the pumps that wait for nobody and the timers that may fire, some one
goes on. One weak fairness condition for all of them together is enough, and
less than the scheduler gives. Peers are not in it: they need not authenticate,
send or leave. A read pump is only counted once its socket is closed
(`ReadMessage` then returns), a write pump because its ping ticker writes to a
dead socket. `MessagePipeline.FairSpec`: some worker that can go on does; read
pumps, connections and expiry promise nothing. `RefreshTokens` has no liveness
property: clients may leave at any time, and the database may never answer.
The client's modules state no fairness either: a user may never act, a promise
of the browser may never settle, and a retry that gives up is shown as an error.

## 5. Proofs

### HubProofs
`HubProofs` proves, for all finite sets of users, all sets of connections and
workers, every limit and buffer size (`ConnsAssumption`, `OwnerAssumption`,
`LimitsAssumption`):

- `TypeOKHolds`;
- `RegisteredHaveReaderHolds` and `ConnectionLimitHolds`, through shutdown too;
- `CountIsExactHolds`, `HubNeverPanicsHolds`, `OnlyReplacedIsClosedHolds`,
  until shutdown, after which `main` and `Hub.Run` both change the map;
- `AnnouncedUsersAreOfflineHolds`, an action property;
- `HubImplementsRegistry`, under the hypothesis `~MayShutdown`: `Hub.Shutdown`
  closes channels of connections that are still in the map, which the registry
  does not allow.

*The argument.* None of these is inductive alone. `TypeInv` adds to the types
which fields of `Hub.Run` are set in which state. `MapInv` says that a
registered connection belongs to the user it is stored under, that its reader
has begun and not unregistered, and that the connection being handled is not
yet in the map. `ServingInv` holds until shutdown: only connections that the hub
has replaced, refused or removed are closed, cancellation precedes closing, and
the user being handled has no entry while the hub waits. Their conjunction
`HubInv` is inductive, with one step per action. `CountInv` relates counter and
cardinality – equality while serving, and a map no larger than the limit after –
and is proved on top of `HubInv` with the library's facts on the cardinality of
finite sets. The refinement maps each step of `Hub` under `HubInv` to a step of
`ConnectionRegistry` or to a stutter.

### RefreshTokensProofs
For any finite set of requests, every `MaxTokens`, any number of tokens, with and
without faults (`TokensAssumption`):

- `TypeOKHolds`;
- `StaleTokensAreRefusedHolds`: a token spent or expired before a request began
  is not exchanged by it, unless a failed commit has lost its deletion;
- `CachedWhileExchangedHolds`: a cached token belongs to a request that has
  stored it and has not yet invalidated it;
- `TokensAreBoundedHolds`: the rows exceed `MaxTokens` by no more than the
  requests that were issuing at once.

*The argument.* `BoundInv` counts the requests that have still to create a
token, so that the newest token stays within `TokenLimit`: without it `TypeOK`
is not preserved. `TokensInv` is the conjunction of `TypeOK` and four parts.
`RequestInv` says which fields of a request are set at each of its steps.
`FreshInv` says that tokens are created in the order of their names, each by one
request. `SpentInv` says that a spent token is neither in the table nor in the
cache, unless its deletion was lost. `LateInv` says that a request whose token
was stale when it began has not been let past its lookups. The two are proved
inductive together, with one step per action; `CachedWhileExchanged` is
inductive on top of them. None of this needs the row locks: only the rows, the
order of delete, commit and invalidate, and the look at `expires_at` on both
ways to a token matter.

The bound on the rows needs more, because a request that has selected the rows
to rotate deletes them later and creates one row after that, while others do
the same. `Slack(r)` is what request `r` may still leave room for: the limit less
the rows outside its selection. `RowsInv` says, for every k, that at most k of the
requests past the selection have a slack of k or less. A row that is created
takes one from every slack and its creator from the count, so this is
preserved; k = 0 is the bound. A selection leaves at most `MaxTokens - 1` of the rows
it saw (`FewSurvive`, by the pigeonhole principle on how many rows are newer),
so a new selection begins with the largest slack.

### MessagePipelineProofs
For any finite set of workers, any connections, operations, copies and size of
the queue (`PipelineAssumption`): `TypeOKHolds`, `EveryTaskIsAccountedForHolds`
and `DuplicatesNeedExpiryHolds`.

*The argument.* `ControlOK` says what pumps and workers hold where their code uses
it. The account is a sum: `accepted` = queued + held by workers + `forwarded` +
`dropped`, for each operation. Each action moves one task from one summand to
the next; the lemmas before it say what an append, a removal of the head and a
step of one worker do to the number of places an operation has.
`DuplicatesNeedExpiry` assumes `OneConnectionEach`: without it the property is false,
as `pipeline_duplicate` shows. Then at most one copy is between lookup and
storing, and `LapseInv` counts it: an operation whose result is fresh, or about to
be stored, was accepted at most `lapses + 1` times, any other at most `lapses` times.

### ChatSessionProofs
For both windows, any number of starts, retries and faults of every kind
(`ChatPeersAssumption`, `ChatBoundsAssumption`, `ChatKeyAssumption`):
`ChatTypeOKHolds`, `KeyMatchesStateHolds`, `TimersAreOwnedHolds`.

*The argument.* `ChatInv` proves all three at once. `KeysAreSentOnce` is what ties
them together: a key that is being generated or signed is new to `pendingAcksRef`
and belongs to one callback, so sending it cannot overwrite an entry whose
timer is armed. `TasksHoldKeys` says that a callback carries the keys of its next step.

### ConversationProofs
For any number of messages and operations, any emojis, calm or not
(`ConversationAssumption`): `ConversationTypeOKHolds`, `DeliveryIsTruthfulHolds`,
`PreviewFollowsTargetHolds`, `ViewsAgreeHolds`, and the action property
`StatusNeverRegressesHolds`.

*The argument.* `NewComesOnce` follows a new message: it is being encrypted by its
author, in the inbox of the partner, being decrypted there or in the list, one
of them at a time and for the partner never again; a second arrival would set
its status back. `ToldTruly` says that an acknowledgement or a read receipt on its way
names a message the other window has shown. `QuoteOK` ties each quotation to the
list it is in: an edit or a deletion rewrites the quotations with the message,
and a message is written or arrives with what its list says at that moment.
`Kept` is the invariant after a step together with the action property, since
the same case split shows both.

`ViewsAgree` speaks of the moment when nothing is on its way; what holds before
is `ViewsInv`, on top of the invariant above. It could say what a list will be
once all frames have been handled, but that is a recursion over the inbox.
Instead it looks at the last frame of each kind. What comes to a window is one queue
(`Coming`): the frame being decrypted and the inbox behind it. For every
reaction, and for every own message its author has not deleted,
`Settled` says that the last note about it in the queue carries what the sender shows,
and that without such a note both windows show the same already. Sending a note
settles its kind and leaves the others; handling the first one either leaves
others behind it, which settle the kind, or was the last and makes the windows
equal. `MessagesArrive` says that a message is in both lists or on its way, and that
what changes it comes after it; without it a change would be lost on a list that
does not have the message yet. `DeletionsFollow` does the same for what was
deleted for both. In an empty queue `Settled` is equality. The proof needs the order
of the frames and one decryption at a time (`calm`); without them a deletion can
overtake its message, and the property is not claimed.

### TransferProofs
For any files, chunks, bursts, sessions and losses (`FileAssumption`):
`FileTypeOKHolds`, `FilesArriveWholeHolds`. For any calls, chunks and errors of the
worker (`WorkerAssumption`): `WorkerTypeOKHolds`, `NoCallIsForgottenHolds`.

*The argument.* A file is at one stage at a time (`FilesAt`, `Disjoint`): not sent, being
sent, its `file_complete` on its way, due, being decrypted or shown. Every action
moves it forward, so it is shown once. `BufferOK` keeps each chunk at its own
place; a buffer without a hole is then the file. `NobodyForgotten` names, for
every call of the worker that has no outcome, the place where it is; `CallsOK` and
`ReplyOK` say that what the worker answers is a call it was given, so that no
error leaves an entry of the two maps behind.

### ClientProofs
For every value of their bounds and sets: `EnabledIsVerifiedHolds` (FingerprintCheck),
`TypingIsTakenBackHolds` (Composer), `KeysAgreeHolds` (IdentityKeys),
`DroppedIsSilentHolds` (WebSocketClient), `SentAsRecordedHolds` (VideoRecording),
`VoiceTypeOKHolds` and `MicrophoneIsReleasedHolds` (VoiceRecording),
`BufferIsAheadHolds` and `ImplementsOrderedChannelHolds` (SequenceManager),
`AppSessionTypeOKHolds`, `TokensAgreeHolds` and `ProfileIsComingHolds` (AppSession).

*The arguments.* Each part has an inductive invariant of its own.
`FingerprintInv`: a dialog that shows a print has it in its state, and a verified
print is in the history. `ComposerInv`: the last notice sent stands only with a timer of a
render that had a link, and a link that has been up since. `IdentityInv`: `FormOK` says what a login form has found and
generated at each step, `StoreOK` whose key the browser holds, `FoundKeyIsOwned`
that a key found at login is the user's unless a mishap is recorded.
`SocketInv`: a client that was never refreshed has one live socket or one timer, and a
client with neither opens none after it was dropped. `VideoInv`: a modal
delivers once, what its recorder has recorded. `VoiceInv`: the recorder of the
button is the newest, and every other one has ended or is on the way to it
(`RecorderOK`, `Starts`). `IntervalsCounted`, for the types: a recording begins
once, so the intervals and the recordings that have not begun are together no more than
the recorders.

`SequenceInv` adds to `BufferIsAhead` that what was handed over is in order and not
beyond `lastDeliveredSequence`. Two facts carry the proof: `CleanupKeepsRecent`,
trimming never forgets a number that is ahead, so no copy of one that waits is
taken for new; and `RunIsInterval`, what is ready is an interval that begins
after the last number delivered, so handing it over is one `HandOver` of the
channel. Expiring, a flush, a late number and `getNextSequence` are stutters or
pass numbers without handing them over; `reset` is `Restart`.

`AppSessionInv`: `Carries` says what a call on its way may hold: tokens that were
issued, a real one with a good answer, and another call only with a refresh.
`ProfileIsComing` is inductive on top of it: every handler leaves the calls that
`Loads` names, repeats one, sends one with the new token, or clears the page. The helpers
of the handlers, which send calls and clear the page, have lemmas that all actions cite.

What the proofs changed in the models. `StopRecording`, while `getUserMedia` is
pending, does nothing in the code (there is no recorder yet), and the model now
says so; the property no longer exempts a recorder that is being asked for. The
buffer can expire in part, oldest first, where the model had all of it expire at
once. `Ascending` and `Without` are written with ranks, because the prover has
no definition of `SelectSeq` and of sorting.

### MCClientProofs
About `MCClient!Spec`, the specification of the run `client`: `PartsRunAlone`, in
every behaviour each part follows its own specification; hence
`ClientTypeOKHolds`, and `ClientIsCorrect` for every other property of that run.

### Only model-checked
*Liveness* (`hub_shutdown`, and `AcceptedTasksFinish` in `pipeline_safety`): fairness
and `ENABLED` are outside what the prover handles. Every invariant, action property
and refinement of a passing run is proved.

## 6. Not modelled

- *Small backend parts.* The tracker of file transfers (its notices are in
  `Hub`), the presence cache and the circuit breaker (the calls behind them may
  fail at any time in the modules), the last seen updater, access tokens and
  their revocation at the server (`AppSession` takes the answers), the table of
  public keys (a function in `IdentityKeys`). They are tables and counters with few
  dependants; their hazards are listed without a property.
- *Compositions.* The client's parts are checked one by one. What crosses
  between them is modelled at both ends: a new token is an event of `AppSession`,
  `WebSocketClient` and `FingerprintCheck`, the link and the session an event of
  `Composer` and `FileTransfer`. `MessagePipeline` and `ChatSession` share the
  server's rules, not its state.
- *Cryptography and transport.* The Web Crypto API, WebSocket transport,
  `MediaRecorder`, IndexedDB and PostgreSQL are taken as the code uses them: they
  return a value or fail. That both sides derive equal keys from equal pairs is assumed.
- *Playback, viewers, menus, toasts, texts, validation, thumbnails.* They render
  state and change none that another part reads.
- *Frame contents, encodings, metrics, log lines, configuration, ping and read
  deadlines* other than by their effect: a connection may end at any time.
