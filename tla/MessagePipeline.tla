--------------------------- MODULE MessagePipeline ---------------------------
(***************************************************************************)
(* A frame's way through the chat service: the read pump hands it to the   *)
(* idempotency tracker and the processor's queue (incoming_message_        *)
(* handler.go, idempotency.go, middleware/idempotency.go), a worker takes  *)
(* it, routes it and sends it to the receiver (processor.go, router.go,    *)
(* Hub.SendToUserWithContext).                                             *)
(*                                                                         *)
(* Connections come and go as ConnectionRegistry allows.  An operation is  *)
(* a frame with its sender, receiver and payload: a retry is another copy  *)
(* of the same operation, with the same operation ID.  Time is abstracted: *)
(* a record may outlive its TTL at any moment, a send may time out.        *)
(***************************************************************************)
EXTENDS ConnectionRegistry, Sequences

CONSTANTS
    Workers,      \* goroutines of the MessageProcessor
    QueueSize,    \* capacity of its queue
    Ops, Kind,    \* operations and their message type
    From, To,     \* sender and receiver of an operation
    MaxCopies,    \* bound: copies of each operation that arrive
    MayClose      \* whether messageHandler.Shutdown is ever called

ASSUME PipelineAssumption ==
    /\ IsFiniteSet(Workers)
    /\ QueueSize \in Nat \ {0} /\ MaxCopies \in [Ops -> Nat]
    /\ Kind \in [Ops -> {"message", "ephemeral_key", "file_start",
                         "file_chunk", "file_complete", "ack"}]
    /\ From \in [Ops -> Users] /\ To \in [Ops -> Users]
    /\ Owner \in [Conns -> Users]

VARIABLES
    copies,      \* copies of an operation read so far
    pumpPC, pumpOp,
    records,     \* IdempotencyTracker.operations
    lapses,      \* how often the record of an operation outlived its TTL
    queue, queueOpen,
    accepted,    \* operations put in the queue, in that order
    forwarded,   \* operations sent to their receiver, in that order
    dropped,     \* accepted copies of an operation that were not forwarded
    workerPC, workerTask, workerTo

pumpVars == <<copies, pumpPC, pumpOp>>
trackerVars == <<records, lapses>>
queueVars == <<queue, queueOpen, accepted>>
outcomeVars == <<forwarded, dropped>>
workerVars == <<workerPC, workerTask, workerTo>>
pipelineVars == <<pumpVars, trackerVars, queueVars, outcomeVars, workerVars>>
vars == <<registryVars, pipelineVars>>

Tasks == [op : Ops, conn : Conns]
NoTask == [op |-> None, conn |-> None]

\* HandleMessage passes these through the tracker (all carry an id here).
Keyed(op) == Kind[op] \in {"ephemeral_key", "message", "file_chunk"}
\* Route forwards these without asking whether the receiver is online.
RequiresOnline(op) == Kind[op] # "ack"

CountOf(op, s) == Cardinality({i \in DOMAIN s : s[i] = op})

TypeOK ==
    /\ copies \in [Ops -> Nat]
    /\ \A op \in Ops : copies[op] <= MaxCopies[op]
    /\ pumpPC \in [Conns -> {"read", "execute", "submit", "store", "ended"}]
    /\ pumpOp \in [Conns -> Ops \cup {None}]
    /\ records \in [Ops -> {"none", "fresh", "expired"}]
    /\ lapses \in [Ops -> Nat]
    /\ queue \in Seq(Tasks) /\ Len(queue) <= QueueSize
    /\ queueOpen \in BOOLEAN
    /\ accepted \in Seq(Ops) /\ forwarded \in Seq(Ops)
    /\ dropped \in [Ops -> Nat]
    /\ workerPC \in [Workers -> {"idle", "route", "load", "send", "notice",
                                 "answer", "dead", "ended"}]
    /\ workerTask \in [Workers -> Tasks \cup {NoTask}]
    /\ workerTo \in [Workers -> Conns \cup {None}]

Init ==
    /\ RegistryInit
    /\ copies = [op \in Ops |-> 0]
    /\ pumpPC = [c \in Conns |-> "read"]
    /\ pumpOp = [c \in Conns |-> None]
    /\ records = [op \in Ops |-> "none"]
    /\ lapses = [op \in Ops |-> 0]
    /\ queue = <<>> /\ queueOpen = TRUE
    /\ accepted = <<>> /\ forwarded = <<>>
    /\ dropped = [op \in Ops |-> 0]
    /\ workerPC = [w \in Workers |-> "idle"]
    /\ workerTask = [w \in Workers |-> NoTask]
    /\ workerTo = [w \in Workers |-> None]

----------------------------------------------------------------------------
\* The read pump: HandleMessage, Execute, Submit

\* Execute looks the operation up, and deletes a record past its TTL.
ReadFrame(c, op) ==
    /\ pumpPC[c] = "read" /\ c \notin cancelled
    /\ From[op] = Owner[c] /\ copies[op] < MaxCopies[op]
    /\ copies' = [copies EXCEPT ![op] = @ + 1]
    /\ IF Keyed(op) /\ records[op] = "fresh"
       THEN UNCHANGED <<pumpPC, pumpOp, records>>
       ELSE /\ pumpPC' = [pumpPC EXCEPT ![c] = IF Keyed(op) THEN "execute"
                                                            ELSE "submit"]
            /\ pumpOp' = [pumpOp EXCEPT ![c] = op]
            /\ records' = [records EXCEPT ![op] = "none"]
    /\ UNCHANGED <<registryVars, lapses, queueVars, outcomeVars, workerVars>>

\* Mutant: one task more than the queue holds.
SubmitOffByOne(c) ==
    LET op == pumpOp[c] IN
    /\ pumpPC[c] \in {"execute", "submit"} /\ queueOpen
    /\ IF Len(queue) <= QueueSize
       THEN /\ queue' = Append(queue, [op |-> op, conn |-> c])
            /\ accepted' = Append(accepted, op)
       ELSE UNCHANGED <<queue, accepted>>
    /\ pumpPC' = [pumpPC EXCEPT ![c] = IF @ = "execute" THEN "store" ELSE "read"]
    /\ UNCHANGED <<registryVars, copies, pumpOp, trackerVars, queueOpen,
                   outcomeVars, workerVars>>

\* A full queue drops the task, and the handler still returns nil.
Submit(c) ==
    LET op == pumpOp[c] IN
    /\ pumpPC[c] \in {"execute", "submit"} /\ queueOpen
    /\ IF Len(queue) < QueueSize
       THEN /\ queue' = Append(queue, [op |-> op, conn |-> c])
            /\ accepted' = Append(accepted, op)
       ELSE UNCHANGED <<queue, accepted>>
    /\ pumpPC' = [pumpPC EXCEPT ![c] = IF @ = "execute" THEN "store" ELSE "read"]
    /\ UNCHANGED <<registryVars, copies, pumpOp, trackerVars, queueOpen,
                   outcomeVars, workerVars>>

\* Sending on the closed queue panics; readPump recovers, and ends.
SubmitPanics(c) ==
    /\ pumpPC[c] \in {"execute", "submit"} /\ ~queueOpen
    /\ pumpPC' = [pumpPC EXCEPT ![c] = "ended"]
    /\ UNCHANGED <<registryVars, copies, pumpOp, trackerVars, queueVars,
                   outcomeVars, workerVars>>

\* Mutant: Execute runs the operation and does not remember it.
StoreNothing(c) ==
    /\ pumpPC[c] = "store"
    /\ pumpPC' = [pumpPC EXCEPT ![c] = "read"]
    /\ UNCHANGED <<registryVars, copies, pumpOp, trackerVars, queueVars,
                   outcomeVars, workerVars>>

StoreRecord(c) ==
    /\ pumpPC[c] = "store"
    /\ records' = [records EXCEPT ![pumpOp[c]] = "fresh"]
    /\ pumpPC' = [pumpPC EXCEPT ![c] = "read"]
    /\ UNCHANGED <<registryVars, copies, pumpOp, lapses, queueVars,
                   outcomeVars, workerVars>>

\* The TTL passes; the cleanup removes the record later, if Execute does not.
RecordExpires(op) ==
    /\ records[op] = "fresh"
    /\ records' = [records EXCEPT ![op] = "expired"]
    /\ lapses' = [lapses EXCEPT ![op] = @ + 1]
    /\ UNCHANGED <<registryVars, pumpVars, queueVars, outcomeVars, workerVars>>

CleanupRecords ==
    /\ \E op \in Ops : records[op] = "expired"
    /\ records' = [op \in Ops |-> IF records[op] = "expired" THEN "none"
                                                             ELSE records[op]]
    /\ UNCHANGED <<registryVars, pumpVars, lapses, queueVars, outcomeVars,
                   workerVars>>

CloseQueue ==
    /\ MayClose /\ queueOpen
    /\ queueOpen' = FALSE
    /\ UNCHANGED <<registryVars, pumpVars, trackerVars, queue, accepted,
                   outcomeVars, workerVars>>

----------------------------------------------------------------------------
\* A worker: process, Route, forwardMessage, SendToUserWithContext

Goto(w, pc) == workerPC' = [workerPC EXCEPT ![w] = pc]

Finish(w) ==
    /\ Goto(w, "idle")
    /\ workerTask' = [workerTask EXCEPT ![w] = NoTask]
    /\ workerTo' = [workerTo EXCEPT ![w] = None]

Drop(w) == dropped' = [dropped EXCEPT ![workerTask[w].op] = @ + 1]

\* Mutant: the task is read and left in the queue.
WorkerPeek(w) ==
    /\ workerPC[w] = "idle" /\ queue # <<>>
    /\ workerTask' = [workerTask EXCEPT ![w] = Head(queue)]
    /\ Goto(w, "route")
    /\ UNCHANGED <<registryVars, pumpVars, trackerVars, queueVars,
                   outcomeVars, workerTo>>

WorkerTake(w) ==
    /\ workerPC[w] = "idle" /\ queue # <<>>
    /\ workerTask' = [workerTask EXCEPT ![w] = Head(queue)]
    /\ queue' = Tail(queue)
    /\ Goto(w, "route")
    /\ UNCHANGED <<registryVars, pumpVars, trackerVars, queueOpen, accepted,
                   outcomeVars, workerTo>>

\* Mutant: a worker leaves as soon as Shutdown has closed the queue.
WorkerEndsEarly(w) ==
    /\ workerPC[w] = "idle" /\ ~queueOpen
    /\ Goto(w, "ended")
    /\ UNCHANGED <<registryVars, pumpVars, trackerVars, queueVars,
                   outcomeVars, workerTask, workerTo>>

\* range over the closed and drained queue ends.
WorkerEnds(w) ==
    /\ workerPC[w] = "idle" /\ queue = <<>> /\ ~queueOpen
    /\ Goto(w, "ended")
    /\ UNCHANGED <<registryVars, pumpVars, trackerVars, queueVars,
                   outcomeVars, workerTask, workerTo>>

\* An invalid payload or receiver, which any frame may have, or a receiver who
\* is offline, is answered to the sender.
WorkerRoute(w) ==
    LET op == workerTask[w].op IN
    /\ workerPC[w] = "route"
    /\ \/ Drop(w) /\ Goto(w, "notice")
       \/ /\ RequiresOnline(op) => registered[To[op]] # None
          /\ Goto(w, "load")
          /\ UNCHANGED dropped
    /\ UNCHANGED <<registryVars, pumpVars, trackerVars, queueVars, forwarded,
                   workerTask, workerTo>>

\* CheckUserExists, for a frame that needs nobody online, fails or says no.
UserCheckFails(w) ==
    /\ workerPC[w] = "route" /\ ~RequiresOnline(workerTask[w].op)
    /\ Drop(w)
    /\ Finish(w)
    /\ UNCHANGED <<registryVars, pumpVars, trackerVars, queueVars, forwarded>>

\* The context is that of the connection the frame came from.
WorkerLoad(w) ==
    LET to == registered[To[workerTask[w].op]] IN
    /\ workerPC[w] = "load"
    /\ IF workerTask[w].conn \in cancelled \/ to = None
       THEN Drop(w) /\ Finish(w)
       ELSE /\ workerTo' = [workerTo EXCEPT ![w] = to]
            /\ Goto(w, "send")
            /\ UNCHANGED <<dropped, workerTask>>
    /\ UNCHANGED <<registryVars, pumpVars, trackerVars, queueVars, forwarded>>

WorkerSend(w) ==
    /\ workerPC[w] = "send" /\ workerTo[w] \notin shut
    /\ forwarded' = Append(forwarded, workerTask[w].op)
    /\ Finish(w)
    /\ UNCHANGED <<registryVars, pumpVars, trackerVars, queueVars, dropped>>

\* The receiver's channel stays full, or the context ends first.
WorkerSendTimesOut(w) ==
    /\ workerPC[w] = "send" /\ workerTo[w] \notin shut
    /\ Drop(w)
    /\ Finish(w)
    /\ UNCHANGED <<registryVars, pumpVars, trackerVars, queueVars, forwarded>>

\* peer_offline, or an error frame, to the sender's registered connection.
WorkerNotice(w) ==
    LET back == registered[From[workerTask[w].op]] IN
    /\ workerPC[w] = "notice"
    /\ IF back = None
       THEN Finish(w)
       ELSE /\ workerTo' = [workerTo EXCEPT ![w] = back]
            /\ Goto(w, "answer")
            /\ UNCHANGED workerTask
    /\ UNCHANGED <<registryVars, pumpVars, trackerVars, queueVars, outcomeVars>>

WorkerAnswer(w) ==
    /\ workerPC[w] = "answer" /\ workerTo[w] \notin shut
    /\ Finish(w)
    /\ UNCHANGED <<registryVars, pumpVars, trackerVars, queueVars, outcomeVars>>

\* A send on a channel closed since it was loaded; worker() does not resume.
WorkerPanics(w) ==
    /\ workerPC[w] \in {"send", "answer"} /\ workerTo[w] \in shut
    /\ IF workerPC[w] = "send" THEN Drop(w) ELSE UNCHANGED dropped
    /\ Goto(w, "dead")
    /\ workerTask' = [workerTask EXCEPT ![w] = NoTask]
    /\ workerTo' = [workerTo EXCEPT ![w] = None]
    /\ UNCHANGED <<registryVars, pumpVars, trackerVars, queueVars, forwarded>>

----------------------------------------------------------------------------
PumpStep(c) ==
    \/ \E op \in Ops : ReadFrame(c, op)
    \/ Submit(c)
    \/ SubmitPanics(c)
    \/ StoreRecord(c)

WorkerStep(w) ==
    \/ WorkerTake(w)
    \/ WorkerEnds(w)
    \/ WorkerRoute(w)
    \/ UserCheckFails(w)
    \/ WorkerLoad(w)
    \/ WorkerSend(w)
    \/ WorkerSendTimesOut(w)
    \/ WorkerNotice(w)
    \/ WorkerAnswer(w)
    \/ WorkerPanics(w)

Next ==
    \/ \E c \in Conns : PumpStep(c)
    \/ \E w \in Workers : WorkerStep(w)
    \/ \E op \in Ops : RecordExpires(op)
    \/ CleanupRecords
    \/ CloseQueue
    \/ RegistryNext /\ UNCHANGED pipelineVars

Spec == Init /\ [][Next]_vars

\* Some worker that can go on is scheduled, whatever pumps and connections do.
FairSpec == Spec /\ WF_vars(\E w \in Workers : WorkerStep(w))

----------------------------------------------------------------------------
(***************************************************************************)
(* Properties                                                              *)
(***************************************************************************)
InQueue(op) == Cardinality({i \in DOMAIN queue : queue[i].op = op})
InHand(op) == Cardinality({w \in Workers :
    workerPC[w] \in {"route", "load", "send"} /\ workerTask[w].op = op})

\* Every copy the queue accepted is waiting, in one worker's hands, forwarded
\* or counted as dropped, and only one of these, through panics and shutdown.
EveryTaskIsAccountedFor == \A op \in Ops :
    CountOf(op, accepted)
        = InQueue(op) + InHand(op) + CountOf(op, forwarded) + dropped[op]

\* README.md:230, "prevention of message duplication": a copy of a keyed
\* operation is accepted again only after its record has outlived the TTL.
DuplicatesNeedExpiry == \A op \in Ops :
    Keyed(op) => CountOf(op, accepted) <= 1 + lapses[op]

\* What the queue has accepted is processed, after Shutdown too, as long as
\* some worker has survived.
AcceptedTasksFinish ==
    queue # <<>> ~> queue = <<>> \/ \A w \in Workers : workerPC[w] = "dead"

\* README.md:182-192: the hub forwards file_start, the chunks, file_complete,
\* in the order the sender sends them.
FileFramesStayInOrder == \A i, j \in DOMAIN forwarded :
    i < j => \E k, l \in DOMAIN accepted :
                k < l /\ accepted[k] = forwarded[i] /\ accepted[l] = forwarded[j]
=============================================================================
