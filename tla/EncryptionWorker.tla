--------------------------- MODULE EncryptionWorker ---------------------------
(***************************************************************************)
(* Files are encrypted and decrypted by a web worker that the page creates   *)
(* once (file-encryption.ts, file-encryption-worker.ts and the worker's own   *)
(* file-encryption.worker.ts).  A request waits in a map of the page until    *)
(* the worker answers it; small files, and requests that are rejected, are    *)
(* done by the page itself.                                                 *)
(***************************************************************************)
EXTENDS Naturals, Sequences, FiniteSets, SequencesExt

CONSTANTS MaxRequests,   \* bound: calls of encryptFile and decryptFile
          ChunksPerFile, \* bound: chunks of a file
          MaxCrashes     \* bound: errors of the worker

ASSUME WorkerAssumption ==
    /\ MaxRequests \in Nat /\ ChunksPerFile \in Nat \ {0} /\ MaxCrashes \in Nat

VARIABLES requests,      \* the calls: what for, who does it, what came of it
          worker,        \* none, running, or deaf: its script did not load
          crashes,
          pendingRequests,   \* the entries of the two maps
          toWorker,      \* messages to the worker, in order
          handling,      \* calls the worker is at: request -> chunks done
          fromWorker     \* its messages to the page, in order

workerVars == <<requests, worker, crashes, pendingRequests, toWorker, handling,
                fromWorker>>

Operations == {"encrypt", "decrypt"}
Outcomes == {"none", "ok", "failed"}
Request == [op : Operations, by : {"worker", "page"}, outcome : Outcomes,
            chunks : 0 .. ChunksPerFile]
Reply == [type : {"progress", "encrypt-result", "decrypt-result", "error"},
          requestId : 1 .. MaxRequests, chunks : 0 .. ChunksPerFile]
RequestIds == 1 .. MaxRequests

WorkerInit ==
    /\ requests = <<>> /\ worker = "none" /\ crashes = 0
    /\ pendingRequests = {} /\ toWorker = <<>>
    /\ handling = <<>> /\ fromWorker = <<>>

-----------------------------------------------------------------------------
(* The page.                                                               *)

\* A large file goes to the worker if the key can be exported, else the page
\* does it.
CallFile == \E op \in Operations, by \in {"worker", "page"} :
    /\ Len(requests) < MaxRequests
    /\ LET id == Len(requests) + 1
       IN  /\ requests' = Append(requests,
                 [op |-> op, by |-> by, outcome |-> "none", chunks |-> 0])
           /\ IF by = "page"
              THEN UNCHANGED <<worker, pendingRequests, toWorker>>
              ELSE /\ pendingRequests' = pendingRequests \cup {id}
                   /\ worker' = IF worker = "none" THEN "running" ELSE worker
                   /\ toWorker' = Append(toWorker, id)
    /\ UNCHANGED <<crashes, handling, fromWorker>>

\* The page does the next chunk, or fails; the result is there at the end.
PageWorks == \E id \in DOMAIN requests : LET r == requests[id] IN
    /\ r.by = "page" /\ r.outcome = "none"
    /\ \/ requests' = [requests EXCEPT ![id].outcome = "failed"]
       \/ requests' = [requests EXCEPT ![id].chunks = @ + 1,
             ![id].outcome = IF r.chunks + 1 = ChunksPerFile THEN "ok" ELSE "none"]
    /\ UNCHANGED <<worker, crashes, pendingRequests, toWorker, handling, fromWorker>>

\* What becomes of a call whose promise is rejected: the page starts over.
FallsBack(r) == [r EXCEPT !.by = "page", !.chunks = 0]

\* The message that ends a call of this operation.
ResultOf(op) == IF op = "encrypt" THEN "encrypt-result" ELSE "decrypt-result"

\* onmessage.  Only an entry of the map of that operation is resolved.
Awaited(id, reply) == id \in pendingRequests /\
    (reply.type = "error" \/ reply.type = ResultOf(requests[id].op))

PageReceives ==
    /\ fromWorker # <<>>
    /\ fromWorker' = Tail(fromWorker)
    /\ LET reply == Head(fromWorker)
           id == reply.requestId
       IN  IF Awaited(id, reply)
           THEN /\ pendingRequests' = pendingRequests \ {id}
                /\ requests' = [requests EXCEPT ![id] =
                      IF reply.type = "error" THEN FallsBack(@)
                      ELSE [@ EXCEPT !.outcome = "ok", !.chunks = reply.chunks]]
           ELSE UNCHANGED <<pendingRequests, requests>>
    /\ UNCHANGED <<worker, crashes, toWorker, handling>>

\* onerror: an exception nobody caught, or a script that does not load.  Every
\* call that waits is rejected; the worker object stays.
WorkerError ==
    /\ worker = "running" /\ crashes < MaxCrashes
    /\ crashes' = crashes + 1
    /\ worker' \in {"running"} \cup (IF handling = <<>> /\ fromWorker = <<>>
                                     THEN {"deaf"} ELSE {})
    /\ requests' = [id \in DOMAIN requests |->
          IF id \in pendingRequests THEN FallsBack(requests[id]) ELSE requests[id]]
    /\ pendingRequests' = {}
    /\ UNCHANGED <<toWorker, handling, fromWorker>>

-----------------------------------------------------------------------------
(* The worker.                                                             *)

\* onmessage: each call is awaited by itself, so several are under way.
WorkerReceives ==
    /\ worker = "running" /\ toWorker # <<>>
    /\ toWorker' = Tail(toWorker)
    /\ handling' = [id \in DOMAIN handling \cup {Head(toWorker)} |->
          IF id = Head(toWorker) THEN 0 ELSE handling[id]]
    /\ UNCHANGED <<requests, worker, crashes, pendingRequests, fromWorker>>

Posts(type, id, chunks) ==
    fromWorker' = Append(fromWorker, [type |-> type, requestId |-> id, chunks |-> chunks])

Drops(id) == handling' = [i \in DOMAIN handling \ {id} |-> handling[i]]

WorkerChunk == \E id \in DOMAIN handling :
    /\ handling[id] < ChunksPerFile
    /\ handling' = [handling EXCEPT ![id] = @ + 1]
    /\ Posts("progress", id, handling[id] + 1)
    /\ UNCHANGED <<requests, worker, crashes, pendingRequests, toWorker>>

WorkerDone == \E id \in DOMAIN handling :
    /\ handling[id] = ChunksPerFile
    /\ Posts(ResultOf(requests[id].op), id, handling[id])
    /\ Drops(id)
    /\ UNCHANGED <<requests, worker, crashes, pendingRequests, toWorker>>

\* The exception ends the call and is kept to itself.
WorkerFailsSilently == \E id \in DOMAIN handling :
    /\ Drops(id)
    /\ UNCHANGED <<requests, worker, crashes, pendingRequests, toWorker, fromWorker>>

WorkerFails == \E id \in DOMAIN handling :
    /\ Posts("error", id, 0)
    /\ Drops(id)
    /\ UNCHANGED <<requests, worker, crashes, pendingRequests, toWorker>>

WorkerNext ==
    \/ CallFile \/ PageWorks \/ PageReceives \/ WorkerError
    \/ WorkerReceives \/ WorkerChunk \/ WorkerDone \/ WorkerFails

WorkerSpec == WorkerInit /\ [][WorkerNext]_workerVars

-----------------------------------------------------------------------------
\* The type invariant: the maps of the page and the queues to and from the worker.
WorkerTypeOK ==
    /\ requests \in Seq(Request) /\ Len(requests) <= MaxRequests
    /\ worker \in {"none", "running", "deaf"} /\ crashes \in 0 .. MaxCrashes
    /\ pendingRequests \subseteq DOMAIN requests
    /\ toWorker \in Seq(RequestIds) /\ DOMAIN handling \subseteq DOMAIN requests
    /\ fromWorker \in Seq(Reply)

\* A call that waits for the worker is waited for by the worker's queue, its
\* handlers or its answers, unless the worker never loaded: no order of chunks,
\* errors and answers of several calls leaves one without an answer, and a
\* result has every chunk.
NoCallIsForgotten ==
    \A id \in DOMAIN requests : LET r == requests[id] IN
        /\ r.by = "worker" /\ r.outcome = "none" =>
              \/ worker = "deaf"
              \/ /\ id \in pendingRequests
                 /\ \/ id \in ToSet(toWorker) \cup DOMAIN handling
                    \/ \E i \in DOMAIN fromWorker :
                          fromWorker[i].requestId = id /\ fromWorker[i].type # "progress"
        /\ r.outcome = "ok" => r.chunks = ChunksPerFile
=============================================================================
