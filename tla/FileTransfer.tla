----------------------------- MODULE FileTransfer -----------------------------
(***************************************************************************)
(* A file on its way from one window to the other: sendFile of              *)
(* useChatSession, the file frames of useMessageHandlers, the buffers and    *)
(* the assembly of useFileTransfer.  The server routes frames in any order   *)
(* and drops some.  A key is the number of the session it belongs to; every   *)
(* chunk is encrypted by itself, so nothing but its place binds it to the    *)
(* file.                                                                    *)
(***************************************************************************)
EXTENDS Naturals, Sequences, FiniteSets, SequencesExt

CONSTANTS Files,         \* bound: the files sent
          Chunks,        \* chunks of each
          Burst,         \* chunks sent without a pause
          MaxSessions,   \* bound: session keys
          MaxLost        \* bound: frames the server drops

ASSUME FileAssumption ==
    /\ Chunks \in Nat \ {0} /\ Burst \in Nat \ {0}
    /\ MaxSessions \in Nat \ {0} /\ MaxLost \in Nat

VARIABLES session,       \* the sessions so far
          senderKey, receiverKey,   \* sessionKeyRef of both, 0 for none
          sending,       \* sendFile calls that are not done
          untouched,     \* files not sent yet
          frames,        \* file frames on their way
          lost,
          fileBuffers,   \* the receiver's buffers
          timers,        \* handleIncomingFile calls that are due in 100 ms
          decrypting,    \* files being decrypted
          shownFiles,    \* the receiver's messages since the list was cleared
          everShown,     \* the files the receiver has shown at some time
          fileAcks,      \* acks on their way back
          ownFiles       \* the sender's messages and their delivery status

senderVars == <<senderKey, sending, untouched, ownFiles>>
receiverVars == <<receiverKey, fileBuffers, timers, decrypting, shownFiles, everShown>>
fileVars == <<session, senderVars, frames, lost, receiverVars, fileAcks>>

NoSession == 0
Hole == 0
Frame(type, f, i, k) == [type |-> type, file |-> f, index |-> i, key |-> k]
Keys == 0 .. MaxSessions

FileInit ==
    /\ session = 1 /\ senderKey = 1 /\ receiverKey = 1
    /\ sending = {} /\ untouched = Files
    /\ frames = {} /\ lost = 0
    /\ fileBuffers = <<>> /\ timers = {} /\ decrypting = {}
    /\ shownFiles = <<>> /\ everShown = {} /\ fileAcks = {}
    /\ ownFiles = <<>>

-----------------------------------------------------------------------------
(* The sender.                                                             *)

\* The file is encrypted with the key of this moment; `next' is the chunk that
\* is due, 0 while the encryption runs.
StartSendFile == \E f \in untouched :
    /\ senderKey # NoSession
    /\ sending' = sending \cup {[file |-> f, key |-> senderKey, next |-> 0]}
    /\ untouched' = untouched \ {f}
    /\ UNCHANGED <<session, senderKey, ownFiles, frames, lost, receiverVars, fileAcks>>

EncryptionFails == \E s \in sending :
    /\ s.next = 0
    /\ sending' = sending \ {s}
    /\ UNCHANGED <<session, senderKey, untouched, ownFiles, frames, lost,
                   receiverVars, fileAcks>>

\* A burst of chunks, with file_start before the first and file_complete and
\* the sender's own message after the last.
SendBurst == \E s \in sending :
    LET from == IF s.next = 0 THEN 1 ELSE s.next
        to == IF from + Burst - 1 > Chunks THEN Chunks ELSE from + Burst - 1
        done == to = Chunks
    IN  /\ frames' = frames
              \cup {Frame("file_start", s.file, 0, s.key) : x \in {1} \cap {from}}
              \cup {Frame("file_chunk", s.file, i, s.key) : i \in from .. to}
              \cup {Frame("file_complete", s.file, 0, s.key) : x \in {Chunks} \cap {to}}
        /\ sending' = (sending \ {s}) \cup
              (IF done THEN {} ELSE {[s EXCEPT !.next = to + 1]})
        /\ ownFiles' = IF done THEN [f \in DOMAIN ownFiles \cup {s.file} |->
                                       IF f = s.file THEN "sending" ELSE ownFiles[f]]
                       ELSE ownFiles
        /\ UNCHANGED <<session, senderKey, untouched, lost, receiverVars, fileAcks>>

\* handleMessageAck.
FileAcked == \E f \in fileAcks :
    /\ fileAcks' = fileAcks \ {f}
    /\ ownFiles' = IF f \in DOMAIN ownFiles THEN [ownFiles EXCEPT ![f] = "delivered"]
                   ELSE ownFiles
    /\ UNCHANGED <<session, senderKey, sending, untouched, frames, lost, receiverVars>>

-----------------------------------------------------------------------------
(* The receiver.                                                           *)

ReceiveFileStart == \E m \in frames :
    /\ m.type = "file_start"
    /\ frames' = frames \ {m}
    /\ fileBuffers' = [f \in DOMAIN fileBuffers \cup {m.file} |->
          IF f = m.file
          THEN [chunks |-> [i \in 1 .. Chunks |-> Hole], keys |-> {},
                processing |-> FALSE]
          ELSE fileBuffers[f]]
    /\ UNCHANGED <<session, senderVars, lost, receiverKey, timers, decrypting,
                   shownFiles, everShown, fileAcks>>

\* The chunk goes to the first place that is free.
StoredInOrderOfArrival(buffer, m) ==
    LET free == {i \in 1 .. Chunks : buffer.chunks[i] = Hole}
        i == CHOOSE j \in free : \A l \in free : j <= l
    IN  [buffer EXCEPT !.chunks[i] = m.index, !.keys = @ \cup {m.key}]

\* The chunk goes to the place its number says.
Stored(buffer, m) == [buffer EXCEPT !.chunks[m.index] = m.index,
                                    !.keys = @ \cup {m.key}]

\* A chunk without a buffer, or that comes while the file is put together, is
\* dropped.
ReceiveFileChunk == \E m \in frames :
    /\ m.type = "file_chunk"
    /\ frames' = frames \ {m}
    /\ fileBuffers' =
          IF m.file \in DOMAIN fileBuffers /\ ~fileBuffers[m.file].processing
          THEN [fileBuffers EXCEPT ![m.file] = Stored(@, m)] ELSE fileBuffers
    /\ UNCHANGED <<session, senderVars, lost, receiverKey, timers, decrypting,
                   shownFiles, everShown, fileAcks>>

ReceiveFileComplete == \E m \in frames :
    /\ m.type = "file_complete"
    /\ frames' = frames \ {m}
    /\ timers' = timers \cup {m.file}
    /\ UNCHANGED <<session, senderVars, lost, receiverKey, fileBuffers,
                   decrypting, shownFiles, everShown, fileAcks>>

\* chunks.length of the buffer: the place of the last chunk there is.
LastPlace(buffer) ==
    LET there == {i \in 1 .. Chunks : buffer.chunks[i] # Hole}
    IN  IF there = {} THEN 0 ELSE CHOOSE i \in there : \A j \in there : j <= i

\* Is the file put together?  Only its length and its holes are looked at.
Complete(buffer) == LastPlace(buffer) = Chunks /\ Hole \notin Range(buffer.chunks)
LongEnough(buffer) == LastPlace(buffer) = Chunks

\* handleIncomingFile up to the decryption.  A file whose last chunk is missing
\* stays as it is; one with a hole takes no chunks any more.
PutTogether == \E f \in timers :
    /\ timers' = timers \ {f}
    /\ IF /\ receiverKey # NoSession /\ f \in DOMAIN fileBuffers
          /\ ~fileBuffers[f].processing /\ LongEnough(fileBuffers[f])
       THEN /\ fileBuffers' = [fileBuffers EXCEPT ![f].processing = TRUE]
            /\ decrypting' = IF Complete(fileBuffers[f])
                  THEN decrypting \cup {[file |-> f, key |-> receiverKey,
                          chunks |-> fileBuffers[f].chunks,
                          keys |-> fileBuffers[f].keys]}
                  ELSE decrypting
       ELSE UNCHANGED <<fileBuffers, decrypting>>
    /\ UNCHANGED <<session, senderVars, frames, lost, receiverKey, shownFiles,
                   everShown, fileAcks>>

\* decryptFile is done: the message is appended and acknowledged, to whatever
\* list is there now.  With another key nothing is shown.
FileDecrypted == \E d \in decrypting :
    /\ decrypting' = decrypting \ {d}
    /\ fileBuffers' = [f \in DOMAIN fileBuffers \ {d.file} |-> fileBuffers[f]]
    /\ IF d.keys = {d.key}
       THEN /\ shownFiles' = Append(shownFiles, [file |-> d.file, chunks |-> d.chunks])
            /\ everShown' = everShown \cup {d.file}
            /\ fileAcks' = fileAcks \cup {d.file}
       ELSE UNCHANGED <<shownFiles, everShown, fileAcks>>
    /\ UNCHANGED <<session, senderVars, frames, lost, receiverKey, timers>>

-----------------------------------------------------------------------------
FrameLost == \E m \in frames :
    /\ lost < MaxLost /\ lost' = lost + 1
    /\ frames' = frames \ {m}
    /\ UNCHANGED <<session, senderVars, receiverVars, fileAcks>>

\* peer_disconnected: the list, the key and the buffers of the receiver go.
ReceiverCleared ==
    /\ receiverKey # NoSession
    /\ receiverKey' = NoSession /\ fileBuffers' = <<>> /\ shownFiles' = <<>>
    /\ UNCHANGED <<session, senderVars, frames, lost, timers, decrypting,
                   everShown, fileAcks>>

\* The key exchange gives both a new key, one side after the other.
NewSession ==
    /\ \/ /\ receiverKey = NoSession /\ session < MaxSessions
          /\ session' = session + 1 /\ receiverKey' = session + 1
          /\ UNCHANGED senderKey
       \/ /\ senderKey # session /\ senderKey' = session
          /\ UNCHANGED <<session, receiverKey>>
    /\ UNCHANGED <<sending, untouched, ownFiles, frames, lost, fileBuffers, timers,
                   decrypting, shownFiles, everShown, fileAcks>>

FileNext ==
    \/ StartSendFile \/ EncryptionFails \/ SendBurst \/ FileAcked
    \/ ReceiveFileStart \/ ReceiveFileChunk \/ ReceiveFileComplete
    \/ PutTogether \/ FileDecrypted
    \/ FrameLost \/ ReceiverCleared \/ NewSession

FileSpec == FileInit /\ [][FileNext]_fileVars

-----------------------------------------------------------------------------
\* The type invariant: the buffers, timers and files of useFileTransfer.ts.
FileTypeOK ==
    /\ {session, senderKey, receiverKey} \subseteq Keys
    /\ lost \in 0 .. MaxLost
    /\ untouched \subseteq Files /\ timers \subseteq Files
    /\ \A f \in DOMAIN fileBuffers :
          Range(fileBuffers[f].chunks) \subseteq 0 .. Chunks
    /\ \A f \in DOMAIN ownFiles : ownFiles[f] \in {"sending", "delivered"}

\* A file that is shown has all its chunks in their order and is shown once,
\* however its frames were reordered and lost and the sessions changed; the
\* sender sees as delivered only what was shown.
FilesArriveWhole ==
    /\ \A i \in DOMAIN shownFiles :
          /\ shownFiles[i].chunks = [c \in 1 .. Chunks |-> c]
          /\ \A j \in DOMAIN shownFiles :
                shownFiles[i].file = shownFiles[j].file => i = j
    /\ \A f \in DOMAIN ownFiles : ownFiles[f] = "delivered" => f \in everShown
=============================================================================
