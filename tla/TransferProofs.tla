---------------------------- MODULE TransferProofs ----------------------------
(***************************************************************************)
(* Proofs about files: the frames of a file and the buffer they are put       *)
(* together in (FileTransfer), and the calls to the worker that encrypts      *)
(* them (EncryptionWorker).                                                 *)
(***************************************************************************)
EXTENDS FileTransfer, EncryptionWorker, TLAPS

-----------------------------------------------------------------------------
(* Files.                                                                  *)

FileFrame == [type : {"file_start", "file_chunk", "file_complete"}, file : Files,
              index : 0 .. Chunks, key : Keys]
SendingFile == [file : Files, key : Keys, next : 0 .. Chunks]
Whole == [c \in 1 .. Chunks |-> c]
FileMessage == [file : Files, chunks : {Whole}]

FilesOf(S) == {x.file : x \in S}
OnePerFile(S) == \A x, y \in S : x.file = y.file => x = y
Completes == {m \in frames : m.type = "file_complete"}

\* A file is in one place at a time: not sent yet, being sent, its file_complete
\* on its way, due, being decrypted, or shown.
Stages == {"untouched", "sending", "complete", "due", "decrypting", "shown"}
FilesAt == [untouched |-> untouched, sending |-> FilesOf(sending),
            complete |-> FilesOf(Completes), due |-> timers,
            decrypting |-> FilesOf(decrypting), shown |-> everShown]
Disjoint(at) == \A k, l \in Stages : k # l => at[k] \cap at[l] = {}

\* A buffer holds a chunk at its own place or nothing.
BufferOK(b) ==
    /\ b \in [chunks : [1 .. Chunks -> 0 .. Chunks], keys : SUBSET Keys,
              processing : BOOLEAN]
    /\ \A i \in 1 .. Chunks : b.chunks[i] \in {Hole, i}

FileData ==
    /\ {session, senderKey, receiverKey} \subseteq Keys
    /\ lost \in 0 .. MaxLost /\ untouched \subseteq Files /\ timers \subseteq Files
    /\ sending \subseteq SendingFile /\ frames \subseteq FileFrame
    /\ \A m \in frames : m.type = "file_chunk" => m.index # 0
    /\ DOMAIN fileBuffers \subseteq Files
    /\ \A f \in DOMAIN fileBuffers : BufferOK(fileBuffers[f])
    /\ \A d \in decrypting : d.file \in Files /\ d.chunks = Whole
    /\ shownFiles \in Seq(FileMessage)
    /\ \A f \in DOMAIN ownFiles : ownFiles[f] \in {"sending", "delivered"}

FilePlaces ==
    /\ OnePerFile(sending) /\ OnePerFile(Completes) /\ OnePerFile(decrypting)
    /\ Disjoint(FilesAt)

FilesShown ==
    /\ \A i \in 1 .. Len(shownFiles) : shownFiles[i].file \in everShown
    /\ \A i, j \in 1 .. Len(shownFiles) :
          shownFiles[i].file = shownFiles[j].file => i = j
    /\ fileAcks \subseteq everShown
    /\ \A f \in DOMAIN ownFiles : ownFiles[f] = "delivered" => f \in everShown

FileInv == FileData /\ FilePlaces /\ FilesShown

LEMMA StagesShrink ==
    ASSUME NEW p, NEW q, Disjoint(p), \A k \in Stages : q[k] \subseteq p[k]
    PROVE  Disjoint(q)
BY DEF Disjoint

LEMMA FileMoves ==
    ASSUME NEW p, NEW q, Disjoint(p), NEW f, NEW i \in Stages, NEW j \in Stages,
           f \in p[i], f \notin q[i], q[j] \subseteq p[j] \cup {f},
           \A k \in Stages : k # j => q[k] \subseteq p[k]
    PROVE  Disjoint(q)
<1> SUFFICES ASSUME NEW k \in Stages, NEW l \in Stages, k # l, NEW x \in q[k], x \in q[l]
             PROVE  FALSE
  BY DEF Disjoint
<1>1. CASE x = f
  <2>1. \A m \in Stages : m # i => f \notin p[m]
    BY DEF Disjoint
  <2>2. \A m \in Stages : f \in q[m] => m = j
    BY <2>1
  <2>3. QED
    BY <1>1, <2>2
<1>2. CASE x # f
  <2>1. \A m \in Stages : x \in q[m] => x \in p[m]
    BY <1>2
  <2>2. QED
    BY <2>1 DEF Disjoint
<1>3. QED
  BY <1>1, <1>2

-----------------------------------------------------------------------------
\* Where the files are after a step.

LEMMA StartKeepsFileInv ==
    ASSUME FileInv, StartSendFile
    PROVE  FileInv'
<1>1. PICK f \in untouched :
          /\ senderKey # NoSession
          /\ sending' = sending \cup {[file |-> f, key |-> senderKey, next |-> 0]}
          /\ untouched' = untouched \ {f}
  BY DEF StartSendFile
<1>2. UNCHANGED <<session, senderKey, ownFiles, frames, lost, receiverVars, fileAcks>>
  BY DEF StartSendFile
<1> DEFINE s == [file |-> f, key |-> senderKey, next |-> 0]
<1>3. s \in SendingFile /\ f \in Files /\ s.file = f
  BY <1>1, FileAssumption DEF FileInv, FileData, SendingFile
<1>4. FileData'
  BY <1>1, <1>2, <1>3 DEF FileInv, FileData, receiverVars, BufferOK
<1>5. Completes' = Completes
  BY <1>2 DEF Completes
<1>6. FilesOf(sending') = FilesOf(sending) \cup {f}
  BY <1>1, <1>3 DEF FilesOf
<1>7. FilesAt' = [untouched |-> untouched \ {f}, sending |-> FilesOf(sending) \cup {f},
                  complete |-> FilesOf(Completes), due |-> timers,
                  decrypting |-> FilesOf(decrypting), shown |-> everShown]
  BY <1>1, <1>2, <1>5, <1>6 DEF FilesAt, receiverVars
<1>8. Disjoint(FilesAt')
  BY <1>7, FileMoves DEF FileInv, FilePlaces, FilesAt, Stages
<1>9. OnePerFile(sending')
  <2>1. f \notin FilesOf(sending)
    BY DEF FileInv, FilePlaces, FilesAt, Stages, Disjoint
  <2>2. QED
    BY <1>1, <1>3, <2>1 DEF OnePerFile, FilesOf, FileInv, FilePlaces
<1>10. FilePlaces'
  BY <1>2, <1>5, <1>8, <1>9 DEF FilePlaces, FileInv, receiverVars
<1>11. FilesShown'
  BY <1>2 DEF FilesShown, FileInv, receiverVars
<1>12. QED
  BY <1>4, <1>10, <1>11 DEF FileInv

LEMMA FailedKeepsFileInv ==
    ASSUME FileInv, EncryptionFails
    PROVE  FileInv'
<1>1. sending' \subseteq sending
      /\ UNCHANGED <<session, senderKey, untouched, ownFiles, frames, lost, receiverVars,
                     fileAcks>>
  BY DEF EncryptionFails
<1>2. FileData'
  BY <1>1 DEF FileInv, FileData, receiverVars, BufferOK
<1>3. Completes' = Completes
  BY <1>1 DEF Completes
<1>4. \A k \in Stages : FilesAt'[k] \subseteq FilesAt[k]
  BY <1>1, <1>3 DEF FilesAt, FilesOf, Stages, receiverVars
<1>5. Disjoint(FilesAt')
  BY <1>4, StagesShrink DEF FileInv, FilePlaces
<1>6. FilePlaces'
  BY <1>1, <1>3, <1>5 DEF FilePlaces, FileInv, OnePerFile, receiverVars
<1>7. FilesShown'
  BY <1>1 DEF FilesShown, FileInv, receiverVars
<1>8. QED
  BY <1>2, <1>6, <1>7 DEF FileInv

\* The file_complete is sent once, with the last burst, by the call that ends with it.
LEMMA BurstKeepsFileInv ==
    ASSUME FileInv, SendBurst
    PROVE  FileInv'
<1>1. PICK s \in sending : SendBurst!(s)
  BY DEF SendBurst
<1> DEFINE from == IF s.next = 0 THEN 1 ELSE s.next
           to == IF from + Burst - 1 > Chunks THEN Chunks ELSE from + Burst - 1
           done == to = Chunks
           rest == [s EXCEPT !.next = to + 1]
           complete == Frame("file_complete", s.file, 0, s.key)
           fresh == {Frame("file_start", s.file, 0, s.key) : x \in {1} \cap {from}}
              \cup {Frame("file_chunk", s.file, i, s.key) : i \in from .. to}
              \cup {Frame("file_complete", s.file, 0, s.key) : x \in {Chunks} \cap {to}}
<1>2. /\ s \in SendingFile /\ from \in 1 .. Chunks /\ to \in from .. Chunks
      /\ s.file \in Files /\ s.key \in Keys
  BY FileAssumption DEF FileInv, FileData, SendingFile
<1>3. /\ frames' = frames \cup fresh
      /\ sending' = (sending \ {s}) \cup (IF done THEN {} ELSE {rest})
      /\ ownFiles' = IF done THEN [f \in DOMAIN ownFiles \cup {s.file} |->
                                     IF f = s.file THEN "sending" ELSE ownFiles[f]]
                     ELSE ownFiles
      /\ UNCHANGED <<session, senderKey, untouched, lost, receiverVars, fileAcks>>
  BY <1>1
<1>4. fresh \subseteq FileFrame /\ \A m \in fresh : m.type = "file_chunk" => m.index # 0
  <2>1. fresh \subseteq FileFrame
    BY <1>2, FileAssumption DEF Frame, FileFrame
  <2>2. \A m \in fresh : m.type = "file_chunk" => m.index \in from .. to
    BY DEF Frame
  <2>3. QED
    BY <1>2, <2>1, <2>2, FileAssumption
<1>5. ~done => rest \in SendingFile /\ rest.file = s.file
  BY <1>2, FileAssumption DEF SendingFile
<1>6. /\ \A m \in fresh : m.type = "file_complete" => done /\ m = complete
      /\ done => complete \in fresh
      /\ complete.type = "file_complete" /\ complete.file = s.file
  <2>1. \A i : /\ Frame("file_start", s.file, i, s.key).type = "file_start"
               /\ Frame("file_chunk", s.file, i, s.key).type = "file_chunk"
               /\ Frame("file_complete", s.file, i, s.key).type = "file_complete"
               /\ Frame("file_complete", s.file, i, s.key).file = s.file
    BY DEF Frame
  <2>2. \A m \in fresh : m.type = "file_complete" => done /\ m = complete
    BY <2>1
  <2>3. done => complete \in fresh
    OBVIOUS
  <2>4. QED
    BY <2>1, <2>2, <2>3
<1> HIDE DEF rest, fresh, from, to, complete
<1>7. Completes' = Completes \cup (IF done THEN {complete} ELSE {})
  <2>1. \A m : m \in Completes' <=>
              (m \in frames \/ m \in fresh) /\ m.type = "file_complete"
    BY <1>3 DEF Completes
  <2>2. \A m : m \in Completes <=> m \in frames /\ m.type = "file_complete"
    BY DEF Completes
  <2> HIDE DEF done
  <2>3. \A m : m \in Completes' <=> m \in Completes \/ (done /\ m = complete)
    BY <1>6, <2>1, <2>2
  <2>4. QED
    BY <2>3
<1> HIDE DEF done
<1>8. \A f \in DOMAIN ownFiles' :
         /\ ownFiles'[f] \in {"sending", "delivered"}
         /\ ownFiles'[f] = "delivered" => f \in DOMAIN ownFiles /\ ownFiles[f] = "delivered"
  BY <1>3 DEF FileInv, FileData
<1>9. FileData'
  BY <1>3, <1>4, <1>5, <1>8 DEF FileInv, FileData, receiverVars, BufferOK
<1>10. FilesShown'
  BY <1>3, <1>8 DEF FilesShown, FileInv, receiverVars
<1>11. CASE ~done
  <2>1. FilesOf(sending') \subseteq FilesOf(sending) /\ Completes' = Completes
    BY <1>3, <1>5, <1>7, <1>11 DEF FilesOf
  <2>2. \A k \in Stages : FilesAt'[k] \subseteq FilesAt[k]
    BY <1>3, <2>1 DEF FilesAt, Stages, receiverVars
  <2>3. Disjoint(FilesAt')
    BY <2>2, StagesShrink DEF FileInv, FilePlaces
  <2>4. OnePerFile(sending')
    BY <1>3, <1>5, <1>11 DEF FileInv, FilePlaces, OnePerFile
  <2>5. FilePlaces'
    BY <1>3, <2>1, <2>3, <2>4 DEF FilePlaces, FileInv, receiverVars
  <2>6. QED
    BY <1>9, <1>10, <2>5 DEF FileInv
<1>12. CASE done
  <2>1. /\ sending' = sending \ {s} /\ Completes' = Completes \cup {complete}
        /\ FilesOf(Completes') = FilesOf(Completes) \cup {s.file}
    <3>1. Completes' = Completes \cup {complete}
      BY <1>7, <1>12
    <3>2. FilesOf(Completes \cup {complete}) = FilesOf(Completes) \cup {s.file}
      BY <1>6 DEF FilesOf
    <3>3. QED
      BY <1>3, <1>12, <3>1, <3>2
  <2>2. FilesOf(sending') \subseteq FilesOf(sending) /\ s.file \in FilesOf(sending)
        /\ s.file \notin FilesOf(sending')
    BY <2>1 DEF FilesOf, FileInv, FilePlaces, OnePerFile
  <2>3. Disjoint(FilesAt')
    <3>1. \A k \in Stages : k # "complete" => FilesAt'[k] \subseteq FilesAt[k]
      BY <1>3, <2>2 DEF FilesAt, Stages, receiverVars
    <3>2. /\ s.file \in FilesAt["sending"] /\ s.file \notin FilesAt'["sending"]
          /\ FilesAt'["complete"] \subseteq FilesAt["complete"] \cup {s.file}
      BY <2>1, <2>2 DEF FilesAt
    <3>3. QED
      BY <3>1, <3>2, FileMoves DEF Stages, FileInv, FilePlaces
  <2>4. s.file \notin FilesOf(Completes)
    BY <2>2 DEF FileInv, FilePlaces, FilesAt, Stages, Disjoint
  <2>5. OnePerFile(sending')
    BY <2>1 DEF OnePerFile, FileInv, FilePlaces
  <2>6. OnePerFile(Completes')
    <3>1. \A m \in Completes : m.file # complete.file
      BY <1>6, <2>4 DEF FilesOf
    <3>2. OnePerFile(Completes \cup {complete})
      BY <3>1 DEF OnePerFile, FileInv, FilePlaces
    <3>3. QED
      BY <2>1, <3>2
  <2>7. FilePlaces'
    BY <1>3, <2>3, <2>5, <2>6 DEF FilePlaces, FileInv, receiverVars
  <2>8. QED
    BY <1>9, <1>10, <2>7 DEF FileInv
<1>13. QED
  BY <1>11, <1>12

\* A frame that arrives, or is lost, moves no file unless it is a file_complete.
LEMMA FrameGoesPlaces ==
    ASSUME FileInv, frames' \subseteq frames,
           UNCHANGED <<sending, untouched, timers, decrypting, everShown>>
    PROVE  FilePlaces'
<1>1. Completes' \subseteq Completes
  BY DEF Completes
<1>2. \A k \in Stages : FilesAt'[k] \subseteq FilesAt[k]
  BY <1>1 DEF FilesAt, FilesOf, Stages
<1>3. Disjoint(FilesAt')
  BY <1>2, StagesShrink DEF FileInv, FilePlaces
<1>4. QED
  BY <1>1, <1>3 DEF FilePlaces, FileInv, OnePerFile

LEMMA ArrivalsKeepFileInv ==
    ASSUME FileInv, ReceiveFileStart \/ ReceiveFileChunk \/ FrameLost
    PROVE  FileInv'
<1>1. /\ frames' \subseteq frames
      /\ UNCHANGED <<sending, untouched, timers, decrypting, everShown>>
      /\ UNCHANGED <<session, senderKey, receiverKey, ownFiles, shownFiles, fileAcks>>
  BY DEF ReceiveFileStart, ReceiveFileChunk, FrameLost, senderVars, receiverVars
<1>2. FilePlaces' /\ FilesShown'
  BY <1>1, FrameGoesPlaces DEF FileInv, FilesShown
<1>3. /\ DOMAIN fileBuffers' \subseteq Files
      /\ \A f \in DOMAIN fileBuffers' : BufferOK(fileBuffers'[f])
  <2>1. CASE ReceiveFileStart
    <3>1. PICK m \in frames : ReceiveFileStart!(m)
      BY <2>1 DEF ReceiveFileStart
    <3> DEFINE b == [chunks |-> [i \in 1 .. Chunks |-> Hole], keys |-> {},
                     processing |-> FALSE]
    <3>2. BufferOK(b)
      BY FileAssumption DEF BufferOK, Hole
    <3>3. m.file \in Files
      BY DEF FileInv, FileData, FileFrame
    <3> HIDE DEF b
    <3>4. fileBuffers' = [f \in DOMAIN fileBuffers \cup {m.file} |->
                             IF f = m.file THEN b ELSE fileBuffers[f]]
      BY <3>1 DEF b
    <3>5. QED
      BY <3>2, <3>3, <3>4 DEF FileInv, FileData
  <2>2. CASE ReceiveFileChunk
    <3>1. PICK m \in frames : ReceiveFileChunk!(m)
      BY <2>2 DEF ReceiveFileChunk
    <3>2. m \in FileFrame /\ m.index \in 1 .. Chunks /\ m.key \in Keys
      BY <3>1, FileAssumption DEF FileInv, FileData, FileFrame
    <3>3. ASSUME NEW b, BufferOK(b)
          PROVE  BufferOK(Stored(b, m))
      <4> DEFINE c == [b.chunks EXCEPT ![m.index] = m.index]
                 k == b.keys \cup {m.key}
      <4>1. c \in [1 .. Chunks -> 0 .. Chunks]
            /\ \A i \in 1 .. Chunks : c[i] \in {Hole, i}
        BY <3>2, <3>3 DEF BufferOK
      <4>2. Stored(b, m) = [b EXCEPT !.chunks = c, !.keys = k]
            /\ k \in SUBSET Keys
        BY <3>2, <3>3 DEF Stored, BufferOK
      <4> HIDE DEF c, k
      <4>3. QED
        BY <3>3, <4>1, <4>2 DEF BufferOK
    <3>4. QED
      BY <3>1, <3>3 DEF FileInv, FileData
  <2>3. CASE FrameLost
    BY <2>3 DEF FrameLost, receiverVars, FileInv, FileData
  <2>4. QED
    BY <2>1, <2>2, <2>3
<1>4. lost' \in 0 .. MaxLost
  <2>1. lost \in 0 .. MaxLost
    BY DEF FileInv, FileData
  <2>2. lost' = lost \/ (lost < MaxLost /\ lost' = lost + 1)
    BY DEF ReceiveFileStart, ReceiveFileChunk, FrameLost
  <2>3. QED
    BY <2>1, <2>2, FileAssumption
<1>5. FileData'
  BY <1>1, <1>3, <1>4 DEF FileInv, FileData
<1>6. QED
  BY <1>2, <1>5 DEF FileInv

LEMMA CompleteKeepsFileInv ==
    ASSUME FileInv, ReceiveFileComplete
    PROVE  FileInv'
<1>1. PICK m \in frames : ReceiveFileComplete!(m)
  BY DEF ReceiveFileComplete
<1>2. /\ m \in Completes /\ m.file \in Files
      /\ frames' = frames \ {m} /\ timers' = timers \cup {m.file}
      /\ UNCHANGED <<session, senderVars, lost, receiverKey, fileBuffers,
                     decrypting, shownFiles, everShown, fileAcks>>
  BY <1>1 DEF Completes, FileInv, FileData, FileFrame
<1>3. Completes' = Completes \ {m}
  BY <1>2 DEF Completes
<1>4. m.file \in FilesOf(Completes) /\ m.file \notin FilesOf(Completes')
      /\ FilesOf(Completes') \subseteq FilesOf(Completes)
  BY <1>2, <1>3 DEF FilesOf, FileInv, FilePlaces, OnePerFile
<1>5. Disjoint(FilesAt')
  <2>1. \A k \in Stages : k # "due" => FilesAt'[k] \subseteq FilesAt[k]
    BY <1>2, <1>4 DEF FilesAt, Stages, senderVars
  <2>2. /\ m.file \in FilesAt["complete"] /\ m.file \notin FilesAt'["complete"]
        /\ FilesAt'["due"] \subseteq FilesAt["due"] \cup {m.file}
    BY <1>2, <1>4 DEF FilesAt
  <2>3. QED
    BY <2>1, <2>2, FileMoves DEF Stages, FileInv, FilePlaces
<1>6. FilePlaces'
  BY <1>2, <1>3, <1>5 DEF FilePlaces, FileInv, OnePerFile, senderVars
<1>7. FileData'
  BY <1>2 DEF FileInv, FileData, senderVars, BufferOK
<1>8. FilesShown'
  BY <1>2 DEF FileInv, FilesShown, senderVars
<1>9. QED
  BY <1>6, <1>7, <1>8 DEF FileInv

\* Without a hole, every place holds its own chunk.
LEMMA CompleteIsWhole ==
    ASSUME NEW b, BufferOK(b), Complete(b)
    PROVE  b.chunks = Whole
<1>1. b.chunks \in [1 .. Chunks -> 0 .. Chunks]
      /\ \A i \in 1 .. Chunks : b.chunks[i] = i
  BY DEF BufferOK, Complete, Range
<1>2. QED
  BY <1>1 DEF Whole

LEMMA PutTogetherKeepsFileInv ==
    ASSUME FileInv, PutTogether
    PROVE  FileInv'
<1>1. PICK f \in timers : PutTogether!(f)
  BY DEF PutTogether
<1> DEFINE d == [file |-> f, key |-> receiverKey, chunks |-> fileBuffers[f].chunks,
                 keys |-> fileBuffers[f].keys]
<1>2. /\ timers' = timers \ {f} /\ f \in timers /\ f \in Files
      /\ UNCHANGED <<session, senderVars, frames, lost, receiverKey, shownFiles,
                     everShown, fileAcks>>
  BY <1>1 DEF FileInv, FileData
<1>3. /\ DOMAIN fileBuffers' \subseteq Files
      /\ \A g \in DOMAIN fileBuffers' : BufferOK(fileBuffers'[g])
  <2>1. \/ fileBuffers' = fileBuffers
        \/ /\ f \in DOMAIN fileBuffers
           /\ fileBuffers' = [fileBuffers EXCEPT ![f].processing = TRUE]
    BY <1>1
  <2>2. ASSUME NEW b, BufferOK(b)
        PROVE  BufferOK([b EXCEPT !.processing = TRUE])
    BY <2>2 DEF BufferOK
  <2>3. QED
    BY <2>1, <2>2 DEF FileInv, FileData
<1>4. \/ decrypting' = decrypting
      \/ /\ decrypting' = decrypting \cup {d} /\ d.chunks = Whole
  <2>1. \/ decrypting' = decrypting
        \/ /\ decrypting' = decrypting \cup {d}
           /\ f \in DOMAIN fileBuffers /\ Complete(fileBuffers[f])
    BY <1>1 DEF Complete
  <2>2. f \in DOMAIN fileBuffers /\ Complete(fileBuffers[f])
        => fileBuffers[f].chunks = Whole
    BY CompleteIsWhole DEF FileInv, FileData
  <2>3. QED
    BY <2>1, <2>2
<1>5. d.file = f
  OBVIOUS
<1> HIDE DEF d
<1>6. FileData'
  BY <1>2, <1>3, <1>4, <1>5 DEF FileInv, FileData, senderVars
<1>7. FilesShown'
  BY <1>2 DEF FileInv, FilesShown, senderVars
<1>8. FilesOf(decrypting') \subseteq FilesOf(decrypting) \cup {f}
  BY <1>4, <1>5 DEF FilesOf
<1>9. Completes' = Completes
  BY <1>2 DEF Completes
<1>10. Disjoint(FilesAt')
  <2>1. \A k \in Stages : k # "decrypting" => FilesAt'[k] \subseteq FilesAt[k]
    BY <1>2, <1>9 DEF FilesAt, Stages, senderVars
  <2>2. /\ f \in FilesAt["due"] /\ f \notin FilesAt'["due"]
        /\ FilesAt'["decrypting"] \subseteq FilesAt["decrypting"] \cup {f}
    BY <1>2, <1>8 DEF FilesAt
  <2>3. QED
    BY <2>1, <2>2, FileMoves DEF Stages, FileInv, FilePlaces
<1>11. OnePerFile(decrypting')
  <2>1. f \notin FilesOf(decrypting)
    BY <1>2 DEF FileInv, FilePlaces, FilesAt, Stages, Disjoint
  <2>2. QED
    BY <1>4, <1>5, <2>1 DEF OnePerFile, FilesOf, FileInv, FilePlaces
<1>12. FilePlaces'
  BY <1>2, <1>9, <1>10, <1>11 DEF FilePlaces, FileInv, senderVars
<1>13. QED
  BY <1>6, <1>7, <1>12 DEF FileInv

LEMMA DecryptedKeepsFileInv ==
    ASSUME FileInv, FileDecrypted
    PROVE  FileInv'
<1>1. PICK d \in decrypting : FileDecrypted!(d)
  BY DEF FileDecrypted
<1> DEFINE message == [file |-> d.file, chunks |-> d.chunks]
<1>2. /\ decrypting' = decrypting \ {d} /\ d.file \in Files /\ d.chunks = Whole
      /\ fileBuffers' = [f \in DOMAIN fileBuffers \ {d.file} |-> fileBuffers[f]]
      /\ UNCHANGED <<session, senderVars, frames, lost, receiverKey, timers>>
      /\ \/ /\ shownFiles' = Append(shownFiles, message)
            /\ everShown' = everShown \cup {d.file}
            /\ fileAcks' = fileAcks \cup {d.file}
         \/ UNCHANGED <<shownFiles, everShown, fileAcks>>
  BY <1>1 DEF FileInv, FileData
<1>3. FilesOf(decrypting') \subseteq FilesOf(decrypting)
      /\ d.file \in FilesOf(decrypting) /\ d.file \notin FilesOf(decrypting')
  BY <1>2 DEF FilesOf, FileInv, FilePlaces, OnePerFile
<1>4. Completes' = Completes
  BY <1>2 DEF Completes
<1>5. Disjoint(FilesAt')
  <2>0. UNCHANGED <<untouched, sending, timers>>
    BY <1>2 DEF senderVars
  <2>1. \A k \in Stages : k # "shown" => FilesAt'[k] \subseteq FilesAt[k]
    BY <1>3, <1>4, <2>0 DEF FilesAt, Stages
  <2>2. /\ d.file \in FilesAt["decrypting"] /\ d.file \notin FilesAt'["decrypting"]
        /\ FilesAt'["shown"] \subseteq FilesAt["shown"] \cup {d.file}
    BY <1>2, <1>3 DEF FilesAt
  <2>3. QED
    BY <2>1, <2>2, FileMoves DEF Stages, FileInv, FilePlaces
<1>6. FilePlaces'
  BY <1>2, <1>4, <1>5 DEF FilePlaces, FileInv, OnePerFile, senderVars
<1>7. d.file \notin everShown
  BY <1>3 DEF FileInv, FilePlaces, FilesAt, Stages, Disjoint
<1>8. message \in FileMessage /\ message.file = d.file
  BY <1>2 DEF FileMessage
<1>9. shownFiles \in Seq(FileMessage)
  BY DEF FileInv, FileData
<1> HIDE DEF message
<1>10. shownFiles' \in Seq(FileMessage)
       /\ everShown \subseteq everShown'
  <2>1. Append(shownFiles, message) \in Seq(FileMessage)
    BY <1>8, <1>9
  <2>2. QED
    BY <1>2, <1>9, <2>1
<1>11. FileData'
  BY <1>2, <1>10 DEF FileInv, FileData, senderVars, BufferOK
<1>12. FilesShown'
  <2>1. CASE UNCHANGED <<shownFiles, everShown, fileAcks>>
    BY <1>2, <2>1 DEF FileInv, FilesShown, senderVars
  <2>2. CASE /\ shownFiles' = Append(shownFiles, message)
             /\ everShown' = everShown \cup {d.file}
             /\ fileAcks' = fileAcks \cup {d.file}
    <3>1. /\ Len(shownFiles') = Len(shownFiles) + 1 /\ Len(shownFiles) \in Nat
          /\ shownFiles'[Len(shownFiles) + 1] = message
          /\ \A i \in 1 .. Len(shownFiles) : shownFiles'[i] = shownFiles[i]
      BY <1>8, <1>9, <2>2
    <3>2. \A i \in 1 .. Len(shownFiles) : shownFiles[i].file \in everShown
      BY DEF FileInv, FilesShown
    <3>3. \A i \in 1 .. Len(shownFiles) : shownFiles[i].file # d.file
      BY <1>7, <3>2
    <3>4. \A i \in 1 .. Len(shownFiles') : shownFiles'[i].file \in everShown'
      BY <1>8, <2>2, <3>1, <3>2
    <3>5. \A i, j \in 1 .. Len(shownFiles) :
              shownFiles[i].file = shownFiles[j].file => i = j
      BY DEF FileInv, FilesShown
    <3>6. \A i, j \in 1 .. Len(shownFiles') :
              shownFiles'[i].file = shownFiles'[j].file => i = j
      BY <1>8, <3>1, <3>3, <3>5
    <3>7. QED
      BY <1>2, <2>2, <3>4, <3>6 DEF FileInv, FilesShown, senderVars
  <2>3. QED
    BY <1>2, <2>1, <2>2
<1>13. QED
  BY <1>6, <1>11, <1>12 DEF FileInv

LEMMA SessionsKeepFileInv ==
    ASSUME FileInv, FileAcked \/ ReceiverCleared \/ NewSession
    PROVE  FileInv'
<1>1. UNCHANGED <<sending, untouched, frames, lost, timers, decrypting, everShown>>
  BY DEF FileAcked, ReceiverCleared, NewSession, senderVars, receiverVars
<1>2. FilePlaces'
  BY <1>1 DEF FileInv, FilePlaces, FilesAt, Completes
<1>3. {session', senderKey', receiverKey'} \subseteq Keys
  BY FileAssumption
  DEF FileAcked, ReceiverCleared, NewSession, senderVars, receiverVars,
      FileInv, FileData, Keys, NoSession
<1>4. /\ DOMAIN fileBuffers' \subseteq Files
      /\ \A f \in DOMAIN fileBuffers' : BufferOK(fileBuffers'[f])
      /\ shownFiles' = shownFiles \/ shownFiles' = <<>>
  BY DEF FileAcked, ReceiverCleared, NewSession, senderVars, receiverVars,
         FileInv, FileData
<1>5. fileAcks' \subseteq fileAcks
      /\ \A f \in DOMAIN ownFiles' :
            /\ ownFiles'[f] \in {"sending", "delivered"}
            /\ ownFiles'[f] = "delivered" =>
                  \/ f \in DOMAIN ownFiles /\ ownFiles[f] = "delivered"
                  \/ f \in fileAcks
  BY DEF FileAcked, ReceiverCleared, NewSession, senderVars, receiverVars,
         FileInv, FileData
<1>6. FileData'
  <2>1. shownFiles' \in Seq(FileMessage)
    <3>1. shownFiles \in Seq(FileMessage)
      BY DEF FileInv, FileData
    <3>2. <<>> \in Seq(FileMessage)
      OBVIOUS
    <3>3. QED
      BY <1>4, <3>1, <3>2
  <2>2. QED
    BY <1>1, <1>3, <1>4, <1>5, <2>1 DEF FileInv, FileData
<1>7. FilesShown'
  BY <1>1, <1>4, <1>5 DEF FileInv, FilesShown
<1>8. QED
  BY <1>2, <1>6, <1>7 DEF FileInv

\* The invariant of useFileTransfer.ts and of sendFile of useChatSession.ts.
THEOREM FileInvHolds == FileSpec => []FileInv
<1>1. FileInit => FileInv
  <2> SUFFICES ASSUME FileInit
               PROVE  FileInv
    OBVIOUS
  <2>1. FileData
    BY FileAssumption DEF FileInit, FileData, Keys
  <2>2. Disjoint(FilesAt)
    BY DEF FileInit, Disjoint, FilesAt, Completes, FilesOf, Stages
  <2>3. FilePlaces
    BY <2>2 DEF FileInit, FilePlaces, OnePerFile, Completes
  <2>4. FilesShown
    BY DEF FileInit, FilesShown
  <2>5. QED
    BY <2>1, <2>3, <2>4 DEF FileInv
<1>2. FileInv /\ [FileNext]_fileVars => FileInv'
  <2> SUFFICES ASSUME FileInv, [FileNext]_fileVars
               PROVE  FileInv'
    OBVIOUS
  <2>1. CASE UNCHANGED fileVars
    BY <2>1 DEF FileInv, FileData, FilePlaces, FilesShown, FilesAt, Completes, fileVars,
                senderVars, receiverVars
  <2>2. CASE FileNext
    BY <2>2, StartKeepsFileInv, FailedKeepsFileInv, BurstKeepsFileInv,
       ArrivalsKeepFileInv, CompleteKeepsFileInv, PutTogetherKeepsFileInv,
       DecryptedKeepsFileInv, SessionsKeepFileInv DEF FileNext
  <2>3. QED
    BY <2>1, <2>2
<1>3. QED
  BY <1>1, <1>2, PTL DEF FileSpec

\* The buffers, timers and files have their types (FileTypeOK; useFileTransfer.ts).
THEOREM FileTypeOKHolds == FileSpec => []FileTypeOK
<1>1. FileInv => FileTypeOK
  <2>1. ASSUME NEW b, BufferOK(b)
        PROVE  Range(b.chunks) \subseteq 0 .. Chunks
    BY <2>1 DEF BufferOK, Range
  <2>2. QED
    BY <2>1 DEF FileInv, FileData, FileTypeOK
<1>2. QED
  BY <1>1, FileInvHolds, PTL

\* A file that is shown is whole and shown once, and one that its sender sees as
\* delivered was shown (FilesArriveWhole; handleIncomingFile and sendFile), for any
\* files, chunks and bursts, in any order of frames.
THEOREM FilesArriveWholeHolds == FileSpec => []FilesArriveWhole
<1>1. FileInv => FilesArriveWhole
  <2> SUFFICES ASSUME FileInv
               PROVE  FilesArriveWhole
    OBVIOUS
  <2>1. shownFiles \in Seq(FileMessage)
        /\ DOMAIN shownFiles = 1 .. Len(shownFiles)
    BY DEF FileInv, FileData
  <2>2. \A i \in DOMAIN shownFiles : shownFiles[i].chunks = Whole
    <3>1. \A i \in DOMAIN shownFiles :
              shownFiles[i] \in FileMessage
      BY <2>1
    <3>2. QED
      BY <3>1 DEF FileMessage
  <2>3. QED
    BY <2>1, <2>2 DEF FileInv, FilesShown, FilesArriveWhole, Whole
<1>2. QED
  BY <1>1, FileInvHolds, PTL

-----------------------------------------------------------------------------
(* The encryption worker.                                                  *)

CallOK(r) ==
    /\ r \in Request
    /\ r.outcome = "none" => r.chunks < ChunksPerFile
    /\ r.outcome = "ok" => r.chunks = ChunksPerFile

\* A message of the worker about the calls rs: a result is the one of the call's
\* operation and has every chunk.
ReplyOK(m, rs) ==
    /\ m \in Reply /\ m.requestId \in DOMAIN rs
    /\ \/ m.type \in {"progress", "error"}
       \/ m.type = ResultOf(rs[m.requestId].op) /\ m.chunks = ChunksPerFile

\* The worker has the call in its queue, is at it, or has answered it.
WorkedOn(id) ==
    \/ \E i \in DOMAIN toWorker : toWorker[i] = id
    \/ id \in DOMAIN handling
    \/ \E i \in DOMAIN fromWorker :
          fromWorker[i].requestId = id /\ fromWorker[i].type # "progress"

WaitsForWorker(r) == r.by = "worker" /\ r.outcome = "none"

CallsOK ==
    /\ requests \in Seq(Request) /\ Len(requests) <= MaxRequests
    /\ \A id \in DOMAIN requests : CallOK(requests[id])
    /\ pendingRequests \subseteq DOMAIN requests
    /\ \A id \in pendingRequests : WaitsForWorker(requests[id])

WorkerOK ==
    /\ worker \in {"none", "running", "deaf"} /\ crashes \in 0 .. MaxCrashes
    /\ toWorker \in Seq(RequestIds)
    /\ \A i \in DOMAIN toWorker : toWorker[i] \in DOMAIN requests
    /\ DOMAIN handling \subseteq DOMAIN requests
    /\ \A id \in DOMAIN handling : handling[id] \in 0 .. ChunksPerFile
    /\ fromWorker \in Seq(Reply)
    /\ \A i \in DOMAIN fromWorker : ReplyOK(fromWorker[i], requests)

NobodyForgotten == \A id \in DOMAIN requests :
    WaitsForWorker(requests[id]) =>
        worker = "deaf" \/ (id \in pendingRequests /\ WorkedOn(id))

WorkerInv == CallsOK /\ WorkerOK /\ NobodyForgotten

LEMMA HeadAndTail ==
    ASSUME NEW S, NEW q \in Seq(S), q # <<>>
    PROVE  /\ Tail(q) \in Seq(S) /\ Head(q) \in S
           /\ \E i \in DOMAIN q : q[i] = Head(q)
           /\ \A i \in DOMAIN Tail(q) : \E j \in DOMAIN q : Tail(q)[i] = q[j]
           /\ \A j \in DOMAIN q :
                 q[j] = Head(q) \/ \E i \in DOMAIN Tail(q) : Tail(q)[i] = q[j]
<1>1. /\ Tail(q) \in Seq(S) /\ Head(q) \in S /\ Len(q) \in Nat /\ Len(q) # 0
      /\ DOMAIN q = 1 .. Len(q) /\ DOMAIN Tail(q) = 1 .. Len(q) - 1
      /\ Head(q) = q[1] /\ \A i \in 1 .. Len(q) - 1 : Tail(q)[i] = q[i + 1]
  OBVIOUS
<1>2. 1 \in DOMAIN q /\ q[1] = Head(q)
  BY <1>1
<1>3. \A i \in DOMAIN Tail(q) : i + 1 \in DOMAIN q /\ Tail(q)[i] = q[i + 1]
  BY <1>1
<1>4. ASSUME NEW j \in DOMAIN q, j # 1
      PROVE  j - 1 \in DOMAIN Tail(q) /\ Tail(q)[j - 1] = q[j]
  BY <1>1, <1>4
<1>5. QED
  BY <1>1, <1>2, <1>3, <1>4

LEMMA AtTheEnd ==
    ASSUME NEW S, NEW q \in Seq(S), NEW e \in S
    PROVE  /\ Append(q, e) \in Seq(S)
           /\ DOMAIN q \subseteq DOMAIN Append(q, e)
           /\ \A i \in DOMAIN q : Append(q, e)[i] = q[i]
           /\ Len(q) + 1 \in DOMAIN Append(q, e)
           /\ Append(q, e)[Len(q) + 1] = e
           /\ \A i \in DOMAIN Append(q, e) : i = Len(q) + 1 \/ i \in DOMAIN q
<1>1. /\ Append(q, e) \in Seq(S) /\ Len(q) \in Nat /\ DOMAIN q = 1 .. Len(q)
      /\ DOMAIN Append(q, e) = 1 .. Len(q) + 1
      /\ Append(q, e)[Len(q) + 1] = e
      /\ \A i \in 1 .. Len(q) : Append(q, e)[i] = q[i]
  OBVIOUS
<1>2. QED
  BY <1>1

\* A call the page starts over.
LEMMA FallenBack ==
    ASSUME NEW r, CallOK(r)
    PROVE  /\ FallsBack(r).op = r.op /\ FallsBack(r) \in Request
           /\ ~WaitsForWorker(FallsBack(r))
           /\ r.outcome = "none" => CallOK(FallsBack(r))
<1>1. r \in Request
  BY DEF CallOK
<1>2. 0 \in 0 .. ChunksPerFile /\ 0 < ChunksPerFile
  BY WorkerAssumption
<1> DEFINE n == FallsBack(r)
<1>3. /\ n \in Request /\ n.op = r.op /\ n.by = "page" /\ n.outcome = r.outcome
      /\ n.chunks = 0
  BY <1>1, <1>2 DEF FallsBack, Request
<1> HIDE DEF n
<1>4. QED
  BY <1>2, <1>3 DEF CallOK, WaitsForWorker, n

\* A message stays right as long as no call changes its operation.
LEMMA RepliesStay ==
    ASSUME NEW rs, DOMAIN requests \subseteq DOMAIN rs,
           \A id \in DOMAIN requests : rs[id].op = requests[id].op,
           NEW m, ReplyOK(m, requests)
    PROVE  ReplyOK(m, rs)
BY DEF ReplyOK

\* A step of the worker leaves the page as it is and drops no call.
LEMMA WorkerSteps ==
    ASSUME WorkerInv, UNCHANGED <<requests, worker, crashes, pendingRequests>>,
           WorkerOK', \A id \in DOMAIN requests : WorkedOn(id) => WorkedOn(id)'
    PROVE  WorkerInv'
<1>1. CallsOK'
  BY DEF WorkerInv, CallsOK
<1>2. NobodyForgotten'
  BY DEF WorkerInv, NobodyForgotten
<1>3. QED
  BY <1>1, <1>2 DEF WorkerInv

LEMMA ReceivesKeepsWorkerInv ==
    ASSUME WorkerInv, WorkerReceives
    PROVE  WorkerInv'
<1>1. toWorker \in Seq(RequestIds) /\ toWorker # <<>>
  BY DEF WorkerInv, WorkerOK, WorkerReceives
<1>2. /\ Tail(toWorker) \in Seq(RequestIds)
      /\ \E i \in DOMAIN toWorker : toWorker[i] = Head(toWorker)
      /\ \A i \in DOMAIN Tail(toWorker) :
            \E j \in DOMAIN toWorker : Tail(toWorker)[i] = toWorker[j]
      /\ \A j \in DOMAIN toWorker :
            \/ toWorker[j] = Head(toWorker)
            \/ \E i \in DOMAIN Tail(toWorker) : Tail(toWorker)[i] = toWorker[j]
  BY <1>1, HeadAndTail
<1>3. /\ toWorker' = Tail(toWorker)
      /\ DOMAIN handling' = DOMAIN handling \cup {Head(toWorker)}
      /\ \A id \in DOMAIN handling' :
            handling'[id] = IF id = Head(toWorker) THEN 0 ELSE handling[id]
      /\ UNCHANGED <<requests, worker, crashes, pendingRequests, fromWorker>>
  BY DEF WorkerReceives
<1>4. WorkerOK'
  BY <1>2, <1>3, WorkerAssumption DEF WorkerInv, WorkerOK
<1>5. \A id \in DOMAIN requests : WorkedOn(id) => WorkedOn(id)'
  BY <1>2, <1>3 DEF WorkedOn
<1>6. QED
  BY <1>3, <1>4, <1>5, WorkerSteps

\* What the worker posts is right, and ends a call that it drops.
LEMMA PostsKeepsWorkerInv ==
    ASSUME WorkerInv, NEW m, ReplyOK(m, requests), fromWorker' = Append(fromWorker, m),
           DOMAIN handling' \subseteq DOMAIN handling,
           \A id \in DOMAIN handling' : handling'[id] \in 0 .. ChunksPerFile,
           \A id \in DOMAIN handling \ DOMAIN handling' :
              m.requestId = id /\ m.type # "progress",
           UNCHANGED <<requests, worker, crashes, pendingRequests, toWorker>>
    PROVE  WorkerInv'
<1>1. fromWorker \in Seq(Reply) /\ m \in Reply
  BY DEF WorkerInv, WorkerOK, ReplyOK
<1>2. /\ fromWorker' \in Seq(Reply)
      /\ DOMAIN fromWorker \subseteq DOMAIN fromWorker'
      /\ \A i \in DOMAIN fromWorker : fromWorker'[i] = fromWorker[i]
      /\ \E i \in DOMAIN fromWorker' : fromWorker'[i] = m
      /\ \A i \in DOMAIN fromWorker' : fromWorker'[i] = m \/ i \in DOMAIN fromWorker
  BY <1>1, AtTheEnd
<1>3. WorkerOK'
  BY <1>2 DEF WorkerInv, WorkerOK
<1>4. \A id \in DOMAIN requests : WorkedOn(id) => WorkedOn(id)'
  BY <1>2 DEF WorkedOn
<1>5. QED
  BY <1>3, <1>4, WorkerSteps

LEMMA WorksKeepsWorkerInv ==
    ASSUME WorkerInv, WorkerChunk \/ WorkerDone \/ WorkerFails
    PROVE  WorkerInv'
<1>1. \A id \in DOMAIN handling :
          /\ handling[id] \in 0 .. ChunksPerFile /\ id \in DOMAIN requests
          /\ id \in 1 .. MaxRequests /\ CallOK(requests[id])
  BY WorkerAssumption DEF WorkerInv, WorkerOK, CallsOK
<1>2. CASE WorkerChunk
  <2>1. PICK id \in DOMAIN handling : WorkerChunk!(id)
    BY <1>2 DEF WorkerChunk
  <2> DEFINE m == [type |-> "progress", requestId |-> id, chunks |-> handling[id] + 1]
  <2>2. ReplyOK(m, requests)
    BY <1>1, <2>1, WorkerAssumption DEF ReplyOK, Reply
  <2>3. /\ fromWorker' = Append(fromWorker, m)
        /\ DOMAIN handling' = DOMAIN handling
        /\ \A i \in DOMAIN handling' : handling'[i] \in 0 .. ChunksPerFile
        /\ UNCHANGED <<requests, worker, crashes, pendingRequests, toWorker>>
    BY <1>1, <2>1, WorkerAssumption DEF Posts
  <2> HIDE DEF m
  <2>4. QED
    BY <2>2, <2>3, PostsKeepsWorkerInv
<1>3. CASE WorkerDone
  <2>1. PICK id \in DOMAIN handling : WorkerDone!(id)
    BY <1>3 DEF WorkerDone
  <2> DEFINE m == [type |-> ResultOf(requests[id].op), requestId |-> id,
                   chunks |-> handling[id]]
  <2>2. ReplyOK(m, requests) /\ m.requestId = id /\ m.type # "progress"
    BY <1>1, <2>1, WorkerAssumption DEF ReplyOK, Reply, ResultOf
  <2>3. /\ fromWorker' = Append(fromWorker, m)
        /\ DOMAIN handling' = DOMAIN handling \ {id}
        /\ \A i \in DOMAIN handling' : handling'[i] \in 0 .. ChunksPerFile
        /\ UNCHANGED <<requests, worker, crashes, pendingRequests, toWorker>>
    BY <1>1, <2>1, WorkerAssumption DEF Posts, Drops
  <2> HIDE DEF m
  <2>4. QED
    BY <2>2, <2>3, PostsKeepsWorkerInv
<1>4. CASE WorkerFails
  <2>1. PICK id \in DOMAIN handling : WorkerFails!(id)
    BY <1>4 DEF WorkerFails
  <2> DEFINE m == [type |-> "error", requestId |-> id, chunks |-> 0]
  <2>2. ReplyOK(m, requests) /\ m.requestId = id /\ m.type # "progress"
    BY <1>1, <2>1, WorkerAssumption DEF ReplyOK, Reply
  <2>3. /\ fromWorker' = Append(fromWorker, m)
        /\ DOMAIN handling' = DOMAIN handling \ {id}
        /\ \A i \in DOMAIN handling' : handling'[i] \in 0 .. ChunksPerFile
        /\ UNCHANGED <<requests, worker, crashes, pendingRequests, toWorker>>
    BY <1>1, <2>1, WorkerAssumption DEF Posts, Drops
  <2> HIDE DEF m
  <2>4. QED
    BY <2>2, <2>3, PostsKeepsWorkerInv
<1>5. QED
  BY <1>2, <1>3, <1>4

LEMMA CallKeepsWorkerInv ==
    ASSUME WorkerInv, CallFile
    PROVE  WorkerInv'
<1>1. PICK op \in Operations, by \in {"worker", "page"} : CallFile!(op, by)
  BY DEF CallFile
<1>0. PICK id : id = Len(requests) + 1
  OBVIOUS
<1> DEFINE r == [op |-> op, by |-> by, outcome |-> "none", chunks |-> 0]
<1>2. /\ Len(requests) < MaxRequests /\ requests' = Append(requests, r)
      /\ UNCHANGED <<crashes, handling, fromWorker>>
  BY <1>1
<1>3. /\ requests \in Seq(Request) /\ Len(requests) \in Nat
      /\ DOMAIN requests = 1 .. Len(requests) /\ toWorker \in Seq(RequestIds)
  BY DEF WorkerInv, CallsOK, WorkerOK
<1>4. CallOK(r) /\ r \in Request /\ r.by = by
  BY WorkerAssumption DEF CallOK, Request, Outcomes
<1>5. id \in RequestIds /\ id \notin DOMAIN requests
  BY <1>0, <1>2, <1>3, WorkerAssumption DEF RequestIds
<1> HIDE DEF r
<1>6. /\ requests' \in Seq(Request) /\ Len(requests') <= MaxRequests
      /\ DOMAIN requests' = DOMAIN requests \cup {id} /\ requests'[id] = r
      /\ \A i \in DOMAIN requests : requests'[i] = requests[i]
  BY <1>0, <1>2, <1>3, <1>4, WorkerAssumption
<1>7. /\ by = "page" => UNCHANGED <<worker, pendingRequests, toWorker>>
      /\ by = "worker" =>
            /\ pendingRequests' = pendingRequests \cup {id}
            /\ worker' = IF worker = "none" THEN "running" ELSE worker
            /\ toWorker' = Append(toWorker, id)
  BY <1>0, <1>1
<1>8. /\ toWorker' \in Seq(RequestIds)
      /\ \A i \in DOMAIN toWorker' : toWorker'[i] = id \/
            (i \in DOMAIN toWorker /\ toWorker'[i] = toWorker[i])
      /\ \A i \in DOMAIN toWorker : i \in DOMAIN toWorker' /\ toWorker'[i] = toWorker[i]
      /\ by = "worker" => \E i \in DOMAIN toWorker' : toWorker'[i] = id
  <2>1. CASE by = "page"
    BY <1>3, <1>7, <2>1
  <2>2. CASE by = "worker"
    <3>1. /\ Append(toWorker, id) \in Seq(RequestIds)
          /\ \A i \in DOMAIN toWorker : /\ i \in DOMAIN Append(toWorker, id)
                                       /\ Append(toWorker, id)[i] = toWorker[i]
          /\ Len(toWorker) + 1 \in DOMAIN Append(toWorker, id)
          /\ Append(toWorker, id)[Len(toWorker) + 1] = id
          /\ \A i \in DOMAIN Append(toWorker, id) :
                i = Len(toWorker) + 1 \/ i \in DOMAIN toWorker
      BY <1>3, <1>5, AtTheEnd
    <3>2. toWorker' = Append(toWorker, id)
      BY <1>7, <2>2
    <3>3. QED
      BY <3>1, <3>2
  <2>3. QED
    BY <2>1, <2>2
<1>9. CallsOK'
  <2>1. \A i \in DOMAIN requests' : CallOK(requests'[i])
    BY <1>4, <1>6 DEF WorkerInv, CallsOK
  <2>2. pendingRequests' \subseteq DOMAIN requests'
        /\ \A i \in pendingRequests' : WaitsForWorker(requests'[i])
    <3>1. pendingRequests \subseteq DOMAIN requests
          /\ \A i \in pendingRequests : WaitsForWorker(requests'[i])
      BY <1>6 DEF WorkerInv, CallsOK, WaitsForWorker
    <3>2. by = "worker" => WaitsForWorker(requests'[id])
      BY <1>4, <1>6 DEF WaitsForWorker, r
    <3>3. QED
      BY <1>6, <1>7, <3>1, <3>2
  <2>3. QED
    BY <1>6, <2>1, <2>2 DEF CallsOK
<1>10. WorkerOK'
  <2>1. \A i \in DOMAIN fromWorker' : ReplyOK(fromWorker'[i], requests')
    BY <1>2, <1>6, RepliesStay DEF WorkerInv, WorkerOK
  <2>2. worker' \in {"none", "running", "deaf"} /\ crashes' \in 0 .. MaxCrashes
    BY <1>2, <1>7 DEF WorkerInv, WorkerOK
  <2>3. /\ \A i \in DOMAIN toWorker' : toWorker'[i] \in DOMAIN requests'
        /\ DOMAIN handling' \subseteq DOMAIN requests'
    BY <1>2, <1>6, <1>8 DEF WorkerInv, WorkerOK
  <2>4. QED
    BY <1>2, <1>8, <2>1, <2>2, <2>3 DEF WorkerInv, WorkerOK
<1>11. NobodyForgotten'
  <2>1. \A i \in DOMAIN requests : WorkedOn(i) => WorkedOn(i)'
    BY <1>2, <1>8 DEF WorkedOn
  <2>2. worker = "deaf" => worker' = "deaf"
    BY <1>7
  <2>3. pendingRequests \subseteq pendingRequests'
    BY <1>7
  <2>4. ASSUME NEW i \in DOMAIN requests, WaitsForWorker(requests'[i])
        PROVE  worker' = "deaf" \/ (i \in pendingRequests' /\ WorkedOn(i)')
    BY <1>6, <2>1, <2>2, <2>3, <2>4 DEF WorkerInv, NobodyForgotten, WaitsForWorker
  <2>5. WaitsForWorker(requests'[id]) => id \in pendingRequests' /\ WorkedOn(id)'
    <3>1. WaitsForWorker(requests'[id]) => by = "worker"
      BY <1>4, <1>6 DEF WaitsForWorker
    <3>2. by = "worker" => id \in pendingRequests'
      BY <1>7
    <3>3. by = "worker" => WorkedOn(id)'
      BY <1>8 DEF WorkedOn
    <3>4. QED
      BY <3>1, <3>2, <3>3
  <2>6. \A i \in DOMAIN requests' : WaitsForWorker(requests'[i]) =>
            worker' = "deaf" \/ (i \in pendingRequests' /\ WorkedOn(i)')
    BY <1>6, <2>4, <2>5
  <2>7. QED
    BY <2>6 DEF NobodyForgotten
<1>12. QED
  BY <1>9, <1>10, <1>11 DEF WorkerInv

\* A step that changes the calls, and lets none wait that the worker does not know.
LEMMA CallsChange ==
    ASSUME WorkerInv, NEW rs, rs \in [DOMAIN requests -> Request], requests' = rs,
           \A id \in DOMAIN requests : CallOK(rs[id]) /\ rs[id].op = requests[id].op,
           pendingRequests' \subseteq pendingRequests,
           \A id \in DOMAIN requests :
              WaitsForWorker(rs[id]) => rs[id] = requests[id],
           \A id \in pendingRequests' : WaitsForWorker(rs[id]),
           fromWorker' \in Seq(Reply),
           \A i \in DOMAIN fromWorker' :
              \E j \in DOMAIN fromWorker : fromWorker'[i] = fromWorker[j],
           \A id \in DOMAIN requests :
              WaitsForWorker(rs[id]) =>
                 \/ worker' = "deaf"
                 \/ /\ id \in pendingRequests => id \in pendingRequests'
                    /\ worker # "deaf"
                    /\ WorkedOn(id) => WorkedOn(id)',
           worker' \in {"none", "running", "deaf"}, crashes' \in 0 .. MaxCrashes,
           UNCHANGED <<toWorker, handling>>
    PROVE  WorkerInv'
<1>1. requests \in Seq(Request) /\ Len(requests) \in Nat
      /\ DOMAIN requests = 1 .. Len(requests)
  BY DEF WorkerInv, CallsOK
<1>2. requests' \in Seq(Request) /\ Len(requests') = Len(requests)
      /\ DOMAIN requests' = DOMAIN requests
  BY <1>1
<1>3. CallsOK'
  BY <1>2 DEF WorkerInv, CallsOK
<1>4. WorkerOK'
  <2>1. \A m : ReplyOK(m, requests) => ReplyOK(m, requests')
    BY <1>2, RepliesStay
  <2>2. \A i \in DOMAIN fromWorker' : ReplyOK(fromWorker'[i], requests')
    BY <2>1 DEF WorkerInv, WorkerOK
  <2>3. QED
    BY <1>2, <2>2 DEF WorkerInv, WorkerOK
<1>5. NobodyForgotten'
  BY <1>2 DEF WorkerInv, NobodyForgotten
<1>6. QED
  BY <1>3, <1>4, <1>5 DEF WorkerInv

LEMMA PageWorksKeepsWorkerInv ==
    ASSUME WorkerInv, PageWorks
    PROVE  WorkerInv'
<1>1. PICK id \in DOMAIN requests : PageWorks!(id)
  BY DEF PageWorks
<1> DEFINE r == requests[id]
           failed == [r EXCEPT !.outcome = "failed"]
           next == [r EXCEPT !.chunks = @ + 1,
                       !.outcome = IF r.chunks + 1 = ChunksPerFile THEN "ok" ELSE "none"]
<1>2. /\ r.by = "page" /\ r.outcome = "none" /\ CallOK(r) /\ r \in Request
      /\ UNCHANGED <<worker, crashes, pendingRequests, toWorker, handling, fromWorker>>
  BY <1>1 DEF WorkerInv, CallsOK, CallOK
<1>3. PICK n \in {failed, next} : requests' = [requests EXCEPT ![id] = n]
  BY <1>1
<1>4. CallOK(n) /\ n.op = r.op /\ n.by = "page" /\ n \in Request
  <2>1. r.chunks \in 0 .. ChunksPerFile /\ r.chunks < ChunksPerFile
        /\ r.chunks + 1 \in 0 .. ChunksPerFile
    BY <1>2, WorkerAssumption DEF CallOK, Request
  <2>2. CASE n = failed
    BY <1>2, <2>2 DEF CallOK, Request, Outcomes
  <2>3. CASE n = next
    <3>1. PICK o \in Outcomes :
              /\ o = IF r.chunks + 1 = ChunksPerFile THEN "ok" ELSE "none"
      BY DEF Outcomes
    <3>2. n = [r EXCEPT !.by = "page", !.outcome = o, !.chunks = r.chunks + 1]
      BY <1>2, <2>3, <3>1 DEF Request
    <3>3. /\ n \in Request /\ n.op = r.op /\ n.by = "page" /\ n.outcome = o
          /\ n.chunks = r.chunks + 1
      BY <1>2, <2>1, <3>2 DEF Request
    <3>4. /\ o = "none" => r.chunks + 1 < ChunksPerFile
          /\ o = "ok" => r.chunks + 1 = ChunksPerFile
      <4>1. CASE r.chunks + 1 = ChunksPerFile
        BY <3>1, <4>1
      <4>2. CASE r.chunks + 1 # ChunksPerFile
        BY <2>1, <3>1, <4>2, WorkerAssumption
      <4>3. QED
        BY <4>1, <4>2
    <3>5. QED
      BY <3>3, <3>4 DEF CallOK
  <2>4. QED
    BY <2>2, <2>3
<1> DEFINE rs == [requests EXCEPT ![id] = n]
<1> HIDE DEF failed, next
<1>5. /\ rs \in [DOMAIN requests -> Request]
      /\ rs[id] = n /\ \A i \in DOMAIN requests : i # id => rs[i] = requests[i]
  BY <1>1, <1>4 DEF WorkerInv, CallsOK
<1>6. requests' = rs
  BY <1>3
<1> HIDE DEF rs
<1>7. /\ \A i \in DOMAIN requests : CallOK(rs[i]) /\ rs[i].op = requests[i].op
      /\ \A i \in DOMAIN requests : WaitsForWorker(rs[i]) => rs[i] = requests[i]
      /\ \A i \in pendingRequests : WaitsForWorker(rs[i])
  BY <1>2, <1>4, <1>5 DEF WorkerInv, CallsOK, WaitsForWorker
<1>8. /\ fromWorker' \in Seq(Reply) /\ fromWorker' = fromWorker
      /\ worker' \in {"none", "running", "deaf"} /\ crashes' \in 0 .. MaxCrashes
      /\ worker' = worker
  BY <1>2 DEF WorkerInv, WorkerOK
<1>9. \A i : WorkedOn(i) => WorkedOn(i)'
  BY <1>2 DEF WorkedOn
<1>10. QED
  BY <1>2, <1>5, <1>6, <1>7, <1>8, <1>9, CallsChange

\* onerror rejects whoever waits, so nobody is left that does.
LEMMA ErrorKeepsWorkerInv ==
    ASSUME WorkerInv, WorkerError
    PROVE  WorkerInv'
<1> DEFINE rs == [id \in DOMAIN requests |->
                    IF id \in pendingRequests THEN FallsBack(requests[id])
                    ELSE requests[id]]
<1>1. /\ worker = "running" /\ crashes < MaxCrashes /\ crashes' = crashes + 1
      /\ worker' \in {"running", "deaf"} /\ requests' = rs /\ pendingRequests' = {}
      /\ UNCHANGED <<toWorker, handling, fromWorker>>
  BY DEF WorkerError
<1>2. \A id \in DOMAIN requests : CallOK(requests[id]) /\ requests[id] \in Request
  BY DEF WorkerInv, CallsOK, CallOK
<1>3. \A r : CallOK(r) =>
             /\ FallsBack(r).op = r.op /\ FallsBack(r) \in Request
             /\ ~WaitsForWorker(FallsBack(r))
             /\ r.outcome = "none" => CallOK(FallsBack(r))
  BY FallenBack
<1>4. \A id \in pendingRequests : requests[id].outcome = "none"
  BY DEF WorkerInv, CallsOK, WaitsForWorker
<1>5. \A id \in DOMAIN requests :
          rs[id] = IF id \in pendingRequests THEN FallsBack(requests[id]) ELSE requests[id]
  OBVIOUS
<1>6. rs \in [DOMAIN requests -> Request]
  BY <1>2, <1>3
<1> HIDE DEF rs
<1>7. /\ \A id \in DOMAIN requests : CallOK(rs[id]) /\ rs[id].op = requests[id].op
      /\ \A id \in DOMAIN requests : WaitsForWorker(rs[id]) => rs[id] = requests[id]
  BY <1>2, <1>3, <1>4, <1>5
<1>8. \A id \in DOMAIN requests : ~WaitsForWorker(rs[id])
  BY <1>1, <1>2, <1>3, <1>5 DEF WorkerInv, NobodyForgotten
<1>9. /\ fromWorker' \in Seq(Reply) /\ fromWorker' = fromWorker
      /\ crashes' \in 0 .. MaxCrashes
  BY <1>1, WorkerAssumption DEF WorkerInv, WorkerOK
<1>10. QED
  BY <1>1, <1>6, <1>7, <1>8, <1>9, CallsChange

\* A message that is not the answer to the call is ignored; one that is ends it, or
\* lets the page start over.
LEMMA PageReceivesKeepsWorkerInv ==
    ASSUME WorkerInv, PageReceives
    PROVE  WorkerInv'
<1> DEFINE m == Head(fromWorker)
           id == m.requestId
           r == requests[id]
           n == IF m.type = "error" THEN FallsBack(r)
                ELSE [r EXCEPT !.outcome = "ok", !.chunks = m.chunks]
           rs == [requests EXCEPT ![id] = n]
<1>1. /\ fromWorker # <<>> /\ fromWorker' = Tail(fromWorker)
      /\ UNCHANGED <<worker, crashes, toWorker, handling>>
      /\ fromWorker \in Seq(Reply)
  BY DEF PageReceives, WorkerInv, WorkerOK
<1>2. /\ fromWorker' \in Seq(Reply)
      /\ \E i \in DOMAIN fromWorker : fromWorker[i] = m
      /\ \A i \in DOMAIN fromWorker' : \E j \in DOMAIN fromWorker :
            fromWorker'[i] = fromWorker[j]
      /\ \A j \in DOMAIN fromWorker :
            fromWorker[j] = m \/ \E i \in DOMAIN fromWorker' : fromWorker'[i] = fromWorker[j]
  BY <1>1, HeadAndTail
<1>3. ReplyOK(m, requests) /\ id \in DOMAIN requests /\ CallOK(r) /\ r \in Request
  BY <1>2 DEF WorkerInv, WorkerOK, CallsOK, ReplyOK, CallOK
<1>4. /\ worker' \in {"none", "running", "deaf"} /\ crashes' \in 0 .. MaxCrashes
      /\ worker' = worker
  BY <1>1 DEF WorkerInv, WorkerOK
<1>5. \A i \in DOMAIN requests :
          WorkedOn(i) => WorkedOn(i)' \/ (i = id /\ m.type # "progress")
  BY <1>1, <1>2 DEF WorkedOn
<1>6. CASE Awaited(id, m)
  <2>1. /\ pendingRequests' = pendingRequests \ {id} /\ requests' = rs
        /\ id \in pendingRequests
        /\ m.type = "error" \/ m.type = ResultOf(r.op)
    BY <1>6 DEF PageReceives, Awaited
  <2>2. r.outcome = "none" /\ r.by = "worker"
    BY <2>1 DEF WorkerInv, CallsOK, WaitsForWorker
  <2>3. n \in Request /\ n.op = r.op /\ CallOK(n) /\ ~WaitsForWorker(n)
    <3>1. CASE m.type = "error"
      BY <1>3, <2>2, <3>1, FallenBack
    <3>2. CASE m.type # "error"
      <4>1. m.chunks = ChunksPerFile
        BY <1>3, <2>1, <3>2 DEF ReplyOK, ResultOf
      <4>2. QED
        <5>1. n = [r EXCEPT !.by = "worker", !.outcome = "ok", !.chunks = ChunksPerFile]
          BY <1>3, <2>2, <3>2, <4>1 DEF Request
        <5>2. "ok" \in Outcomes /\ ChunksPerFile \in 0 .. ChunksPerFile
          BY WorkerAssumption DEF Outcomes
        <5> HIDE DEF n
        <5>3. /\ n \in Request /\ n.op = r.op /\ n.outcome = "ok"
              /\ n.chunks = ChunksPerFile
          BY <1>3, <5>1, <5>2 DEF Request
        <5>4. QED
          BY <5>3 DEF CallOK, WaitsForWorker
    <3>3. QED
      BY <3>1, <3>2
  <2> HIDE DEF n
  <2>4. /\ rs \in [DOMAIN requests -> Request]
        /\ rs[id] = n /\ \A i \in DOMAIN requests : i # id => rs[i] = requests[i]
    BY <1>3, <2>3 DEF WorkerInv, CallsOK
  <2> HIDE DEF rs
  <2>5. /\ \A i \in DOMAIN requests : CallOK(rs[i]) /\ rs[i].op = requests[i].op
        /\ \A i \in DOMAIN requests : WaitsForWorker(rs[i]) => rs[i] = requests[i]
        /\ \A i \in pendingRequests' : WaitsForWorker(rs[i])
    BY <2>1, <2>3, <2>4 DEF WorkerInv, CallsOK
  <2>6. \A i \in DOMAIN requests : WaitsForWorker(rs[i]) =>
            /\ i \in pendingRequests => i \in pendingRequests'
            /\ WorkedOn(i) => WorkedOn(i)'
    BY <1>5, <2>1, <2>3, <2>4
  <2> HIDE DEF id, m
  <2>7. pendingRequests' \subseteq pendingRequests
    BY <2>1
  <2>8. QED
    BY <1>1, <1>2, <1>4, <2>1, <2>4, <2>5, <2>6, <2>7, CallsChange
<1>7. CASE ~Awaited(id, m)
  <2>1. UNCHANGED <<pendingRequests, requests>>
    BY <1>7 DEF PageReceives
  <2>2. id \in pendingRequests => m.type = "progress"
    BY <1>3, <1>7 DEF Awaited, ReplyOK
  <2> HIDE DEF id, m
  <2>3. CallsOK'
    BY <2>1 DEF WorkerInv, CallsOK
  <2>4. WorkerOK'
    BY <1>1, <1>2, <2>1 DEF WorkerInv, WorkerOK
  <2>5. NobodyForgotten'
    BY <1>1, <1>5, <2>1, <2>2 DEF WorkerInv, NobodyForgotten
  <2>6. QED
    BY <2>3, <2>4, <2>5 DEF WorkerInv
<1>8. QED
  BY <1>6, <1>7

\* The invariant of file-encryption-worker.ts and the worker it creates.
THEOREM WorkerInvHolds == WorkerSpec => []WorkerInv
<1>1. WorkerInit => WorkerInv
  <2> SUFFICES ASSUME WorkerInit
               PROVE  WorkerInv
    OBVIOUS
  <2>1. CallsOK
    BY WorkerAssumption DEF WorkerInit, CallsOK
  <2>2. WorkerOK
    BY WorkerAssumption DEF WorkerInit, WorkerOK
  <2>3. NobodyForgotten
    BY DEF WorkerInit, NobodyForgotten
  <2>4. QED
    BY <2>1, <2>2, <2>3 DEF WorkerInv
<1>2. WorkerInv /\ [WorkerNext]_workerVars => WorkerInv'
  <2> SUFFICES ASSUME WorkerInv, [WorkerNext]_workerVars
               PROVE  WorkerInv'
    OBVIOUS
  <2>1. CASE UNCHANGED workerVars
    BY <2>1 DEF WorkerInv, CallsOK, WorkerOK, NobodyForgotten, WorkedOn, workerVars
  <2>2. CASE WorkerNext
    BY <2>2, CallKeepsWorkerInv, PageWorksKeepsWorkerInv, PageReceivesKeepsWorkerInv,
       ErrorKeepsWorkerInv, ReceivesKeepsWorkerInv, WorksKeepsWorkerInv DEF WorkerNext
  <2>3. QED
    BY <2>1, <2>2
<1>3. QED
  BY <1>1, <1>2, PTL DEF WorkerSpec

\* The maps and the queues have their types (WorkerTypeOK;
\* file-encryption-worker.ts).
THEOREM WorkerTypeOKHolds == WorkerSpec => []WorkerTypeOK
<1>1. WorkerInv => WorkerTypeOK
  BY DEF WorkerInv, CallsOK, WorkerOK, WorkerTypeOK
<1>2. QED
  BY <1>1, WorkerInvHolds, PTL

\* A call that waits for a worker that runs is in its queue, under its hands or
\* answered, and a result has every chunk (NoCallIsForgotten; the maps of
\* file-encryption-worker.ts), for any number of calls, chunks and errors.
THEOREM NoCallIsForgottenHolds == WorkerSpec => []NoCallIsForgotten
<1>1. WorkerInv => NoCallIsForgotten
  BY DEF WorkerInv, CallsOK, CallOK, NobodyForgotten, NoCallIsForgotten, WorkedOn,
         WaitsForWorker, ToSet
<1>2. QED
  BY <1>1, WorkerInvHolds, PTL
=============================================================================
