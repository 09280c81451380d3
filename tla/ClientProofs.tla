------------------------------ MODULE ClientProofs ------------------------------
(***************************************************************************)
(* Proofs about the small parts of the client, each for itself: the check of  *)
(* a fingerprint, the composer, the identity keys, the connection, the         *)
(* recorders, the sequence manager and the page with its tokens.  Every part   *)
(* has an inductive invariant of its own, which says of each of its helpers'   *)
(* results what the next step relies on.                                      *)
(***************************************************************************)
EXTENDS FingerprintCheck, Composer, IdentityKeys, WebSocketClient,
        VideoRecording, VoiceRecording, SequenceManager, AppSession,
        FiniteSetTheorems, TLAPS

-----------------------------------------------------------------------------
(* The check of a fingerprint.                                             *)

\* A dialog that shows a print has one, and what is verified is in the history.
FingerprintInv ==
    /\ FingerprintTypeOK
    /\ dialogShows = "print" => dialogPrint \in Prints
    /\ verifiedPrint # NoPrint => printHistory[verifiedPrint] # "none"
    /\ EnabledIsVerified

LEMMA NewLoadIsALoad ==
    ASSUME FingerprintTypeOK, NEW n \in Nat, loadsMade + n \in 1 .. MaxLoads,
           NEW by \in {"chat", "dialog"}
    PROVE  NewLoad(n, by) \in Load
BY FingerprintAssumption DEF FingerprintTypeOK, NewLoad, Load

LEMMA ChatKeepsFingerprintInv ==
    ASSUME FingerprintInv,
           ChatLoaded \/ ChatLoadFails \/ OpenFromChat \/ CloseDialog
    PROVE  FingerprintInv'
<1> USE FingerprintAssumption DEF FingerprintInv, FingerprintTypeOK, EnabledIsVerified,
        Prints, NoPrint, storedVars
<1>1. CASE ChatLoaded
  <2>1. PICK load \in loads : ChatLoaded!(load)
    BY <1>1 DEF ChatLoaded
  <2>2. load.print \in Prints /\ loadsMade + 1 \in 1 .. MaxLoads
    BY <2>1 DEF Load
  <2>3. NewLoad(1, "dialog") \in Load
    BY <2>2, NewLoadIsALoad
  <2>4. CASE IsPeerVerified(load.print)
    BY <2>1, <2>2, <2>4 DEF Enable, AcceptedByChat, IsPeerVerified, dialogVars
  <2>5. CASE ~IsPeerVerified(load.print)
    <3>1. /\ loads' \subseteq Load /\ loadsMade' \in 1 .. MaxLoads
          /\ dialogOpen' = TRUE
          /\ UNCHANGED <<dialogShows, dialogPrint, dialogVerified, verifiedHere>>
      <4>1. OpenDialog(loads \ {load}) /\ loadsMade \in 1 .. MaxLoads
        BY <2>1, <2>5
      <4>2. CASE dialogOpen
        BY <4>1, <4>2 DEF OpenDialog, dialogVars
      <4>3. CASE ~dialogOpen
        BY <4>1, <4>3, <2>2, <2>3 DEF OpenDialog
      <4>4. QED
        BY <4>2, <4>3
    <3>2. fingerprintVerified' = FALSE /\ chatBlocked' = TRUE
      BY <2>1, <2>5 DEF Enable, AcceptedByChat, IsPeerVerified
    <3>3. QED
      BY <2>1, <2>2, <3>1, <3>2
  <2>6. QED
    BY <2>4, <2>5
<1>2. CASE ChatLoadFails
  BY <1>2 DEF ChatLoadFails, Enable, dialogVars
<1>3. CASE OpenFromChat
  <2>1. NewLoad(1, "dialog") \in Load
    BY <1>3, NewLoadIsALoad DEF OpenFromChat
  <2>2. QED
    BY <1>3, <2>1 DEF OpenFromChat, OpenDialog, chatCheckVars
<1>4. CASE CloseDialog
  BY <1>4 DEF CloseDialog, NoDialog, Enable, IsPeerVerified
<1>5. QED
  BY <1>1, <1>2, <1>3, <1>4

LEMMA DialogKeepsFingerprintInv ==
    ASSUME FingerprintInv, DialogLoaded \/ DialogLoadFails \/ Verify
    PROVE  FingerprintInv'
<1> USE FingerprintAssumption DEF FingerprintInv, FingerprintTypeOK, EnabledIsVerified,
        Prints, NoPrint
<1>1. CASE DialogLoaded
  <2>1. PICK load \in loads : DialogLoaded!(load)
    BY <1>1 DEF DialogLoaded
  <2>2. load.print \in Prints
    BY <2>1 DEF Load
  <2>3. QED
    BY <2>1, <2>2 DEF IsPeerVerified, storedVars, chatCheckVars
<1>2. CASE DialogLoadFails
  BY <1>2 DEF DialogLoadFails, storedVars, chatCheckVars
<1>3. CASE Verify
  <2>1. dialogPrint \in Prints /\ verifiedPrint' = dialogPrint
    BY <1>3 DEF Verify, OffersToVerify, SaveVerifiedPeer
  <2>2. /\ printHistory' \in [Prints -> {"none", "verified", "changed"}]
        /\ printHistory'[dialogPrint] # "none"
    BY <1>3, <2>1 DEF Verify, SaveVerifiedPeer
  <2>3. QED
    BY <1>3, <2>1, <2>2 DEF Verify, OffersToVerify, Enable
<1>4. QED
  BY <1>1, <1>2, <1>3

LEMMA AroundKeepsFingerprintInv ==
    ASSUME FingerprintInv, TokenChanges \/ PeerChangesKey \/ ReopenChat
    PROVE  FingerprintInv'
<1> USE FingerprintAssumption DEF FingerprintInv, FingerprintTypeOK, EnabledIsVerified,
        Prints, NoPrint, storedVars
<1>1. CASE TokenChanges
  <2>1. NewLoad(1, "chat") \in Load /\ NewLoad(2, "dialog") \in Load
    BY <1>1, NewLoadIsALoad DEF TokenChanges
  <2>2. loads' \subseteq Load /\ loadsMade' \in 1 .. MaxLoads
    BY <1>1, <2>1 DEF TokenChanges
  <2>3. QED
    BY <1>1, <2>2 DEF TokenChanges
<1>2. CASE PeerChangesKey
  BY <1>2 DEF PeerChangesKey, chatCheckVars, dialogVars
<1>3. CASE ReopenChat
  <2>1. NewLoad(1, "chat") \in Load
    BY <1>3, NewLoadIsALoad DEF ReopenChat
  <2>2. QED
    <3>1. loads' \subseteq Load /\ loadsMade' \in 1 .. MaxLoads
      BY <1>3, <2>1 DEF ReopenChat
    <3>2. QED
      BY <1>3, <3>1 DEF ReopenChat, NoDialog
<1>4. QED
  BY <1>1, <1>2, <1>3

\* The invariant of the fingerprint check holds in every state of it.
THEOREM FingerprintInvHolds == FingerprintSpec => []FingerprintInv
<1>1. FingerprintInit => FingerprintInv
  <2> SUFFICES ASSUME FingerprintInit PROVE FingerprintInv
    OBVIOUS
  <2>1. verifiedPrint \in Prints \cup {NoPrint} /\ 1 \in Prints
    BY FingerprintAssumption DEF FingerprintInit, Prints, NoPrint
  <2>2. /\ printHistory \in [Prints -> {"none", "verified", "changed"}]
        /\ verifiedPrint # NoPrint => printHistory[verifiedPrint] # "none"
    BY <2>1 DEF FingerprintInit
  <2>3. loads \subseteq Load /\ loadsMade \in 1 .. MaxLoads
    BY <2>1, FingerprintAssumption DEF FingerprintInit, Load
  <2>4. QED
    BY <2>1, <2>2, <2>3
    DEF FingerprintInit, FingerprintInv, FingerprintTypeOK, EnabledIsVerified
<1>2. FingerprintInv /\ [FingerprintNext]_fingerprintVars => FingerprintInv'
  <2> SUFFICES ASSUME FingerprintInv, [FingerprintNext]_fingerprintVars
               PROVE  FingerprintInv'
    OBVIOUS
  <2>1. CASE UNCHANGED fingerprintVars
    BY <2>1 DEF FingerprintInv, FingerprintTypeOK, EnabledIsVerified, fingerprintVars,
                storedVars, chatCheckVars, dialogVars
  <2>2. QED
    BY <2>1, ChatKeepsFingerprintInv, DialogKeepsFingerprintInv,
       AroundKeepsFingerprintInv DEF FingerprintNext
<1>3. QED
  BY <1>1, <1>2, PTL DEF FingerprintSpec

\* A session is enabled only for a print that was verified by the user and is
\* the one the chat knows or was verified in the open dialog (EnabledIsVerified;
\* ChatWindow.tsx 180-234 and 895-920).
THEOREM EnabledIsVerifiedHolds == FingerprintSpec => []EnabledIsVerified
BY FingerprintInvHolds, PTL DEF FingerprintInv

-----------------------------------------------------------------------------
(* The composer.                                                           *)

\* A notice that was sent last stands because the timer of a render with a link
\* will take it back, or the link was lost; the file dialog is closed while a file
\* is sent.
ComposerInv ==
    /\ ComposerTypeOK
    /\ accessDialog => sendingFile = NoDraft
    /\ lastNotice /\ ~linkLost => linkUp /\ typingTimer = "linked"

\* The drafts and files, the flags, the notices and what they say together, which
\* the provers handle apart.
ComposerNumbers ==
    /\ draft \in 0 .. MaxDrafts /\ sendingDraft \in 0 .. MaxDrafts
    /\ pendingFile \in 0 .. MaxDrafts /\ sendingFile \in 0 .. MaxDrafts
    /\ typed \in 0 .. MaxDrafts

ComposerFlags ==
    /\ linkUp \in BOOLEAN /\ errorShown \in BOOLEAN
    /\ sessionState \in {"active", "peer_disconnected", "error"}
    /\ replying \in BOOLEAN /\ linkLost \in BOOLEAN /\ lastNotice \in BOOLEAN
    /\ typingTimer \in {"off", "linked", "unlinked"}
    /\ peerActivity \in BOOLEAN /\ peerTimer \in BOOLEAN /\ peerActivity = peerTimer
    /\ accessDialog \in BOOLEAN
    /\ lastNotice /\ ~linkLost => linkUp /\ typingTimer = "linked"

ComposerNotices == notices \in [BOOLEAN -> 0 .. MaxNotices]

ComposerFiles ==
    /\ accessDialog => pendingFile # NoDraft
    /\ accessDialog => sendingFile = NoDraft

LEMMA ComposerParts ==
    ComposerInv <=> ComposerNumbers /\ ComposerFlags /\ ComposerNotices /\ ComposerFiles
BY DEF ComposerInv, ComposerTypeOK, ComposerNumbers, ComposerFlags, ComposerNotices,
       ComposerFiles

LEMMA ComposerPartsNext ==
    ComposerNumbers' /\ ComposerFlags' /\ ComposerNotices' /\ ComposerFiles' => ComposerInv'
BY DEF ComposerInv, ComposerTypeOK, ComposerNumbers, ComposerFlags, ComposerNotices,
       ComposerFiles

\* A notice that is submitted, taken or dropped is counted.
LEMMA SubmittedIsCounted ==
    ASSUME ComposerNotices, NEW active \in BOOLEAN, Submitted(active)
    PROVE  ComposerNotices'
<1>1. notices[active] \in 0 .. MaxNotices
  BY DEF ComposerNotices
<1>2. CASE UNCHANGED notices
  BY <1>2 DEF ComposerNotices
<1>3. CASE /\ notices[active] < MaxNotices
           /\ notices' = [notices EXCEPT ![active] = @ + 1]
  <2>1. notices[active] + 1 \in 0 .. MaxNotices
    BY <1>1, <1>3, ComposerAssumption
  <2>2. QED
    BY <1>3, <2>1 DEF ComposerNotices
<1>4. QED
  BY <1>2, <1>3 DEF Submitted

LEMMA NoticeGoesIsCounted ==
    ASSUME ComposerNotices, NEW active \in BOOLEAN, notices[active] > 0,
           notices' = [notices EXCEPT ![active] = @ - 1]
    PROVE  ComposerNotices'
<1>1. notices[active] - 1 \in 0 .. MaxNotices
  BY ComposerAssumption DEF ComposerNotices
<1>2. QED
  BY <1>1 DEF ComposerNotices

\* What sendTyping does to the notices, for a render with a link and without.
LEMMA SendTypingKeepsNotices ==
    ASSUME ComposerNotices, NEW active \in BOOLEAN, SendTyping(active)
    PROVE  /\ ComposerNotices'
           /\ linkUp => lastNotice' = active /\ linkLost' = FALSE
           /\ ~linkUp => UNCHANGED <<lastNotice, linkLost>>
<1>1. CASE linkUp
  BY <1>1, SubmittedIsCounted DEF SendTyping
<1>2. CASE ~linkUp
  BY <1>2 DEF SendTyping, noticeVars, ComposerNotices
<1>3. QED
  BY <1>1, <1>2

LEMMA TypingKeepsComposerInv ==
    ASSUME ComposerInv,
           TypeText \/ TypingTimerFires \/ Blur \/ HandleSend
    PROVE  ComposerInv'
<1> USE ComposerParts, ComposerPartsNext
<1>0. ComposerNumbers /\ ComposerFlags /\ ComposerNotices /\ ComposerFiles
  OBVIOUS
<1>1. CASE TypeText
  <2>1. PICK text \in {NoDraft, typed + 1} : TypeText!(text)
    BY <1>1 DEF TypeText
  <2>2. UNCHANGED <<linkUp, errorShown, sessionState, replying, accessDialog,
                    sendingDraft, pendingFile, sendingFile, peerActivity, peerTimer>>
    BY <2>1 DEF statusVars, fileDialogVars, peerVars
  <2>3. ComposerNumbers'
    BY <1>0, <2>1, <2>2, ComposerAssumption DEF ComposerNumbers, NoDraft
  <2>4. ComposerFiles'
    BY <1>0, <2>2 DEF ComposerFiles
  <2>5. PICK active \in BOOLEAN : active = (text # NoDraft)
    OBVIOUS
  <2>6. SendTyping(active)
    BY <2>1, <2>5
  <2>7. /\ ComposerNotices'
        /\ linkUp => lastNotice' = active /\ linkLost' = FALSE
        /\ ~linkUp => UNCHANGED <<lastNotice, linkLost>>
    BY <1>0, <2>6, SendTypingKeepsNotices
  <2>8. ComposerFlags'
    <3>1. CASE linkUp /\ active
      <4>1. typingTimer' = "linked" /\ lastNotice' = TRUE /\ linkLost' = FALSE
        BY <2>1, <2>5, <2>7, <3>1
      <4>2. QED
        BY <1>0, <2>2, <3>1, <4>1 DEF ComposerFlags
    <3>2. CASE linkUp /\ ~active
      <4>1. typingTimer' = "off" /\ lastNotice' = FALSE /\ linkLost' = FALSE
        BY <2>1, <2>5, <2>7, <3>2
      <4>2. QED
        BY <1>0, <2>2, <4>1 DEF ComposerFlags
    <3>3. CASE ~linkUp
      <4>1. typingTimer' \in {"off", "unlinked"} /\ UNCHANGED <<lastNotice, linkLost>>
        BY <2>1, <2>7, <3>3
      <4>2. QED
        BY <1>0, <2>2, <3>3, <4>1 DEF ComposerFlags
    <3>4. QED
      BY <3>1, <3>2, <3>3
  <2>9. QED
    BY <2>3, <2>4, <2>7, <2>8
<1>2. ASSUME SendTyping(FALSE), typingTimer' = "off",
             UNCHANGED <<linkUp, accessDialog, pendingFile, sendingFile, typed, peerVars>>,
             draft' \in {NoDraft, draft}, sendingDraft' \in {NoDraft, draft, sendingDraft},
             replying' \in {FALSE, replying},
             errorShown' \in {TRUE, errorShown}, sessionState' \in {"error", sessionState}
      PROVE  ComposerInv'
  <2>1. /\ ComposerNotices'
        /\ linkUp => lastNotice' = FALSE /\ linkLost' = FALSE
        /\ ~linkUp => UNCHANGED <<lastNotice, linkLost>>
    BY <1>0, <1>2, SendTypingKeepsNotices
  <2>2. ComposerNumbers'
    BY <1>0, <1>2, ComposerAssumption DEF ComposerNumbers, NoDraft
  <2>3. ComposerFlags'
    <3>1. /\ errorShown' \in BOOLEAN /\ replying' \in BOOLEAN
          /\ sessionState' \in {"active", "peer_disconnected", "error"}
      BY <1>0, <1>2 DEF ComposerFlags
    <3>2. lastNotice' \in BOOLEAN /\ linkLost' \in BOOLEAN
      BY <1>0, <2>1 DEF ComposerFlags
    <3>3. lastNotice' => linkLost'
      <4>1. CASE linkUp
        BY <2>1, <4>1
      <4>2. CASE ~linkUp
        <5>1. lastNotice => linkLost
          BY <1>0, <4>2, Zenon DEF ComposerFlags
        <5>2. lastNotice' = lastNotice /\ linkLost' = linkLost
          BY <2>1, <4>2
        <5>3. QED
          BY <5>1, <5>2
      <4>3. QED
        BY <4>1, <4>2
    <3>4. UNCHANGED <<linkUp, accessDialog, peerActivity, peerTimer>>
          /\ typingTimer' = "off"
      BY <1>2 DEF peerVars
    <3>5. QED
      BY <1>0, <3>1, <3>2, <3>3, <3>4 DEF ComposerFlags
  <2>4. ComposerFiles'
    BY <1>0, <1>2 DEF ComposerFiles
  <2>5. QED
    BY <2>1, <2>2, <2>3, <2>4
<1>3. CASE TypingTimerFires
  <2>1. CASE typingTimer = "linked"
    <3>1. SendTyping(FALSE) /\ typingTimer' = "off"
          /\ UNCHANGED <<linkUp, composeVars, peerVars, fileDialogVars, typed>>
      BY <1>3, <2>1 DEF TypingTimerFires
    <3>2. errorShown' \in {TRUE, errorShown} /\ sessionState' \in {"error", sessionState}
      BY <1>3, <2>1 DEF TypingTimerFires, Sends, statusVars
    <3>3. QED
      BY <1>2, <3>1, <3>2 DEF composeVars, fileDialogVars
  <2>2. CASE typingTimer # "linked"
    BY <1>0, <1>3, <2>2
    DEF TypingTimerFires, statusVars, noticeVars, composeVars, peerVars, fileDialogVars,
        ComposerNumbers, ComposerFlags, ComposerNotices, ComposerFiles
  <2>3. QED
    BY <2>1, <2>2
<1>4. CASE Blur
  BY <1>2, <1>4 DEF Blur, TakeBackTyping, statusVars, composeVars, fileDialogVars
<1>5. CASE HandleSend
  BY <1>2, <1>5
  DEF HandleSend, TakeBackTyping, ClearDraft, statusVars, fileDialogVars
<1>6. QED
  BY <1>1, <1>3, <1>4, <1>5

LEMMA WritingKeepsComposerInv ==
    ASSUME ComposerInv,
           ChooseReply \/ NoticeArrives \/ NoticeIsDropped \/ PeerTimerFires
           \/ MessageSent \/ MessageFails
    PROVE  ComposerInv'
<1> USE ComposerParts, ComposerPartsNext
    DEF statusVars, composeVars, typingVars, noticeVars, peerVars, fileDialogVars,
        ComposerNumbers, ComposerFiles
<1>0. ComposerNumbers /\ ComposerFlags /\ ComposerNotices /\ ComposerFiles
  OBVIOUS
<1>1. CASE ChooseReply
  BY <1>0, <1>1 DEF ChooseReply, ComposerFlags, ComposerNotices
<1>2. CASE NoticeArrives \/ NoticeIsDropped
  <2>1. PICK active \in BOOLEAN :
            /\ notices[active] > 0 /\ notices' = [notices EXCEPT ![active] = @ - 1]
            /\ UNCHANGED <<linkUp, statusVars, composeVars, typingTimer, lastNotice,
                           linkLost, fileDialogVars, typed>>
            /\ (peerActivity' = active /\ peerTimer' = active) \/ UNCHANGED peerVars
    BY <1>2 DEF NoticeArrives, NoticeIsDropped
  <2>2. ComposerNotices'
    BY <1>0, <2>1, NoticeGoesIsCounted
  <2>3. ComposerFlags'
    BY <1>0, <2>1 DEF ComposerFlags
  <2>4. QED
    BY <1>0, <2>1, <2>2, <2>3
<1>3. CASE PeerTimerFires
  BY <1>0, <1>3 DEF PeerTimerFires, ComposerFlags, ComposerNotices
<1>4. CASE MessageSent
  <2>1. ComposerFlags'
    BY <1>0, <1>4 DEF MessageSent, Sends, ClearDraft, ComposerFlags
  <2>2. QED
    BY <1>0, <1>4, <2>1, ComposerAssumption
    DEF MessageSent, ClearDraft, ComposerNotices, NoDraft
<1>5. CASE MessageFails
  <2>1. ComposerFlags'
    BY <1>0, <1>5 DEF MessageFails, ClearDraft, ComposerFlags
  <2>2. QED
    BY <1>0, <1>5, <2>1, ComposerAssumption
    DEF MessageFails, ClearDraft, ComposerNotices, NoDraft
<1>6. QED
  BY <1>1, <1>2, <1>3, <1>4, <1>5

LEMMA FilesKeepComposerInv ==
    ASSUME ComposerInv,
           ChooseFile \/ CancelFile \/ SelectMode \/ FileSent \/ LinkChanges
           \/ SessionChanges
    PROVE  ComposerInv'
<1> USE ComposerParts, ComposerPartsNext, ComposerAssumption
    DEF NoDraft, statusVars, composeVars, typingVars, noticeVars, peerVars,
        fileDialogVars
<1>0. ComposerNumbers /\ ComposerFlags /\ ComposerNotices /\ ComposerFiles
  OBVIOUS
<1>1. ComposerNumbers'
  BY <1>0 DEF ChooseFile, CancelFile, SelectMode, FileSent, LinkChanges, SessionChanges,
              ComposerNumbers
<1>2. ComposerFlags'
  <2>1. CASE ChooseFile \/ CancelFile \/ SelectMode
    <3>1. /\ accessDialog' \in BOOLEAN
          /\ errorShown' = TRUE \/ errorShown' = errorShown
          /\ UNCHANGED <<linkUp, sessionState, replying, linkLost, lastNotice,
                         typingTimer, peerActivity, peerTimer>>
      BY <2>1 DEF ChooseFile, CancelFile, SelectMode
    <3>2. QED
      BY <1>0, <3>1 DEF ComposerFlags
  <2>2. CASE FileSent
    <3>1. /\ errorShown' = TRUE \/ errorShown' = errorShown
          /\ sessionState' = "error" \/ sessionState' = sessionState
          /\ UNCHANGED <<linkUp, accessDialog, replying, linkLost, lastNotice,
                         typingTimer, peerActivity, peerTimer>>
      BY <2>2 DEF FileSent, Sends
    <3>2. QED
      BY <1>0, <3>1 DEF ComposerFlags
  <2>3. CASE LinkChanges
    <3>1. /\ linkUp' \in BOOLEAN /\ linkLost' \in BOOLEAN
          /\ UNCHANGED <<errorShown, sessionState, accessDialog, replying, lastNotice,
                         typingTimer, peerActivity, peerTimer>>
      BY <1>0, <2>3 DEF LinkChanges, ComposerFlags
    <3>2. CASE linkUp
      <4>1. linkLost'
        BY <2>3, <3>2 DEF LinkChanges
      <4>2. QED
        BY <1>0, <3>1, <4>1 DEF ComposerFlags
    <3>3. CASE ~linkUp
      <4>1. linkLost' = linkLost
        BY <1>0, <2>3, <3>3 DEF LinkChanges, ComposerFlags
      <4>2. lastNotice => linkLost
        BY <1>0, <3>3, Zenon DEF ComposerFlags
      <4>3. lastNotice' => linkLost'
        BY <3>1, <4>1, <4>2
      <4>4. QED
        BY <1>0, <3>1, <4>3 DEF ComposerFlags
    <3>4. QED
      BY <3>2, <3>3
  <2>4. CASE SessionChanges
    <3>1. /\ errorShown' = FALSE \/ errorShown' = errorShown
          /\ sessionState' = "active" \/ sessionState' = "peer_disconnected"
          /\ UNCHANGED <<linkUp, accessDialog, replying, linkLost, lastNotice,
                         typingTimer, peerActivity, peerTimer>>
      BY <2>4 DEF SessionChanges
    <3>2. QED
      BY <1>0, <3>1 DEF ComposerFlags
  <2>5. QED
    BY <2>1, <2>2, <2>3, <2>4
<1>3. ComposerNotices'
  BY <1>0 DEF ChooseFile, CancelFile, SelectMode, FileSent, LinkChanges, SessionChanges,
              ComposerNotices
<1>4. ComposerFiles'
  BY <1>0 DEF ChooseFile, CancelFile, SelectMode, FileSent, LinkChanges, SessionChanges,
              ComposerFiles, ComposerNumbers
<1>5. QED
  BY <1>1, <1>2, <1>3, <1>4

\* The invariant of the composer holds in every state of it.
THEOREM ComposerInvHolds == ComposerSpec => []ComposerInv
<1>1. ComposerInit => ComposerInv
  <2> SUFFICES ASSUME ComposerInit PROVE ComposerInv
    OBVIOUS
  <2>1. ComposerNumbers
    BY ComposerAssumption DEF ComposerInit, ComposerNumbers, NoDraft
  <2>2. ComposerFlags
    BY DEF ComposerInit, ComposerFlags
  <2>3. ComposerNotices
    BY ComposerAssumption DEF ComposerInit, ComposerNotices
  <2>4. ComposerFiles
    BY DEF ComposerInit, ComposerFiles
  <2>5. QED
    BY <2>1, <2>2, <2>3, <2>4, ComposerParts
<1>2. ComposerInv /\ [ComposerNext]_composerVars => ComposerInv'
  <2> SUFFICES ASSUME ComposerInv, [ComposerNext]_composerVars
               PROVE  ComposerInv'
    OBVIOUS
  <2>1. CASE UNCHANGED composerVars
    BY <2>1 DEF ComposerInv, ComposerTypeOK, composerVars, statusVars, composeVars,
                typingVars, noticeVars, peerVars, fileDialogVars
  <2>2. QED
    BY <2>1, TypingKeepsComposerInv, WritingKeepsComposerInv, FilesKeepComposerInv
    DEF ComposerNext
<1>3. QED
  BY <1>1, <1>2, PTL DEF ComposerSpec

\* The last typing notice that was sent takes typing back, or the timer of a render
\* with a link will send one that does, or the link was lost (TypingIsTakenBack;
\* ChatWindow.tsx 236-377).
THEOREM TypingIsTakenBackHolds == ComposerSpec => []TypingIsTakenBack
<1>1. ComposerInv => TypingIsTakenBack
  BY DEF ComposerInv, ComposerTypeOK, TypingIsTakenBack
<1>2. QED
  BY <1>1, ComposerInvHolds, PTL

-----------------------------------------------------------------------------
(* The identity keys.                                                      *)

OnlyRegistered(u) == \A v \in Accounts : Registered(v) => v = u

\* The key that is in the database, is not about to be cleared and may be
\* logged in with: whose it is at every step of the form.
FoundKeyIsOwned ==
    (/\ indexedDBWorks /\ ~clearing /\ mishaps = {}
     /\ loggedIn = Nobody /\ keyStore # NoKeyPair)
    => /\ form.step = "idle" =>
             \E u \in Accounts : publicKeys[u] = keyStore /\ OnlyRegistered(u)
       /\ form.step = "login" => publicKeys[form.user] = keyStore
       /\ form.step = "register" =>
             form.key = keyStore /\ \A v \in Accounts : ~Registered(v)

\* The form is at a step of a user who is not logged in, with the key it made.
FormOK ==
    /\ form.step = "idle" => form = Idle
    /\ form.step # "idle" => form.user \in Accounts /\ loggedIn = Nobody
    /\ form.step \in {"register", "update"} => form.key \in 1 .. keysMade

\* One of the two places is used; an update has its key there, or it was cleared.
StoreOK ==
    /\ indexedDBWorks => localCopy = NoKeyPair
    /\ ~indexedDBWorks => keyStore = NoKeyPair
    /\ form.step = "update" => StoredKey \in {NoKeyPair, form.key}

IdentityInv == IdentityTypeOK /\ FormOK /\ StoreOK /\ FoundKeyIsOwned /\ KeysAgree

LEMMA WhereTheKeyIs ==
    /\ StoreOK => StoredKey = IF indexedDBWorks THEN keyStore ELSE localCopy
    /\ StoreOK' => StoredKey' = IF indexedDBWorks' THEN keyStore' ELSE localCopy'
BY DEF StoreOK, StoredKey, LoadedKey, NoKeyPair

\* What a step does that leaves the storage alone.
LEMMA SameStore ==
    ASSUME StoreOK, UNCHANGED <<indexedDBWorks, keyStore, localCopy>>,
           form'.step = "update" => form' = form
    PROVE  StoreOK' /\ StoredKey' = StoredKey
BY DEF StoreOK, StoredKey, LoadedKey

\* A key that was just made and saved.
LEMMA SavedKeyIsStored ==
    ASSUME IdentityTypeOK, StoreOK, NEW k \in Nat \ {0}, Save(k), UNCHANGED indexedDBWorks
    PROVE  /\ indexedDBWorks => keyStore' = k /\ localCopy' = NoKeyPair
           /\ ~indexedDBWorks => keyStore' = NoKeyPair /\ localCopy' = k
           /\ StoredKey' = k /\ clearing' = clearing
BY DEF StoreOK, Save, SaveKey, StoredKey, LoadedKey, NoKeyPair, IdentityTypeOK

LEMMA NewKeyIsNew ==
    ASSUME IdentityTypeOK, NewKeyPair
    PROVE  /\ keysMade \in Nat /\ keysMade' = keysMade + 1
           /\ keysMade' \in KeyPairs /\ keysMade' \in Nat \ {0}
<1>1. keysMade \in KeyPairs
  BY DEF IdentityTypeOK
<1>2. QED
  BY <1>1, IdentityAssumption DEF NewKeyPair, KeyPairs

LEMMA RegisterKeepsIdentityInv ==
    ASSUME IdentityInv, StartRegister
    PROVE  IdentityInv'
<1>1. PICK u \in Accounts : StartRegister!(u)
  BY DEF StartRegister
<1>2. /\ keysMade \in Nat /\ keysMade' = keysMade + 1 /\ keysMade' \in KeyPairs
      /\ keysMade' \in Nat \ {0}
  BY <1>1, NewKeyIsNew DEF IdentityInv
<1> DEFINE k == keysMade'
<1>3. /\ indexedDBWorks => keyStore' = k /\ localCopy' = NoKeyPair
      /\ ~indexedDBWorks => keyStore' = NoKeyPair /\ localCopy' = k
      /\ StoredKey' = k /\ clearing' = clearing
  <2>1. Save(k) /\ UNCHANGED indexedDBWorks
    BY <1>1, <1>2
  <2>2. QED
    BY <2>1, <1>2, SavedKeyIsStored DEF IdentityInv
<1>4. form' = [step |-> "register", user |-> u, key |-> k]
  BY <1>1, <1>2
<1>5. UNCHANGED <<indexedDBWorks, loggedIn, publicKeys>> /\ loggedIn = Nobody
  BY <1>1
<1>6. mishaps' \subseteq Mishaps /\ (mishaps' = {} => \A v \in Accounts : ~Registered(v))
  BY <1>1 DEF IdentityInv, IdentityTypeOK, Mishaps
<1>7. form' \in Form
  BY <1>2, <1>4 DEF Form
<1>8. keyStore' \in 0 .. k /\ localCopy' \in 0 .. k
  BY <1>2, <1>3, <1>5 DEF NoKeyPair, IdentityInv, IdentityTypeOK
<1>9. publicKeys' \in [Accounts -> 0 .. k]
  BY <1>2, <1>5 DEF IdentityInv, IdentityTypeOK
<1>10. IdentityTypeOK'
  BY <1>2, <1>3, <1>5, <1>6, <1>7, <1>8, <1>9 DEF IdentityInv, IdentityTypeOK
<1>11. FormOK'
  BY <1>2, <1>4, <1>5 DEF FormOK
<1>12. StoreOK'
  BY <1>3, <1>4, <1>5 DEF StoreOK
<1>13. FoundKeyIsOwned'
  BY <1>3, <1>4, <1>5, <1>6 DEF FoundKeyIsOwned, Registered
<1>14. KeysAgree'
  BY <1>5 DEF KeysAgree
<1>15. QED
  BY <1>10, <1>11, <1>12, <1>13, <1>14 DEF IdentityInv

LEMMA RegisterAnsweredKeepsIdentityInv ==
    ASSUME IdentityInv, RegisterAnswered
    PROVE  IdentityInv'
<1>1. /\ form.user \in Accounts /\ form.key \in 1 .. keysMade /\ loggedIn = Nobody
      /\ form' = Idle /\ form.step = "register"
      /\ UNCHANGED <<indexedDBWorks, keyStore, localCopy, clearing, loggedIn, keysMade>>
  BY DEF IdentityInv, FormOK, RegisterAnswered, browser
<1>2. keysMade \in KeyPairs /\ publicKeys \in [Accounts -> 0 .. keysMade]
  BY DEF IdentityInv, IdentityTypeOK
<1>3. form.key \in 0 .. keysMade /\ form.key # 0
  BY <1>1, <1>2, IdentityAssumption DEF KeyPairs
<1>4. publicKeys' \in [Accounts -> 0 .. keysMade]
  BY <1>1, <1>2, <1>3 DEF RegisterAnswered
<1>5. mishaps' \subseteq Mishaps
  BY DEF RegisterAnswered, Mishaps, IdentityInv, IdentityTypeOK
<1>6. Idle \in Form
  BY IdentityAssumption DEF Idle, Form, KeyPairs, NoKeyPair
<1>7. IdentityTypeOK'
  BY <1>1, <1>4, <1>5, <1>6 DEF IdentityInv, IdentityTypeOK
<1>8. FormOK' /\ StoreOK' /\ KeysAgree'
  BY <1>1, SameStore DEF FormOK, Idle, KeysAgree, IdentityInv
<1>9. FoundKeyIsOwned'
  <2> SUFFICES ASSUME indexedDBWorks, ~clearing, mishaps' = {}, keyStore # NoKeyPair
               PROVE  \E u \in Accounts : publicKeys'[u] = keyStore /\ OnlyRegistered(u)'
    BY <1>1 DEF FoundKeyIsOwned, Idle
  <2>1. mishaps = {} /\ publicKeys' = [publicKeys EXCEPT ![form.user] = form.key]
    BY DEF RegisterAnswered
  <2>2. form.key = keyStore /\ \A v \in Accounts : ~Registered(v)
    BY <1>1, <2>1 DEF IdentityInv, FoundKeyIsOwned
  <2>3. PICK u \in Accounts : u = form.user
    BY <1>1
  <2>4. publicKeys'[u] = keyStore
    BY <1>2, <2>1, <2>2, <2>3
  <2>5. OnlyRegistered(u)'
    BY <1>2, <2>1, <2>2, <2>3 DEF OnlyRegistered, Registered
  <2>6. QED
    BY <2>4, <2>5
<1>10. QED
  BY <1>7, <1>8, <1>9 DEF IdentityInv

LEMMA StartLoginKeepsIdentityInv ==
    ASSUME IdentityInv, StartLogin
    PROVE  IdentityInv'
<1>1. PICK u \in Accounts : StartLogin!(u)
  BY DEF StartLogin
<1>2. /\ form = Idle /\ loggedIn = Nobody /\ Registered(u)
      /\ form' = [step |-> "login", user |-> u, key |-> NoKeyPair]
      /\ UNCHANGED <<indexedDBWorks, keyStore, localCopy, clearing, loggedIn,
                     publicKeys, keysMade, mishaps>>
  BY <1>1 DEF browser
<1>3. form' \in Form
  BY <1>2, IdentityAssumption DEF Form, KeyPairs, NoKeyPair
<1>4. IdentityTypeOK'
  BY <1>2, <1>3 DEF IdentityInv, IdentityTypeOK
<1>5. FormOK' /\ StoreOK' /\ KeysAgree'
  BY <1>2, SameStore DEF FormOK, KeysAgree, IdentityInv
<1>6. FoundKeyIsOwned'
  <2> SUFFICES ASSUME indexedDBWorks, ~clearing, mishaps = {}, keyStore # NoKeyPair
               PROVE  publicKeys[u] = keyStore
    BY <1>2 DEF FoundKeyIsOwned
  <2>1. PICK v \in Accounts : publicKeys[v] = keyStore /\ OnlyRegistered(v)
    BY <1>2 DEF FoundKeyIsOwned, IdentityInv, Idle
  <2>2. QED
    BY <1>2, <2>1 DEF OnlyRegistered
<1>7. QED
  BY <1>4, <1>5, <1>6 DEF IdentityInv

LEMMA LoginWithKeyKeepsIdentityInv ==
    ASSUME IdentityInv, LoginWithKey
    PROVE  IdentityInv'
<1>1. /\ form.user \in Accounts /\ loggedIn = Nobody /\ form' = Idle
      /\ form.step = "login" /\ loggedIn' = form.user /\ StoredKey # NoKeyPair
      /\ UNCHANGED <<indexedDBWorks, keyStore, localCopy, clearing, publicKeys, keysMade>>
  BY DEF IdentityInv, FormOK, LoginWithKey, browser
<1>2. Idle \in Form /\ Idle.step = "idle"
  BY IdentityAssumption DEF Idle, Form, KeyPairs, NoKeyPair
<1>3. mishaps' \subseteq Mishaps
  BY DEF LoginWithKey, Mishaps, IdentityInv, IdentityTypeOK
<1>4. mishaps' = {} => mishaps = {} /\ ~clearing /\ localCopy # StoredKey
  BY DEF LoginWithKey
<1>5. IdentityTypeOK'
  BY <1>1, <1>2, <1>3 DEF IdentityInv, IdentityTypeOK
<1>6. FormOK' /\ StoreOK' /\ StoredKey' = StoredKey
  BY <1>1, <1>2, SameStore DEF FormOK, IdentityInv
<1>7. FoundKeyIsOwned'
  BY <1>1, IdentityAssumption DEF FoundKeyIsOwned
<1>8. KeysAgree'
  <2> SUFFICES ASSUME mishaps' = {} PROVE StoredKey = publicKeys[form.user]
    BY <1>1, <1>6 DEF KeysAgree
  <2>1. indexedDBWorks /\ StoredKey = keyStore
    BY <1>4, WhereTheKeyIs DEF IdentityInv
  <2>2. QED
    BY <1>1, <1>4, <2>1 DEF IdentityInv, FoundKeyIsOwned
<1>9. QED
  BY <1>5, <1>6, <1>7, <1>8 DEF IdentityInv

LEMMA LoginWithoutKeyKeepsIdentityInv ==
    ASSUME IdentityInv, LoginWithoutKey
    PROVE  IdentityInv'
<1>1. /\ keysMade \in Nat /\ keysMade' = keysMade + 1
      /\ keysMade' \in KeyPairs /\ keysMade' \in Nat \ {0}
  BY NewKeyIsNew DEF IdentityInv, LoginWithoutKey
<1> DEFINE k == keysMade'
<1>2. /\ indexedDBWorks => keyStore' = k /\ localCopy' = NoKeyPair
      /\ ~indexedDBWorks => keyStore' = NoKeyPair /\ localCopy' = k
      /\ StoredKey' = k /\ clearing' = clearing
  <2>1. Save(k) /\ UNCHANGED indexedDBWorks
    BY <1>1 DEF LoginWithoutKey
  <2>2. QED
    BY <2>1, <1>1, SavedKeyIsStored DEF IdentityInv
<1>3. UNCHANGED <<indexedDBWorks, loggedIn, publicKeys, mishaps>>
  BY DEF LoginWithoutKey
<1>4. /\ form \in Form /\ form.user \in Accounts /\ loggedIn = Nobody
      /\ form' = [form EXCEPT !.step = "update", !.key = k]
  BY <1>1 DEF IdentityInv, IdentityTypeOK, FormOK, LoginWithoutKey
<1>5. /\ form' \in Form /\ form'.step = "update" /\ form'.user = form.user
      /\ form'.key = k
  BY <1>1, <1>4 DEF Form
<1>6. keyStore' \in 0 .. k /\ localCopy' \in 0 .. k
  BY <1>1, <1>2, <1>3 DEF NoKeyPair, IdentityInv, IdentityTypeOK
<1>7. publicKeys' \in [Accounts -> 0 .. k]
  BY <1>1, <1>3 DEF IdentityInv, IdentityTypeOK
<1>8. IdentityTypeOK'
  BY <1>1, <1>2, <1>3, <1>5, <1>6, <1>7 DEF IdentityInv, IdentityTypeOK
<1>9. FormOK'
  BY <1>1, <1>3, <1>4, <1>5 DEF FormOK
<1>10. StoreOK'
  BY <1>2, <1>3, <1>5 DEF StoreOK
<1>11. FoundKeyIsOwned' /\ KeysAgree'
  BY <1>3, <1>4, <1>5 DEF FoundKeyIsOwned, KeysAgree
<1>12. QED
  BY <1>8, <1>9, <1>10, <1>11 DEF IdentityInv

LEMMA UpdateKeepsIdentityInv ==
    ASSUME IdentityInv, UpdatePublicKey \/ UpdateFails
    PROVE  IdentityInv'
<1>1. /\ form.user \in Accounts /\ form.key \in 1 .. keysMade /\ loggedIn = Nobody
      /\ form' = Idle /\ form.step = "update"
      /\ UNCHANGED <<indexedDBWorks, keyStore, localCopy, clearing, keysMade>>
  BY DEF IdentityInv, FormOK, UpdatePublicKey, UpdateFails, browser
<1>2. keysMade \in KeyPairs /\ publicKeys \in [Accounts -> 0 .. keysMade]
  BY DEF IdentityInv, IdentityTypeOK
<1>3. form.key \in 0 .. keysMade
  BY <1>1, <1>2, IdentityAssumption DEF KeyPairs
<1>4. /\ publicKeys' \in [Accounts -> 0 .. keysMade]
      /\ UpdatePublicKey => publicKeys'[form.user] = form.key
  BY <1>1, <1>2, <1>3 DEF UpdatePublicKey, UpdateFails
<1>5. Idle \in Form /\ Idle.step = "idle"
  BY IdentityAssumption DEF Idle, Form, KeyPairs, NoKeyPair
<1>6. /\ loggedIn' \in Accounts \cup {Nobody}
      /\ UpdatePublicKey => loggedIn' = form.user /\ mishaps' = mishaps
      /\ UpdateFails => loggedIn' = Nobody /\ mishaps' # {}
  BY <1>1 DEF UpdatePublicKey, UpdateFails
<1>7. mishaps' \subseteq Mishaps
  BY DEF UpdatePublicKey, UpdateFails, Mishaps, IdentityInv, IdentityTypeOK
<1>8. IdentityTypeOK'
  BY <1>1, <1>4, <1>5, <1>6, <1>7 DEF IdentityInv, IdentityTypeOK
<1>9. FormOK' /\ StoreOK' /\ StoredKey' = StoredKey
  BY <1>1, <1>5, SameStore DEF FormOK, IdentityInv
<1>10. FoundKeyIsOwned'
  BY <1>1, <1>6, IdentityAssumption DEF FoundKeyIsOwned
<1>11. KeysAgree'
  <2>1. StoredKey \in {NoKeyPair, form.key}
    BY <1>1 DEF IdentityInv, StoreOK
  <2>2. QED
    BY <1>4, <1>6, <1>9, <2>1 DEF KeysAgree
<1>12. QED
  BY <1>8, <1>9, <1>10, <1>11 DEF IdentityInv

LEMMA SessionEndsKeepsIdentityInv ==
    ASSUME IdentityInv, SessionEnds
    PROVE  IdentityInv'
<1>1. /\ loggedIn' = Nobody /\ clearing' = TRUE
      /\ UNCHANGED <<indexedDBWorks, keyStore, localCopy, form, publicKeys, keysMade,
                     mishaps>>
  BY DEF SessionEnds
<1>2. IdentityTypeOK'
  BY <1>1 DEF IdentityInv, IdentityTypeOK
<1>3. FormOK' /\ StoreOK' /\ FoundKeyIsOwned' /\ KeysAgree'
  BY <1>1, SameStore DEF IdentityInv, FormOK, FoundKeyIsOwned, KeysAgree
<1>4. QED
  BY <1>2, <1>3 DEF IdentityInv

LEMMA ClearedStore ==
    ASSUME IdentityTypeOK, StoreOK, ClearStore \/ UNCHANGED keyStore,
           UNCHANGED <<indexedDBWorks, localCopy>>,
           form'.step = "update" => form' = form
    PROVE  /\ keyStore' \in {keyStore, NoKeyPair}
           /\ StoredKey' \in {StoredKey, NoKeyPair} /\ StoreOK'
           /\ ClearStore /\ indexedDBWorks => keyStore' = NoKeyPair
BY DEF StoreOK, StoredKey, LoadedKey, ClearStore, NoKeyPair, IdentityTypeOK

LEMMA ClearKeepsIdentityInv ==
    ASSUME IdentityInv, ClearAllKeys
    PROVE  IdentityInv'
<1>1. /\ clearing' = FALSE /\ ClearStore
      /\ UNCHANGED <<indexedDBWorks, localCopy, loggedIn, form, publicKeys, keysMade>>
      /\ mishaps' = IF localCopy = NoKeyPair THEN {} ELSE mishaps
  BY DEF ClearAllKeys
<1>2. /\ keyStore' \in {keyStore, NoKeyPair} /\ StoreOK'
      /\ StoredKey' \in {StoredKey, NoKeyPair}
      /\ indexedDBWorks => keyStore' = NoKeyPair
  BY <1>1, ClearedStore DEF IdentityInv
<1>3. 0 \in 0 .. keysMade
  BY IdentityAssumption DEF IdentityInv, IdentityTypeOK, KeyPairs
<1>4. mishaps' \subseteq Mishaps
  BY <1>1 DEF IdentityInv, IdentityTypeOK
<1>5. keyStore' \in 0 .. keysMade
  BY <1>2, <1>3 DEF NoKeyPair, IdentityInv, IdentityTypeOK
<1>6. IdentityTypeOK'
  BY <1>1, <1>4, <1>5 DEF IdentityInv, IdentityTypeOK
<1>7. FormOK' /\ FoundKeyIsOwned'
  BY <1>1, <1>2 DEF IdentityInv, FormOK, FoundKeyIsOwned
<1>8. KeysAgree'
  <2>1. CASE localCopy = NoKeyPair
    <3>1. StoredKey' = IF indexedDBWorks THEN keyStore' ELSE localCopy
      BY <1>1, <1>2, WhereTheKeyIs
    <3>2. StoredKey' = NoKeyPair
      BY <1>2, <2>1, <3>1
    <3>3. QED
      BY <3>2 DEF KeysAgree
  <2>2. CASE localCopy # NoKeyPair
    BY <1>1, <1>2, <2>2 DEF KeysAgree, IdentityInv
  <2>3. QED
    BY <2>1, <2>2
<1>9. QED
  BY <1>2, <1>6, <1>7, <1>8 DEF IdentityInv

LEMMA ReloadKeepsIdentityInv ==
    ASSUME IdentityInv, Reload
    PROVE  IdentityInv'
<1>1. /\ ClearStore \/ UNCHANGED keyStore
      /\ form' = Idle
      /\ UNCHANGED <<indexedDBWorks, localCopy, publicKeys, keysMade>>
      /\ \/ loggedIn # Nobody /\ UNCHANGED loggedIn /\ clearing' = FALSE
         \/ loggedIn' = Nobody /\ clearing' = TRUE
  BY DEF Reload
<1>2. mishaps' \subseteq Mishaps /\ (mishaps' = {} => mishaps = {})
  BY DEF Reload, Mishaps, IdentityInv, IdentityTypeOK
<1>3. Idle \in Form /\ Idle.step = "idle"
  BY IdentityAssumption DEF Idle, Form, KeyPairs, NoKeyPair
<1>4. /\ keyStore' \in {keyStore, NoKeyPair} /\ StoreOK'
      /\ StoredKey' \in {StoredKey, NoKeyPair}
  BY <1>1, <1>3, ClearedStore DEF IdentityInv
<1>5. 0 \in 0 .. keysMade
  BY IdentityAssumption DEF IdentityInv, IdentityTypeOK, KeyPairs
<1>6. keyStore' \in 0 .. keysMade
  BY <1>4, <1>5 DEF NoKeyPair, IdentityInv, IdentityTypeOK
<1>7. loggedIn' \in Accounts \cup {Nobody} /\ clearing' \in BOOLEAN
  BY <1>1 DEF IdentityInv, IdentityTypeOK
<1>8. IdentityTypeOK'
  BY <1>1, <1>2, <1>3, <1>6, <1>7 DEF IdentityInv, IdentityTypeOK
<1>9. FormOK' /\ FoundKeyIsOwned'
  BY <1>1, <1>3 DEF FormOK, FoundKeyIsOwned
<1>10. KeysAgree'
  BY <1>1, <1>2, <1>4 DEF KeysAgree, IdentityInv
<1>11. QED
  BY <1>4, <1>8, <1>9, <1>10 DEF IdentityInv

LEMMA OtherDeviceKeepsIdentityInv ==
    ASSUME IdentityInv, OtherDevice
    PROVE  IdentityInv'
<1>1. PICK u \in Accounts : OtherDevice!(u)
  BY DEF OtherDevice
<1>2. /\ keysMade \in Nat /\ keysMade' = keysMade + 1
      /\ keysMade' \in KeyPairs /\ keysMade' \in Nat \ {0}
  BY <1>1, NewKeyIsNew DEF IdentityInv
<1>3. /\ publicKeys' = [publicKeys EXCEPT ![u] = keysMade']
      /\ mishaps' = mishaps \cup {"other device"}
      /\ UNCHANGED <<indexedDBWorks, keyStore, localCopy, clearing, loggedIn, form>>
  BY <1>1, <1>2 DEF browser
<1>4. mishaps' \subseteq Mishaps /\ mishaps' # {}
  BY <1>3 DEF Mishaps, IdentityInv, IdentityTypeOK
<1>5. /\ publicKeys' \in [Accounts -> 0 .. keysMade']
      /\ keyStore' \in 0 .. keysMade' /\ localCopy' \in 0 .. keysMade'
  <2>1. \A n \in 0 .. keysMade : n \in 0 .. keysMade'
    BY <1>2
  <2>2. /\ publicKeys \in [Accounts -> 0 .. keysMade]
        /\ keyStore \in 0 .. keysMade /\ localCopy \in 0 .. keysMade
    BY DEF IdentityInv, IdentityTypeOK
  <2>3. keysMade' \in 0 .. keysMade'
    BY <1>2
  <2>4. QED
    BY <1>3, <2>1, <2>2, <2>3
<1>6. IdentityTypeOK'
  BY <1>2, <1>3, <1>4, <1>5 DEF IdentityInv, IdentityTypeOK
<1>7. FormOK'
  <2>1. \A n \in 1 .. keysMade : n \in 1 .. keysMade'
    BY <1>2
  <2>2. QED
    BY <1>3, <2>1 DEF IdentityInv, FormOK
<1>8. StoreOK' /\ FoundKeyIsOwned' /\ KeysAgree'
  BY <1>3, <1>4, SameStore DEF IdentityInv, FoundKeyIsOwned, KeysAgree
<1>9. QED
  BY <1>6, <1>7, <1>8 DEF IdentityInv

\* The invariant of the identity keys holds in every state of them.
THEOREM IdentityInvHolds == IdentitySpec => []IdentityInv
<1>1. IdentityInit => IdentityInv
  <2> SUFFICES ASSUME IdentityInit PROVE IdentityInv
    OBVIOUS
  <2>1. Idle \in Form /\ Idle.step = "idle"
    BY IdentityAssumption DEF Idle, Form, KeyPairs, NoKeyPair
  <2>2. 0 \in KeyPairs /\ 0 \in 0 .. 0
    BY IdentityAssumption DEF KeyPairs
  <2>3. publicKeys \in [Accounts -> 0 .. keysMade]
    BY <2>2 DEF IdentityInit, NoKeyPair
  <2>4. IdentityTypeOK
    BY <2>1, <2>2, <2>3 DEF IdentityInit, IdentityTypeOK, NoKeyPair
  <2>5. FormOK /\ StoreOK /\ FoundKeyIsOwned /\ KeysAgree
    BY <2>1 DEF IdentityInit, FormOK, StoreOK, FoundKeyIsOwned, KeysAgree
  <2>6. QED
    BY <2>4, <2>5 DEF IdentityInv
<1>2. IdentityInv /\ [IdentityNext]_identityVars => IdentityInv'
  <2> SUFFICES ASSUME IdentityInv, [IdentityNext]_identityVars
               PROVE  IdentityInv'
    OBVIOUS
  <2>1. CASE UNCHANGED identityVars
    BY <2>1 DEF IdentityInv, IdentityTypeOK, FormOK, StoreOK, FoundKeyIsOwned, KeysAgree,
                StoredKey, LoadedKey, Registered, OnlyRegistered, identityVars, browser
  <2>2. CASE IdentityNext
    BY <2>2, RegisterKeepsIdentityInv, RegisterAnsweredKeepsIdentityInv,
       StartLoginKeepsIdentityInv, LoginWithKeyKeepsIdentityInv,
       LoginWithoutKeyKeepsIdentityInv, UpdateKeepsIdentityInv,
       SessionEndsKeepsIdentityInv, ClearKeepsIdentityInv, ReloadKeepsIdentityInv,
       OtherDeviceKeepsIdentityInv
    DEF IdentityNext
  <2>3. QED
    BY <2>1, <2>2
<1>3. QED
  BY <1>1, <1>2, PTL DEF IdentitySpec

\* The key a session signs with is the one the server shows for its user,
\* unless one of the mishaps happened (KeysAgree; AuthForm.tsx, identity.ts and
\* the clearing of the storage).
THEOREM KeysAgreeHolds == IdentitySpec => []KeysAgree
BY IdentityInvHolds, PTL DEF IdentityInv

-----------------------------------------------------------------------------
(* The connection.                                                         *)

\* A client that never had its token refreshed works with one socket at a time,
\* waits for it to be closed before it sets the timer, and when it is dropped
\* has used up its attempts before the close events come.
OneSocketAtATime(c, i, ss) == ~c.refreshed =>
    /\ ~c.lateConnect /\ ~c.asking
    /\ c.reconnectTimer => c.ws = NoSocket /\ ~c.dropped
    /\ ~c.dropped => \A s \in 1 .. Len(ss) :
          ss[s].owner = i /\ ss[s].ready # "closed" => s = c.ws
    /\ c.dropped =>
          /\ c.attempts = MaxReconnectAttempts
          /\ \A s \in 1 .. Len(ss) :
                ss[s].owner = i => ss[s].ready \in {"closing", "closed"}

\* Client i and its socket belong to each other.
OwnsSocket(c, i, ss) ==
    c.ws # NoSocket => c.ws \in 1 .. Len(ss) /\ ss[c.ws].owner = i

LinksOK(cs, ss) ==
    /\ cs \in Seq(Client) /\ Len(cs) <= MaxClients
    /\ ss \in Seq(Socket) /\ Len(ss) <= MaxSockets
    /\ \A s \in 1 .. Len(ss) : ss[s].owner \in 1 .. Len(cs)
    /\ \A i \in 1 .. Len(cs) :
          OwnsSocket(cs[i], i, ss) /\ OneSocketAtATime(cs[i], i, ss)

SocketInv ==
    /\ hasToken \in BOOLEAN /\ hookEnabled \in BOOLEAN /\ effectDue \in BOOLEAN
    /\ clientRef \in 0 .. Len(clients) /\ hookState \in ConnectionStates
    /\ LinksOK(clients, sockets)

LEMMA ReplacedIn ==
    ASSUME NEW S, NEW q \in Seq(S), NEW i \in 1 .. Len(q), NEW e \in S
    PROVE  /\ [q EXCEPT ![i] = e] \in Seq(S) /\ Len([q EXCEPT ![i] = e]) = Len(q)
           /\ [q EXCEPT ![i] = e][i] = e
           /\ \A j \in 1 .. Len(q) : j # i => [q EXCEPT ![i] = e][j] = q[j]
OBVIOUS

LEMMA AppendedTo ==
    ASSUME NEW S, NEW q \in Seq(S), NEW e \in S
    PROVE  /\ Append(q, e) \in Seq(S) /\ Len(Append(q, e)) = Len(q) + 1
           /\ Append(q, e)[Len(q) + 1] = e
           /\ \A j \in 1 .. Len(q) : Append(q, e)[j] = q[j]
OBVIOUS

\* The ways a socket goes: it opens, it is closed by its client, it is closed.
GoesOn(old, new) ==
    \/ new = old \/ new = "closed"
    \/ old = "connecting" /\ new = "open"
    \/ old # "closed" /\ new = "closing"

LEMMA LinksTypes ==
    ASSUME NEW cs, NEW ss, LinksOK(cs, ss)
    PROVE  /\ cs \in Seq(Client) /\ Len(cs) \in Nat /\ Len(ss) \in Nat
           /\ ss \in Seq(Socket)
           /\ \A i \in 1 .. Len(cs) :
                 /\ cs[i] \in Client /\ OwnsSocket(cs[i], i, ss)
                 /\ OneSocketAtATime(cs[i], i, ss)
           /\ \A s \in 1 .. Len(ss) : ss[s] \in Socket /\ ss[s].owner \in 1 .. Len(cs)
BY DEF LinksOK

LEMMA ClientChanges ==
    ASSUME NEW cs, NEW ss, LinksOK(cs, ss), NEW i \in 1 .. Len(cs), NEW c \in Client,
           OwnsSocket(c, i, ss), OneSocketAtATime(c, i, ss)
    PROVE  LinksOK([cs EXCEPT ![i] = c], ss)
<1> DEFINE n == [cs EXCEPT ![i] = c]
<1>1. /\ n \in Seq(Client) /\ Len(n) = Len(cs) /\ n[i] = c
      /\ \A j \in 1 .. Len(cs) : j # i => n[j] = cs[j]
  BY LinksTypes, ReplacedIn
<1> HIDE DEF n
<1>2. LinksOK(n, ss)
  BY <1>1 DEF LinksOK
<1>3. QED
  BY <1>2 DEF n

LEMMA SocketChanges ==
    ASSUME NEW cs, NEW ss, LinksOK(cs, ss), NEW s \in 1 .. Len(ss), NEW x \in Socket,
           x.owner = ss[s].owner, GoesOn(ss[s].ready, x.ready)
    PROVE  LinksOK(cs, [ss EXCEPT ![s] = x])
<1> DEFINE n == [ss EXCEPT ![s] = x]
<1>1. /\ n \in Seq(Socket) /\ Len(n) = Len(ss) /\ n[s] = x
      /\ \A t \in 1 .. Len(ss) : t # s => n[t] = ss[t]
  BY LinksTypes, ReplacedIn
<1> HIDE DEF n
<1>2. \A t \in 1 .. Len(ss) : n[t].owner = ss[t].owner /\ GoesOn(ss[t].ready, n[t].ready)
  BY <1>1 DEF GoesOn
<1>3. \A i \in 1 .. Len(cs) : OwnsSocket(cs[i], i, n)
  BY <1>1, <1>2 DEF LinksOK, OwnsSocket
<1>4. \A i \in 1 .. Len(cs) : OneSocketAtATime(cs[i], i, n)
  <2> SUFFICES ASSUME NEW i \in 1 .. Len(cs), NEW c, OneSocketAtATime(c, i, ss)
               PROVE  OneSocketAtATime(c, i, n)
    BY LinksTypes
  <2>1. \A t \in 1 .. Len(ss) :
            /\ n[t].owner = ss[t].owner
            /\ ss[t].ready = "closed" => n[t].ready = "closed"
            /\ ss[t].ready \in {"closing", "closed"} => n[t].ready \in {"closing", "closed"}
    BY <1>2 DEF GoesOn
  <2>2. Len(n) = Len(ss)
    BY <1>1
  <2>3. QED
    BY <2>1, <2>2 DEF OneSocketAtATime
<1>5. LinksOK(cs, n)
  BY <1>1, <1>2, <1>3, <1>4 DEF LinksOK
<1>6. QED
  BY <1>5 DEF n

LEMMA CloseChanges ==
    ASSUME NEW cs, NEW ss, LinksOK(cs, ss), NEW s \in 0 .. Len(ss)
    PROVE  /\ LinksOK(cs, Close(ss, s)) /\ Len(Close(ss, s)) = Len(ss)
           /\ \A t \in 1 .. Len(ss) :
                 /\ Close(ss, s)[t].owner = ss[t].owner
                 /\ t # s => Close(ss, s)[t] = ss[t]
                 /\ t = s => Close(ss, s)[t].ready \in {"closing", "closed"}
<1>1. CASE Live(ss, s)
  <2> DEFINE x == [ss[s] EXCEPT !.ready = "closing"]
             n == [ss EXCEPT ![s] = x]
  <2>1. s \in 1 .. Len(ss) /\ ss[s] \in Socket /\ ss[s].ready # "closed"
    BY <1>1, LinksTypes DEF Live, NoSocket
  <2>2. x \in Socket /\ x.owner = ss[s].owner /\ x.ready = "closing"
    BY <2>1 DEF Socket, ReadyStates
  <2>3. Close(ss, s) = n
    BY <1>1 DEF Close
  <2> HIDE DEF x
  <2>4. LinksOK(cs, n)
    BY <2>1, <2>2, SocketChanges DEF GoesOn
  <2>5. /\ Len(n) = Len(ss) /\ n[s] = x
        /\ \A t \in 1 .. Len(ss) : t # s => n[t] = ss[t]
    BY <2>1, <2>2, LinksTypes, ReplacedIn
  <2> HIDE DEF n
  <2>6. QED
    BY <2>2, <2>3, <2>4, <2>5
<1>2. CASE ~Live(ss, s)
  <2>1. \A t \in 1 .. Len(ss) : t = s => ss[t].ready \in {"closing", "closed"}
    BY <1>2, LinksTypes DEF Live, NoSocket, Socket, ReadyStates
  <2>2. QED
    BY <1>2, <2>1 DEF Close
<1>3. QED
  BY <1>1, <1>2

\* A client may open a socket: it was refreshed, or it has none and no timer.
MayOpen(c) == c.refreshed \/ (~c.dropped /\ ~c.reconnectTimer /\ c.ws = NoSocket)

LEMMA OpensSocket ==
    ASSUME NEW cs, NEW ss, LinksOK(cs, ss), NEW i \in 1 .. Len(cs), MayOpen(cs[i]),
           Connects(cs, ss, i) => Len(ss) < MaxSockets
    PROVE  LET after == AfterConnect(cs, ss, i)
           IN  LinksOK(after[1], after[2]) /\ Len(after[1]) = Len(cs)
<1>1. CASE ~Connects(cs, ss, i)
  BY <1>1 DEF AfterConnect
<1>2. CASE Connects(cs, ss, i)
  <2> DEFINE x == [owner |-> i, ready |-> "connecting", auth |-> "none"]
             n == Append(ss, x)
             c == [cs[i] EXCEPT !.state = "connecting", !.ws = Len(ss) + 1]
             ds == [cs EXCEPT ![i] = c]
  <2>1. /\ cs \in Seq(Client) /\ ss \in Seq(Socket) /\ Len(ss) \in Nat /\ Len(cs) \in Nat
        /\ Len(cs) <= MaxClients /\ Len(ss) + 1 <= MaxSockets
    BY <1>2, SocketAssumption DEF LinksOK
  <2>2. x \in Socket
    BY <2>1, SocketAssumption DEF Socket, ReadyStates
  <2>3. c \in Client /\ c.ws = Len(ss) + 1
        /\ c.refreshed = cs[i].refreshed /\ c.dropped = cs[i].dropped
        /\ c.lateConnect = cs[i].lateConnect /\ c.asking = cs[i].asking
        /\ c.reconnectTimer = cs[i].reconnectTimer
    <3>1. cs[i] \in Client /\ Len(ss) + 1 \in 0 .. MaxSockets
      BY <2>1, SocketAssumption, LinksTypes
    <3>2. QED
      BY <3>1 DEF Client, ConnectionStates
  <2>4. AfterConnect(cs, ss, i)[1] = ds /\ AfterConnect(cs, ss, i)[2] = n
    <3>1. AfterConnect(cs, ss, i) = <<[cs EXCEPT ![i].state = "connecting",
                                                 ![i].ws = Len(ss) + 1], n>>
      BY <1>2 DEF AfterConnect
    <3>2. [cs EXCEPT ![i].state = "connecting", ![i].ws = Len(ss) + 1] = ds
      BY <2>1
    <3>3. QED
      BY <3>1, <3>2
  <2> HIDE DEF c
  <2>5. /\ ds \in Seq(Client) /\ Len(ds) = Len(cs) /\ ds[i] = c
        /\ \A j \in 1 .. Len(cs) : j # i => ds[j] = cs[j]
    BY <2>1, <2>3, ReplacedIn
  <2>6. /\ n \in Seq(Socket) /\ Len(n) = Len(ss) + 1 /\ n[Len(ss) + 1] = x
        /\ \A s \in 1 .. Len(ss) : n[s] = ss[s]
    BY <2>1, <2>2, AppendedTo
  <2>7. x.owner = i /\ x.ready = "connecting"
    OBVIOUS
  <2> HIDE DEF n, ds, x
  <2>8. \A s \in 1 .. Len(n) : s \in 1 .. Len(ss) \/ s = Len(ss) + 1
    BY <2>1, <2>6
  <2>9. \A s \in 1 .. Len(n) : n[s].owner \in 1 .. Len(cs)
    BY <2>6, <2>7, <2>8, LinksTypes
  <2>10. \A s \in 1 .. Len(ss) : s \in 1 .. Len(n)
    BY <2>1, <2>6
  <2>11. OwnsSocket(c, i, n)
    BY <2>1, <2>3, <2>6, <2>7 DEF OwnsSocket
  <2>12. OneSocketAtATime(c, i, n)
    <3> SUFFICES ASSUME ~c.refreshed
                 PROVE  /\ ~c.lateConnect /\ ~c.asking /\ ~c.reconnectTimer /\ ~c.dropped
                        /\ \A s \in 1 .. Len(n) :
                              n[s].owner = i /\ n[s].ready # "closed" => s = c.ws
      BY DEF OneSocketAtATime
    <3>1. ~cs[i].dropped /\ ~cs[i].reconnectTimer /\ cs[i].ws = 0 /\ ~cs[i].refreshed
      BY <2>3 DEF MayOpen, NoSocket
    <3>2. /\ ~cs[i].lateConnect /\ ~cs[i].asking
          /\ \A s \in 1 .. Len(ss) :
                ss[s].owner = i /\ ss[s].ready # "closed" => s = cs[i].ws
      BY <3>1, LinksTypes DEF OneSocketAtATime
    <3>3. \A s \in 1 .. Len(n) : n[s].owner = i /\ n[s].ready # "closed" => s = c.ws
      BY <2>1, <2>3, <2>6, <2>8, <3>1, <3>2
    <3>4. QED
      BY <2>3, <3>1, <3>2, <3>3
  <2>13. \A j \in 1 .. Len(cs) : j # i => OwnsSocket(cs[j], j, n)
    BY <2>6, <2>10, LinksTypes DEF OwnsSocket
  <2>14. \A j \in 1 .. Len(cs) : j # i => OneSocketAtATime(cs[j], j, n)
    <3> SUFFICES ASSUME NEW j \in 1 .. Len(cs), j # i, NEW e, OneSocketAtATime(e, j, ss)
                 PROVE  OneSocketAtATime(e, j, n)
      BY LinksTypes
    <3>1. \A s \in 1 .. Len(n) : n[s].owner = j => s \in 1 .. Len(ss) /\ n[s] = ss[s]
      BY <2>6, <2>7, <2>8
    <3>2. QED
      BY <3>1 DEF OneSocketAtATime
  <2>15. LinksOK(ds, n)
    BY <2>1, <2>5, <2>6, <2>9, <2>11, <2>12, <2>13, <2>14 DEF LinksOK
  <2>16. QED
    BY <2>4, <2>5, <2>15
<1>3. QED
  BY <1>1, <1>2

LEMMA AuthChanges ==
    ASSUME NEW cs, NEW ss, LinksOK(cs, ss), NEW s \in 1 .. Len(ss),
           NEW a \in {"none", "sent", "answered"}
    PROVE  LinksOK(cs, [ss EXCEPT ![s].auth = a]) /\ Len([ss EXCEPT ![s].auth = a]) = Len(ss)
<1> DEFINE x == [ss[s] EXCEPT !.auth = a]
<1>1. x \in Socket /\ x.owner = ss[s].owner /\ x.ready = ss[s].ready
  BY LinksTypes DEF Socket
<1>2. [ss EXCEPT ![s].auth = a] = [ss EXCEPT ![s] = x]
  BY LinksTypes
<1> HIDE DEF x
<1>3. LinksOK(cs, [ss EXCEPT ![s] = x]) /\ Len([ss EXCEPT ![s] = x]) = Len(ss)
  BY <1>1, LinksTypes, SocketChanges, ReplacedIn DEF GoesOn
<1>4. QED
  BY <1>2, <1>3

LEMMA ReadyChanges ==
    ASSUME NEW cs, NEW ss, LinksOK(cs, ss), NEW s \in 1 .. Len(ss),
           NEW r \in ReadyStates, GoesOn(ss[s].ready, r)
    PROVE  /\ LinksOK(cs, [ss EXCEPT ![s].ready = r]) /\ Len([ss EXCEPT ![s].ready = r]) = Len(ss)
           /\ \A t \in 1 .. Len(ss) :
                 /\ [ss EXCEPT ![s].ready = r][t].owner = ss[t].owner
                 /\ [ss EXCEPT ![s].ready = r][t].ready = IF t = s THEN r ELSE ss[t].ready
<1> DEFINE x == [ss[s] EXCEPT !.ready = r]
<1>1. x \in Socket /\ x.owner = ss[s].owner /\ x.ready = r
  <2>1. ss[s] \in Socket
    BY LinksTypes
  <2>2. QED
    BY <2>1 DEF Socket
<1>2. [ss EXCEPT ![s].ready = r] = [ss EXCEPT ![s] = x]
  BY LinksTypes
<1> HIDE DEF x
<1>3. /\ LinksOK(cs, [ss EXCEPT ![s] = x]) /\ Len([ss EXCEPT ![s] = x]) = Len(ss)
      /\ [ss EXCEPT ![s] = x][s] = x
      /\ \A t \in 1 .. Len(ss) : t # s => [ss EXCEPT ![s] = x][t] = ss[t]
  BY <1>1, LinksTypes, SocketChanges, ReplacedIn
<1>4. QED
  BY <1>1, <1>2, <1>3

LEMMA SocketFacts ==
    ASSUME SocketInv
    PROVE  /\ LinksOK(clients, sockets)
           /\ DOMAIN sockets = 1 .. Len(sockets) /\ DOMAIN clients = 1 .. Len(clients)
           /\ Len(clients) \in Nat /\ Len(sockets) \in Nat
           /\ \A i \in 1 .. Len(clients) :
                 /\ clients[i] \in Client
                 /\ OneSocketAtATime(clients[i], i, sockets)
                 /\ OwnsSocket(clients[i], i, sockets)
                 /\ clients[i].ws \in 0 .. Len(sockets)
           /\ \A s \in 1 .. Len(sockets) :
                 sockets[s] \in Socket /\ sockets[s].owner \in 1 .. Len(clients)
<1>1. LinksOK(clients, sockets)
  BY DEF SocketInv
<1>2. QED
  BY <1>1, LinksTypes DEF OwnsSocket, NoSocket

\* An open socket is of a client that was not dropped, or that was refreshed.
LEMMA OpenIsNotDropped ==
    ASSUME SocketInv, NEW s \in 1 .. Len(sockets), sockets[s].ready = "open"
    PROVE  LET c == clients[sockets[s].owner] IN c.refreshed \/ ~c.dropped
BY SocketFacts DEF OneSocketAtATime

\* The steps that leave the props and the hook's client alone.
LEMMA LinksStep ==
    ASSUME SocketInv, LinksOK(clients', sockets'), Len(clients') = Len(clients),
           UNCHANGED <<propVars, clientRef>>,
           hookState' \in ConnectionStates
    PROVE  SocketInv'
BY DEF SocketInv, propVars

LEMMA SocketStep ==
    ASSUME SocketInv, NEW i \in 1 .. Len(clients), NEW cs, NEW ss, LinksOK(cs, ss),
           Len(cs) = Len(clients), ClientsBecome(cs, ss, i), UNCHANGED <<propVars, clientRef>>
    PROVE  SocketInv'
<1>1. cs[i].state \in ConnectionStates
  BY LinksTypes DEF Client
<1>2. hookState' \in ConnectionStates
  BY <1>1 DEF ClientsBecome, SocketInv
<1>3. QED
  BY <1>2, LinksStep DEF ClientsBecome

LEMMA OpensKeepsSocketInv ==
    ASSUME SocketInv, NEW s \in 1 .. Len(sockets), SocketOpens(s)
    PROVE  SocketInv'
<1> DEFINE w == clients[sockets[s].owner].ws
           ss == [sockets EXCEPT ![s].ready = "open"]
<1>1. /\ sockets[s].ready = "connecting"
      /\ sockets' = IF w # NoSocket /\ ss[w].ready = "open"
                    THEN [ss EXCEPT ![w].auth = "sent"] ELSE ss
      /\ UNCHANGED <<propVars, clientRef, hookState, clients>>
  BY DEF SocketOpens
<1>2. LinksOK(clients, ss) /\ Len(ss) = Len(sockets)
  BY <1>1, SocketFacts, ReadyChanges DEF GoesOn, ReadyStates
<1>3. w \in 0 .. Len(ss)
  BY <1>2, SocketFacts
<1> HIDE DEF ss, w
<1>4. w # NoSocket => LinksOK(clients, [ss EXCEPT ![w].auth = "sent"])
  <2> SUFFICES ASSUME w # NoSocket PROVE LinksOK(clients, [ss EXCEPT ![w].auth = "sent"])
    OBVIOUS
  <2>1. w \in 1 .. Len(ss)
    BY <1>2, <1>3, SocketFacts DEF NoSocket
  <2>2. QED
    BY <1>2, <2>1, AuthChanges
<1>5. LinksOK(clients, sockets')
  BY <1>1, <1>2, <1>4
<1>6. QED
  BY <1>1, <1>5, LinksStep DEF SocketInv

\* The client is connected, by the answer or by any message.
LEMMA ConnectedClient ==
    ASSUME SocketInv, NEW i \in 1 .. Len(clients), NEW b \in BOOLEAN,
           clients[i].refreshed \/ ~clients[i].dropped
    PROVE  LinksOK([clients EXCEPT ![i].state = "connected", ![i].attempts = 0,
                                   ![i].isRefreshing = b], sockets)
           /\ Len([clients EXCEPT ![i].state = "connected", ![i].attempts = 0,
                                  ![i].isRefreshing = b]) = Len(clients)
<1> DEFINE d == clients[i]
           c == [d EXCEPT !.state = "connected", !.attempts = 0, !.isRefreshing = b]
           cs == [clients EXCEPT ![i].state = "connected", ![i].attempts = 0,
                                 ![i].isRefreshing = b]
<1>1. cs = [clients EXCEPT ![i] = c]
  BY SocketFacts
<1>2. d \in Client /\ 0 \in 0 .. MaxReconnectAttempts
  BY SocketFacts, SocketAssumption
<1>3. c \in Client /\ c.ws = d.ws /\ c.refreshed = d.refreshed /\ c.dropped = d.dropped
      /\ c.reconnectTimer = d.reconnectTimer /\ c.asking = d.asking
      /\ c.lateConnect = d.lateConnect
  BY <1>2 DEF Client, ConnectionStates
<1>4. OwnsSocket(d, i, sockets) /\ OneSocketAtATime(d, i, sockets)
      /\ (d.refreshed \/ ~d.dropped)
  BY SocketFacts
<1> HIDE DEF c, d, cs
<1>5. OwnsSocket(c, i, sockets)
  BY <1>3, <1>4 DEF OwnsSocket
<1>6. OneSocketAtATime(c, i, sockets)
  BY <1>3, <1>4 DEF OneSocketAtATime
<1>7. LinksOK(cs, sockets) /\ Len(cs) = Len(clients)
  <2>1. LinksOK([clients EXCEPT ![i] = c], sockets)
    BY <1>3, <1>5, <1>6, SocketFacts, ClientChanges
  <2>2. clients \in Seq(Client)
    BY SocketFacts, LinksTypes
  <2>3. Len([clients EXCEPT ![i] = c]) = Len(clients)
    BY <1>3, <2>2, ReplacedIn
  <2>4. QED
    BY <1>1, <2>1, <2>3
<1>8. QED
  BY <1>7 DEF cs

LEMMA ConnectedKeepsSocketInv ==
    ASSUME SocketInv, NEW s \in 1 .. Len(sockets), Connected(s)
    PROVE  SocketInv'
<1> DEFINE i == sockets[s].owner
           cs == [clients EXCEPT ![i].state = "connected", ![i].attempts = 0,
                                 ![i].isRefreshing = FALSE]
           ss == [sockets EXCEPT ![s].auth = "answered"]
<1>1. /\ sockets[s].ready = "open" /\ ClientsBecome(cs, ss, i)
      /\ UNCHANGED <<propVars, clientRef>>
  BY DEF Connected, AnswerDue
<1>2. i \in 1 .. Len(clients) /\ (clients[i].refreshed \/ ~clients[i].dropped)
  BY <1>1, SocketFacts, OpenIsNotDropped
<1>3. LinksOK(cs, sockets) /\ Len(cs) = Len(clients)
  BY <1>2, ConnectedClient
<1> HIDE DEF cs, i
<1>4. LinksOK(cs, ss)
  BY <1>3, AuthChanges
<1>5. QED
  BY <1>1, <1>2, <1>3, <1>4, SocketStep

LEMMA ReceivesKeepsSocketInv ==
    ASSUME SocketInv, NEW s \in 1 .. Len(sockets), Receives(s)
    PROVE  SocketInv'
<1> DEFINE i == sockets[s].owner
           b == clients[i].isRefreshing
           cs == [clients EXCEPT ![i].state = "connected", ![i].attempts = 0]
           ds == [clients EXCEPT ![i].state = "connected", ![i].attempts = 0,
                                 ![i].isRefreshing = b]
<1>1. /\ sockets[s].ready = "open" /\ ClientsBecome(cs, sockets, i)
      /\ UNCHANGED <<propVars, clientRef>>
  BY DEF Receives
<1>2. i \in 1 .. Len(clients) /\ (clients[i].refreshed \/ ~clients[i].dropped)
  BY <1>1, SocketFacts, OpenIsNotDropped
<1>3. b \in BOOLEAN
  BY <1>2, SocketFacts DEF Client
<1>4. LinksOK(ds, sockets) /\ Len(ds) = Len(clients)
  BY <1>2, <1>3, ConnectedClient
<1>5. cs = ds
  BY <1>2, SocketFacts DEF Client
<1> HIDE DEF cs, ds, i, b
<1>6. QED
  BY <1>1, <1>2, <1>4, <1>5, SocketStep

\* A client becomes another that has no more to come, or is refreshed now.
Tamer(c, d) ==
    /\ c.ws = d.ws
    /\ c.refreshed \/
          /\ ~d.refreshed /\ c.dropped = d.dropped
          /\ c.dropped => c.attempts = d.attempts
          /\ c.reconnectTimer => d.reconnectTimer
          /\ c.asking => d.asking
          /\ c.lateConnect => d.lateConnect

LEMMA TamerClient ==
    ASSUME NEW cs, NEW ss, LinksOK(cs, ss), NEW i \in 1 .. Len(cs), NEW c \in Client,
           Tamer(c, cs[i])
    PROVE  LinksOK([cs EXCEPT ![i] = c], ss) /\ Len([cs EXCEPT ![i] = c]) = Len(cs)
<1> DEFINE d == cs[i]
<1>1. OwnsSocket(d, i, ss) /\ OneSocketAtATime(d, i, ss) /\ Tamer(c, d)
  BY LinksTypes
<1> HIDE DEF d
<1>2. OwnsSocket(c, i, ss)
  BY <1>1 DEF OwnsSocket, Tamer
<1>3. OneSocketAtATime(c, i, ss)
  BY <1>1 DEF OneSocketAtATime, Tamer
<1>4. LinksOK([cs EXCEPT ![i] = c], ss)
  BY <1>2, <1>3, ClientChanges
<1>5. cs \in Seq(Client)
  BY LinksTypes
<1>6. QED
  BY <1>4, <1>5, ReplacedIn

LEMMA RefusedKeepsSocketInv ==
    ASSUME SocketInv, NEW s \in 1 .. Len(sockets), TokenRefused(s) \/ Refused(s)
    PROVE  SocketInv'
<1> DEFINE i == sockets[s].owner
           d == clients[i]
           ss == [sockets EXCEPT ![s].auth = "answered"]
           c == [d EXCEPT !.isRefreshing = TRUE, !.asking = TRUE, !.refreshed = TRUE]
<1>1. i \in 1 .. Len(clients) /\ d \in Client /\ d.ws \in 0 .. Len(sockets)
  BY SocketFacts
<1>2. LinksOK(clients, ss) /\ Len(ss) = Len(sockets)
  BY SocketFacts, AuthChanges
<1>3. sockets' = Close(ss, d.ws) /\ UNCHANGED <<propVars, clientRef, hookState>>
  BY DEF TokenRefused, Refused
<1>4. LinksOK(clients, Close(ss, d.ws))
  BY <1>1, <1>2, CloseChanges
<1>5. clients' = clients \/ clients' = [clients EXCEPT ![i] = c]
  BY <1>1, SocketFacts DEF TokenRefused, Refused
<1>6. c \in Client /\ c.ws = d.ws /\ c.refreshed
  BY <1>1 DEF Client
<1>7. Tamer(c, d)
  BY <1>6 DEF Tamer
<1> HIDE DEF c, ss
<1>8. LinksOK(clients', sockets') /\ Len(clients') = Len(clients)
  BY <1>1, <1>3, <1>4, <1>5, <1>6, <1>7, TamerClient
<1>9. QED
  BY <1>3, <1>8, LinksStep DEF SocketInv

\* onclose: of a client that was not dropped, this was the only socket there was;
\* one that was dropped has no attempts left.
LEMMA ClosesKeepsSocketInv ==
    ASSUME SocketInv, NEW s \in 1 .. Len(sockets), SocketCloses(s)
    PROVE  SocketInv'
<1> DEFINE i == sockets[s].owner
           d == clients[i]
           closed == [d EXCEPT !.state = "disconnected", !.ws = NoSocket]
           waits == [closed EXCEPT !.reconnectTimer = TRUE, !.attempts = @ + 1]
           again == /\ ~d.isRefreshing /\ ~d.reconnectTimer
                    /\ d.attempts < MaxReconnectAttempts
           c == IF again THEN waits ELSE closed
           ss == [sockets EXCEPT ![s].ready = "closed"]
<1>1. /\ sockets[s].ready # "closed"
      /\ ClientsBecome([clients EXCEPT ![i] = c], ss, i)
      /\ UNCHANGED <<propVars, clientRef>>
  BY DEF SocketCloses
<1>2. /\ i \in 1 .. Len(clients) /\ d \in Client
      /\ OneSocketAtATime(d, i, sockets)
  BY SocketFacts
<1>3. /\ LinksOK(clients, ss) /\ Len(ss) = Len(sockets)
      /\ \A t \in 1 .. Len(sockets) :
            /\ ss[t].owner = sockets[t].owner
            /\ ss[t].ready = IF t = s THEN "closed" ELSE sockets[t].ready
  BY SocketFacts, ReadyChanges DEF GoesOn, ReadyStates
<1>4. closed \in Client /\ closed.ws = 0 /\ closed.refreshed = d.refreshed
      /\ closed.dropped = d.dropped /\ closed.reconnectTimer = d.reconnectTimer
      /\ closed.asking = d.asking /\ closed.lateConnect = d.lateConnect
      /\ closed.attempts = d.attempts
  <2>1. NoSocket \in 0 .. MaxSockets /\ NoSocket = 0
    BY SocketAssumption DEF NoSocket
  <2>2. QED
    BY <1>2, <2>1 DEF Client, ConnectionStates
<1>5. again => waits \in Client /\ waits.ws = 0 /\ waits.refreshed = d.refreshed
      /\ waits.dropped = d.dropped
      /\ waits.asking = d.asking /\ waits.lateConnect = d.lateConnect
  <2> SUFFICES ASSUME again
               PROVE  waits \in Client /\ waits.ws = 0 /\ waits.refreshed = d.refreshed
                      /\ waits.dropped = d.dropped
                      /\ waits.asking = d.asking /\ waits.lateConnect = d.lateConnect
    OBVIOUS
  <2>1. closed.attempts + 1 \in 0 .. MaxReconnectAttempts
    BY <1>2, <1>4, SocketAssumption DEF Client
  <2> HIDE DEF closed
  <2>2. QED
    BY <1>4, <2>1 DEF Client
<1>6. d.dropped /\ ~d.refreshed => ~again
  BY <1>2, SocketAssumption DEF OneSocketAtATime
<1>7. c \in Client /\ c.ws = 0 /\ c.refreshed = d.refreshed /\ c.dropped = d.dropped
      /\ c.asking = d.asking /\ c.lateConnect = d.lateConnect
  BY <1>4, <1>5
<1>8. d.dropped /\ ~d.refreshed => c.attempts = d.attempts /\ c.reconnectTimer = d.reconnectTimer
  BY <1>4, <1>6
<1> HIDE DEF c, d, ss, closed, waits, again
<1>9. OwnsSocket(c, i, ss)
  BY <1>7 DEF OwnsSocket, NoSocket
<1>10. OneSocketAtATime(c, i, ss)
  <2> SUFFICES ASSUME ~d.refreshed
               PROVE  OneSocketAtATime(c, i, ss)
    BY <1>7 DEF OneSocketAtATime
  <2>1. CASE d.dropped
    <3>1. /\ ~c.lateConnect /\ ~c.asking /\ ~c.reconnectTimer
          /\ c.attempts = MaxReconnectAttempts
      BY <1>2, <1>7, <1>8, <2>1 DEF OneSocketAtATime
    <3>2. \A t \in 1 .. Len(ss) : ss[t].owner = i => ss[t].ready \in {"closing", "closed"}
      BY <1>2, <1>3, <2>1 DEF OneSocketAtATime
    <3>3. QED
      BY <1>7, <2>1, <3>1, <3>2 DEF OneSocketAtATime
  <2>2. CASE ~d.dropped
    <3>1. \A t \in 1 .. Len(sockets) :
              sockets[t].owner = i /\ sockets[t].ready # "closed" => t = d.ws
      BY <1>2, <2>2 DEF OneSocketAtATime
    <3>2. s = d.ws
      BY <1>1, <3>1 DEF i
    <3>3. \A t \in 1 .. Len(ss) : ss[t].owner = i => ss[t].ready = "closed"
      BY <1>3, <3>1, <3>2
    <3>4. ~c.lateConnect /\ ~c.asking
      BY <1>2, <1>7 DEF OneSocketAtATime
    <3>5. QED
      BY <1>7, <2>2, <3>3, <3>4 DEF OneSocketAtATime, NoSocket
  <2>3. QED
    BY <2>1, <2>2
<1>11. LinksOK([clients EXCEPT ![i] = c], ss)
  BY <1>2, <1>3, <1>7, <1>9, <1>10, ClientChanges
<1>12. Len([clients EXCEPT ![i] = c]) = Len(clients)
  <2>1. clients \in Seq(Client)
    BY SocketFacts, LinksTypes
  <2>2. QED
    BY <1>2, <1>7, <2>1, ReplacedIn
<1>13. QED
  BY <1>1, <1>2, <1>11, <1>12, SocketStep

LEMMA ConnectStep ==
    ASSUME SocketInv, NEW i \in 1 .. Len(clients), NEW c \in Client,
           Tamer(c, clients[i]), MayOpen(c), Connect([clients EXCEPT ![i] = c], i),
           UNCHANGED <<propVars, clientRef>>
    PROVE  SocketInv'
<1> DEFINE cs == [clients EXCEPT ![i] = c]
           after == AfterConnect(cs, sockets, i)
<1>1. LinksOK(cs, sockets) /\ Len(cs) = Len(clients)
  BY SocketFacts, TamerClient
<1>2. cs[i] = c
  <2>1. clients \in Seq(Client)
    BY SocketFacts, LinksTypes
  <2>2. QED
    BY <2>1, ReplacedIn
<1>3. /\ Connects(cs, sockets, i) => Len(sockets) < MaxSockets
      /\ ClientsBecome(after[1], after[2], i)
  BY DEF Connect
<1> HIDE DEF cs
<1>4. LinksOK(after[1], after[2]) /\ Len(after[1]) = Len(clients)
  BY <1>1, <1>2, <1>3, OpensSocket
<1> HIDE DEF after
<1>5. QED
  BY <1>3, <1>4, SocketStep

\* The timer is set only of a client without a socket, the late connect only of
\* one that was refreshed.
LEMMA TimersKeepSocketInv ==
    ASSUME SocketInv, NEW i \in 1 .. Len(clients), ReconnectFires(i) \/ LateConnectFires(i)
    PROVE  SocketInv'
<1> DEFINE d == clients[i]
<1>1. d \in Client /\ OneSocketAtATime(d, i, sockets)
  BY SocketFacts
<1>2. CASE ReconnectFires(i)
  <2> DEFINE c == [d EXCEPT !.reconnectTimer = FALSE]
  <2>1. c \in Client /\ c.ws = d.ws /\ c.refreshed = d.refreshed /\ c.dropped = d.dropped
        /\ c.reconnectTimer = FALSE /\ c.asking = d.asking
        /\ c.lateConnect = d.lateConnect /\ c.attempts = d.attempts
    BY <1>1 DEF Client
  <2>2. [clients EXCEPT ![i].reconnectTimer = FALSE] = [clients EXCEPT ![i] = c]
    BY SocketFacts
  <2>3. /\ d.reconnectTimer /\ UNCHANGED <<propVars, clientRef>>
        /\ Connect([clients EXCEPT ![i] = c], i)
    BY <1>2, <2>2 DEF ReconnectFires
  <2> HIDE DEF c, d
  <2>4. Tamer(c, d) /\ MayOpen(c)
    BY <1>1, <2>1, <2>3 DEF Tamer, MayOpen, OneSocketAtATime
  <2>5. QED
    BY <2>1, <2>3, <2>4, ConnectStep DEF d
<1>3. CASE LateConnectFires(i)
  <2> DEFINE c == [d EXCEPT !.lateConnect = FALSE]
  <2>1. c \in Client /\ c.ws = d.ws /\ c.refreshed = d.refreshed
    BY <1>1 DEF Client
  <2>2. [clients EXCEPT ![i].lateConnect = FALSE] = [clients EXCEPT ![i] = c]
    BY SocketFacts
  <2>3. /\ d.lateConnect /\ UNCHANGED <<propVars, clientRef>>
        /\ Connect([clients EXCEPT ![i] = c], i)
    BY <1>3, <2>2 DEF LateConnectFires
  <2> HIDE DEF c, d
  <2>4. Tamer(c, d) /\ MayOpen(c)
    BY <1>1, <2>1, <2>3 DEF Tamer, MayOpen, OneSocketAtATime
  <2>5. QED
    BY <2>1, <2>3, <2>4, ConnectStep DEF d
<1>4. QED
  BY <1>2, <1>3

LEMMA RefreshKeepsSocketInv ==
    ASSUME SocketInv, NEW i \in 1 .. Len(clients), TokenRefreshed(i) \/ TokenNotRefreshed(i)
    PROVE  SocketInv'
<1> DEFINE d == clients[i]
<1>1. d \in Client /\ OneSocketAtATime(d, i, sockets) /\ d.asking /\ d.refreshed
  BY SocketFacts DEF OneSocketAtATime, TokenRefreshed, TokenNotRefreshed
<1>2. CASE TokenRefreshed(i)
  <2> DEFINE told == IF clientRef = NoClient THEN clients
                     ELSE [clients EXCEPT ![clientRef].isRefreshing = FALSE]
             e == told[i]
             c == [e EXCEPT !.attempts = 0, !.asking = FALSE, !.lateConnect = TRUE]
  <2>1. LinksOK(told, sockets) /\ Len(told) = Len(clients) /\ e.refreshed
    <3>1. CASE clientRef = NoClient
      BY <1>1, <3>1, SocketFacts
    <3>2. CASE clientRef # NoClient
      <4> DEFINE h == [clients[clientRef] EXCEPT !.isRefreshing = FALSE]
      <4>1. clientRef \in 1 .. Len(clients)
        BY <3>2 DEF SocketInv, NoClient
      <4>2. clients[clientRef] \in Client
            /\ OneSocketAtATime(clients[clientRef], clientRef, sockets)
        BY <4>1, SocketFacts
      <4>3. h \in Client /\ Tamer(h, clients[clientRef])
            /\ h.refreshed = clients[clientRef].refreshed
        BY <4>2 DEF Client, Tamer
      <4>4. told = [clients EXCEPT ![clientRef] = h]
        BY <3>2, <4>1, SocketFacts
      <4> HIDE DEF h
      <4>5. LinksOK(told, sockets) /\ Len(told) = Len(clients)
        <5>1. LinksOK(clients, sockets)
          BY SocketFacts
        <5>2. /\ LinksOK([clients EXCEPT ![clientRef] = h], sockets)
              /\ Len([clients EXCEPT ![clientRef] = h]) = Len(clients)
          BY ONLY <5>1, <4>1, <4>3, TamerClient
        <5>3. QED
          BY <4>4, <5>2
      <4>6. /\ told[clientRef] = h
            /\ \A j \in 1 .. Len(clients) : j # clientRef => told[j] = clients[j]
        <5>1. clients \in Seq(Client)
          BY SocketFacts, LinksTypes
        <5>2. QED
          BY <4>1, <4>3, <4>4, <5>1, ReplacedIn
      <4>7. e.refreshed
        BY <1>1, <4>3, <4>6
      <4>8. QED
        BY <4>5, <4>7
    <3>3. QED
      BY <3>1, <3>2
  <2>2. e \in Client
    BY <2>1, LinksTypes
  <2>3. clients' = [told EXCEPT ![i].attempts = 0, ![i].asking = FALSE,
                                ![i].lateConnect = TRUE]
        /\ hasToken' = TRUE /\ effectDue' = TRUE
        /\ UNCHANGED <<hookEnabled, clientRef, hookState, sockets>>
    BY <1>2 DEF TokenRefreshed
  <2> HIDE DEF told
  <2>4. told \in Seq(Client) /\ i \in 1 .. Len(told)
    BY <2>1, LinksTypes
  <2>5. clients' = [told EXCEPT ![i] = c]
    BY <2>3, <2>4
  <2>6. c \in Client /\ c.ws = e.ws /\ c.refreshed
    <3>1. 0 \in 0 .. MaxReconnectAttempts
      BY SocketAssumption
    <3>2. QED
      BY <2>1, <2>2, <3>1 DEF Client
  <2>7. Tamer(c, e)
    BY <2>6 DEF Tamer
  <2> HIDE DEF c
  <2>8. LinksOK(clients', sockets') /\ Len(clients') = Len(clients)
    <3>1. Tamer(c, told[i])
      BY <2>7
    <3>2. c \in Client
      BY <2>6
    <3>3. LinksOK([told EXCEPT ![i] = c], sockets) /\ Len([told EXCEPT ![i] = c]) = Len(told)
      BY <2>1, <2>4, <3>1, <3>2, TamerClient
    <3>4. QED
      BY <2>1, <2>3, <2>5, <3>3
  <2>9. QED
    BY <2>3, <2>8 DEF SocketInv
<1>3. CASE TokenNotRefreshed(i)
  <2> DEFINE c == [d EXCEPT !.asking = FALSE, !.isRefreshing = FALSE]
  <2>1. c \in Client /\ c.ws = d.ws /\ c.refreshed
    BY <1>1 DEF Client
  <2>2. clients' = [clients EXCEPT ![i] = c]
        /\ UNCHANGED <<propVars, clientRef, hookState, sockets>>
    BY <1>3, SocketFacts DEF TokenNotRefreshed
  <2>3. Tamer(c, d)
    BY <2>1 DEF Tamer
  <2> HIDE DEF c
  <2>4. LinksOK(clients', sockets') /\ Len(clients') = Len(clients)
    BY <2>1, <2>2, <2>3, SocketFacts, TamerClient
  <2>5. QED
    BY <2>2, <2>4, LinksStep DEF SocketInv
<1>4. QED
  BY <1>2, <1>3

\* disconnect(): every socket of the client is closing or closed afterwards.
LEMMA DropsClient ==
    ASSUME SocketInv, NEW old \in 1 .. Len(clients)
    PROVE  LET ss == Close(sockets, clients[old].ws)
               cs == [clients EXCEPT ![old] = Disconnect(@)]
           IN  LinksOK(cs, ss) /\ Len(cs) = Len(clients) /\ Len(ss) = Len(sockets)
<1> DEFINE d == clients[old]
           ss == Close(sockets, d.ws)
           c == Disconnect(d)
           cs == [clients EXCEPT ![old] = Disconnect(@)]
<1>1. d \in Client /\ OneSocketAtATime(d, old, sockets) /\ d.ws \in 0 .. Len(sockets)
  BY SocketFacts
<1>2. c \in Client /\ c.ws = 0 /\ c.dropped = TRUE /\ c.reconnectTimer = FALSE
      /\ c.attempts = MaxReconnectAttempts /\ c.refreshed = d.refreshed
      /\ c.asking = d.asking /\ c.lateConnect = d.lateConnect
  <2>1. NoSocket = 0 /\ 0 \in 0 .. MaxSockets
        /\ MaxReconnectAttempts \in 0 .. MaxReconnectAttempts
    BY SocketAssumption DEF NoSocket
  <2>2. QED
    BY <1>1, <2>1 DEF Disconnect, Client, ConnectionStates
<1>3. /\ LinksOK(clients, ss) /\ Len(ss) = Len(sockets)
      /\ \A t \in 1 .. Len(sockets) :
            /\ ss[t].owner = sockets[t].owner
            /\ t # d.ws => ss[t] = sockets[t]
            /\ t = d.ws => ss[t].ready \in {"closing", "closed"}
  BY <1>1, SocketFacts, CloseChanges
<1>4. cs = [clients EXCEPT ![old] = c]
  BY SocketFacts
<1> HIDE DEF c, ss, d
<1>5. OwnsSocket(c, old, ss)
  BY <1>2 DEF OwnsSocket, NoSocket
<1>6. OneSocketAtATime(c, old, ss)
  <2> SUFFICES ASSUME ~d.refreshed
               PROVE  /\ ~c.lateConnect /\ ~c.asking
                      /\ \A s \in 1 .. Len(ss) :
                            ss[s].owner = old => ss[s].ready \in {"closing", "closed"}
    BY <1>2 DEF OneSocketAtATime
  <2>1. ~d.lateConnect /\ ~d.asking
    BY <1>1 DEF OneSocketAtATime
  <2>2. \A s \in 1 .. Len(sockets) :
            sockets[s].owner = old => s = d.ws \/ sockets[s].ready \in {"closing", "closed"}
    BY <1>1 DEF OneSocketAtATime
  <2>3. QED
    BY <1>2, <1>3, <2>1, <2>2
<1>7. LinksOK([clients EXCEPT ![old] = c], ss)
  BY <1>2, <1>3, <1>5, <1>6, ClientChanges
<1>8. Len([clients EXCEPT ![old] = c]) = Len(clients)
  <2>1. clients \in Seq(Client)
    BY SocketFacts, LinksTypes
  <2>2. QED
    BY <1>2, <2>1, ReplacedIn
<1>9. QED
  BY <1>3, <1>4, <1>7, <1>8 DEF ss, d

LEMMA AddsClient ==
    ASSUME NEW cs, NEW ss, LinksOK(cs, ss), Len(cs) < MaxClients
    PROVE  /\ LinksOK(Append(cs, NewClient), ss)
           /\ Len(Append(cs, NewClient)) = Len(cs) + 1
           /\ Append(cs, NewClient)[Len(cs) + 1] = NewClient
<1> DEFINE n == Append(cs, NewClient)
<1>1. NewClient \in Client
  <2>1. 0 \in 0 .. MaxReconnectAttempts /\ 0 \in 0 .. MaxSockets
    BY SocketAssumption
  <2>2. QED
    BY <2>1 DEF NewClient, Client, ConnectionStates, NoSocket
<1>2. /\ n \in Seq(Client) /\ Len(n) = Len(cs) + 1 /\ n[Len(cs) + 1] = NewClient
      /\ \A j \in 1 .. Len(cs) : n[j] = cs[j]
  BY <1>1, LinksTypes, AppendedTo
<1> HIDE DEF n
<1>3. \A j \in 1 .. Len(n) : j \in 1 .. Len(cs) \/ j = Len(cs) + 1
  BY <1>2, LinksTypes
<1>4. \A s \in 1 .. Len(ss) : ss[s].owner \in 1 .. Len(n) /\ ss[s].owner # Len(cs) + 1
  BY <1>2, LinksTypes
<1>5. OwnsSocket(NewClient, Len(cs) + 1, ss) /\ OneSocketAtATime(NewClient, Len(cs) + 1, ss)
  BY <1>4 DEF OwnsSocket, OneSocketAtATime, NewClient
<1>6. \A j \in 1 .. Len(n) : OwnsSocket(n[j], j, ss) /\ OneSocketAtATime(n[j], j, ss)
  BY <1>2, <1>3, <1>5, LinksTypes
<1>7. Len(n) <= MaxClients
  BY <1>2, LinksTypes, SocketAssumption
<1>8. LinksOK(n, ss)
  BY <1>2, <1>4, <1>6, <1>7 DEF LinksOK
<1>9. QED
  BY <1>2, <1>8 DEF n

LEMMA EffectKeepsSocketInv ==
    ASSUME SocketInv, EffectRuns
    PROVE  SocketInv'
<1> DEFINE ss == IF clientRef = NoClient THEN sockets ELSE Close(sockets, clients[clientRef].ws)
           cs == IF clientRef = NoClient THEN clients
                 ELSE [clients EXCEPT ![clientRef] = Disconnect(@)]
           new == Len(clients) + 1
           ds == Append(cs, NewClient)
           after == AfterConnect(ds, ss, new)
<1>1. LinksOK(cs, ss) /\ Len(cs) = Len(clients) /\ Len(ss) = Len(sockets)
  <2>1. CASE clientRef = NoClient
    BY <2>1, SocketFacts
  <2>2. CASE clientRef # NoClient
    <3>1. clientRef \in 1 .. Len(clients)
      BY <2>2 DEF SocketInv, NoClient
    <3>2. QED
      BY <2>2, <3>1, DropsClient
  <2>3. QED
    BY <2>1, <2>2
<1>2. effectDue' = FALSE /\ UNCHANGED <<hasToken, hookEnabled>>
  BY DEF EffectRuns
<1>3. /\ hookEnabled /\ hasToken =>
            /\ new <= MaxClients /\ Len(sockets) < MaxSockets
            /\ clients' = after[1] /\ sockets' = after[2]
            /\ clientRef' = new /\ hookState' = "connecting"
      /\ ~(hookEnabled /\ hasToken) =>
            /\ clients' = cs /\ sockets' = ss
            /\ clientRef' = NoClient /\ hookState' = "disconnected"
  BY DEF EffectRuns
<1> HIDE DEF cs, ss
<1>4. CASE hookEnabled /\ hasToken
  <2>1. Len(clients) \in Nat /\ Len(cs) < MaxClients
    BY <1>1, <1>3, <1>4, SocketFacts, SocketAssumption
  <2>2. LinksOK(ds, ss) /\ Len(ds) = new /\ ds[new] = NewClient
    BY <1>1, <2>1, AddsClient
  <2> HIDE DEF ds
  <2>3. MayOpen(ds[new]) /\ new \in 1 .. Len(ds)
    BY <2>1, <2>2 DEF MayOpen, NewClient
  <2>4. LinksOK(after[1], after[2]) /\ Len(after[1]) = new
    BY <1>1, <1>3, <1>4, <2>2, <2>3, OpensSocket
  <2> HIDE DEF after
  <2>5. clientRef' \in 0 .. Len(clients') /\ hookState' \in ConnectionStates
    BY <1>3, <1>4, <2>1, <2>4 DEF ConnectionStates
  <2>6. QED
    BY <1>2, <1>3, <1>4, <2>4, <2>5 DEF SocketInv
<1>5. CASE ~(hookEnabled /\ hasToken)
  <2>1. clientRef' \in 0 .. Len(clients') /\ hookState' \in ConnectionStates
    BY <1>1, <1>3, <1>5, SocketFacts DEF ConnectionStates, NoClient
  <2>2. QED
    BY <1>1, <1>2, <1>3, <1>5, <2>1 DEF SocketInv
<1>6. QED
  BY <1>4, <1>5

\* The invariant of the connection holds in every state of it.
THEOREM SocketInvHolds == SocketSpec => []SocketInv
<1>1. SocketInit => SocketInv
  <2> SUFFICES ASSUME SocketInit PROVE SocketInv
    OBVIOUS
  <2>1. clients = <<>> /\ sockets = <<>>
    BY DEF SocketInit
  <2>2. LinksOK(clients, sockets)
    BY <2>1, SocketAssumption DEF LinksOK
  <2>3. QED
    BY <2>1, <2>2 DEF SocketInit, SocketInv, NoClient, ConnectionStates
<1>2. SocketInv /\ [SocketNext]_socketVars => SocketInv'
  <2> SUFFICES ASSUME SocketInv, [SocketNext]_socketVars
               PROVE  SocketInv'
    OBVIOUS
  <2>1. CASE UNCHANGED socketVars
    BY <2>1 DEF SocketInv, socketVars, propVars
  <2>2. CASE PropsChange
    BY <2>2 DEF SocketInv, PropsChange
  <2>3. CASE EffectRuns
    BY <2>3, EffectKeepsSocketInv
  <2>4. ASSUME NEW s \in DOMAIN sockets,
               SocketOpens(s) \/ Connected(s) \/ Receives(s)
               \/ TokenRefused(s) \/ Refused(s) \/ SocketCloses(s)
        PROVE  SocketInv'
    <3>1. s \in 1 .. Len(sockets)
      BY SocketFacts
    <3>2. QED
      BY <2>4, <3>1, OpensKeepsSocketInv, ConnectedKeepsSocketInv, ReceivesKeepsSocketInv,
         RefusedKeepsSocketInv, ClosesKeepsSocketInv
  <2>5. ASSUME NEW i \in DOMAIN clients,
               ReconnectFires(i) \/ TokenRefreshed(i) \/ TokenNotRefreshed(i)
               \/ LateConnectFires(i)
        PROVE  SocketInv'
    <3>1. i \in 1 .. Len(clients)
      BY SocketFacts
    <3>2. QED
      BY <2>5, <3>1, TimersKeepSocketInv, RefreshKeepsSocketInv
  <2>6. QED
    BY <2>1, <2>2, <2>3, <2>4, <2>5 DEF SocketNext
<1>3. QED
  BY <1>1, <1>2, PTL DEF SocketSpec

\* A client that was dropped, and whose token was not refreshed, has no timer
\* and no live socket, although the close events of its sockets come later
\* (DroppedIsSilent; client.ts 172-206).
THEOREM DroppedIsSilentHolds == SocketSpec => []DroppedIsSilent
<1>1. SocketInv => DroppedIsSilent
  <2> SUFFICES ASSUME SocketInv, NEW i \in DOMAIN clients,
                      clients[i].dropped, ~clients[i].refreshed
               PROVE  /\ ~clients[i].reconnectTimer
                      /\ \A s \in DOMAIN sockets :
                            sockets[s].owner = i => ~Live(sockets, s)
    BY DEF DroppedIsSilent
  <2>1. OneSocketAtATime(clients[i], i, sockets) /\ DOMAIN sockets = 1 .. Len(sockets)
    BY SocketFacts
  <2>2. QED
    BY <2>1 DEF OneSocketAtATime, Live
<1>2. QED
  BY <1>1, SocketInvHolds, PTL

-----------------------------------------------------------------------------
(* The camera.                                                             *)

\* A modal counts its streams, those it asked for and those it can stop.
ModalOK(d) ==
    /\ d \in Modal
    /\ d.asked + d.streams <= d.renders + 1
    /\ d.streamRef => d.streams > 0
    /\ d.media = "recording" => d.recorder
    /\ d.isRecording => d.media \in {"recording", "stopping"}

\* What it records is complete or was cut off.
WholeOrCut(d) == d.media \in {"recording", "stopping"} => d.whole \/ d.cutOff

\* What was unwanted is over, or ends as cancelled.
EndsUnseen(d) == d.media = "ended" \/ (d.media = "stopping" /\ d.isCancelled)

VideoInv ==
    /\ VideoTypeOK
    /\ \A m \in 1 .. opened : ModalOK(modals[m]) /\ WholeOrCut(modals[m])
    /\ \A m \in unwanted : m # modal /\ EndsUnseen(modals[m])
    /\ \A v \in delivered : v.of # modal
    /\ SentAsRecorded

LEMMA StopMediaFields ==
    ASSUME NEW d, ModalOK(d)
    PROVE  /\ ModalOK(StopMedia(d))
           /\ StopMedia(d).media = IF d.media = "recording" THEN "stopping" ELSE d.media
           /\ StopMedia(d).isRecording = d.isRecording
           /\ StopMedia(d).isCancelled = d.isCancelled
           /\ StopMedia(d).cutOff = d.cutOff /\ StopMedia(d).whole = d.whole
           /\ StopMedia(d).asked = d.asked
           /\ StopMedia(d).renders = d.renders
BY DEF ModalOK, Modal, StopMedia

LEMMA StreamsStopped ==
    ASSUME NEW d, ModalOK(d)
    PROVE  LET n == IF d.streamRef THEN d.streams - 1 ELSE d.streams
           IN  n \in 0 .. MaxRenders + 1 /\ n <= d.streams
BY VideoAssumption DEF ModalOK, Modal

\* cleanup() of a modal whose recording is given up or over.
LEMMA CleanedUpFields ==
    ASSUME NEW d, ModalOK(d)
    PROVE  /\ CleanedUp(d) \in Modal
           /\ CleanedUp(d).media = IF d.media = "recording" THEN "stopping" ELSE d.media
           /\ CleanedUp(d).isRecording = d.isRecording
           /\ CleanedUp(d).isCancelled = d.isCancelled
           /\ CleanedUp(d).cutOff = d.cutOff
           /\ CleanedUp(d).asked = d.asked
           /\ CleanedUp(d).renders = d.renders
           /\ CleanedUp(d).streams <= d.streams
           /\ CleanedUp(d).streamRef = FALSE
<1> DEFINE n == IF d.streamRef THEN d.streams - 1 ELSE d.streams
           e == StopMedia(d)
<1>1. n \in 0 .. MaxRenders + 1 /\ n <= d.streams
  BY StreamsStopped
<1>2. e \in Modal /\ e.streams = d.streams
  BY StopMediaFields DEF ModalOK, StopMedia, Modal
<1>3. CleanedUp(d) = [e EXCEPT !.recorder = FALSE, !.whole = FALSE, !.streamRef = FALSE,
                               !.streams = n]
  BY <1>2 DEF CleanedUp, Modal
<1> HIDE DEF n, e
<1>4. QED
  <2>1. /\ e.media = IF d.media = "recording" THEN "stopping" ELSE d.media
        /\ e.isRecording = d.isRecording /\ e.isCancelled = d.isCancelled
        /\ e.cutOff = d.cutOff /\ e.asked = d.asked /\ e.renders = d.renders
    BY StopMediaFields DEF e
  <2>2. CleanedUp(d) \in Modal
    BY <1>1, <1>2, <1>3 DEF Modal
  <2>3. QED
    BY <1>1, <1>2, <1>3, <2>1, <2>2 DEF Modal

LEMMA UnmountedFields ==
    ASSUME NEW d, ModalOK(d)
    PROVE  /\ ModalOK(Unmounted(d)) /\ WholeOrCut(Unmounted(d))
           /\ Unmounted(d).media = IF d.media = "recording" THEN "stopping" ELSE d.media
           /\ Unmounted(d).isCancelled = d.isCancelled
           /\ Unmounted(d).asked = d.asked
           /\ Unmounted(d).renders = d.renders
<1> DEFINE c == CleanedUp(d)
           b == d.cutOff \/ d.media \in {"recording", "stopping"}
<1>1. /\ c \in Modal
      /\ c.media = IF d.media = "recording" THEN "stopping" ELSE d.media
      /\ c.isRecording = d.isRecording /\ c.isCancelled = d.isCancelled
      /\ c.cutOff = d.cutOff /\ c.asked = d.asked /\ c.renders = d.renders
      /\ c.streams <= d.streams /\ c.streamRef = FALSE
  BY CleanedUpFields
<1>2. Unmounted(d) = [c EXCEPT !.cutOff = b]
  BY <1>1 DEF Unmounted, Modal
<1>3. b \in BOOLEAN /\ (d.media \in {"recording", "stopping"} => b = TRUE)
  OBVIOUS
<1> HIDE DEF b, c
<1>4. Unmounted(d) \in Modal
  BY <1>1, <1>2, <1>3 DEF Modal
<1>5. /\ Unmounted(d).media = c.media /\ Unmounted(d).isCancelled = c.isCancelled
      /\ Unmounted(d).asked = c.asked /\ Unmounted(d).renders = c.renders
      /\ Unmounted(d).streams = c.streams /\ Unmounted(d).streamRef = c.streamRef
      /\ Unmounted(d).isRecording = c.isRecording /\ Unmounted(d).cutOff = b
  BY <1>1, <1>2 DEF Modal
<1>6. d.asked + d.streams <= d.renders + 1
  BY DEF ModalOK
<1>7. c.asked + c.streams <= c.renders + 1
  BY <1>1, <1>6, VideoAssumption DEF ModalOK, Modal
<1>8. QED
  BY <1>1, <1>3, <1>4, <1>5, <1>7 DEF ModalOK, WholeOrCut

\* The steps that change one modal, and those that close the open one.
LEMMA ModalChanges ==
    ASSUME VideoInv, NEW m \in 1 .. opened, NEW d, ModalOK(d), WholeOrCut(d), Put(m, d),
           m \in unwanted => EndsUnseen(d),
           UNCHANGED <<modal, opened, delivered, unwanted>>
    PROVE  VideoInv'
<1>1. d \in Modal /\ m \in 1 .. MaxModals /\ modals \in [1 .. MaxModals -> Modal]
  BY VideoAssumption DEF ModalOK, VideoInv, VideoTypeOK
<1>2. /\ modals' \in [1 .. MaxModals -> Modal] /\ modals'[m] = d
      /\ \A n \in 1 .. MaxModals : n # m => modals'[n] = modals[n]
  BY <1>1 DEF Put
<1>3. 1 .. opened \subseteq 1 .. MaxModals
  BY VideoAssumption DEF VideoInv, VideoTypeOK
<1>4. VideoTypeOK'
  BY <1>2 DEF VideoInv, VideoTypeOK
<1>5. \A n \in 1 .. opened : ModalOK(modals'[n]) /\ WholeOrCut(modals'[n])
  BY <1>2, <1>3 DEF VideoInv
<1>6. \A n \in unwanted : n # modal /\ EndsUnseen(modals'[n])
  BY <1>2, <1>3 DEF VideoInv, VideoTypeOK
<1>7. QED
  BY <1>4, <1>5, <1>6 DEF VideoInv, SentAsRecorded

LEMMA ModalCloses ==
    ASSUME VideoInv, NEW ds \in [1 .. MaxModals -> Modal], CloseModal(ds),
           \A m \in 1 .. opened : ModalOK(ds[m]) /\ (m # modal => WholeOrCut(ds[m])),
           UNCHANGED opened,
           unwanted' \subseteq 1 .. opened,
           \A m \in unwanted' : EndsUnseen(ds[m]),
           delivered' \subseteq [of : 1 .. opened, whole : BOOLEAN, cutOff : BOOLEAN],
           SentAsRecorded'
    PROVE  VideoInv'
<1>1. modal \in 0 .. opened /\ opened \in 0 .. MaxModals
  BY DEF VideoInv, VideoTypeOK
<1>2. 1 .. opened \subseteq 1 .. MaxModals
  BY <1>1, VideoAssumption
<1>3. \A m \in 1 .. opened :
          modals'[m] = IF m = modal THEN Unmounted(ds[m]) ELSE ds[m]
  BY <1>1, <1>2 DEF CloseModal, NoModal
<1>4. \A m \in 1 .. opened : ModalOK(modals'[m]) /\ WholeOrCut(modals'[m])
  BY <1>3, UnmountedFields
<1>5. \A m \in unwanted' : EndsUnseen(modals'[m])
  BY <1>3, UnmountedFields DEF EndsUnseen
<1>6. modals' \in [1 .. MaxModals -> Modal]
  <2>1. CASE modal = NoModal
    BY <2>1 DEF CloseModal
  <2>2. CASE modal # NoModal
    <3>1. modal \in 1 .. opened
      BY <1>1, <2>2 DEF NoModal
    <3>2. Unmounted(ds[modal]) \in Modal
      BY <3>1, UnmountedFields DEF ModalOK
    <3>3. QED
      BY <1>2, <2>2, <3>1, <3>2 DEF CloseModal
  <2>3. QED
    BY <2>1, <2>2
<1>7. modal' = 0 /\ (\A m \in unwanted' : m # modal') /\ (\A v \in delivered' : v.of # modal')
  BY DEF CloseModal, NoModal
<1>8. VideoTypeOK'
  BY <1>1, <1>6, <1>7 DEF VideoTypeOK
<1>9. QED
  BY <1>4, <1>5, <1>7, <1>8 DEF VideoInv

\* What is known of the open modal, and of one that is being worked on.
LEMMA ModalFacts ==
    ASSUME VideoInv
    PROVE  /\ \A m \in 1 .. opened : ModalOK(modals[m]) /\ WholeOrCut(modals[m])
           /\ \A m \in unwanted : m # modal /\ EndsUnseen(modals[m])
           /\ modal # NoModal => modal \in 1 .. opened
BY VideoAssumption DEF VideoInv, VideoTypeOK, NoModal

LEMMA OpenKeepsVideoInv ==
    ASSUME VideoInv, OpenModal
    PROVE  VideoInv'
<1>1. /\ opened \in 0 .. MaxModals /\ opened + 1 \in 1 .. MaxModals
      /\ opened' = opened + 1 /\ modal' = opened + 1
      /\ modals' = [modals EXCEPT ![opened + 1] = NewModal]
      /\ UNCHANGED <<delivered, unwanted>>
  BY VideoAssumption DEF OpenModal, VideoInv, VideoTypeOK
<1>2. ModalOK(NewModal) /\ WholeOrCut(NewModal)
  <2>1. /\ NewModal \in Modal /\ NewModal.asked = 1 /\ NewModal.streams = 0
        /\ NewModal.renders = 0
    BY VideoAssumption DEF NewModal, Modal
  <2>2. /\ NewModal.streamRef = FALSE /\ NewModal.media = "none"
        /\ NewModal.isRecording = FALSE
    BY DEF NewModal
  <2>3. QED
    BY <2>1, <2>2 DEF ModalOK, WholeOrCut
<1>3. /\ modals' \in [1 .. MaxModals -> Modal] /\ modals'[opened + 1] = NewModal
      /\ \A n \in 1 .. opened : modals'[n] = modals[n]
  BY <1>1, <1>2, VideoAssumption DEF VideoInv, VideoTypeOK, ModalOK
<1>4. \A n \in 1 .. opened' : n = opened + 1 \/ n \in 1 .. opened
  BY <1>1
<1>5. VideoTypeOK'
  <2>1. \A n \in 1 .. opened : n \in 1 .. opened' /\ n # modal'
    BY <1>1
  <2>2. modal' \in 0 .. opened' /\ opened' \in 0 .. MaxModals
    BY <1>1
  <2>3. QED
    BY <1>1, <1>3, <2>1, <2>2 DEF VideoInv, VideoTypeOK
<1>6. \A n \in 1 .. opened' : ModalOK(modals'[n]) /\ WholeOrCut(modals'[n])
  BY <1>2, <1>3, <1>4 DEF VideoInv
<1>7. /\ \A n \in unwanted : n # modal' /\ EndsUnseen(modals'[n])
      /\ \A v \in delivered : v.of # modal'
  <2>1. \A n \in 1 .. opened : n # modal'
    BY <1>1
  <2>2. QED
    BY <1>3, <2>1 DEF VideoInv, VideoTypeOK
<1>8. QED
  BY <1>1, <1>5, <1>6, <1>7 DEF VideoInv, SentAsRecorded

LEMMA CameraKeepsVideoInv ==
    ASSUME VideoInv, NEW m \in 1 .. opened,
           CameraGranted(m) \/ CameraDenied(m) \/ SecondPasses(m)
    PROVE  VideoInv'
<1> DEFINE d == modals[m]
<1>1. ModalOK(d) /\ WholeOrCut(d) /\ (m \in unwanted => EndsUnseen(d))
  BY ModalFacts
<1>2. CASE CameraGranted(m)
  <2> DEFINE e == [d EXCEPT !.asked = @ - 1, !.streams = @ + 1, !.streamRef = TRUE]
  <2>1. /\ d \in Modal /\ d.asked > 0 /\ d.asked + d.streams <= d.renders + 1
    BY <1>1, <1>2 DEF ModalOK, CameraGranted
  <2>2. d.asked - 1 \in 0 .. MaxRenders + 1 /\ d.streams + 1 \in 0 .. MaxRenders + 1
    BY <2>1, VideoAssumption DEF Modal
  <2>3. e \in Modal /\ e.asked = d.asked - 1 /\ e.streams = d.streams + 1
        /\ e.renders = d.renders /\ e.media = d.media /\ e.recorder = d.recorder
        /\ e.isRecording = d.isRecording /\ e.whole = d.whole /\ e.cutOff = d.cutOff
        /\ e.isCancelled = d.isCancelled
    BY <2>1, <2>2 DEF Modal
  <2>4. Put(m, e) /\ UNCHANGED <<modal, opened, delivered, unwanted>>
    BY <1>2 DEF CameraGranted
  <2> HIDE DEF e, d
  <2>5. e.asked + e.streams <= e.renders + 1 /\ e.streams > 0
    BY <2>1, <2>3 DEF Modal
  <2>6. ModalOK(e) /\ WholeOrCut(e) /\ (m \in unwanted => EndsUnseen(e))
    BY <1>1, <2>3, <2>5 DEF ModalOK, WholeOrCut, EndsUnseen
  <2>7. QED
    BY <2>4, <2>6, ModalChanges
<1>3. CASE CameraDenied(m)
  <2> DEFINE e == [d EXCEPT !.asked = @ - 1]
  <2>1. /\ d \in Modal /\ d.asked > 0 /\ d.asked + d.streams <= d.renders + 1
    BY <1>1, <1>3 DEF ModalOK, CameraDenied
  <2>2. d.asked - 1 \in 0 .. MaxRenders + 1
    BY <2>1, VideoAssumption DEF Modal
  <2>3. e \in Modal /\ e.asked = d.asked - 1 /\ e.streams = d.streams
        /\ e.streamRef = d.streamRef
        /\ e.renders = d.renders /\ e.media = d.media /\ e.recorder = d.recorder
        /\ e.isRecording = d.isRecording /\ e.whole = d.whole /\ e.cutOff = d.cutOff
        /\ e.isCancelled = d.isCancelled
    BY <2>1, <2>2 DEF Modal
  <2>4. Put(m, e) /\ UNCHANGED <<modal, opened, delivered, unwanted>>
    BY <1>3 DEF CameraDenied
  <2> HIDE DEF e, d
  <2>5. e.asked + e.streams <= e.renders + 1
    BY <2>1, <2>3 DEF Modal
  <2>6. ModalOK(e) /\ WholeOrCut(e) /\ (m \in unwanted => EndsUnseen(e))
    BY <1>1, <2>3, <2>5 DEF ModalOK, WholeOrCut, EndsUnseen
  <2>7. QED
    BY <2>4, <2>6, ModalChanges
<1>4. CASE SecondPasses(m)
  <2> DEFINE e == [d EXCEPT !.long = TRUE]
  <2>1. ModalOK(e) /\ WholeOrCut(e) /\ (m \in unwanted => EndsUnseen(e))
    BY <1>1 DEF ModalOK, WholeOrCut, EndsUnseen, Modal
  <2>2. Put(m, e) /\ UNCHANGED <<modal, opened, delivered, unwanted>>
    BY <1>4 DEF SecondPasses
  <2> HIDE DEF e
  <2>3. QED
    BY <2>1, <2>2, ModalChanges
<1>5. QED
  BY <1>2, <1>3, <1>4

LEMMA OpenModalKeepsVideoInv ==
    ASSUME VideoInv, ChatRenders \/ StartVideo \/ StopVideo
    PROVE  VideoInv'
<1> DEFINE d == modals[modal]
<1>1. modal \in 1 .. opened /\ modal \notin unwanted /\ ModalOK(d) /\ WholeOrCut(d)
  BY ModalFacts DEF ChatRenders, StartVideo, StopVideo
<1>2. CASE ChatRenders
  <2> DEFINE u == Unmounted(d)
             e == [u EXCEPT !.asked = @ + 1, !.renders = @ + 1]
  <2>1. ModalOK(u) /\ WholeOrCut(u) /\ u.renders = d.renders
    BY <1>1, UnmountedFields
  <2>2. u \in Modal /\ u.asked + u.streams <= u.renders + 1 /\ u.renders < MaxRenders
    BY <1>2, <2>1 DEF ModalOK, ChatRenders
  <2>3. Put(modal, e) /\ UNCHANGED <<modal, opened, delivered, unwanted>>
    BY <1>2 DEF ChatRenders
  <2> HIDE DEF u
  <2>4. u.asked + 1 \in 0 .. MaxRenders + 1 /\ u.renders + 1 \in 0 .. MaxRenders
    BY <2>2, VideoAssumption DEF Modal
  <2>5. e \in Modal /\ e.asked = u.asked + 1 /\ e.renders = u.renders + 1
        /\ e.streams = u.streams /\ e.streamRef = u.streamRef
        /\ e.media = u.media /\ e.recorder = u.recorder
        /\ e.isRecording = u.isRecording /\ e.whole = u.whole /\ e.cutOff = u.cutOff
    BY <2>2, <2>4 DEF Modal
  <2> HIDE DEF e
  <2>6. e.asked + e.streams <= e.renders + 1
    BY <2>2, <2>5 DEF Modal
  <2>7. ModalOK(e) /\ WholeOrCut(e)
    BY <2>1, <2>5, <2>6 DEF ModalOK, WholeOrCut
  <2>8. QED
    BY <1>1, <2>3, <2>7, ModalChanges
<1>3. CASE StartVideo
  <2> DEFINE e == [d EXCEPT !.isRecording = TRUE, !.recorder = TRUE,
                            !.media = "recording", !.whole = TRUE, !.long = FALSE,
                            !.isCancelled = FALSE, !.cutOff = FALSE]
  <2>1. d \in Modal
    BY <1>1 DEF ModalOK
  <2>2. e \in Modal /\ e.asked = d.asked /\ e.renders = d.renders
        /\ e.streams = d.streams /\ e.streamRef = d.streamRef
        /\ e.media = "recording" /\ e.recorder = TRUE /\ e.whole = TRUE
    BY <2>1 DEF Modal
  <2>3. Put(modal, e) /\ UNCHANGED <<modal, opened, delivered, unwanted>>
    BY <1>3 DEF StartVideo
  <2> HIDE DEF e, d
  <2>4. ModalOK(e) /\ WholeOrCut(e)
    BY <1>1, <2>2 DEF ModalOK, WholeOrCut
  <2>5. QED
    BY <1>1, <2>3, <2>4, ModalChanges
<1>4. CASE StopVideo
  <2>1. ModalOK(StopMedia(d)) /\ WholeOrCut(StopMedia(d))
    BY <1>1, StopMediaFields DEF WholeOrCut
  <2>2. Put(modal, StopMedia(d)) /\ UNCHANGED <<modal, opened, delivered, unwanted>>
    BY <1>4 DEF StopVideo
  <2>3. QED
    BY <1>1, <2>1, <2>2, ModalChanges
<1>5. QED
  BY <1>2, <1>3, <1>4

LEMMA CloseKeepsVideoInv ==
    ASSUME VideoInv, CloseVideo
    PROVE  VideoInv'
<1>1. /\ CloseModal(modals) /\ UNCHANGED <<opened, delivered, unwanted>>
      /\ modals \in [1 .. MaxModals -> Modal] /\ unwanted \subseteq 1 .. opened
      /\ delivered \subseteq [of : 1 .. opened, whole : BOOLEAN, cutOff : BOOLEAN]
  BY DEF CloseVideo, VideoInv, VideoTypeOK
<1>2. SentAsRecorded'
  BY <1>1 DEF VideoInv, SentAsRecorded
<1>3. QED
  BY <1>1, <1>2, ModalFacts, ModalCloses

LEMMA CancelKeepsVideoInv ==
    ASSUME VideoInv, CancelVideo
    PROVE  VideoInv'
<1> DEFINE d == modals[modal]
           e == [StopMedia(d) EXCEPT !.isCancelled = TRUE, !.isRecording = FALSE]
           ds == [modals EXCEPT ![modal] = CleanedUp(e)]
<1>1. modal \in 1 .. opened /\ ModalOK(d) /\ d.isRecording
  BY ModalFacts DEF CancelVideo
<1>2. /\ ModalOK(StopMedia(d)) /\ StopMedia(d) \in Modal
      /\ StopMedia(d).media = "stopping"
  BY <1>1, StopMediaFields DEF ModalOK
<1>3. ModalOK(e) /\ e.media = "stopping" /\ e.isCancelled = TRUE /\ e.isRecording = FALSE
  <2> DEFINE c == StopMedia(d)
  <2> HIDE DEF c
  <2>1. e = [c EXCEPT !.isCancelled = TRUE, !.isRecording = FALSE]
    BY DEF c
  <2>2. c \in Modal /\ ModalOK(c) /\ c.media = "stopping"
    BY <1>2 DEF c
  <2> HIDE DEF e
  <2>3. QED
    BY <2>1, <2>2 DEF ModalOK, Modal
<1>4. /\ CloseModal(ds) /\ UNCHANGED <<opened, delivered>>
      /\ unwanted' = unwanted \cup {modal}
  BY DEF CancelVideo
<1> HIDE DEF e, d
<1>5. /\ CleanedUp(e) \in Modal /\ CleanedUp(e).media = "stopping"
      /\ CleanedUp(e).isCancelled = TRUE /\ ModalOK(CleanedUp(e))
  <2> DEFINE c == CleanedUp(e)
  <2>1. /\ c \in Modal /\ c.media = "stopping" /\ c.isCancelled = TRUE
        /\ c.isRecording = FALSE /\ c.asked = e.asked /\ c.renders = e.renders
        /\ c.streams <= e.streams /\ c.streamRef = FALSE
    BY <1>3, CleanedUpFields
  <2> HIDE DEF c
  <2>2. c.asked + c.streams <= c.renders + 1
    BY <1>3, <2>1, VideoAssumption DEF ModalOK, Modal
  <2>3. ModalOK(c)
    BY <2>1, <2>2 DEF ModalOK
  <2>4. QED
    BY <2>1, <2>3 DEF c
<1>6. /\ modals \in [1 .. MaxModals -> Modal] /\ unwanted \subseteq 1 .. opened
      /\ delivered \subseteq [of : 1 .. opened, whole : BOOLEAN, cutOff : BOOLEAN]
      /\ 1 .. opened \subseteq 1 .. MaxModals
  BY VideoAssumption DEF VideoInv, VideoTypeOK
<1>7. /\ ds \in [1 .. MaxModals -> Modal] /\ ds[modal] = CleanedUp(e)
      /\ \A n \in 1 .. opened : n # modal => ds[n] = modals[n]
  BY <1>1, <1>5, <1>6
<1> HIDE DEF ds
<1>8. \A m \in 1 .. opened : ModalOK(ds[m]) /\ (m # modal => WholeOrCut(ds[m]))
  BY <1>5, <1>7, ModalFacts
<1>9. \A m \in unwanted' : EndsUnseen(ds[m])
  BY <1>4, <1>5, <1>6, <1>7, ModalFacts DEF EndsUnseen
<1>10. SentAsRecorded'
  BY <1>4 DEF VideoInv, SentAsRecorded
<1>11. unwanted' \subseteq 1 .. opened
  BY <1>1, <1>4, <1>6
<1>12. delivered' \subseteq [of : 1 .. opened, whole : BOOLEAN, cutOff : BOOLEAN]
  BY <1>4, <1>6
<1>13. QED
  BY <1>4, <1>7, <1>8, <1>9, <1>10, <1>11, <1>12, ModalCloses

LEMMA ErrorKeepsVideoInv ==
    ASSUME VideoInv, NEW m \in 1 .. opened, MediaError(m)
    PROVE  VideoInv'
<1> DEFINE d == modals[m]
           c == CleanedUp(d)
           e == [c EXCEPT !.isRecording = FALSE, !.cutOff = TRUE, !.media = "stopping"]
<1>1. ModalOK(d) /\ d.media = "recording" /\ (m \in unwanted => EndsUnseen(d))
  BY ModalFacts DEF MediaError
<1>2. Put(m, e) /\ UNCHANGED <<modal, opened, delivered, unwanted>>
  BY DEF MediaError
<1>3. /\ c \in Modal /\ c.asked = d.asked /\ c.renders = d.renders
      /\ c.streams <= d.streams /\ c.streamRef = FALSE
  BY <1>1, CleanedUpFields
<1> HIDE DEF c, d
<1>4. /\ e \in Modal /\ e.asked = c.asked /\ e.renders = c.renders
      /\ e.streams = c.streams /\ e.streamRef = FALSE
      /\ e.isRecording = FALSE /\ e.media = "stopping" /\ e.cutOff = TRUE
  BY <1>3 DEF Modal
<1> HIDE DEF e
<1>5. e.asked + e.streams <= e.renders + 1
  BY <1>1, <1>3, <1>4, VideoAssumption DEF ModalOK, Modal
<1>6. ModalOK(e) /\ WholeOrCut(e) /\ m \notin unwanted
  BY <1>1, <1>4, <1>5 DEF ModalOK, WholeOrCut, EndsUnseen
<1>7. QED
  BY <1>2, <1>6, ModalChanges

LEMMA StopKeepsVideoInv ==
    ASSUME VideoInv, NEW m \in 1 .. opened, OnVideoStop(m)
    PROVE  VideoInv'
<1> DEFINE d == modals[m]
           c == [d EXCEPT !.media = "ended", !.isRecording = FALSE]
           e == CleanedUp(c)
           f == [e EXCEPT !.isCancelled = FALSE]
<1>1. /\ ModalOK(d) /\ WholeOrCut(d) /\ d \in Modal /\ d.media = "stopping"
      /\ (m \in unwanted => EndsUnseen(d))
  BY ModalFacts DEF OnVideoStop, ModalOK
<1>2. UNCHANGED <<opened, unwanted>>
  BY DEF OnVideoStop
<1>3. /\ d.isCancelled => Put(m, f) /\ UNCHANGED <<modal, delivered>>
      /\ ~d.isCancelled /\ ~d.long => Put(m, e) /\ UNCHANGED <<modal, delivered>>
      /\ ~d.isCancelled /\ d.long =>
            /\ delivered' = delivered \cup {[of |-> m, whole |-> d.whole, cutOff |-> d.cutOff]}
            /\ CloseModal([modals EXCEPT ![m] = e])
  BY DEF OnVideoStop
<1> HIDE DEF d
<1>4. ModalOK(c) /\ c.media = "ended" /\ c.isRecording = FALSE
  BY <1>1 DEF ModalOK, Modal
<1> HIDE DEF c
<1>5. /\ e \in Modal /\ e.asked = c.asked /\ e.renders = c.renders
      /\ e.streams <= c.streams /\ e.streamRef = FALSE
      /\ e.isRecording = FALSE /\ e.media = "ended"
  BY <1>4, CleanedUpFields
<1> HIDE DEF e
<1>6. e.asked + e.streams <= e.renders + 1
  BY <1>4, <1>5, VideoAssumption DEF ModalOK, Modal
<1>7. ModalOK(e) /\ WholeOrCut(e) /\ EndsUnseen(e)
  BY <1>5, <1>6 DEF ModalOK, WholeOrCut, EndsUnseen
<1>8. ModalOK(f) /\ WholeOrCut(f) /\ EndsUnseen(f)
  BY <1>5, <1>7 DEF ModalOK, WholeOrCut, EndsUnseen, Modal
<1> HIDE DEF f
<1>9. CASE d.isCancelled
  BY <1>2, <1>3, <1>8, <1>9, ModalChanges
<1>10. CASE ~d.isCancelled /\ ~d.long
  BY <1>2, <1>3, <1>7, <1>10, ModalChanges
<1>11. CASE ~d.isCancelled /\ d.long
  <2> DEFINE ds == [modals EXCEPT ![m] = e]
  <2>1. m \notin unwanted /\ (d.whole \/ d.cutOff)
    BY <1>1, <1>11 DEF EndsUnseen, WholeOrCut
  <2>2. /\ modals \in [1 .. MaxModals -> Modal] /\ unwanted \subseteq 1 .. opened
        /\ delivered \subseteq [of : 1 .. opened, whole : BOOLEAN, cutOff : BOOLEAN]
        /\ 1 .. opened \subseteq 1 .. MaxModals
    BY VideoAssumption DEF VideoInv, VideoTypeOK
  <2>3. /\ ds \in [1 .. MaxModals -> Modal] /\ ds[m] = e
        /\ \A n \in 1 .. opened : n # m => ds[n] = modals[n]
    BY <1>5, <2>2
  <2>4. CloseModal(ds)
    BY <1>3, <1>11
  <2> HIDE DEF ds
  <2>5. \A n \in 1 .. opened : ModalOK(ds[n]) /\ WholeOrCut(ds[n])
    BY <1>7, <2>3, ModalFacts
  <2>6. \A n \in unwanted' : EndsUnseen(ds[n])
    BY <1>2, <2>1, <2>2, <2>3, ModalFacts
  <2>7. d.whole \in BOOLEAN /\ d.cutOff \in BOOLEAN
    BY <1>1 DEF Modal
  <2>8. delivered' = delivered \cup {[of |-> m, whole |-> d.whole, cutOff |-> d.cutOff]}
    BY <1>3, <1>11
  <2>9. delivered' \subseteq [of : 1 .. opened, whole : BOOLEAN, cutOff : BOOLEAN]
    BY <2>2, <2>7, <2>8
  <2>10. SentAsRecorded'
    BY <1>2, <2>1, <2>8 DEF VideoInv, SentAsRecorded
  <2>11. unwanted' \subseteq 1 .. opened
    BY <1>2, <2>2
  <2>12. QED
    BY <1>2, <2>3, <2>4, <2>5, <2>6, <2>9, <2>10, <2>11, ModalCloses
<1>12. QED
  BY <1>9, <1>10, <1>11

\* The invariant of the camera modals holds in every state of them.
THEOREM VideoInvHolds == VideoSpec => []VideoInv
<1>1. VideoInit => VideoInv
  <2> SUFFICES ASSUME VideoInit PROVE VideoInv
    OBVIOUS
  <2>1. Unused \in Modal
    <3>1. NewModal \in Modal /\ 0 \in 0 .. MaxRenders + 1
      BY VideoAssumption DEF NewModal, Modal
    <3>2. QED
      BY <3>1 DEF Unused, Modal
  <2>2. modals \in [1 .. MaxModals -> Modal]
    BY <2>1 DEF VideoInit
  <2>3. modal = 0 /\ opened = 0 /\ unwanted = {} /\ delivered = {}
    BY DEF VideoInit, NoModal
  <2>4. QED
    BY <2>2, <2>3, VideoAssumption DEF VideoInv, VideoTypeOK, SentAsRecorded
<1>2. VideoInv /\ [VideoNext]_videoVars => VideoInv'
  <2> SUFFICES ASSUME VideoInv, [VideoNext]_videoVars
               PROVE  VideoInv'
    OBVIOUS
  <2>1. CASE UNCHANGED videoVars
    BY <2>1 DEF VideoInv, VideoTypeOK, SentAsRecorded, videoVars
  <2>2. CASE VideoNext
    BY <2>2, OpenKeepsVideoInv, OpenModalKeepsVideoInv, CancelKeepsVideoInv,
       CloseKeepsVideoInv, CameraKeepsVideoInv, ErrorKeepsVideoInv, StopKeepsVideoInv
    DEF VideoNext
  <2>3. QED
    BY <2>1, <2>2
<1>3. QED
  BY <1>1, <1>2, PTL DEF VideoSpec

\* A cancelled recording is never sent, and one that is sent is complete unless
\* something other than its user cut it off (SentAsRecorded;
\* VideoRecorderModal.tsx, whose onstop comes after the call that caused it).
THEOREM SentAsRecordedHolds == VideoSpec => []SentAsRecorded
BY VideoInvHolds, PTL DEF VideoInv

-----------------------------------------------------------------------------
(* The microphone.                                                         *)

Starts(r) == r.stream = "asked" \/ r.media = "starting"

\* A microphone is open from the start to the end of a recording; while no two
\* starts have overlapped, the recorder that has one open is the one that started
\* it, or has its time limit running.
RecorderOK(r, o) ==
    /\ r \in AudioRecorder
    /\ r.stream = "asked" => r.media = "none"
    /\ r.stream = "live" => r.media \in {"starting", "recording", "stopping"}
    /\ ~o => /\ r.stream = "live" /\ r.media = "starting" => r.awaitingStart
             /\ r.stream = "live" /\ r.media = "recording" =>
                   r.state = "recording" /\ r.durationTimer /\ r.startTime

\* One recorder starts at a time, the last one, and not while the button shows a
\* recording.
VoiceInv ==
    /\ recorders \in Seq(AudioRecorder)
    /\ recorderRef \in 0 .. Len(recorders)
    /\ mounted \in BOOLEAN /\ isRecording \in BOOLEAN /\ overlapped \in BOOLEAN
    /\ \A i \in 1 .. Len(recorders) : RecorderOK(recorders[i], overlapped)
    /\ ~overlapped => \A i \in 1 .. Len(recorders) :
          Starts(recorders[i]) => i = Len(recorders) /\ (mounted => ~isRecording)

LEMMA VoiceFacts ==
    ASSUME VoiceInv
    PROVE  /\ DOMAIN recorders = 1 .. Len(recorders) /\ Len(recorders) \in Nat
           /\ \A i \in 1 .. Len(recorders) :
                 recorders[i] \in AudioRecorder /\ RecorderOK(recorders[i], overlapped)
BY DEF VoiceInv

\* A step that changes one recorder, starts none and does not make the button show
\* a recording, unless it is this recorder's start that ends.
LEMMA OneRecorderChanges ==
    ASSUME VoiceInv, NEW i \in 1 .. Len(recorders), NEW r, RecorderOK(r, overlapped),
           Becomes(i, r), Starts(r) => Starts(recorders[i]),
           mounted' \in BOOLEAN, isRecording' \in BOOLEAN, UNCHANGED overlapped,
           recorderRef' \in 0 .. Len(recorders), mounted' => mounted,
           isRecording' => isRecording \/ (Starts(recorders[i]) /\ ~Starts(r))
    PROVE  VoiceInv'
<1>1. r \in AudioRecorder /\ recorders \in Seq(AudioRecorder)
  BY DEF RecorderOK, VoiceInv
<1>2. /\ recorders' \in Seq(AudioRecorder) /\ Len(recorders') = Len(recorders)
      /\ recorders'[i] = r
      /\ \A j \in 1 .. Len(recorders) : j # i => recorders'[j] = recorders[j]
  BY <1>1, ReplacedIn DEF Becomes
<1>3. \A j \in 1 .. Len(recorders') : RecorderOK(recorders'[j], overlapped)
  BY <1>2, VoiceFacts
<1>4. ASSUME ~overlapped, NEW j \in 1 .. Len(recorders), Starts(recorders'[j])
      PROVE  j = Len(recorders) /\ (mounted' => ~isRecording')
  <2>1. \A k \in 1 .. Len(recorders) :
            Starts(recorders[k]) => k = Len(recorders) /\ (mounted => ~isRecording)
    BY <1>4 DEF VoiceInv
  <2>2. Starts(recorders[j])
    BY <1>2, <1>4
  <2>3. j = Len(recorders) /\ (mounted => ~isRecording)
    BY <2>1, <2>2
  <2>4. CASE j = i
    BY <1>2, <1>4, <2>3, <2>4
  <2>5. CASE j # i
    BY <2>1, <2>3, <2>5
  <2>6. QED
    BY <2>3, <2>4, <2>5
<1>5. QED
  BY <1>2, <1>3, <1>4 DEF VoiceInv

LEMMA RecorderStep ==
    ASSUME VoiceInv, NEW i \in 1 .. Len(recorders), NEW r, RecorderOK(r, overlapped),
           Becomes(i, r), Starts(r) => Starts(recorders[i]),
           UNCHANGED <<mounted, isRecording, recorderRef, overlapped>>
    PROVE  VoiceInv'
<1>1. /\ mounted' \in BOOLEAN /\ isRecording' \in BOOLEAN
      /\ mounted' => mounted
      /\ isRecording' => isRecording
  BY Zenon DEF VoiceInv
<1>2. recorderRef' \in 0 .. Len(recorders)
  BY DEF VoiceInv
<1>3. overlapped' = overlapped
  OBVIOUS
<1>4. QED
  BY <1>1, <1>2, <1>3, OneRecorderChanges

\* What the methods of a recorder leave of a microphone that is open: none of them
\* starts one, and a cancel that finds it recording stops it.
LEMMA RecorderMethods ==
    ASSUME NEW r, NEW o \in BOOLEAN, RecorderOK(r, o), NEW wanted \in BOOLEAN
    PROVE  /\ RecorderOK(StopOf(r, wanted), o)
           /\ Starts(StopOf(r, wanted)) => Starts(r)
           /\ RecorderOK(CleanupOf(r), o)
           /\ Starts(CleanupOf(r)) => Starts(r)
           /\ o \/ ~Starts(r) => RecorderOK(CancelOf(r), o)
           /\ Starts(CancelOf(r)) => Starts(r)
<1>1. /\ r \in AudioRecorder
      /\ StopOf(r, wanted) \in AudioRecorder /\ StopOf(r, FALSE) \in AudioRecorder
      /\ CancelOf(r) \in AudioRecorder
  BY DEF RecorderOK, AudioRecorder, StopOf, CancelOf, MediaActive
<1>2. \A w \in BOOLEAN :
          RecorderOK(StopOf(r, w), o) /\ (Starts(StopOf(r, w)) => Starts(r))
  BY DEF RecorderOK, AudioRecorder, StopOf, MediaActive, Starts
<1>3. /\ o \/ ~Starts(r) => RecorderOK(CancelOf(r), o)
      /\ Starts(CancelOf(r)) => Starts(r)
  BY DEF RecorderOK, AudioRecorder, CancelOf, MediaActive, Starts
<1>4. RecorderOK(CleanupOf(r), o) /\ (Starts(CleanupOf(r)) => Starts(r))
  <2>1. CASE r.state = "recording"
    BY <1>2, <2>1 DEF CleanupOf
  <2>2. CASE r.state # "recording"
    BY <2>2 DEF CleanupOf, StopStream, RecorderOK, AudioRecorder, CancelOf,
                MediaActive, Starts
  <2>3. QED
    BY <2>1, <2>2
<1>5. QED
  BY <1>2, <1>3, <1>4

LEMMA StartKeepsVoiceInv ==
    ASSUME VoiceInv, StartRecording
    PROVE  VoiceInv'
<1> DEFINE r == [state |-> "idle", stream |-> "asked", media |-> "none",
                 startTime |-> FALSE, durationTimer |-> FALSE,
                 awaitingStart |-> FALSE, stopResolve |-> FALSE, chunks |-> FALSE]
<1>1. \A o \in BOOLEAN : RecorderOK(r, o)
  BY DEF RecorderOK, AudioRecorder
<1>2. /\ recorders' = Append(recorders, r)
      /\ recorderRef' = Len(recorders) + 1
      /\ mounted' = mounted /\ isRecording' = isRecording /\ ~isRecording
  BY DEF StartRecording
<1>3. r \in AudioRecorder /\ recorders \in Seq(AudioRecorder) /\ overlapped \in BOOLEAN
  BY <1>1 DEF RecorderOK, VoiceInv
<1>4. overlapped' = (overlapped \/ \E i \in 1 .. Len(recorders) : Starts(recorders[i]))
  BY VoiceFacts DEF StartRecording, Starts
<1>5. overlapped' \in BOOLEAN /\ (overlapped => overlapped')
  BY <1>4
<1> HIDE DEF r
<1>6. /\ recorders' \in Seq(AudioRecorder) /\ Len(recorders') = Len(recorders) + 1
      /\ recorders'[Len(recorders) + 1] = r
      /\ \A i \in 1 .. Len(recorders) : recorders'[i] = recorders[i]
  BY <1>2, <1>3, AppendedTo
<1>7. \A i \in 1 .. Len(recorders') : RecorderOK(recorders'[i], overlapped')
  <2> SUFFICES ASSUME NEW i \in 1 .. Len(recorders')
               PROVE  RecorderOK(recorders'[i], overlapped')
    OBVIOUS
  <2>1. CASE i = Len(recorders) + 1
    BY <1>1, <1>5, <1>6, <2>1
  <2>2. CASE i # Len(recorders) + 1
    <3>1. i \in 1 .. Len(recorders)
      BY <1>3, <1>6, <2>2
    <3>2. RecorderOK(recorders[i], overlapped)
      BY <3>1, VoiceFacts
    <3>3. RecorderOK(recorders[i], overlapped')
      BY <1>5, <3>2 DEF RecorderOK
    <3>4. QED
      BY <1>6, <3>1, <3>3
  <2>3. QED
    BY <2>1, <2>2
<1>8. ~overlapped' => \A i \in 1 .. Len(recorders') :
          Starts(recorders'[i]) => i = Len(recorders') /\ (mounted' => ~isRecording')
  <2> SUFFICES ASSUME ~overlapped', NEW i \in 1 .. Len(recorders'), Starts(recorders'[i])
               PROVE  i = Len(recorders')
    BY <1>2
  <2>1. \A j \in 1 .. Len(recorders) : ~Starts(recorders'[j])
    BY <1>4, <1>6
  <2>2. i \notin 1 .. Len(recorders)
    BY <2>1
  <2>3. QED
    BY <1>3, <1>6, <2>2
<1>9. recorderRef' \in 0 .. Len(recorders')
  BY <1>2, <1>3, <1>6
<1>10. mounted' \in BOOLEAN /\ isRecording' \in BOOLEAN
  BY <1>2 DEF VoiceInv
<1>11. QED
  BY <1>5, <1>6, <1>7, <1>8, <1>9, <1>10 DEF VoiceInv

LEMMA BeginsKeepsVoiceInv ==
    ASSUME VoiceInv, NEW i \in 1 .. Len(recorders),
           Denied(i) \/ Granted(i) \/ Begun(i) \/ StartError(i)
    PROVE  VoiceInv'
<1> DEFINE r == recorders[i]
<1>1. RecorderOK(r, overlapped) /\ r \in AudioRecorder
  BY VoiceFacts
<1>2. /\ mounted \in BOOLEAN /\ isRecording \in BOOLEAN /\ overlapped \in BOOLEAN
      /\ recorderRef \in 0 .. Len(recorders)
  BY DEF VoiceInv
<1>3. CASE Denied(i)
  <2> DEFINE n == [r EXCEPT !.state = "error", !.stream = "none"]
  <2>1. RecorderOK(n, overlapped) /\ ~Starts(n)
    BY <1>1, <1>3 DEF Denied, RecorderOK, AudioRecorder, Starts
  <2>2. Becomes(i, n) /\ isRecording' = FALSE
        /\ UNCHANGED <<mounted, recorderRef, overlapped>>
    BY <1>3 DEF Denied, ShowFailure
  <2> HIDE DEF n
  <2>3. QED
    BY <1>2, <2>1, <2>2, OneRecorderChanges
<1>4. CASE Granted(i)
  <2> DEFINE n == [r EXCEPT !.stream = "live", !.media = "starting",
                            !.awaitingStart = TRUE]
  <2>1. RecorderOK(n, overlapped) /\ Starts(r)
    BY <1>1, <1>4 DEF Granted, RecorderOK, AudioRecorder, Starts
  <2>2. Becomes(i, n) /\ UNCHANGED <<mounted, isRecording, recorderRef, overlapped>>
    BY <1>4 DEF Granted, buttonVars
  <2> HIDE DEF n
  <2>3. QED
    BY <2>1, <2>2, RecorderStep
<1>5. CASE Begun(i)
  <2> DEFINE n == [r EXCEPT !.media = "recording", !.chunks = TRUE,
                      !.state = IF r.awaitingStart THEN "recording" ELSE @,
                      !.startTime = @ \/ r.awaitingStart,
                      !.durationTimer = @ \/ r.awaitingStart,
                      !.awaitingStart = FALSE]
  <2>1. RecorderOK(n, overlapped) /\ ~Starts(n) /\ Starts(r)
    BY <1>1, <1>5 DEF Begun, RecorderOK, AudioRecorder, Starts
  <2>2. Becomes(i, n) /\ isRecording' = TRUE
        /\ UNCHANGED <<mounted, recorderRef, overlapped>>
    BY <1>5 DEF Begun
  <2> HIDE DEF n
  <2>3. QED
    BY <1>2, <2>1, <2>2, OneRecorderChanges
<1>6. CASE StartError(i)
  <2> DEFINE n == StopStream([r EXCEPT !.state = "error", !.media = "ended",
                                       !.awaitingStart = FALSE])
  <2>1. RecorderOK(n, overlapped) /\ ~Starts(n)
    BY <1>1, <1>6 DEF StartError, StopStream, RecorderOK, AudioRecorder, Starts
  <2>2. Becomes(i, n) /\ isRecording' = FALSE
        /\ UNCHANGED <<mounted, recorderRef, overlapped>>
    BY <1>6 DEF StartError, ShowFailure
  <2> HIDE DEF n
  <2>3. QED
    BY <1>2, <2>1, <2>2, OneRecorderChanges
<1>7. QED
  BY <1>3, <1>4, <1>5, <1>6

\* The button works with the recorder it names, which is not starting while the
\* button shows a recording; after a stop it names none.
LEMMA StopKeepsVoiceInv ==
    ASSUME VoiceInv, NEW i \in 1 .. Len(recorders), NEW r, RecorderOK(r, overlapped),
           Starts(r) => Starts(recorders[i]), NEW blob, AfterStop(i, r, blob)
    PROVE  VoiceInv'
<1>1. /\ RecorderOK(CleanupOf(r), overlapped)
      /\ Starts(CleanupOf(r)) => Starts(recorders[i])
  BY RecorderMethods DEF VoiceInv
<1>2. /\ Becomes(i, CleanupOf(r)) /\ isRecording' = FALSE /\ recorderRef' = 0
      /\ UNCHANGED <<mounted, overlapped>>
  BY DEF AfterStop, NoRecorder
<1>3. /\ mounted \in BOOLEAN /\ Len(recorders) \in Nat
      /\ 0 \in 0 .. Len(recorders)
  BY DEF VoiceInv
<1>4. QED
  BY <1>1, <1>2, <1>3, OneRecorderChanges

LEMMA ClickKeepsVoiceInv ==
    ASSUME VoiceInv, StopRecording
    PROVE  VoiceInv'
<1> DEFINE i == recorderRef
           n == StopOf(recorders[i], TRUE)
<1>1. i \in 1 .. Len(recorders)
  BY DEF StopRecording, VoiceInv, NoRecorder
<1>2. RecorderOK(recorders[i], overlapped)
  BY <1>1, VoiceFacts
<1>3. RecorderOK(n, overlapped) /\ (Starts(n) => Starts(recorders[i]))
  BY <1>2, RecorderMethods DEF VoiceInv
<1>4. \/ Becomes(i, n) /\ UNCHANGED buttonVars
      \/ AfterStop(i, n, FALSE)
  BY DEF StopRecording
<1> HIDE DEF n
<1>5. CASE Becomes(i, n) /\ UNCHANGED buttonVars
  BY <1>1, <1>3, <1>5, RecorderStep DEF buttonVars
<1>6. CASE AfterStop(i, n, FALSE)
  BY <1>1, <1>3, <1>6, StopKeepsVoiceInv
<1>7. QED
  BY <1>4, <1>5, <1>6

LEMMA EndsKeepsVoiceInv ==
    ASSUME VoiceInv, NEW i \in 1 .. Len(recorders),
           LimitReached(i) \/ DeviceLost(i) \/ OnStop(i)
    PROVE  VoiceInv'
<1> DEFINE r == recorders[i]
<1>1. RecorderOK(r, overlapped) /\ r \in AudioRecorder
  BY VoiceFacts
<1>2. /\ mounted \in BOOLEAN /\ isRecording \in BOOLEAN /\ overlapped \in BOOLEAN
      /\ recorderRef \in 0 .. Len(recorders)
  BY DEF VoiceInv
<1>3. ASSUME NEW n, RecorderOK(n, overlapped), Starts(n) => Starts(r),
             Becomes(i, n), UNCHANGED buttonVars
      PROVE  VoiceInv'
  BY <1>3, RecorderStep DEF buttonVars
<1>4. CASE LimitReached(i)
  <2>1. RecorderOK(StopOf(r, FALSE), overlapped)
        /\ (Starts(StopOf(r, FALSE)) => Starts(r))
    BY <1>1, <1>2, RecorderMethods
  <2>2. QED
    BY <1>3, <1>4, <2>1 DEF LimitReached
<1>5. CASE DeviceLost(i)
  <2> DEFINE n == [r EXCEPT !.media = "stopping"]
  <2>1. RecorderOK(n, overlapped) /\ (Starts(n) => Starts(r))
    BY <1>1, <1>5 DEF DeviceLost, RecorderOK, AudioRecorder, Starts
  <2>2. Becomes(i, n) /\ UNCHANGED buttonVars
    BY <1>5 DEF DeviceLost
  <2> HIDE DEF n
  <2>3. QED
    BY <1>3, <2>1, <2>2
<1>6. CASE OnStop(i)
  <2> DEFINE n == Ended(r)
  <2>1. RecorderOK(n, overlapped) /\ (Starts(n) => Starts(r))
    BY <1>1, <1>6 DEF OnStop, Ended, StopStream, RecorderOK, AudioRecorder, Starts
  <2>2. \/ AfterStop(i, n, r.chunks)
        \/ Becomes(i, n) /\ UNCHANGED buttonVars
    BY <1>6 DEF OnStop
  <2> HIDE DEF n
  <2>3. CASE AfterStop(i, n, r.chunks)
    BY <2>1, <2>3, StopKeepsVoiceInv
  <2>4. CASE Becomes(i, n) /\ UNCHANGED buttonVars
    BY <1>3, <2>1, <2>4
  <2>5. QED
    BY <2>2, <2>3, <2>4
<1>7. QED
  BY <1>4, <1>5, <1>6

\* A step of the button that leaves the recorders as they are.
LEMMA ButtonChanges ==
    ASSUME VoiceInv, UNCHANGED <<recorders, overlapped>>,
           recorderRef' \in 0 .. Len(recorders),
           mounted' \in BOOLEAN, isRecording' \in BOOLEAN,
           mounted' => mounted, isRecording' => isRecording
    PROVE  VoiceInv'
BY DEF VoiceInv

LEMMA CancelKeepsVoiceInv ==
    ASSUME VoiceInv, CancelRecording
    PROVE  VoiceInv'
<1>1. /\ mounted /\ isRecording /\ isRecording' = FALSE /\ recorderRef' = 0
      /\ UNCHANGED <<mounted, overlapped>>
  BY DEF CancelRecording, NoRecorder
<1>2. mounted \in BOOLEAN /\ overlapped \in BOOLEAN /\ 0 \in 0 .. Len(recorders)
  BY DEF VoiceInv
<1>3. CASE recorderRef = NoRecorder
  <2>1. UNCHANGED recorders
    BY <1>3 DEF CancelRecording
  <2>2. QED
    BY <1>1, <1>2, <2>1, ButtonChanges
<1>4. CASE recorderRef # NoRecorder
  <2> DEFINE i == recorderRef
             n == CancelOf(recorders[i])
  <2>1. i \in 1 .. Len(recorders)
    BY <1>4 DEF VoiceInv, NoRecorder
  <2>2. overlapped \/ ~Starts(recorders[i])
    BY <1>1, <2>1 DEF VoiceInv
  <2>3. RecorderOK(recorders[i], overlapped)
    BY <2>1, VoiceFacts
  <2>4. RecorderOK(n, overlapped) /\ (Starts(n) => Starts(recorders[i]))
    BY <1>2, <2>2, <2>3, RecorderMethods
  <2>5. Becomes(i, n)
    BY <1>4 DEF CancelRecording, Becomes
  <2> HIDE DEF n
  <2>6. QED
    BY <1>1, <1>2, <2>1, <2>4, <2>5, OneRecorderChanges
<1>5. QED
  BY <1>3, <1>4

LEMMA UnmountKeepsVoiceInv ==
    ASSUME VoiceInv, UnmountVoice
    PROVE  VoiceInv'
<1>1. mounted' = FALSE /\ UNCHANGED <<isRecording, recorderRef, overlapped>>
  BY DEF UnmountVoice
<1>2. isRecording \in BOOLEAN /\ overlapped \in BOOLEAN
      /\ recorderRef \in 0 .. Len(recorders)
  BY DEF VoiceInv
<1>3. CASE recorderRef = NoRecorder \/ isRecording
  <2>1. UNCHANGED recorders
    BY <1>3 DEF UnmountVoice
  <2>2. QED
    BY <1>1, <1>2, <2>1, ButtonChanges
<1>4. CASE ~(recorderRef = NoRecorder \/ isRecording)
  <2> DEFINE i == recorderRef
             n == CleanupOf(recorders[i])
  <2>1. i \in 1 .. Len(recorders)
    BY <1>4 DEF VoiceInv, NoRecorder
  <2>2. RecorderOK(recorders[i], overlapped)
    BY <2>1, VoiceFacts
  <2>3. RecorderOK(n, overlapped) /\ (Starts(n) => Starts(recorders[i]))
    BY <1>2, <2>2, RecorderMethods
  <2>4. Becomes(i, n)
    BY <1>4 DEF UnmountVoice, Becomes
  <2> HIDE DEF n
  <2>5. /\ mounted' \in BOOLEAN /\ isRecording' \in BOOLEAN
        /\ mounted' => mounted
        /\ isRecording' => isRecording
    BY <1>1, <1>2, Zenon
  <2>6. recorderRef' \in 0 .. Len(recorders) /\ overlapped' = overlapped
    BY <1>1, <1>2
  <2>7. QED
    BY <2>1, <2>3, <2>4, <2>5, <2>6, OneRecorderChanges
<1>5. QED
  BY <1>3, <1>4

\* The invariant of VoiceRecorder.tsx and its AudioRecorders.
THEOREM VoiceInvHolds == VoiceSpec => []VoiceInv
<1>1. VoiceInit => VoiceInv
  <2> SUFFICES ASSUME VoiceInit
               PROVE  VoiceInv
    OBVIOUS
  <2>1. recorders = <<>> /\ recorderRef = 0 /\ Len(recorders) = 0
    BY DEF VoiceInit, NoRecorder
  <2>2. mounted \in BOOLEAN /\ isRecording \in BOOLEAN /\ overlapped \in BOOLEAN
    BY DEF VoiceInit
  <2>3. \A i : i \notin 1 .. Len(recorders)
    BY <2>1
  <2>4. recorders \in Seq(AudioRecorder) /\ recorderRef \in 0 .. Len(recorders)
    BY <2>1
  <2>5. QED
    BY <2>2, <2>3, <2>4, Zenon DEF VoiceInv
<1>2. VoiceInv /\ [VoiceNext]_voiceVars => VoiceInv'
  <2> SUFFICES ASSUME VoiceInv, [VoiceNext]_voiceVars
               PROVE  VoiceInv'
    OBVIOUS
  <2>1. CASE UNCHANGED voiceVars
    BY <2>1 DEF VoiceInv, voiceVars, buttonVars
  <2>2. CASE StartRecording \/ StopRecording \/ CancelRecording \/ UnmountVoice
    BY <2>2, StartKeepsVoiceInv, ClickKeepsVoiceInv, CancelKeepsVoiceInv,
       UnmountKeepsVoiceInv
  <2>3. ASSUME NEW i \in DOMAIN recorders,
               \/ Denied(i) \/ Granted(i) \/ Begun(i) \/ StartError(i)
               \/ LimitReached(i) \/ DeviceLost(i) \/ OnStop(i)
        PROVE  VoiceInv'
    BY <2>3, VoiceFacts, BeginsKeepsVoiceInv, EndsKeepsVoiceInv
  <2>4. QED
    BY <2>1, <2>2, <2>3 DEF VoiceNext
<1>3. QED
  BY <1>1, <1>2, PTL DEF VoiceSpec

\* A microphone that is open is being started or stopped, or its recorder's time
\* limit runs, unless two starts overlapped (MicrophoneIsReleased;
\* AudioRecorder.start, stop and cancel, and the cleanup of VoiceRecorder.tsx).
THEOREM MicrophoneIsReleasedHolds == VoiceSpec => []MicrophoneIsReleased
<1>1. VoiceInv => MicrophoneIsReleased
  BY VoiceFacts DEF MicrophoneIsReleased, RecorderOK
<1>2. QED
  BY <1>1, VoiceInvHolds, PTL

\* The recorders whose recording has not begun.
NotBegun == {"none", "starting"}
Unbegun == {i \in DOMAIN recorders : recorders[i].media \in NotBegun}

\* An interval was set for a recording that began, and each begins once.
IntervalsCounted ==
    /\ intervals \in Nat /\ Len(recorders) <= MaxRecorders
    /\ intervals + Cardinality(Unbegun) <= Len(recorders)
    /\ sent \subseteq 1 .. Len(recorders)

LEMMA UnbegunIsFinite ==
    ASSUME VoiceInv
    PROVE  IsFiniteSet(Unbegun) /\ Cardinality(Unbegun) \in Nat
<1>1. IsFiniteSet(1 .. Len(recorders)) /\ Unbegun \in SUBSET (1 .. Len(recorders))
  BY VoiceFacts, FS_Interval DEF Unbegun
<1>2. QED
  BY <1>1, FS_Subset, FS_CardinalityType

\* What the methods of a recorder do to its media recorder: none starts it anew.
LEMMA NothingBeginsAnew ==
    ASSUME NEW r \in AudioRecorder, NEW w \in BOOLEAN
    PROVE  /\ StopOf(r, w).media \in {r.media, "stopping"}
           /\ CancelOf(r).media \in {r.media, "stopping"}
           /\ CleanupOf(r).media \in {r.media, "stopping"}
           /\ Ended(r).media = "ended" /\ StopStream(r).media = r.media
BY DEF AudioRecorder, StopOf, CancelOf, CleanupOf, Ended, StopStream

\* The methods leave a recorder that is none of the unbegun one of the others.
LEMMA StaysBegun ==
    ASSUME VoiceInv, NEW i \in 1 .. Len(recorders), NEW r,
           r.media \in NotBegun => recorders[i].media \in NotBegun, Becomes(i, r)
    PROVE  /\ Len(recorders') = Len(recorders)
           /\ DOMAIN recorders' = 1 .. Len(recorders)
           /\ Unbegun' = IF r.media \in NotBegun THEN Unbegun ELSE Unbegun \ {i}
<1>1. /\ Len(recorders') = Len(recorders) /\ DOMAIN recorders' = 1 .. Len(recorders)
      /\ recorders'[i] = r
      /\ \A j \in 1 .. Len(recorders) : j # i => recorders'[j] = recorders[j]
  BY VoiceFacts DEF Becomes, VoiceInv
<1>2. QED
  BY <1>1, VoiceFacts DEF Unbegun

\* A step that starts no recording and begins none keeps the count.
LEMMA CountIsKept ==
    ASSUME VoiceInv, IntervalsCounted, Len(recorders') = Len(recorders),
           Unbegun' \subseteq Unbegun, intervals' \in 0 .. intervals,
           sent' \subseteq 1 .. Len(recorders)
    PROVE  IntervalsCounted'
<1>1. Cardinality(Unbegun') \in Nat /\ Cardinality(Unbegun') <= Cardinality(Unbegun)
  BY UnbegunIsFinite, FS_Subset, FS_CardinalityType
<1>2. Len(recorders) \in Nat /\ Cardinality(Unbegun) \in Nat
  BY VoiceFacts, UnbegunIsFinite
<1>3. intervals' \in Nat /\ intervals' <= intervals
  BY DEF IntervalsCounted
<1>4. intervals' + Cardinality(Unbegun') <= Len(recorders)
  BY <1>1, <1>2, <1>3 DEF IntervalsCounted
<1>5. QED
  BY <1>3, <1>4 DEF IntervalsCounted

LEMMA StartIsCounted ==
    ASSUME VoiceInv, IntervalsCounted, StartRecording
    PROVE  IntervalsCounted'
<1> DEFINE n == Len(recorders)
<1>1. PICK r : recorders' = Append(recorders, r)
  BY DEF StartRecording
<1>2. /\ n \in Nat /\ n < MaxRecorders /\ UNCHANGED <<intervals, sent>>
      /\ recorders \in Seq(AudioRecorder) /\ DOMAIN recorders = 1 .. n
  BY VoiceFacts DEF VoiceInv, StartRecording
<1>3. /\ Len(recorders') = n + 1 /\ DOMAIN recorders' = 1 .. n + 1
      /\ \A i \in 1 .. n : recorders'[i] = recorders[i]
  BY <1>1, <1>2
<1> HIDE DEF n
<1>4. Unbegun' \subseteq Unbegun \cup {n + 1}
  BY <1>2, <1>3 DEF Unbegun
<1>5. Cardinality(Unbegun') \in Nat /\ Cardinality(Unbegun') <= Cardinality(Unbegun) + 1
  <2>1. /\ IsFiniteSet(Unbegun \cup {n + 1})
        /\ Cardinality(Unbegun \cup {n + 1}) <= Cardinality(Unbegun) + 1
    BY UnbegunIsFinite, FS_AddElement
  <2>2. /\ IsFiniteSet(Unbegun')
        /\ Cardinality(Unbegun') <= Cardinality(Unbegun \cup {n + 1})
    BY <1>4, <2>1, FS_Subset
  <2>3. Cardinality(Unbegun') \in Nat /\ Cardinality(Unbegun \cup {n + 1}) \in Nat
    BY <2>1, <2>2, FS_CardinalityType
  <2>4. QED
    BY <2>1, <2>2, <2>3, UnbegunIsFinite
<1>6. intervals' + Cardinality(Unbegun') <= n + 1
  BY <1>2, <1>5, UnbegunIsFinite DEF IntervalsCounted, n
<1>7. sent' \subseteq 1 .. n + 1
  <2>1. 1 .. n \subseteq 1 .. n + 1
    BY <1>2
  <2>2. QED
    BY <1>2, <2>1 DEF IntervalsCounted, n
<1>8. n + 1 <= MaxRecorders
  BY <1>2, VoiceAssumption
<1>9. QED
  BY <1>2, <1>3, <1>6, <1>7, <1>8 DEF IntervalsCounted

LEMMA BeginningIsCounted ==
    ASSUME VoiceInv, IntervalsCounted, NEW i \in 1 .. Len(recorders),
           Begun(i)
    PROVE  IntervalsCounted'
<1>1. PICK r : Becomes(i, r) /\ r.media = "recording"
  <2>1. recorders[i] \in AudioRecorder
    BY VoiceFacts
  <2> DEFINE q == recorders[i]
             n == [q EXCEPT !.media = "recording", !.chunks = TRUE,
                     !.state = IF q.awaitingStart THEN "recording" ELSE @,
                     !.startTime = @ \/ q.awaitingStart,
                     !.durationTimer = @ \/ q.awaitingStart,
                     !.awaitingStart = FALSE]
  <2>2. Becomes(i, n)
    BY DEF Begun
  <2>3. n.media = "recording"
    BY <2>1 DEF AudioRecorder
  <2>4. QED
    BY <2>2, <2>3
<1>2. recorders[i].media = "starting" /\ intervals' = intervals + 1 /\ UNCHANGED sent
  BY DEF Begun
<1>3. Len(recorders') = Len(recorders) /\ Unbegun' = Unbegun \ {i}
  BY <1>1, <1>2, StaysBegun DEF NotBegun
<1>4. i \in Unbegun
  BY <1>2, VoiceFacts DEF Unbegun, NotBegun
<1>5. Cardinality(Unbegun') = Cardinality(Unbegun) - 1
  BY <1>3, <1>4, UnbegunIsFinite, FS_RemoveElement
<1>6. QED
  BY <1>2, <1>3, <1>5, VoiceFacts, UnbegunIsFinite DEF IntervalsCounted

LEMMA RecorderStepIsCounted ==
    ASSUME VoiceInv, IntervalsCounted, NEW i \in 1 .. Len(recorders),
           \/ Denied(i) \/ Granted(i) \/ StartError(i)
           \/ LimitReached(i) \/ DeviceLost(i) \/ OnStop(i)
    PROVE  IntervalsCounted'
<1> DEFINE r == recorders[i]
<1>1. r \in AudioRecorder /\ intervals \in Nat /\ sent \subseteq 1 .. Len(recorders)
  BY VoiceFacts DEF IntervalsCounted
<1>2. ASSUME NEW n, Becomes(i, n), n.media \in NotBegun => r.media \in NotBegun,
             intervals' \in 0 .. intervals, sent' \subseteq sent \cup {i}
      PROVE  IntervalsCounted'
  <2>1. Len(recorders') = Len(recorders) /\ Unbegun' \subseteq Unbegun
    BY <1>2, StaysBegun
  <2>2. QED
    BY <1>1, <1>2, <2>1, CountIsKept
<1>3. intervals \in 0 .. intervals
  BY <1>1
<1>4. CASE Denied(i)
  <2> DEFINE n == [r EXCEPT !.state = "error", !.stream = "none"]
  <2>1. Becomes(i, n) /\ n.media = r.media /\ UNCHANGED <<intervals, sent>>
    BY <1>1, <1>4 DEF Denied, ShowFailure, AudioRecorder
  <2> HIDE DEF n
  <2>2. QED
    BY <1>2, <1>3, <2>1
<1>5. CASE Granted(i)
  <2> DEFINE n == [r EXCEPT !.stream = "live", !.media = "starting",
                            !.awaitingStart = TRUE]
  <2>1. Becomes(i, n) /\ r.media = "none" /\ UNCHANGED <<intervals, sent>>
    <3>1. r.media = "none"
      BY <1>5, VoiceFacts DEF Granted, RecorderOK
    <3>2. QED
      BY <1>1, <1>5, <3>1 DEF Granted, buttonVars
  <2> HIDE DEF n
  <2>2. QED
    BY <1>2, <1>3, <2>1 DEF NotBegun
<1>6. CASE StartError(i)
  <2> DEFINE n == StopStream([r EXCEPT !.state = "error", !.media = "ended",
                                       !.awaitingStart = FALSE])
  <2>1. Becomes(i, n) /\ UNCHANGED <<intervals, sent>>
    BY <1>6 DEF StartError, ShowFailure
  <2>2. n.media = "ended"
    BY <1>1 DEF StopStream, AudioRecorder
  <2> HIDE DEF n
  <2>3. QED
    BY <1>2, <1>3, <2>1, <2>2 DEF NotBegun
<1>7. CASE LimitReached(i)
  <2> DEFINE n == StopOf(r, FALSE)
  <2>1. Becomes(i, n) /\ UNCHANGED <<intervals, sent>>
    BY <1>7 DEF LimitReached, buttonVars
  <2>2. n.media \in {r.media, "stopping"}
    BY <1>1, NothingBeginsAnew
  <2> HIDE DEF n
  <2>3. QED
    BY <1>2, <1>3, <2>1, <2>2 DEF NotBegun
<1>8. CASE DeviceLost(i)
  <2> DEFINE n == [r EXCEPT !.media = "stopping"]
  <2>1. Becomes(i, n) /\ n.media = "stopping" /\ UNCHANGED <<intervals, sent>>
    BY <1>1, <1>8 DEF DeviceLost, buttonVars, AudioRecorder
  <2> HIDE DEF n
  <2>2. QED
    BY <1>2, <1>3, <2>1 DEF NotBegun
<1>9. CASE OnStop(i)
  <2> DEFINE e == Ended(r)
             c == CleanupOf(e)
  <2>1. e \in AudioRecorder /\ e.media = "ended"
    BY <1>1, NothingBeginsAnew DEF Ended, StopStream, AudioRecorder
  <2>2. c.media \in {"ended", "stopping"}
    BY <2>1, NothingBeginsAnew
  <2> HIDE DEF e, c
  <2>3. CASE r.stopResolve
    <3>1. Becomes(i, c) /\ sent' \subseteq sent \cup {i}
      BY <1>9, <2>3 DEF OnStop, AfterStop, e, c
    <3>2. intervals' = IF intervals > 0 THEN intervals - 1 ELSE 0
      BY <1>9, <2>3 DEF OnStop, AfterStop
    <3>3. intervals' \in 0 .. intervals
      BY <1>1, <3>2
    <3>4. QED
      BY <1>2, <2>2, <3>1, <3>3 DEF NotBegun
  <2>4. CASE ~r.stopResolve
    <3>1. Becomes(i, e) /\ UNCHANGED <<intervals, sent>>
      BY <1>9, <2>4 DEF OnStop, buttonVars, e
    <3>2. QED
      BY <1>2, <1>3, <2>1, <3>1 DEF NotBegun
  <2>5. QED
    BY <2>3, <2>4
<1>10. QED
  BY <1>4, <1>5, <1>6, <1>7, <1>8, <1>9

LEMMA ButtonStepIsCounted ==
    ASSUME VoiceInv, IntervalsCounted,
           StopRecording \/ CancelRecording \/ UnmountVoice
    PROVE  IntervalsCounted'
<1> DEFINE i == recorderRef
           r == recorders[i]
<1>1. /\ intervals \in Nat /\ sent \subseteq 1 .. Len(recorders)
      /\ i # NoRecorder => i \in 1 .. Len(recorders) /\ r \in AudioRecorder
  BY VoiceFacts DEF VoiceInv, NoRecorder, IntervalsCounted
<1>2. /\ intervals \in 0 .. intervals
      /\ (IF intervals > 0 THEN intervals - 1 ELSE 0) \in 0 .. intervals
  BY <1>1
<1>3. /\ intervals' \in 0 .. intervals /\ sent' = sent
      /\ \/ UNCHANGED recorders
         \/ /\ i # NoRecorder
            /\ \E n : Becomes(i, n) /\ n.media \in {r.media, "stopping"}
  <2>1. CASE StopRecording
    <3> DEFINE s == StopOf(r, TRUE)
               c == CleanupOf(s)
    <3>1. i # NoRecorder /\ i \in 1 .. Len(recorders) /\ r \in AudioRecorder
      BY <1>1, <2>1 DEF StopRecording
    <3>2. s \in AudioRecorder /\ s.media \in {r.media, "stopping"}
      BY <3>1, NothingBeginsAnew DEF StopOf, AudioRecorder
    <3>3. c.media \in {r.media, "stopping"}
      BY <3>2, NothingBeginsAnew
    <3>4. CASE StopIsAwaited(r)
      BY <1>2, <2>1, <3>1, <3>2, <3>4 DEF StopRecording, buttonVars
    <3>5. CASE ~StopIsAwaited(r)
      <4>1. AfterStop(i, s, FALSE)
        BY <2>1, <3>5 DEF StopRecording
      <4>2. /\ intervals' = IF intervals > 0 THEN intervals - 1 ELSE 0
            /\ sent' = sent /\ Becomes(i, c)
        BY <4>1 DEF AfterStop
      <4> HIDE DEF c
      <4>3. QED
        BY <1>2, <3>1, <3>3, <4>2
    <3>6. QED
      BY <3>4, <3>5
  <2>2. CASE CancelRecording
    <3>1. /\ intervals' = IF intervals > 0 THEN intervals - 1 ELSE 0
          /\ UNCHANGED sent
          /\ i = NoRecorder => UNCHANGED recorders
          /\ i # NoRecorder => Becomes(i, CancelOf(r))
      BY <2>2 DEF CancelRecording, Becomes
    <3>2. i # NoRecorder => CancelOf(r).media \in {r.media, "stopping"}
      BY <1>1, NothingBeginsAnew
    <3>3. QED
      BY <1>2, <3>1, <3>2
  <2>3. CASE UnmountVoice
    <3>1. /\ intervals' \in {intervals, IF intervals > 0 THEN intervals - 1 ELSE 0}
          /\ UNCHANGED sent
          /\ \/ UNCHANGED recorders
             \/ i # NoRecorder /\ Becomes(i, CleanupOf(r))
      BY <1>1, <2>3 DEF UnmountVoice, Becomes
    <3>2. i # NoRecorder => CleanupOf(r).media \in {r.media, "stopping"}
      BY <1>1, NothingBeginsAnew
    <3>3. QED
      BY <1>2, <3>1, <3>2
  <2>4. QED
    BY <2>1, <2>2, <2>3
<1>4. CASE UNCHANGED recorders
  BY <1>1, <1>3, <1>4, CountIsKept DEF Unbegun
<1>5. CASE ~UNCHANGED recorders
  <2>1. PICK n : Becomes(i, n) /\ n.media \in {r.media, "stopping"}
    BY <1>3, <1>5
  <2>2. i \in 1 .. Len(recorders)
    BY <1>1, <1>3, <1>5
  <2>3. Len(recorders') = Len(recorders) /\ Unbegun' \subseteq Unbegun
    BY <2>1, <2>2, StaysBegun DEF NotBegun
  <2>4. QED
    BY <1>1, <1>3, <2>3, CountIsKept
<1>6. QED
  BY <1>4, <1>5

\* The types of VoiceRecorder.tsx and its AudioRecorders: as many intervals run as
\* recordings have begun, at most.
THEOREM VoiceTypeOKHolds == VoiceSpec => []VoiceTypeOK
<1>1. VoiceInit => IntervalsCounted
  <2> SUFFICES ASSUME VoiceInit PROVE IntervalsCounted
    OBVIOUS
  <2>1. recorders = <<>> /\ Len(recorders) = 0 /\ intervals = 0 /\ sent = {}
    BY DEF VoiceInit
  <2>2. Unbegun = {}
    BY <2>1 DEF Unbegun
  <2>3. QED
    BY <2>1, <2>2, FS_EmptySet, VoiceAssumption DEF IntervalsCounted
<1>2. VoiceInv /\ IntervalsCounted /\ [VoiceNext]_voiceVars => IntervalsCounted'
  <2> SUFFICES ASSUME VoiceInv, IntervalsCounted, [VoiceNext]_voiceVars
               PROVE  IntervalsCounted'
    OBVIOUS
  <2>1. CASE UNCHANGED voiceVars
    BY <2>1 DEF IntervalsCounted, Unbegun, voiceVars, buttonVars
  <2>2. CASE StartRecording \/ StopRecording \/ CancelRecording \/ UnmountVoice
    BY <2>2, StartIsCounted, ButtonStepIsCounted
  <2>3. ASSUME NEW i \in DOMAIN recorders,
               \/ Denied(i) \/ Granted(i) \/ Begun(i) \/ StartError(i)
               \/ LimitReached(i) \/ DeviceLost(i) \/ OnStop(i)
        PROVE  IntervalsCounted'
    BY <2>3, VoiceFacts, BeginningIsCounted, RecorderStepIsCounted
  <2>4. QED
    BY <2>1, <2>2, <2>3 DEF VoiceNext
<1>3. VoiceInv /\ IntervalsCounted => VoiceTypeOK
  <2> SUFFICES ASSUME VoiceInv, IntervalsCounted PROVE VoiceTypeOK
    OBVIOUS
  <2>1. intervals \in 0 .. MaxRecorders
    BY VoiceFacts, UnbegunIsFinite, VoiceAssumption DEF IntervalsCounted
  <2>2. QED
    BY <2>1, VoiceFacts DEF VoiceInv, IntervalsCounted, VoiceTypeOK
<1>4. QED
  BY <1>1, <1>2, <1>3, VoiceInvHolds, PTL DEF VoiceSpec

-----------------------------------------------------------------------------
(* The sequence manager.                                                   *)

\* The place of a number in its set is one of the places, and its own.
LEMMA RanksArePlaces ==
    ASSUME NEW S \in SUBSET Int, IsFiniteSet(S), NEW k \in 1 .. Cardinality(S)
    PROVE  \E s \in S : Cardinality({t \in S : t <= s}) = k
<1> DEFINE Upto(s) == {t \in S : t <= s}
           n == Cardinality(S)
           rank == [s \in S |-> Cardinality(Upto(s))]
<1>1. n \in Nat /\ IsFiniteSet(1 .. n) /\ Cardinality(1 .. n) = n
  BY FS_CardinalityType, FS_Interval
<1>2. ASSUME NEW s \in S
      PROVE  IsFiniteSet(Upto(s)) /\ Cardinality(Upto(s)) \in 1 .. n
  <2>1. Upto(s) \in SUBSET S /\ s \in Upto(s)
    OBVIOUS
  <2>2. IsFiniteSet(Upto(s)) /\ Cardinality(Upto(s)) <= n
    BY <2>1, FS_Subset
  <2>3. Cardinality(Upto(s)) \in Nat /\ Cardinality(Upto(s)) # 0
    BY <2>1, <2>2, FS_CardinalityType, FS_EmptySet
  <2>4. QED
    BY <1>1, <2>2, <2>3
<1>3. ASSUME NEW s \in S, NEW t \in S, s < t
      PROVE  Cardinality(Upto(s)) # Cardinality(Upto(t))
  <2>1. Upto(s) \in SUBSET Upto(t) /\ t \in Upto(t) /\ t \notin Upto(s)
    <3>1. \A u \in S : u \in Int
      OBVIOUS
    <3>2. \A u \in S : u <= s => u <= t
      BY <1>3, <3>1
    <3>3. t <= t /\ ~(t <= s)
      BY <1>3, <3>1
    <3>4. QED
      BY <3>2, <3>3
  <2>2. Upto(s) # Upto(t) /\ IsFiniteSet(Upto(t))
    BY <1>2, <2>1
  <2> HIDE DEF Upto
  <2>3. QED
    BY <2>1, <2>2, FS_Subset
<1> HIDE DEF Upto
<1>4. rank \in Injection(S, 1 .. n)
  <2>1. rank \in [S -> 1 .. n]
    BY <1>2
  <2>2. ASSUME NEW s \in S, NEW t \in S, rank[s] = rank[t]
        PROVE  s = t
    <3>1. Cardinality(Upto(s)) = Cardinality(Upto(t))
      BY <2>2
    <3>2. ~(s < t) /\ ~(t < s)
      BY <1>3, <3>1
    <3>3. QED
      BY <3>2
  <2>3. QED
    BY <2>1, <2>2 DEF Injection, IsInjective
<1> HIDE DEF n
<1>5. rank \in Surjection(S, 1 .. n)
  BY <1>1, <1>4, FS_Injection DEF n
<1>6. k \in 1 .. n
  BY DEF n
<1>7. PICK s \in S : rank[s] = k
  BY <1>5, <1>6 DEF Surjection
<1>8. QED
  BY <1>7 DEF Upto

\* A set in ascending order has each of its members once.
LEMMA AscendingEnumerates ==
    ASSUME NEW S \in SUBSET Int, IsFiniteSet(S)
    PROVE  /\ Ascending(S) \in [1 .. Cardinality(S) -> S]
           /\ IsInjective(Ascending(S))
           /\ \A s \in S : \E k \in DOMAIN Ascending(S) : Ascending(S)[k] = s
<1> DEFINE Upto(s) == {t \in S : t <= s}
           n == Cardinality(S)
           a == Ascending(S)
<1>1. ASSUME NEW k \in 1 .. n
      PROVE  a[k] \in S /\ Cardinality(Upto(a[k])) = k
  BY <1>1, RanksArePlaces DEF Ascending
<1>2. DOMAIN a = 1 .. n /\ a \in [1 .. n -> S]
  BY <1>1 DEF Ascending
<1> HIDE DEF a, Upto
<1>3. IsInjective(a)
  BY <1>1, <1>2 DEF IsInjective
<1>4. n \in Nat /\ IsFiniteSet(1 .. n) /\ Cardinality(1 .. n) = n
  BY FS_CardinalityType, FS_Interval
<1>5. a \in Injection(1 .. n, S)
  BY <1>2, <1>3 DEF Injection, IsInjective
<1>6. a \in Surjection(1 .. n, S)
  BY <1>4, <1>5, FS_Injection
<1>7. \A s \in S : \E k \in 1 .. n : a[k] = s
  BY <1>6 DEF Surjection
<1>8. QED
  BY <1>2, <1>3, <1>7 DEF a

\* The numbers that follow `last' are handed over one after the other.
LEMMA AscendingOfRun ==
    ASSUME NEW last \in Int, NEW n \in Nat
    PROVE  Ascending(last + 1 .. last + n) = [k \in 1 .. n |-> last + k]
<1> DEFINE S == last + 1 .. last + n
<1>1. IsFiniteSet(S) /\ Cardinality(S) = n
  BY FS_Interval
<1>2. ASSUME NEW s \in S
      PROVE  Cardinality({t \in S : t <= s}) = s - last
  <2>1. {t \in S : t <= s} = last + 1 .. s
    OBVIOUS
  <2>2. s \in Int /\ last + 1 \in Int /\ ~(last + 1 > s)
    OBVIOUS
  <2>3. Cardinality(last + 1 .. s) = s - (last + 1) + 1
    BY <2>2, FS_Interval
  <2>4. s - (last + 1) + 1 = s - last
    BY <2>2
  <2>5. QED
    BY <2>1, <2>3, <2>4
<1>3. ASSUME NEW k \in 1 .. n
      PROVE  (CHOOSE s \in S : Cardinality({t \in S : t <= s}) = k) = last + k
  <2> DEFINE rank(s) == Cardinality({t \in S : t <= s})
  <2>1. \A s \in S : rank(s) = s - last
    BY <1>2
  <2>2. last + k \in S /\ \A s \in S : s \in Int
    OBVIOUS
  <2> HIDE DEF rank, S
  <2>3. rank(last + k) = k
    BY <2>1, <2>2
  <2>4. \A s \in S : rank(s) = k => s = last + k
    BY <2>1, <2>2
  <2>5. (CHOOSE s \in S : rank(s) = k) = last + k
    BY <2>2, <2>3, <2>4
  <2>6. QED
    BY <2>5 DEF rank
<1>4. QED
  BY <1>1, <1>3 DEF Ascending

\* Deleting numbers leaves the others, each once.
LEMMA WithoutDeletes ==
    ASSUME NEW received \in Seq(Arrivals), IsInjective(received), NEW deleted
    PROVE  /\ Without(received, deleted) \in Seq(Arrivals)
           /\ IsInjective(Without(received, deleted))
           /\ ToSet(Without(received, deleted)) = ToSet(received) \ deleted
<1> DEFINE kept == {i \in DOMAIN received : received[i] \notin deleted}
           a == Ascending(kept)
           w == Without(received, deleted)
<1>1. kept \in SUBSET Int /\ IsFiniteSet(kept)
  <2>1. Len(received) \in Nat /\ DOMAIN received = 1 .. Len(received)
    OBVIOUS
  <2>2. IsFiniteSet(DOMAIN received) /\ kept \in SUBSET DOMAIN received
    BY <2>1, FS_Interval
  <2>3. QED
    BY <2>1, <2>2, FS_Subset
<1>2. /\ a \in [1 .. Cardinality(kept) -> kept] /\ IsInjective(a)
      /\ \A i \in kept : \E k \in DOMAIN a : a[k] = i
      /\ Cardinality(kept) \in Nat
  BY <1>1, AscendingEnumerates, FS_CardinalityType
<1> DEFINE n == Cardinality(kept)
<1>3. w = [k \in 1 .. n |-> received[a[k]]]
  BY <1>2 DEF Without
<1> HIDE DEF w, a, n
<1>4. \A k \in 1 .. n : a[k] \in DOMAIN received /\ received[a[k]] \notin deleted
  BY <1>2 DEF n
<1>5. w \in Seq(Arrivals)
  <2>1. \A k \in 1 .. n : received[a[k]] \in Arrivals
    BY <1>4
  <2>2. n \in Nat
    BY <1>2 DEF n
  <2>3. QED
    BY <1>3, <2>1, <2>2
<1>6. IsInjective(w)
  BY <1>2, <1>3, <1>4 DEF IsInjective, n
<1>7. ToSet(w) = ToSet(received) \ deleted
  <2>1. ToSet(w) = {received[a[k]] : k \in 1 .. n}
    BY <1>3 DEF ToSet
  <2>2. ASSUME NEW s \in ToSet(received) \ deleted
        PROVE  s \in ToSet(w)
    <3>1. PICK i \in kept : received[i] = s
      BY DEF ToSet
    <3>2. PICK k \in 1 .. n : a[k] = i
      BY <1>2 DEF n
    <3>3. QED
      BY <2>1, <3>1, <3>2
  <2>3. QED
    BY <1>4, <2>1, <2>2 DEF ToSet
<1>8. QED
  BY <1>5, <1>6, <1>7 DEF w

\* Trimming keeps what is recent, each number once.
LEMMA CleanupKeepsRecent ==
    ASSUME NEW received \in Seq(Arrivals), IsInjective(received), NEW last \in Int
    PROVE  LET r == CleanupOldSequences(received, last)
           IN  /\ r \in Seq(Arrivals) /\ IsInjective(r)
               /\ \A s \in ToSet(received) : s > last => s \in ToSet(r)
<1> DEFINE recent == {s \in ToSet(received) : s > last - KeepBehind}
           old == Without(received, recent)
           excess == Len(received) - MaxToKeep
           m == IF excess < Len(old) THEN excess ELSE Len(old)
           toRemove == ToSet(SubSeq(old, 1, m))
           r == CleanupOldSequences(received, last)
<1>1. r = IF excess <= 0 THEN received ELSE Without(received, toRemove)
  BY DEF CleanupOldSequences
<1>2. CASE excess <= 0
  BY <1>1, <1>2
<1>3. CASE ~(excess <= 0)
  <2>1. old \in Seq(Arrivals) /\ ToSet(old) = ToSet(received) \ recent
    BY WithoutDeletes
  <2> HIDE DEF old
  <2>2. m \in Int /\ m <= Len(old)
    BY <2>1, SequenceAssumption
  <2> HIDE DEF m
  <2>3. toRemove \subseteq ToSet(old)
    BY <2>1, <2>2 DEF ToSet
  <2> HIDE DEF toRemove
  <2>4. /\ r \in Seq(Arrivals) /\ IsInjective(r)
        /\ ToSet(r) = ToSet(received) \ toRemove
    BY <1>1, <1>3, WithoutDeletes
  <2>5. ASSUME NEW s \in ToSet(received), s > last
        PROVE  s > last - KeepBehind
    <3>1. PICK i \in DOMAIN received : s = received[i]
      BY DEF ToSet
    <3>2. s \in Arrivals
      BY <3>1
    <3>3. QED
      BY <2>5, <3>2, SequenceAssumption DEF Arrivals
  <2>6. QED
    BY <2>1, <2>3, <2>4, <2>5
<1>4. QED
  BY <1>2, <1>3

\* A new number is the last of those received.
LEMMA NewIsAppended ==
    ASSUME SequenceTypeOK, NEW s \in Arrivals, New(s)
    PROVE  LET received == Append(receivedSequences, s)
           IN  /\ received \in Seq(Arrivals) /\ IsInjective(received)
               /\ ToSet(received) = ToSet(receivedSequences) \cup {s}
<1> DEFINE n == Len(receivedSequences)
           received == Append(receivedSequences, s)
<1>1. receivedSequences \in Seq(Arrivals) /\ IsInjective(receivedSequences)
  BY DEF SequenceTypeOK
<1>2. /\ n \in Nat /\ DOMAIN receivedSequences = 1 .. n
      /\ received \in Seq(Arrivals) /\ DOMAIN received = 1 .. n + 1
      /\ \A i \in 1 .. n : received[i] = receivedSequences[i]
      /\ received[n + 1] = s
  BY <1>1
<1> HIDE DEF n, received
<1>3. \A i \in 1 .. n + 1 : i \in 1 .. n \/ i = n + 1
  BY <1>2
<1>4. \A i \in 1 .. n : i \in 1 .. n + 1 /\ received[i] # s
  BY <1>2 DEF New, ToSet
<1>5. n + 1 \in 1 .. n + 1
  BY <1>2
<1>6. IsInjective(received)
  BY <1>1, <1>2, <1>3, <1>4 DEF IsInjective
<1>7. ToSet(received) = ToSet(receivedSequences) \cup {s}
  BY <1>2, <1>3, <1>4, <1>5 DEF ToSet
<1>8. QED
  BY <1>2, <1>6, <1>7 DEF received

\* A call that gets a new number remembers it and all that is ahead.
LEMMA NewIsRemembered ==
    ASSUME SequenceTypeOK, NEW s \in Arrivals, New(s), NEW last \in Int
    PROVE  LET r == CleanupOldSequences(Append(receivedSequences, s), last)
           IN  /\ r \in Seq(Arrivals) /\ IsInjective(r)
               /\ \A t \in ToSet(receivedSequences) \cup {s} :
                     t > last => t \in ToSet(r)
<1> DEFINE received == Append(receivedSequences, s)
<1>1. /\ received \in Seq(Arrivals) /\ IsInjective(received)
      /\ ToSet(received) = ToSet(receivedSequences) \cup {s}
  BY NewIsAppended
<1>2. QED
  BY <1>1, CleanupKeepsRecent

\* The numbers without a gap are as many as follow `last'.
LEMMA RunIsInterval ==
    ASSUME NEW b \in SUBSET Arrivals, NEW last \in Int
    PROVE  LET run == ReadyRun(b, last)
               n == Cardinality(run)
           IN  n \in Nat /\ run = last + 1 .. last + n
<1> DEFINE run == ReadyRun(b, last)
           n == Cardinality(run)
<1>1. run \in SUBSET Arrivals /\ IsFiniteSet(Arrivals)
  <2>1. run \in SUBSET Arrivals
    BY DEF ReadyRun
  <2>2. 0 \in Int /\ MaxSequence \in Int
    BY SequenceAssumption
  <2>3. IsFiniteSet(Arrivals)
    BY <2>2, FS_Interval DEF Arrivals
  <2>4. QED
    BY <2>1, <2>3
<1>2. IsFiniteSet(run) /\ n \in Nat
  BY <1>1, FS_Subset, FS_CardinalityType
<1>3. \A s \in run : s \in Int /\ s > last /\ last + 1 .. s \subseteq run
  BY DEF ReadyRun, Arrivals
<1> HIDE DEF run
<1>4. ASSUME NEW s \in run
      PROVE  s <= last + n
  <2>1. Cardinality(last + 1 .. s) <= n
    BY <1>2, <1>3, FS_Subset
  <2>2. s \in Int /\ last + 1 \in Int /\ ~(last + 1 > s)
    BY <1>3
  <2>3. Cardinality(last + 1 .. s) = s - (last + 1) + 1
    BY <2>2, FS_Interval
  <2>4. QED
    BY <1>2, <2>1, <2>2, <2>3
<1>5. run \in SUBSET (last + 1 .. last + n)
  BY <1>2, <1>3, <1>4
<1>6. /\ IsFiniteSet(last + 1 .. last + n)
      /\ Cardinality(last + 1 .. last + n) = n
  BY <1>2, FS_Interval
<1>7. run = last + 1 .. last + n
  BY <1>5, <1>6, FS_Subset
<1>8. QED
  BY <1>2, <1>7 DEF run

\* What was handed over is in order and has been passed.
SequenceInv ==
    /\ SequenceTypeOK /\ BufferIsAhead
    /\ Channel!Increasing(handedOver)
    /\ \A i \in DOMAIN handedOver : handedOver[i] <= lastDeliveredSequence

\* A step of the channel, or none.
ChannelStep == [Channel!Next]_<<handedOver, lastDeliveredSequence>>

\* Handing over n numbers that follow `from', which is not behind.
LEMMA RunIsHandedOver ==
    ASSUME SequenceInv, NEW from \in Int, from >= lastDeliveredSequence,
           NEW n \in Nat, lastDeliveredSequence' = from + n,
           from + n = lastDeliveredSequence \/ from + n \in Arrivals,
           handedOver' = handedOver \o [k \in 1 .. n |-> from + k]
    PROVE  /\ handedOver' \in Seq(Arrivals)
           /\ Channel!Increasing(handedOver)'
           /\ \A i \in DOMAIN handedOver' : handedOver'[i] <= lastDeliveredSequence'
           /\ ChannelStep
<1> DEFINE last == lastDeliveredSequence
           m == Len(handedOver)
           run == [k \in 1 .. n |-> from + k]
<1>1. last \in Int /\ last >= -1 /\ from + n >= last
  BY SequenceAssumption DEF SequenceInv, SequenceTypeOK
<1>2. handedOver \in Seq(Arrivals) /\ m \in Nat /\ DOMAIN handedOver = 1 .. m
  BY DEF SequenceInv, SequenceTypeOK
<1>3. run \in Seq(Arrivals) /\ Len(run) = n
  <2>1. \A k \in 1 .. n : from + k \in Arrivals
    BY <1>1, SequenceAssumption DEF Arrivals
  <2>2. QED
    BY <2>1
<1>4. /\ handedOver' \in Seq(Arrivals) /\ Len(handedOver') = m + n
      /\ DOMAIN handedOver' = 1 .. m + n
      /\ \A i \in 1 .. m : handedOver'[i] = handedOver[i]
      /\ \A i \in m + 1 .. m + n : handedOver'[i] = from + (i - m)
  <2> HIDE DEF run
  <2>1. /\ handedOver' \in Seq(Arrivals) /\ Len(handedOver') = m + n
        /\ DOMAIN handedOver' = 1 .. m + n
        /\ \A i \in 1 .. m : handedOver'[i] = handedOver[i]
        /\ \A i \in m + 1 .. m + n : handedOver'[i] = run[i - m]
    BY <1>2, <1>3 DEF run
  <2>2. \A i \in m + 1 .. m + n : i - m \in 1 .. n
    BY <1>2
  <2>3. QED
    BY <2>1, <2>2 DEF run
<1> HIDE DEF m, run
<1>5. \A i \in 1 .. m + n : i \in 1 .. m \/ i \in m + 1 .. m + n
  BY <1>2
<1>6. \A i \in 1 .. m : handedOver'[i] \in Int /\ handedOver'[i] <= last
  <2>1. \A i \in 1 .. m : handedOver[i] \in Arrivals /\ handedOver[i] <= last
    BY <1>2 DEF SequenceInv
  <2>2. \A a \in Arrivals : a \in Int
    BY DEF Arrivals
  <2>3. QED
    BY <1>4, <2>1, <2>2
<1>7. \A i \in m + 1 .. m + n :
          /\ handedOver'[i] \in Int /\ handedOver'[i] > last
          /\ handedOver'[i] <= from + n
  <2>1. \A i \in m + 1 .. m + n : i - m \in Int /\ i - m > 0 /\ i - m <= n
    BY <1>2
  <2>2. \A d \in Int : d > 0 /\ d <= n =>
            from + d \in Int /\ from + d > last /\ from + d <= from + n
    BY <1>1
  <2>3. QED
    BY <1>4, <2>1, <2>2
<1>8. Channel!Increasing(handedOver')
  <2>1. ASSUME NEW i \in 1 .. m + n, NEW j \in 1 .. m + n, i < j
        PROVE  handedOver'[i] < handedOver'[j]
    <3>1. CASE i \in 1 .. m /\ j \in 1 .. m
      BY <1>2, <1>4, <2>1, <3>1 DEF SequenceInv, Channel!Increasing
    <3>2. CASE i \in 1 .. m /\ j \in m + 1 .. m + n
      <4>1. handedOver'[i] \in Int /\ handedOver'[i] <= last
        BY <1>6, <3>2
      <4>2. handedOver'[j] \in Int /\ handedOver'[j] > last
        BY <1>7, <3>2
      <4>3. \A x, y, z \in Int : x <= z /\ y > z => x < y
        OBVIOUS
      <4>4. last \in Int
        BY <1>1
      <4>5. QED
        BY <4>1, <4>2, <4>3, <4>4
    <3>3. CASE i \in m + 1 .. m + n /\ j \in m + 1 .. m + n
      BY <1>2, <1>4, <2>1, <3>3
    <3>4. CASE i \in m + 1 .. m + n /\ j \in 1 .. m
      BY <1>2, <2>1, <3>4
    <3>5. QED
      BY <1>5, <3>1, <3>2, <3>3, <3>4
  <2>2. QED
    BY <1>4, <2>1 DEF Channel!Increasing
<1>9. Channel!Increasing(handedOver)'
  BY <1>8 DEF Channel!Increasing
<1>10. \A i \in DOMAIN handedOver' : handedOver'[i] <= lastDeliveredSequence'
  BY <1>1, <1>4, <1>5, <1>6, <1>7
<1>11. CASE from + n = last
  <2>1. n = 0
    BY <1>1, <1>11
  <2>2. handedOver' = handedOver
    BY <1>2, <1>4, <2>1 DEF m
  <2>3. QED
    BY <1>4, <1>9, <1>10, <1>11, <2>2 DEF ChannelStep
<1>12. CASE from + n # last
  <2>1. from + n \in Arrivals /\ from + n > last
    BY <1>1, <1>12
  <2>2. m <= m + n /\ SubSeq(handedOver', 1, m) = handedOver
    BY <1>2, <1>4 DEF m
  <2>3. \A i \in DOMAIN handedOver' \ DOMAIN handedOver :
            handedOver'[i] \in last + 1 .. from + n
    BY <1>1, <1>2, <1>4, <1>5, <1>7
  <2>4. Channel!HandOver
    BY <1>4, <1>8, <2>1, <2>2, <2>3 DEF Channel!HandOver, m
  <2>5. QED
    BY <1>4, <1>9, <1>10, <2>4 DEF ChannelStep, Channel!Next
<1>13. QED
  BY <1>11, <1>12

\* addMessage, with the number that is due.
LEMMA AddDueKeepsSequenceInv ==
    ASSUME SequenceInv, NEW s \in Arrivals, AddDue(s)
    PROVE  SequenceInv' /\ ChannelStep
<1> DEFINE last == lastDeliveredSequence
           run == [k \in 1 .. 1 |-> last + k]
<1>1. /\ SequenceTypeOK /\ BufferIsAhead /\ New(s) /\ s = last + 1 /\ last \in Int
      /\ last' = s /\ handedOver' = Append(handedOver, s) /\ s \in 0 .. MaxSequence
      /\ UNCHANGED <<nextSequence, buffer, overdue>>
  BY SequenceAssumption DEF SequenceInv, SequenceTypeOK, AddDue, Arrivals
<1>2. /\ receivedSequences' \in Seq(Arrivals) /\ IsInjective(receivedSequences')
      /\ \A t \in ToSet(receivedSequences) \cup {s} :
            t > last' => t \in ToSet(receivedSequences')
  BY <1>1, NewIsRemembered DEF AddDue
<1>3. BufferIsAhead'
  <2>1. ASSUME NEW t \in buffer
        PROVE  t > s /\ t \in ToSet(receivedSequences)
    <3>1. t > last /\ t \in ToSet(receivedSequences) /\ t # s
      BY <1>1 DEF BufferIsAhead, New
    <3>2. t \in Int
      BY <1>1 DEF SequenceTypeOK, Arrivals
    <3>3. QED
      BY <1>1, <3>1, <3>2
  <2>2. QED
    BY <1>1, <1>2, <2>1 DEF BufferIsAhead
<1>4. handedOver' = handedOver \o run
  <2>1. handedOver \in Seq(Arrivals) /\ run \in Seq({s})
    BY <1>1 DEF SequenceTypeOK
  <2>2. QED
    BY <1>1, <2>1
<1>5. /\ handedOver' \in Seq(Arrivals) /\ Channel!Increasing(handedOver)'
      /\ \A i \in DOMAIN handedOver' : handedOver'[i] <= last'
      /\ ChannelStep
  <2>1. last >= last /\ last' = last + 1 /\ last + 1 \in Arrivals
    BY <1>1
  <2> HIDE DEF run
  <2>2. QED
    BY <1>1, <1>4, <2>1, RunIsHandedOver DEF run
<1>6. SequenceTypeOK'
  BY <1>1, <1>2, <1>5, SequenceAssumption DEF SequenceTypeOK
<1>7. QED
  BY <1>3, <1>5, <1>6 DEF SequenceInv

\* addMessage, with a number ahead of it.
LEMMA AddEarlyKeepsSequenceInv ==
    ASSUME SequenceInv, NEW s \in Arrivals, AddEarly(s)
    PROVE  SequenceInv' /\ ChannelStep
<1> DEFINE last == lastDeliveredSequence
           b == (buffer \cup {s}) \ overdue
           flushed == FlushBuffer(b, last)
           run == ReadyRun(flushed.buffer, flushed.last)
           n == Cardinality(run)
           to == flushed.last + n
<1>1. /\ SequenceTypeOK /\ BufferIsAhead /\ New(s) /\ s > last + 1 /\ last \in Int
      /\ buffer \subseteq Arrivals /\ s \in Arrivals /\ last \in -1 .. MaxSequence
  BY SequenceAssumption DEF SequenceInv, SequenceTypeOK, AddEarly
<1>2. /\ last' = to /\ handedOver' = handedOver \o Ascending(run)
      /\ receivedSequences' = CleanupOldSequences(Append(receivedSequences, s), to)
      /\ buffer' = flushed.buffer \ run /\ overdue' = {} /\ UNCHANGED nextSequence
  BY DEF AddEarly
<1>3. \A t \in b : /\ t \in Arrivals /\ t \in Int /\ t > last
                   /\ t \in ToSet(receivedSequences) \cup {s}
  BY <1>1 DEF BufferIsAhead, Arrivals
<1> HIDE DEF b
<1>4. /\ flushed.buffer \in SUBSET b /\ flushed.last \in Int /\ flushed.last >= last
      /\ \A t \in flushed.buffer : t > flushed.last
      /\ flushed.last = last \/ flushed.last \in Arrivals
  <2>1. CASE Cardinality(b) > MaxBufferSize /\ last + 1 \in b
    <3>1. flushed = [buffer |-> b \ {last + 1}, last |-> last + 1]
      BY <2>1 DEF FlushBuffer
    <3>2. \A t \in b \ {last + 1} : t > last + 1
      BY <1>1, <1>3
    <3>3. QED
      BY <1>1, <1>3, <2>1, <3>1, <3>2
  <2>2. CASE ~(Cardinality(b) > MaxBufferSize /\ last + 1 \in b)
    <3>1. flushed = [buffer |-> b, last |-> last]
      BY <2>2 DEF FlushBuffer
    <3>2. QED
      BY <1>1, <1>3, <3>1
  <2>3. QED
    BY <2>1, <2>2
<1> HIDE DEF flushed
<1>5. n \in Nat /\ run = flushed.last + 1 .. to
  <2>1. flushed.buffer \in SUBSET Arrivals
    BY <1>3, <1>4
  <2>2. QED
    BY <1>4, <2>1, RunIsInterval
<1>6. run \in SUBSET flushed.buffer
  BY DEF ReadyRun
<1>7. to \in Int /\ to >= last /\ (to = last \/ to \in Arrivals)
  <2>1. CASE n = 0
    BY <1>4, <2>1
  <2>2. CASE n # 0
    <3>1. to \in run
      BY <1>4, <1>5, <2>2
    <3>2. QED
      BY <1>1, <1>3, <1>4, <1>5, <1>6, <3>1
  <2>3. QED
    BY <2>1, <2>2
<1>8. Ascending(run) = [k \in 1 .. n |-> flushed.last + k]
  BY <1>4, <1>5, AscendingOfRun
<1> HIDE DEF run, n
<1>9. /\ handedOver' \in Seq(Arrivals) /\ Channel!Increasing(handedOver)'
      /\ \A i \in DOMAIN handedOver' : handedOver'[i] <= last'
      /\ ChannelStep
  BY <1>2, <1>4, <1>5, <1>7, <1>8, RunIsHandedOver
<1>10. \A t \in buffer' : t \in b /\ t > to
  BY <1>2, <1>3, <1>4, <1>5, <1>7
<1>11. /\ receivedSequences' \in Seq(Arrivals) /\ IsInjective(receivedSequences')
       /\ \A t \in ToSet(receivedSequences) \cup {s} :
             t > to => t \in ToSet(receivedSequences')
  BY <1>1, <1>2, <1>7, NewIsRemembered
<1>12. BufferIsAhead'
  BY <1>2, <1>3, <1>10, <1>11 DEF BufferIsAhead
<1>13. SequenceTypeOK'
  <2>1. to \in -1 .. MaxSequence
    BY <1>1, <1>7, SequenceAssumption DEF Arrivals
  <2>2. buffer' \subseteq Arrivals
    BY <1>3, <1>10
  <2>3. QED
    BY <1>1, <1>2, <1>9, <1>11, <2>1, <2>2 DEF SequenceTypeOK
<1>14. QED
  BY <1>9, <1>12, <1>13 DEF SequenceInv

\* Every call keeps the invariant and is a step of the channel, or none.
LEMMA SequenceStepKeepsInv ==
    ASSUME SequenceInv, [SequenceNext]_sequenceVars
    PROVE  SequenceInv' /\ ChannelStep
<1>1. CASE \E s \in Arrivals : AddDue(s)
  BY <1>1, AddDueKeepsSequenceInv
<1>2. CASE \E s \in Arrivals : AddLate(s)
  <2>1. PICK s \in Arrivals : AddLate(s)
    BY <1>2
  <2>2. /\ SequenceTypeOK /\ New(s)
        /\ receivedSequences' = Append(receivedSequences, s)
        /\ UNCHANGED <<nextSequence, buffer, overdue, lastDeliveredSequence,
                       handedOver>>
    BY <2>1 DEF AddLate, SequenceInv
  <2>3. /\ receivedSequences' \in Seq(Arrivals) /\ IsInjective(receivedSequences')
        /\ ToSet(receivedSequences') = ToSet(receivedSequences) \cup {s}
    BY <2>2, NewIsAppended
  <2>4. QED
    BY <2>2, <2>3 DEF SequenceInv, SequenceTypeOK, BufferIsAhead, ChannelStep,
                      Channel!Increasing
<1>3. CASE \E s \in Arrivals : AddEarly(s)
  BY <1>3, AddEarlyKeepsSequenceInv
<1>4. CASE TimePasses
  <2>1. PICK k \in DOMAIN receivedSequences :
            overdue' = buffer \cap ToSet(SubSeq(receivedSequences, 1, k))
    BY <1>4 DEF TimePasses
  <2>2. overdue' \subseteq buffer
    BY <2>1
  <2>3. QED
    BY <1>4, <2>2 DEF TimePasses, SequenceInv, SequenceTypeOK, BufferIsAhead,
                      ChannelStep, Channel!Increasing
<1>5. CASE GetNextSequence
  <2>1. nextSequence' \in 0 .. SequenceModulus - 1
    BY <1>5, SequenceAssumption DEF GetNextSequence, SequenceInv, SequenceTypeOK
  <2>2. QED
    BY <1>5, <2>1 DEF GetNextSequence, SequenceInv, SequenceTypeOK, BufferIsAhead,
                      ChannelStep, Channel!Increasing
<1>6. CASE ResetSequences
  <2>1. receivedSequences' = <<>> /\ handedOver' = <<>> /\ buffer' = {}
        /\ lastDeliveredSequence' = -1 /\ overdue' = {} /\ nextSequence' = 0
    BY <1>6 DEF ResetSequences
  <2>2. QED
    BY <2>1, SequenceAssumption DEF SequenceInv, SequenceTypeOK, BufferIsAhead,
       ChannelStep, Channel!Next, Channel!Restart, Channel!Increasing, IsInjective
<1>7. CASE UNCHANGED sequenceVars
  BY <1>7 DEF sequenceVars, SequenceInv, SequenceTypeOK, BufferIsAhead, ChannelStep,
              Channel!Increasing
<1>8. QED
  BY <1>1, <1>2, <1>3, <1>4, <1>5, <1>6, <1>7 DEF SequenceNext

LEMMA SequenceInitEstablishes == SequenceInit => SequenceInv /\ Channel!Init
BY SequenceAssumption DEF SequenceInit, SequenceInv, SequenceTypeOK, BufferIsAhead,
   Channel!Init, Channel!Increasing, IsInjective

\* The invariant of SequenceManager, with the types of its fields.
THEOREM SequenceInvHolds == SequenceSpec => []SequenceInv
<1>1. SequenceInit => SequenceInv
  BY SequenceInitEstablishes
<1>2. SequenceInv /\ [SequenceNext]_sequenceVars => SequenceInv'
  BY SequenceStepKeepsInv
<1>3. QED
  BY <1>1, <1>2, PTL DEF SequenceSpec

\* What waits in the buffer is still to come and is known as received, whatever
\* expires, is flushed or is trimmed (BufferIsAhead; addMessage,
\* cleanupExpired, flushBuffer and cleanupOldSequences).
THEOREM BufferIsAheadHolds == SequenceSpec => []BufferIsAhead
<1>1. SequenceInv => BufferIsAhead
  BY DEF SequenceInv
<1>2. QED
  BY <1>1, SequenceInvHolds, PTL

\* The sequence manager implements the ordered channel: it hands over messages in
\* the order of their numbers, each at most once (ImplementsOrderedChannel;
\* addMessage and deliverOrdered).
THEOREM ImplementsOrderedChannelHolds == SequenceSpec => ImplementsOrderedChannel
<1>1. SequenceInit => Channel!Init
  BY SequenceInitEstablishes
<1>2. SequenceInv /\ [SequenceNext]_sequenceVars
        => [Channel!Next]_<<handedOver, lastDeliveredSequence>>
  BY SequenceStepKeepsInv DEF ChannelStep
<1>3. QED
  BY <1>1, <1>2, SequenceInvHolds, PTL
     DEF SequenceSpec, ImplementsOrderedChannel, Channel!Spec

-----------------------------------------------------------------------------
(* The page, its API calls and the tokens.                                 *)

\* A call carries tokens that were issued; a login has a user, a refresh is for
\* an authorised call or for nothing, and a good answer is about a token.
Carries(c, issued) ==
    /\ {c.token, c.cookie, c.result} \subseteq 0 .. issued
    /\ c.kind = "login" => c.user \in Users
    /\ c.then \in {"nothing", "me", "search"}
    /\ c.then # "nothing" => c.kind = "refresh"
    /\ c.answer = "ok" /\ c.kind \in {"refresh", "login", "me"}
          => c.result # NoToken

CallsInv == \A c \in calls : Carries(c, Len(owners))

AppSessionInv == AppSessionTypeOK /\ CallsInv /\ TokensAgree

-----------------------------------------------------------------------------
(* The helpers of the handlers.                                            *)

\* A call that is sent carries what the page holds.
LEMMA NewCallCarries ==
    ASSUME NEW n \in 0 .. MaxIssued, NEW kind \in Kinds,
           NEW then \in {"nothing", "me", "search"}, NEW retry \in BOOLEAN,
           NEW user \in Users \cup {NoUser}, NEW token \in 0 .. n, NEW c \in 0 .. n,
           kind = "login" => user \in Users,
           then # "nothing" => kind = "refresh"
    PROVE  /\ NewCall(kind, then, retry, user, token, c) \in Call
           /\ Carries(NewCall(kind, then, retry, user, token, c), n)
BY AppSessionAssumption
DEF NewCall, Call, Kinds, Answers, Tokens, NoToken, Carries

\* Issuing tokens takes nothing from a call on its way.
LEMMA CarriesMore ==
    ASSUME NEW n \in Nat, NEW m \in Nat, n <= m, NEW c, Carries(c, n)
    PROVE  Carries(c, m)
BY DEF Carries

\* An answer about an issued token keeps a call a call.
LEMMA AnsweredCarries ==
    ASSUME NEW n \in 0 .. MaxIssued, NEW c \in Call, Carries(c, n),
           NEW answer \in Answers, NEW result \in 0 .. n,
           answer = "ok" /\ c.kind \in {"refresh", "login", "me"} => result # NoToken
    PROVE  /\ [c EXCEPT !.answer = answer, !.result = result] \in Call
           /\ Carries([c EXCEPT !.answer = answer, !.result = result], n)
<1> DEFINE d == [c EXCEPT !.answer = answer, !.result = result]
<1>0. result \in Tokens
  BY AppSessionAssumption DEF Tokens
<1>1. d \in Call
  BY <1>0 DEF Call
<1>2. /\ d.kind = c.kind /\ d.then = c.then /\ d.user = c.user
      /\ d.token = c.token /\ d.cookie = c.cookie
      /\ d.answer = answer /\ d.result = result
  BY DEF Call
<1> HIDE DEF d
<1>3. Carries(d, n)
  BY <1>2 DEF Carries
<1>4. QED
  BY <1>1, <1>3 DEF d

-----------------------------------------------------------------------------
LEMMA AppSessionInvInit == AppSessionInit => AppSessionInv
<1> SUFFICES ASSUME AppSessionInit
             PROVE  AppSessionInv
  OBVIOUS
<1>1. PICK u \in Users : owners = <<u>>
  BY DEF AppSessionInit
<1>2. owners \in Seq(Users) /\ Len(owners) = 1 /\ DOMAIN owners = {1}
  BY <1>1
<1>3. cookie \in 0 .. 1 /\ 1 \in 0 .. MaxIssued /\ NoToken = 0
  BY AppSessionAssumption DEF AppSessionInit, NoToken
<1> DEFINE c == NewCall("refresh", "nothing", TRUE, NoUser, NoToken, cookie)
<1>4. c \in Call /\ Carries(c, 1)
  <2>1. NoToken \in 0 .. 1 /\ "refresh" \in Kinds /\ "refresh" # "login"
    BY <1>3 DEF Kinds
  <2>2. QED
    BY <2>1, <1>3, NewCallCarries
<1>5. calls = {c}
  BY DEF AppSessionInit
<1> HIDE DEF c
<1>6. AppSessionTypeOK
  <2>1. {clientToken, appToken, cookie, loginForm} \subseteq 0 .. Len(owners)
    BY <1>2, <1>3 DEF AppSessionInit
  <2>2. valid \cup expired \subseteq DOMAIN owners
    BY <1>2 DEF AppSessionInit
  <2>3. Len(owners) <= MaxIssued /\ calls \subseteq Call
    BY <1>2, <1>3, <1>4, <1>5
  <2>4. QED
    BY <1>2, <2>1, <2>2, <2>3 DEF AppSessionInit, AppSessionTypeOK
<1>7. CallsInv
  BY <1>2, <1>4, <1>5 DEF CallsInv
<1>8. QED
  BY <1>6, <1>7
  DEF AppSessionInit, AppSessionInv, TokensAgree

-----------------------------------------------------------------------------
(* The steps.  Only the server issues tokens; the page is judged beside it.    *)

\* The page's part of the type invariant, and its two copies of the token.
PageInv ==
    /\ {clientToken, appToken, cookie, loginForm} \subseteq 0 .. Len(owners)
    /\ profile \in Users \cup {NoUser}
    /\ isInitializing \in BOOLEAN
    /\ TokensAgree

\* The server's part.
ServerInv == /\ owners \in Seq(Users) /\ Len(owners) <= MaxIssued
             /\ valid \cup expired \subseteq DOMAIN owners

\* Calls that a page may have under way when so many tokens were issued.
Sound(cs, issued) == \A c \in cs : c \in Call /\ Carries(c, issued)

LEMMA AppSessionInvParts ==
    AppSessionInv <=> PageInv /\ ServerInv /\ Sound(calls, Len(owners))
BY DEF AppSessionInv, AppSessionTypeOK, CallsInv, PageInv, ServerInv, Sound

LEMMA AppSessionInvPartsNext ==
    PageInv' /\ ServerInv' /\ Sound(calls', Len(owners')) => AppSessionInv'
BY DEF AppSessionInv, AppSessionTypeOK, CallsInv, PageInv, ServerInv, Sound

\* The number of tokens is a bound that the lemmas about calls apply to.
LEMMA IssuedIsBounded ==
    ServerInv => Len(owners) \in 0 .. MaxIssued /\ Len(owners) \in Nat
                 /\ DOMAIN owners = 1 .. Len(owners)
BY AppSessionAssumption DEF ServerInv

\* Handlers that set the token leave the two copies equal.
LEMMA SetTokenKeeps ==
    ASSUME PageInv, ServerInv, NEW n \in 1 .. Len(owners), NEW rest,
           Sound(rest, Len(owners)), SetToken(n, rest), UNCHANGED owners,
           loginForm' \in {NoToken, loginForm}, isInitializing' \in BOOLEAN,
           cookie' \in 0 .. Len(owners)
    PROVE  PageInv' /\ Sound(calls', Len(owners'))
<1>1. Len(owners) \in 0 .. MaxIssued /\ n \in 0 .. Len(owners) /\ n # NoToken
  BY IssuedIsBounded DEF NoToken
<1>2. Me(n, TRUE) \in Call /\ Carries(Me(n, TRUE), Len(owners))
  <2>1. NoToken \in 0 .. Len(owners) /\ "me" \in Kinds /\ "me" # "login"
    BY <1>1 DEF Kinds, NoToken
  <2>2. QED
    BY <2>1, <1>1, NewCallCarries DEF Me
<1>3. Sound(calls', Len(owners'))
  BY <1>2 DEF SetToken, Sound
<1>4. /\ clientToken' = n /\ appToken' = n /\ profile' = profile
      /\ owners' = owners
  BY DEF SetToken
<1>5. {clientToken', appToken', cookie', loginForm'} \subseteq 0 .. Len(owners')
  BY <1>1, <1>4 DEF PageInv, NoToken
<1>6. TokensAgree'
  BY <1>1, <1>4 DEF TokensAgree
<1>7. PageInv'
  BY <1>4, <1>5, <1>6 DEF PageInv
<1>8. QED
  BY <1>3, <1>7

\* A session that ends leaves no token and no profile, nor does one whose
\* profile could not be had, which leaves the client its token.
LEMMA ResetKeeps ==
    ASSUME PageInv, ServerInv, NEW rest, Sound(rest, Len(owners)),
           ResetAuthState(rest), clientToken' \in {NoToken, clientToken},
           UNCHANGED <<owners, loginForm>>, isInitializing' \in BOOLEAN,
           cookie' \in {NoToken, cookie}
    PROVE  PageInv' /\ Sound(calls', Len(owners'))
<1>1. Len(owners) \in 0 .. MaxIssued
  BY IssuedIsBounded
<1>2. /\ appToken' = NoToken /\ profile' = NoUser
      /\ calls' = rest
  BY DEF ResetAuthState
<1>3. {clientToken', appToken', cookie', loginForm'} \subseteq 0 .. Len(owners')
  BY <1>1, <1>2 DEF PageInv, NoToken
<1>4. TokensAgree'
  BY <1>2 DEF TokensAgree
<1>5. QED
  BY <1>2, <1>3, <1>4 DEF PageInv, Sound

\* A call that is taken from the ones under way, and one that is sent.
LEMMA SoundCalls ==
    ASSUME NEW n, Sound(calls, n), NEW c, NEW d, d \in Call, Carries(d, n)
    PROVE  /\ Sound(calls \ {c}, n) /\ Sound(calls \cup {d}, n)
           /\ Sound((calls \ {c}) \cup {d}, n)
BY DEF Sound

LEMMA PageSends ==
    ASSUME PageInv, ServerInv, Sound(calls, Len(owners)),
           Search \/ SocketRefreshes \/ Logout \/ Login
    PROVE  PageInv' /\ ServerInv' /\ Sound(calls', Len(owners'))
<1>1. Len(owners) \in 0 .. MaxIssued /\ NoToken \in 0 .. Len(owners)
  BY IssuedIsBounded DEF NoToken
<1>2. {clientToken, cookie} \subseteq 0 .. Len(owners)
  BY DEF PageInv
<1>3. CASE Search
  <2> DEFINE d == NewCall("search", "nothing", TRUE, NoUser, clientToken, NoToken)
  <2>1. "search" \in Kinds /\ "search" # "login"
    BY DEF Kinds
  <2>2. d \in Call /\ Carries(d, Len(owners))
    BY <1>1, <1>2, <2>1, NewCallCarries
  <2> HIDE DEF d
  <2>3. calls' = calls \cup {d} /\ UNCHANGED <<pageVars, cookie, serverVars>>
    BY <1>3 DEF Search, Send, d
  <2>4. QED
    BY <2>2, <2>3, SoundCalls
    DEF PageInv, ServerInv, pageVars, serverVars, TokensAgree
<1>4. CASE SocketRefreshes
  <2> DEFINE d == Refresh("nothing", cookie)
  <2>1. "refresh" \in Kinds /\ "refresh" # "login"
    BY DEF Kinds
  <2>2. d \in Call /\ Carries(d, Len(owners))
    BY <1>1, <1>2, <2>1, NewCallCarries DEF Refresh
  <2> HIDE DEF d
  <2>3. calls' = calls \cup {d} /\ UNCHANGED <<pageVars, cookie, serverVars>>
    BY <1>4 DEF SocketRefreshes, Send, d
  <2>4. QED
    BY <2>2, <2>3, SoundCalls
    DEF PageInv, ServerInv, pageVars, serverVars, TokensAgree
<1>5. CASE Logout
  <2> DEFINE d == NewCall("logout", "nothing", TRUE, NoUser, clientToken, cookie)
  <2>1. "logout" \in Kinds /\ "logout" # "login"
    BY DEF Kinds
  <2>2. d \in Call /\ Carries(d, Len(owners))
    BY <1>1, <1>2, <2>1, NewCallCarries
  <2> HIDE DEF d
  <2>3. calls' = calls \cup {d} /\ UNCHANGED <<pageVars, cookie, serverVars>>
    BY <1>5 DEF Logout, Send, d
  <2>4. QED
    BY <2>2, <2>3, SoundCalls
    DEF PageInv, ServerInv, pageVars, serverVars, TokensAgree
<1>6. CASE Login
  <2>1. PICK user \in Users : Login!(user)
    BY <1>6 DEF Login
  <2> DEFINE d == NewCall("login", "nothing", TRUE, user, clientToken, NoToken)
  <2>2. "login" \in Kinds
    BY DEF Kinds
  <2>3. d \in Call /\ Carries(d, Len(owners))
    BY <1>1, <1>2, <2>2, NewCallCarries
  <2> HIDE DEF d
  <2>4. /\ calls' = calls \cup {d} /\ loginForm' = NoToken /\ appToken = NoToken
        /\ UNCHANGED <<clientToken, appToken, profile, isInitializing,
                       cookie, serverVars>>
    BY <2>1 DEF Send, d
  <2>5. PageInv'
    BY <1>1, <2>4
    DEF PageInv, serverVars, TokensAgree
  <2>6. QED
    BY <2>3, <2>4, <2>5, SoundCalls DEF ServerInv, serverVars
<1>7. QED
  BY <1>3, <1>4, <1>5, <1>6

\* The server issues a token, or it only answers, forgets and expires some.
LEMMA IssueKeeps ==
    ASSUME PageInv, ServerInv, Sound(calls, Len(owners)),
           NEW c \in calls, NEW user \in Users, NEW revoked,
           Issue(c, user, revoked), UNCHANGED <<pageVars, cookie>>
    PROVE  PageInv' /\ ServerInv' /\ Sound(calls', Len(owners'))
<1> DEFINE n == Len(owners) + 1
           d == [c EXCEPT !.answer = "ok", !.result = n]
<1>1. /\ owners \in Seq(Users) /\ Len(owners) \in Nat
      /\ n \in 1 .. MaxIssued /\ n \in 0 .. MaxIssued /\ Len(owners) <= n
  BY IssuedIsBounded, AppSessionAssumption DEF ServerInv, Issue
<1>2. /\ owners' = Append(owners, user) /\ Len(owners') = n
      /\ owners' \in Seq(Users) /\ DOMAIN owners' = 1 .. n
      /\ \A i \in 1 .. Len(owners) : owners'[i] = owners[i]
  BY <1>1 DEF Issue
<1>3. calls' = (calls \ {c}) \cup {d}
  BY DEF Issue, Answered
<1>4. valid' \subseteq valid \cup {n} /\ expired' = expired
  BY DEF Issue
<1> HIDE DEF n
<1>5. /\ \A x : Carries(x, Len(owners)) => Carries(x, n)
      /\ c \in Call /\ Carries(c, n)
  BY <1>1, CarriesMore DEF Sound
<1>6. n # NoToken /\ n \in 0 .. n /\ "ok" \in Answers
  BY <1>1 DEF NoToken, Answers
<1>7. d \in Call /\ Carries(d, n)
  BY <1>1, <1>5, <1>6, AnsweredCarries
<1> HIDE DEF d
<1>8. Sound(calls', Len(owners'))
  BY <1>2, <1>3, <1>5, <1>7 DEF Sound
<1>9. valid' \cup expired' \subseteq 1 .. n
  <2>1. valid \cup expired \subseteq 1 .. Len(owners)
    BY IssuedIsBounded DEF ServerInv
  <2>2. 1 .. Len(owners) \subseteq 1 .. n /\ n \in 1 .. n
    BY <1>1
  <2>3. QED
    BY <1>4, <2>1, <2>2
<1>10. ServerInv'
  BY <1>1, <1>2, <1>9 DEF ServerInv
<1>11. PageInv'
  <2>1. {clientToken', appToken', cookie', loginForm'} \subseteq 0 .. Len(owners')
    BY <1>1, <1>2 DEF PageInv, pageVars
  <2>2. QED
    BY <2>1 DEF PageInv, pageVars, TokensAgree
<1>12. QED
  BY <1>8, <1>10, <1>11

LEMMA ServerAnswersKeeps ==
    ASSUME PageInv, ServerInv, Sound(calls, Len(owners)), ServerAnswers
    PROVE  PageInv' /\ ServerInv' /\ Sound(calls', Len(owners'))
<1>1. PICK c \in calls : ServerAnswers!(c)
  BY DEF ServerAnswers
<1>2. /\ c \in Call /\ Carries(c, Len(owners))
      /\ Len(owners) \in 0 .. MaxIssued /\ DOMAIN owners = 1 .. Len(owners)
  BY IssuedIsBounded DEF Sound
<1>3. UNCHANGED <<pageVars, cookie>>
  BY <1>1
<1>4. ASSUME UNCHANGED owners, valid' \cup expired' \subseteq DOMAIN owners,
             NEW answer \in Answers, NEW result \in 0 .. Len(owners),
             Answered(c, answer, result),
             answer = "ok" /\ c.kind \in {"refresh", "login", "me"}
                => result # NoToken
      PROVE  PageInv' /\ ServerInv' /\ Sound(calls', Len(owners'))
  <2> DEFINE d == [c EXCEPT !.answer = answer, !.result = result]
  <2>1. d \in Call /\ Carries(d, Len(owners))
    BY <1>2, <1>4, AnsweredCarries
  <2>2. calls' = (calls \ {c}) \cup {d}
    BY <1>4 DEF Answered
  <2> HIDE DEF d
  <2>3. Sound(calls', Len(owners'))
    BY <1>4, <2>1, <2>2, SoundCalls
  <2>4. PageInv' /\ ServerInv'
    BY <1>3, <1>4
    DEF PageInv, ServerInv, pageVars, TokensAgree
  <2>5. QED
    BY <2>3, <2>4
<1>5. /\ {"ok", "unauthorized", "failed"} \subseteq Answers
      /\ NoToken \in 0 .. Len(owners)
      /\ valid \cup expired \subseteq DOMAIN owners
  BY <1>2 DEF Answers, NoToken, ServerInv
<1>6. CASE c.kind = "refresh" /\ c.cookie \in valid
           /\ Issue(c, owners[c.cookie], {c.cookie})
  <2>1. owners[c.cookie] \in Users
    BY <1>2, <1>5, <1>6 DEF ServerInv
  <2>2. QED
    BY <1>3, <1>6, <2>1, IssueKeeps
<1>7. CASE c.kind = "login" /\ Issue(c, c.user, {})
  <2>1. c.user \in Users
    BY <1>2, <1>7 DEF Carries
  <2>2. QED
    BY <1>3, <1>7, <2>1, IssueKeeps
<1>8. CASE Answered(c, "unauthorized", NoToken) /\ UNCHANGED serverVars
  BY <1>4, <1>5, <1>8 DEF serverVars
<1>9. CASE /\ c.kind \in {"me", "search"} /\ Knows(c)
           /\ Answered(c, "ok", c.token) /\ UNCHANGED serverVars
  <2>1. c.token \in 0 .. Len(owners) /\ c.token # NoToken
    BY <1>2, <1>9 DEF Carries, Knows
  <2>2. QED
    BY <1>4, <1>5, <1>9, <2>1 DEF serverVars
<1>10. CASE /\ c.kind = "logout"
            /\ expired' = expired \cup ({c.token} \ {NoToken})
            /\ valid' = valid \ {c.cookie}
            /\ Answered(c, "ok", NoToken) /\ UNCHANGED owners
  <2>1. {c.token} \ {NoToken} \subseteq DOMAIN owners
    BY <1>2 DEF Carries, NoToken
  <2>2. valid' \cup expired' \subseteq DOMAIN owners
    BY <1>5, <1>10, <2>1
  <2>3. QED
    BY <1>4, <1>5, <1>10, <2>2
<1>11. CASE Answered(c, "failed", NoToken) /\ UNCHANGED serverVars
  BY <1>4, <1>5, <1>11 DEF serverVars
<1>12. QED
  BY <1>1, <1>6, <1>7, <1>8, <1>9, <1>10, <1>11

-----------------------------------------------------------------------------
(* The page handles an answer.                                             *)

\* A refresh that succeeds sets the token and repeats the call that waited.
LEMMA RefreshSucceedsKeeps ==
    ASSUME PageInv, ServerInv, Sound(calls, Len(owners)), RefreshSucceeds
    PROVE  PageInv' /\ ServerInv' /\ Sound(calls', Len(owners'))
<1>1. PICK c \in calls : RefreshSucceeds!(c)
  BY DEF RefreshSucceeds
<1>2. /\ c \in Call /\ Carries(c, Len(owners))
      /\ Len(owners) \in 0 .. MaxIssued
  BY IssuedIsBounded DEF Sound
<1>3. c.kind = "refresh" /\ c.answer = "ok"
  BY <1>1 DEF Handled
<1>4. c.result \in 0 .. Len(owners) /\ c.result \in 1 .. Len(owners)
  BY <1>2, <1>3 DEF Carries, NoToken
<1> DEFINE d == NewCall(c.then, "nothing", FALSE, NoUser, c.result, NoToken)
           rest == (calls \ {c}) \cup (IF c.then = "nothing" THEN {} ELSE {d})
<1>5. c.then # "nothing" => d \in Call /\ Carries(d, Len(owners))
  <2> HAVE c.then # "nothing"
  <2>1. c.then \in Kinds /\ c.then # "login" /\ NoToken \in 0 .. Len(owners)
    BY <1>2 DEF Carries, Kinds, NoToken
  <2>2. QED
    BY <1>2, <1>4, <2>1, NewCallCarries
<1>6. SetToken(c.result, rest) /\ cookie' = c.result /\ isInitializing' = FALSE
      /\ UNCHANGED <<loginForm, serverVars>>
  BY <1>1
<1> HIDE DEF d
<1>7. Sound(rest, Len(owners))
  BY <1>5 DEF Sound
<1> HIDE DEF rest
<1>8. PageInv' /\ Sound(calls', Len(owners'))
  <2>1. isInitializing' \in BOOLEAN
    BY <1>6 DEF PageInv
  <2>2. cookie' \in 0 .. Len(owners) /\ loginForm' \in {NoToken, loginForm}
    BY <1>4, <1>6
  <2>3. QED
    BY <1>4, <1>6, <1>7, <2>1, <2>2, SetTokenKeeps DEF serverVars
<1>9. QED
  BY <1>6, <1>8 DEF ServerInv, serverVars

\* A refresh that fails ends the session or, if one only was begun, leaves it.
LEMMA RefreshFailsKeeps ==
    ASSUME PageInv, ServerInv, Sound(calls, Len(owners)), RefreshFails
    PROVE  PageInv' /\ ServerInv' /\ Sound(calls', Len(owners'))
<1>1. PICK c \in calls : RefreshFails!(c)
  BY DEF RefreshFails
<1>2. Sound(calls \ {c}, Len(owners))
  BY DEF Sound
<1>3. isInitializing' = FALSE /\ UNCHANGED <<loginForm, cookie, serverVars>>
  BY <1>1
<1>4. ASSUME ResetAuthState(calls \ {c}), clientToken' \in {NoToken, clientToken}
      PROVE  PageInv' /\ Sound(calls', Len(owners'))
  <2>1. isInitializing' \in BOOLEAN
    BY <1>3 DEF PageInv
  <2>2. QED
    BY <1>2, <1>3, <1>4, <2>1, ResetKeeps DEF serverVars
<1>5. ASSUME calls' = calls \ {c},
             UNCHANGED <<clientToken, appToken, profile>>
      PROVE  PageInv' /\ Sound(calls', Len(owners'))
  BY <1>2, <1>3, <1>5
  DEF PageInv, serverVars, TokensAgree
<1>6. PageInv' /\ Sound(calls', Len(owners'))
  BY <1>1, <1>4, <1>5 DEF SessionExpired
<1>7. QED
  BY <1>3, <1>6 DEF ServerInv, serverVars

\* A refused call is repeated after a refresh or ends the session.
LEMMA CallUnauthorizedKeeps ==
    ASSUME PageInv, ServerInv, Sound(calls, Len(owners)), CallUnauthorized
    PROVE  PageInv' /\ ServerInv' /\ Sound(calls', Len(owners'))
<1>1. PICK c \in calls : CallUnauthorized!(c)
  BY DEF CallUnauthorized
<1>2. Sound(calls \ {c}, Len(owners)) /\ Len(owners) \in 0 .. MaxIssued
  BY IssuedIsBounded DEF Sound
<1>3. c.kind \in {"me", "search"}
      /\ UNCHANGED <<isInitializing, loginForm, cookie, serverVars>>
  BY <1>1
<1>4. CASE SessionExpired(calls \ {c})
  <2>1. PageInv' /\ Sound(calls', Len(owners'))
    BY <1>2, <1>3, <1>4, ResetKeeps DEF SessionExpired, serverVars, PageInv
  <2>2. QED
    BY <1>3, <2>1 DEF ServerInv, serverVars
<1> DEFINE d == Refresh(c.kind, cookie)
<1>5. CASE /\ calls' = (calls \ {c}) \cup {d}
           /\ UNCHANGED <<clientToken, appToken, profile>>
  <2>1. "refresh" \in Kinds /\ "refresh" # "login"
        /\ {clientToken, cookie} \subseteq 0 .. Len(owners)
    BY DEF Kinds, PageInv
  <2>2. d \in Call /\ Carries(d, Len(owners))
    BY <1>2, <1>3, <2>1, NewCallCarries DEF Refresh
  <2> HIDE DEF d
  <2>3. PageInv' /\ ServerInv'
    BY <1>3, <1>5
    DEF PageInv, ServerInv, serverVars, TokensAgree
  <2>4. QED
    BY <1>3, <1>5, <2>2, <2>3, SoundCalls DEF serverVars
<1>6. QED
  BY <1>1, <1>4, <1>5

\* The answers about the profile.
LEMMA ProfileKeeps ==
    ASSUME PageInv, ServerInv, Sound(calls, Len(owners)),
           ProfileArrives \/ ProfileFails
    PROVE  PageInv' /\ ServerInv' /\ Sound(calls', Len(owners'))
<1>1. CASE ProfileArrives
  <2>1. PICK c \in calls : ProfileArrives!(c)
    BY <1>1 DEF ProfileArrives
  <2>2. /\ c \in Call /\ Carries(c, Len(owners))
        /\ Len(owners) \in 0 .. MaxIssued /\ DOMAIN owners = 1 .. Len(owners)
    BY IssuedIsBounded DEF Sound
  <2>3. c.kind = "me" /\ c.answer = "ok"
    BY <2>1 DEF Handled
  <2>4. c.result \in 1 .. Len(owners) /\ owners[c.result] \in Users
    BY <2>2, <2>3 DEF Carries, NoToken, ServerInv
  <2>5. /\ profile' = owners[c.result]
        /\ calls' = calls \ {c}
        /\ UNCHANGED <<clientToken, appToken, isInitializing, loginForm,
                       cookie, serverVars>>
    BY <2>1
  <2>6. TokensAgree'
    BY <2>5
    DEF PageInv, serverVars, TokensAgree
  <2>7. QED
    BY <2>4, <2>5, <2>6 DEF PageInv, ServerInv, Sound, serverVars
<1>2. CASE ProfileFails
  <2>1. PICK c \in calls : ProfileFails!(c)
    BY <1>2 DEF ProfileFails
  <2>2. Sound(calls \ {c}, Len(owners))
    BY DEF Sound
  <2>3. PageInv' /\ Sound(calls', Len(owners'))
    BY <2>1, <2>2, ResetKeeps DEF serverVars, PageInv
  <2>4. QED
    BY <2>1, <2>3 DEF ServerInv, serverVars
<1>3. QED
  BY <1>1, <1>2

\* The answers of a search and of a logout.
LEMMA DoneKeeps ==
    ASSUME PageInv, ServerInv, Sound(calls, Len(owners)),
           SearchDone \/ LogoutDone
    PROVE  PageInv' /\ ServerInv' /\ Sound(calls', Len(owners'))
<1>1. CASE SearchDone
  <2>1. PICK c \in calls : SearchDone!(c)
    BY <1>1 DEF SearchDone
  <2>2. QED
    BY <2>1
    DEF PageInv, ServerInv, Sound, pageVars, serverVars, TokensAgree
<1>2. CASE LogoutDone
  <2>1. PICK c \in calls : LogoutDone!(c)
    BY <1>2 DEF LogoutDone
  <2>2. Sound(calls \ {c}, Len(owners))
    BY DEF Sound
  <2>3. /\ ResetAuthState(calls \ {c}) /\ clientToken' = NoToken
        /\ cookie' \in {NoToken, cookie}
        /\ UNCHANGED <<isInitializing, loginForm, serverVars>>
    BY <2>1 DEF SessionExpired, PageInv
  <2>4. PageInv' /\ Sound(calls', Len(owners'))
    BY <2>2, <2>3, ResetKeeps DEF serverVars, PageInv
  <2>5. QED
    BY <2>3, <2>4 DEF ServerInv, serverVars
<1>3. QED
  BY <1>1, <1>2

\* The two steps of the login form: between them the copies may differ.
LEMMA LoginFormKeeps ==
    ASSUME PageInv, ServerInv, Sound(calls, Len(owners)),
           LoginAnswered \/ LoginDone
    PROVE  PageInv' /\ ServerInv' /\ Sound(calls', Len(owners'))
<1>1. CASE LoginAnswered
  <2>1. PICK c \in calls : LoginAnswered!(c)
    BY <1>1 DEF LoginAnswered
  <2>2. Carries(c, Len(owners)) /\ c.kind = "login"
    BY <2>1 DEF Sound, Handled
  <2>3. c.answer = "ok" => c.result \in 0 .. Len(owners) /\ c.result # NoToken
    BY <2>2 DEF Carries
  <2>4. /\ calls' = calls \ {c}
        /\ UNCHANGED <<appToken, profile, isInitializing, serverVars>>
        /\ \/ /\ c.answer = "ok" /\ clientToken' = c.result
              /\ loginForm' = c.result /\ cookie' = c.result
           \/ UNCHANGED <<clientToken, loginForm, cookie>>
    BY <2>1
  <2>5. TokensAgree'
    BY <2>3, <2>4
    DEF PageInv, serverVars, TokensAgree
  <2>6. {clientToken', appToken', cookie', loginForm'} \subseteq 0 .. Len(owners')
    BY <2>3, <2>4 DEF PageInv, serverVars
  <2>7. QED
    BY <2>4, <2>5, <2>6 DEF PageInv, ServerInv, Sound, serverVars
<1>2. CASE LoginDone
  <2>1. /\ loginForm # NoToken /\ SetToken(loginForm, calls)
        /\ loginForm' = NoToken
        /\ UNCHANGED <<isInitializing, cookie, serverVars>>
    BY <1>2 DEF LoginDone
  <2>2. loginForm \in 1 .. Len(owners)
    BY <2>1, IssuedIsBounded DEF PageInv, NoToken
  <2>3. PageInv' /\ Sound(calls', Len(owners'))
    BY <2>1, <2>2, SetTokenKeeps DEF serverVars, PageInv
  <2>4. QED
    BY <2>1, <2>3 DEF ServerInv, serverVars
<1>3. QED
  BY <1>1, <1>2

-----------------------------------------------------------------------------
LEMMA AppSessionInvNext ==
    AppSessionInv /\ [AppSessionNext]_appSessionVars => AppSessionInv'
<1> SUFFICES ASSUME AppSessionInv, [AppSessionNext]_appSessionVars
             PROVE  AppSessionInv'
  OBVIOUS
<1> USE AppSessionInvParts, AppSessionInvPartsNext
<1>1. PageInv /\ ServerInv /\ Sound(calls, Len(owners))
  OBVIOUS
<1>2. CASE Search \/ SocketRefreshes \/ Logout \/ Login
  BY <1>1, <1>2, PageSends
<1>3. CASE ServerAnswers
  BY <1>1, <1>3, ServerAnswersKeeps
<1>4. CASE TokenExpires
  BY <1>1, <1>4
  DEF TokenExpires, PageInv, ServerInv, pageVars, TokensAgree
<1>5. CASE RefreshSucceeds
  BY <1>1, <1>5, RefreshSucceedsKeeps
<1>6. CASE RefreshFails
  BY <1>1, <1>6, RefreshFailsKeeps
<1>7. CASE CallUnauthorized
  BY <1>1, <1>7, CallUnauthorizedKeeps
<1>8. CASE ProfileArrives \/ ProfileFails
  BY <1>1, <1>8, ProfileKeeps
<1>9. CASE SearchDone \/ LogoutDone
  BY <1>1, <1>9, DoneKeeps
<1>10. CASE LoginAnswered \/ LoginDone
  BY <1>1, <1>10, LoginFormKeeps
<1>11. CASE UNCHANGED appSessionVars
  BY <1>1, <1>11
  DEF appSessionVars, pageVars, serverVars, PageInv, ServerInv, TokensAgree
<1>12. QED
  BY <1>2, <1>3, <1>4, <1>5, <1>6, <1>7, <1>8, <1>9, <1>10, <1>11
  DEF AppSessionNext

LEMMA AppSessionInvHolds == AppSessionSpec => []AppSessionInv
BY AppSessionInvInit, AppSessionInvNext, PTL DEF AppSessionSpec

\* Whatever is answered, in whatever order, the page and the calls hold tokens
\* that were issued (api/client.ts, App.tsx).
THEOREM AppSessionTypeOKHolds == AppSessionSpec => []AppSessionTypeOK
BY AppSessionInvHolds, PTL DEF AppSessionInv

\* The API client and the App hold the same token while a session is shown,
\* unless a login form is between its two steps (App.tsx, api/client.ts).
THEOREM TokensAgreeHolds == AppSessionSpec => []TokensAgree
BY AppSessionInvHolds, PTL DEF AppSessionInv

-----------------------------------------------------------------------------
(* The profile is on its way.                                              *)

\* The call will bring the profile of the token's owner, or repeat one that does.
Loads(c, n) == (c.kind = "me" /\ c.token = n) \/ c.then = "me"

LEMMA ComingIsLoads ==
    ProfileIsComing <=>
        (appToken # NoToken /\ profile = NoUser => \E c \in calls : Loads(c, appToken))
BY DEF ProfileIsComing, Loads

LEMMA ComingIsLoadsNext ==
    (appToken' # NoToken /\ profile' = NoUser => \E c \in calls' : Loads(c, appToken'))
        => ProfileIsComing'
BY DEF ProfileIsComing, Loads

\* A step that keeps the token keeps the profile coming when every call that
\* loads it stays or is followed by another one.
LEMMA StillComing ==
    ASSUME ProfileIsComing, UNCHANGED <<appToken, profile>>,
           \A c \in calls : Loads(c, appToken) => \E d \in calls' : Loads(d, appToken)
    PROVE  ProfileIsComing'
BY ComingIsLoads, ComingIsLoadsNext

\* A call of which only the answer is new.
LEMMA AnsweredLoads ==
    ASSUME NEW c \in Call, NEW answer, NEW result, NEW n, Loads(c, n)
    PROVE  Loads([c EXCEPT !.answer = answer, !.result = result], n)
<1> DEFINE d == [c EXCEPT !.answer = answer, !.result = result]
<1>1. d.kind = c.kind /\ d.token = c.token /\ d.then = c.then
  BY DEF Call
<1>2. Loads(d, n)
  BY <1>1 DEF Loads
<1>3. QED
  BY <1>2

\* A token that is new to the App brings the call for its profile.
LEMMA SetTokenLoads ==
    ASSUME AppSessionInv, ProfileIsComing, NEW n, NEW rest, SetToken(n, rest),
           \A c \in calls : Loads(c, n) => \E d \in rest : Loads(d, n)
    PROVE  ProfileIsComing'
<1>1. appToken' = n /\ profile' = profile
      /\ calls' = rest \cup (IF n # appToken THEN {Me(n, TRUE)} ELSE {})
  BY DEF SetToken
<1>2. CASE n # appToken
  <2>1. Me(n, TRUE).kind = "me" /\ Me(n, TRUE).token = n
    BY DEF Me, NewCall
  <2>2. Me(n, TRUE) \in calls' /\ Loads(Me(n, TRUE), appToken')
    BY <1>1, <1>2, <2>1 DEF Loads
  <2>3. QED
    BY <2>2, ComingIsLoadsNext
<1>3. CASE n = appToken
  BY <1>1, <1>3, StillComing
<1>4. QED
  BY <1>2, <1>3

LEMMA ResetEndsComing ==
    ASSUME NEW rest, ResetAuthState(rest)
    PROVE  ProfileIsComing'
BY DEF ResetAuthState, ProfileIsComing

LEMMA ProfileIsComingNext ==
    AppSessionInv /\ ProfileIsComing /\ [AppSessionNext]_appSessionVars
        => ProfileIsComing'
<1> SUFFICES ASSUME AppSessionInv, ProfileIsComing, [AppSessionNext]_appSessionVars
             PROVE  ProfileIsComing'
  OBVIOUS
<1>0. \A c \in calls : c \in Call /\ Carries(c, Len(owners))
  BY DEF AppSessionInv, AppSessionTypeOK, CallsInv
<1>1. CASE Search \/ SocketRefreshes \/ Logout \/ Login
  <2>1. calls \subseteq calls' /\ UNCHANGED <<appToken, profile>>
    BY <1>1 DEF Search, SocketRefreshes, Logout, Login, Send, pageVars
  <2>2. QED
    BY <2>1, StillComing
<1>2. CASE ServerAnswers
  <2>1. PICK c \in calls : ServerAnswers!(c)
    BY <1>2 DEF ServerAnswers
  <2>2. UNCHANGED <<appToken, profile>>
    BY <2>1 DEF pageVars
  <2>3. PICK answer, result :
           calls' = (calls \ {c}) \cup {[c EXCEPT !.answer = answer, !.result = result]}
    BY <2>1 DEF Issue, Answered
  <2>4. \A n : Loads(c, n) => Loads([c EXCEPT !.answer = answer, !.result = result], n)
    BY <1>0, AnsweredLoads
  <2>5. QED
    BY <2>2, <2>3, <2>4, StillComing
<1>3. CASE TokenExpires
  BY <1>3, StillComing DEF TokenExpires, pageVars
<1>4. CASE RefreshSucceeds
  <2>1. PICK c \in calls : RefreshSucceeds!(c)
    BY <1>4 DEF RefreshSucceeds
  <2> DEFINE d == NewCall(c.then, "nothing", FALSE, NoUser, c.result, NoToken)
             rest == (calls \ {c}) \cup (IF c.then = "nothing" THEN {} ELSE {d})
  <2>2. SetToken(c.result, rest) /\ c.kind = "refresh"
    BY <2>1 DEF Handled
  <2>3. c.then = "me" => d \in rest /\ Loads(d, c.result)
    BY DEF NewCall, Loads
  <2>4. Loads(c, c.result) => c.then = "me"
    BY <2>2 DEF Loads
  <2>5. calls \ {c} \subseteq rest
    OBVIOUS
  <2> HIDE DEF d, rest
  <2>6. \A x \in calls : Loads(x, c.result) => \E y \in rest : Loads(y, c.result)
    BY <2>3, <2>4, <2>5
  <2>7. QED
    BY <2>2, <2>6, SetTokenLoads
<1>5. CASE RefreshFails
  <2>1. PICK c \in calls : RefreshFails!(c)
    BY <1>5 DEF RefreshFails
  <2>2. CASE ResetAuthState(calls \ {c})
    BY <2>2, ResetEndsComing
  <2>3. CASE c.then = "nothing" /\ calls' = calls \ {c} /\ UNCHANGED <<appToken, profile>>
    <3>1. ~Loads(c, appToken)
      BY <2>1, <2>3 DEF Loads, Handled
    <3>2. QED
      BY <2>3, <3>1, StillComing
  <2>4. QED
    BY <2>1, <2>2, <2>3 DEF SessionExpired
<1>6. CASE CallUnauthorized
  <2>1. PICK c \in calls : CallUnauthorized!(c)
    BY <1>6 DEF CallUnauthorized
  <2>2. CASE SessionExpired(calls \ {c})
    BY <2>2, ResetEndsComing DEF SessionExpired
  <2>3. CASE /\ calls' = (calls \ {c}) \cup {Refresh(c.kind, cookie)}
             /\ UNCHANGED <<appToken, profile>>
    <3>1. Loads(c, appToken) => c.kind = "me"
      BY <1>0, <2>1 DEF Loads, Carries
    <3>2. c.kind = "me" => Loads(Refresh(c.kind, cookie), appToken)
      BY DEF Refresh, NewCall, Loads
    <3>3. QED
      BY <2>3, <3>1, <3>2, StillComing
  <2>4. QED
    BY <2>1, <2>2, <2>3
<1>7. CASE ProfileArrives
  <2>1. PICK c \in calls : ProfileArrives!(c)
    BY <1>7 DEF ProfileArrives
  <2>2. c.result \in DOMAIN owners /\ owners \in Seq(Users)
    BY <1>0, <2>1
    DEF Carries, Handled, NoToken, AppSessionInv, AppSessionTypeOK
  <2>3. profile' \in Users
    BY <2>1, <2>2
  <2>4. QED
    BY <2>3, AppSessionAssumption DEF ProfileIsComing
<1>8. CASE ProfileFails \/ LogoutDone
  BY <1>8, ResetEndsComing DEF ProfileFails, LogoutDone, SessionExpired
<1>9. CASE SearchDone \/ LoginAnswered
  <2>1. PICK c \in calls :
           /\ c.kind \in {"search", "login"} /\ calls' = calls \ {c}
           /\ UNCHANGED <<appToken, profile>>
    BY <1>9 DEF SearchDone, LoginAnswered, Handled, pageVars
  <2>2. ~Loads(c, appToken)
    BY <1>0, <2>1 DEF Loads, Carries
  <2>3. QED
    BY <2>1, <2>2, StillComing
<1>10. CASE LoginDone
  BY <1>10, SetTokenLoads DEF LoginDone
<1>11. CASE UNCHANGED appSessionVars
  BY <1>11, StillComing DEF appSessionVars, pageVars
<1>12. QED
  BY <1>1, <1>2, <1>3, <1>4, <1>5, <1>6, <1>7, <1>8, <1>9, <1>10, <1>11
  DEF AppSessionNext

\* The App with a token and without a profile has a call under way that brings the
\* profile of this token, or a refresh that will repeat one (ProfileIsComing;
\* App.tsx 135-171, api/client.ts 58-146).
THEOREM ProfileIsComingHolds == AppSessionSpec => []ProfileIsComing
<1>1. AppSessionInit => ProfileIsComing
  BY DEF AppSessionInit, ProfileIsComing
<1>2. QED
  BY <1>1, ProfileIsComingNext, AppSessionInvHolds, PTL DEF AppSessionSpec
=================================================================================
