------------------------------- MODULE Composer -------------------------------
(***************************************************************************)
(* Writing in a chat: the input line, the typing notices and the file dialog  *)
(* of ChatWindow.tsx over the functions of useChatSession.ts.  Those work     *)
(* with the state of the render they come from, while the link goes down and   *)
(* the session ends at any moment; a frame given to a socket that is not open  *)
(* puts the session into its error state.  A typing notice goes through the     *)
(* server's queue and its workers: it may be dropped, and overtaken by a later  *)
(* one.  A draft is a number.                                                *)
(***************************************************************************)
EXTENDS Naturals, FiniteSets

CONSTANTS MaxDrafts,    \* bound: drafts typed, files chosen
          MaxNotices    \* bound: notices of one kind on their way

ASSUME ComposerAssumption == MaxDrafts \in Nat /\ MaxNotices \in Nat

VARIABLES linkUp,         \* isConnected of the session
          sessionState,
          errorShown,     \* the error of the session is set
          draft,          \* messageText; NoDraft when empty
          replying,       \* replyTo is set
          sendingDraft,   \* isSending: the draft whose encryption is awaited
          typingTimer,    \* typingTimeoutRef: set in a render with a link or without
          lastNotice,     \* history: what the last notice sent says
          notices,        \* notices on their way: how many of each kind
          peerActivity,   \* what the peer shows
          peerTimer,      \* the peer's own timer for it
          pendingFile, accessDialog,
          sendingFile,    \* isSendingFile: the file that is being sent
          linkLost,       \* history: the link went down after the last notice
          typed           \* drafts and files so far

composeVars == <<draft, replying, sendingDraft>>
noticeVars == <<lastNotice, notices, linkLost>>
peerVars == <<peerActivity, peerTimer>>
typingVars == <<typingTimer, noticeVars, peerVars>>
fileDialogVars == <<pendingFile, accessDialog, sendingFile>>
statusVars == <<sessionState, errorShown>>
composerVars == <<linkUp, statusVars, composeVars, typingVars, fileDialogVars,
                  typed>>

NoDraft == 0
Drafts == 1 .. MaxDrafts
SessionActive == sessionState = "active"

ComposerInit ==
    /\ linkUp = TRUE /\ sessionState = "active" /\ errorShown = FALSE
    /\ draft = NoDraft /\ replying = FALSE /\ sendingDraft = NoDraft
    /\ typingTimer = "off" /\ lastNotice = FALSE /\ linkLost = FALSE
    /\ notices = [active \in BOOLEAN |-> 0]
    /\ peerActivity = FALSE /\ peerTimer = FALSE
    /\ pendingFile = NoDraft /\ accessDialog = FALSE /\ sendingFile = NoDraft
    /\ typed = 0

-----------------------------------------------------------------------------
(* What reaches the other side.                                            *)

\* The notice is queued, or dropped: the queue is full or a link is down.
Submitted(active) ==
    \/ UNCHANGED notices
    \/ notices[active] < MaxNotices /\ notices' = [notices EXCEPT ![active] = @ + 1]

\* sendTyping of a render without a link does nothing.
SendTyping(active) ==
    IF linkUp
    THEN lastNotice' = active /\ linkLost' = FALSE /\ Submitted(active)
    ELSE UNCHANGED noticeVars

\* send() of the client: without an open socket, onError.
Sends == IF linkUp THEN UNCHANGED statusVars
         ELSE sessionState' = "error" /\ errorShown' = TRUE

-----------------------------------------------------------------------------
(* The input line.                                                         *)

\* The textarea is enabled.
Writable == SessionActive /\ sendingDraft = NoDraft

\* handleMessageTextChange and handleTyping.
TypeText == \E text \in {NoDraft, typed + 1} :
    /\ Writable /\ text <= MaxDrafts
    /\ text = NoDraft => draft # NoDraft
    /\ draft' = text /\ typed' = IF text = NoDraft THEN typed ELSE text
    /\ SendTyping(text # NoDraft)
    /\ typingTimer' = IF text = NoDraft THEN "off"
                      ELSE IF linkUp THEN "linked" ELSE "unlinked"
    /\ UNCHANGED <<linkUp, statusVars, replying, sendingDraft, peerVars,
                   fileDialogVars>>

ChooseReply ==
    /\ replying' = ~replying
    /\ UNCHANGED <<linkUp, statusVars, draft, sendingDraft, typingVars, fileDialogVars, typed>>

\* The timer calls the sendTyping of the render that set it: with a link then,
\* it sends whatever the link is now; without, it does nothing.
TypingTimerFires ==
    /\ typingTimer # "off" /\ typingTimer' = "off"
    /\ IF typingTimer = "linked" THEN Sends /\ SendTyping(FALSE)
       ELSE UNCHANGED <<statusVars, noticeVars>>
    /\ UNCHANGED <<linkUp, composeVars, peerVars, fileDialogVars, typed>>

\* A worker has taken one of the notices and the peer shows it: until it is told
\* otherwise, or its own timer fires.
NoticeArrives == \E active \in BOOLEAN :
    /\ notices[active] > 0
    /\ notices' = [notices EXCEPT ![active] = @ - 1]
    /\ peerActivity' = active /\ peerTimer' = active
    /\ UNCHANGED <<linkUp, statusVars, composeVars, typingTimer, lastNotice,
                   linkLost, fileDialogVars, typed>>

NoticeIsDropped == \E active \in BOOLEAN :
    /\ notices[active] > 0
    /\ notices' = [notices EXCEPT ![active] = @ - 1]
    /\ UNCHANGED <<linkUp, statusVars, composeVars, typingTimer, lastNotice,
                   linkLost, peerVars, fileDialogVars, typed>>

PeerTimerFires ==
    /\ peerTimer /\ peerTimer' = FALSE /\ peerActivity' = FALSE
    /\ UNCHANGED <<linkUp, statusVars, composeVars, typingTimer, noticeVars,
                   fileDialogVars, typed>>

\* What handleSend does once sendMessage has returned, whatever that did.
ClearDraft == draft' = NoDraft /\ replying' = FALSE /\ sendingDraft' = NoDraft

\* The timer is stopped and the notice is left to the peer.
StopTimer == typingTimer' = "off" /\ UNCHANGED noticeVars

TakeBackTyping == typingTimer' = "off" /\ SendTyping(FALSE)

Blur ==
    /\ TakeBackTyping
    /\ UNCHANGED <<linkUp, statusVars, composeVars, peerVars, fileDialogVars, typed>>

\* handleSend and sendMessage up to the encryption.  Without a link sendMessage
\* returns at once and the draft is cleared.
HandleSend ==
    /\ draft # NoDraft /\ sendingDraft = NoDraft /\ SessionActive
    /\ TakeBackTyping
    /\ IF linkUp THEN sendingDraft' = draft /\ UNCHANGED <<draft, replying>> ELSE ClearDraft
    /\ UNCHANGED <<linkUp, statusVars, peerVars, fileDialogVars, typed>>

\* The encryption is done: the frame is sent, also when the link or the session
\* has gone meanwhile.
MessageSent ==
    /\ sendingDraft # NoDraft
    /\ Sends
    /\ ClearDraft
    /\ UNCHANGED <<linkUp, typingVars, fileDialogVars, typed>>

\* It fails: an error is shown, and the draft is cleared all the same.
MessageFails ==
    /\ sendingDraft # NoDraft
    /\ errorShown' = TRUE
    /\ ClearDraft
    /\ UNCHANGED <<linkUp, sessionState, typingVars, fileDialogVars, typed>>

-----------------------------------------------------------------------------
(* Files.                                                                  *)

\* handleFileSelect and handlePaste, with a file that passes the validation.
ChooseFile ==
    /\ SessionActive /\ sendingFile = NoDraft /\ typed < MaxDrafts
    /\ typed' = typed + 1
    /\ pendingFile' = typed + 1 /\ accessDialog' = TRUE
    /\ UNCHANGED <<linkUp, statusVars, composeVars, typingVars, sendingFile>>

CancelFile ==
    /\ accessDialog
    /\ accessDialog' = FALSE /\ pendingFile' = NoDraft
    /\ UNCHANGED <<linkUp, statusVars, composeVars, typingVars, sendingFile, typed>>

\* sendFile reports a session that has ended by the error, not to its caller,
\* who shows that the file was sent.
SelectMode ==
    /\ accessDialog /\ accessDialog' = FALSE
    /\ IF linkUp /\ SessionActive
       THEN sendingFile' = pendingFile /\ UNCHANGED <<pendingFile, errorShown>>
       ELSE pendingFile' = NoDraft /\ errorShown' = TRUE /\ UNCHANGED sendingFile
    /\ UNCHANGED <<linkUp, sessionState, composeVars, typingVars, typed>>

FileSent ==
    /\ sendingFile # NoDraft
    /\ sendingFile' = NoDraft /\ pendingFile' = NoDraft
    /\ Sends
    /\ UNCHANGED <<linkUp, composeVars, typingVars, accessDialog, typed>>

-----------------------------------------------------------------------------
(* The session and the link, whose changes nobody here asks for.           *)

LinkChanges ==
    /\ linkUp' = ~linkUp /\ linkLost' = (linkLost \/ linkUp)
    /\ UNCHANGED <<statusVars, composeVars, typingTimer, lastNotice, notices,
                   peerVars, fileDialogVars, typed>>

\* The peer leaves or a session begins.
SessionChanges ==
    /\ linkUp
    /\ \/ SessionActive /\ sessionState' = "peer_disconnected"
          /\ UNCHANGED errorShown
       \/ sessionState = "peer_disconnected" /\ sessionState' = "active"
          /\ errorShown' = FALSE
    /\ UNCHANGED <<linkUp, composeVars, typingVars, fileDialogVars, typed>>

ComposerNext ==
    \/ TypeText \/ ChooseReply \/ TypingTimerFires \/ Blur
    \/ NoticeArrives \/ NoticeIsDropped \/ PeerTimerFires
    \/ HandleSend \/ MessageSent \/ MessageFails
    \/ ChooseFile \/ CancelFile \/ SelectMode \/ FileSent
    \/ LinkChanges \/ SessionChanges

ComposerSpec == ComposerInit /\ [][ComposerNext]_composerVars

-----------------------------------------------------------------------------
\* The type invariant: what the peer shows ends by a timer of its own, and a
\* dialog has a file (the state of ChatWindow.tsx 49-83).
ComposerTypeOK ==
    /\ linkUp \in BOOLEAN /\ errorShown \in BOOLEAN
    /\ sessionState \in {"active", "peer_disconnected", "error"}
    /\ draft \in 0 .. MaxDrafts /\ sendingDraft \in 0 .. MaxDrafts
    /\ pendingFile \in 0 .. MaxDrafts /\ sendingFile \in 0 .. MaxDrafts
    /\ replying \in BOOLEAN /\ linkLost \in BOOLEAN /\ lastNotice \in BOOLEAN
    /\ notices \in [BOOLEAN -> 0 .. MaxNotices]
    /\ typingTimer \in {"off", "linked", "unlinked"}
    /\ peerActivity \in BOOLEAN /\ peerTimer \in BOOLEAN /\ peerActivity = peerTimer
    /\ accessDialog \in BOOLEAN /\ (accessDialog => pendingFile # NoDraft)
    /\ typed \in 0 .. MaxDrafts

\* A typing notice is taken back: the last one that was sent says that nobody is
\* typing, or the timer that sends this is still set by a render with a link, or
\* the sender has lost its link since; no order of typing, sending, leaving the
\* line, renders and timers leaves it out (ChatWindow.tsx 236-377).  What the peer
\* shows may be older, and then ends by the peer's own timer.
TypingIsTakenBack == lastNotice => typingTimer = "linked" \/ linkLost
===============================================================================
