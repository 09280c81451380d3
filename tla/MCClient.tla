-------------------------------- MODULE MCClient --------------------------------
(***************************************************************************)
(* The parts of the browser client that share no state, explored beside each *)
(* other: the first state chooses a part, whose actions run while the others  *)
(* keep the initial values that are chosen for them here.  Every property is   *)
(* about the variables of one part, so nothing is lost.                       *)
(***************************************************************************)
EXTENDS SequenceManager, Conversation, AppSession, IdentityKeys,
        VoiceRecording, VideoRecording, FileTransfer, EncryptionWorker,
        FingerprintCheck, WebSocketClient, Composer

VARIABLE part   \* the part that runs

chatVars == <<conversationVars, fileVars, workerVars, fingerprintVars, composerVars>>
pageVariables == <<appSessionVars, identityVars, voiceVars, videoVars>>
linkVars == <<sequenceVars, socketVars>>
clientVars == <<part, chatVars, pageVariables, linkVars>>

Parts == {"sequence", "conversation", "app", "identity", "voice", "video",
          "file", "worker", "fingerprint", "socket", "composer"}

\* One initial state for a part that does not run.
IdleParts ==
    /\ part # "conversation" => calm /\ written = 0
    /\ part # "app" => valid = {} /\ cookie = NoToken
                       /\ owners = <<CHOOSE u \in Users : TRUE>>
    /\ part # "identity" => indexedDBWorks
    /\ part # "fingerprint" => verifiedPrint = NoPrint
    /\ part # "socket" => hookEnabled

Init ==
    /\ part \in Parts
    /\ SequenceInit /\ ConversationInit /\ AppSessionInit /\ IdentityInit
    /\ VoiceInit /\ VideoInit /\ FileInit /\ WorkerInit
    /\ FingerprintInit /\ SocketInit /\ ComposerInit
    /\ IdleParts

ChatRuns ==
    /\ UNCHANGED <<part, pageVariables, linkVars>>
    /\ \/ /\ part = "conversation" /\ ConversationNext
          /\ UNCHANGED <<fileVars, workerVars, fingerprintVars, composerVars>>
       \/ /\ part = "file" /\ FileNext
          /\ UNCHANGED <<conversationVars, workerVars, fingerprintVars, composerVars>>
       \/ /\ part = "worker" /\ WorkerNext
          /\ UNCHANGED <<conversationVars, fileVars, fingerprintVars, composerVars>>
       \/ /\ part = "fingerprint" /\ FingerprintNext
          /\ UNCHANGED <<conversationVars, fileVars, workerVars, composerVars>>
       \/ /\ part = "composer" /\ ComposerNext
          /\ UNCHANGED <<conversationVars, fileVars, workerVars, fingerprintVars>>

PageRuns ==
    /\ UNCHANGED <<part, chatVars, linkVars>>
    /\ \/ /\ part = "app" /\ AppSessionNext
          /\ UNCHANGED <<identityVars, voiceVars, videoVars>>
       \/ /\ part = "identity" /\ IdentityNext
          /\ UNCHANGED <<appSessionVars, voiceVars, videoVars>>
       \/ /\ part = "voice" /\ VoiceNext
          /\ UNCHANGED <<appSessionVars, identityVars, videoVars>>
       \/ /\ part = "video" /\ VideoNext
          /\ UNCHANGED <<appSessionVars, identityVars, voiceVars>>

LinkRuns ==
    /\ UNCHANGED <<part, chatVars, pageVariables>>
    /\ \/ part = "sequence" /\ SequenceNext /\ UNCHANGED socketVars
       \/ part = "socket" /\ SocketNext /\ UNCHANGED sequenceVars

Next == ChatRuns \/ PageRuns \/ LinkRuns

Spec == Init /\ [][Next]_clientVars

\* The type invariants of the parts (the state of each component, as its module
\* says).
ClientTypeOK ==
    /\ part \in Parts
    /\ ConversationTypeOK /\ FileTypeOK /\ WorkerTypeOK /\ FingerprintTypeOK
    /\ ComposerTypeOK
    /\ AppSessionTypeOK /\ IdentityTypeOK /\ VoiceTypeOK /\ VideoTypeOK
    /\ SequenceTypeOK /\ SocketTypeOK
=================================================================================
