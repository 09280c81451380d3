----------------------------- MODULE MCClientProofs -----------------------------
(***************************************************************************)
(* The parts of the client beside each other.  Whatever part runs, every part *)
(* behaves as its own specification says, so what is proved of each part       *)
(* holds of the whole.                                                       *)
(***************************************************************************)
EXTENDS MCClient, ClientProofs, ConversationProofs, TransferProofs

\* A step of the client is a step of each part or leaves it alone.
LEMMA StepOfTheClient ==
    ASSUME [Next]_clientVars
    PROVE  /\ UNCHANGED part
           /\ [ConversationNext]_conversationVars /\ [FileNext]_fileVars
           /\ [WorkerNext]_workerVars /\ [FingerprintNext]_fingerprintVars
           /\ [ComposerNext]_composerVars
           /\ [AppSessionNext]_appSessionVars /\ [IdentityNext]_identityVars
           /\ [VoiceNext]_voiceVars /\ [VideoNext]_videoVars
           /\ [SequenceNext]_sequenceVars /\ [SocketNext]_socketVars
<1>1. CASE ChatRuns
  BY <1>1 DEF ChatRuns, pageVariables, linkVars
<1>2. CASE PageRuns
  BY <1>2 DEF PageRuns, chatVars, linkVars
<1>3. CASE LinkRuns
  BY <1>3 DEF LinkRuns, chatVars, pageVariables
<1>4. CASE UNCHANGED clientVars
  BY <1>4 DEF clientVars, chatVars, pageVariables, linkVars
<1>5. QED
  BY <1>1, <1>2, <1>3, <1>4 DEF Next

\* Each part of the client runs by its own specification.
THEOREM PartsRunAlone ==
    Spec => /\ [](part \in Parts)
            /\ ConversationSpec /\ FileSpec /\ WorkerSpec /\ FingerprintSpec
            /\ ComposerSpec /\ AppSessionSpec /\ IdentitySpec /\ VoiceSpec
            /\ VideoSpec /\ SequenceSpec /\ SocketSpec
<1> DEFINE Inits == /\ ConversationInit /\ FileInit /\ WorkerInit /\ FingerprintInit
                    /\ ComposerInit /\ AppSessionInit /\ IdentityInit /\ VoiceInit
                    /\ VideoInit /\ SequenceInit /\ SocketInit
<1>1. Init => Inits /\ part \in Parts
  BY DEF Init
<1>2. part \in Parts /\ UNCHANGED part => (part \in Parts)'
  OBVIOUS
<1> HIDE DEF Inits
<1>3. QED
  BY <1>1, <1>2, StepOfTheClient, PTL
     DEF Spec, Inits, ConversationSpec, FileSpec, WorkerSpec, FingerprintSpec,
         ComposerSpec, AppSessionSpec, IdentitySpec, VoiceSpec, VideoSpec,
         SequenceSpec, SocketSpec

\* The types of the client: the state of every part is as its module says, in
\* every behaviour of the whole (ClientTypeOK; the state of each component).
THEOREM ClientTypeOKHolds == Spec => []ClientTypeOK
<1>1. /\ FingerprintInv => FingerprintTypeOK
      /\ ComposerInv => ComposerTypeOK
      /\ IdentityInv => IdentityTypeOK
      /\ VideoInv => VideoTypeOK
      /\ SequenceInv => SequenceTypeOK
  BY Zenon DEF FingerprintInv, ComposerInv, IdentityInv, VideoInv, SequenceInv
<1>2. SocketInv => SocketTypeOK
  <2> SUFFICES ASSUME SocketInv PROVE SocketTypeOK
    OBVIOUS
  <2>1. /\ clients \in Seq(Client) /\ DOMAIN clients = 1 .. Len(clients)
        /\ sockets \in Seq(Socket) /\ DOMAIN sockets = 1 .. Len(sockets)
    BY DEF SocketInv, LinksOK
  <2>2. QED
    BY <2>1 DEF SocketInv, LinksOK, OwnsSocket, SocketTypeOK
<1>3. /\ part \in Parts /\ ConversationTypeOK /\ FileTypeOK /\ WorkerTypeOK
      /\ FingerprintTypeOK /\ ComposerTypeOK /\ AppSessionTypeOK /\ IdentityTypeOK
      /\ VoiceTypeOK /\ VideoTypeOK /\ SequenceTypeOK /\ SocketTypeOK
      => ClientTypeOK
  BY Zenon DEF ClientTypeOK
<1>4. QED
  BY <1>1, <1>2, <1>3, PartsRunAlone, ConversationTypeOKHolds, FileTypeOKHolds,
     WorkerTypeOKHolds, FingerprintInvHolds, ComposerInvHolds, AppSessionTypeOKHolds,
     IdentityInvHolds, VoiceTypeOKHolds, VideoInvHolds, SequenceInvHolds,
     SocketInvHolds, PTL

\* Every other property of the exploration holds in every behaviour of the whole,
\* as it holds of its part: what the fingerprint check, the composer, the
\* identity keys, the connection, the recorders, the reorder buffer, the page, the
\* transfers, the worker and the conversation promise.
THEOREM ClientIsCorrect ==
    Spec => /\ []BufferIsAhead /\ ImplementsOrderedChannel
            /\ []DeliveryIsTruthful /\ []PreviewFollowsTarget /\ []ViewsAgree
            /\ StatusNeverRegresses
            /\ []TokensAgree /\ []ProfileIsComing /\ []KeysAgree
            /\ []MicrophoneIsReleased /\ []SentAsRecorded
            /\ []FilesArriveWhole /\ []NoCallIsForgotten
            /\ []EnabledIsVerified /\ []DroppedIsSilent /\ []TypingIsTakenBack
BY PartsRunAlone, BufferIsAheadHolds, ImplementsOrderedChannelHolds,
   DeliveryIsTruthfulHolds, PreviewFollowsTargetHolds, ViewsAgreeHolds,
   StatusNeverRegressesHolds, TokensAgreeHolds, ProfileIsComingHolds,
   KeysAgreeHolds, MicrophoneIsReleasedHolds, SentAsRecordedHolds,
   FilesArriveWholeHolds, NoCallIsForgottenHolds, EnabledIsVerifiedHolds,
   DroppedIsSilentHolds, TypingIsTakenBackHolds, PTL
=================================================================================
