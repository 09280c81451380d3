---------------------------- MODULE VideoRecording ----------------------------
(***************************************************************************)
(* The camera modal of a chat (VideoRecorderModal.tsx, VideoRecorder.tsx):   *)
(* it is opened, asks for the camera, records, and is closed by the           *)
(* recording, by a cancel or because the chat goes away.  The browser's last *)
(* data and onstop come after the call that caused them, also to a modal      *)
(* that is closed by then.  The chat passes a new onError with every render,  *)
(* and with a new onError the modal starts over.                             *)
(***************************************************************************)
EXTENDS Naturals

CONSTANTS MaxModals,     \* bound: modals opened
          MaxRenders     \* bound: renders of the chat during a modal

ASSUME VideoAssumption == MaxModals \in Nat /\ MaxRenders \in Nat

VARIABLES modal,         \* the modal that is open, 0 for none
          opened,        \* modals so far
          modals,        \* what each of them holds
          delivered,     \* the recordings handed to onRecorded
          unwanted       \* modals whose recording the user cancelled

videoVars == <<modal, opened, modals, delivered, unwanted>>

NoModal == 0
\* asked: getUserMedia calls under way; streams: the live ones; streamRef: can
\* the modal stop the last; whole: the chunks have not been dropped; long: a
\* second has passed; cutOff: something else than the user ended the recording.
Modal == [asked : 0 .. MaxRenders + 1, streams : 0 .. MaxRenders + 1,
          streamRef : BOOLEAN, isRecording : BOOLEAN, recorder : BOOLEAN,
          media : {"none", "recording", "stopping", "ended"},
          whole : BOOLEAN, long : BOOLEAN, isCancelled : BOOLEAN,
          cutOff : BOOLEAN, renders : 0 .. MaxRenders]
NewModal == [asked |-> 1, streams |-> 0, streamRef |-> FALSE,
             isRecording |-> FALSE, recorder |-> FALSE, media |-> "none",
             whole |-> FALSE, long |-> FALSE, isCancelled |-> FALSE,
             cutOff |-> FALSE, renders |-> 0]
Unused == [NewModal EXCEPT !.asked = 0]

VideoInit ==
    /\ modal = NoModal /\ opened = 0
    /\ modals = [m \in 1 .. MaxModals |-> Unused]
    /\ delivered = {} /\ unwanted = {}

-----------------------------------------------------------------------------
\* stop() of the modal's media recorder: onstop comes later.
StopMedia(d) == IF d.recorder /\ d.media = "recording"
                THEN [d EXCEPT !.media = "stopping"] ELSE d

\* cleanup(): the recorder is stopped, its chunks and the stream are dropped.
CleanedUp(d) == [StopMedia(d) EXCEPT
    !.recorder = FALSE, !.whole = FALSE, !.streamRef = FALSE,
    !.streams = IF d.streamRef THEN @ - 1 ELSE @]

\* The effect of the modal is cleaned up, which cuts a recording off.
Unmounted(d) == [CleanedUp(d) EXCEPT
    !.cutOff = @ \/ d.media \in {"recording", "stopping"}]

Put(m, d) == modals' = [modals EXCEPT ![m] = d]

\* VideoRecorder: the modal that is open now is closed, be it m or a later one.
CloseModal(ds) ==
    /\ modal' = NoModal
    /\ modals' = IF modal = NoModal THEN ds
                 ELSE [ds EXCEPT ![modal] = Unmounted(@)]

-----------------------------------------------------------------------------
OpenModal ==
    /\ modal = NoModal /\ opened < MaxModals
    /\ opened' = opened + 1 /\ modal' = opened + 1
    /\ modals' = [modals EXCEPT ![opened + 1] = NewModal]
    /\ UNCHANGED <<delivered, unwanted>>

\* initCamera: the stream comes, or an error.  It comes to a closed modal too.
CameraGranted(m) ==
    /\ modals[m].asked > 0
    /\ Put(m, [modals[m] EXCEPT !.asked = @ - 1, !.streams = @ + 1,
                                !.streamRef = TRUE])
    /\ UNCHANGED <<modal, opened, delivered, unwanted>>

CameraDenied(m) ==
    /\ modals[m].asked > 0
    /\ Put(m, [modals[m] EXCEPT !.asked = @ - 1])
    /\ UNCHANGED <<modal, opened, delivered, unwanted>>

\* The chat renders, for a message or a typing peer: the modal's effect is run
\* again, and asks for the camera once more.
ChatRenders ==
    /\ modal # NoModal /\ modals[modal].renders < MaxRenders
    /\ Put(modal, [Unmounted(modals[modal]) EXCEPT !.asked = @ + 1,
                                                   !.renders = @ + 1])
    /\ UNCHANGED <<modal, opened, delivered, unwanted>>

StartVideo ==
    /\ modal # NoModal
    /\ modals[modal].streamRef /\ ~modals[modal].isRecording
    /\ Put(modal, [modals[modal] EXCEPT
          !.isRecording = TRUE, !.recorder = TRUE, !.media = "recording",
          !.whole = TRUE, !.long = FALSE, !.isCancelled = FALSE,
          !.cutOff = FALSE])
    /\ UNCHANGED <<modal, opened, delivered, unwanted>>

\* The recording becomes longer than a second.
SecondPasses(m) ==
    /\ modals[m].media \in {"recording", "stopping"} /\ ~modals[m].long
    /\ Put(m, [modals[m] EXCEPT !.long = TRUE])
    /\ UNCHANGED <<modal, opened, delivered, unwanted>>

StopVideo ==
    /\ modal # NoModal /\ modals[modal].isRecording
    /\ modals[modal].media = "recording"
    /\ Put(modal, StopMedia(modals[modal]))
    /\ UNCHANGED <<modal, opened, delivered, unwanted>>

\* The modal is closed and leaves it to onstop what the recording was for.
CancelAsClose ==
    /\ modal # NoModal /\ modals[modal].isRecording
    /\ unwanted' = unwanted \cup {modal}
    /\ CloseModal(modals)
    /\ UNCHANGED <<opened, delivered>>

\* cancelRecording marks the recording, stops it and closes the modal.
CancelVideo ==
    /\ modal # NoModal /\ modals[modal].isRecording
    /\ unwanted' = unwanted \cup {modal}
    /\ CloseModal([modals EXCEPT ![modal] = CleanedUp(
          [StopMedia(@) EXCEPT !.isCancelled = TRUE, !.isRecording = FALSE])])
    /\ UNCHANGED <<opened, delivered>>

\* onCancel while nothing is recorded, and the chat that goes away at any time.
CloseVideo ==
    /\ modal # NoModal
    /\ CloseModal(modals)
    /\ UNCHANGED <<opened, delivered, unwanted>>

\* onerror of the media recorder.
MediaError(m) ==
    /\ modals[m].media = "recording"
    /\ Put(m, [CleanedUp(modals[m]) EXCEPT
          !.isRecording = FALSE, !.cutOff = TRUE, !.media = "stopping"])
    /\ UNCHANGED <<modal, opened, delivered, unwanted>>

\* The last data and onstop.  The stream is released in every branch; what is
\* too short is dropped without a word, what was cancelled is not delivered.
OnVideoStop(m) ==
    /\ modals[m].media = "stopping"
    /\ LET d == CleanedUp([modals[m] EXCEPT !.media = "ended",
                                            !.isRecording = FALSE])
       IN  IF modals[m].isCancelled
           THEN /\ Put(m, [d EXCEPT !.isCancelled = FALSE])
                /\ UNCHANGED <<modal, delivered>>
           ELSE IF ~modals[m].long
           THEN Put(m, d) /\ UNCHANGED <<modal, delivered>>
           ELSE /\ delivered' = delivered \cup
                      {[of |-> m, whole |-> modals[m].whole,
                        cutOff |-> modals[m].cutOff]}
                /\ CloseModal([modals EXCEPT ![m] = d])
    /\ UNCHANGED <<opened, unwanted>>

VideoNext ==
    \/ OpenModal \/ ChatRenders \/ StartVideo \/ StopVideo \/ CancelVideo \/ CloseVideo
    \/ \E m \in 1 .. opened :
          \/ CameraGranted(m) \/ CameraDenied(m) \/ SecondPasses(m)
          \/ MediaError(m) \/ OnVideoStop(m)

VideoSpec == VideoInit /\ [][VideoNext]_videoVars

-----------------------------------------------------------------------------
\* The type invariant: the state and refs of every camera modal.
VideoTypeOK ==
    /\ modal \in 0 .. opened /\ opened \in 0 .. MaxModals
    /\ modals \in [1 .. MaxModals -> Modal]
    /\ unwanted \subseteq 1 .. opened
    /\ delivered \subseteq [of : 1 .. opened, whole : BOOLEAN,
                      cutOff : BOOLEAN]

\* A recording the user cancelled is never sent, whenever the browser delivers
\* its end, and one that is sent has all of its data unless an error, a
\* render or the closing of the chat cut it off.
SentAsRecorded ==
    \A v \in delivered : v.of \notin unwanted /\ (v.whole \/ v.cutOff)
=============================================================================
