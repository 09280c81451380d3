---------------------------- MODULE VoiceRecording ----------------------------
(***************************************************************************)
(* The voice button of a chat (VoiceRecorder.tsx) and the AudioRecorder it   *)
(* creates for every recording (audio-recorder.ts), over the browser's       *)
(* MediaRecorder.  Starting and stopping are awaited; the permission, the     *)
(* start, the end and the time limit come when they come, also after the     *)
(* button is gone.                                                          *)
(***************************************************************************)
EXTENDS Naturals, Sequences

CONSTANT MaxRecorders   \* bound: recordings started

ASSUME VoiceAssumption == MaxRecorders \in Nat

VARIABLES mounted,       \* the button is on the page
          isRecording,   \* what the button shows
          recorderRef,   \* the recorder it works with
          recorders,     \* every AudioRecorder there has been
          intervals,     \* running intervals of the button
          sent,          \* the recordings handed to onRecorded
          overlapped     \* a recording was started before the last had begun

buttonVars == <<mounted, isRecording, recorderRef, intervals, sent, overlapped>>
voiceVars == <<buttonVars, recorders>>

NoRecorder == 0
AudioRecorder == [state : {"idle", "recording", "stopped", "error"},
                  stream : {"none", "asked", "live"},
                  media : {"none", "starting", "recording", "stopping", "ended"},
                  startTime : BOOLEAN, durationTimer : BOOLEAN,
                  awaitingStart : BOOLEAN, stopResolve : BOOLEAN,
                  chunks : BOOLEAN]

VoiceInit ==
    /\ mounted = TRUE /\ isRecording = FALSE
    /\ recorderRef = NoRecorder /\ recorders = <<>>
    /\ intervals = 0 /\ sent = {}
    /\ overlapped = FALSE

-----------------------------------------------------------------------------
(* AudioRecorder: its methods on a recorder.                               *)

\* stopStream(): a stream that has been asked for is not there yet, and comes.
StopStream(r) == [r EXCEPT !.stream = IF @ = "live" THEN "none" ELSE @]

MediaActive(r) == r.media \in {"starting", "recording"}

\* stop(): onstop comes later; when the media recorder is not active any more
\* the recording is given up.
StopOf(r, wanted) ==
    IF r.state # "recording" THEN r
    ELSE IF MediaActive(r)
    THEN [r EXCEPT !.durationTimer = FALSE, !.media = "stopping",
                   !.stopResolve = wanted]
    ELSE [r EXCEPT !.durationTimer = FALSE, !.state = "error"]

\* Does the caller of stop() wait for onstop?
StopIsAwaited(r) == r.state = "recording" /\ MediaActive(r)

\* cancel(): a recording is stopped, a start is not; the timer runs on idly.
CancelOf(r) ==
    [r EXCEPT !.media = IF r.state = "recording" /\ MediaActive(r) THEN "stopping" ELSE @,
              !.awaitingStart = FALSE, !.chunks = FALSE, !.state = "idle",
              !.startTime = FALSE]

CleanupOf(r) == IF r.state = "recording" THEN StopOf(r, FALSE)
                ELSE StopStream(CancelOf(r))

\* onstop, without releasing the device.
EndedKeepingStream(r) == [r EXCEPT !.media = "ended", !.state = "stopped",
                                   !.stopResolve = FALSE]

Ended(r) == StopStream([r EXCEPT !.media = "ended", !.state = "stopped",
                                 !.stopResolve = FALSE])

Becomes(i, r) == recorders' = [recorders EXCEPT ![i] = r]

-----------------------------------------------------------------------------
(* The button.                                                             *)

\* startRecording up to getUserMedia.  The button shows it only when it began.
StartRecording ==
    /\ mounted /\ ~isRecording /\ Len(recorders) < MaxRecorders
    /\ recorders' = Append(recorders,
          [state |-> "idle", stream |-> "asked", media |-> "none",
           startTime |-> FALSE, durationTimer |-> FALSE,
           awaitingStart |-> FALSE, stopResolve |-> FALSE, chunks |-> FALSE])
    /\ recorderRef' = Len(recorders) + 1
    /\ overlapped' = (overlapped \/ \E i \in DOMAIN recorders :
          recorders[i].stream = "asked" \/ recorders[i].media = "starting")
    /\ UNCHANGED <<mounted, isRecording, intervals, sent>>

\* start() has thrown: the button shows no recording, whatever runs.
ShowFailure ==
    /\ isRecording' = FALSE
    /\ UNCHANGED <<mounted, recorderRef, intervals, sent, overlapped>>

Denied(i) ==
    /\ recorders[i].stream = "asked"
    /\ Becomes(i, [recorders[i] EXCEPT !.state = "error", !.stream = "none"])
    /\ ShowFailure

Granted(i) ==
    /\ recorders[i].stream = "asked"
    /\ Becomes(i, [recorders[i] EXCEPT !.stream = "live", !.media = "starting",
                                       !.awaitingStart = TRUE])
    /\ UNCHANGED buttonVars

\* onstart or, 100 ms later, its fallback: start() resolves in any case.
Begun(i) == LET r == recorders[i] IN
    /\ r.media = "starting"
    /\ Becomes(i, [r EXCEPT !.media = "recording", !.chunks = TRUE,
          !.state = IF r.awaitingStart THEN "recording" ELSE @,
          !.startTime = @ \/ r.awaitingStart,
          !.durationTimer = @ \/ r.awaitingStart,
          !.awaitingStart = FALSE])
    /\ isRecording' = TRUE
    /\ intervals' = intervals + 1
    /\ UNCHANGED <<mounted, recorderRef, sent, overlapped>>

\* onerror before it began.
StartError(i) == LET r == recorders[i] IN
    /\ r.media = "starting" /\ r.awaitingStart
    /\ Becomes(i, StopStream([r EXCEPT !.state = "error", !.media = "ended",
                                       !.awaitingStart = FALSE]))
    /\ ShowFailure

\* What follows a stop(): the recording is handed over, or reported as lost.
AfterStop(i, r, blob) ==
    /\ isRecording' = FALSE
    /\ intervals' = IF intervals > 0 THEN intervals - 1 ELSE 0
    /\ sent' = IF blob THEN sent \cup {i} ELSE sent
    /\ Becomes(i, CleanupOf(r))
    /\ recorderRef' = NoRecorder
    /\ UNCHANGED <<mounted, overlapped>>

\* stopRecording, by a click.
StopRecording ==
    /\ mounted /\ isRecording /\ recorderRef # NoRecorder
    /\ LET i == recorderRef
           r == recorders[i]
       IN  IF StopIsAwaited(r)
           THEN Becomes(i, StopOf(r, TRUE)) /\ UNCHANGED buttonVars
           ELSE AfterStop(i, StopOf(r, TRUE), FALSE)

\* The recorder's own limit stops it, and nobody takes the recording.
LimitReached(i) ==
    /\ recorders[i].durationTimer /\ recorders[i].startTime
    /\ Becomes(i, StopOf(recorders[i], FALSE))
    /\ UNCHANGED buttonVars

\* The browser ends a recording, for instance when the device goes away.
DeviceLost(i) ==
    /\ recorders[i].media = "recording"
    /\ Becomes(i, [recorders[i] EXCEPT !.media = "stopping"])
    /\ UNCHANGED buttonVars

OnStop(i) == LET r == recorders[i] IN
    /\ r.media = "stopping"
    /\ IF r.stopResolve THEN AfterStop(i, Ended(r), r.chunks)
       ELSE Becomes(i, Ended(r)) /\ UNCHANGED buttonVars

CancelRecording ==
    /\ mounted /\ isRecording
    /\ recorders' = IF recorderRef = NoRecorder THEN recorders
                    ELSE [recorders EXCEPT ![recorderRef] = CancelOf(@)]
    /\ recorderRef' = NoRecorder
    /\ isRecording' = FALSE
    /\ intervals' = IF intervals > 0 THEN intervals - 1 ELSE 0
    /\ UNCHANGED <<mounted, sent, overlapped>>

\* The button goes away.  A recording that runs is left alone.
UnmountVoice ==
    /\ mounted
    /\ mounted' = FALSE
    /\ recorders' = IF recorderRef = NoRecorder \/ isRecording THEN recorders
                    ELSE [recorders EXCEPT ![recorderRef] = CleanupOf(@)]
    /\ intervals' = IF isRecording \/ intervals = 0 THEN intervals ELSE intervals - 1
    /\ UNCHANGED <<isRecording, recorderRef, sent, overlapped>>

VoiceNext ==
    \/ StartRecording \/ StopRecording \/ CancelRecording \/ UnmountVoice
    \/ \E i \in DOMAIN recorders :
          \/ Denied(i) \/ Granted(i) \/ Begun(i) \/ StartError(i)
          \/ LimitReached(i) \/ DeviceLost(i) \/ OnStop(i)

VoiceSpec == VoiceInit /\ [][VoiceNext]_voiceVars

-----------------------------------------------------------------------------
\* The type invariant: the state of VoiceRecorder.tsx and of every AudioRecorder.
VoiceTypeOK ==
    /\ mounted \in BOOLEAN /\ isRecording \in BOOLEAN /\ overlapped \in BOOLEAN
    /\ recorders \in Seq(AudioRecorder) /\ Len(recorders) <= MaxRecorders
    /\ recorderRef \in 0 .. Len(recorders)
    /\ intervals \in 0 .. MaxRecorders /\ sent \subseteq DOMAIN recorders

\* A microphone that is open is being started or stopped, or has the recorder's
\* time limit running: through cancels, failures and unmounts none is left open
\* for good, unless two starts overlapped.
MicrophoneIsReleased == \A i \in DOMAIN recorders : LET r == recorders[i] IN
    (r.stream = "live" /\ ~overlapped)
        => \/ r.media \in {"starting", "stopping"}
           \/ r.durationTimer /\ r.startTime /\ r.state = "recording"
=============================================================================
