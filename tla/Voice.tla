-------------------------------- MODULE Voice --------------------------------
(***************************************************************************)
(* Voice messages on the messages page: the players of the messages        *)
(* (VoiceMessagePlayer.tsx), the recorder with its preview                 *)
(* (VoiceMessageRecorder.tsx), and the window event by which whoever       *)
(* starts playing makes the others stop.  An event is dispatched and       *)
(* handled at once; permission for the microphone and the end of a         *)
(* MediaRecorder come later.                                               *)
(***************************************************************************)
EXTENDS Naturals

CONSTANTS
    Player,         \* players on the page
    Preview,        \* the recorder's own audio element
    MaxMounts       \* bound: how often the recorder is opened

ASSUME PreviewAssumption == Preview \notin Player
ASSUME MountsAssumption == MaxMounts \in Nat

VARIABLES
    playing,    \* audio elements that are not paused
    mounted,    \* the recorder on the page, 0 when there is none
    mounts,     \* how many there have been
    asking,     \* recorders whose getUserMedia is pending
    live,       \* recorders whose stream holds the microphone
    recorder,   \* mediaRecorderRef: none, recording, stopping or inactive
    onstop,     \* what its stop event will do: preview, send or nothing
    chunks,     \* the recording has been emitted
    previewed,  \* previewBlob
    uploading,  \* handleFinalSend has called onSend
    early       \* history: a player was started while permission was pending

recorderVars == << mounted, mounts, asking, live, recorder, onstop, chunks,
                   previewed, uploading >>
voiceVars == << playing, recorderVars, early >>

-----------------------------------------------------------------------------
(* GLOBAL_AUDIO_EVENT: every other player pauses; a recorder that is       *)
(* recording stops, and its preview pauses.                                *)

Hushes(a) == playing' = {a}

StopsFor(what) ==
    /\ recorder' = "stopping"
    /\ onstop' = what
StopRecording == IF recorder = "recording" THEN StopsFor("preview")
                                           ELSE UNCHANGED << recorder, onstop >>

\* togglePlay, and the end of playing.
Play(p) ==
    /\ Hushes(p)
    /\ StopRecording
    /\ early' = (early \/ mounted \in asking)
    /\ UNCHANGED << mounted, mounts, asking, live, chunks, previewed, uploading >>
Pause(a) ==
    /\ a \in playing
    /\ playing' = playing \ {a}
    /\ UNCHANGED << recorderVars, early >>

-----------------------------------------------------------------------------
(* The recorder *)

\* The button and the mounted recorder both dispatch the event; then the
\* microphone is asked for.
OpenRecorder ==
    /\ mounted = 0 /\ mounts < MaxMounts
    /\ mounts' = mounts + 1
    /\ mounted' = mounts'
    /\ asking' = asking \cup {mounted'}
    /\ playing' = {}
    /\ recorder' = "none" /\ onstop' = "nothing"
    /\ chunks' = FALSE /\ previewed' = FALSE
    /\ early' = FALSE
    /\ UNCHANGED << live, uploading >>

\* cleanupStream, and the recorder gone from the page.
RecorderCloses ==
    /\ mounted' = 0
    /\ live' = live \ {mounted}
    /\ playing' = playing \ {Preview}
    /\ recorder' = "none" /\ onstop' = "nothing"
    /\ chunks' = FALSE /\ previewed' = FALSE
    /\ uploading' = FALSE

\* initRecording goes on; a stream for a recorder that is gone is stopped.
Keeps_M(n) == TRUE
Keeps(n) == n = mounted
Granted(n) ==
    /\ n \in asking
    /\ asking' = asking \ {n}
    /\ live' = IF Keeps(n) THEN live \cup {n} ELSE live
    /\ recorder' = IF n = mounted THEN "recording" ELSE recorder
    /\ UNCHANGED << playing, mounted, mounts, onstop, chunks, previewed,
                    uploading, early >>
Denied(n) ==
    /\ n \in asking
    /\ asking' = asking \ {n}
    /\ IF n = mounted THEN RecorderCloses
       ELSE UNCHANGED << playing, mounted, live, recorder, onstop, chunks,
                         previewed, uploading >>
    /\ UNCHANGED << mounts, early >>

\* handlePauseForPreview: the button, or the limit of 300 seconds.
PauseForPreview ==
    /\ recorder = "recording"
    /\ StopsFor("preview")
    /\ UNCHANGED << playing, mounted, mounts, asking, live, chunks, previewed,
                    uploading, early >>

\* The recorder emits its data and its stop event.
Stopped ==
    /\ recorder = "stopping"
    /\ recorder' = "inactive"
    /\ chunks' = TRUE
    /\ live' = live \ {mounted}
    /\ previewed' = (previewed \/ onstop = "preview")
    /\ uploading' = (onstop = "send")
    /\ UNCHANGED << playing, mounted, mounts, asking, onstop, early >>

\* togglePreviewPlay.
PlayPreview ==
    /\ previewed
    /\ Hushes(Preview)
    /\ UNCHANGED << recorderVars, early >>

\* handleFinalSend.  A recording is stopped first; one that is stopping for
\* the preview has no data yet and is given up as empty.
SendVoice ==
    /\ ~uploading /\ onstop # "send"
    /\ CASE recorder = "recording" ->
              /\ StopsFor("send")
              /\ UNCHANGED << playing, mounted, live, chunks, previewed,
                              uploading >>
         [] recorder = "inactive" ->
              /\ uploading' = TRUE
              /\ UNCHANGED << playing, mounted, live, recorder, onstop, chunks,
                              previewed >>
         [] recorder = "stopping" -> RecorderCloses
         [] recorder = "none" -> FALSE
    /\ UNCHANGED << mounts, asking, early >>

\* handleSendVoiceMessage: the recorder is closed, or stays after an error.
Uploaded ==
    /\ uploading
    /\ RecorderCloses
    /\ UNCHANGED << mounts, asking, early >>
UploadFails ==
    /\ uploading
    /\ uploading' = FALSE
    /\ onstop' = "nothing"
    /\ UNCHANGED << playing, mounted, mounts, asking, live, recorder, chunks,
                    previewed, early >>

\* handleDiscard, a recording under one second, or the page is left.
Discard ==
    /\ mounted # 0
    /\ RecorderCloses
    /\ UNCHANGED << mounts, asking, early >>

-----------------------------------------------------------------------------

VoiceInit ==
    /\ playing = {}
    /\ mounted = 0 /\ mounts = 0
    /\ asking = {} /\ live = {}
    /\ recorder = "none" /\ onstop = "nothing"
    /\ chunks = FALSE /\ previewed = FALSE /\ uploading = FALSE
    /\ early = FALSE

VoiceNext ==
    \/ \E p \in Player : Play(p)
    \/ \E a \in playing : Pause(a)
    \/ OpenRecorder \/ PauseForPreview \/ Stopped \/ PlayPreview
    \/ SendVoice \/ Uploaded \/ UploadFails \/ Discard
    \/ \E n \in asking : Granted(n) \/ Denied(n)

VoiceSpec == VoiceInit /\ [][VoiceNext]_voiceVars

-----------------------------------------------------------------------------
(* Property *)

\* No two voices are heard at once.  The microphone is held only by the
\* recorder on the page, and no longer than it records; it does not record one
\* of the players, unless that was started while permission was being asked
\* for; and what is uploaded holds the recording.
OneVoice ==
    /\ \A a, b \in playing : a = b
    /\ live # {} => live = {mounted} /\ recorder \in {"recording", "stopping"}
    /\ recorder = "recording" /\ ~early => playing = {}
    /\ uploading => chunks
=============================================================================
