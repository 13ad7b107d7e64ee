------------------------------ MODULE Media_proof ------------------------------
(***************************************************************************)
(* Proofs about the voice recorder and the picture editor, for any players *)
(* and any number of recorders, and for pictures of any size, with any     *)
(* number of strokes and transformations.                                  *)
(***************************************************************************)
EXTENDS Voice, ImageEditor, Cropping, SequenceTheorems, TLAPS

-----------------------------------------------------------------------------
(* Voice messages *)

\* Every variable keeps its shape.
FlagsOK ==
    /\ chunks \in BOOLEAN /\ previewed \in BOOLEAN /\ uploading \in BOOLEAN
    /\ early \in BOOLEAN
VoiceTypeOK ==
    /\ playing \in SUBSET (Player \cup {Preview})
    /\ mounted \in Nat /\ mounts \in Nat
    /\ asking \in SUBSET (Nat \ {0}) /\ live \in SUBSET Nat
    /\ recorder \in {"none", "recording", "stopping", "inactive"}
    /\ onstop \in {"preview", "send", "nothing"}
    /\ FlagsOK

\* What the recorder on the page has got to: without one, or before the answer
\* about the microphone, nothing; a recording that has ended has its data, and
\* only then can it be heard or sent.
Progress ==
    /\ mounted = 0 => recorder = "none"
    /\ mounted \in asking => recorder = "none"
    /\ recorder = "inactive" => chunks
    /\ previewed \/ uploading => recorder = "inactive"

\* While the answer is awaited nobody plays, unless he started meanwhile.
Hushed == mounted \in asking /\ ~early => playing = {}

VoiceInv == VoiceTypeOK /\ Progress /\ Hushed /\ OneVoice

\* The inductive invariant of the recorder and the players.
THEOREM VoiceInvariance == VoiceSpec => []VoiceInv
<1>1. VoiceInit => VoiceInv
  <2> SUFFICES ASSUME VoiceInit PROVE VoiceInv
    OBVIOUS
  <2>1. FlagsOK
    BY DEF VoiceInit, FlagsOK
  <2> QED
    BY <2>1 DEF VoiceInit, VoiceInv, VoiceTypeOK, Progress, Hushed, OneVoice
<1>2. VoiceInv /\ [VoiceNext]_voiceVars => VoiceInv'
  <2> SUFFICES ASSUME VoiceInv, [VoiceNext]_voiceVars PROVE VoiceInv'
    OBVIOUS
  <2> USE DEF VoiceInv, VoiceTypeOK, Progress, Hushed, OneVoice
  <2>0. ASSUME RecorderCloses, UNCHANGED << mounts, early >>,
               asking' \subseteq asking
        PROVE  VoiceInv'
    <3>1. FlagsOK'
      BY <2>0 DEF RecorderCloses, FlagsOK
    <3>2. live' = {} /\ playing' = playing \ {Preview} /\ mounted' = 0
          /\ recorder' = "none" /\ onstop' = "nothing"
      BY <2>0 DEF RecorderCloses
    <3>3. ~previewed' /\ ~uploading'
      BY <2>0 DEF RecorderCloses
    <3> QED
      BY <2>0, <3>1, <3>2, <3>3
  <2>1. ASSUME NEW p \in Player, Play(p) PROVE VoiceInv'
    BY <2>1 DEF Play, Hushes, StopRecording, StopsFor, FlagsOK
  <2>2. ASSUME NEW a \in playing, Pause(a) PROVE VoiceInv'
    BY <2>2 DEF Pause, recorderVars, FlagsOK
  <2>3. CASE OpenRecorder
    <3>1. FlagsOK'
      BY <2>3 DEF OpenRecorder, FlagsOK
    <3> QED
      BY <2>3, <3>1 DEF OpenRecorder
  <2>4. CASE PauseForPreview
    BY <2>4 DEF PauseForPreview, StopsFor, FlagsOK
  <2>5. CASE Stopped
    BY <2>5 DEF Stopped, FlagsOK
  <2>6. CASE PlayPreview
    BY <2>6 DEF PlayPreview, Hushes, recorderVars, FlagsOK
  <2>7. CASE Uploaded \/ Discard
    BY <2>0, <2>7 DEF Uploaded, Discard
  <2>8. CASE SendVoice
    <3>1. CASE recorder = "recording"
      BY <2>8, <3>1 DEF SendVoice, StopsFor, FlagsOK
    <3>2. CASE recorder = "inactive"
      BY <2>8, <3>2 DEF SendVoice, FlagsOK
    <3>3. CASE recorder = "stopping"
      BY <2>0, <2>8, <3>3 DEF SendVoice
    <3>4. CASE recorder = "none"
      BY <2>8, <3>4 DEF SendVoice
    <3> QED
      BY <3>1, <3>2, <3>3, <3>4
  <2>9. CASE UploadFails
    BY <2>9 DEF UploadFails, FlagsOK
  <2>10. ASSUME NEW n \in asking, Granted(n) PROVE VoiceInv'
    BY <2>10 DEF Granted, Keeps, FlagsOK
  <2>11. ASSUME NEW n \in asking, Denied(n) PROVE VoiceInv'
    <3>1. CASE n = mounted
      BY <2>0, <2>11, <3>1 DEF Denied
    <3>2. CASE n # mounted
      BY <2>11, <3>2 DEF Denied, FlagsOK
    <3> QED
      BY <3>1, <3>2
  <2>12. CASE UNCHANGED voiceVars
    BY <2>12 DEF voiceVars, recorderVars, FlagsOK
  <2> QED
    BY <2>1, <2>2, <2>3, <2>4, <2>5, <2>6, <2>7, <2>8, <2>9, <2>10, <2>11, <2>12
       DEF VoiceNext
<1> QED
  BY <1>1, <1>2, PTL DEF VoiceSpec

\* No two voices are heard at once, the microphone is held by the recorder on
\* the page while it records, and what is uploaded holds the recording.
THEOREM VoicesAreSingle == VoiceSpec => []OneVoice
BY VoiceInvariance, PTL DEF VoiceInv
-----------------------------------------------------------------------------
(* The picture editor *)

\* Where strokes of a picture in frame f may be, and such a picture with its
\* strokes; l says whether the file is large.
Marks(f, l) == {f} \cup {g \in {Astray} : l}
Fitting(f, l) == [frame : {f}, strokes : Seq(Marks(f, l))]
Snapshot(l) == UNION {Fitting(f, l) : f \in Nat}

\* All strokes have the coordinates of their picture, or were left behind when
\* it was downscaled.  Before the first picture is decoded there is nothing to
\* draw on, and so nothing is drawn.
Fit ==
    /\ frames \in Nat
    /\ image \in Nat \cup {NoImage}
    /\ strokes \in Seq(Marks(image, large)) /\ redoStack \in Seq(Marks(image, large))
    /\ past \in Seq(Snapshot(large))
    /\ committed \in Snapshot(large) \cup {Nil}
    /\ image = NoImage => /\ strokes = << >> /\ redoStack = << >> /\ past = << >>
                          /\ pen = NoPen /\ ~modified
    /\ decoding /\ image # NoImage => committed # Nil
    /\ view # "editor" => image = NoImage
    /\ view = "none" => committed = Nil

\* Unless the picture that was composed last is still to come, the preview
\* shows what has been committed.
Previewed == ~late /\ blobs = {} => preview = committed

EditorInv == (~rewound /\ ~across => Fit) /\ Previewed /\ SendsWhatIsShown

\* The sequence operators keep all strokes in one frame.
LEMMA AllStrokes ==
    ASSUME NEW S, NEW s \in Seq(S)
    PROVE  /\ \A f \in S : Append(s, f) \in Seq(S)
           /\ \A r \in Seq(S) : s \o r \in Seq(S)
           /\ s # << >> => /\ Len(s) \in Nat \ {0} /\ s[Len(s)] \in S
                           /\ << s[Len(s)] >> \in Seq(S)
                           /\ SubSeq(s, 1, Len(s) - 1) \in Seq(S)
                           /\ Head(s) \in S /\ Tail(s) \in Seq(S)
           /\ << >> \in Seq(S)
<1>1. \A f \in S : Append(s, f) \in Seq(S)
  BY AppendProperties
<1>2. \A r \in Seq(S) : s \o r \in Seq(S)
  BY ConcatProperties
<1>3. ASSUME s # << >>
      PROVE  /\ Len(s) \in Nat \ {0} /\ s[Len(s)] \in S
             /\ << s[Len(s)] >> \in Seq(S)
             /\ SubSeq(s, 1, Len(s) - 1) \in Seq(S)
             /\ Head(s) \in S /\ Tail(s) \in Seq(S)
  <2>1. Len(s) \in Nat \ {0}
    BY <1>3, EmptySeq
  <2>2. \A i \in 1 .. Len(s) : s[i] \in S
    BY ElementOfSeq
  <2>3. s[Len(s)] \in S
    BY <2>1, <2>2
  <2>4. << s[Len(s)] >> \in Seq(S)
    BY <2>3
  <2>5. SubSeq(s, 1, Len(s) - 1) \in Seq(S)
    BY <2>1, <2>2, SubSeqProperties
  <2>6. Head(s) \in S /\ Tail(s) \in Seq(S)
    BY <1>3, HeadTailProperties
  <2> QED
    BY <2>1, <2>3, <2>4, <2>5, <2>6
<1>4. << >> \in Seq(S)
  BY EmptySeq
<1> QED
  BY <1>1, <1>2, <1>3, <1>4

\* What a snapshot holds.
LEMMA SnapshotFits ==
    ASSUME NEW l, NEW p \in Snapshot(l)
    PROVE  p.frame \in Nat /\ p.strokes \in Seq(Marks(p.frame, l)) /\ p # Nil
<1>1. PICK f \in Nat : p \in Fitting(f, l)
  BY DEF Snapshot
<1>2. p.frame = f /\ p.strokes \in Seq(Marks(f, l))
  BY <1>1 DEF Fitting
<1>3. Nil.frame = NoImage
  BY DEF Nil
<1> QED
  BY <1>2, <1>3 DEF NoImage

\* A transformation puts every stroke into the new frame, or astray if the
\* canvas was downscaled.
LEMMA TransformFits ==
    ASSUME Fit, NEW n \in 0 .. Len(strokes), NEW shrinks \in {FALSE, TooLarge},
           Transform(n, shrinks), KeepDialog
    PROVE  Fit'
<1>0. large' = large /\ committed' = committed /\ decoding' = decoding
      /\ view' = view
  BY DEF KeepDialog, dialogVars
<1>1. Picture \in Snapshot(large)
  <2>1. image \in Nat /\ Picture \in Fitting(image, large)
    BY DEF Fit, Transform, Picture, Fitting
  <2> QED
    BY <2>1 DEF Snapshot
<1>2. past' \in Seq(Snapshot(large))
  BY <1>1, AllStrokes DEF Fit, Transform
<1>3. frames' \in Nat /\ image' = frames' /\ image' # NoImage
      /\ image # NoImage
  BY DEF Fit, Transform, NoImage
<1>4. strokes' = [i \in 1 .. n |-> Follows(strokes[i], shrinks)] /\ redoStack' = << >>
  BY DEF Transform, SetStrokes
<1>5. ASSUME NEW i \in 1 .. n
      PROVE  Follows(strokes[i], shrinks) \in Marks(image', large)
  <2>1. Len(strokes) \in Nat /\ strokes[i] \in Marks(image, large)
    BY LenProperties, ElementOfSeq DEF Fit
  <2>2. strokes[i] = image \/ (large /\ strokes[i] = Astray)
    BY <2>1 DEF Marks
  <2>3. shrinks => large
    BY DEF TooLarge
  <2>4. \/ Follows(strokes[i], shrinks) = image'
        \/ large /\ Follows(strokes[i], shrinks) = Astray
    BY <1>3, <2>2, <2>3 DEF Follows
  <2> QED
    BY <2>4 DEF Marks
<1>6. strokes' \in Seq(Marks(image', large))
  <2>1. n \in Nat
    BY LenProperties DEF Fit
  <2> QED
    BY <1>4, <1>5, <2>1, SeqDef
<1>7. redoStack' \in Seq(Marks(image', large))
  BY <1>4, EmptySeq
<1> QED
  BY <1>0, <1>2, <1>3, <1>6, <1>7 DEF Fit
\* The inductive invariant of the editor and its dialog.
THEOREM EditorInvariance == EditorSpec => []EditorInv
<1>1. EditorInit => EditorInv
  <2> SUFFICES ASSUME EditorInit PROVE EditorInv
    OBVIOUS
  <2>1. Fit
    BY EmptySeq DEF EditorInit, Fit
  <2> QED
    BY <2>1 DEF EditorInit, EditorInv, Previewed, SendsWhatIsShown
<1>2. EditorInv /\ [EditorNext]_editorVars => EditorInv'
  <2> SUFFICES ASSUME EditorInv, [EditorNext]_editorVars PROVE EditorInv'
    OBVIOUS
  <2>a. CASE UNCHANGED editorVars
    BY <2>a DEF editorVars, editVars, dialogVars, EditorInv, Fit, Previewed,
                SendsWhatIsShown
  <2>b. SUFFICES ASSUME EditorNext PROVE EditorInv'
    BY <2>a
  <2>0. Fit /\ Previewed /\ ~late /\ sent = << >>
    BY <2>b DEF EditorNext, Ended, EditorInv
  <2>d. ASSUME KeepDialog, Fit' PROVE EditorInv'
    BY <2>0, <2>d DEF KeepDialog, dialogVars, EditorInv, Previewed,
                      SendsWhatIsShown
  <2>1. CASE PenDown
    <3>1. Fit'
      BY <2>0, <2>1 DEF PenDown, KeepDialog, dialogVars, Fit
    <3> QED
      BY <2>1, <2>d, <3>1 DEF PenDown
  <2>2. CASE PenUp
    <3>1. CASE pen # image
      BY <2>0, <2>2, <3>1 DEF PenUp, KeepDialog, dialogVars, EditorInv,
                              Previewed, SendsWhatIsShown
    <3>2. CASE pen = image
      <4>1. strokes' \in Seq(Marks(image, large)) /\ redoStack' \in Seq(Marks(image, large))
        BY <2>0, <2>2, <3>2, AllStrokes, EmptySeq DEF PenUp, Fit, Marks
      <4>2. image # NoImage
        BY <2>0, <2>2 DEF PenUp, Fit
      <4>3. Fit'
        BY <2>0, <2>2, <4>1, <4>2 DEF PenUp, KeepDialog, dialogVars, Fit
      <4> QED
        BY <2>2, <2>d, <4>3 DEF PenUp
    <3> QED
      BY <3>1, <3>2
  <2>3. CASE Rotate
    <3>1. Len(strokes) \in 0 .. Len(strokes)
      BY <2>0, LenProperties DEF Fit
    <3> QED
      BY <2>0, <2>3, <2>d, <3>1, TransformFits DEF Rotate
  <2>4. CASE ToggleCrop
    <3>1. Fit'
      BY <2>0, <2>4 DEF ToggleCrop, KeepDialog, dialogVars, Fit
    <3> QED
      BY <2>4, <2>d, <3>1 DEF ToggleCrop
  <2>5. CASE ApplyCrop
    <3>1. PICK n \in 0 .. Len(strokes), shrinks \in {FALSE, TooLarge} :
             Transform(n, shrinks)
      BY <2>5 DEF ApplyCrop
    <3> QED
      BY <2>0, <2>5, <2>d, <3>1, TransformFits DEF ApplyCrop
  <2>6. CASE Undo
    <3>1. CASE strokes # << >>
      <4>1. /\ strokes' = SubSeq(strokes, 1, Len(strokes) - 1)
            /\ redoStack' = << strokes[Len(strokes)] >> \o redoStack
            /\ UNCHANGED << image, past >>
        BY <2>6, <3>1 DEF Undo
      <4>2. strokes' \in Seq(Marks(image, large)) /\ redoStack' \in Seq(Marks(image, large))
        BY <2>0, <3>1, <4>1, AllStrokes DEF Fit
      <4>3. Fit'
        BY <2>0, <2>6, <3>1, <4>1, <4>2 DEF Undo, KeepDialog, dialogVars, Fit
      <4> QED
        BY <2>6, <2>d, <4>3 DEF Undo
    <3>2. CASE strokes = << >>
      <4> DEFINE last == past[Len(past)]
      <4>1. /\ past # << >> /\ past' = SubSeq(past, 1, Len(past) - 1)
            /\ image' = last.frame
            /\ strokes' = last.strokes /\ redoStack' = << >>
        BY <2>6, <3>2 DEF Undo, SetStrokes
      <4>2. last \in Snapshot(large) /\ past' \in Seq(Snapshot(large))
        BY <2>0, <4>1, AllStrokes DEF Fit
      <4>3. image' \in Nat /\ strokes' \in Seq(Marks(image', large))
        BY <4>1, <4>2, SnapshotFits
      <4>4. redoStack' \in Seq(Marks(image', large))
        BY <4>1, EmptySeq
      <4>5. image # NoImage /\ image' # NoImage
        BY <2>0, <4>1, <4>3 DEF Fit, NoImage
      <4>6. Fit'
        BY <2>0, <2>6, <4>2, <4>3, <4>4, <4>5
           DEF Undo, KeepDialog, dialogVars, Fit
      <4> QED
        BY <2>6, <2>d, <4>6 DEF Undo
    <3> QED
      BY <3>1, <3>2
  <2>7. CASE Redo
    <3>1. strokes' \in Seq(Marks(image, large)) /\ redoStack' \in Seq(Marks(image, large))
      BY <2>0, <2>7, AllStrokes DEF Redo, Fit
    <3>2. Fit'
      BY <2>0, <2>7, <3>1 DEF Redo, KeepDialog, dialogVars, Fit
    <3> QED
      BY <2>7, <2>d, <3>2 DEF Redo
  <2>8. CASE ClearAll
    <3>1. strokes' \in Seq(Marks(image, large)) /\ redoStack' \in Seq(Marks(image, large))
      BY <2>0, <2>8, AllStrokes, EmptySeq DEF ClearAll, Fit
    <3>2. Fit'
      BY <2>0, <2>8, <3>1 DEF ClearAll, KeepDialog, dialogVars, Fit
    <3> QED
      BY <2>8, <2>d, <3>2 DEF ClearAll
  <2>9. CASE Reset
    <3>1. strokes' = << >> /\ redoStack' = << >> /\ past' = << >>
          /\ image # NoImage /\ ~modified' /\ frames' = frames
          /\ committed' = committed /\ decoding' = decoding /\ view' = view
          /\ large' = large /\ image' = IF decoding THEN committed.frame ELSE 0
      BY <2>9 DEF Reset, SetStrokes, KeepDialog, dialogVars
    <3>2. decoding => committed \in Snapshot(large)
      BY <2>0, <3>1 DEF Fit
    <3>3. image' \in Nat
      BY <3>1, <3>2, SnapshotFits
    <3>4. Fit'
      BY <2>0, <2>9, <3>1, <3>3, EmptySeq DEF Reset, Fit, InEditor, NoImage
    <3> QED
      BY <2>9, <2>d, <3>4 DEF Reset
  <2>10. CASE OpenPicture
    <3>1. /\ image = NoImage /\ committed = Nil
          /\ strokes = << >> /\ redoStack = << >> /\ past = << >>
      BY <2>0, <2>10 DEF OpenPicture, Fit
    <3>2. /\ strokes' \in Seq(Marks(image', large')) /\ past' \in Seq(Snapshot(large'))
          /\ redoStack' \in Seq(Marks(image', large'))
      BY <2>10, <3>1, EmptySeq DEF OpenPicture, editVars
    <3>3. Fit'
      BY <2>0, <2>10, <3>1, <3>2 DEF OpenPicture, editVars, Fit
    <3> QED
      BY <2>0, <2>10, <3>3 DEF OpenPicture, EditorInv, Previewed, SendsWhatIsShown
  <2>11. CASE Edit
    <3>1. /\ image' = committed.frame /\ strokes' = committed.strokes
          /\ redoStack' = << >> /\ past' = << >> /\ ~modified' /\ pen' = NoPen
          /\ UNCHANGED << large, frames, committed, blobs, preview, sent, late >>
          /\ view' = "editor"
      BY <2>11 DEF Edit, dialogVars
    <3>2. \/ committed = Nil /\ image' = NoImage /\ strokes' = << >>
          \/ committed # Nil /\ image' \in Nat /\ strokes' \in Seq(Marks(image', large))
      <4>1. Nil.frame = NoImage /\ Nil.strokes = << >>
        BY DEF Nil
      <4> QED
        BY <2>0, <3>1, <4>1, SnapshotFits DEF Fit
    <3>3. redoStack' \in Seq(Marks(image', large)) /\ past' \in Seq(Snapshot(large))
          /\ strokes' \in Seq(Marks(image', large))
      BY <3>1, <3>2, EmptySeq
    <3>4. Fit'
      BY <2>0, <3>1, <3>2, <3>3 DEF Fit, NoImage
    <3> QED
      BY <2>0, <3>1, <3>4 DEF EditorInv, Previewed, SendsWhatIsShown
  <2>12. CASE Decoded
    <3>1. /\ image' = 0 /\ strokes' = strokes /\ redoStack' = redoStack
          /\ past' = << >> /\ ~modified' /\ decoding' = FALSE
          /\ UNCHANGED << large, frames, committed, blobs, preview, sent, late >>
          /\ InEditor /\ view' = view /\ (image > 0 => rewound')
      BY <2>12 DEF Decoded, dialogVars
    <3>2. ~rewound' => image = 0 \/ image = NoImage
      <4>1. image \in Nat \/ image = NoImage
        BY <2>0 DEF Fit
      <4>2. ~rewound' => ~(image > 0)
        BY <3>1
      <4> QED
        BY <4>1, <4>2
    <3>3. ~rewound' => strokes' \in Seq(Marks(0, large)) /\ redoStack' \in Seq(Marks(0, large))
      BY <2>0, <3>1, <3>2, EmptySeq DEF Fit
    <3>4. ~rewound' => Fit'
      BY <2>0, <3>1, <3>3, EmptySeq DEF Fit, InEditor, NoImage
    <3> QED
      BY <2>0, <3>1, <3>4 DEF EditorInv, Previewed, SendsWhatIsShown
  <2>13. ASSUME Unmounts,
                committed' \in Snapshot(large) \cup {Nil},
                large' = large, view' = "preview"
         PROVE  Fit'
    BY <2>0, <2>13, EmptySeq DEF Unmounts, Fit
  <2>14. CASE Done
    <3>1. Unmounts /\ sent' = sent /\ late' = late /\ blobs = {}
          /\ large' = large /\ view' = "preview"
      BY <2>14 DEF Done
    <3>2. CASE strokes # << >> \/ modified
      <4>1. committed' = Picture /\ blobs' = {Picture}
        BY <2>14, <3>1, <3>2 DEF Done
      <4>2. image \in Nat /\ Picture \in Fitting(image, large)
        BY <2>0, <3>2 DEF Fit, Picture, Fitting
      <4>3. Fit'
        BY <2>13, <3>1, <4>1, <4>2 DEF Snapshot
      <4> QED
        BY <2>0, <3>1, <4>1, <4>3 DEF EditorInv, Previewed, SendsWhatIsShown
    <3>3. CASE ~(strokes # << >> \/ modified)
      <4>1. UNCHANGED << committed, preview, blobs >>
        BY <2>14, <3>3 DEF Done
      <4>2. Fit'
        BY <2>0, <2>13, <3>1, <4>1 DEF Fit
      <4> QED
        BY <2>0, <3>1, <4>1, <4>2 DEF EditorInv, Previewed, SendsWhatIsShown
    <3> QED
      BY <3>2, <3>3
  <2>15. CASE CancelEditing
    <3>1. Fit'
      BY <2>0, <2>13, <2>15 DEF CancelEditing, dialogVars, Fit
    <3> QED
      BY <2>0, <2>15, <3>1 DEF CancelEditing, dialogVars, EditorInv, Previewed,
                               SendsWhatIsShown
  <2>16. ASSUME NEW b \in blobs, BlobArrives(b) PROVE EditorInv'
    <3>1. Fit'
      BY <2>0, <2>16 DEF BlobArrives, editVars, Fit
    <3> QED
      BY <2>0, <2>16, <3>1 DEF BlobArrives, EditorInv, Previewed,
                               SendsWhatIsShown
  <2>17. CASE Revert \/ SendPicture \/ ClosePicture
    <3>1. Forgets /\ UNCHANGED << large, decoding, editVars, blobs >> /\ view # "editor"
      BY <2>17 DEF Revert, SendPicture, ClosePicture
    <3>2. image' = NoImage /\ committed' = Nil /\ preview' = Nil
      BY <2>0, <3>1 DEF Forgets, editVars, Fit
    <3>3. Fit'
      BY <2>0, <3>1, <3>2 DEF editVars, Fit
    <3>4. sent' # << >> /\ ~late' => sent'[1] = sent'[2]
      <4>1. CASE SendPicture
        <5>1. sent' = << preview, committed >> /\ (blobs # {} => late')
          BY <4>1 DEF SendPicture, Displayed, Sendable
        <5>2. ~late' => preview = committed
          BY <2>0, <5>1 DEF Previewed
        <5> QED
          BY <5>1, <5>2
      <4>2. CASE Revert \/ ClosePicture
        BY <2>0, <4>2 DEF Revert, ClosePicture
      <4> QED
        BY <2>17, <4>1, <4>2
    <3> QED
      BY <3>2, <3>3, <3>4 DEF EditorInv, Previewed, SendsWhatIsShown
  <2> QED
    BY <2>b, <2>1, <2>2, <2>3, <2>4, <2>5, <2>6, <2>7, <2>8, <2>9, <2>10, <2>11,
       <2>12, <2>14, <2>15, <2>16, <2>17 DEF EditorNext
<1> QED
  BY <1>1, <1>2, PTL DEF EditorSpec
\* Strokes on the picture, strokes to be redone and strokes of snapshots have
\* the coordinates of their picture, or were on a large file when it was
\* downscaled.
THEOREM StrokesFitTheirPicture == EditorSpec => []StrokesFit
<1>1. EditorInv => StrokesFit
  <2> SUFFICES ASSUME Fit PROVE StrokesFit
    BY DEF EditorInv, StrokesFit
  <2>1. ASSUME NEW f, NEW s \in Seq(Marks(f, large)) PROVE Fits(s, f)
    <3>1. \A i \in DOMAIN s : s[i] \in Marks(f, large)
      BY LenProperties, ElementOfSeq
    <3> QED
      BY <3>1 DEF Marks, Fits
  <2>2. Fits(strokes, image) /\ Fits(redoStack, image)
    BY <2>1 DEF Fit
  <2>3. ASSUME NEW p \in Snapshot(large) PROVE Fits(p.strokes, p.frame)
    BY <2>1, <2>3, SnapshotFits
  <2>4. ASSUME NEW i \in DOMAIN past PROVE Fits(past[i].strokes, past[i].frame)
    <3>1. past[i] \in Snapshot(large)
      BY <2>4, LenProperties, ElementOfSeq DEF Fit
    <3> QED
      BY <2>3, <3>1
  <2>5. Fits(committed.strokes, committed.frame)
    BY <2>3 DEF Fit, Nil, Fits
  <2> QED
    BY <2>2, <2>4, <2>5 DEF StrokesFit
<1> QED
  BY <1>1, EditorInvariance, PTL

\* What is sent is what the preview showed.
THEOREM ShownIsSent == EditorSpec => []SendsWhatIsShown
BY EditorInvariance, PTL DEF EditorInv
-----------------------------------------------------------------------------
(* The geometry of the editor *)

Box == [1 .. 2 -> [at : Int, len : Int]]

\* Every variable keeps its shape: a picture has at least one pixel, and a
\* stroke as many points as details it was drawn on.
CropTypeOK ==
    /\ width \in Nat \ {0} /\ height \in Nat \ {0}
    /\ box \in Box \cup {NoBox}
    /\ preset \in Presets
    /\ DOMAIN stroke = DOMAIN detail
    /\ \A k \in DOMAIN detail : detail[k] \in [1 .. 2 -> Int]
    /\ between \in BOOLEAN /\ adrift \in BOOLEAN

CropInv == CropTypeOK /\ StrokesStay

\* Rounding gives an integer.
LEMMA RoundedIsInt ==
    ASSUME NEW v \in Int, NEW s \in Nat \ {0}
    PROVE  Rounded(v, s) \in Int
<1>1. 2 * v + s \in Int /\ 2 * s \in Nat \ {0}
  OBVIOUS
<1> QED
  BY <1>1 DEF Rounded

\* Scaling gives an integer, and none where nothing is scaled.
LEMMA ScaledIsInt ==
    ASSUME NEW v \in Int, NEW from \in Nat \ {0}, NEW to \in Nat \ {0}
    PROVE  Scaled(v, from, to) \in Int /\ Scaled(v, from, from) = v
<1>1. v * to \in Int
  OBVIOUS
<1> QED
  BY <1>1, RoundedIsInt DEF Scaled

\* A downscaled canvas has at least one pixel; a small one stays as it is.
LEMMA CanvasSize ==
    ASSUME NEW w \in Nat \ {0}, NEW h \in Nat \ {0}
    PROVE  /\ Downscaled(<< w, h >>)[1] \in Nat \ {0}
           /\ Downscaled(<< w, h >>)[2] \in Nat \ {0}
           /\ Large(<< w, h >>) \in BOOLEAN
           /\ ~Large(<< w, h >>) => Downscaled(<< w, h >>) = << w, h >>
<1> DEFINE long == Most(w, h)
<1>1. long \in Nat \ {0} /\ Longest \in Nat \ {0}
  BY SizeAssumption DEF Most
<1>2. w * Longest \in Int /\ h * Longest \in Int
  BY <1>1
<1>3. Rounded(w * Longest, long) \in Int /\ Rounded(h * Longest, long) \in Int
  BY <1>1, <1>2, RoundedIsInt
<1>4. /\ Most(1, Rounded(w * Longest, long)) \in Nat \ {0}
      /\ Most(1, Rounded(h * Longest, long)) \in Nat \ {0}
  BY <1>3 DEF Most
<1>5. Large(<< w, h >>) =>
         Downscaled(<< w, h >>) =
            [i \in 1 .. 2 |-> Most(1, Rounded(<< w, h >>[i] * Longest, long))]
  BY DEF Downscaled
<1>6. Large(<< w, h >>) =>
         /\ Downscaled(<< w, h >>)[1] = Most(1, Rounded(w * Longest, long))
         /\ Downscaled(<< w, h >>)[2] = Most(1, Rounded(h * Longest, long))
  BY <1>5
<1>7. ~Large(<< w, h >>) => Downscaled(<< w, h >>) = << w, h >>
  BY DEF Downscaled
<1>8. Large(<< w, h >>) \in BOOLEAN
  BY DEF Large
<1> QED
  BY <1>4, <1>6, <1>7, <1>8

\* An even number of halves is a number of pixels.
LEMMA RoundedHalves == \A v \in Int : Rounded(2 * v, 2) = v
BY DEF Rounded

\* clampCropRect puts every box into the picture.
LEMMA ClampedIsInside ==
    ASSUME CropTypeOK, NEW b \in Box
    PROVE  Clamped(b) \in Box /\ Inside(Clamped(b))
<1>1. \A i \in 1 .. 2 : /\ Sizes[i] \in Nat \ {0} /\ Smallests[i] \in Nat \ {0}
                        /\ Smallests[i] <= Sizes[i]
                        /\ b[i].at \in Int /\ b[i].len \in Int
  BY SizeAssumption DEF CropTypeOK, Sizes, Smallests, Least, Box
<1> DEFINE len(i) == Most(Smallests[i], Least(b[i].len, Sizes[i]))
           at(i) == Most(0, Least(b[i].at, Sizes[i] - len(i)))
<1>2. \A i \in 1 .. 2 : /\ len(i) \in Int /\ at(i) \in Int
                        /\ Smallests[i] <= len(i) /\ len(i) <= Sizes[i]
                        /\ 0 <= at(i) /\ at(i) + len(i) <= Sizes[i]
  BY <1>1 DEF Most, Least
<1>3. Clamped(b) = [i \in 1 .. 2 |-> [at |-> at(i), len |-> len(i)]]
  BY DEF Clamped, Span
<1> HIDE DEF at, len
<1> QED
  BY <1>2, <1>3 DEF Box, Inside, End

\* fitCropRectToAspect gives a box in the picture.
LEMMA FittedIsInside ==
    ASSUME CropTypeOK, NEW a \in (Nat \X Nat), a = NoRatio \/ (a[1] > 0 /\ a[2] > 0)
    PROVE  Fitted(a) \in Box /\ Inside(Fitted(a))
<1>1. ASSUME NEW w \in Int, NEW h \in Int
      PROVE  Centered(w, h) \in Box /\ Inside(Centered(w, h))
  <2>1. Rounded(width - w, 2) \in Int /\ Rounded(height - h, 2) \in Int
    BY RoundedIsInt DEF CropTypeOK
  <2>2. << Span(Rounded(width - w, 2), w), Span(Rounded(height - h, 2), h) >> \in Box
    BY <2>1 DEF Box, Span
  <2> QED
    BY <2>2, ClampedIsInside DEF Centered
<1>2. Tenths(width) \in Int /\ Tenths(height) \in Int
  BY RoundedIsInt DEF Tenths, CropTypeOK
<1>3. CASE a = NoRatio
  BY <1>1, <1>2, <1>3 DEF Fitted
<1>4. CASE a # NoRatio
  <2>1. a[1] \in Nat \ {0} /\ a[2] \in Nat \ {0}
    BY <1>4
  <2>2. Tenths(height) * a[1] \in Int /\ Tenths(width) * a[2] \in Int
    BY <1>2, <2>1
  <2>3. Rounded(Tenths(height) * a[1], a[2]) \in Int
        /\ Rounded(Tenths(width) * a[2], a[1]) \in Int
    BY <2>1, <2>2, RoundedIsInt
  <2> QED
    BY <1>1, <1>2, <1>4, <2>3 DEF Fitted
<1> QED
  BY <1>3, <1>4
\* What is dragged by whole pixels, without a ratio, stays in the picture.
LEMMA DraggedIsInside ==
    ASSUME CropTypeOK, box \in Box, Inside(box), NEW hd \in Handle,
           NEW d \in Int \X Int, d[1] % 2 # 1, d[2] % 2 # 1
    PROVE  Inside(Moved(box, d)) /\ Inside(Pulled(box, hd, d))
<1>1. PICK e1 \in Int, e2 \in Int : d[1] = 2 * e1 /\ d[2] = 2 * e2
  <2>1. d[1] \in Int /\ d[2] \in Int
    OBVIOUS
  <2>2. \A v \in Int : v % 2 # 1 => v = 2 * (v \div 2) /\ v \div 2 \in Int
    OBVIOUS
  <2> QED
    BY <2>1, <2>2
<1> DEFINE e == << e1, e2 >>
<1>2. \A i \in 1 .. 2 : /\ d[i] = 2 * e[i] /\ e[i] \in Int
                        /\ Sizes[i] \in Nat \ {0} /\ Smallests[i] \in Nat \ {0}
                        /\ Smallests[i] <= Sizes[i]
                        /\ box[i].at \in Int /\ box[i].len \in Int
                        /\ hd[i] \in {-1, 0, 1}
  BY <1>1, SizeAssumption
     DEF CropTypeOK, Sizes, Smallests, Least, Box, Handle
<1> HIDE DEF e
<1>3. \A i \in 1 .. 2 : /\ 0 <= box[i].at /\ box[i].at + box[i].len <= Sizes[i]
                        /\ Smallests[i] <= box[i].len
  BY <1>2 DEF Inside, End
<1>4. Inside(Moved(box, d))
  <2> DEFINE at(i) == Most(0, Least(box[i].at + e[i], Sizes[i] - box[i].len))
  <2>1. \A i \in 1 .. 2 :
           /\ at(i) \in Int /\ 0 <= at(i) /\ at(i) + box[i].len <= Sizes[i]
           /\ Most(0, Least(2 * box[i].at + d[i], 2 * (Sizes[i] - box[i].len)))
              = 2 * at(i)
    BY <1>2, <1>3 DEF Most, Least
  <2>2. Moved(box, d) = [i \in 1 .. 2 |-> [at |-> at(i), len |-> box[i].len]]
    BY <2>1, RoundedHalves DEF Moved, Span
  <2> HIDE DEF at
  <2> QED
    BY <1>2, <1>3, <2>1, <2>2 DEF Inside, End
<1>5. Inside(Pulled(box, hd, d))
  <2> DEFINE low(i) == IF hd[i] = -1
                         THEN Most(0, Least(box[i].at + e[i],
                                            End(box[i]) - Smallests[i]))
                         ELSE box[i].at
             high(i) == IF hd[i] = 1
                          THEN Least(Sizes[i], Most(End(box[i]) + e[i],
                                                    low(i) + Smallests[i]))
                          ELSE End(box[i])
             low2(i) == IF hd[i] = -1
                          THEN Most(0, Least(2 * box[i].at + d[i],
                                             2 * (End(box[i]) - Smallests[i])))
                          ELSE 2 * box[i].at
             high2(i) == IF hd[i] = 1
                           THEN Least(2 * Sizes[i],
                                      Most(2 * End(box[i]) + d[i],
                                           low2(i) + 2 * Smallests[i]))
                           ELSE 2 * End(box[i])
  <2>1. \A i \in 1 .. 2 :
           /\ low(i) \in Int /\ 0 <= low(i)
           /\ low(i) + Smallests[i] <= End(box[i])
           /\ low2(i) = 2 * low(i)
    BY <1>2, <1>3 DEF Most, Least, End
  <2> HIDE DEF low, low2
  <2>2. \A i \in 1 .. 2 :
           /\ high(i) \in Int /\ high(i) <= Sizes[i]
           /\ low(i) + Smallests[i] <= high(i)
           /\ high2(i) = 2 * high(i)
    BY <1>2, <1>3, <2>1 DEF Most, Least, End
  <2>3. Pulled(box, hd, d) =
           [i \in 1 .. 2 |-> Span(Rounded(low2(i), 2),
                                  Rounded(high2(i) - low2(i), 2))]
    BY DEF Pulled, low2, high2
  <2> HIDE DEF high, high2
  <2>4. \A i \in 1 .. 2 : /\ Rounded(low2(i), 2) = low(i)
                          /\ Rounded(high2(i) - low2(i), 2) = high(i) - low(i)
    <3>1. ASSUME NEW i \in 1 .. 2
          PROVE  high2(i) - low2(i) = 2 * (high(i) - low(i))
                 /\ high(i) - low(i) \in Int
      BY <2>1, <2>2
    <3> QED
      BY <2>1, <3>1, RoundedHalves
  <2> QED
    BY <1>2, <2>1, <2>2, <2>3, <2>4 DEF Inside, End, Span
<1> QED
  BY <1>4, <1>5

\* A drag gives a box in any case.
LEMMA DraggedIsBox ==
    ASSUME CropTypeOK, box \in Box, NEW hd \in Handle, NEW d \in Int \X Int
    PROVE  Moved(box, d) \in Box /\ Pulled(box, hd, d) \in Box
<1>1. \A i \in 1 .. 2 : /\ d[i] \in Int
                        /\ Sizes[i] \in Nat \ {0} /\ Smallests[i] \in Nat \ {0}
                        /\ box[i].at \in Int /\ box[i].len \in Int
                        /\ End(box[i]) \in Int
  BY SizeAssumption DEF CropTypeOK, Sizes, Smallests, Least, Box, End
<1>3. \A v \in Int : Rounded(v, 2) \in Int
  BY RoundedIsInt
<1>4. Moved(box, d) \in Box
  <2>1. \A i \in 1 .. 2 :
           Most(0, Least(2 * box[i].at + d[i],
                         2 * (Sizes[i] - box[i].len))) \in Int
    BY <1>1 DEF Most, Least
  <2> QED
    BY <1>1, <1>3, <2>1 DEF Moved, Box, Span
<1>5. Pulled(box, hd, d) \in Box
  <2> DEFINE low(i) == IF hd[i] = -1
                         THEN Most(0, Least(2 * box[i].at + d[i],
                                            2 * (End(box[i]) - Smallests[i])))
                         ELSE 2 * box[i].at
             high(i) == IF hd[i] = 1
                          THEN Least(2 * Sizes[i],
                                     Most(2 * End(box[i]) + d[i],
                                          low(i) + 2 * Smallests[i]))
                          ELSE 2 * End(box[i])
  <2>1. \A i \in 1 .. 2 : low(i) \in Int
    BY <1>1 DEF Most, Least
  <2> HIDE DEF low
  <2>2. \A i \in 1 .. 2 : high(i) \in Int
    BY <1>1, <2>1 DEF Most, Least
  <2>3. Pulled(box, hd, d) =
           [i \in 1 .. 2 |-> Span(Rounded(low(i), 2), Rounded(high(i) - low(i), 2))]
    BY DEF Pulled, low, high
  <2> HIDE DEF high
  <2>4. \A i \in 1 .. 2 : Rounded(low(i), 2) \in Int
                          /\ Rounded(high(i) - low(i), 2) \in Int
    BY <1>3, <2>1, <2>2
  <2> QED
    BY <2>3, <2>4 DEF Box, Span
<1> QED
  BY <1>4, <1>5
\* The least of three numbers is a number.
LEMMA MinIsInt ==
    ASSUME NEW x \in Int, NEW y \in Int, NEW z \in Int
    PROVE  Min({x, y, z}) \in Int
<1>1. \E v \in {x, y, z} : \A u \in {x, y, z} : v <= u
  OBVIOUS
<1>2. Min({x, y, z}) \in {x, y, z}
  BY <1>1 DEF Min
<1> QED
  BY <1>2

\* With a ratio the box is clamped, and is in the picture.
LEMMA LockedIsInside ==
    ASSUME CropTypeOK, box \in Box, NEW hd \in Handle, NEW d \in Int \X Int,
           NEW a \in Nat \X Nat, a[1] > 0, a[2] > 0
    PROVE  Locked(box, hd, d, a) \in Box /\ Inside(Locked(box, hd, d, a))
<1> DEFINE S == 4 * a[1] * a[2]
           new == IF hd[2] = 0 THEN Edge(box, hd, d, a, 1, S)
                  ELSE IF hd[1] = 0 THEN Edge(box, hd, d, a, 2, S)
                  ELSE Corner(box, hd, d, a, S)
<1>1. \A i \in 1 .. 2 : /\ d[i] \in Int /\ hd[i] \in Int
                        /\ Sizes[i] \in Int /\ Smallests[i] \in Int
                        /\ box[i].at \in Int /\ box[i].len \in Int
                        /\ End(box[i]) \in Int
                        /\ a[i] \in Nat \ {0}
  BY SizeAssumption
     DEF CropTypeOK, Sizes, Smallests, Least, Box, End, Handle
<1>2. S \in Nat \ {0} /\ S \div 2 \in Int
  <2>1. \A p, q \in Nat \ {0} : 4 * p * q \in Nat \ {0}
    OBVIOUS
  <2>2. S \in Nat \ {0}
    BY <1>1, <2>1
  <2> QED
    BY <2>2
<1> HIDE DEF S
<1>3. \A p, q \in Int : p * q \in Int
  OBVIOUS
<1>4. \A p \in Int, q \in Nat \ {0} : p \div q \in Int
  OBVIOUS
<1>5. \A p, q \in Int : Most(p, q) \in Int /\ Least(p, q) \in Int
  BY DEF Most, Least
<1>6. \A i \in 1 .. 2 : /\ Room(box, hd, i) \in Int
                        /\ Room(box, hd, i) * S \in Int
                        /\ box[i].at * S \in Int /\ box[i].len * S \in Int
                        /\ End(box[i]) * S \in Int
                        /\ Smallests[i] * S \in Int /\ Sizes[i] * S \in Int
                        /\ hd[i] * d[i] * (S \div 2) \in Int
  BY <1>1, <1>2, <1>3 DEF Room
<1> DEFINE reach(i) == box[i].len * S + hd[i] * d[i] * (S \div 2)
           least(i) == Smallests[i] * S
           room(i) == Room(box, hd, i) * S
<1>a. \A i \in 1 .. 2 : /\ reach(i) \in Int /\ least(i) \in Int /\ room(i) \in Int
                        /\ Asked(box, hd, d, i, S) = Most(least(i), reach(i))
  <2>1. \A p, q \in Int : p + q \in Int
    OBVIOUS
  <2> QED
    BY <1>6, <2>1 DEF Asked
<1> HIDE DEF reach, least, room
<1>7. \A i \in 1 .. 2 : Asked(box, hd, d, i, S) \in Int
  BY <1>5, <1>a
<1>8. ASSUME NEW i \in 1 .. 2, NEW len \in Int
      PROVE  Anchored(box, hd, i, len, S) \in Int
  BY <1>6 DEF Anchored
<1>9. Corner(box, hd, d, a, S) \in Box
  <2> DEFINE w == Min({Asked(box, hd, d, 1, S), Room(box, hd, 1) * S,
                       (Room(box, hd, 2) * S * a[1]) \div a[2]})
             h == (w * a[2]) \div a[1]
  <2>1. (Room(box, hd, 2) * S * a[1]) \div a[2] \in Int
    BY <1>1, <1>3, <1>4, <1>6
  <2>2. w \in Int
    BY <1>6, <1>7, <2>1, MinIsInt
  <2> HIDE DEF w
  <2>3. h \in Int
    BY <1>1, <1>3, <1>4, <2>2
  <2>4. Corner(box, hd, d, a, S) =
           << Span(Anchored(box, hd, 1, w, S), w),
              Span(Anchored(box, hd, 2, h, S), h) >>
    BY DEF Corner, w
  <2> HIDE DEF h
  <2>5. Anchored(box, hd, 1, w, S) \in Int /\ Anchored(box, hd, 2, h, S) \in Int
    BY <1>8, <2>2, <2>3
  <2> QED
    BY <2>2, <2>3, <2>4, <2>5 DEF Box, Span
<1>10. ASSUME NEW i \in 1 .. 2 PROVE Edge(box, hd, d, a, i, S) \in Box
  <2> DEFINE o == 3 - i
             len == Most(Smallests[i] * S,
                         Least(Room(box, hd, i) * S,
                               box[i].len * S + hd[i] * d[i] * (S \div 2)))
             cross == (len * a[o]) \div a[i]
             at == box[o].at * S - (cross - box[o].len * S) \div 2
             limit == Sizes[o] * S - cross
  <2>1. o \in 1 .. 2
    OBVIOUS
  <2>2. len \in Int
    <3>1. len = Most(least(i), Least(room(i), reach(i)))
      BY DEF least, room, reach
    <3> QED
      BY <1>5, <1>a, <3>1
  <2>3. cross \in Int
    BY <1>1, <1>3, <1>4, <2>1, <2>2
  <2>4. Edge(box, hd, d, a, i, S) =
          IF limit < 0
            THEN [k \in 1 .. 2 |-> Span(box[k].at * S, box[k].len * S)]
            ELSE [k \in 1 .. 2 |->
                     IF k = i THEN Span(Anchored(box, hd, i, len, S), len)
                              ELSE Span(Most(0, Least(at, limit)), cross)]
    BY DEF Edge
  <2> HIDE DEF len, cross
  <2>5. limit \in Int /\ at \in Int
    BY <1>6, <2>1, <2>3
  <2> HIDE DEF at, limit, o
  <2>6. Most(0, Least(at, limit)) \in Int
    BY <1>5, <2>5
  <2>7. Anchored(box, hd, i, len, S) \in Int
    BY <1>8, <2>2
  <2> QED
    BY <1>6, <2>2, <2>3, <2>4, <2>6, <2>7 DEF Box, Span
<1>11. new \in Box
  BY <1>9, <1>10
<1> HIDE DEF new
<1>12. [i \in 1 .. 2 |-> Span(Rounded(new[i].at, S), Rounded(new[i].len, S))] \in Box
  <2>1. \A i \in 1 .. 2 : new[i].at \in Int /\ new[i].len \in Int
    BY <1>11 DEF Box
  <2>2. \A i \in 1 .. 2 : Rounded(new[i].at, S) \in Int /\ Rounded(new[i].len, S) \in Int
    BY <1>2, <2>1, RoundedIsInt
  <2> QED
    BY <2>2 DEF Box, Span
<1>13. Locked(box, hd, d, a) =
         Clamped([i \in 1 .. 2 |-> Span(Rounded(new[i].at, S), Rounded(new[i].len, S))])
  BY DEF Locked, new, S
<1> QED
  BY <1>12, <1>13, ClampedIsInside

\* getPresetRatio.
LEMMA Ratios ==
    ASSUME NEW p \in Presets
    PROVE  /\ Ratio(p) \in Nat \X Nat
           /\ Ratio(p) = NoRatio <=> p = "free"
           /\ p # "free" => Ratio(p)[1] > 0 /\ Ratio(p)[2] > 0
<1>1. FileWidth \in Nat \ {0} /\ FileHeight \in Nat \ {0}
  BY SizeAssumption
<1>2. CASE p = "free"
  BY <1>2 DEF Ratio, NoRatio
<1>3. CASE p = "original"
  BY <1>1, <1>3 DEF Ratio, NoRatio
<1>4. CASE p = "1:1"
  BY <1>4 DEF Ratio, NoRatio
<1>5. CASE p = "4:3"
  BY <1>5 DEF Ratio, NoRatio
<1>6. CASE p = "16:9"
  BY <1>6 DEF Ratio, NoRatio
<1> QED
  BY <1>2, <1>3, <1>4, <1>5, <1>6 DEF Presets
\* A step that touches the box alone.
LEMMA BoxStep ==
    ASSUME CropInv, UNCHANGED << width, height, stroke, detail, adrift >>,
           NEW b \in Box \cup {NoBox}, box' = b,
           preset' \in Presets, between' \in BOOLEAN,
           b # NoBox /\ ~between' => Inside(b)
    PROVE  CropInv'
<1>1. Sizes' = Sizes /\ Smallests' = Smallests
  BY DEF Sizes, Smallests
<1>2. CropTypeOK'
  BY DEF CropInv, CropTypeOK
<1>3. ~adrift' => \A k \in DOMAIN stroke' : stroke'[k] = Nearest(detail[k])'
  BY <1>1 DEF CropInv, StrokesStay, Nearest
<1>4. box' # NoBox /\ ~between' => Inside(box)'
  BY <1>1 DEF Inside
<1> QED
  BY <1>2, <1>3, <1>4 DEF CropInv, StrokesStay

\* The nearest point of the picture, side by side.
LEMMA NearestPoint ==
    ASSUME CropTypeOK, NEW p \in [1 .. 2 -> Int]
    PROVE  /\ Nearest(p) \in [1 .. 2 -> Int]
           /\ Nearest(p)[1] = Most(0, Least(width, p[1]))
           /\ Nearest(p)[2] = Most(0, Least(height, p[2]))
           /\ \A i \in 1 .. 2 : Nearest(p)[i] = Most(0, Least(Sizes[i], p[i]))
<1>1. \A i \in 1 .. 2 : Sizes[i] \in Int /\ p[i] \in Int
  BY DEF CropTypeOK, Sizes
<1>2. \A i \in 1 .. 2 : Most(0, Least(Sizes[i], p[i])) \in Int
  BY <1>1 DEF Most, Least
<1> QED
  BY <1>2 DEF Nearest, Sizes

\* The inductive invariant of the geometry.
THEOREM CropInvariance == CropSpec => []CropInv
<1>1. CropInit => CropInv
  <2> SUFFICES ASSUME CropInit PROVE CropInv
    OBVIOUS
  <2>1. between \in BOOLEAN /\ adrift \in BOOLEAN
    BY DEF CropInit
  <2>2. width \in Nat \ {0} /\ height \in Nat \ {0}
    BY SizeAssumption DEF CropInit
  <2>3. /\ DOMAIN stroke = {} /\ DOMAIN detail = {} /\ box = NoBox
        /\ preset \in Presets
    BY DEF CropInit, Presets
  <2> QED
    BY <2>1, <2>2, <2>3 DEF CropInv, CropTypeOK, StrokesStay
<1>2. CropInv /\ [CropNext]_cropVars => CropInv'
  <2> SUFFICES ASSUME CropInv, [CropNext]_cropVars PROVE CropInv'
    OBVIOUS
  <2>a. CASE UNCHANGED cropVars
    BY <2>a DEF cropVars, CropInv, CropTypeOK, StrokesStay, Nearest, Inside, Sizes,
                Smallests
  <2>b. SUFFICES ASSUME CropNext PROVE CropInv'
    BY <2>a
  <2>0. /\ CropTypeOK
        /\ ~adrift => \A k \in DOMAIN stroke : stroke[k] = Nearest(detail[k])
        /\ box # NoBox => box \in Box /\ Inside(box)
    BY <2>b DEF CropNext, CropInv, CropTypeOK, StrokesStay
  <2>1. ASSUME NEW path \in Paths, DrawStroke(path) PROVE CropInv'
    <3>1. /\ stroke' = [k \in DOMAIN path |-> Nearest(path[k])]
          /\ detail' = stroke' /\ box' = NoBox /\ adrift' = FALSE
          /\ UNCHANGED << width, height, preset, between >>
      BY <2>1 DEF DrawStroke
    <3>2. ASSUME NEW k \in DOMAIN path
          PROVE  /\ stroke'[k] \in [1 .. 2 -> Int]
                 /\ Nearest(stroke'[k]) = stroke'[k]
      <4>1. path[k] \in Int \X Int
        BY PathsAssumption
      <4>2. stroke'[k] = [i \in 1 .. 2 |-> Most(0, Least(Sizes[i], path[k][i]))]
        BY <3>1 DEF Nearest
      <4>3. \A i \in 1 .. 2 : /\ path[k][i] \in Int /\ Sizes[i] \in Nat
                              /\ stroke'[k][i] = Most(0, Least(Sizes[i], path[k][i]))
        BY <2>0, <4>1, <4>2 DEF Sizes, CropTypeOK
      <4>4. \A i \in 1 .. 2 :
               /\ stroke'[k][i] \in Int
               /\ Most(0, Least(Sizes[i], stroke'[k][i])) = stroke'[k][i]
        BY <4>3 DEF Most, Least
      <4>5. stroke'[k] \in [1 .. 2 -> Int]
        BY <4>2, <4>4
      <4> QED
        BY <4>2, <4>4, <4>5 DEF Nearest
    <3>3. CropTypeOK'
      BY <2>0, <3>1, <3>2 DEF CropTypeOK
    <3>4. \A k \in DOMAIN stroke' : stroke'[k] = Nearest(detail[k])'
      BY <3>1, <3>2 DEF Nearest, Sizes
    <3> QED
      BY <3>1, <3>3, <3>4 DEF CropInv, StrokesStay
  <2>2. ASSUME NEW angle \in {90, -90}, RotatePicture(angle) PROVE CropInv'
    <3> DEFINE new == Downscaled(Turned)
    <3>1. /\ width' = new[1] /\ height' = new[2] /\ box' = NoBox
          /\ adrift' = (stroke' # << >> /\ (adrift \/ Large(Turned)))
          /\ stroke' = [k \in DOMAIN stroke |-> RotatePoint(stroke[k], angle)]
          /\ detail' = [k \in DOMAIN detail |-> TurnOnCanvas(detail[k], angle)]
          /\ UNCHANGED << preset, between >>
      BY <2>2 DEF RotatePicture, NewPicture
    <3>2. width \in Nat \ {0} /\ height \in Nat \ {0}
      BY <2>0 DEF CropTypeOK
    <3>3. /\ new[1] \in Nat \ {0} /\ new[2] \in Nat \ {0}
          /\ Large(Turned) \in BOOLEAN
          /\ ~Large(Turned) => new = << height, width >>
      BY <3>2, CanvasSize DEF Turned
    <3>4. adrift' \in BOOLEAN
      BY <3>1
    <3>5. stroke' # << >> /\ ~adrift' => ~adrift /\ ~Large(Turned)
      BY <3>1, Zenon
    <3>6. ASSUME NEW k \in DOMAIN detail
          PROVE  detail'[k] \in [1 .. 2 -> Int]
      <4> DEFINE p == detail[k]
                 over == Scaled(p[2], height, new[1])
                 down == Scaled(p[1], width, new[2])
      <4>1. p[1] \in Int /\ p[2] \in Int
        BY <2>0 DEF CropTypeOK
      <4>2. over \in Int /\ down \in Int
        BY <3>2, <3>3, <4>1, ScaledIsInt
      <4>3. detail'[k] = IF angle = 90 THEN << new[1] - over, down >>
                                       ELSE << over, new[2] - down >>
        BY <3>1 DEF TurnOnCanvas
      <4> HIDE DEF over, down, new
      <4>4. /\ << new[1] - over, down >> \in [1 .. 2 -> Int]
            /\ << over, new[2] - down >> \in [1 .. 2 -> Int]
        BY <3>3, <4>2
      <4> QED
        BY <4>3, <4>4
    <3>7. ASSUME NEW k \in DOMAIN detail, ~adrift, ~Large(Turned)
          PROVE  stroke'[k] = Nearest(detail[k])'
      <4> DEFINE p == detail[k]
                 q == Nearest(detail[k])
      <4>1. p \in [1 .. 2 -> Int] /\ p[1] \in Int /\ p[2] \in Int
            /\ k \in DOMAIN stroke /\ stroke[k] = q
        BY <2>0, <3>7 DEF CropTypeOK
      <4>2. /\ q[1] = Most(0, Least(width, p[1]))
            /\ q[2] = Most(0, Least(height, p[2]))
        BY <2>0, <4>1, NearestPoint
      <4>3. width \in Nat /\ height \in Nat
        BY <2>0 DEF CropTypeOK
      <4>4. detail'[k] = TurnOnCanvas(p, angle) /\ stroke'[k] = RotatePoint(q, angle)
        BY <3>1, <4>1
      <4>5. new = << height, width >> /\ width' = height /\ height' = width
        BY <3>1, <3>3, <3>7
      <4>6. TurnOnCanvas(p, angle) = IF angle = 90 THEN << height - p[2], p[1] >>
                                                   ELSE << p[2], width - p[1] >>
        <5>1. /\ Scaled(p[2], height, new[1]) = p[2]
              /\ Scaled(p[1], width, new[2]) = p[1]
          BY <3>2, <4>1, <4>5, ScaledIsInt
        <5> QED
          BY <4>5, <5>1 DEF TurnOnCanvas
      <4> HIDE DEF p, q, new
      <4>7. CASE angle = 90
        <5>1. detail'[k] = << height - p[2], p[1] >>
          BY <4>4, <4>6, <4>7
        <5>2. stroke'[k] = << height - q[2], q[1] >>
          BY <4>4, <4>7 DEF RotatePoint
        <5>3. /\ height - q[2] = Most(0, Least(height, height - p[2]))
              /\ q[1] = Most(0, Least(width, p[1]))
          BY <4>1, <4>2, <4>3 DEF Most, Least
        <5>4. Nearest(detail[k])' = << Most(0, Least(height, height - p[2])),
                                       Most(0, Least(width, p[1])) >>
          BY <4>5, <5>1 DEF Nearest, Sizes
        <5> QED
          BY <4>1, <4>3, <5>1, <5>2, <5>3, <5>4
      <4>8. CASE angle = -90
        <5>1. detail'[k] = << p[2], width - p[1] >>
          BY <4>4, <4>6, <4>8
        <5>2. stroke'[k] = << q[2], width - q[1] >>
          BY <4>4, <4>8 DEF RotatePoint
        <5>3. /\ q[2] = Most(0, Least(height, p[2]))
              /\ width - q[1] = Most(0, Least(width, width - p[1]))
          BY <4>1, <4>2, <4>3 DEF Most, Least
        <5>4. Nearest(detail[k])' = << Most(0, Least(height, p[2])),
                                       Most(0, Least(width, width - p[1])) >>
          BY <4>5, <5>1 DEF Nearest, Sizes
        <5> QED
          BY <4>1, <4>3, <5>1, <5>2, <5>3, <5>4
      <4> QED
        BY <4>7, <4>8
    <3>8. DOMAIN stroke' = DOMAIN detail' /\ DOMAIN detail' = DOMAIN detail
      BY <2>0, <3>1 DEF CropTypeOK
    <3> HIDE DEF new
    <3>9. CropTypeOK'
      BY <2>0, <3>1, <3>3, <3>4, <3>6, <3>8 DEF CropTypeOK
    <3>10. ~adrift' => \A k \in DOMAIN stroke' : stroke'[k] = Nearest(detail[k])'
      <4>1. CASE stroke' = << >>
        BY <4>1
      <4>2. CASE stroke' # << >>
        BY <3>5, <3>7, <3>8, <4>2
      <4> QED
        BY <4>1, <4>2
    <3> QED
      BY <3>1, <3>9, <3>10 DEF CropInv, StrokesStay
  <2>3. ASSUME NEW p \in Presets
        PROVE  Fitted(Ratio(p)) \in Box /\ Inside(Fitted(Ratio(p)))
    BY <2>0, FittedIsInside, Ratios
  <2>4. CASE EnterCrop
    <3>1. preset \in Presets /\ preset' = preset
      BY <2>0, <2>4 DEF EnterCrop, CropTypeOK
    <3> QED
      BY <2>3, <2>4, <3>1, BoxStep DEF EnterCrop
  <2>5. ASSUME NEW p \in Presets, SelectPreset(p) PROVE CropInv'
    <3>1. preset' = p /\ box # NoBox /\ between' = (p = "free" /\ between)
          /\ UNCHANGED << width, height, stroke, detail, adrift >>
      BY <2>5 DEF SelectPreset
    <3>2. between' \in BOOLEAN
      BY <3>1
    <3> DEFINE b == IF p = "free" THEN box ELSE Fitted(Ratio(p))
    <3>3. box' = b /\ b \in Box /\ Inside(b)
      BY <2>0, <2>3, <2>5, <3>1 DEF SelectPreset
    <3> QED
      BY <3>1, <3>2, <3>3, BoxStep
  <2>6. ASSUME NEW hd \in Handle, NEW dx \in Moves, NEW dy \in Moves,
               DragHandle(hd, << dx, dy >>)
        PROVE  CropInv'
    <3> DEFINE d == << dx, dy >>
               a == Ratio(preset)
    <3>1. /\ d \in Int \X Int /\ d[1] = dx /\ d[2] = dy
          /\ dx \in Int /\ dy \in Int
      BY MovesAssumption
    <3>2. /\ box # NoBox /\ box' = Resized(box, hd, d, a)
          /\ between' = IF preset # "free" /\ hd # << 0, 0 >> THEN FALSE
                        ELSE between \/ \E i \in 1 .. 2 : d[i] % 2 = 1
          /\ UNCHANGED << width, height, preset, stroke, detail, adrift >>
      BY <2>6 DEF DragHandle
    <3>3. between' \in BOOLEAN /\ preset' \in Presets /\ preset \in Presets
      BY <2>0, <3>2 DEF CropTypeOK
    <3>4. box \in Box /\ Inside(box)
      BY <2>0, <3>2
    <3> HIDE DEF d
    <3>5. CASE preset # "free" /\ hd # << 0, 0 >>
      <4>1. a \in Nat \X Nat /\ a # NoRatio /\ a[1] > 0 /\ a[2] > 0
        BY <3>3, <3>5, Ratios
      <4>2. box' = Locked(box, hd, d, a)
        BY <3>2, <3>5, <4>1 DEF Resized
      <4>3. Locked(box, hd, d, a) \in Box /\ Inside(Locked(box, hd, d, a))
        BY <2>0, <3>1, <3>4, <4>1, LockedIsInside
      <4> HIDE DEF a
      <4> QED
        BY <3>2, <3>3, <4>2, <4>3, BoxStep
    <3>6. CASE ~(preset # "free" /\ hd # << 0, 0 >>)
      <4> DEFINE b == IF hd = << 0, 0 >> THEN Moved(box, d) ELSE Pulled(box, hd, d)
      <4>1. box' = b
        BY <3>2, <3>3, <3>6, Ratios DEF Resized
      <4>2. b \in Box
        BY <2>0, <3>1, <3>4, DraggedIsBox
      <4>3. ASSUME ~between' PROVE d[1] % 2 # 1 /\ d[2] % 2 # 1
        <5>1. ~ \E i \in 1 .. 2 : d[i] % 2 = 1
          BY <3>2, <3>6, <4>3
        <5>2. 1 \in 1 .. 2 /\ 2 \in 1 .. 2
          OBVIOUS
        <5> QED
          BY <5>1, <5>2
      <4>4. ~between' => Inside(b)
        BY <2>0, <3>1, <3>4, <4>3, DraggedIsInside
      <4> HIDE DEF b
      <4> QED
        BY <3>2, <3>3, <4>1, <4>2, <4>4, BoxStep
    <3> QED
      BY <3>5, <3>6
  <2>7. CASE CancelCrop
    <3>1. preset \in Presets /\ preset' = preset /\ between' = between
          /\ between \in BOOLEAN
      BY <2>0, <2>7 DEF CancelCrop, CropTypeOK
    <3> QED
      BY <2>7, <3>1, BoxStep DEF CancelCrop
  <2>8. CASE ApplyBox
    <3> DEFINE new == Downscaled(Cut)
    <3>1. /\ width' = new[1] /\ height' = new[2] /\ box' = NoBox
          /\ adrift' = (stroke' # << >> /\ (adrift \/ Large(Cut)))
          /\ stroke' = CropStroke /\ UNCHANGED << preset, between >>
          /\ detail' = IF stroke' = << >> THEN << >>
                       ELSE [k \in DOMAIN detail |-> CutOnCanvas(detail[k])]
          /\ box \in Box /\ Inside(box)
      BY <2>0, <2>8 DEF ApplyBox, NewPicture
    <3>2. \A i \in 1 .. 2 : /\ box[i].at \in Nat /\ box[i].len \in Nat \ {0}
                            /\ box[i].at + box[i].len <= Sizes[i]
                            /\ Sizes[i] \in Nat
      BY <2>0, <3>1, SizeAssumption
         DEF Inside, End, Box, CropTypeOK, Sizes, Smallests, Least
    <3>3. /\ new[1] \in Nat \ {0} /\ new[2] \in Nat \ {0}
          /\ Large(Cut) \in BOOLEAN
          /\ ~Large(Cut) => new = Cut
      BY <3>2, CanvasSize DEF Cut
    <3>4. adrift' \in BOOLEAN
      BY <3>1
    <3>5. stroke' # << >> /\ ~adrift' => ~adrift /\ ~Large(Cut)
      BY <3>1, Zenon
    <3>6. CASE stroke' = << >>
      <4>1. detail' = << >>
        BY <3>1, <3>6
      <4> HIDE DEF new
      <4> QED
        BY <2>0, <3>1, <3>3, <3>4, <3>6, <4>1 DEF CropInv, StrokesStay, CropTypeOK
    <3>7. CASE stroke' # << >>
      <4>1. /\ stroke' = [k \in DOMAIN stroke |-> CropPoint(stroke[k])]
            /\ detail' = [k \in DOMAIN detail |-> CutOnCanvas(detail[k])]
        BY <3>1, <3>7 DEF CropStroke
      <4>2. ASSUME NEW k \in DOMAIN detail
            PROVE  detail'[k] \in [1 .. 2 -> Int]
        <5> DEFINE p == detail[k]
        <5>1. \A i \in 1 .. 2 : p[i] - box[i].at \in Int
          BY <2>0, <3>2 DEF CropTypeOK
        <5>2. \A i \in 1 .. 2 : new[i] \in Nat \ {0}
          BY <3>3
        <5>3. \A i \in 1 .. 2 : Scaled(p[i] - box[i].at, box[i].len, new[i]) \in Int
          BY <3>2, <5>1, <5>2, ScaledIsInt
        <5>4. detail'[k] = [i \in 1 .. 2 |->
                               Scaled(p[i] - box[i].at, box[i].len, new[i])]
          BY <4>1 DEF CutOnCanvas
        <5> QED
          BY <5>3, <5>4
      <4>3. ASSUME NEW k \in DOMAIN detail, ~adrift, ~Large(Cut)
            PROVE  stroke'[k] = Nearest(detail[k])'
        <5> DEFINE p == detail[k]
        <5>1. p \in [1 .. 2 -> Int] /\ k \in DOMAIN stroke /\ stroke[k] = Nearest(p)
          BY <2>0, <4>3 DEF CropTypeOK
        <5>2. new = << box[1].len, box[2].len >>
          BY <3>3, <4>3 DEF Cut
        <5>3. \A i \in 1 .. 2 : /\ new[i] = box[i].len /\ Sizes'[i] = box[i].len
                                /\ p[i] - box[i].at \in Int
          BY <3>1, <3>2, <5>1, <5>2 DEF Sizes
        <5>4. \A i \in 1 .. 2 :
                 Scaled(p[i] - box[i].at, box[i].len, new[i]) = p[i] - box[i].at
          BY <3>2, <5>3, ScaledIsInt
        <5>5. detail'[k] = [i \in 1 .. 2 |-> p[i] - box[i].at]
          BY <4>1, <5>4 DEF CutOnCanvas
        <5>6. stroke'[k] = [i \in 1 .. 2 |->
                 Most(0, Least(box[i].len,
                               Most(0, Least(Sizes[i], p[i])) - box[i].at))]
          BY <4>1, <5>1 DEF CropPoint, Nearest
        <5> HIDE DEF p, new
        <5>7. \A i \in 1 .. 2 :
                 Most(0, Least(box[i].len,
                               Most(0, Least(Sizes[i], p[i])) - box[i].at))
                 = Most(0, Least(box[i].len, p[i] - box[i].at))
          BY <3>2, <5>1 DEF Most, Least
        <5>8. Nearest(detail[k])' = [i \in 1 .. 2 |->
                 Most(0, Least(box[i].len, p[i] - box[i].at))]
          BY <5>3, <5>5 DEF Nearest
        <5> QED
          BY <5>6, <5>7, <5>8
      <4>4. DOMAIN stroke' = DOMAIN detail' /\ DOMAIN detail' = DOMAIN detail
        BY <2>0, <4>1 DEF CropTypeOK
      <4> HIDE DEF new
      <4>5. CropTypeOK'
        BY <2>0, <3>1, <3>3, <3>4, <4>2, <4>4 DEF CropTypeOK
      <4>6. ~adrift' => \A k \in DOMAIN stroke' : stroke'[k] = Nearest(detail[k])'
        BY <3>5, <3>7, <4>3, <4>4
      <4> QED
        BY <3>1, <4>5, <4>6 DEF CropInv, StrokesStay
    <3> QED
      BY <3>6, <3>7
  <2> QED
    BY <2>b, <2>1, <2>2, <2>4, <2>5, <2>6, <2>7, <2>8 DEF CropNext
<1> QED
  BY <1>1, <1>2, PTL DEF CropSpec

\* Strokes stay on their details unless their picture is downscaled, and the
\* crop box in the picture.
THEOREM StrokesStayPut == CropSpec => []StrokesStay
BY CropInvariance, PTL DEF CropInv
===============================================================================
