----------------------------- MODULE ImageEditor -----------------------------
(***************************************************************************)
(* Editing a picture before it is sent: the strokes, rotations and crops   *)
(* of ImageEditorCanvas.tsx with the history of useDrawingState.ts and     *)
(* drawing.ts, inside ImagePreviewDialog.tsx, which keeps what was done,   *)
(* shows it and sends it.                                                  *)
(*                                                                         *)
(* Every rotation and crop gives the picture a new frame, in which its     *)
(* strokes have new coordinates.  A stroke is known by the frame its       *)
(* coordinates belong to; 0 is the frame of the file itself, and Astray    *)
(* that of no picture at all.                                              *)
(***************************************************************************)
EXTENDS Integers, Sequences

CONSTANTS MaxFrames, MaxStrokes     \* bounds: transformations and strokes
ASSUME EditorAssumption == MaxFrames \in Nat /\ MaxStrokes \in Nat

VARIABLES
    view,       \* none, preview or editor
    large,      \* the file is longer than MAX_LONGEST_SIDE
    decoding,   \* loadImage of the file is under way
    image,      \* workingSource, known by its frame; NoImage before it is there
    strokes,    \* the history's strokes
    redoStack,
    past,       \* transformHistoryRef
    modified,   \* isModified
    crop,       \* isCropActive
    pen,        \* the stroke being drawn, or NoPen
    frames,     \* frames used so far
    committed,  \* committedSource with its strokes, and the composite of them
    blobs,      \* callbacks of toBlob that have not come
    preview,    \* editedPreviewUrl
    sent,       \* what the preview showed, and what was sent
    late,       \* history: a blob came too late for what was shown or sent
    rewound,    \* history: the decoded file replaced a transformed picture
    across      \* history: the picture was transformed under a drawing pen

editVars == << image, strokes, redoStack, past, modified, crop, pen, frames >>
dialogVars == << large, committed, blobs, preview, sent, late >>
editorVars == << view, decoding, editVars, dialogVars, rewound, across >>

NoImage == -1
NoPen == -1
Astray == -2
Nil == [frame |-> NoImage, strokes |-> << >>]

Picture == [frame |-> image, strokes |-> strokes]
\* What <img> shows: the edited picture, or else the file.
Displayed == preview
\* What handleSend sends: the composite, or else the file.
Sendable == committed

-----------------------------------------------------------------------------
(* Strokes and transformations *)

InEditor == view = "editor"
KeepDialog == UNCHANGED << view, decoding, dialogVars, rewound >>

PenDown ==
    /\ InEditor /\ ~crop /\ pen = NoPen /\ image # NoImage
    /\ pen' = image
    /\ UNCHANGED << image, strokes, redoStack, past, modified, crop, frames,
                    across >>
    /\ KeepDialog

\* finishStroke and addStroke: a new stroke invalidates the redo stack.
PenUp ==
    /\ InEditor /\ pen # NoPen
    /\ Len(strokes) < MaxStrokes
    /\ strokes' = Append(strokes, pen)
    /\ redoStack' = << >>
    /\ pen' = NoPen
    /\ across' = (across \/ pen # image)
    /\ UNCHANGED << image, past, modified, crop, frames >>
    /\ KeepDialog

\* setStrokes leaves nothing to redo.
SetStrokes_M(s) == strokes' = s /\ UNCHANGED redoStack
SetStrokes(s) == strokes' = s /\ redoStack' = << >>

\* A canvas for more than MAX_LONGEST_SIDE is downscaled, and its strokes are
\* not: they are turned and cut with the sizes of the picture before.  What has
\* been through a canvas is never too large again.
TooLarge == large /\ image = 0
Follows(f, shrinks) == IF f = image /\ ~shrinks THEN frames' ELSE Astray

\* A snapshot is kept and the strokes move to where the new picture should be.
Transform(n, shrinks) ==
    /\ image # NoImage /\ frames < MaxFrames
    /\ past' = Append(past, Picture)
    /\ frames' = frames + 1
    /\ image' = frames'
    /\ SetStrokes([i \in 1 .. n |-> Follows(strokes[i], shrinks)])
    /\ modified' = TRUE

Rotate ==
    /\ InEditor /\ ~crop
    /\ Transform(Len(strokes), TooLarge)
    /\ UNCHANGED << crop, pen, across >>
    /\ KeepDialog

\* enterCropMode, cancelCropMode; strokes outside the crop are dropped, and the
\* box on a large picture may be small.
ToggleCrop ==
    /\ InEditor /\ image # NoImage
    /\ crop' = ~crop
    /\ UNCHANGED << image, strokes, redoStack, past, modified, pen, frames,
                    across >>
    /\ KeepDialog
ApplyCrop ==
    /\ InEditor /\ crop
    /\ \E n \in 0 .. Len(strokes), shrinks \in {FALSE, TooLarge} :
          Transform(n, shrinks)
    /\ crop' = FALSE
    /\ UNCHANGED << pen, across >>
    /\ KeepDialog

\* handleUndo: strokes first, whenever they were drawn, then transformations.
Undo ==
    /\ InEditor /\ ~crop
    /\ \/ /\ strokes # << >>
          /\ redoStack' = << strokes[Len(strokes)] >> \o redoStack
          /\ strokes' = SubSeq(strokes, 1, Len(strokes) - 1)
          /\ UNCHANGED << image, past >>
       \/ /\ strokes = << >> /\ past # << >>
          /\ past' = SubSeq(past, 1, Len(past) - 1)
          /\ image' = past[Len(past)].frame
          /\ SetStrokes(past[Len(past)].strokes)
    /\ UNCHANGED << modified, crop, pen, frames, across >>
    /\ KeepDialog

Redo ==
    /\ InEditor /\ ~crop /\ redoStack # << >>
    /\ strokes' = Append(strokes, Head(redoStack))
    /\ redoStack' = Tail(redoStack)
    /\ UNCHANGED << image, past, modified, crop, pen, frames, across >>
    /\ KeepDialog

\* clearAll: what was cleared can be redone.
ClearAll ==
    /\ InEditor /\ ~crop /\ strokes # << >>
    /\ strokes' = << >>
    /\ redoStack' = strokes \o redoStack
    /\ UNCHANGED << image, past, modified, crop, pen, frames, across >>
    /\ KeepDialog

\* handleReset goes back to the original, which is the file once decoded.
Reset ==
    /\ InEditor /\ ~crop /\ (strokes # << >> \/ modified) /\ image # NoImage
    /\ image' = IF decoding THEN committed.frame ELSE 0
    /\ SetStrokes(<< >>)
    /\ past' = << >> /\ modified' = FALSE
    /\ UNCHANGED << crop, pen, frames, across >>
    /\ KeepDialog

-----------------------------------------------------------------------------
(* The dialog *)

\* The editor is unmounted, and its state is gone.
Unmounts ==
    /\ decoding' = FALSE
    /\ image' = NoImage
    /\ strokes' = << >> /\ redoStack' = << >> /\ past' = << >>
    /\ modified' = FALSE /\ crop' = FALSE /\ pen' = NoPen
    /\ UNCHANGED frames

\* The page opens the dialog for a file; the effects of closing have emptied it.
OpenPicture ==
    /\ view = "none"
    /\ view' = "preview"
    /\ large' \in BOOLEAN
    /\ UNCHANGED << decoding, editVars, committed, blobs, preview, sent, late,
                    rewound, across >>

\* The editor is mounted with what was committed, and decodes the file again.
Edit ==
    /\ view = "preview"
    /\ view' = "editor"
    /\ decoding' = TRUE
    /\ image' = committed.frame
    /\ strokes' = committed.strokes
    /\ redoStack' = << >> /\ past' = << >>
    /\ modified' = FALSE /\ crop' = FALSE /\ pen' = NoPen
    /\ UNCHANGED << frames, dialogVars, rewound, across >>

\* The file replaces the working picture and its history, not the strokes.
Decoded ==
    /\ InEditor /\ decoding
    /\ decoding' = FALSE
    /\ rewound' = (rewound \/ image > 0)
    /\ image' = 0
    /\ past' = << >> /\ modified' = FALSE
    /\ UNCHANGED << view, strokes, redoStack, crop, pen, frames, dialogVars,
                    across >>

\* handleEditorDone.  An unedited picture leaves earlier edits as they are.
\* One picture at a time is being composed, which is a bound.
Done ==
    /\ InEditor /\ blobs = {}
    /\ view' = "preview"
    /\ IF strokes # << >> \/ modified
         THEN /\ committed' = Picture
              /\ preview' = Nil
              /\ blobs' = blobs \cup {Picture}
         ELSE UNCHANGED << committed, preview, blobs >>
    /\ Unmounts
    /\ UNCHANGED << large, sent, late, rewound, across >>

\* handleEditorCancel and Escape.
CancelEditing ==
    /\ InEditor
    /\ view' = "preview"
    /\ Unmounts
    /\ UNCHANGED << dialogVars, rewound, across >>

\* toBlob is done: the picture is shown, whatever has been committed since.
BlobArrives(b) ==
    /\ b \in blobs
    /\ blobs' = blobs \ {b}
    /\ preview' = b
    /\ late' = (late \/ b # committed)
    /\ UNCHANGED << view, large, decoding, editVars, committed, sent, rewound,
                    across >>

Forgets_M == committed' = Nil /\ UNCHANGED preview
Forgets == committed' = Nil /\ preview' = Nil

\* handleRevertAllEdits.
Revert ==
    /\ view = "preview" /\ committed # Nil
    /\ Forgets
    /\ UNCHANGED << view, large, decoding, editVars, blobs, sent, late, rewound,
                    across >>

\* handleSend; then the page closes the dialog, as the user may.
SendPicture ==
    /\ view = "preview"
    /\ sent' = << Displayed, Sendable >>
    /\ late' = (late \/ blobs # {})
    /\ view' = "none"
    /\ Forgets
    /\ UNCHANGED << large, decoding, editVars, blobs, rewound, across >>
ClosePicture ==
    /\ view = "preview"
    /\ view' = "none"
    /\ Forgets
    /\ UNCHANGED << large, decoding, editVars, blobs, sent, late, rewound,
                    across >>

-----------------------------------------------------------------------------

EditorInit ==
    /\ view = "none" /\ large = FALSE
    /\ decoding = FALSE
    /\ image = NoImage
    /\ strokes = << >> /\ redoStack = << >> /\ past = << >>
    /\ modified = FALSE /\ crop = FALSE /\ pen = NoPen
    /\ frames = 0
    /\ committed = Nil /\ blobs = {} /\ preview = Nil
    /\ sent = << >>
    /\ late = FALSE /\ rewound = FALSE /\ across = FALSE

\* A bound: a behaviour ends with the first accident or picture sent.
Ended == late \/ rewound \/ across \/ sent # << >>

EditorNext ==
    /\ ~Ended
    /\ \/ PenDown \/ PenUp \/ Rotate \/ ToggleCrop \/ ApplyCrop
       \/ Undo \/ Redo \/ ClearAll \/ Reset
       \/ OpenPicture \/ Edit \/ Decoded \/ Done \/ CancelEditing
       \/ \E b \in blobs : BlobArrives(b)
       \/ Revert \/ SendPicture \/ ClosePicture

EditorSpec == EditorInit /\ [][EditorNext]_editorVars

-----------------------------------------------------------------------------
(* Properties *)

\* Every stroke on the picture, every stroke that can come back by redo, and
\* every one in a snapshot has the coordinates of the picture it is drawn on,
\* but for those that were on a large file when it was downscaled; unless the
\* picture was turned while a stroke was being drawn, or the file was decoded
\* over a transformed picture, as it is whenever one is edited again.
Fits(s, f) == \A i \in DOMAIN s : s[i] = f \/ (large /\ s[i] = Astray)
StrokesFit ==
    ~rewound /\ ~across =>
        /\ InEditor => Fits(strokes, image) /\ Fits(redoStack, image)
        /\ \A i \in DOMAIN past : Fits(past[i].strokes, past[i].frame)
        /\ Fits(committed.strokes, committed.frame)

\* What is sent is the picture the preview showed, unless its blob was late.
SendsWhatIsShown == sent # << >> /\ ~late => sent[1] = sent[2]
=============================================================================
