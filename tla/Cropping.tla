------------------------------- MODULE Cropping -------------------------------
(***************************************************************************)
(* The geometry of the picture editor: cropRotate.ts, and its callers in   *)
(* ImageEditorCanvas.tsx.  The canvas is turned and cut by one set of      *)
(* formulas, the strokes on it follow by another, and the crop box is      *)
(* dragged at eight handles, free or with a locked aspect ratio.  When     *)
(* this happens, and how it is undone, is in ImageEditor.                  *)
(*                                                                         *)
(* Pixels are integers; a pointer moves by halves of a pixel.  Numbers     *)
(* between pixels are integers in units of 1 / S.  A ratio is a pair.      *)
(***************************************************************************)
EXTENDS Integers, FiniteSets, FiniteSetsExt

CONSTANTS
    FileWidth, FileHeight,  \* of the file, in pixels
    Smallest,               \* MIN_CROP_SIZE, 50 in the code
    Longest,                \* MAX_LONGEST_SIDE, 2048 in the code
    Moves,                  \* how far a pointer moves, in halves of a pixel
    Paths,                  \* strokes of a pointer: where it was, one by one
    MaxChanged              \* bound: pictures made by turning and cropping

ASSUME SizeAssumption ==
    {FileWidth, FileHeight, Smallest, Longest} \subseteq Nat \ {0}
ASSUME MovesAssumption == Moves \subseteq Int /\ MaxChanged \in Nat
ASSUME PathsAssumption ==
    \A path \in Paths : \A k \in DOMAIN path : path[k] \in Int \X Int

VARIABLES
    width, height,  \* imgWidth, imgHeight
    box,            \* cropRect, or NoBox outside of the crop mode
    preset,         \* cropPreset
    stroke,         \* the points of a stroke, or << >>
    detail,         \* where those details of the picture are by now
    between,        \* history: the box was last dragged freely, by a half
    adrift,         \* history: the stroke is on a picture that was downscaled
    made            \* counts the pictures made

cropVars ==
    << width, height, box, preset, stroke, detail, between, adrift, made >>

NoBox == << >>
Presets == {"free", "original", "1:1", "4:3", "16:9"}

\* getPresetRatio; NoRatio stands for none.
NoRatio == << 0, 0 >>
Ratio(p) ==
    CASE p = "free" -> NoRatio
      [] p = "original" -> << FileWidth, FileHeight >>
      [] p = "1:1" -> << 1, 1 >>
      [] p = "4:3" -> << 4, 3 >>
      [] p = "16:9" -> << 16, 9 >>

Least(a, b) == IF a <= b THEN a ELSE b
Most(a, b) == IF a >= b THEN a ELSE b

\* Math.round(v / s): a half goes up.
Rounded(v, s) == (2 * v + s) \div (2 * s)

-----------------------------------------------------------------------------
(* Boxes.  A box is a span on each axis: where it begins and how long.     *)

Sizes == << width, height >>
Smallests == << Least(Smallest, width), Least(Smallest, height) >>
Span(at, len) == [at |-> at, len |-> len]
End(s) == s.at + s.len

\* clampCropRect.
Clamped(b) ==
    [i \in 1 .. 2 |->
        LET len == Most(Smallests[i], Least(b[i].len, Sizes[i]))
        IN  Span(Most(0, Least(b[i].at, Sizes[i] - len)), len)]

\* fitCropRectToAspect, for nine tenths of the picture.
Tenths(v) == Rounded(9 * v, 10)
Centered(w, h) ==
    Clamped(<< Span(Rounded(width - w, 2), w), Span(Rounded(height - h, 2), h) >>)
Fitted(a) ==
    IF a = NoRatio THEN Centered(Tenths(width), Tenths(height))
    ELSE IF width * a[2] > a[1] * height
      THEN Centered(Rounded(Tenths(height) * a[1], a[2]), Tenths(height))
      ELSE Centered(Tenths(width), Rounded(Tenths(width) * a[2], a[1]))

-----------------------------------------------------------------------------
(* resizeCropRect.  A handle says for each axis which end of the box it    *)
(* moves: -1 the near one, 1 the far one, 0 neither; both 0 is "move".     *)

Handle == {-1, 0, 1} \X {-1, 0, 1}

\* The whole box, within the picture.
Moved(b, d) ==
    [i \in 1 .. 2 |->
        Span(Rounded(Most(0, Least(2 * b[i].at + d[i],
                                   2 * (Sizes[i] - b[i].len))), 2),
             b[i].len)]

\* Without a ratio every side goes its own way, and is rounded on its own.
Pulled(b, hd, d) ==
    [i \in 1 .. 2 |->
        LET low == IF hd[i] = -1
                     THEN Most(0, Least(2 * b[i].at + d[i],
                                        2 * (End(b[i]) - Smallests[i])))
                     ELSE 2 * b[i].at
            high == IF hd[i] = 1
                      THEN Least(2 * Sizes[i],
                                 Most(2 * End(b[i]) + d[i],
                                      low + 2 * Smallests[i]))
                      ELSE 2 * End(b[i])
        IN  Span(Rounded(low, 2), Rounded(high - low, 2))]

\* The room a moving end has, and the length the pointer asks for.
Room(b, hd, i) == IF hd[i] = 1 THEN Sizes[i] - b[i].at ELSE End(b[i])
Asked(b, hd, d, i, S) ==
    Most(Smallests[i] * S, b[i].len * S + hd[i] * d[i] * (S \div 2))
Anchored(b, hd, i, len, S) ==
    IF hd[i] = 1 THEN b[i].at * S ELSE End(b[i]) * S - len

\* A corner with a ratio: the pointer's x decides.
Corner(b, hd, d, a, S) ==
    LET w == Min({Asked(b, hd, d, 1, S), Room(b, hd, 1) * S,
                  (Room(b, hd, 2) * S * a[1]) \div a[2]})
        h == (w * a[2]) \div a[1]
    IN  << Span(Anchored(b, hd, 1, w, S), w), Span(Anchored(b, hd, 2, h, S), h) >>

\* An edge on axis i with a ratio: the other axis, o, grows about the middle of
\* the box, and nothing changes if the picture is too small for that.
Edge(b, hd, d, a, i, S) ==
    LET o == 3 - i
        len == Most(Smallests[i] * S,
                    Least(Room(b, hd, i) * S,
                          b[i].len * S + hd[i] * d[i] * (S \div 2)))
        cross == (len * a[o]) \div a[i]
        at == b[o].at * S - (cross - b[o].len * S) \div 2
        limit == Sizes[o] * S - cross
    IN  IF limit < 0
          THEN [k \in 1 .. 2 |-> Span(b[k].at * S, b[k].len * S)]
          ELSE [k \in 1 .. 2 |->
                   IF k = i THEN Span(Anchored(b, hd, i, len, S), len)
                            ELSE Span(Most(0, Least(at, limit)), cross)]

Locked(b, hd, d, a) ==
    LET S == 4 * a[1] * a[2]
        new == IF hd[2] = 0 THEN Edge(b, hd, d, a, 1, S)
               ELSE IF hd[1] = 0 THEN Edge(b, hd, d, a, 2, S)
               ELSE Corner(b, hd, d, a, S)
    IN  Clamped([i \in 1 .. 2 |->
                    Span(Rounded(new[i].at, S), Rounded(new[i].len, S))])

Resized(b, hd, d, a) ==
    IF hd = << 0, 0 >> THEN Moved(b, d)
    ELSE IF a = NoRatio THEN Pulled(b, hd, d)
    ELSE Locked(b, hd, d, a)

-----------------------------------------------------------------------------
(* Points of strokes, and details of the picture on the canvas             *)

\* clientToImageCoords: the point of the picture that is nearest.
Nearest(p) == [i \in 1 .. 2 |-> Most(0, Least(Sizes[i], p[i]))]

\* rotatePoint, for 90 and -90 degrees.
RotatePoint_M(p, angle) ==
    IF angle = 90 THEN << width - p[2], p[1] >> ELSE << p[2], height - p[1] >>
RotatePoint(p, angle) ==
    IF angle = 90 THEN << height - p[2], p[1] >> ELSE << p[2], width - p[1] >>

\* isStrokeInCrop and cropStrokes: a point outside is drawn to the edge.
InCrop(p) == \A i \in 1 .. 2 : box[i].at <= p[i] /\ p[i] <= End(box[i])
CropPoint(p) ==
    [i \in 1 .. 2 |-> Most(0, Least(box[i].len, p[i] - box[i].at))]
CropStroke ==
    IF \E k \in DOMAIN stroke : InCrop(stroke[k])
      THEN [k \in DOMAIN stroke |-> CropPoint(stroke[k])]
      ELSE << >>

\* calculateDownscaledDimensions; its second limit, of pixels, is above the
\* square of the first.
Large(size) == Most(size[1], size[2]) > Longest
Downscaled(size) ==
    IF Large(size)
      THEN [i \in 1 .. 2 |->
               Most(1, Rounded(size[i] * Longest, Most(size[1], size[2])))]
      ELSE size
Scaled(v, from, to) == IF to = from THEN v ELSE Rounded(v * to, from)

\* createRotatedCanvas moves the origin to an edge and turns the axes;
\* createCroppedCanvas draws the part of the picture at the origin.  Both fit
\* the picture into the canvas, which is downscaled if it would be too large.
Turned == << height, width >>
TurnOnCanvas(p, angle) ==
    LET new == Downscaled(Turned)
        across == Scaled(p[2], height, new[1])
        down == Scaled(p[1], width, new[2])
    IN  IF angle = 90 THEN << new[1] - across, down >>
                      ELSE << across, new[2] - down >>
Cut == << box[1].len, box[2].len >>
CutOnCanvas(p) ==
    [i \in 1 .. 2 |-> Scaled(p[i] - box[i].at, box[i].len, Downscaled(Cut)[i])]

-----------------------------------------------------------------------------

\* A pointer draws inside the picture, wherever it is.
DrawStroke(path) ==
    /\ box = NoBox /\ stroke = << >>
    /\ stroke' = [k \in DOMAIN path |-> Nearest(path[k])]
    /\ detail' = stroke'
    /\ adrift' = FALSE
    /\ UNCHANGED << width, height, box, preset, between, made >>

\* The new picture has the size of its canvas; handleRotate and applyCrop move
\* the strokes as if it were not downscaled.
NewPicture(size) ==
    /\ made < MaxChanged
    /\ made' = made + 1
    /\ width' = Downscaled(size)[1] /\ height' = Downscaled(size)[2]
    /\ adrift' = (stroke' # << >> /\ (adrift \/ Large(size)))

\* handleRotate.
RotatePicture(angle) ==
    /\ box = NoBox
    /\ stroke' = [k \in DOMAIN stroke |-> RotatePoint(stroke[k], angle)]
    /\ detail' = [k \in DOMAIN detail |-> TurnOnCanvas(detail[k], angle)]
    /\ NewPicture(Turned)
    /\ UNCHANGED << box, preset, between >>

EnterCrop ==
    /\ box = NoBox
    /\ box' = Fitted(Ratio(preset))
    /\ between' = FALSE
    /\ UNCHANGED << width, height, preset, stroke, detail, adrift, made >>

\* handleSelectPreset.
SelectPreset(p) ==
    /\ box # NoBox
    /\ preset' = p
    /\ box' = IF p = "free" THEN box ELSE Fitted(Ratio(p))
    /\ between' = (p = "free" /\ between)
    /\ UNCHANGED << width, height, stroke, detail, adrift, made >>

\* Every move of the pointer is reckoned from the box at its start.
DragHandle(hd, d) ==
    /\ box # NoBox
    /\ box' = Resized(box, hd, d, Ratio(preset))
    /\ between' = IF preset # "free" /\ hd # << 0, 0 >> THEN FALSE
                  ELSE between \/ \E i \in 1 .. 2 : d[i] % 2 = 1
    /\ UNCHANGED << width, height, preset, stroke, detail, adrift, made >>

ApplyBox ==
    /\ box # NoBox
    /\ stroke' = CropStroke
    /\ detail' = IF stroke' = << >> THEN << >>
                 ELSE [k \in DOMAIN detail |-> CutOnCanvas(detail[k])]
    /\ NewPicture(Cut)
    /\ box' = NoBox
    /\ UNCHANGED << preset, between >>
CancelCrop ==
    /\ box # NoBox
    /\ box' = NoBox
    /\ UNCHANGED << width, height, preset, stroke, detail, between, adrift,
                    made >>

-----------------------------------------------------------------------------

Inside(b) == \A i \in 1 .. 2 : /\ b[i].at >= 0 /\ End(b[i]) <= Sizes[i]
                               /\ b[i].len >= Smallests[i]

CropInit ==
    /\ width = FileWidth /\ height = FileHeight
    /\ box = NoBox /\ preset = "free"
    /\ stroke = << >> /\ detail = << >>
    /\ between = FALSE /\ adrift = FALSE
    /\ made = 0

\* A bound: a behaviour ends when the box has passed the edge.
CropNext ==
    /\ box # NoBox => Inside(box)
    /\ \/ \E path \in Paths : DrawStroke(path)
       \/ \E angle \in {90, -90} : RotatePicture(angle)
       \/ EnterCrop \/ ApplyBox \/ CancelCrop
       \/ \E p \in Presets : SelectPreset(p)
       \/ \E hd \in Handle, dx \in Moves, dy \in Moves :
             DragHandle(hd, << dx, dy >>)

CropSpec == CropInit /\ [][CropNext]_cropVars

-----------------------------------------------------------------------------
(* Property *)

\* However the picture is turned and cut, every point of a stroke stays on the
\* detail it was drawn on, or at the edge nearest to it, unless the picture was
\* too large and downscaled under the stroke; and the crop box, "clamped within
\* bounds" by resizeCropRect, lies in the picture and is not too small, unless
\* a free drag has left it between two pixels.
StrokesStay ==
    /\ ~adrift => \A k \in DOMAIN stroke : stroke[k] = Nearest(detail[k])
    /\ box # NoBox /\ ~between => Inside(box)
=============================================================================
