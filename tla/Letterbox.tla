------------------------------ MODULE Letterbox ------------------------------
(***************************************************************************)
(* VideoDecoder: how a decoded picture of any size is placed on the canvas *)
(* of the virtual camera, which never changes its size.                    *)
(*                                                                         *)
(* Of the pixels only what can go wrong is kept: where the picture lies,   *)
(* for which source the scaler was made, and which column of the picture   *)
(* each column of a row shows after the mirroring.                         *)
(***************************************************************************)
EXTENDS Integers

CONSTANTS
    TargetW, TargetH,  \* m_targetWidth, m_targetHeight
    Widths, Heights,   \* sizes of the pictures that are decoded
    Formats            \* their pixel formats

ASSUME LetterboxAssumption ==
    /\ TargetW \in Nat /\ TargetH \in Nat /\ TargetW >= 2 /\ TargetH >= 2
    /\ Widths \subseteq Nat /\ Heights \subseteq Nat

VARIABLES
    src,     \* m_srcWidth, m_srcHeight, m_lastFormat
    pic,     \* m_scaledWidth, m_scaledHeight, m_offsetX, m_offsetY
    scaler,  \* the source m_sws was made for, NoSource when it is null
    flip,    \* m_flipHorizontal
    row      \* the last picture sent: column of the picture each column shows

vars == <<src, pic, scaler, flip, row>>

NoSource == [w |-> 0, h |-> 0, format |-> "none"]

-----------------------------------------------------------------------------
(* Placing a picture                                                       *)

\* n & ~1
Even(n) == n - (n % 2)

\* static_cast<int> of the quotient a / b of doubles: an exact quotient may
\* come out a little too small.
Truncated(a, b) ==
    {a \div b} \cup (IF a % b = 0 /\ a > 0 THEN {a \div b - 1} ELSE {})

UnclampedSide(r) == Even(r)   \* mutant: a side may become 0

\* A side that was scaled is even, and 2 at least.
Side(r) == IF Even(r) < 2 THEN 2 ELSE Even(r)

OffsetUnhalved(target, side) == Even(target - side)   \* mutant: "/ 2" missing

\* The margin before a side, half of what is left, on an even pixel.
Offset(target, side) == Even((target - side) \div 2)

\* srcAspect > targetAspect
Wider(w, h) == w * TargetH > TargetW * h

Wide(r) == [w |-> TargetW, h |-> Side(r), x |-> 0, y |-> Offset(TargetH, Side(r))]
Tall(r) == [w |-> Side(r), h |-> TargetH, x |-> Offset(TargetW, Side(r)), y |-> 0]

\* Where a picture of w x h is put: bars above and below one that is wider
\* than the canvas, bars at the sides of any other.
Placed(w, h) ==
    IF Wider(w, h) THEN {Wide(r) : r \in Truncated(TargetW * h, w)}
                   ELSE {Tall(r) : r \in Truncated(TargetH * w, h)}

-----------------------------------------------------------------------------
(* Mirroring a row                                                         *)

Swap(f, i, j) == [f EXCEPT ![i] = f[j], ![j] = f[i]]

\* The row after n swaps of the loop.
Swapped(n, w) ==
    LET after[k \in 0..n] == IF k = 0 THEN [i \in 0..(w - 1) |-> i]
                             ELSE Swap(after[k - 1], k - 1, w - k)
    IN  after[n]

MirrorTwice(w) == Swapped(w, w)   \* mutant: the loop runs over the whole row

\* The loop swaps the pixels of the first half of a row with those of the other.
Mirror(w) == Swapped(w \div 2, w)

Row(w) == IF flip THEN Mirror(w) ELSE [i \in 0..(w - 1) |-> i]

-----------------------------------------------------------------------------
(* decode and convertToRgb                                                 *)

ResizeKeepingScaler(s) ==   \* mutant: the scaler is made once
    IF s.w > 0 /\ s.h > 0
    THEN /\ pic' \in Placed(s.w, s.h)
         /\ scaler' = IF scaler = NoSource THEN s ELSE scaler
    ELSE UNCHANGED <<pic, scaler>>

\* A picture of another size or format is placed anew, and gets a new scaler,
\* or none if sws_getContext cannot make one.
Resize(s) ==
    IF s.w > 0 /\ s.h > 0
    THEN pic' \in Placed(s.w, s.h) /\ scaler' \in {s, NoSource}
    ELSE UNCHANGED <<pic, scaler>>

\* A frame comes out of the decoder: it is scaled onto the canvas, mirrored
\* and sent, unless there is no scaler or its size is not positive.
Frame(s) ==
    /\ IF s # src THEN Resize(s) ELSE UNCHANGED <<pic, scaler>>
    /\ src' = s
    /\ row' = IF scaler' # NoSource /\ s.w > 0 /\ s.h > 0 THEN Row(pic'.w) ELSE row
    /\ UNCHANGED flip

SetFlipHorizontal ==
    /\ flip' = ~flip
    /\ UNCHANGED <<src, pic, scaler, row>>

Init ==
    /\ src = NoSource /\ scaler = NoSource
    /\ pic = [w |-> 0, h |-> 0, x |-> 0, y |-> 0]
    /\ flip \in BOOLEAN /\ row = [i \in {} |-> i]

Sources == [w : Widths, h : Heights, format : Formats]

Next == SetFlipHorizontal \/ \E s \in Sources : Frame(s)

Spec == Init /\ [][Next]_vars

-----------------------------------------------------------------------------
\* The picture lies within the canvas, so that no row of it is written beyond
\* the buffer or into the next row, and once there is one it is not empty.
PictureFits ==
    /\ pic \in [w : 0..TargetW, h : 0..TargetH, x : Nat, y : Nat]
    /\ pic.x + pic.w <= TargetW /\ pic.y + pic.h <= TargetH
    /\ scaler # NoSource => pic.w > 0 /\ pic.h > 0

\* It fills the canvas in one direction, lies in its middle in the other to
\* within 3 pixels, and keeps its proportions but for the rounding.
Middle(target, side, offset) ==
    LET after == target - side - offset IN after - offset \in 0..3

PictureCentred ==
    scaler # NoSource =>
        /\ Middle(TargetW, pic.w, pic.x) /\ Middle(TargetH, pic.h, pic.y)
        /\ \/ /\ pic.w = TargetW
              /\ \/ pic.h = 2
                 \/ TargetW * scaler.h - pic.h * scaler.w \in 0..(2 * scaler.w)
           \/ /\ pic.h = TargetH
              /\ \/ pic.w = 2
                 \/ TargetH * scaler.w - pic.w * scaler.h \in 0..(2 * scaler.h)

\* The scaler that converts a frame was made for its size and format: one of an
\* earlier source is gone even where no new one could be made.
ScalerCurrent == src.w > 0 /\ src.h > 0 => scaler \in {src, NoSource}

\* A frame that is mirrored shows each row from right to left.
MirrorReverses ==
    [][row' # row =>
         row' = [i \in 0..(pic'.w - 1) |-> IF flip THEN pic'.w - 1 - i ELSE i]]_vars
=============================================================================
