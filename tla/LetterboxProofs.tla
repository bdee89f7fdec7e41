--------------------------- MODULE LetterboxProofs ---------------------------
(***************************************************************************)
(* For every canvas and every size of picture: the picture lies within the *)
(* canvas and in its middle, is converted by a scaler made for it, and is  *)
(* mirrored as a whole.                                                    *)
(***************************************************************************)
EXTENDS Letterbox, WellFoundedInduction, TLAPS

-----------------------------------------------------------------------------
(* Arithmetic                                                              *)

\* What % and \div return for a divisor that is not 0.
LEMMA Division ==
    ASSUME NEW a \in Nat, NEW b \in Nat \ {0}
    PROVE  /\ a \div b \in Nat /\ a % b \in 0..(b - 1)
           /\ a = b * (a \div b) + (a % b)
  BY Z3

\* n & ~1 is n or n - 1.
LEMMA EvenBounds ==
    ASSUME NEW n \in Nat
    PROVE  Even(n) \in {n, n - 1} /\ Even(n) \in Nat
  BY Z3 DEF Even

\* A quotient of doubles that is cut off falls short of the exact one by less
\* than 1, or by 1 when that is a whole number.
LEMMA TruncatedBounds ==
    ASSUME NEW a \in Nat, NEW b \in Nat \ {0}, NEW r \in Truncated(a, b)
    PROVE  r \in Nat /\ a - b * r \in 0..b
<1> DEFINE q == a \div b
           m == a % b
<1>1. q \in Nat /\ m \in 0..(b - 1) /\ a = b * q + m
  BY Division
<1>2. CASE r = q
  BY <1>1, <1>2
<1>3. CASE m = 0 /\ a > 0 /\ r = q - 1
  <2>1. q > 0
    <3>1. q # 0
      BY <1>1, <1>3, Z3
    <3> QED BY <1>1, <3>1
  <2>2. b * r = b * q - b
    BY <1>1, <1>3, <2>1, Z3
  <2> QED BY <1>1, <1>3, <2>1, <2>2
<1> QED BY <1>2, <1>3 DEF Truncated

\* A common factor can be taken away.
LEMMA Cancel ==
    ASSUME NEW k \in Nat \ {0}, NEW m \in Nat, NEW n \in Nat
    PROVE  /\ k * m < k * n => m < n
           /\ k * m <= k * n => m <= n
<1>1. m >= n => k * m >= k * n
  BY Z3
<1>2. m > n => k * m > k * n
  BY Z3
<1>3. k * m \in Nat /\ k * n \in Nat
  BY Z3
<1> QED BY <1>1, <1>2, <1>3

-----------------------------------------------------------------------------
(* Placing a picture                                                       *)

\* A side that was scaled is 2 at least, and otherwise loses at most 1.
LEMMA SideBounds ==
    ASSUME NEW r \in Nat
    PROVE  /\ Side(r) \in Nat /\ Side(r) >= 2
           /\ Side(r) = 2 \/ Side(r) \in {r, r - 1}
  BY EvenBounds DEF Side

\* A margin and the side after it fit, and both margins are almost the same.
LEMMA OffsetBounds ==
    ASSUME NEW t \in Nat, NEW n \in 0..t
    PROVE  /\ Offset(t, n) \in Nat /\ Offset(t, n) + n <= t
           /\ Middle(t, n, Offset(t, n))
<1> DEFINE d == t - n
           q == d \div 2
<1>1. d \in Nat /\ q \in Nat /\ (d = 2 * q \/ d = 2 * q + 1)
  BY Division, Z3
<1>2. Even(q) \in {q, q - 1} /\ Even(q) \in Nat
  BY <1>1, EvenBounds
<1>3. Offset(t, n) = Even(q)
  BY DEF Offset
<1> HIDE DEF q
<1> QED BY <1>1, <1>2, <1>3 DEF Middle

Fits(p) ==
    /\ p \in [w : 0..TargetW, h : 0..TargetH, x : Nat, y : Nat]
    /\ p.x + p.w <= TargetW /\ p.y + p.h <= TargetH
    /\ p.w > 0 /\ p.h > 0

Centred(p, w, h) ==
    /\ Middle(TargetW, p.w, p.x) /\ Middle(TargetH, p.h, p.y)
    /\ \/ /\ p.w = TargetW
          /\ p.h = 2 \/ TargetW * h - p.h * w \in 0..(2 * w)
       \/ /\ p.h = TargetH
          /\ p.w = 2 \/ TargetH * w - p.w * h \in 0..(2 * h)

\* A side r cut off from a / b keeps the proportions to within 2 pixels.
LEMMA Proportion ==
    ASSUME NEW a \in Nat, NEW b \in Nat \ {0}, NEW r \in Truncated(a, b)
    PROVE  Side(r) = 2 \/ a - Side(r) * b \in 0..(2 * b)
<1>1. r \in Nat /\ a - b * r \in 0..b
  BY TruncatedBounds
<1>2. Side(r) \in Nat /\ (Side(r) = 2 \/ Side(r) \in {r, r - 1})
  BY <1>1, SideBounds
<1>3. CASE Side(r) = r
  <2>1. r * b = b * r
    BY <1>1, Z3
  <2> QED BY <1>1, <1>3, <2>1
<1>4. CASE Side(r) = r - 1
  <2>1. (r - 1) * b = b * r - b
    BY <1>1, Z3
  <2>2. b * r \in Nat
    BY <1>1, Z3
  <2> QED BY <1>1, <1>4, <2>1, <2>2
<1> QED BY <1>2, <1>3, <1>4

\* Wherever a picture is placed it fits and is centred.
LEMMA PlacedWell ==
    ASSUME NEW w \in Nat \ {0}, NEW h \in Nat \ {0}, NEW p \in Placed(w, h)
    PROVE  Fits(p) /\ Centred(p, w, h)
<1>0. TargetW \in Nat /\ TargetH \in Nat /\ TargetW >= 2 /\ TargetH >= 2
  BY LetterboxAssumption
<1>1. /\ w * TargetH \in Nat /\ TargetW * h \in Nat /\ TargetH * w \in Nat
      /\ w * TargetH = TargetH * w /\ TargetW * h = h * TargetW
  BY <1>0, Z3
<1>2. CASE Wider(w, h)
  <2>1. PICK r \in Truncated(TargetW * h, w) : p = Wide(r)
    BY <1>2 DEF Placed
  <2>2. r \in Nat /\ TargetW * h - w * r \in 0..w
    BY <1>1, <2>1, TruncatedBounds
  <2>3. w * r \in Nat
    BY <2>2, Z3
  <2>4. w * r < w * TargetH
    BY <1>1, <1>2, <2>2, <2>3 DEF Wider
  <2>5. r < TargetH
    BY <1>0, <2>2, <2>4, Cancel
  <2>6. Side(r) \in 2..TargetH
    BY <1>0, <2>2, <2>5, SideBounds
  <2>7. /\ Offset(TargetH, Side(r)) \in Nat
        /\ Offset(TargetH, Side(r)) + Side(r) <= TargetH
        /\ Middle(TargetH, Side(r), Offset(TargetH, Side(r)))
    BY <1>0, <2>6, OffsetBounds
  <2>8. Side(r) = 2 \/ TargetW * h - Side(r) * w \in 0..(2 * w)
    BY <1>1, <2>1, Proportion
  <2>9. Middle(TargetW, TargetW, 0)
    BY <1>0 DEF Middle
  <2> QED BY <1>0, <2>1, <2>6, <2>7, <2>8, <2>9 DEF Wide, Fits, Centred
<1>3. CASE ~Wider(w, h)
  <2>1. PICK r \in Truncated(TargetH * w, h) : p = Tall(r)
    BY <1>3 DEF Placed
  <2>2. r \in Nat /\ TargetH * w - h * r \in 0..h
    BY <1>1, <2>1, TruncatedBounds
  <2>3. h * r \in Nat
    BY <2>2, Z3
  <2>4. h * r <= h * TargetW
    BY <1>1, <1>3, <2>2, <2>3 DEF Wider
  <2>5. r <= TargetW
    BY <1>0, <2>2, <2>4, Cancel
  <2>6. Side(r) \in 2..TargetW
    BY <1>0, <2>2, <2>5, SideBounds
  <2>7. /\ Offset(TargetW, Side(r)) \in Nat
        /\ Offset(TargetW, Side(r)) + Side(r) <= TargetW
        /\ Middle(TargetW, Side(r), Offset(TargetW, Side(r)))
    BY <1>0, <2>6, OffsetBounds
  <2>8. Side(r) = 2 \/ TargetH * w - Side(r) * h \in 0..(2 * h)
    BY <1>1, <2>1, Proportion
  <2>9. Middle(TargetH, TargetH, 0)
    BY <1>0 DEF Middle
  <2> QED BY <1>0, <2>1, <2>6, <2>7, <2>8, <2>9 DEF Tall, Fits, Centred
<1> QED BY <1>2, <1>3

-----------------------------------------------------------------------------
(* The decoder                                                             *)

\* There is no picture yet, or one that fits; if there is a scaler, it is for a
\* source that was seen, and the picture was placed for that.
Inv ==
    /\ src \in Sources \cup {NoSource} /\ ScalerCurrent
    /\ \/ scaler = NoSource /\ pic = [w |-> 0, h |-> 0, x |-> 0, y |-> 0]
       \/ scaler = NoSource /\ Fits(pic)
       \/ /\ scaler \in Sources /\ scaler.w > 0 /\ scaler.h > 0
          /\ Fits(pic) /\ Centred(pic, scaler.w, scaler.h)

LEMMA InvInitially == Init => Inv
  BY DEF Init, Inv, ScalerCurrent, NoSource

LEMMA InvPreserved == Inv /\ [Next]_vars => Inv'
<1> SUFFICES ASSUME Inv, [Next]_vars PROVE Inv'
  OBVIOUS
<1>1. ASSUME NEW s \in Sources, Frame(s) PROVE Inv'
  <2>1. s.w \in Nat /\ s.h \in Nat /\ src' = s
    BY <1>1, LetterboxAssumption DEF Sources, Frame
  <2>2. CASE s # src /\ s.w > 0 /\ s.h > 0
    <3>1. pic' \in Placed(s.w, s.h) /\ scaler' \in {s, NoSource}
      BY <1>1, <2>2 DEF Frame, Resize
    <3>2. Fits(pic') /\ Centred(pic', s.w, s.h)
      BY <2>1, <2>2, <3>1, PlacedWell
    <3> QED BY <2>1, <2>2, <3>1, <3>2 DEF Inv, ScalerCurrent
  <2>3. CASE ~(s # src /\ s.w > 0 /\ s.h > 0)
    <3>1. UNCHANGED <<pic, scaler>> /\ (s = src \/ ~(s.w > 0 /\ s.h > 0))
      BY <1>1, <2>3 DEF Frame, Resize
    <3> QED BY <2>1, <3>1 DEF Inv, ScalerCurrent
  <2> QED BY <2>2, <2>3
<1>2. CASE SetFlipHorizontal
  BY <1>2 DEF SetFlipHorizontal, Inv, ScalerCurrent
<1>3. CASE UNCHANGED vars
  BY <1>3 DEF vars, Inv, ScalerCurrent
<1> QED BY <1>1, <1>2, <1>3 DEF Next

LEMMA Invariant == Spec => []Inv
  BY InvInitially, InvPreserved, PTL DEF Spec

\* The picture that decode() places never leaves the canvas.
THEOREM AlwaysFits == Spec => []PictureFits
<1>1. Inv => PictureFits
  <2> SUFFICES ASSUME Inv PROVE PictureFits
    OBVIOUS
  <2>1. CASE scaler = NoSource /\ pic = [w |-> 0, h |-> 0, x |-> 0, y |-> 0]
    BY <2>1, LetterboxAssumption DEF PictureFits
  <2>2. CASE Fits(pic)
    BY <2>2, LetterboxAssumption DEF PictureFits, Fits
  <2> QED BY <2>1, <2>2 DEF Inv
<1> QED BY <1>1, Invariant, PTL

\* It lies in the middle, touches two edges and keeps its proportions.
THEOREM AlwaysCentred == Spec => []PictureCentred
<1>1. Inv => PictureCentred
  BY DEF Inv, PictureCentred, Centred
<1> QED BY <1>1, Invariant, PTL

\* A frame is never converted by the scaler of an earlier size or format.
THEOREM AlwaysCurrent == Spec => []ScalerCurrent
<1>1. Inv => ScalerCurrent
  BY DEF Inv
<1> QED BY <1>1, Invariant, PTL

-----------------------------------------------------------------------------
(* Mirroring.  Swapped is a recursive function: that it exists is shown by   *)
(* its closed form, and that it is the only one by looking at the least      *)
(* number of swaps after which another would differ.                         *)

\* A nonempty set of natural numbers has a least element.
LEMMA Least ==
    ASSUME NEW T \in SUBSET Nat, T # {}
    PROVE  \E m \in T : \A n \in T : m <= n
<1> DEFINE R == OpToRel(<, Nat)
<1>1. IsWellFoundedOn(R, Nat)
  BY NatLessThanWellFounded
<1>2. \A m, n \in T : n < m => <<n, m>> \in R
  BY DEF OpToRel
<1> HIDE DEF R
<1>3. PICK m \in T : \A n \in T : <<n, m>> \notin R
  BY <1>1, WFMin
<1>4. \A n \in T : ~(n < m)
  BY <1>2, <1>3
<1> QED BY <1>4

\* The row of w pixels whose first and last k have changed places.
Outer(w, k) ==
    [i \in 0..(w - 1) |-> IF i < k \/ i >= w - k THEN w - 1 - i ELSE i]

LEMMA SwapOuter ==
    ASSUME NEW w \in Nat, NEW k \in Nat \ {0}, 2 * k <= w
    PROVE  Swap(Outer(w, k - 1), k - 1, w - k) = Outer(w, k)
<1> DEFINE f == Outer(w, k - 1)
           g == Swap(f, k - 1, w - k)
<1>1. /\ k - 1 \in 0..(w - 1) /\ w - k \in 0..(w - 1) /\ k - 1 # w - k
      /\ f[k - 1] = k - 1 /\ f[w - k] = w - k
  BY DEF Outer
<1>2. g = [i \in 0..(w - 1) |-> IF i = w - k THEN k - 1
                               ELSE IF i = k - 1 THEN w - k ELSE f[i]]
  BY <1>1 DEF Swap, Outer
<1>3. \A i \in 0..(w - 1) : g[i] = Outer(w, k)[i]
  BY <1>1, <1>2 DEF Outer
<1> QED BY <1>2, <1>3 DEF Outer

\* What the loop has done after its first n swaps.
LEMMA SwappedIsOuter ==
    ASSUME NEW w \in Nat, NEW n \in Nat, 2 * n <= w
    PROVE  Swapped(n, w) = Outer(w, n)
<1> DEFINE Step(g) == [k \in 0..n |-> IF k = 0 THEN [i \in 0..(w - 1) |-> i]
                                     ELSE Swap(g[k - 1], k - 1, w - k)]
           after == CHOOSE g : g = Step(g)
           closed == [k \in 0..n |-> Outer(w, k)]
<1>1. Swapped(n, w) = after[n]
  BY DEF Swapped
<1>2. Outer(w, 0) = [i \in 0..(w - 1) |-> i]
  BY DEF Outer
<1>3. \A k \in 0..n : k # 0 => /\ k \in Nat \ {0} /\ 2 * k <= w /\ k - 1 \in 0..n
                               /\ Swap(Outer(w, k - 1), k - 1, w - k) = Outer(w, k)
  BY SwapOuter
<1>4. closed = Step(closed)
  BY <1>2, <1>3
<1>5. after = Step(after)
  BY <1>4
<1> HIDE DEF after
<1> DEFINE T == {k \in 0..n : after[k] # Outer(w, k)}
<1>6. T = {}
  <2> SUFFICES ASSUME T # {} PROVE FALSE
    OBVIOUS
  <2>1. PICK m \in T : \A k \in T : m <= k
    <3>1. T \in SUBSET Nat /\ T # {}
      OBVIOUS
    <3> HIDE DEF T
    <3> QED BY <3>1, Least
  <2>2. m \in 0..n /\ after[m] # Outer(w, m)
    OBVIOUS
  <2>3. after[m] = IF m = 0 THEN [i \in 0..(w - 1) |-> i]
                   ELSE Swap(after[m - 1], m - 1, w - m)
    BY <1>5, <2>2
  <2>4. m # 0 => after[m - 1] = Outer(w, m - 1)
    BY <1>3, <2>1, <2>2
  <2> QED BY <1>2, <1>3, <2>2, <2>3, <2>4
<1> QED BY <1>1, <1>6

\* The loop of half the row turns it round, a pixel in the middle included.
LEMMA MirrorTurns ==
    ASSUME NEW w \in Nat
    PROVE  Mirror(w) = [i \in 0..(w - 1) |-> w - 1 - i]
<1> DEFINE k == w \div 2
<1>1. k \in Nat /\ w - 2 * k \in {0, 1}
  BY Z3
<1>2. Mirror(w) = Outer(w, k)
  BY <1>1, SwappedIsOuter DEF Mirror
<1> HIDE DEF k
<1>3. \A i \in 0..(w - 1) : ~(i < k \/ i >= w - k) => w - 1 - i = i
  BY <1>1
<1> QED BY <1>2, <1>3 DEF Outer

\* A frame is shown as it is, or each of its rows from right to left, whatever
\* the width of the picture: the loop of convertToRgb() swaps each pair once.
THEOREM AlwaysMirrors == Spec => MirrorReverses
<1>1. ASSUME Inv, Inv', [Next]_vars, row' # row
      PROVE  row' = [i \in 0..(pic'.w - 1) |-> IF flip THEN pic'.w - 1 - i ELSE i]
  <2>1. PICK s \in Sources : Frame(s)
    BY <1>1 DEF Next, SetFlipHorizontal, vars
  <2>2. row' = Row(pic'.w)
    BY <1>1, <2>1 DEF Frame
  <2>3. pic'.w \in Nat
    BY <1>1, LetterboxAssumption DEF Inv, Fits
  <2> QED BY <2>2, <2>3, MirrorTurns DEF Row
<1>2. Inv /\ Inv' /\ [Next]_vars =>
         [row' # row =>
            row' = [i \in 0..(pic'.w - 1) |-> IF flip THEN pic'.w - 1 - i ELSE i]]_vars
  BY <1>1
<1> QED BY <1>2, Invariant, PTL DEF Spec, MirrorReverses
=============================================================================
