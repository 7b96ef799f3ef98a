--------------------------- MODULE CaptureGeometry ---------------------------
(***************************************************************************)
(* Which size the camera captures in, and what of a frame is shown:        *)
(* Native_Camera::MatchCaptureSizeRequest, called by SetUpCamera with the  *)
(* size of the window, and Image_Reader::DisplayImage, called for every    *)
(* frame with the locked buffer.                                           *)
(*                                                                         *)
(* Sizes are <<width, height>>.  The ratios the capture sizes are compared *)
(* by are exact fractions; the crop is computed as the code does, in float *)
(* arithmetic that rounds.  A frame has one colour, a sample <<Y, U, V>>:  *)
(* of the colours one pixel is followed.                                   *)
(***************************************************************************)
EXTENDS PixelConversion, Rounding

CONSTANTS
  Screens,    \* sizes a window may have
  Sizes,      \* YUV_420_888 output sizes a camera may offer
  FullHD,     \* 1920 x 1080, in the unit of the sizes
  Bits,       \* a float's significand is in Bits .. 2 * Bits: 2^23 in C++
  MaxEntries, \* bound: how many of them one camera offers
  Samples     \* colours of frames, <<Y, U, V>>

(* A side has fewer pixels than 2^13 and a quarter of Bits; with the float *)
(* of C++ the first is the smaller bound.                                  *)
Side == {n \in 1..8191 : 4 * n < Bits}

ASSUME BitsAssumption    == Bits \in Nat
ASSUME ScreensAssumption == Screens \subseteq Side \X Side
ASSUME SizesAssumption   == Sizes \subseteq Side \X Side
ASSUME FullHDAssumption  == FullHD \in Side \X Side
ASSUME EntriesAssumption == MaxEntries \in Nat
ASSUME SamplesAssumption == Samples \subseteq Byte \X Byte \X Byte

VARIABLES
  phase,    \* "idle", "match" (in the loop), "preview", "drawn"
  screen,   \* size of the native window, which is that of its buffers
  offered,  \* the entries the loop has gone over (history)
  best,     \* bestRes: the entry chosen, <<0, 0>> before the first
  view,     \* m_view, the size asked of the Image_Reader
  roi,      \* the rectangle BlitCenterCropToBuffer cuts out of the frame
  sample,   \* colour of the frame drawn (history)
  pixel     \* the four bytes of a pixel in the display buffer

vars == <<phase, screen, offered, best, view, roi, sample, pixel>>

NoSize == <<0, 0>>
Turned(size) == <<size[2], size[1]>>
NoRect == [x |-> 0, y |-> 0, w |-> 0, h |-> 0]
Blank == <<0, 0, 0, 0>>

TypeOK ==
  /\ phase \in {"idle", "match", "preview", "drawn"}
  /\ screen \in Screens \cup {NoSize}
  /\ offered \in Seq(Sizes) /\ Len(offered) <= MaxEntries
  /\ best \in Sizes \cup {NoSize}
  /\ view \in Sizes \cup {NoSize, FullHD, Turned(FullHD)}
  /\ roi \in [x : Int, y : Int, w : Int, h : Int]
  /\ sample \in Samples \cup {<<>>}
  /\ pixel \in Byte \X Byte \X Byte \X Byte

-----------------------------------------------------------------------------
(* Display_Dimension: width() is the longer side, height() the shorter one. *)
Long(d)  == IF d[2] > d[1] THEN d[2] ELSE d[1]
Short(d) == IF d[2] > d[1] THEN d[1] ELSE d[2]

(* diff = |w/h - targetRatio| of an entry, as a fraction num/den. *)
Diff(s, d) ==
  LET n == s[1] * Short(d) - Long(d) * s[2]
  IN  [num |-> IF n < 0 THEN 0 - n ELSE n, den |-> s[2] * Short(d)]

(* a < b, and |a - b| < 0.01 *)
Less(a, b)  == a.num * b.den < b.num * a.den
Close(a, b) ==
  LET n == a.num * b.den - b.num * a.den
  IN  100 * (IF n < 0 THEN 0 - n ELSE n) < a.den * b.den

(* Mutant: an entry may replace the best one for its width alone. *)
Bug_WidestWins(s, d) ==
  IF best = NoSize THEN Less(Diff(s, d), [num |-> 100, den |-> 1])
  ELSE Less(Diff(s, d), Diff(best, d)) \/ s[1] > Long(best)

(* diff < minDiff || (|diff - minDiff| < 0.01 && w > bestRes.width()); the *)
(* first entry is compared with minDiff = 100.                             *)
Better(s, d) ==
  IF best = NoSize THEN Less(Diff(s, d), [num |-> 100, den |-> 1])
  ELSE \/ Less(Diff(s, d), Diff(best, d))
       \/ /\ Close(Diff(s, d), Diff(best, d))
          /\ s[1] > Long(best)

(* The positive fraction n / d rounded to a float: brought into 1..2 by a  *)
(* power of two, and Bits times that to the nearest integer.               *)
Powers == {1, 2, 4, 8, 16, 32, 64, 128, 256, 512, 1024, 2048, 4096, 8192,
           16384, 32768, 65536, 131072, 262144, 524288, 1048576, 2097152,
           4194304, 8388608, 16777216, 33554432, 67108864}

Rounded(n, d) ==
  LET up   == IF n < d THEN CHOOSE k \in Powers : d <= n * k /\ n * k < 2 * d ELSE 1
      down == IF n < d THEN 1 ELSE CHOOSE k \in Powers : d * k <= n /\ n < 2 * (d * k)
  IN  [num |-> Nearest(n * up * Bits, d * down) * down, den |-> up * Bits]

(* BlitCenterCropToBuffer.  scale is the larger of srcW/dstW and srcH/dstH, *)
(* so dst * scale is the smallest rectangle of the buffer's shape around    *)
(* the image, but for the rounding of the quotient and of the product.  An  *)
(* int conversion and an int division cut towards zero.                     *)
HalfCut(n) == IF n >= 0 THEN n \div 2 ELSE 0 - ((0 - n) \div 2)
Smaller(a, b) == IF a < b THEN a ELSE b
Larger(a, b)  == IF a.num * b.den < b.num * a.den THEN b ELSE a

Scale(src, dst) == Larger(Rounded(src[1], dst[1]), Rounded(src[2], dst[2]))

ScaledCut(n, scale) == LET p == Rounded(n * scale.num, scale.den)
                       IN  p.num \div p.den

CropWidth(src, dst)  == ScaledCut(dst[1], Scale(src, dst))
CropHeight(src, dst) == ScaledCut(dst[2], Scale(src, dst))

(* Mutant: the buffer is assumed to be turned like the image. *)
Bug_CropForTurnedBuffer(src, dst) ==
  LET x == HalfCut(src[1] - CropWidth(src, Turned(dst)))
      y == HalfCut(src[2] - CropHeight(src, Turned(dst)))
  IN  [x |-> x, y |-> y,
       w |-> Smaller(CropWidth(src, Turned(dst)), src[1] - x),
       h |-> Smaller(CropHeight(src, Turned(dst)), src[2] - y)]

CenterCrop(src, dst) ==
  LET x == HalfCut(src[1] - CropWidth(src, dst))
      y == HalfCut(src[2] - CropHeight(src, dst))
  IN  [x |-> x, y |-> y,
       w |-> Smaller(CropWidth(src, dst), src[1] - x),
       h |-> Smaller(CropHeight(src, dst), src[2] - y)]

(* cv::Mat's operator for a region throws unless the region lies in the    *)
(* image.                                                                  *)
Within(rect, src) ==
  /\ rect.x >= 0 /\ rect.w >= 0 /\ rect.x + rect.w <= src[1]
  /\ rect.y >= 0 /\ rect.h >= 0 /\ rect.y + rect.h <= src[2]

-----------------------------------------------------------------------------
Init == /\ phase = "idle"
        /\ screen = NoSize
        /\ offered = <<>>
        /\ best = NoSize
        /\ view = NoSize
        /\ roi = NoRect
        /\ sample = <<>> /\ pixel = Blank

(* setSurface: a window, and a camera whose entries are gone over. *)
Begin == /\ phase = "idle"
         /\ phase' = "match"
         /\ screen' \in Screens
         /\ UNCHANGED <<offered, best, view, roi, sample, pixel>>

(* One turn of the loop over the stream configurations.  An input stream,  *)
(* or an entry of another format, is passed over without a change.         *)
Consider ==
  /\ phase = "match"
  /\ Len(offered) < MaxEntries
  /\ \E s \in Sizes :
       /\ offered' = Append(offered, s)
       /\ best' = IF Better(s, screen) THEN s ELSE best
  /\ UNCHANGED <<phase, screen, view, roi, sample, pixel>>

(* Mutant: without an entry the size of the window is asked for. *)
Bug_NoDefaultSize ==
  /\ phase = "match"
  /\ phase' = "preview"
  /\ view' = IF best # NoSize THEN best ELSE screen
  /\ UNCHANGED <<screen, offered, best, roi, sample, pixel>>

(* After the loop: the best entry, or Full HD in the orientation of the    *)
(* flipped screen.                                                         *)
Choose ==
  /\ phase = "match"
  /\ phase' = "preview"
  /\ view' = IF best # NoSize THEN best
             ELSE IF screen[2] > screen[1] THEN FullHD ELSE Turned(FullHD)
  /\ UNCHANGED <<screen, offered, best, roi, sample, pixel>>

(* A frame: converted, turned by 90 or 270 degrees, so with its sides      *)
(* exchanged, and cropped for a buffer of the size of the window.          *)
DisplayImage ==
  /\ phase = "preview"
  /\ phase' = "drawn"
  /\ sample' \in Samples
  /\ roi' = CenterCrop(Turned(view), screen)
  /\ pixel' = IF Within(roi', Turned(view))
              THEN InMemory(YUV2RGB(sample'[1], sample'[2], sample'[3]))
              ELSE pixel
  /\ UNCHANGED <<screen, offered, best, view>>

(* Tear-down, and the next set-up. *)
Reset == /\ phase = "drawn"
         /\ phase' = "idle"
         /\ screen' = NoSize /\ offered' = <<>> /\ best' = NoSize
         /\ view' = NoSize /\ roi' = NoRect
         /\ sample' = <<>> /\ pixel' = Blank

Next == Begin \/ Consider \/ Choose \/ DisplayImage \/ Reset

Spec == Init /\ [][Next]_vars

-----------------------------------------------------------------------------
(* The image BlitCenterCropToBuffer is given. *)
Source == Turned(view)

(* The loop looks for the ratio closest to the screen's                    *)
(* (Native_Camera.cpp:112), and the tolerance of its comparison adds up:   *)
(* against the i-th entry the choice is off by less than 0.01 for each     *)
(* entry that came after it, and never by more.                            *)
DriftBound ==
  \A i \in 1..Len(offered) :
    LET a == Diff(best, screen)
        b == Diff(offered[i], screen)
    IN  100 * (a.num * b.den - b.num * a.den)
          <= (Len(offered) - i) * a.den * b.den

(* A frame of the shape of the buffer is shown from its first column and   *)
(* row on, and the rounding of the scale and of the product, cut to an     *)
(* int, costs it the last column or row at most (Image_Reader.cpp:196-209).*)
SameShapeShown ==
  phase = "drawn" /\ Source[1] * screen[2] = Source[2] * screen[1]
    => /\ roi.x = 0 /\ roi.y = 0
       /\ roi.w \in {Source[1] - 1, Source[1]}
       /\ roi.h \in {Source[2] - 1, Source[2]}

(* The rectangle that is cut out lies in the frame, as cv::Mat's operator  *)
(* for a region demands: the image is converted to the display buffer      *)
(* (Image_Reader.h:48-50), whatever its shape.                             *)
FrameFits == phase = "drawn" => Within(roi, Source)

(* How far it can be from that shape: with up to one pixel too much in the *)
(* rectangle of the buffer's shape the region lies in the frame, for the   *)
(* division by two cuts it away, and with more than two it never does      *)
(* (Image_Reader.cpp:196-204).  `round` makes room for the rounding where  *)
(* the product of the sides is not below Bits.                             *)
FitsWhenClose ==
  phase = "drawn" =>
    LET wider  == Source[1] * screen[2] - Source[2] * screen[1]
        excess == IF wider >= 0 THEN wider ELSE 0 - wider
        side   == IF wider >= 0 THEN screen[1] ELSE screen[2]
        round  == (IF wider >= 0 THEN Source[1] * screen[2]
                   ELSE Source[2] * screen[1]) \div Bits
    IN  /\ excess <= side => Within(roi, Source)
        /\ excess > 2 * side + round => ~Within(roi, Source)

Shown == Reference(sample[1], sample[2], sample[3])

(* In fixed point, with every intermediate value clamped, a pixel has the  *)
(* colour the standard gives it: read as the word YUV2RGB made, from the   *)
(* byte for red down to the one for blue.                                  *)
ColourNearReference ==
  phase = "drawn" /\ Within(roi, Source) =>
    /\ Near(pixel[3], Shown.red)
    /\ Near(pixel[2], Shown.green)
    /\ Near(pixel[1], Shown.blue)

(* The buffer is in the format SetUpCamera asked for, whose bytes are red, *)
(* green, blue and an unused one: the image "is converted to display       *)
(* buffer format" (Image_Reader.h:48-50).                                  *)
BufferFormat ==
  phase = "drawn" /\ Within(roi, Source) =>
    /\ Near(pixel[1], Shown.red)
    /\ Near(pixel[2], Shown.green)
    /\ Near(pixel[3], Shown.blue)
=============================================================================
