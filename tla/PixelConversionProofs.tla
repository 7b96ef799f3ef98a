------------------------ MODULE PixelConversionProofs ------------------------
(***************************************************************************)
(* Proofs about PixelConversion, for all pixels and sizes.  No fixed-point *)
(* value leaves its byte, and no address its plane.                        *)
(***************************************************************************)
EXTENDS PixelConversion, TLAPS

LEMMA ChannelIsByte ==
  ASSUME NEW n \in Int
  PROVE  Channel(n) \in Byte
<1> DEFINE clamped == IF n < 0 THEN 0
                      ELSE IF n > 262143 THEN 262143 ELSE n
<1>1. clamped \in Int /\ clamped >= 0 /\ clamped <= 262143
  OBVIOUS
<1> HIDE DEF clamped
<1>2. clamped \div 1024 \in Int /\ clamped \div 1024 >= 0 /\ clamped \div 1024 <= 255
  BY <1>1
<1> QED
  BY <1>2 DEF Channel, Byte, kMaxChannelValue, clamped

(* The shifts of YUV2RGB put each channel into a byte of its own: none     *)
(* runs over into the next (Image_Reader.cpp:108-111).                     *)
THEOREM PixelIsFourBytes ==
  ASSUME NEW y \in Byte, NEW u \in Byte, NEW v \in Byte
  PROVE  InMemory(YUV2RGB(y, u, v)) \in Byte \X Byte \X Byte \X Byte
<1> DEFINE l == IF y < 16 THEN 0 ELSE y - 16
<1>1. l \in Int /\ u - 128 \in Int /\ v - 128 \in Int
  BY DEF Byte
<1>2. /\ 1192 * l + 1634 * (v - 128) \in Int
      /\ 1192 * l - 833 * (v - 128) - 400 * (u - 128) \in Int
      /\ 1192 * l + 2066 * (u - 128) \in Int
  BY <1>1
<1>3. /\ Channel(1192 * l + 1634 * (v - 128)) \in Byte
      /\ Channel(1192 * l - 833 * (v - 128) - 400 * (u - 128)) \in Byte
      /\ Channel(1192 * l + 2066 * (u - 128)) \in Byte
      /\ 255 \in Byte
  BY <1>2, ChannelIsByte DEF Byte
<1> HIDE DEF l
<1> QED
  BY <1>3 DEF YUV2RGB, InMemory, l

(* The shift and the clamp of a sum n of the code bring it near the sum m  *)
(* of the standard, in thousandths, which is clipped likewise.             *)
LEMMA ClampsAgree ==
  ASSUME NEW n \in Int, NEW m \in Int,
         1000 * n - 1024 * m <= 128000, 1024 * m - 1000 * n <= 128000
  PROVE  Near(Channel(n), Clipped(m))
<1> DEFINE c == Channel(n)
<1>1. CASE n < 0
  <2>1. c = 0
    BY <1>1 DEF Channel
  <2>2. Clipped(m) \in 0..125
    BY <1>1 DEF Clipped
  <2> QED
    BY <2>1, <2>2 DEF Near
<1>2. CASE n > 262143
  <2>1. c = 255
    BY <1>2 DEF Channel, kMaxChannelValue
  <2>2. Clipped(m) = 255000
    BY <1>2 DEF Clipped
  <2> QED
    BY <2>1, <2>2 DEF Near
<1>3. CASE n >= 0 /\ n <= 262143
  <2>1. c = n \div 1024
    BY <1>3 DEF Channel, kMaxChannelValue
  <2>2. c \in Int /\ 1024 * c <= n /\ n < 1024 * c + 1024
    BY <2>1
  <2> HIDE DEF c
  <2>3. c >= 0 /\ c <= 255
    BY <1>3, <2>2
  <2>4. CASE m < 0
    <3>1. Clipped(m) = 0 /\ c = 0
      BY <1>3, <2>2, <2>3, <2>4 DEF Clipped
    <3> QED
      BY <3>1 DEF Near, c
  <2>5. CASE m > 255000
    BY <1>3, <2>2, <2>3, <2>5 DEF Near, Clipped, c
  <2>6. CASE m >= 0 /\ m <= 255000
    <3>1. Clipped(m) = m
      BY <2>6 DEF Clipped
    <3>2. c * 1000 - m >= -1200 /\ c * 1000 - m <= 1200
      BY <2>2
    <3>3. c * 1000 - m \in -1200..1200
      BY <2>2, <3>2
    <3> QED
      BY <3>1, <3>3 DEF Near, c
  <2> QED
    BY <2>4, <2>5, <2>6
<1> QED
  BY <1>1, <1>2, <1>3

(* Every pixel has the colour BT.601 gives it, with an error below 1.2 in  *)
(* each channel: the fixed point and the clamps of YUV2RGB cost no more    *)
(* than the rounding (Image_Reader.cpp:103-110).                           *)
THEOREM ColourClose ==
  ASSUME NEW y \in Byte, NEW u \in Byte, NEW v \in Byte
  PROVE  /\ Near(YUV2RGB(y, u, v)[2], Reference(y, u, v).red)
         /\ Near(YUV2RGB(y, u, v)[3], Reference(y, u, v).green)
         /\ Near(YUV2RGB(y, u, v)[4], Reference(y, u, v).blue)
<1> DEFINE l == IF y < 16 THEN 0 ELSE y - 16
           luma == IF y < 16 THEN 0 ELSE 1164 * (y - 16)
           cu == u - 128
           cv == v - 128
<1>1. /\ l \in 0..239 /\ luma = 1164 * l
      /\ cu \in -128..127 /\ cv \in -128..127
  BY DEF Byte
<1>2. /\ YUV2RGB(y, u, v)[2] = Channel(1192 * l + 1634 * cv)
      /\ YUV2RGB(y, u, v)[3] = Channel(1192 * l - 833 * cv - 400 * cu)
      /\ YUV2RGB(y, u, v)[4] = Channel(1192 * l + 2066 * cu)
  BY DEF YUV2RGB
<1>3. /\ Reference(y, u, v).red = Clipped(luma + 1596 * cv)
      /\ Reference(y, u, v).green = Clipped(luma - 813 * cv - 391 * cu)
      /\ Reference(y, u, v).blue = Clipped(luma + 2018 * cu)
  BY DEF Reference
<1> HIDE DEF l, luma, cu, cv
<1>4. Near(Channel(1192 * l + 1634 * cv), Clipped(luma + 1596 * cv))
  <2> DEFINE n == 1192 * l + 1634 * cv
             m == luma + 1596 * cv
  <2>1. /\ n \in Int /\ m \in Int
        /\ 1000 * n - 1024 * m <= 128000 /\ 1024 * m - 1000 * n <= 128000
    BY <1>1
  <2> HIDE DEF n, m
  <2>2. Near(Channel(n), Clipped(m))
    BY <2>1, ClampsAgree
  <2> QED
    BY <2>2 DEF n, m
<1>5. Near(Channel(1192 * l - 833 * cv - 400 * cu),
           Clipped(luma - 813 * cv - 391 * cu))
  <2> DEFINE n == 1192 * l - 833 * cv - 400 * cu
             m == luma - 813 * cv - 391 * cu
  <2>1. /\ n \in Int /\ m \in Int
        /\ 1000 * n - 1024 * m <= 128000 /\ 1024 * m - 1000 * n <= 128000
    BY <1>1
  <2> HIDE DEF n, m
  <2>2. Near(Channel(n), Clipped(m))
    BY <2>1, ClampsAgree
  <2> QED
    BY <2>2 DEF n, m
<1>6. Near(Channel(1192 * l + 2066 * cu), Clipped(luma + 2018 * cu))
  <2> DEFINE n == 1192 * l + 2066 * cu
             m == luma + 2018 * cu
  <2>1. /\ n \in Int /\ m \in Int
        /\ 1000 * n - 1024 * m <= 128000 /\ 1024 * m - 1000 * n <= 128000
    BY <1>1
  <2> HIDE DEF n, m
  <2>2. Near(Channel(n), Clipped(m))
    BY <2>1, ClampsAgree
  <2> QED
    BY <2>2 DEF n, m
<1> QED
  BY <1>2, <1>3, <1>4, <1>5, <1>6

-----------------------------------------------------------------------------
LEMMA ProductMonotone ==
  ASSUME NEW a \in Nat, NEW b \in Nat, NEW s \in Nat, a <= b
  PROVE  a * s <= b * s
  OBVIOUS

(* ConvertYUV420ToRGBA reads the chroma of every pixel from within the     *)
(* plane, planar or interleaved (Image_Reader.cpp:177-187).                *)
THEOREM ChromaReadInPlane ==
  ASSUME NEW width \in Nat \ {0}, NEW height \in Nat \ {0},
         width % 2 = 0, height % 2 = 0,
         NEW uvStride \in Nat, NEW uvPixelStride \in Nat,
         NEW x \in 0..(width - 1), NEW y \in 0..(height - 1)
  PROVE  ChromaOffset(x, y, uvStride, uvPixelStride)
           \in 0..(PlaneLength(width, height, uvStride, uvPixelStride) - 1)
<1> DEFINE col == x \div 2
           row == y \div 2
           cols == width \div 2 - 1
           rows == height \div 2 - 1
<1>1. col \in Nat /\ row \in Nat /\ cols \in Nat /\ rows \in Nat
  OBVIOUS
<1>2. col <= cols /\ row <= rows
  OBVIOUS
<1> HIDE DEF col, row, cols, rows
<1>3. col * uvPixelStride <= cols * uvPixelStride /\ row * uvStride <= rows * uvStride
  BY <1>1, <1>2, ProductMonotone
<1>4. /\ uvStride * row = row * uvStride /\ uvStride * rows = rows * uvStride
      /\ row * uvStride \in Nat /\ rows * uvStride \in Nat
      /\ col * uvPixelStride \in Nat /\ cols * uvPixelStride \in Nat
  BY <1>1
<1>5. uvStride * row + col * uvPixelStride
        \in 0..(uvStride * rows + cols * uvPixelStride + 1 - 1)
  BY <1>3, <1>4
<1> QED
  BY <1>5 DEF ChromaOffset, PlaneLength, col, row, cols, rows

-----------------------------------------------------------------------------
(* A thousand times what the integer formulas miss of the formula of the   *)
(* comment (VideoTrackSource.cpp:41-43).                                   *)
LumaError(r, g, b) ==
  1000 * Luma(r, g, b) - (299 * r + 587 * g + 114 * b)
ChromaBlueError(r, g, b) ==
  1000 * ChromaBlue(r, g, b) - (500 * b - 169 * r - 331 * g + 128000)
ChromaRedError(r, g, b) ==
  1000 * ChromaRed(r, g, b) - (500 * r - 419 * g - 81 * b + 128000)

(* The casts to uint8_t in RgbaToI420 lose nothing, and what they are      *)
(* given is the formula of the comment (VideoTrackSource.cpp:41-43) with   *)
(* an error of at most 1.5.                                                *)
THEOREM VideoFormula ==
  ASSUME NEW r \in Byte, NEW g \in Byte, NEW b \in Byte
  PROVE  /\ Luma(r, g, b) \in Byte
         /\ ChromaBlue(r, g, b) \in Byte
         /\ ChromaRed(r, g, b) \in Byte
         /\ LumaError(r, g, b) \in -1500..1500
         /\ ChromaBlueError(r, g, b) \in -1500..1500
         /\ ChromaRedError(r, g, b) \in -1500..1500
<1>1. Luma(r, g, b) \in Byte /\ LumaError(r, g, b) \in -1500..1500
  BY DEF Byte, Luma, LumaError
<1>2. /\ ChromaBlue(r, g, b) \in Byte
      /\ ChromaBlueError(r, g, b) \in -1500..1500
  BY DEF Byte, ChromaBlue, ChromaBlueError
<1>3. /\ ChromaRed(r, g, b) \in Byte
      /\ ChromaRedError(r, g, b) \in -1500..1500
  BY DEF Byte, ChromaRed, ChromaRedError
<1> QED
  BY <1>1, <1>2, <1>3

(* Chroma is written inside a plane of I420Buffer::Create, whose stride is *)
(* at least its width, for odd sizes as well.                              *)
THEOREM VideoChromaInPlane ==
  ASSUME NEW width \in Nat \ {0}, NEW height \in Nat \ {0},
         NEW stride \in Nat, stride >= Half(width),
         NEW x \in 0..(width - 1), NEW y \in 0..(height - 1), WritesChroma(x, y)
  PROVE  ChromaIndex(x, y, stride) \in 0..(stride * Half(height) - 1)
<1> DEFINE col == x \div 2
           row == y \div 2
           rows == Half(height)
<1>1. col \in Nat /\ row \in Nat /\ rows \in Nat
  BY DEF Half
<1>2. col < stride /\ row + 1 <= rows
  BY DEF Half, WritesChroma
<1> HIDE DEF col, row, rows
<1>3. (row + 1) * stride <= rows * stride
  BY <1>1, <1>2, ProductMonotone
<1>4. /\ (row + 1) * stride = row * stride + stride
      /\ rows * stride = stride * rows
      /\ row * stride \in Nat /\ stride * rows \in Nat
  BY <1>1
<1>5. row * stride + col \in 0..(stride * rows - 1)
  BY <1>1, <1>2, <1>3, <1>4
<1> QED
  BY <1>5 DEF ChromaIndex, col, row, rows

(* No chroma of the plane is left unwritten: each of its columns and rows  *)
(* belongs to a pixel that writes it.                                      *)
THEOREM VideoChromaComplete ==
  ASSUME NEW width \in Nat \ {0}, NEW height \in Nat \ {0}, NEW stride \in Nat,
         NEW col \in 0..(Half(width) - 1), NEW row \in 0..(Half(height) - 1)
  PROVE  \E x \in 0..(width - 1), y \in 0..(height - 1) :
           WritesChroma(x, y) /\ ChromaIndex(x, y, stride) = row * stride + col
<1>1. 2 * col \in 0..(width - 1) /\ 2 * row \in 0..(height - 1)
  BY DEF Half
<1>2. WritesChroma(2 * col, 2 * row)
  BY DEF WritesChroma, Half
<1>3. (2 * col) \div 2 = col /\ (2 * row) \div 2 = row
  BY DEF Half
<1>4. ChromaIndex(2 * col, 2 * row, stride) = row * stride + col
  BY <1>3 DEF ChromaIndex
<1> QED
  BY <1>1, <1>2, <1>4
=============================================================================
