--------------------------- MODULE PixelConversion ---------------------------
(***************************************************************************)
(* What happens to one pixel: YUV2RGB and the addressing of                *)
(* ConvertYUV420ToRGBA (Image_Reader.cpp), for the preview; and            *)
(* VideoTrackSource::RgbaToI420, for a video track.                        *)
(*                                                                         *)
(* A byte is 0..255, a 32-bit word the sequence of its four bytes from the *)
(* highest to the lowest.  `>> n` on an int is \div 2^n: both round        *)
(* towards minus infinity.                                                 *)
(***************************************************************************)
EXTENDS Integers, Sequences

Byte == 0..255

-----------------------------------------------------------------------------
(* The preview.                                                            *)

kMaxChannelValue == 262143

(* MIN(kMaxChannelValue, MAX(0, n)) >> 10 *)
Channel(n) == (IF n < 0 THEN 0
               ELSE IF n > kMaxChannelValue THEN kMaxChannelValue
               ELSE n) \div 1024

(* Mutant: a luma below 16 is not taken for black. *)
Bug_FootroomKept(nY, nU, nV) ==
  LET y == nY - 16
      u == nU - 128
      v == nV - 128
  IN  << 255, Channel(1192 * y + 1634 * v),
              Channel(1192 * y - 833 * v - 400 * u),
              Channel(1192 * y + 2066 * u) >>

(* 0xff000000 | R << 16 | G << 8 | B *)
YUV2RGB(nY, nU, nV) ==
  LET y == IF nY < 16 THEN 0 ELSE nY - 16
      u == nU - 128
      v == nV - 128
  IN  << 255, Channel(1192 * y + 1634 * v),
              Channel(1192 * y - 833 * v - 400 * u),
              Channel(1192 * y + 2066 * u) >>

(* A uint32_t in the memory of the display buffer: Android is little-      *)
(* endian, so the lowest byte of the word comes first.                     *)
InMemory(word) == <<word[4], word[3], word[2], word[1]>>

(* Where the chroma of pixel (x, y) is read in its plane. *)
ChromaOffset(x, y, uvStride, uvPixelStride) ==
  uvStride * (y \div 2) + (x \div 2) * uvPixelStride

(* Bytes of a chroma plane of AImage_getPlaneData, for an image of an even *)
(* width and height.                                                       *)
PlaneLength(width, height, uvStride, uvPixelStride) ==
  uvStride * (height \div 2 - 1) + (width \div 2 - 1) * uvPixelStride + 1

-----------------------------------------------------------------------------
(* The video track.                                                        *)

Luma(r, g, b)       == (77 * r + 150 * g + 29 * b) \div 256
ChromaBlue(r, g, b) == (128 * b - 43 * r - 85 * g) \div 256 + 128
ChromaRed(r, g, b)  == (128 * r - 107 * g - 21 * b) \div 256 + 128

(* Where RgbaToI420 writes the chroma of pixel (x, y), which it does for   *)
(* pixels with an even row and column.                                     *)
WritesChroma(x, y) == x % 2 = 0 /\ y % 2 = 0
ChromaIndex(x, y, stride) == (y \div 2) * stride + x \div 2

(* I420Buffer::Create: a chroma plane has this many columns and rows.      *)
Half(n) == (n + 1) \div 2

-----------------------------------------------------------------------------
(* The reference: ITU-R BT.601 for bytes, in thousandths.                  *)

Clipped(n) == IF n < 0 THEN 0 ELSE IF n > 255000 THEN 255000 ELSE n

Reference(y, u, v) ==
  LET luma == IF y < 16 THEN 0 ELSE 1164 * (y - 16)
  IN  [red   |-> Clipped(luma + 1596 * (v - 128)),
       green |-> Clipped(luma - 813 * (v - 128) - 391 * (u - 128)),
       blue  |-> Clipped(luma + 2018 * (u - 128))]

(* A byte within 1.2 of a value in thousandths. *)
Near(byte, n) == byte * 1000 - n \in -1200..1200
=============================================================================
