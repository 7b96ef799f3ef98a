-------------------------- MODULE MCCaptureGeometry --------------------------
(***************************************************************************)
(* TLC instances of CaptureGeometry, in units of 40 pixels: an upright 3:4 *)
(* window and one of 9:16; and camera sizes of the exact 4:3 shape, of two *)
(* shapes a little off (by 0.0076 and 0.0128) with larger widths, and of   *)
(* 16:9.  The float has 12 bits, as few as the sizes allow, and rounds the *)
(* scale of the 16:9 frame so that a column is lost, as the 24 bits of the *)
(* code do with 3000 x 4000 on 1440 x 1920.  Three entries are the least   *)
(* for the tolerance to add up.  The colours are the corners of the cube   *)
(* of YUV, the limits of the nominal range, and values on both sides of    *)
(* each clamp.                                                             *)
(***************************************************************************)
EXTENDS CaptureGeometry

MCScreens == {<<27, 36>>, <<27, 48>>}
MCSizes   == {<<28, 21>>, <<59, 44>>, <<70, 52>>, <<112, 63>>}
MCFullHD  == <<48, 27>>
MCSamples == {0, 15, 16, 17, 81, 145, 210, 235, 255}
             \X {0, 16, 90, 127, 128, 129, 166, 240, 255}
             \X {0, 16, 90, 127, 128, 129, 166, 240, 255}
FewSamples == {<<81, 90, 240>>, <<145, 54, 34>>, <<41, 240, 110>>, <<126, 128, 128>>}
=============================================================================
