------------------------------ MODULE Letterbox ------------------------------
(***************************************************************************)
(* The two maps between a picture and the network's input: the matrix that *)
(* PreProcessor::CalAffineMatrix computes, and the way back that           *)
(* DecodeProcessor::ScaleBoxes computes for the boxes.                     *)
(*                                                                         *)
(* The scale is the fraction Num / Den, so every coordinate in the picture *)
(* is a multiple of 1 / Unit and is given as that multiple.  The code uses *)
(* floats.  A picture is a record with width and height, both positive     *)
(* where a map is applied.                                                 *)
(***************************************************************************)
EXTENDS Integers

CONSTANTS DstW, DstH        \* dst_img_w_, dst_img_h_

\* min(scale_x, scale_y): the picture fits the input in both directions.
WidthDecides(picture) == DstW * picture.height <= DstH * picture.width

Num(picture) == IF WidthDecides(picture) THEN DstW ELSE DstH
Den(picture) == IF WidthDecides(picture) THEN picture.width ELSE picture.height
Unit(picture) == 2 * Num(picture)

\* affineMatrix_inv applied to column dx or row dy, of dst columns or rows
\* that show src ones.
Project(picture, at, src, dst) ==
    2 * at * Den(picture) + Num(picture) * src - dst * Den(picture)
        - Num(picture) + Den(picture)

SrcX(picture, dx) == Project(picture, dx, picture.width, DstW)
SrcY(picture, dy) == Project(picture, dy, picture.height, DstH)

-----------------------------------------------------------------------------
Clamp(value, low, high) ==
    IF value < low THEN low ELSE IF value > high THEN high ELSE value

\* (at - pad) / gain, for at in half pixels of the input; pad is half of what
\* the scaled picture leaves free.
ScaleBackNoPad(picture, at, src, dst) ==    \* mutant: the padding is forgotten
    at * Den(picture)

ScaleBack(picture, at, src, dst) ==
    at * Den(picture) - (dst * Den(picture) - src * Num(picture))

\* A side of a box in the picture, in 1 / Unit.
ScaleBox(picture, at, src, dst) ==
    Clamp(ScaleBack(picture, at, src, dst), 0, src * Unit(picture))

ScaledX(picture, at) == ScaleBox(picture, at, picture.width, DstW)
ScaledY(picture, at) == ScaleBox(picture, at, picture.height, DstH)
=============================================================================
