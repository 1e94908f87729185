----------------------------- MODULE NearLossless -----------------------------
(***************************************************************************)
(* internal/groovy/nlc: the codec that fields may be sent with.  A line of *)
(* pixels becomes three planes (YCoCg), and each sample of a plane what is *)
(* left of it once its neighbours have predicted it, in steps of           *)
(* 2 near + 1.  Both sides predict from what the receiver will have, so    *)
(* that errors do not add up; both must do exactly the same arithmetic.    *)
(*                                                                         *)
(* One step is one pixel, in all planes.  Each line is decoded once it has *)
(* been encoded: the encoder does not look at the decoder.                 *)
(***************************************************************************)
EXTENDS Integers

CONSTANTS
    Width, Height,    \* of a field
    Nears,            \* allowed steps (0 is lossless)
    Packs,            \* how residuals are packed
    Top,              \* the largest value of a channel
    Colours,          \* the pixels a field may have
    Carried(_, _)     \* what is unpacked of the residuals of a line

Planes == {"y", "co", "cg"}

VARIABLES
    near, pack,        \* Params
    source,            \* the field: rows of pixels
    row, col, phase,   \* where the work is
    prev, cur,         \* encoder: the line above and this one, as reconstructed
    residuals,         \* of this line
    above, line        \* decoder: the line above and this one

nlcVars == <<near, pack, source, row, col, phase, prev, cur, residuals, above, line>>

-----------------------------------------------------------------------------
(* rgbToYCoCg and back.  >> is \div 2: both round down. *)
Co(p) == p.r - p.b
Mid(p) == p.b + Co(p) \div 2
Cg(p) == p.g - Mid(p)
Y(p)  == Mid(p) + Cg(p) \div 2

ToYCoCg(p) == [y |-> Y(p), co |-> Co(p), cg |-> Cg(p)]

Clamp(v, lo, hi) == IF v < lo THEN lo ELSE IF v > hi THEN hi ELSE v

Green(c) == c.cg + (c.y - c.cg \div 2)
Blue(c)  == (c.y - c.cg \div 2) - c.co \div 2
Red(c)   == Blue(c) + c.co

ToRGB(c) == [r |-> Clamp(Red(c), 0, Top), g |-> Clamp(Green(c), 0, Top), b |-> Clamp(Blue(c), 0, Top)]

(* planeRange *)
Low(k)  == IF k = "y" THEN 0 ELSE 0 - Top
High(k) == Top

(* nlQuant and nlDequant: to the nearest multiple of 2 n + 1.              *)
Quant(e, n)      == IF e > 0 THEN (e + n) \div (2 * n + 1) ELSE -((n - e) \div (2 * n + 1))
Dequant(q, n)    == q * (2 * n + 1)

(* zz and unzz *)
Zigzag(v)   == IF v >= 0 THEN 2 * v ELSE 2 * (-v) - 1
Unzigzag(u) == IF u % 2 = 1 THEN -((u + 1) \div 2) ELSE u \div 2

(* medPredict from left, above and above-left. *)
Less(a, b) == IF a < b THEN a ELSE b
More(a, b) == IF a < b THEN b ELSE a
Med(a, b, c) ==
    IF c >= More(a, b) THEN Less(a, b) ELSE IF c <= Less(a, b) THEN More(a, b) ELSE a + b - c

(* The neighbours as both sides have them; beyond the edges they stand in  *)
(* for each other.                                                         *)
Left(up, now, k, x)   == IF x > 1 THEN now[k][x - 1] ELSE IF row > 1 THEN up[k][x] ELSE 0
Over(up, now, k, x)   == IF row > 1 THEN up[k][x] ELSE Left(up, now, k, x)
Corner(up, now, k, x) == IF x > 1 /\ row > 1 THEN up[k][x - 1] ELSE Over(up, now, k, x)

Predicted(up, now, k, x) == Med(Left(up, now, k, x), Over(up, now, k, x), Corner(up, now, k, x))

Reconstructed(up, now, k, x, u) ==
    Clamp(Predicted(up, now, k, x) + Dequant(Unzigzag(u), near), Low(k), High(k))

-----------------------------------------------------------------------------
BlankLine == [k \in Planes |-> [x \in 1..Width |-> 0]]

NlcInit ==
    /\ near \in Nears /\ pack \in Packs
    /\ source \in [1..Height -> [1..Width -> Colours]]
    /\ row = 1 /\ col = 1 /\ phase = "encode"
    /\ prev = BlankLine /\ cur = BlankLine /\ residuals = BlankLine
    /\ above = BlankLine /\ line = BlankLine

Sample(k, x) == ToYCoCg(source[row][x])[k]

(* lineEncode.  What the next pixel is predicted from is what the receiver *)
(* will have; the slip takes the field itself.                             *)
AsSent(k, u)     == Sample(k, col)
AsReceived(k, u) == Reconstructed(prev, cur, k, col, u)

Residual(k) == Zigzag(Quant(Sample(k, col) - Predicted(prev, cur, k, col), near))

EncodePixel ==
    /\ phase = "encode" /\ col <= Width
    /\ residuals' = [k \in Planes |-> [residuals[k] EXCEPT ![col] = Residual(k)]]
    /\ cur' = [k \in Planes |-> [cur[k] EXCEPT ![col] = AsReceived(k, Residual(k))]]
    /\ col' = col + 1
    /\ UNCHANGED <<near, pack, source, row, phase, prev, above, line>>

(* The line is packed, sent and unpacked; what does not unpack to a line   *)
(* is an error.                                                            *)
CarryLine ==
    /\ phase = "encode" /\ col > Width
    /\ residuals' = Carried(pack, residuals)
    /\ phase' = IF \A k \in Planes : DOMAIN residuals'[k] = 1..Width THEN "decode" ELSE "corrupt"
    /\ col' = 1
    /\ UNCHANGED <<near, pack, source, row, prev, cur, above, line>>

(* lineDecode *)
DecodePixel ==
    /\ phase = "decode" /\ col <= Width
    /\ line' = [k \in Planes |->
                   [line[k] EXCEPT ![col] = Reconstructed(above, line, k, col, residuals[k][col])]]
    /\ col' = col + 1
    /\ UNCHANGED <<near, pack, source, row, phase, prev, cur, residuals, above>>

(* The next line: both sides' rows change places. *)
NextLine ==
    /\ phase = "decode" /\ col > Width /\ row < Height
    /\ row' = row + 1 /\ col' = 1 /\ phase' = "encode"
    /\ prev' = cur /\ cur' = prev /\ above' = line /\ line' = above
    /\ UNCHANGED <<near, pack, source, residuals>>

NlcNext == EncodePixel \/ CarryLine \/ DecodePixel \/ NextLine

NlcSpec == NlcInit /\ [][NlcNext]_nlcVars

-----------------------------------------------------------------------------
NlcAssumption ==
    /\ Width \in Nat \ {0} /\ Height \in Nat \ {0} /\ Top \in Nat
    /\ Nears \subseteq 0..3
    /\ Colours \subseteq [r : 0..Top, g : 0..Top, b : 0..Top]

(* No sample of the picture is further from the source than near allows,   *)
(* however many predictions led to it; without loss every pixel is the     *)
(* source's; and every line can be read.                                   *)
Decoded(x) == phase = "decode" /\ x < col

WithinNear ==
    \A x \in 1..Width, k \in Planes :
        Decoded(x) => line[k][x] - Sample(k, x) \in (-near)..near

LosslessIsExact ==
    near = 0 => \A x \in 1..Width :
        Decoded(x) => ToRGB([k \in Planes |-> line[k][x]]) = source[row][x]

PictureSurvives == phase # "corrupt" /\ WithinNear /\ LosslessIsExact
=============================================================================
