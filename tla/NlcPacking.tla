------------------------------ MODULE NlcPacking ------------------------------
(***************************************************************************)
(* internal/groovy/nlc: how the residuals of a line become bytes and are   *)
(* read again.  A plane's residuals go tile by tile, all in the width of   *)
(* the largest one or in Rice codes whose parameter follows from their     *)
(* sum; each plane's bits are padded to eight bytes, and the line starts   *)
(* with the lengths.  Bits are written and read lowest first.              *)
(***************************************************************************)
EXTENDS Naturals, SequencesExt

CONSTANTS TileLen, WidthBits, RiceLimit, RiceUBits, WordBits

(* bitW.put, bitlen *)
Bits(v, n) == [i \in 1..n |-> (v \div 2^(i - 1)) % 2]
BitLen(v)  == CHOOSE n \in 0..12 : 2^n > v /\ \A m \in 0..12 : 2^m > v => m >= n

Total(u)   == FoldLeft(LAMBDA sum, v : sum + v, 0, u)
Widest(u)  == FoldLeft(LAMBDA w, v : IF BitLen(v) > w THEN BitLen(v) ELSE w, 0, u)
Joined(ss) == FoldLeft(LAMBDA all, s : all \o s, <<>>, ss)

NumTiles(n) == (n + TileLen - 1) \div TileLen
TileEnd(i, n) == IF i * TileLen > n THEN n ELSE i * TileLen
Tile(u, i)  == SubSeq(u, (i - 1) * TileLen + 1, TileEnd(i, Len(u)))

-----------------------------------------------------------------------------
(* packLineTiled *)
TiledTile(u) ==
    LET w == Widest(u) IN Bits(w, WidthBits) \o Joined([i \in DOMAIN u |-> Bits(u[i], w)])

(* riceKForTile, ricePut.  The slip writes the low bits first.              *)
RiceK(u) ==
    CHOOSE k \in 0..15 :
        /\ k = 15 \/ Len(u) * 2^k >= Total(u)
        /\ \A j \in 0..15 : Len(u) * 2^j >= Total(u) => j >= k

Unary(q)         == Bits(2^q, q + 1)
UnaryFirst(v, k) == Unary(v \div 2^k) \o Bits(v, k)

RicePut(v, k) ==
    IF v \div 2^k < RiceLimit THEN UnaryFirst(v, k)
    ELSE Unary(RiceLimit) \o Bits(v, RiceUBits)

RiceTile(u) ==
    LET k == RiceK(u) IN Bits(k, WidthBits) \o Joined([i \in DOMAIN u |-> RicePut(u[i], k)])

(* encodePlane: a segment ends at a word.  assemble: the lengths, and the  *)
(* segments one after the other.                                           *)
Zeros(n)     == [i \in 1..n |-> 0]
Padded(bits) == bits \o Zeros((WordBits - (Len(bits) % WordBits)) % WordBits)

Segment(pack, u) ==
    Padded(Joined([i \in 1..NumTiles(Len(u)) |->
                      IF pack = "tiled" THEN TiledTile(Tile(u, i)) ELSE RiceTile(Tile(u, i))]))

Record(pack, us) ==
    LET segments == <<Segment(pack, us["y"]), Segment(pack, us["co"]), Segment(pack, us["cg"])>>
    IN [lengths |-> <<Len(segments[1]), Len(segments[2]), Len(segments[3])>>, body |-> Joined(segments)]

-----------------------------------------------------------------------------
(* bitR.get: zeros once the segment is over, and the reader remembers it.  *)
Reader(bits) == [bits |-> bits, pos |-> 0, overrun |-> FALSE]
BitAt(r, i)  == IF i <= Len(r.bits) THEN r.bits[i] ELSE 0
Skip(r, n)   == [r EXCEPT !.pos = @ + n, !.overrun = @ \/ r.pos + n > Len(r.bits)]
Value(r, n)  == Total([i \in 1..n |-> BitAt(r, r.pos + i) * 2^(i - 1)])

(* unpackLineTiled and unpackLineRice: the width or parameter, and then so *)
(* many residuals.                                                         *)
Got(r, v, n) == [reader |-> Skip(r, n), value |-> v]

TiledGet(r, w) == Got(r, Value(r, w), w)

ZeroRun(r) == Min({RiceLimit} \cup {i \in 0..RiceLimit - 1 : BitAt(r, r.pos + i + 1) = 1})

RiceGet(r, k) ==
    LET zeros == ZeroRun(r)  rest == Skip(r, zeros + 1) IN
    IF zeros < RiceLimit THEN Got(rest, zeros * 2^k + Value(rest, k), k)
    ELSE Got(rest, Value(rest, RiceUBits), RiceUBits)

ReadTile(pack, state, n) ==
    LET par == Value(state.reader, WidthBits)
        Next(st, i) ==
            LET got == IF pack = "tiled" THEN TiledGet(st.reader, par) ELSE RiceGet(st.reader, par)
            IN [reader |-> got.reader, out |-> Append(st.out, got.value)]
    IN FoldLeft(Next, [state EXCEPT !.reader = Skip(@, WidthBits)], [i \in 1..n |-> i])

(* Decode: the planes by the lengths of the record; an error when a segment*)
(* is read past its end or something is left over.                         *)
UnpackedPlane(pack, bits, width) ==
    LET sizes == [i \in 1..NumTiles(width) |-> TileEnd(i, width) - (i - 1) * TileLen]
        end   == FoldLeft(LAMBDA st, n : ReadTile(pack, st, n), [reader |-> Reader(bits), out |-> <<>>], sizes)
    IN IF end.reader.overrun THEN <<>> ELSE end.out

Unpacked(pack, record, width) ==
    LET Before(i) == Total(SubSeq(record.lengths, 1, i - 1))
        Plane(i)  == UnpackedPlane(pack, SubSeq(record.body, Before(i) + 1, Before(i + 1)), width)
    IN IF Before(4) # Len(record.body) THEN [y |-> <<>>, co |-> <<>>, cg |-> <<>>]
       ELSE [y |-> Plane(1), co |-> Plane(2), cg |-> Plane(3)]

RoundTrip(pack, us) == Unpacked(pack, Record(pack, us), Len(us["y"]))
=============================================================================
