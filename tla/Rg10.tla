-------------------------------- MODULE Rg10 ---------------------------------
(***************************************************************************)
(* The scaling conversions of aloe/rg10_rgb8_i420_v4.cpp: v4 to half of    *)
(* the size, v5 and v6 to a quarter, from 10-bit RGGB samples in 16-bit    *)
(* words to RGB888 and I420.  v5 and v6 take eight output columns at a     *)
(* time in vector registers and the rest one by one.  What a conversion    *)
(* does to an output buffer is the set of its writes <<index, value>>.     *)
(***************************************************************************)
EXTENDS Integers, FiniteSets

CONSTANT Frames   \* the frames: size <<width, height>>, raw, the samples, and gain,
                  \* the <<r, g, b>> gains of v6 in quarters

VARIABLE frame    \* the frame that is converted

\* Before the first conversion.
NoFrame == [size |-> <<0, 0>>, raw |-> <<>>, gain |-> <<4, 4, 4>>]

W == frame.size[1]
H == frame.size[2]
Sample(x, y) == frame.raw[<<x, y>>]

-----------------------------------------------------------------------------
rg10_u8(value) == (value \div 4) % 256
clamp_u8(v) == IF v < 0 THEN 0 ELSE IF v > 255 THEN 255 ELSE v

\* C's division truncates towards zero.
Quot256(n) == IF n >= 0 THEN n \div 256 ELSE -((-n) \div 256)

\* rgb_yuv, which every version writes out: v6 and the luma of v5's tail store the
\* value as a byte where the others clamp it.
Luma(c) == Quot256(66 * c[1] + 129 * c[2] + 25 * c[3] + 128) + 16
ChromaU(c) == Quot256(-38 * c[1] - 74 * c[2] + 112 * c[3] + 128) + 128
ChromaV(c) == Quot256(112 * c[1] - 94 * c[2] - 18 * c[3] + 128) + 128
Byte(v) == v % 256

\* Eight lumas in 16-bit lanes that wrap; the result is packed as signed words.
rgb_y_sse2_8(c) ==
    LET sum == (66 * c[1] + 129 * c[2] + 25 * c[3] + 128) % 65536
    IN  clamp_u8(sum \div 256 + 16)

\* Eight lumas in NEON lanes, narrowed without saturation.
rgb_y_neon_8(c) == Byte(((66 * c[1] + 129 * c[2] + 25 * c[3] + 128) % 65536) \div 256 + 16)

-----------------------------------------------------------------------------
(* v4: the four samples of each 2x2 block; the greens are averaged. *)
Colour4(x, y) ==
    <<Sample(2 * x, 2 * y) \div 4,
      (Sample(2 * x + 1, 2 * y) + Sample(2 * x, 2 * y + 1)) \div 8,
      Sample(2 * x + 1, 2 * y + 1) \div 4>>

aloe_rg10_rgb8_i420_v4 ==
    LET ow == W \div 2
        oh == H \div 2
        out == (0..(ow - 1)) \X (0..(oh - 1))
        kept == {p \in out : p[1] % 2 = 0 /\ p[2] % 2 = 0}
        uv(p) == (p[2] \div 2) * (ow \div 2) + p[1] \div 2
    IN  [rgb |-> {<<p[2] * ow + p[1], [i \in 1..3 |-> Byte(Colour4(p[1], p[2])[i])]>> : p \in out},
         y   |-> {<<p[2] * ow + p[1], clamp_u8(Luma(Colour4(p[1], p[2])))>> : p \in out},
         u   |-> {<<uv(p), clamp_u8(ChromaU(Colour4(p[1], p[2])))>> : p \in kept},
         v   |-> {<<uv(p), clamp_u8(ChromaV(Colour4(p[1], p[2])))>> : p \in kept}]

-----------------------------------------------------------------------------
(* v5 and v6: a quarter of the size. *)
Out == (0..((W \div 4) - 1)) \X (0..((H \div 4) - 1))
At(p) == p[2] * (W \div 4) + p[1]
ChromaAt(p) == (p[2] \div 2) * (W \div 8) + p[1] \div 2
InChunk(p) == p[1] < 8 * ((W \div 4) \div 8)

Colour5(p) ==
    LET x == 4 * p[1]
        y == 4 * p[2]
    IN  <<rg10_u8(Sample(x, y)), rg10_u8(Sample(x + 1, y)), rg10_u8(Sample(x + 1, y + 1))>>

\* The luma of colour c of pixel p; vector: the instructions the build has, "sse2", "neon"
\* or none at all.
LumaOf(p, c, vector) ==
    IF ~InChunk(p) \/ vector = "scalar" THEN Byte(Luma(c))
    ELSE IF vector = "sse2" THEN rgb_y_sse2_8(c) ELSE rgb_y_neon_8(c)

\* Two output rows at a time; chroma from the odd columns of the second.
aloe_rg10_rgb8_i420_v5(vector) ==
    LET kept == {p \in Out : p[2] % 2 = 1 /\ p[1] % 2 = 1} IN
    [rgb |-> {<<At(p), Colour5(p)>> : p \in Out},
     y   |-> {<<At(p), LumaOf(p, Colour5(p), vector)>> : p \in Out},
     u   |-> {<<ChromaAt(p), clamp_u8(ChromaU(Colour5(p)))>> : p \in kept},
     v   |-> {<<ChromaAt(p), clamp_u8(ChromaV(Colour5(p)))>> : p \in kept}]

\* A 32-bit lane holds two neighbouring words, <<low, high>>.  Of the two registers
\* loaded from column x, every other lane is kept: the words x, x + 1, x + 4, x + 5, ...
rg10_v6_pairs(x, y) == [j \in 0..3 |-> <<Sample(x + 4 * j, y), Sample(x + 4 * j + 1, y)>>]

\* The low 16 bits of a lane shifted right by 2 or by 18.
Shifted(lane, shift) ==
    IF shift = 2 THEN (lane[1] \div 4 + lane[2] * 16384) % 65536 ELSE lane[2] \div 4

rg10_v6_channel(a, b, shift) ==
    [i \in 0..7 |-> Shifted(IF i < 4 THEN a[i] ELSE b[i - 4], shift) % 256]

\* The eight colours of the chunk from column x of output row y.
Chunk6(x, y) ==
    LET top(k) == rg10_v6_pairs(4 * x + 16 * k, 4 * y)
        bot(k) == rg10_v6_pairs(4 * x + 16 * k, 4 * y + 1)
    IN  <<rg10_v6_channel(top(0), top(1), 2), rg10_v6_channel(top(0), top(1), 18),
          rg10_v6_channel(bot(0), bot(1), 18)>>

\* NEON: thirty-two words from column x of row y go to four registers, each fourth word to
\* the same one; a register is shifted and narrowed to the low bytes of its lanes.
vld4q_u16(x, y) == [k \in 0..3 |-> [i \in 0..7 |-> Sample(x + 4 * i + k, y)]]
vmovn_u16(register) == [i \in 0..7 |-> (register[i] \div 4) % 256]
ChunkNeon(x, y) ==
    LET top == vld4q_u16(4 * x, 4 * y)
        bottom == vld4q_u16(4 * x, 4 * y + 1)
    IN  <<vmovn_u16(top[0]), vmovn_u16(top[1]), vmovn_u16(bottom[1])>>

\* The gain table: rounded to the nearest, clamped; without gains it is not used.
Adjust(c) ==
    IF frame.gain = <<4, 4, 4>> THEN c
    ELSE [i \in 1..3 |-> clamp_u8((c[i] * frame.gain[i] + 2) \div 4)]

\* A chunk gets its colours from the registers unless ALOE_RG10_V6_SCALAR is set.
Colour6(p, vector) ==
    LET x == p[1] - (p[1] % 8)
        c == IF vector = "sse2" THEN Chunk6(x, p[2]) ELSE ChunkNeon(x, p[2])
    IN  Adjust(IF InChunk(p) /\ vector # "scalar" THEN [i \in 1..3 |-> c[i][p[1] % 8]]
               ELSE Colour5(p))

aloe_rg10_rgb8_i420_v6(vector) ==
    LET kept == {p \in Out : p[2] % 2 = 1 /\ p[1] % 2 = 1}
    IN  [rgb |-> {<<At(p), Colour6(p, vector)>> : p \in Out},
         y   |-> {<<At(p), LumaOf(p, Colour6(p, vector), vector)>> : p \in Out},
         u   |-> {<<ChromaAt(p), Byte(ChromaU(Colour6(p, vector)))>> : p \in kept},
         v   |-> {<<ChromaAt(p), Byte(ChromaV(Colour6(p, vector)))>> : p \in kept}]

-----------------------------------------------------------------------------
Init == frame = NoFrame
Next == frame' \in Frames
Spec == Init /\ [][Next]_frame

\* Each index of a buffer of n entries is written, and once.
Filled(writes, n) == {w[1] : w \in writes} = 0..(n - 1) /\ Cardinality(writes) = n

\* "Same layout, sampling, dimensions and rounding as v5": in every build v6 writes what
\* its portable path writes, whatever the gains, and without gains v5's bytes, in chunks and
\* in tails, with stray upper bits; every byte of the planes of v4, v5 and v6 is written
\* once.
V6SameAsV5 ==
    LET v4 == aloe_rg10_rgb8_i420_v4
        v6 == aloe_rg10_rgb8_i420_v6("scalar")
        n  == (W \div 4) * (H \div 4)
    IN  /\ \A vector \in {"scalar", "sse2", "neon"} :
             /\ aloe_rg10_rgb8_i420_v6(vector) = v6
             /\ frame.gain = <<4, 4, 4>> => aloe_rg10_rgb8_i420_v5(vector) = v6
        /\ Filled(v6.rgb, n) /\ Filled(v6.y, n) /\ Filled(v6.u, n \div 4) /\ Filled(v6.v, n \div 4)
        /\ Filled(v4.rgb, 4 * n) /\ Filled(v4.y, 4 * n) /\ Filled(v4.u, n) /\ Filled(v4.v, n)
=============================================================================
