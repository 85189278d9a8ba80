------------------------------- MODULE Bayer --------------------------------
(***************************************************************************)
(* The conversions of an RGGB frame of 10-bit samples to RGB888 and I420   *)
(* at full size: the reference (rggb10_rgb888_i420.cpp), its block-wise    *)
(* version v2, and the scalar and NEON versions under simd/.  A frame is a *)
(* function of <<x, y>>; an output is the RGB triple and the luma of every *)
(* pixel and the chroma of every 2x2 block.                                *)
(***************************************************************************)
EXTENDS Integers, FiniteSets

CONSTANT Frames   \* the frames: size <<width, height>> and raw, the samples

VARIABLE img      \* the frame that is converted

\* Before the first conversion.
NoFrame == [size |-> <<0, 0>>, raw |-> <<>>]

W == img.size[1]
H == img.size[2]
raw == img.raw
Pixels(w, h) == (0..(w - 1)) \X (0..(h - 1))
Even(n) == n % 2 = 0
Base(n) == n - (n % 2)

-----------------------------------------------------------------------------
(* What the versions share. *)

clamp_u8(v) == IF v < 0 THEN 0 ELSE IF v > 255 THEN 255 ELSE v
Clamp(v, max) == IF v < 0 THEN 0 ELSE IF v >= max THEN max - 1 ELSE v
extract_raw10(pixel) == pixel % 1024

\* The colour of the pixel at x, y, by its place in the pattern; n holds its neighbours.
Around == (-1..1) \X (-1..1)
Demosaic(n, x, y) ==
    LET here  == n[<<0, 0>>]
        cross == (n[<<-1, 0>>] + n[<<1, 0>>] + n[<<0, -1>>] + n[<<0, 1>>]) \div 4
        diag  == (n[<<-1, -1>>] + n[<<1, -1>>] + n[<<-1, 1>>] + n[<<1, 1>>]) \div 4
        beside == (n[<<-1, 0>>] + n[<<1, 0>>]) \div 2
        above  == (n[<<0, -1>>] + n[<<0, 1>>]) \div 2
    IN  CASE Even(y) /\ Even(x)   -> <<here, cross, diag>>
          [] Even(y) /\ ~Even(x)  -> <<beside, here, above>>
          [] ~Even(y) /\ Even(x)  -> <<above, here, beside>>
          [] ~Even(y) /\ ~Even(x) -> <<diag, cross, here>>

\* BT.601, limited range; \div is the arithmetic shift.
rgb_to_y(c) == clamp_u8((66 * c[1] + 129 * c[2] + 25 * c[3] + 128) \div 256 + 16)
rgb_to_u(c) == clamp_u8((-38 * c[1] - 74 * c[2] + 112 * c[3] + 128) \div 256 + 128)
rgb_to_v(c) == clamp_u8((112 * c[1] - 94 * c[2] - 18 * c[3] + 128) \div 256 + 128)

\* The average of a block's four colours, rgb a function of the pixels.
Average(rgb, b) ==
    [i \in 1..3 |-> (rgb[<<2 * b[1], 2 * b[2]>>][i] + rgb[<<2 * b[1] + 1, 2 * b[2]>>][i]
                     + rgb[<<2 * b[1], 2 * b[2] + 1>>][i]
                     + rgb[<<2 * b[1] + 1, 2 * b[2] + 1>>][i]) \div 4]

Blocks == Pixels(W \div 2, H \div 2)
Chroma(rgb) ==
    [b \in Blocks |-> LET c == Average(rgb, b) IN <<rgb_to_u(c), rgb_to_v(c)>>]
Byte(c) == [i \in 1..3 |-> c[i] % 256]

-----------------------------------------------------------------------------
(* The reference. *)

raw10_to_u8(value) == (value * 255 + 511) \div 1023
get_pixel(x, y) == extract_raw10(raw[<<Clamp(x, W), Clamp(y, H)>>])

RefColour == [p \in Pixels(W, H) |->
    LET n == [d \in Around |-> get_pixel(p[1] + d[1], p[2] + d[2])]
        c == Demosaic(n, p[1], p[2])
    IN  [i \in 1..3 |-> raw10_to_u8(c[i])]]

aloe_rggb10_to_rgb888_i420 ==
    [rgb |-> RefColour, y |-> [p \in Pixels(W, H) |-> rgb_to_y(RefColour[p])],
     uv |-> Chroma(RefColour)]

-----------------------------------------------------------------------------
(* v2: one 2x2 block at a time, with four row pointers. *)

\* Mutant: the row below the block is never another one than its lower row.
row_p2_none(y) == y + 1

\* The row below a block; at the bottom of the frame the lower row of the block itself.
row_p2(y) == IF y + 2 < H THEN y + 2 ELSE y + 1

BlockV2(x, y, dx, dy) ==
    LET m1 == IF y > 0 THEN y - 1 ELSE y
        p2 == row_p2(y)
        xm1 == IF x > 0 THEN x - 1 ELSE x
        xp1 == x + 1
        xp2 == IF x + 2 < W THEN x + 2 ELSE xp1
        R(cx, cy) == raw[<<cx, cy>>]
    IN  CASE dx = 0 /\ dy = 0 ->
               <<R(x, y), (R(xm1, y) + R(xp1, y) + R(x, m1) + R(x, y + 1)) \div 4,
                 (R(xm1, m1) + R(xp1, m1) + R(xm1, y + 1) + R(xp1, y + 1)) \div 4>>
          [] dx = 1 /\ dy = 0 ->
               <<(R(x, y) + R(xp2, y)) \div 2, R(xp1, y), (R(xp1, m1) + R(xp1, y + 1)) \div 2>>
          [] dx = 0 /\ dy = 1 ->
               <<(R(x, y) + R(x, p2)) \div 2, R(x, y + 1), (R(xm1, y + 1) + R(xp1, y + 1)) \div 2>>
          [] OTHER ->
               <<(R(x, y) + R(xp2, y) + R(x, p2) + R(xp2, p2)) \div 4,
                 (R(x, y + 1) + R(xp2, y + 1) + R(xp1, y) + R(xp1, p2)) \div 4, R(xp1, y + 1)>>

\* Rounded to 8 bits; a sample of 1022 or 1023 becomes 256, which the bytes of the RGB
\* output cut to 0 and luma and chroma do not.
raw10_to_u8_fast(c) == [i \in 1..3 |-> (c[i] + 2) \div 4]

V2Colour == [p \in Pixels(W, H) |->
    raw10_to_u8_fast(BlockV2(Base(p[1]), Base(p[2]), p[1] % 2, p[2] % 2))]

aloe_rggb10_to_rgb888_i420_v2 ==
    [rgb |-> [p \in Pixels(W, H) |-> Byte(V2Colour[p])],
     y |-> [p \in Pixels(W, H) |-> rgb_to_y(V2Colour[p])], uv |-> Chroma(V2Colour)]

-----------------------------------------------------------------------------
(* simd/: the scalar version, its copy with a cache of two rows, and NEON. *)

Replicated(x, y) == raw[<<Clamp(x, W), Clamp(y, H)>>]
demosaic_rggb10_pixel(p) ==
    Demosaic([d \in Around |-> Replicated(p[1] + d[1], p[2] + d[2])], p[1], p[2])

\* raw10_to_u8 returns a byte, which all of the output is made of.
ScalarColour ==
    [p \in Pixels(W, H) |-> Byte(raw10_to_u8_fast(demosaic_rggb10_pixel(p)))]
aloe_rggb10_to_rgb888_i420_scalar ==
    [rgb |-> ScalarColour, y |-> [p \in Pixels(W, H) |-> rgb_to_y(ScalarColour[p])],
     uv |-> Chroma(ScalarColour)]

\* Two rows at a time go to the cache, luma and RGB are written on the way, and the
\* chroma of their blocks is made from the cache.
Cache(y) == [p \in (0..(W - 1)) \X {y, y + 1} |->
               Byte(raw10_to_u8_fast(demosaic_rggb10_pixel(p)))]
convert_scalar ==
    LET row(y) == Cache(Base(y)) IN
    [rgb |-> [p \in Pixels(W, H) |-> row(p[2])[p]],
     y   |-> [p \in Pixels(W, H) |-> rgb_to_y(row(p[2])[p])],
     uv  |-> [b \in Blocks |-> LET c == Average(Cache(2 * b[2]), b)
                               IN  <<rgb_to_u(c), rgb_to_v(c)>>]]

\* The columns of the vector kernel: eight at a time from 4, ending before width - 4.
NeonColumns == {x \in 4..(W - 1) : x < 4 + 8 * ((W - 8) \div 8)}

\* The kernel's samples are those of v2's block, but for the red of the lower left pixel,
\* which is taken from the row above the block instead of its upper row.
neon_gather(p) ==
    LET x == Base(p[1])
        y == Base(p[2])
        c == BlockV2(x, y, p[1] % 2, p[2] % 2)
        m1 == IF y > 0 THEN y - 1 ELSE y
        p2 == row_p2(y)
    IN  IF Even(p[1]) /\ ~Even(p[2])
        THEN [c EXCEPT ![1] = (raw[<<x, m1>>] + raw[<<x, p2>>]) \div 2] ELSE c

\* 16-bit lanes, cut to bytes when they are stored.
neon_luma(c) ==
    (((66 * c[1] + 129 * c[2] + 25 * c[3] + 128) % 65536) \div 256 + 16) % 256

\* The chroma is computed again for every block, from the scalar samples.
aloe_rggb10_to_rgb888_i420_neon ==
    IF W < 16 \/ H < 4 THEN aloe_rggb10_to_rgb888_i420_scalar
    ELSE LET lane == [p \in Pixels(W, H) |-> raw10_to_u8_fast(neon_gather(p))]
         IN  [rgb |-> [p \in Pixels(W, H) |-> IF p[1] \in NeonColumns THEN Byte(lane[p])
                                              ELSE ScalarColour[p]],
              y   |-> [p \in Pixels(W, H) |-> IF p[1] \in NeonColumns THEN neon_luma(lane[p])
                                              ELSE rgb_to_y(ScalarColour[p])],
              uv  |-> Chroma(ScalarColour)]

-----------------------------------------------------------------------------
Init == img = NoFrame
Next == img' \in Frames
Spec == Init /\ [][Next]_img

\* The versions agree, on all of 0...1023, block edges, frame edges and vector tails
\* included.  A colour that rounds to 256 is over: its byte is 0, in v2 and in the versions
\* under simd/ alike.
Over(p, i) == V2Colour[p][i] > 255
Lit == {p \in Pixels(W, H) : \E i \in 1..3 : Over(p, i)}
Corners(b) == {2 * b[1], 2 * b[1] + 1} \X {2 * b[2], 2 * b[2] + 1}

\* Both scalar versions are the same, write the RGB bytes of v2 everywhere and its luma and
\* chroma where no colour is over: they cut a colour to its byte first, v2 last.
ScalarAgrees ==
    LET v2 == aloe_rggb10_to_rgb888_i420_v2
        scalar == aloe_rggb10_to_rgb888_i420_scalar
        lit == Lit
    IN  /\ convert_scalar = scalar
        /\ scalar.rgb = v2.rgb
        /\ \A p \in Pixels(W, H) \ lit : scalar.y[p] = v2.y[p]
        /\ \A b \in Blocks : Corners(b) \cap lit = {} => scalar.uv[b] = v2.uv[b]

\* The kernel's pixels, and what v2 makes of a pixel's own sample in an even column.
Kernel == {p \in Pixels(W, H) : W >= 16 /\ H >= 4 /\ p[1] \in NeonColumns}
Own(colour, x, y) == colour[<<x, y>>][IF Even(y) THEN 1 ELSE 2]

\* The NEON version writes v2's bytes in its kernel and the scalar ones beside it.  Its
\* lower left pixels have v2's green and blue, but their red is the mean of what the rows
\* above and below the block hold: below the first block the one above is a green one.
NeonAgrees ==
    LET v2 == aloe_rggb10_to_rgb888_i420_v2
        scalar == aloe_rggb10_to_rgb888_i420_scalar
        neon == aloe_rggb10_to_rgb888_i420_neon
        colour == V2Colour
        kernel == Kernel
    IN  /\ neon.uv = scalar.uv
        /\ \A p \in Pixels(W, H) :
             IF p \in kernel /\ Even(p[1]) /\ ~Even(p[2])
             THEN LET m1 == IF p[2] > 1 THEN p[2] - 2 ELSE 0
                      p2 == IF p[2] + 1 < H THEN p[2] + 1 ELSE p[2]
                  IN  \E red \in 0..256 :
                        /\ neon.rgb[p] = [v2.rgb[p] EXCEPT ![1] = red % 256]
                        /\ neon.y[p] = rgb_to_y([colour[p] EXCEPT ![1] = red])
                        /\ 2 * red - Own(colour, p[1], m1) - Own(colour, p[1], p2) \in -1..1
             ELSE /\ neon.rgb[p] = v2.rgb[p]
                  /\ neon.y[p] = IF p \in kernel THEN v2.y[p] ELSE scalar.y[p]

\* v2 is nowhere more than one step of eight bits away from the reference, in RGB, luma and
\* chroma, but for the bytes of a colour that is over: 0 where the reference writes 255.
NearReference ==
    LET v2 == aloe_rggb10_to_rgb888_i420_v2
        ref == aloe_rggb10_to_rgb888_i420
        colour == V2Colour
    IN  /\ \A p \in Pixels(W, H) :
             /\ v2.y[p] - ref.y[p] \in -1..1
             /\ \A i \in 1..3 : IF colour[p][i] > 255
                                THEN v2.rgb[p][i] = 0 /\ ref.rgb[p][i] = 255
                                ELSE v2.rgb[p][i] - ref.rgb[p][i] \in -1..1
        /\ \A b \in Blocks, k \in 1..2 : v2.uv[b][k] - ref.uv[b][k] \in -1..1

VersionsAgree == ScalarAgrees /\ NeonAgrees /\ NearReference
=============================================================================
