--------------------------- MODULE Constellations ---------------------------
(***************************************************************************)
(* map_to_points and decision_maker (src/lib/constellations_impl.cc), with   *)
(* coordinates in units of half the level of the constellation, so that the  *)
(* points have odd multiples of 2 and noise can be smaller than a level.     *)
(***************************************************************************)
EXTENDS Ofdm, Sequences

(* The coordinates of one axis in the order of the bits that select them.   *)
Axis(bits) ==
  CASE bits = 1 -> <<-2, 2>>
    [] bits = 2 -> <<-6, 6, -2, 2>>
    [] bits = 3 -> <<-14, 14, -2, 2, -10, 10, -6, 6>>

(* Bits of one axis; BPSK has only the real one.                            *)
AxisBits(e) == IF ofdm_param[e].n_bpsc = 1 THEN 1 ELSE ofdm_param[e].n_bpsc \div 2

map_to_points(v, e) ==
  LET bits == AxisBits(e)
  IN <<Axis(bits)[(v % 2^bits) + 1],
       IF ofdm_param[e].n_bpsc = 1 THEN 0 ELSE Axis(bits)[v \div 2^bits + 1]>>

Magnitude(x) == IF x < 0 THEN -x ELSE x
Flag(b) == IF b THEN 1 ELSE 0

(* The decision on one coordinate.                                          *)
Decide(x, bits) ==
  CASE bits = 1 -> Flag(x > 0)
    [] bits = 2 -> Flag(x > 0) + 2 * Flag(Magnitude(x) < 4)
    [] bits = 3 -> Flag(x > 0) + 2 * Flag(Magnitude(x) < 8)
                     + 4 * Flag(Magnitude(x) < 12 /\ Magnitude(x) > 4)

decision_maker(point, e) ==
  LET bits == AxisBits(e)
  IN Decide(point[1], bits)
       + (IF ofdm_param[e].n_bpsc = 1 THEN 0 ELSE 2^bits * Decide(point[2], bits))
=============================================================================
