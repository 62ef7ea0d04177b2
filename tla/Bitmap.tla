------------------------------- MODULE Bitmap -------------------------------
(***************************************************************************)
(* The bitmap of bitmap/bitmap_test.c and bitmap.h.  A map is its length   *)
(* field, the size of the memory allocated for it, the set of the bits     *)
(* that are one, and whether a bit outside that memory was ever written    *)
(* or read.                                                                *)
(***************************************************************************)
EXTENDS Integers, FiniteSets

HEAD_LEN == 4                                    \* sizeof(bitmap_t)

BITNUM_TO_LEN(bitnum) == HEAD_LEN + bitnum \div 8 + 1

(* The size_t difference, converted to int: negative for a length of 0.    *)
LEN_TO_BITNUM(len) == (len - HEAD_LEN) * 8

Inside(map) == 0 .. 8 * (map.size - HEAD_LEN) - 1

bitmap_new(bitnum) ==
  [len |-> BITNUM_TO_LEN(bitnum), size |-> BITNUM_TO_LEN(bitnum), ones |-> {}, outside |-> FALSE]

Touch(map, bits) == [map EXCEPT !.outside = @ \/ ~(bits \subseteq Inside(map))]

\* Mutation: the byte count is compared without the byte of the bit itself.
CheckedByOne(map, bitnum) == BITNUM_TO_LEN(bitnum) <= map.len + 1

Checked(map, bitnum) == BITNUM_TO_LEN(bitnum) <= map.len

SetBits(map, bits) == [Touch(map, bits) EXCEPT !.ones = @ \cup bits]
ClrBits(map, bits) == [Touch(map, bits) EXCEPT !.ones = @ \ bits]

bitmap_set(map, bitnum) == IF Checked(map, bitnum) THEN SetBits(map, {bitnum}) ELSE map
bitmap_clr(map, bitnum) == IF Checked(map, bitnum) THEN ClrBits(map, {bitnum}) ELSE map

is_bitmap_set(map, bitnum) == Checked(map, bitnum) /\ bitnum \in map.ones

(* The bits the loop "while (i++ <= end_bit)" works on: i is stepped       *)
(* before it is used.  The range functions do not look at the length.      *)
LoopBits(start_bit, end_bit) == start_bit + 1 .. end_bit + 1

bitmap_set_range(map, start_bit, end_bit) ==
  IF start_bit > end_bit THEN map ELSE SetBits(map, LoopBits(start_bit, end_bit))

bitmap_clr_range(map, start_bit, end_bit) ==
  IF start_bit > end_bit THEN map ELSE ClrBits(map, LoopBits(start_bit, end_bit))

is_bitmap_range_zero(map, start_bit, end_bit) ==
  start_bit <= end_bit /\ LoopBits(start_bit, end_bit) \cap map.ones = {}

(* memset over map->len bytes from the start of the header: the length     *)
(* becomes 0 with the bits, and a second call clears nothing.              *)
bitmap_clr_all(map) ==
  IF map.len = 0 THEN map
  ELSE [map EXCEPT !.len = 0, !.ones = @ \ (0 .. LEN_TO_BITNUM(map.len) - 1)]

(* From the last bit of the length down to bit 0.  For a length of 0 the   *)
(* loop starts below 0 and never meets it: -1 stands for no answer.        *)
get_bitmap_set_count(map) ==
  IF map.len = 0 THEN -1 ELSE Cardinality(map.ones \cap (0 .. LEN_TO_BITNUM(map.len) - 1))
=============================================================================
