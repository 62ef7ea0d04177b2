---------------------------- MODULE MCAlgorithms ----------------------------
(***************************************************************************)
(* The pure algorithms of the repository, each compared with what it is to *)
(* compute.  A state is one input of one of them: a text that grows byte   *)
(* by byte, a bitmap after any calls, a range, an array of ranges that     *)
(* grows entry by entry.                                                   *)
(***************************************************************************)
EXTENDS Base64, Bitmap, Ranges, TLC

CONSTANTS Bytes, MaxBytes,        \* texts
          BitNums, Ends,          \* bitmaps, and the bounds of the calls on them
          Width, WideStarts,      \* ranges: all of Width bits, some of 11 bits
          MaxNumber, MaxRanges    \* arrays of ranges

VARIABLE input

Init ==
  \/ input = [what |-> "text", bytes |-> <<>>]
  \/ \E b \in BitNums : input = [what |-> "bitmap", bitnum |-> b, map |-> bitmap_new(b)]
  \/ \E s, e \in 0 .. 2 ^ Width - 1 : s <= e /\ input = [what |-> "range", w |-> Width, s |-> s, e |-> e]
  \/ \E s \in WideStarts, e \in WideStarts :
       s < e /\ input = [what |-> "range", w |-> 11, s |-> s, e |-> e - 1]
  \/ input = [what |-> "ranges", ranges |-> <<>>]

AddByte ==
  /\ input.what = "text" /\ Len(input.bytes) < MaxBytes
  /\ \E b \in Bytes : input' = [input EXCEPT !.bytes = Append(@, b)]

CallBitmap ==
  /\ input.what = "bitmap"
  /\ \E map \in {bitmap_clr_all(input.map)} \cup
       UNION {{bitmap_set(input.map, b), bitmap_clr(input.map, b)} : b \in Ends} \cup
       UNION {{bitmap_set_range(input.map, b, c), bitmap_clr_range(input.map, b, c)} :
                b \in Ends, c \in Ends \cap 0 .. input.bitnum} :
       input' = [input EXCEPT !.map = map]

AddRange ==
  /\ input.what = "ranges" /\ Len(input.ranges) < MaxRanges
  /\ \E s, e \in 0 .. MaxNumber :
       s <= e /\ input' = [input EXCEPT !.ranges = Append(@, [start |-> s, end |-> e])]

Next == AddByte \/ CallBitmap \/ AddRange

Spec == Init /\ [][Next]_input
-----------------------------------------------------------------------------
Text   == input.what = "text"
Code   == b64encode(input.bytes)
Quanta == (Len(input.bytes) + 2) \div 3

(* base64decode is the inverse of the encoding for every text, blanks in   *)
(* front of the code or not: no length is rounded wrong, and the padding   *)
(* takes off what it added.                                                *)
RoundTrip == Text => \A blanks \in {<<>>, <<32, 9>>} : base64decode(blanks \o Code) = input.bytes

(* In place, no quantum is overwritten before it is read, because the      *)
(* decoded data is smaller; so all that can differ is the padding, which   *)
(* is looked up after the loop: the in-place decoder gives what            *)
(* base64decode gives but for texts of two bytes, whose only quantum is    *)
(* overwritten by then.                                                    *)
InPlaceReadsUnspoiled ==
  Text => /\ \A q \in 0 .. Quanta - 1, k \in 1 .. 4 :
               Buffers(Code, TRUE)[q].in[4 * q + k] = Code[4 * q + k]
          /\ Len(input.bytes) # 2 => base64decodeInplace(Code) = input.bytes

(* "This is like base64decode(), but does the decode in-place in the       *)
(* source buffer" (seuBase64.c:288).                                       *)
InPlaceIsLike == Text => base64decodeInplace(Code) = base64decode(Code)

(* After any calls on a map, what one function says of it is what the      *)
(* others did: get_bitmap_set_count returns "how many bits have been set   *)
(* to 1" (bitmap_test.c:134) unless bitmap_clr_all has cleared the length  *)
(* with the bits; what is cleared as a range is found zero as that range,  *)
(* what is set is not.  Calls within the number of bits asked for stay     *)
(* inside the memory, the checked ones always, those on a range unless     *)
(* that number fills its last byte and the range goes up to the last bit.  *)
MapFunctionsAgree ==
  input.what = "bitmap" =>
    /\ input.map.outside => input.bitnum % 8 = 7
    /\ input.map.len # 0 =>
         get_bitmap_set_count(input.map) = Cardinality(input.map.ones \cap Inside(input.map))
    /\ \A b, c \in Ends : b <= c =>
         /\ is_bitmap_range_zero(bitmap_clr_range(input.map, b, c), b, c)
         /\ ~is_bitmap_range_zero(bitmap_set_range(input.map, b, c), b, c)

Blocks   == range2cidr(input.s, input.e, input.w)
Block(b) == b.cidr .. b.cidr + 2 ^ (input.w - b.prefix) - 1

(* The blocks of a range are aligned, follow one another and cover it,     *)
(* unless one of them has 2^10 addresses or more, for which mask_map has   *)
(* the wrong mask.  They are at most two of each size below the largest,   *)
(* so that 2 * max_prefix - 2 entries are room enough (cidr_max is not     *)
(* looked at).                                                             *)
BlocksPartition ==
  input.what = "range" /\ (\A i \in DOMAIN Blocks : input.w - Blocks[i].prefix < 10) =>
    /\ Len(Blocks) <= 2 * input.w - 2
    /\ UNION {Block(Blocks[i]) : i \in DOMAIN Blocks} = input.s .. input.e
    /\ \A i, k \in DOMAIN Blocks : i # k => Block(Blocks[i]) \cap Block(Blocks[k]) = {}
    /\ \A i \in DOMAIN Blocks : Blocks[i].cidr % 2 ^ (input.w - Blocks[i].prefix) = 0

Result  == range_sort_merge(input.ranges)
Numbers(ranges) == UNION {ranges[i].start .. ranges[i].end : i \in DOMAIN ranges} \ {0}

(* 0 marks an unused entry, and a range that starts at 0, or at 1 beside   *)
(* an unused entry, can be merged with one.                                *)
ZeroIsApart ==
  /\ \A i \in DOMAIN input.ranges : input.ranges[i].start = 0 => input.ranges[i] = Unused
  /\ (\E i \in DOMAIN input.ranges : input.ranges[i] = Unused)
       => \A i \in DOMAIN input.ranges : input.ranges[i].start # 1

(* Sorting and merging keeps the numbers that are in some range, 0 aside,  *)
(* leaves ranges that neither overlap nor touch, in order, and returns how *)
(* many they are if no unused entry was merged with a range.               *)
MergeKeepsNumbers ==
  input.what = "ranges" /\ input.ranges # <<>> =>
    /\ Numbers(Result.range) = Numbers(input.ranges)
    /\ Len(Result.range) = Len(input.ranges)
    /\ \A i, k \in DOMAIN Result.range :
         i < k /\ Result.range[i] # Unused /\ Result.range[k] # Unused
           => Result.range[i].end + 1 < Result.range[k].start
    /\ ZeroIsApart => Result.cnt = Cardinality({n \in Numbers(input.ranges) :
                                                  n - 1 \notin Numbers(input.ranges)})

=============================================================================
