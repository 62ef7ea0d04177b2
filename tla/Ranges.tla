------------------------------- MODULE Ranges -------------------------------
(***************************************************************************)
(* The two algorithms on integer ranges of range2cidr/: range2cidr, which  *)
(* cuts a range into aligned blocks, and range_sort_merge, which sorts     *)
(* ranges and joins those that overlap or touch.  Numbers are below 2^31,  *)
(* so that nothing wraps.                                                  *)
(***************************************************************************)
EXTENDS Naturals, Sequences, SequencesExt

(* mask_map, each mask given by how many low bits it clears: up to 9 that  *)
(* is the index; from 10 on the table skips some lengths.                  *)
mask_map == << 0, 1, 2, 3, 4, 5, 6, 7, 8, 9, 11, 12, 13, 15, 16, 17, 19, 20, 21, 23, 24, 25,
               27, 28, 29, 31, 32 >>

Masked(s, j) == s - (s % 2 ^ mask_map[j + 1])

(* The index of the lowest bit of s that is one, or max_prefix.            *)
LowestBit(s, max_prefix) ==
  LET ones == {i \in 0 .. max_prefix - 1 : (s \div 2 ^ i) % 2 = 1}
  IN IF ones = {} THEN max_prefix ELSE Min(ones)

\* Mutation: a block may end one past the range.
BlockSizeOver(s, end, max_prefix) ==
  Max({j \in 0 .. LowestBit(s, max_prefix) : s + 2 ^ j - 2 <= end})

(* The largest aligned block at s that ends within the range.              *)
BlockSize(s, end, max_prefix) ==
  Max({j \in 0 .. LowestBit(s, max_prefix) : s + 2 ^ j - 1 <= end})

RECURSIVE range2cidr(_, _, _)
range2cidr(start, end, max_prefix) ==
  IF start > end THEN <<>>
  ELSE LET j == BlockSize(start, end, max_prefix) IN
       <<[cidr |-> Masked(start, j), prefix |-> max_prefix - j]>>
         \o range2cidr(start + 2 ^ j, end, max_prefix)

-----------------------------------------------------------------------------
is_range_overlap(r, t)  == ~(r.end < t.start \/ r.start > t.end)
is_range_adjacent(r, t) == r.start = t.end + 1 \/ t.start = r.end + 1

Swap(range, i, k) == [range EXCEPT ![i] = range[k], ![k] = range[i]]

(* The first of the smallest starts from place i on.                       *)
MinIndex(range, i) ==
  Min({j \in i .. Len(range) : \A k \in i .. Len(range) : range[j].start <= range[k].start})

(* The selection sort: place after place.                                  *)
Sorted(range) ==
  FoldLeft(LAMBDA r, i : Swap(r, i, MinIndex(r, i)), range, [i \in 1 .. Len(range) - 1 |-> i])

Unused == [start |-> 0, end |-> 0]

\* Mutation: the end of the later range is taken.
MergeOneLater(merged, r) ==
  LET t == Last(merged) IN
  IF r = Unused THEN merged
  ELSE IF is_range_overlap(r, t) \/ is_range_adjacent(r, t)
       THEN Append(Front(merged), [start |-> t.start, end |-> r.end])
       ELSE Append(merged, r)

(* One turn of the merge loop: tmp_range up to j is the sequence merged.   *)
MergeOne(merged, r) ==
  LET t == Last(merged) IN
  IF r = Unused THEN merged
  ELSE IF is_range_overlap(r, t) \/ is_range_adjacent(r, t)
       THEN Append(Front(merged), [start |-> Min({t.start, r.start}), end |-> Max({t.end, r.end})])
       ELSE Append(merged, r)

Merged(range) == FoldLeft(MergeOne, <<range[1]>>, Tail(range))

(* The count returned: entries with a start and an end other than 0.       *)
merge_cnt(merged) == Len(SelectSeq(merged, LAMBDA r : r.start # 0 /\ r.end # 0))

(* The array is filled up with unused entries; the result is the count.    *)
range_sort_merge(range) ==
  LET merged == Merged(Sorted(range)) IN
  [range |-> merged \o [i \in 1 .. Len(range) - Len(merged) |-> Unused],
   cnt   |-> merge_cnt(merged)]
=============================================================================
