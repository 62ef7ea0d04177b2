------------------------------- MODULE Base64 -------------------------------
(***************************************************************************)
(* b64encode and b64decode of base64/seuBase64.c and of its copy           *)
(* certifificate/seuBase64.c, over bytes 0 .. 255.  A buffer is the        *)
(* sequence of its bytes, with the terminating zero where the code relies  *)
(* on it.  The decoder is modelled quantum by quantum, because in place it *)
(* overwrites the buffer it reads.                                         *)
(***************************************************************************)
EXTENDS Naturals, Sequences, FiniteSetsExt, Bitwise

Pad64 == 61
Nul   == 0
Blank == {32, 9}

Base64(v) ==
  IF v < 26 THEN 65 + v ELSE IF v < 52 THEN 71 + v ELSE IF v < 62 THEN v - 4
  ELSE IF v = 62 THEN 43 ELSE 47

(* 64 for a byte that is no digit.                                         *)
pr2six(c) ==
  IF c \in 65 .. 90 THEN c - 65 ELSE IF c \in 97 .. 122 THEN c - 71
  ELSE IF c \in 48 .. 57 THEN c + 4 ELSE IF c = 43 THEN 62 ELSE IF c = 47 THEN 63 ELSE 64

-----------------------------------------------------------------------------
(* The four digits of the three bytes from src[i] on; bytes past the end   *)
(* count as zero.                                                          *)
Digits(src, i) ==
  LET input(k) == IF i + k <= Len(src) THEN src[i + k] ELSE 0 IN
  << input(0) \div 4,
     (input(0) % 4) * 16 + input(1) \div 16,
     (input(1) % 16) * 4 + input(2) \div 64,
     input(2) % 64 >>

targsize(srclength) == ((srclength + 2) \div 3) * 4 + 1

(* The whole quanta, then the one that is padded: one leftover byte gives  *)
(* two digits, two give three.  <<>> stands for the null pointer returned  *)
(* when the target is too small.                                           *)
b64encode(src) ==
  LET n == Len(src)
      target == [d \in 1 .. 4 * ((n + 2) \div 3) |->
                   LET q == (d - 1) \div 4
                       k == ((d - 1) % 4) + 1
                   IN IF k > n - 3 * q + 1 THEN Pad64
                      ELSE Base64(Digits(src, 3 * q + 1)[k])]
  IN IF Len(target) >= targsize(n) THEN <<>> ELSE Append(target, Nul)

-----------------------------------------------------------------------------
Skipped(bufCoded) == Min({i \in 1 .. Len(bufCoded) : bufCoded[i] \notin Blank}) - 1

nPrBytes(buf) == Min({i \in 1 .. Len(buf) : pr2six(buf[i]) > 63}) - 1

(* The three bytes of the q-th quantum.                                    *)
Bytes3(buf, q) ==
  LET v(k) == pr2six(buf[4 * q + k]) IN
  << ((v(1) * 4) | (v(2) \div 16)) % 256,
     ((v(2) * 16) | (v(3) \div 4)) % 256,
     ((v(3) * 64) | v(4)) % 256 >>

\* Mutation: in place, the output runs ahead of the input.
PutAhead(buf, q, bytes) ==
  [i \in 1 .. Len(buf) |-> IF i \in 4 * q + 3 .. 4 * q + 5 THEN bytes[i - 4 * q - 2] ELSE buf[i]]

(* The bytes of the q-th quantum at their place in the output.             *)
Put(buf, q, bytes) ==
  [i \in 1 .. Len(buf) |-> IF i \in 3 * q + 1 .. 3 * q + 3 THEN bytes[i - 3 * q] ELSE buf[i]]

(* The two buffers when q quanta are done; in place they are one.          *)
Buffers(code, inPlace) ==
  LET quanta == (nPrBytes(code) + 3) \div 4
      after[q \in 0 .. quanta] ==
        IF q = 0 THEN [in |-> code, out |-> code]
        ELSE LET out == Put(after[q-1].out, q-1, Bytes3(after[q-1].in, q-1))
             IN [in |-> IF inPlace THEN out ELSE code, out |-> out]
  IN after

\* Mutation: one byte whatever the padding.
PaddingOne(in, quanta) == 1

(* What the padding takes off: bufIn[-2] is read after the loop.           *)
Padding(in, quanta) == IF pr2six(in[4 * quanta - 1]) > 63 THEN 2 ELSE 1

(* The decoded bytes, without the zero that ends them.                     *)
b64decode(bufCoded, inPlace) ==
  LET code   == SubSeq(bufCoded, Skipped(bufCoded) + 1, Len(bufCoded))
      nPr    == nPrBytes(code)
      quanta == (nPr + 3) \div 4
      end    == Buffers(code, inPlace)[quanta]
      nBytesDecoded == 3 * quanta - IF nPr % 4 # 0 THEN Padding(end.in, quanta) ELSE 0
  IN SubSeq(end.out, 1, nBytesDecoded)

base64decode(bufCoded)        == b64decode(bufCoded, FALSE)
base64decodeInplace(bufCoded) == b64decode(bufCoded, TRUE)
=============================================================================
