------------------------------- MODULE Base64 -------------------------------
(***************************************************************************)
(* base64dec() and base64dec_getc() of src/st.c, which decode the payload  *)
(* of OSC 52, as pure operators.  A C string is the sequence of its bytes  *)
(* (0..255) before the terminating NUL; an index p is the position of the  *)
(* pointer src in it, Len(s) + 1 being the NUL.                            *)
(*                                                                         *)
(* RefB64 is the encoding of RFC 4648, section 4, with padding, written    *)
(* independently of the code.                                              *)
(***************************************************************************)
EXTENDS Integers, Sequences, Bitwise

\* base64_digits[c]: the value of a base64 digit, -1 for '=', 0 for every
\* other byte.  The array has 255 entries, so 0xff is not one of them; no
\* byte base64dec_getc() returns is 0xff.
Base64Digit(c) ==
  CASE c \in 65..90  -> c - 65
    [] c \in 97..122 -> c - 71
    [] c \in 48..57  -> c + 4
    [] c = 43        -> 62
    [] c = 47        -> 63
    [] c = 61        -> -1
    [] OTHER         -> 0

\* isprint(**src) on a plain char.  In the C locale only 0x20..0x7e are
\* printable; a byte above 0x7f is a negative char where char is signed and
\* is not printable either way.
IsPrint(c) == 32 <= c /\ c <= 126

\* base64dec_getc(&src): skip the bytes that are not printable; at the NUL
\* return '=' without moving.  Returns <<char, new position>>.
GetCNoSkip(s, p) == IF p > Len(s) THEN <<61, p>> ELSE <<s[p], p + 1>>
RECURSIVE GetC(_, _)
GetC(s, p) ==
  IF p > Len(s) THEN <<61, p>>
  ELSE IF ~IsPrint(s[p]) THEN GetC(s, p + 1)
  ELSE <<s[p], p + 1>>

\* xmalloc(in_len / 4 * 3 + 1), with in_len = strlen(src) rounded up to a
\* multiple of four.
Base64AllocUnrounded(s) == (Len(s) \div 4) * 3 + 1
Base64Alloc(s) ==
  LET inLen == IF Len(s) % 4 # 0 THEN Len(s) + 4 - (Len(s) % 4) ELSE Len(s)
  IN (inLen \div 4) * 3 + 1

\* The bytes one group of digits a, b, c, d writes: none when a or b is
\* -1, then one byte, a second unless c is -1, a third unless d is -1.
GroupBytes(a, b, c, d) ==
  IF a = -1 \/ b = -1 THEN <<>>
  ELSE <<(a * 4) | ((b & 48) \div 16)>>
       \o (IF c = -1 THEN <<>>
           ELSE <<((b & 15) * 16) | ((c & 60) \div 4)>>
                \o (IF d = -1 THEN <<>> ELSE <<((c & 3) * 64) | d>>))

\* The first of a, b, c, d that is -1 ends the loop with a break.
Stops(a, b, c, d) == a = -1 \/ b = -1 \/ c = -1 \/ d = -1

\* The loop while (*src) of base64dec(): four calls of base64dec_getc(),
\* the bytes of the group, then either a break or the next group.
RECURSIVE DecFrom(_, _, _)
DecFrom(s, p, out) ==
  IF p > Len(s) THEN out
  ELSE LET ga == GetC(s, p)
           gb == GetC(s, ga[2])
           gc == GetC(s, gb[2])
           gd == GetC(s, gc[2])
           dg == <<Base64Digit(ga[1]), Base64Digit(gb[1]),
                   Base64Digit(gc[1]), Base64Digit(gd[1])>>
           next == out \o GroupBytes(dg[1], dg[2], dg[3], dg[4])
       IN IF Stops(dg[1], dg[2], dg[3], dg[4]) THEN next ELSE DecFrom(s, gd[2], next)

\* base64dec(src): the bytes written before the final NUL, and the size of
\* the buffer they were written into, the NUL included.
Base64Dec(s) ==
  [out |-> DecFrom(s, 1, <<>>), alloc |-> Base64Alloc(s)]

-----------------------------------------------------------------------------
(* The reference: RFC 4648.                                                *)

Alphabet(v) ==
  CASE v < 26 -> 65 + v [] v < 52 -> 71 + v [] v < 62 -> v - 4
    [] v = 62 -> 43 [] OTHER -> 47

RECURSIVE RefB64(_)
RefB64(b) ==
  IF b = <<>> THEN <<>>
  ELSE LET n == IF Len(b) >= 3 THEN 3 ELSE Len(b)
           g == SubSeq(b, 1, n) \o [i \in 1..3 - n |-> 0]
           v == g[1] * 65536 + g[2] * 256 + g[3]
       IN [k \in 1..4 |-> IF k <= n + 1 THEN Alphabet((v \div 64 ^ (4 - k)) % 64) ELSE 61]
          \o RefB64(SubSeq(b, n + 1, Len(b)))
====
