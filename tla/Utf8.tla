-------------------------------- MODULE Utf8 --------------------------------
(***************************************************************************)
(* The UTF-8 codec of src/st.c: utf8decode(), utf8decodebyte(),            *)
(* utf8encode(), utf8encodebyte() and utf8validate(), as pure operators.   *)
(* A byte is a number in 0..255, a char buffer a sequence of bytes, a Rune *)
(* a natural number.  The C arrays utfbyte, utfmask, utfmin and utfmax are *)
(* functions on 0..UTF_SIZ, indexed as in the code.                        *)
(*                                                                         *)
(* RefEncode is the encoding of RFC 3629, written independently of the     *)
(* code, and Scalars its domain: the code points outside the surrogates.   *)
(***************************************************************************)
EXTENDS Integers, Sequences, Bitwise

UTF_INVALID == 65533
UTF_SIZ == 4

Table(s) == [i \in 0..UTF_SIZ |-> s[i + 1]]
utfbyte == Table(<<128, 0, 192, 224, 240>>)
utfmask == Table(<<192, 128, 224, 240, 248>>)
utfmin == Table(<<0, 0, 128, 2048, 65536>>)
utfmax == Table(<<1114111, 127, 2047, 65535, 1114111>>)

IsSurrogate(u) == 55296 <= u /\ u <= 57343

\* utf8decodebyte(c, &i): the first class i whose mask matches the byte, or
\* LEN(utfmask) when none does; the payload bits of the byte, or 0.
DecodeClass(c) ==
  LET matches == {i \in 0..UTF_SIZ : (c & utfmask[i]) = utfbyte[i]}
  IN IF matches = {} THEN UTF_SIZ + 1
     ELSE CHOOSE i \in matches : \A j \in matches : i <= j
Utf8DecodeByte(c) ==
  LET i == DecodeClass(c)
  IN <<IF i <= UTF_SIZ THEN c & (255 - utfmask[i]) ELSE 0, i>>

\* utf8validate(&u, i): u becomes UTF_INVALID outside utfmin[i]..utfmax[i]
\* or among the surrogates; the result is the least length whose utfmax
\* bounds the (new) u.  Returns <<u, length>>.
Utf8ValidateNoSurrogates(u, i) ==
  LET v == IF u < utfmin[i] \/ u > utfmax[i] THEN UTF_INVALID ELSE u
  IN <<v, CHOOSE k \in 1..UTF_SIZ : v <= utfmax[k] /\ \A j \in 1..k - 1 : v > utfmax[j]>>
Utf8ValidateNoMin(u, i) ==
  LET v == IF u > utfmax[i] \/ IsSurrogate(u) THEN UTF_INVALID ELSE u
  IN <<v, CHOOSE k \in 1..UTF_SIZ : v <= utfmax[k] /\ \A j \in 1..k - 1 : v > utfmax[j]>>
Utf8Validate(u, i) ==
  LET v == IF u < utfmin[i] \/ u > utfmax[i] \/ IsSurrogate(u) THEN UTF_INVALID ELSE u
  IN <<v, CHOOSE k \in 1..UTF_SIZ : v <= utfmax[k] /\ \A j \in 1..k - 1 : v > utfmax[j]>>

\* utf8encodebyte(u, i): utfbyte[i] | (u & ~utfmask[i]) returned as a char,
\* so only the low eight bits of u reach the result.
Utf8EncodeByte(u, i) == utfbyte[i] | ((u % 256) & (255 - utfmask[i]))

\* utf8encode(u, c): the bytes written to c, whose number is the result.
\* The continuation bytes are written from the last one back, u shifted
\* right by six bits after each; the lead byte takes what is left.
Utf8Encode(u) ==
  LET v == Utf8Validate(u, 0)
      len == v[2]
  IN [i \in 1..len |->
        IF i = 1 THEN Utf8EncodeByte(v[1] \div 64 ^ (len - 1), len)
        ELSE Utf8EncodeByte(v[1] \div 64 ^ (len - i), 0)]

\* The loop of utf8decode(): j bytes taken so far, ud the bits gathered.
RECURSIVE DecodeFrom(_, _, _, _)
DecodeFrom(c, len, ud, j) ==
  IF j < Len(c) /\ j < len
  THEN LET b == Utf8DecodeByte(c[j + 1])
       IN IF b[2] # 0 THEN [u |-> UTF_INVALID, len |-> j]
          ELSE DecodeFrom(c, len, (ud * 64) | b[1], j + 1)
  ELSE IF j < len THEN [u |-> UTF_INVALID, len |-> 0]
  ELSE [u |-> Utf8Validate(ud, len)[1], len |-> len]

\* utf8decode(c, &u, clen) with clen = Len(c): the code point stored in u
\* and the number of bytes consumed (0 when more bytes are needed).
Utf8Decode(c) ==
  IF Len(c) = 0 THEN [u |-> UTF_INVALID, len |-> 0]
  ELSE LET lead == Utf8DecodeByte(c[1])
       IN IF lead[2] < 1 \/ lead[2] > UTF_SIZ THEN [u |-> UTF_INVALID, len |-> 1]
          ELSE DecodeFrom(c, lead[2], lead[1], 1)

-----------------------------------------------------------------------------
(* The reference: RFC 3629.                                                *)

IsScalar(u) == u <= 1114111 /\ ~IsSurrogate(u)

Cont(u, k) == 128 + ((u \div 64 ^ k) % 64)

RefEncode(u) ==
  CASE u < 128   -> <<u>>
    [] u < 2048  -> <<192 + u \div 64, Cont(u, 0)>>
    [] u < 65536 -> <<224 + u \div 4096, Cont(u, 1), Cont(u, 0)>>
    [] OTHER     -> <<240 + u \div 262144, Cont(u, 2), Cont(u, 1), Cont(u, 0)>>

\* The well-formed byte sequences of RFC 3629 (its ABNF, section 4), one
\* row per form: the set each byte of that form may take.
ContByte == 128..191
WellFormed ==
  { <<0..127>>,
    <<194..223, ContByte>>,
    <<{224}, 160..191, ContByte>>, <<225..236, ContByte, ContByte>>,
    <<{237}, 128..159, ContByte>>, <<238..239, ContByte, ContByte>>,
    <<{240}, 144..191, ContByte, ContByte>>, <<241..243, ContByte, ContByte, ContByte>>,
    <<{244}, 128..143, ContByte, ContByte>> }

Matches(c, form) == Len(form) <= Len(c) /\ \A k \in 1..Len(form) : c[k] \in form[k]

\* The scalar the first k bytes of a well-formed sequence of n bytes
\* carry: the low 7 - n bits of a lead byte of n > 1 bytes, then six bits
\* per continuation byte.
RECURSIVE Gather(_, _, _)
Gather(c, n, k) ==
  IF k > 1 THEN Gather(c, n, k - 1) * 64 + (c[k] - 128)
  ELSE IF n = 1 THEN c[1] ELSE c[1] % 2 ^ (7 - n)

\* The forms c begins with (at most one).
RefForms(c) == {f \in WellFormed : Matches(c, f)}
====
