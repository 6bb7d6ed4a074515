------------------------------- MODULE Escape -------------------------------
(***************************************************************************)
(* The escape-sequence parser of src/st.c as operators: what tputc() does  *)
(* with one code point u fed to a terminal t, outside the grid.  The state *)
(* a call reads and writes is a record s with                              *)
(*   esc, utf8, lastc, cur, last   the fields of t's Term the parser uses  *)
(*                                 (MODE_UTF8 as utf8, lastc # 0 as lastc) *)
(*   csi, str, saved               csiescseq, strescseq and the static c[2] *)
(*                                 of tcursor()                            *)
(* so that a module decides where csi, str and saved live: Parser.tla has *)
(* one of each for all terminals, as st.c does.                            *)
(*                                                                         *)
(* Data is abstracted to what the properties tell apart:                   *)
(*  - the CSI buffer keeps its bytes (csiparse() reads them) and the set of *)
(*    terminals that appended to it (from);                               *)
(*  - the STR buffer keeps its type, len and siz, and from; its bytes are   *)
(*    not kept, because every strhandle() branch ends in a host stub;      *)
(*  - a cursor is the terminal whose cursor it is (cur, saved);            *)
(*  - the grid effects of dispatched commands are Term.tla's; here a       *)
(*    dispatch is recorded in the ghost field last.                        *)
(***************************************************************************)
EXTENDS Integers, Sequences, FiniteSets

CONSTANTS
  Terms,       \* the terminals created with tnew()
  Runes,       \* the code points fed to tputc()
  EscBufSiz,   \* ESC_BUF_SIZ, the size of csiescseq.buf (128 * UTF_SIZ)
  EscArgSiz,   \* ESC_ARG_SIZ, the capacity of csiescseq.arg
  SizeMax      \* SIZE_MAX, scaled down with EscBufSiz

UTF_SIZ == 4
STR_BUF_SIZ == EscBufSiz

ASSUME EscBufSiz >= 2 /\ EscArgSiz >= 1 /\ SizeMax > 2 * STR_BUF_SIZ + UTF_SIZ
ASSUME Runes \subseteq Nat

Flags == {"START", "CSI", "STR", "ALTCHARSET", "STR_END", "TEST", "UTF8"}

\* The ISCONTROLC0, ISCONTROLC1 and ISCONTROL macros.
IsControlC0(u) == u \in 0..31 \/ u = 127
IsControlC1(u) == u \in 128..159
IsControl(u) == IsControlC0(u) \/ IsControlC1(u)

\* The length utf8encode() gives: utf8validate() replaces an invalid code
\* point by U+FFFD, then the length is the first class whose utfmax holds it.
Utf8Len(u) ==
  LET v == IF u > 1114111 \/ u \in 55296..57343 THEN 65533 ELSE u   \* 0x10FFFF, surrogates, U+FFFD
  IN  IF v <= 127 THEN 1 ELSE IF v <= 2047 THEN 2 ELSE IF v <= 65535 THEN 3 ELSE 4

\* The byte count tputc() encodes u into.
ULen(s, u) == IF u < 127 \/ ~s.utf8 THEN 1 ELSE Utf8Len(u)

\* A Rune passed where st.c takes a char or uchar keeps its low byte.
Byte(u) == u % 256

NoDispatch == [kind |-> "none", cmd |-> 0, from |-> {}]
EmptyCsi == [buf |-> <<>>, from |-> {}]
EmptyStr == [type |-> 0, len |-> 0, siz |-> 0, from |-> {}]

-----------------------------------------------------------------------------
(* csiparse(): the byte strtol() stops at, and the byte left in mode[0].  *)

RECURSIVE SkipWhile(_, _, _)
SkipWhile(b, i, set) == IF i <= Len(b) /\ b[i] \in set THEN SkipWhile(b, i + 1, set) ELSE i

\* strtol(p, &np, 10): optional white space, an optional sign, decimal
\* digits; with no digit, np is p.
StrtolEnd(b, p) ==
  LET j == SkipWhile(b, p, {32, 9, 10, 11, 12, 13})
      k == IF j <= Len(b) /\ b[j] \in {43, 45} THEN j + 1 ELSE j
      d == SkipWhile(b, k, 48..57)
  IN  IF d = k THEN p ELSE d

\* The loop of csiparse(): one argument per ';', at most ESC_ARG_SIZ.
RECURSIVE CsiArgsEnd(_, _, _)
CsiArgsEnd(b, p, narg) ==
  IF p > Len(b) THEN p
  ELSE LET np == StrtolEnd(b, p)
       IN  IF np <= Len(b) /\ b[np] = 59 /\ narg + 1 # EscArgSiz
           THEN CsiArgsEnd(b, np + 1, narg + 1)
           ELSE np

\* mode[0]: the byte after the arguments, or the NUL csiparse() wrote at len.
CsiParse(b) ==
  LET p == CsiArgsEnd(b, IF Len(b) >= 1 /\ b[1] = 63 THEN 2 ELSE 1, 0)
  IN  IF p <= Len(b) THEN b[p] ELSE 0
-----------------------------------------------------------------------------
(* The accumulators and the saved cursors.                                 *)

CsiReset(s) == [s EXCEPT !.csi = EmptyCsi]

\* strreset() reallocates the buffer to STR_BUF_SIZ and zeroes the rest;
\* tstrsequence() then stores the type and enters ESC_STR.
TStrSequence(s, t, c) ==
  LET type == CASE c = 144 -> 80 [] c = 159 -> 95 [] c = 158 -> 94
                [] c = 157 -> 93 [] OTHER -> c
  IN  [s EXCEPT !.str = [type |-> type, len |-> 0, siz |-> STR_BUF_SIZ, from |-> {t}],
                !.esc = @ \cup {"STR"}]

\* The append of the STR branch of tputc(): double the buffer when the bytes
\* would reach siz, unless siz is past the ceiling, then drop them.
StrGrowsPast(s, n) == s.str.len + n > s.str.siz
StrGrows(s, n) == s.str.len + n >= s.str.siz
StrAtCeiling(s) == s.str.siz > (SizeMax - UTF_SIZ) \div 2
StrAppend(s, t, n) ==
  IF StrGrows(s, n) /\ StrAtCeiling(s) THEN s
  ELSE [s EXCEPT !.str.siz = IF StrGrows(s, n) THEN 2 * @ ELSE @,
                 !.str.len = @ + n,
                 !.str.from = @ \cup {t}]

\* strhandle(): leave the string states, parse, hand to a host stub.
StrHandle(s) ==
  [s EXCEPT !.esc = @ \ {"STR_END", "STR"},
            !.last = [kind |-> "str", cmd |-> s.str.type, from |-> s.str.from]]

\* tcursor() with MODE_ALTSCREEN clear: the slot is c[0].
TCursorSave(s) == [s EXCEPT !.saved[0] = s.cur]
TCursorLoad(s) == [s EXCEPT !.cur = s.saved[0]]

\* treset() as seen by the parser: a fresh cursor, saved into both slots,
\* and mode = MODE_WRAP|MODE_UTF8.
TReset(s, t) == [s EXCEPT !.cur = t, !.saved = [i \in 0..1 |-> t], !.utf8 = TRUE]
-----------------------------------------------------------------------------
(* The handlers.                                                           *)

\* The cases of tcontrolcode() that return before the final clearing.
Returns == {9, 8, 13, 12, 11, 10, 27, 14, 15, 5, 0, 17, 19, 127, 144, 157, 158, 159}

\* tcontrolcode(): ESC starts a sequence, DCS/OSC/PM/APC start a string,
\* BEL ends a terminated string, SUB and CAN reset the CSI buffer; every
\* case that breaks leaves the string states.
TControlCode(s, t, u) ==
  CASE u = 27 -> [CsiReset(s) EXCEPT !.esc = (@ \ {"CSI", "ALTCHARSET", "TEST"}) \cup {"START"}]
    [] u \in {144, 157, 158, 159} -> TStrSequence(s, t, u)
    [] u \in Returns -> s
    [] OTHER ->
        LET h == CASE u = 7 /\ "STR_END" \in s.esc -> StrHandle(s)
                   [] u \in {26, 24} -> CsiReset(s)
                   [] OTHER -> s
        IN  [h EXCEPT !.esc = @ \ {"STR_END", "STR"}]

\* The control branch of tputc(): lastc is cleared only when no escape state
\* is left.
ControlBranch(s, t, u) ==
  LET h == TControlCode(s, t, u)
  IN  IF h.esc = {} THEN [h EXCEPT !.lastc = FALSE] ELSE h

\* csihandle() for the finals with an effect outside the grid.
CsiHandle(s, t) ==
  LET cmd == CsiParse(s.csi.buf)
      d == [s EXCEPT !.last = [kind |-> "csi", cmd |-> cmd, from |-> s.csi.from]]
  IN  CASE cmd = 115 -> TCursorSave(d)        \* s: SCOSC
        [] cmd = 117 -> TCursorLoad(d)        \* u: SCORC
        [] OTHER -> d

\* eschandle(t, (uchar) u): the record after it and whether the sequence is
\* finished (its return value).
EscHandle(s, t, a) ==
  LET done == [s EXCEPT !.last = [kind |-> "esc", cmd |-> a, from |-> {t}]]
  IN  CASE a = 91 -> <<[s EXCEPT !.esc = @ \cup {"CSI"}], FALSE>>
        [] a = 35 -> <<[s EXCEPT !.esc = @ \cup {"TEST"}], FALSE>>
        [] a = 37 -> <<[s EXCEPT !.esc = @ \cup {"UTF8"}], FALSE>>
        [] a \in {80, 95, 94, 93, 107} -> <<TStrSequence(s, t, a), FALSE>>
        [] a \in 40..43 -> <<[s EXCEPT !.esc = @ \cup {"ALTCHARSET"}], FALSE>>
        [] a = 55 -> <<TCursorSave(done), TRUE>>
        [] a = 56 -> <<TCursorLoad(done), TRUE>>
        [] a = 99 -> <<TReset(done, t), TRUE>>
        [] a = 92 /\ "STR_END" \in s.esc -> <<StrHandle(done), TRUE>>
        [] OTHER -> <<done, TRUE>>

\* The CSI part of the escape branch: store the low byte, dispatch on a
\* final byte or when the buffer is one short of full.
CsiFullAtSize(s) == Len(s.csi.buf) >= EscBufSiz
CsiFull(s) == Len(s.csi.buf) >= EscBufSiz - 1
CsiByte(s, t, u) ==
  LET a == [s EXCEPT !.csi = [buf |-> Append(@.buf, Byte(u)), from |-> @.from \cup {t}]]
  IN  IF u \in 64..126 \/ CsiFull(a) THEN CsiHandle([a EXCEPT !.esc = {}], t) ELSE a

\* tdefutf8(): ESC % G sets and ESC % @ clears MODE_UTF8.
TDefUtf8(s, a) ==
  [s EXCEPT !.utf8 = IF a = 71 THEN TRUE ELSE IF a = 64 THEN FALSE ELSE @]

\* The escape branch of tputc(); tdeftran() and tdectest() change only the
\* charset table and the grid.
EscBranch(s, t, u) ==
  CASE "CSI" \in s.esc -> CsiByte(s, t, u)
    [] "UTF8" \in s.esc -> [TDefUtf8(s, Byte(u)) EXCEPT !.esc = {}]
    [] "ALTCHARSET" \in s.esc \/ "TEST" \in s.esc -> [s EXCEPT !.esc = {}]
    [] OTHER -> LET r == EscHandle(s, t, Byte(u))
                IN  IF r[2] THEN [r[1] EXCEPT !.esc = {}] ELSE r[1]

\* tputc(): the STR branch first, then control codes, then escapes, then
\* the printable branch, which sets lastc.
StrTerminator(u) == u \in {7, 24, 26, 27} \/ IsControlC1(u)
TPutc(s, t, u) ==
  CASE "STR" \in s.esc /\ StrTerminator(u) ->
         ControlBranch([s EXCEPT !.esc = (@ \ {"START", "STR"}) \cup {"STR_END"}], t, u)
    [] "STR" \in s.esc -> StrAppend(s, t, ULen(s, u))
    [] IsControl(u) -> ControlBranch(s, t, u)
    [] "START" \in s.esc -> EscBranch(s, t, u)
    [] OTHER -> [s EXCEPT !.lastc = TRUE]
=============================================================================
