-------------------------------- MODULE Dump --------------------------------
(***************************************************************************)
(* The dumps of src/st.c read over the grid of Term: tlinelen(), and the   *)
(* rows tdump2buf() and tdump2cb() write, row by row, as the UTF-8 bytes   *)
(* of each glyph (utf8encode() of Utf8.tla) with a newline between rows.   *)
(* tdump2cb() gathers the bytes in a malloc(CHUNK_SIZE) buffer and hands   *)
(* it to the host callback goSTDumpCB() whenever the next glyph would not  *)
(* fit; the callback is the host's and only receives the chunk.            *)
(*                                                                         *)
(* The dumps read the grid and change nothing in it, so they are operators *)
(* on a screen: scr the rows line[0..nrow-1], each a function on           *)
(* 0..ncol-1 to glyphs as Term.tla has them (a code point name u and the   *)
(* layout bits in mode).                                                   *)
(***************************************************************************)
EXTENDS Utf8, SequencesExt

CONSTANTS
  CHUNK_SIZE,   \* size of the chunk buffer, defined by the host build
  CodeOf        \* the code point each glyph of Term stands for

ASSUME CHUNK_SIZE >= UTF_SIZ

\* tlinelen(t, y): the whole row when its last cell carries ATTR_WRAP,
\* otherwise the row up to its last cell that is not a space.
TLineLen(scr, ncol, y) ==
  IF "wrap" \in scr[y][ncol - 1].mode THEN ncol
  ELSE LET used == {x \in 0..ncol - 1 : scr[y][x].u # " "}
       IN IF used = {} THEN 0 ELSE Max(used) + 1

\* The cells the row loop of tdump2buf()/tdump2cb() encodes: bp runs to end
\* = &line[y][MIN(tlinelen, col) - 1], and nothing is written when bp is
\* end and holds a space.
DumpedCells(scr, ncol, y) ==
  LET n == Min({TLineLen(scr, ncol, y), ncol})
  IN IF n # 1 \/ scr[y][0].u # " " THEN [i \in 1..n |-> scr[y][i - 1]] ELSE <<>>

\* The bytes utf8encode() writes for each glyph, computed once.
GlyphBytes == [g \in DOMAIN CodeOf |-> Utf8Encode(CodeOf[g])]

\* One write into the output: the bytes utf8encode() gives for a glyph, or
\* the newline written after every row but the last.
RowWrites(scr, ncol, nrow, y) ==
  LET cells == DumpedCells(scr, ncol, y)
  IN [i \in 1..Len(cells) |-> [nl |-> FALSE, bytes |-> GlyphBytes[cells[i].u]]]
     \o (IF y + 1 # nrow THEN <<[nl |-> TRUE, bytes |-> <<10>>]>> ELSE <<>>)

DumpWrites(scr, ncol, nrow) ==
  FlattenSeq([y \in 1..nrow |-> RowWrites(scr, ncol, nrow, y - 1)])

\* tdump2buf(t, out): the bytes written to out; its result is their number.
Dump2Buf(scr, ncol, nrow) ==
  LET ws == DumpWrites(scr, ncol, nrow) IN FlattenSeq([i \in 1..Len(ws) |-> ws[i].bytes])

\* One write of tdump2cb(): a glyph that would take l past CHUNK_SIZE first
\* sends the l bytes gathered and starts a fresh chunk (tot += l, l = 0);
\* the newline is stored without that test.
CbWriteNoTot(s, w) ==
  IF ~w.nl /\ Len(s.buf) + Len(w.bytes) > CHUNK_SIZE
  THEN [chunks |-> Append(s.chunks, s.buf), tot |-> s.tot, buf |-> w.bytes]
  ELSE [s EXCEPT !.buf = @ \o w.bytes]
CbWrite(s, w) ==
  IF ~w.nl /\ Len(s.buf) + Len(w.bytes) > CHUNK_SIZE
  THEN [chunks |-> Append(s.chunks, s.buf), tot |-> s.tot + Len(s.buf), buf |-> w.bytes]
  ELSE [s EXCEPT !.buf = @ \o w.bytes]

RECURSIVE CbFrom(_, _, _)
CbFrom(ws, s, k) == IF k > Len(ws) THEN s ELSE CbFrom(ws, CbWrite(s, ws[k]), k + 1)

\* tdump2cb(t, context): the chunks goSTDumpCB() receives, in order (the
\* last one only if it is not empty), and the result tot + l.
Dump2Cb(scr, ncol, nrow) ==
  LET s == CbFrom(DumpWrites(scr, ncol, nrow), [chunks |-> <<>>, tot |-> 0, buf |-> <<>>], 1)
  IN [chunks |-> IF s.buf # <<>> THEN Append(s.chunks, s.buf) ELSE s.chunks,
      ret |-> s.tot + Len(s.buf)]
====
