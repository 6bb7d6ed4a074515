------------------------------- MODULE MCDump -------------------------------
(* Term with tdump2cb() reading its screen, for TLC.                        *)
EXTENDS Dump, MCTerm

\* A narrow glyph stands for U+00E9, two bytes in UTF-8; the blank, DECALN's
\* 'E', the '?' of the DEC graphics table and the NUL of a wdummy cell are
\* what they are.
MCCodeOf == [g \in {"a", " ", "E", "?", NUL} |->
               CASE g = "a" -> 233 [] g = " " -> 32 [] g = "E" -> 69
                 [] g = "?" -> 63 [] OTHER -> 0]

\* Spec section 6: dump_to_callback hands the callback chunks of at most
\* CHUNK_SIZE bytes, the size of the buffer tdump2cb() mallocs and writes
\* each chunk into, whatever screen the handlers have left.
DumpChunksFit ==
  LET d == Dump2Cb(line, col, row)
  IN \A i \in 1..Len(d.chunks) : Len(d.chunks[i]) <= CHUNK_SIZE
====
