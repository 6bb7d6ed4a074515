------------------------------- MODULE MCTerm -------------------------------
(* Small instances of Term for TLC.                                         *)
EXTENDS Term

\* Resizes that shrink and grow each dimension, and one rejected request.
MCSizes == {<<2, 1>>, <<3, 2>>, <<0, 1>>}

\* Every sequence of Term's Next.
MCAllInputs ==
  {"HT", "BS", "CR", "LF", "SUB", "C1NEL", "C1HTS", "IgnoredControl",
   "IND", "NEL", "HTS", "RI", "RIS", "DECSC", "DECRC", "DECALN", "SCOSC", "SCORC",
   "ICH", "CUU", "CUD", "CUF", "CUB", "CNL", "CPL", "TBC", "CHA", "CHT", "ED", "EL",
   "SU", "SD", "IL", "DL", "ECH", "DCH", "CBT", "VPA", "REP", "CUP", "DECSTBM"}

\* The sequences that write, erase or move glyphs, save and restore the
\* cursor, or reset, with CUP for every cursor position: what decides the
\* content of the alternate buffer.
MCContentInputs ==
  {"LF", "SUB", "IND", "RI", "RIS", "DECSC", "DECRC", "DECALN",
   "ICH", "ED", "EL", "SU", "SD", "IL", "DL", "ECH", "DCH", "REP", "CUP", "DECSTBM"}

\* Resizes for the runs on the alternate screen: one row fewer and back.
MCAltSizes == {<<2, 1>>, <<2, 2>>}

\* A negative parameter: strtol() in csiparse() accepts a sign, so
\* "ESC [ - 1 X" gives ECH the parameter -1.
MCNegArgs == {-1}

\* A saved cursor as tcursor(CURSOR_LOAD) uses it: its wrapnext bit is
\* cleared by the tmoveto that follows the load, so it is never observed.
Loadable(s) == [x |-> s.x, y |-> s.y, origin |-> "origin" \in s.state]

\* TRUE, but evaluating it makes TLC turn the function-valued variables a
\* view leaves out into explicit records before a state is queued on disk.
Materialised == line = line /\ alt = alt /\ dirty = dirty

\* The part of the state the cursor, the region, the tab stops and the modes
\* live in.  No handler reads a glyph to decide where the cursor goes, what
\* the region is, which stops are set or which modes are on, and insert
\* mode only decides whether a printable shifts the glyphs after it, so this
\* part evolves on its own and a run about it may fingerprint only it.  The
\* value of TypeOK is part of it, so that a state whose glyphs break the
\* type is never merged with one whose glyphs keep it.
GeometryView ==
  <<Materialised, TypeOK, col, row, c, top, bot, mode \ {"insert"}, tabs, lastc,
    Loadable(saved[0]), Loadable(saved[1])>>

\* The buffer that is not the primary screen: the shown one while the
\* alternate screen is on, the swapped-out one while it is off.  Outside
\* the alternate screen no handler but treset and tresize touches it.
AltBuffer == IF "altscreen" \in mode THEN line ELSE alt

\* The geometry and the alternate buffer, a glyph in it only as blank or
\* not and its layout bits: no handler reads which code point a cell holds.
AltView ==
  <<GeometryView,
    [y \in DOMAIN AltBuffer |-> [x \in DOMAIN AltBuffer[y] |->
       <<AltBuffer[y][x].u = " ", AltBuffer[y][x].mode>>]]>>
====
