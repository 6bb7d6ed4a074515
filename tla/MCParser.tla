------------------------------ MODULE MCParser ------------------------------
(***************************************************************************)
(* Model values and definitions that instantiate Parser for TLC.          *)
(***************************************************************************)
EXTENDS Parser, TLC

CONSTANTS t1, t2

\* Code points fed.  Controls: BEL, LF, CAN, ESC, NEL, ST, OSC.  Bytes of
\* sequences: '#', '%', '(', '1', '7', '8', ';', '@', 'G', '[', '\', ']',
\* 'c', 's', 'u'.  Outside ASCII: U+0137, whose low byte is '7', and
\* U+10000, four bytes in UTF-8.
MCRunes == {7, 10, 24, 27, 133, 156, 157,
            35, 37, 40, 49, 55, 56, 59, 64, 71, 91, 92, 93, 99, 115, 117,
            311, 65536}

MCTerm1 == {t1}
MCTerms == {t1, t2}

\* ESC, [ and 1: enough to hold two CSI sequences open at once.
MCCsiRunes == {27, 91, 49}

\* The code points that start, fill and end strings: BEL, ESC, ST, OSC,
\* '1', ']', '\', and U+0137 and U+10000, two and four bytes in UTF-8,
\* with ESC % G and ESC % @ to switch MODE_UTF8.
MCStrRunes == {7, 27, 156, 157, 49, 93, 92, 311, 65536, 37, 71, 64}

MCSymmetry == Permutations(MCTerms)

\* The state without the ghosts, and without the contents of an accumulator
\* no terminal can read again (csiescseq is read only in ESC_CSI, strescseq
\* only in ESC_STR or ESC_STR_END), of which only the
\* lengths the invariants read are kept.  last and input are written, never
\* read.
DeadCsi == IF \E t \in Terms : "CSI" \in esc[t] THEN csi ELSE Len(csi.buf)
DeadStr == IF \E t \in Terms : esc[t] \cap {"STR", "STR_END"} # {} THEN str ELSE <<str.len, str.siz>>
\* The invariants' values are part of the view, so that a state that breaks
\* one is never merged with a state that does not.
Verdicts == <<CsiTerminatorFits, StrTerminatorFits>>
ParserView == <<esc, utf8, lastc, cur, saved, created, DeadCsi, DeadStr, Verdicts>>
=============================================================================
