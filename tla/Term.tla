-------------------------------- MODULE Term --------------------------------
(***************************************************************************)
(* The cell grid of src/st.c: the Term struct (both screens, dirty rows,   *)
(* tab stops, cursor, scroll region, mode bits, lastc) and the static      *)
(* saved-cursor slots of tcursor(), driven by every sequence the core      *)
(* handles.  One step is one complete input sequence, fed through tputc()  *)
(* from the idle parser state: a printable, a C0/C1 control, an ESC final, *)
(* a CSI sequence with its parameters, or a call of tresize().             *)
(*                                                                         *)
(* Data is abstracted: a glyph is its code point (a model value of a      *)
(* small set) and the three layout bits wrap, wide and wdummy; colours and *)
(* text attributes are left out because no handler of the grid reads them. *)
(* Printable glyphs stand for code points outside 0x41..0x7E, for which   *)
(* the DEC special-graphics translation of tsetchar() is the identity.     *)
(* The primitives are operators on a record with the fields of Term, so    *)
(* that a handler is the composition of the calls it makes, in order.      *)
(***************************************************************************)
EXTENDS Integers, FiniteSets, SequencesExt

CONSTANTS
  Cols, Rows,      \* the geometry given to tnew(col, row)
  Narrow,          \* printable glyphs of width 1
  Wide,            \* printable glyphs of width 2 (wcwidth() = 2)
  Args,            \* values a CSI parameter holds after csiparse()
  Sizes,           \* <<col, row>> pairs the host passes to tresize()
  IntBits,         \* width of the C int the CSI arithmetic is done in
  TabSpaces,       \* config.h tabspaces
  AllowAltScreen,  \* config.h allowaltscreen
  PrivateModes,    \* parameters of CSI ? h/l (DECSET/DECRST) fed
  AnsiModes,       \* parameters of CSI h/l (SM/RM) fed
  Inputs           \* names of the other sequences fed (the actions below)

ASSUME Cols >= 1 /\ Rows >= 1 /\ TabSpaces >= 1 /\ IntBits >= 2
ASSUME Narrow \cap Wide = {} /\ AllowAltScreen \in BOOLEAN

VARIABLES line, alt, dirty, col, row, c, top, bot, mode, tabs, lastc, saved,
          oob   \* ghost: some write landed outside the row it addressed

vars == <<line, alt, dirty, col, row, c, top, bot, mode, tabs, lastc, saved, oob>>

NUL == "NUL"
Blank == [u |-> " ", mode |-> {}]
Glyphs == [u : Narrow \cup Wide \cup {" ", "?", "E", NUL},
           mode : SUBSET {"wrap", "wide", "wdummy"}]
Cursors == [x : Int, y : Int, state : SUBSET {"wrapnext", "origin"}]

\* C int arithmetic.  Signed overflow is undefined behaviour: the build
\* produces either the two's-complement wrap or the exact value.
IntMin == -(2 ^ (IntBits - 1))
IntMax == 2 ^ (IntBits - 1) - 1
CInt(v) == ((v - IntMin) % (2 ^ IntBits)) + IntMin
IntSum(a, b) == {CInt(a + b), a + b}

\* The LIMIT and DEFAULT macros of st.h.
Limit(v, lo, hi) == IF v < lo THEN lo ELSE IF v > hi THEN hi ELSE v
Default(a, d) == IF a = 0 THEN d ELSE a
ModBit(s, set, b) == IF set THEN s \cup {b} ELSE s \ {b}

\* The state as the record the primitives take and return.
T == [line |-> line, alt |-> alt, dirty |-> dirty, col |-> col, row |-> row,
      c |-> c, top |-> top, bot |-> bot, mode |-> mode, tabs |-> tabs,
      lastc |-> lastc, saved |-> saved, oob |-> oob]

Becomes(t) ==
  /\ line' = t.line  /\ alt' = t.alt   /\ dirty' = t.dirty /\ col' = t.col
  /\ row' = t.row    /\ c' = t.c       /\ top' = t.top     /\ bot' = t.bot
  /\ mode' = t.mode  /\ tabs' = t.tabs /\ lastc' = t.lastc /\ saved' = t.saved
  /\ oob' = t.oob

-----------------------------------------------------------------------------
(* Primitives of st.c, each the function of the same name.                 *)

TSetDirt(t, y1, y2) ==
  LET lo == Limit(y1, 0, t.row - 1)
      hi == Limit(y2, 0, t.row - 1)
  IN [t EXCEPT !.dirty = [y \in DOMAIN @ |-> @[y] \/ y \in lo..hi]]

TFullDirt(t) == TSetDirt(t, 0, t.row - 1)

TClearRegion(t, x1, y1, x2, y2) ==
  LET xa == Limit(IF x1 > x2 THEN x2 ELSE x1, 0, t.col - 1)
      xb == Limit(IF x1 > x2 THEN x1 ELSE x2, 0, t.col - 1)
      ya == Limit(IF y1 > y2 THEN y2 ELSE y1, 0, t.row - 1)
      yb == Limit(IF y1 > y2 THEN y1 ELSE y2, 0, t.row - 1)
  IN [t EXCEPT
        !.line = [y \in DOMAIN @ |->
                   IF y \in ya..yb
                   THEN [x \in DOMAIN @[y] |-> IF x \in xa..xb THEN Blank ELSE @[y][x]]
                   ELSE @[y]],
        !.dirty = [y \in DOMAIN @ |-> @[y] \/ y \in ya..yb]]

TMoveTo(t, x, y) ==
  LET origin == "origin" \in t.c.state
      miny == IF origin THEN t.top ELSE 0
      maxy == IF origin THEN t.bot ELSE t.row - 1
  IN [t EXCEPT !.c = [x |-> Limit(x, 0, t.col - 1), y |-> Limit(y, miny, maxy),
                      state |-> @.state \ {"wrapnext"}]]

TMoveATo(t, x, y) ==
  TMoveTo(t, x, CInt(y + (IF "origin" \in t.c.state THEN t.top ELSE 0)))

\* The swap loops of tscrollup/tscrolldown move the rows of the region by n;
\* the n rows cleared beforehand land at the other end of the region.
TScrollUp(t, orig, n0) ==
  LET n  == Limit(n0, 0, t.bot - orig + 1)
      t1 == TSetDirt(TClearRegion(t, 0, orig, t.col - 1, orig + n - 1), orig + n, t.bot)
  IN [t1 EXCEPT !.line = [y \in DOMAIN @ |->
        IF y \in orig..t1.bot
        THEN @[IF y <= t1.bot - n THEN y + n ELSE y - (t1.bot - orig + 1 - n)]
        ELSE @[y]]]

TScrollDown(t, orig, n0) ==
  LET n  == Limit(n0, 0, t.bot - orig + 1)
      t1 == TClearRegion(TSetDirt(t, orig, t.bot - n), 0, t.bot - n + 1, t.col - 1, t.bot)
  IN [t1 EXCEPT !.line = [y \in DOMAIN @ |->
        IF y \in orig..t1.bot
        THEN @[IF y >= orig + n THEN y - n ELSE y + (t1.bot - orig + 1 - n)]
        ELSE @[y]]]

TNewLine(t, firstcol) ==
  LET atbot == t.c.y = t.bot
      t1 == IF atbot THEN TScrollUp(t, t.top, 1) ELSE t
  IN TMoveTo(t1, IF firstcol THEN 0 ELSE t.c.x, IF atbot THEN t.c.y ELSE t.c.y + 1)

\* Writing over one half of a wide glyph blanks the other half; for a
\* wdummy cell in column 0 the code writes line[y][-1], outside the row.
TSetChar(t, u, x, y) ==
  LET g  == t.line[y][x]
      t1 == CASE "wide" \in g.mode /\ x + 1 < t.col ->
                   [t EXCEPT !.line[y][x + 1] = [u |-> " ", mode |-> @.mode \ {"wdummy"}]]
              [] "wide" \notin g.mode /\ "wdummy" \in g.mode /\ x = 0 ->
                   [t EXCEPT !.oob = TRUE]
              [] "wide" \notin g.mode /\ "wdummy" \in g.mode /\ x > 0 ->
                   [t EXCEPT !.line[y][x - 1] = [u |-> " ", mode |-> @.mode \ {"wide"}]]
              [] OTHER -> t
  IN [t1 EXCEPT !.dirty[y] = TRUE, !.line[y][x] = [u |-> u, mode |-> {}]]

TDeleteChar(t, n0) ==
  LET n == Limit(n0, 0, t.col - t.c.x)
      x0 == t.c.x
      y == t.c.y
      t1 == [t EXCEPT !.line[y] = [x \in DOMAIN @ |->
               IF x >= x0 /\ x < t.col - n THEN @[x + n] ELSE @[x]]]
  IN TClearRegion(t1, t.col - n, y, t.col - 1, y)

TInsertBlank(t, n0) ==
  LET n == Limit(n0, 0, t.col - t.c.x)
      x0 == t.c.x
      y == t.c.y
      t1 == [t EXCEPT !.line[y] = [x \in DOMAIN @ |-> IF x >= x0 + n THEN @[x - n] ELSE @[x]]]
  IN TClearRegion(t1, x0, y, x0 + n - 1, y)

TInsertBlankLine(t, n) ==
  IF t.c.y \in t.top..t.bot THEN TScrollDown(t, t.c.y, n) ELSE t

TDeleteLine(t, n) ==
  IF t.c.y \in t.top..t.bot THEN TScrollUp(t, t.c.y, n) ELSE t

\* tputtab: the loops of st.c advance over tab stops, the column limit and
\* column 0 ending them; the result is clamped, the wrapnext bit is kept.
NextStop(t, x) == Min({z \in x + 1..t.col : z = t.col \/ t.tabs[z]})
PrevStop(t, x) == Max({z \in 0..x - 1 : z = 0 \/ t.tabs[z]})
RECURSIVE TabFwd(_, _, _), TabBack(_, _, _)
TabFwd(t, x, n)  == IF x < t.col /\ n > 0 THEN TabFwd(t, NextStop(t, x), n - 1) ELSE x
TabBack(t, x, n) == IF x > 0 /\ n < 0 THEN TabBack(t, PrevStop(t, x), n + 1) ELSE x

TPutTab(t, n) ==
  [t EXCEPT !.c.x = Limit(IF n > 0 THEN TabFwd(t, t.c.x, n)
                          ELSE IF n < 0 THEN TabBack(t, t.c.x, n) ELSE t.c.x,
                          0, t.col - 1)]

TSwapScreen(t) ==
  TFullDirt([t EXCEPT !.line = t.alt, !.alt = t.line,
                      !.mode = SymDiff(@, {"altscreen"})])

AltIdx(t) == IF "altscreen" \in t.mode THEN 1 ELSE 0

\* Variant with a plausible bug: the saved cursor is restored as it was
\* stored, without the tmoveto that clamps it to the current geometry.
TCursorLoadUnclamped(t) ==
  LET s == t.saved[AltIdx(t)] IN [t EXCEPT !.c = [s EXCEPT !.state = @ \ {"wrapnext"}]]

TCursorSave(t) == [t EXCEPT !.saved[AltIdx(t)] = t.c]
TCursorLoad(t) ==
  LET s == t.saved[AltIdx(t)] IN TMoveTo([t EXCEPT !.c = s], s.x, s.y)
TCursor(t, save) == IF save THEN TCursorSave(t) ELSE TCursorLoad(t)

TSetScroll(t, t0, b0) ==
  LET a == Limit(t0, 0, t.row - 1)
      b == Limit(b0, 0, t.row - 1)
  IN [t EXCEPT !.top = Min({a, b}), !.bot = Max({a, b})]

InitialTabs(n) == [x \in 0..n - 1 |-> x > 0 /\ x % TabSpaces = 0]
DefaultCursor == [x |-> 0, y |-> 0, state |-> {}]

\* treset: both rounds of its loop save the home cursor, clear and swap.
TReset(t) ==
  LET t0 == [t EXCEPT !.c = DefaultCursor, !.tabs = InitialTabs(t.col), !.top = 0,
                      !.bot = t.row - 1, !.mode = {"wrap"}]
      Round(s) == TSwapScreen(TClearRegion(TCursorSave(TMoveTo(s, 0, 0)),
                                           0, 0, s.col - 1, s.row - 1))
  IN Round(Round(t0))

\* tresize: rows above the cursor are dropped so that it stays on screen,
\* kept cells are copied, cells that are new are blanked by tclearregion on
\* both screens, the tab vector is grown from its last stop, the region is
\* reset and the cursor clamped; the loop swaps and reloads twice.
\* Variant with a plausible bug: the tab vector is not reallocated.
ResizeTabsKept(t, ncol) == t.tabs

ResizeTabs(t, ncol) ==
  IF ncol > t.col
  THEN LET set  == {x \in 1..t.col - 1 : t.tabs[x]}
           last == IF set = {} THEN 0 ELSE Max(set)
       IN [x \in 0..ncol - 1 |-> (x < t.col /\ t.tabs[x])
                                 \/ (x > last /\ (x - last) % TabSpaces = 0)]
  ELSE [x \in 0..ncol - 1 |-> t.tabs[x]]

TResize(t, ncol, nrow) ==
  IF ncol < 1 \/ nrow < 1 THEN t
  ELSE
  LET drop   == IF t.c.y - nrow + 1 > 0 THEN t.c.y - nrow + 1 ELSE 0
      minrow == Min({nrow, t.row})
      mincol == Min({ncol, t.col})
      Keep(scr) == [y \in 0..nrow - 1 |-> [x \in 0..ncol - 1 |->
                      IF y < minrow /\ x < mincol THEN scr[y + drop][x] ELSE Blank]]
      t1 == [t EXCEPT !.line = Keep(t.line), !.alt = Keep(t.alt),
                      !.dirty = [y \in 0..nrow - 1 |-> TRUE],
                      !.tabs = ResizeTabs(t, ncol), !.col = ncol, !.row = nrow]
      t2 == TMoveTo(TSetScroll(t1, 0, nrow - 1), t1.c.x, t1.c.y)
      Round(s) == TCursorLoad(TSwapScreen(s))
  IN [Round(Round(t2)) EXCEPT !.c = t2.c]

\* The printable branch of tputc for a glyph u of width w, step by step:
\* a pending wrap marks the cell and moves to the next line; insert mode
\* shifts the rest of the row right; a glyph that does not fit moves to
\* the next line; tsetchar writes it and lastc records it; a wide glyph
\* gets its flag and, if there is room, a wdummy cell; finally the cursor
\* advances or the wrap becomes pending.
PutWrapPending(t) ==
  IF "wrap" \in t.mode /\ "wrapnext" \in t.c.state
  THEN TNewLine([t EXCEPT !.line[t.c.y][t.c.x].mode = @ \cup {"wrap"}], TRUE)
  ELSE t

PutInsertShift(t, w) ==
  IF "insert" \in t.mode /\ t.c.x + w < t.col
  THEN [t EXCEPT !.line[t.c.y] = [x \in DOMAIN @ |-> IF x >= t.c.x + w THEN @[x - w] ELSE @[x]]]
  ELSE t

PutOverflow(t, w) == IF t.c.x + w > t.col THEN TNewLine(t, TRUE) ELSE t

PutWide(t, w) ==
  CASE w = 2 /\ t.c.x + 1 < t.col ->
         [t EXCEPT !.line[t.c.y][t.c.x].mode = @ \cup {"wide"},
                   !.line[t.c.y][t.c.x + 1] = [u |-> NUL, mode |-> {"wdummy"}]]
    [] w = 2 -> [t EXCEPT !.line[t.c.y][t.c.x].mode = @ \cup {"wide"}]
    [] OTHER -> t

PutAdvance(t, w) ==
  IF t.c.x + w < t.col THEN TMoveTo(t, t.c.x + w, t.c.y)
  ELSE [t EXCEPT !.c.state = @ \cup {"wrapnext"}]

PutSetChar(t, u) == [TSetChar(t, u, t.c.x, t.c.y) EXCEPT !.lastc = u]

TPutChar(t, u, w) ==
  PutAdvance(PutWide(PutSetChar(PutOverflow(PutInsertShift(PutWrapPending(t), w), w), u), w), w)

Width(u) == IF u \in Wide THEN 2 ELSE 1

\* REP: tputc(lastc) n times (each intermediate state is computed once).
RECURSIVE TRepeat(_, _)
TRepeat(t, n) ==
  IF n > 0
  THEN LET next == CHOOSE s \in {TPutChar(t, t.lastc, Width(t.lastc))} : TRUE
       IN TRepeat(next, n - 1)
  ELSE t

\* DECALN: tsetchar('E') on every cell, column by column.
TDecTest(t) ==
  LET Col(s, x) == FoldLeft(LAMBDA a, y : TSetChar(a, "E", x, y), s,
                            [i \in 1..s.row |-> i - 1])
  IN FoldLeft(Col, t, [i \in 1..t.col |-> i - 1])

\* Variant with a plausible bug: leaving the alternate screen swaps back
\* without clearing it.
TAltScreenUncleared(t, set) ==
  IF set # ("altscreen" \in t.mode) THEN TSwapScreen(t) ELSE t

\* Variant with a plausible bug: the screens are swapped before the
\* alternate one is cleared, so leaving clears the primary instead.
TAltScreenSwapFirst(t, set) ==
  LET isalt == "altscreen" \in t.mode
      t1 == IF set # isalt THEN TSwapScreen(t) ELSE t
  IN IF isalt THEN TClearRegion(t1, 0, 0, t.col - 1, t.row - 1) ELSE t1

\* The alternate-screen part of tsetmode shared by modes 47, 1047 and 1049.
TAltScreen(t, set) ==
  LET isalt == "altscreen" \in t.mode
      t1 == IF isalt THEN TClearRegion(t, 0, 0, t.col - 1, t.row - 1) ELSE t
  IN IF set # isalt THEN TSwapScreen(t1) ELSE t1

-----------------------------------------------------------------------------
(* tnew(col, row): tresize from the empty Term, then treset.               *)
Init ==
  /\ line  = [y \in 0..Rows - 1 |-> [x \in 0..Cols - 1 |-> Blank]]
  /\ alt   = line
  /\ dirty = [y \in 0..Rows - 1 |-> TRUE]
  /\ col = Cols
  /\ row = Rows
  /\ c = DefaultCursor
  /\ top = 0
  /\ bot = Rows - 1
  /\ mode = {"wrap"}
  /\ tabs = InitialTabs(Cols)
  /\ lastc = NUL
  /\ saved = [i \in {0, 1} |-> DefaultCursor]
  /\ oob = FALSE

(* Printables: the printable branch of tputc.                              *)
Put(u) == Becomes(TPutChar(T, u, Width(u)))

(* C0 and C1 controls: tcontrolcode, after which tputc clears lastc since  *)
(* no escape is pending.                                                   *)
Control(t) == Becomes([t EXCEPT !.lastc = NUL])
HT  == Control(TPutTab(T, 1))
BS  == Control(TMoveTo(T, c.x - 1, c.y))
CR  == Control(TMoveTo(T, 0, c.y))
LF  == Control(TNewLine(T, "crlf" \in mode))          \* also VT and FF
SUB == Control(TSetChar(T, "?", c.x, c.y))
C1NEL == Control(TNewLine(T, TRUE))                    \* 0x85
C1HTS == Control([T EXCEPT !.tabs[c.x] = TRUE])        \* 0x88
IgnoredControl == Control(T)     \* BEL, CAN, ENQ, NUL, XON, XOFF, DEL, other C1

(* ESC finals: eschandle and the ESC # 8 branch of tputc.                  *)
IND  == Becomes(IF c.y = bot THEN TScrollUp(T, top, 1) ELSE TMoveTo(T, c.x, c.y + 1))
NEL  == Becomes(TNewLine(T, TRUE))
HTS  == Becomes([T EXCEPT !.tabs[c.x] = TRUE])
RI   == Becomes(IF c.y = top THEN TScrollDown(T, top, 1) ELSE TMoveTo(T, c.x, c.y - 1))
RIS  == Becomes(TReset(T))
DECSC == Becomes(TCursorSave(T))
DECRC == Becomes(TCursorLoad(T))
DECALN == Becomes(TDecTest(T))

(* CSI sequences: the cases of csihandle, parameter n as parsed.           *)
ICH(n) == Becomes(TInsertBlank(T, Default(n, 1)))
CUU(n) == \E y \in IntSum(c.y, -Default(n, 1)) : Becomes(TMoveTo(T, c.x, y))
CUD(n) == \E y \in IntSum(c.y, Default(n, 1)) : Becomes(TMoveTo(T, c.x, y))   \* B, e
CUF(n) == \E x \in IntSum(c.x, Default(n, 1)) : Becomes(TMoveTo(T, x, c.y))   \* C, a
CUB(n) == \E x \in IntSum(c.x, -Default(n, 1)) : Becomes(TMoveTo(T, x, c.y))
CNL(n) == \E y \in IntSum(c.y, Default(n, 1)) : Becomes(TMoveTo(T, 0, y))
CPL(n) == \E y \in IntSum(c.y, -Default(n, 1)) : Becomes(TMoveTo(T, 0, y))
TBC(n) == Becomes(CASE n = 0 -> [T EXCEPT !.tabs[c.x] = FALSE]
                    [] n = 3 -> [T EXCEPT !.tabs = [x \in DOMAIN @ |-> FALSE]]
                    [] OTHER -> T)
CHA(n) == \E x \in IntSum(Default(n, 1), -1) : Becomes(TMoveTo(T, x, c.y))     \* G, `
CUP(n, m) ==                                                                   \* H, f
  \E y \in IntSum(Default(n, 1), -1), x \in IntSum(Default(m, 1), -1) :
    Becomes(TMoveATo(T, x, y))
CHT(n) == Becomes(TPutTab(T, Default(n, 1)))
ED(n) ==
  Becomes(CASE n = 0 -> LET t1 == TClearRegion(T, c.x, c.y, col - 1, c.y)
                        IN IF c.y < row - 1 THEN TClearRegion(t1, 0, c.y + 1, col - 1, row - 1)
                           ELSE t1
            [] n = 1 -> LET t1 == IF c.y > 1 THEN TClearRegion(T, 0, 0, col - 1, c.y - 1)
                                  ELSE T
                        IN TClearRegion(t1, 0, c.y, c.x, c.y)
            [] n = 2 -> TClearRegion(T, 0, 0, col - 1, row - 1)
            [] OTHER -> T)
EL(n) ==
  Becomes(CASE n = 0 -> TClearRegion(T, c.x, c.y, col - 1, c.y)
            [] n = 1 -> TClearRegion(T, 0, c.y, c.x, c.y)
            [] n = 2 -> TClearRegion(T, 0, c.y, col - 1, c.y)
            [] OTHER -> T)
SU(n)  == Becomes(TScrollUp(T, top, Default(n, 1)))
SD(n)  == Becomes(TScrollDown(T, top, Default(n, 1)))
IL(n)  == Becomes(TInsertBlankLine(T, Default(n, 1)))
DL(n)  == Becomes(TDeleteLine(T, Default(n, 1)))
ECH(n) == \E x \in IntSum(c.x, Default(n, 1) - 1) :
            Becomes(TClearRegion(T, c.x, c.y, x, c.y))
DCH(n) == Becomes(TDeleteChar(T, Default(n, 1)))
CBT(n) == Becomes(TPutTab(T, CInt(-Default(n, 1))))
VPA(n) == \E y \in IntSum(Default(n, 1), -1) : Becomes(TMoveATo(T, c.x, y))
REP(n) == Becomes(IF lastc # NUL THEN TRepeat(T, Default(n, 1)) ELSE T)
DECSTBM(n, m) ==
  \E a \in IntSum(Default(n, 1), -1), b \in IntSum(Default(m, row), -1) :
    Becomes(TMoveATo(TSetScroll(T, a, b), 0, 0))
SCOSC == Becomes(TCursorSave(T))                                               \* CSI s
SCORC == Becomes(TCursorLoad(T))                                               \* CSI u

(* tsetmode with one parameter; modes only the host acts on are omitted.   *)
DECSET(set, m) ==                                                              \* CSI ? m h/l
  Becomes(CASE m = 6    -> TMoveATo([T EXCEPT !.c.state = ModBit(@, set, "origin")], 0, 0)
            [] m = 7    -> [T EXCEPT !.mode = ModBit(@, set, "wrap")]
            [] m = 1049 -> IF AllowAltScreen
                           THEN TCursor(TAltScreen(TCursor(T, set), set), set)
                           ELSE T
            [] m \in {47, 1047} -> IF AllowAltScreen THEN TAltScreen(T, set) ELSE T
            [] m = 1048 -> TCursor(T, set)
            [] OTHER    -> T)
SM(set, m) ==                                                                  \* CSI m h/l
  Becomes(CASE m = 4  -> [T EXCEPT !.mode = ModBit(@, set, "insert")]
            [] m = 20 -> [T EXCEPT !.mode = ModBit(@, set, "crlf")]
            [] OTHER  -> T)

(* The host resizing the terminal.                                          *)
Resize(nc, nr) == Becomes(TResize(T, nc, nr))
-----------------------------------------------------------------------------
\* A sequence is fed only if the run names it in Inputs.
Fed(name) == name \in Inputs

Next ==
  \/ \E u \in Narrow \cup Wide : Put(u)
  \/ (Fed("HT") /\ HT)       \/ (Fed("BS") /\ BS)     \/ (Fed("CR") /\ CR)
  \/ (Fed("LF") /\ LF)       \/ (Fed("SUB") /\ SUB)   \/ (Fed("C1NEL") /\ C1NEL)
  \/ (Fed("C1HTS") /\ C1HTS) \/ (Fed("IgnoredControl") /\ IgnoredControl)
  \/ (Fed("IND") /\ IND)     \/ (Fed("NEL") /\ NEL)   \/ (Fed("HTS") /\ HTS)
  \/ (Fed("RI") /\ RI)       \/ (Fed("RIS") /\ RIS)   \/ (Fed("DECSC") /\ DECSC)
  \/ (Fed("DECRC") /\ DECRC) \/ (Fed("DECALN") /\ DECALN)
  \/ (Fed("SCOSC") /\ SCOSC) \/ (Fed("SCORC") /\ SCORC)
  \/ \E n \in Args :
       \/ (Fed("ICH") /\ ICH(n)) \/ (Fed("CUU") /\ CUU(n)) \/ (Fed("CUD") /\ CUD(n))
       \/ (Fed("CUF") /\ CUF(n)) \/ (Fed("CUB") /\ CUB(n)) \/ (Fed("CNL") /\ CNL(n))
       \/ (Fed("CPL") /\ CPL(n)) \/ (Fed("TBC") /\ TBC(n)) \/ (Fed("CHA") /\ CHA(n))
       \/ (Fed("CHT") /\ CHT(n)) \/ (Fed("ED") /\ ED(n))   \/ (Fed("EL") /\ EL(n))
       \/ (Fed("SU") /\ SU(n))   \/ (Fed("SD") /\ SD(n))   \/ (Fed("IL") /\ IL(n))
       \/ (Fed("DL") /\ DL(n))   \/ (Fed("ECH") /\ ECH(n)) \/ (Fed("DCH") /\ DCH(n))
       \/ (Fed("CBT") /\ CBT(n)) \/ (Fed("VPA") /\ VPA(n)) \/ (Fed("REP") /\ REP(n))
  \/ \E n, m \in Args : (Fed("CUP") /\ CUP(n, m)) \/ (Fed("DECSTBM") /\ DECSTBM(n, m))
  \/ \E set \in BOOLEAN :
       \/ \E m \in PrivateModes : DECSET(set, m)
       \/ \E m \in AnsiModes : SM(set, m)
  \/ \E s \in Sizes : Resize(s[1], s[2])

Spec == Init /\ [][Next]_vars

-----------------------------------------------------------------------------
(* Properties.                                                             *)

TypeOK ==
  /\ col \in Nat \ {0} /\ row \in Nat \ {0}
  /\ line \in [0..row - 1 -> [0..col - 1 -> Glyphs]]
  /\ alt \in [0..row - 1 -> [0..col - 1 -> Glyphs]]
  /\ dirty \in [0..row - 1 -> BOOLEAN]
  /\ tabs \in [0..col - 1 -> BOOLEAN]
  /\ c \in Cursors /\ saved \in [{0, 1} -> Cursors]
  /\ top \in Int /\ bot \in Int
  /\ mode \subseteq {"wrap", "insert", "altscreen", "crlf"}
  /\ lastc \in Narrow \cup Wide \cup {NUL}
  /\ oob \in BOOLEAN

\* Spec invariants 1 and 2: whatever was fed and however the host resized,
\* the cursor is on the grid and the scroll region is a range of its rows;
\* in origin mode (DECOM) the cursor never leaves the region.  Moves,
\* restores of a cursor saved before a resize or a DECSTBM, and tresize
\* itself must all clamp for this to hold.
CursorInBounds ==
  /\ c.x \in 0..col - 1
  /\ c.y \in 0..row - 1
  /\ 0 <= top /\ top <= bot /\ bot <= row - 1
  /\ "origin" \in c.state => c.y \in top..bot

\* While the primary screen is shown the alternate buffer is blank, so that
\* entering it (modes 47, 1047, 1049) always shows a clean screen: leaving
\* the alternate screen must clear it, and reset and resize must keep it so.
AltScreenClean ==
  "altscreen" \notin mode => \A y \in DOMAIN alt : \A x \in DOMAIN alt[y] : alt[y][x] = Blank

\* Spec 8.2: the right half of every wide glyph is a wdummy cell and every
\* wdummy cell is the right half of a wide glyph.
WidePairing ==
  \A y \in DOMAIN line : \A x \in DOMAIN line[y] :
    /\ "wide" \in line[y][x].mode /\ x + 1 < col => "wdummy" \in line[y][x + 1].mode
    /\ "wdummy" \in line[y][x].mode => x > 0 /\ "wide" \in line[y][x - 1].mode

\* No handler writes a glyph outside the row it addresses (tsetchar fixing
\* up the left half of a wide glyph in column 0 would).
NoOutOfRowWrite == ~oob

\* ECH ("erase n characters") erases from the cursor on: no cell left of
\* the cursor changes, whatever parameter csiparse() produced.
EraseCharsFromCursor ==
  [][\A n \in Args : ECH(n) => \A x \in 0..c.x - 1 : line'[c.y][x] = line[c.y][x]]_vars

\* CUF ("cursor forward n") never moves the cursor to the left.
CursorForwardNeverBack ==
  [][\A n \in Args : CUF(n) => c'.x >= c.x]_vars

====
