# TLA+ models of the webexec terminal core (`src/st.c`)

`src/st.c` is the VT terminal emulator core of webexec, derived from st. The Go host
feeds it code points one at a time through `tputc(Term*, Rune)`, resizes it with
`tresize`, and reads the grid back through the dump functions. `src/win.h` declares
the host callbacks. In this repository they are all no-op stubs.

## Inventory of the system

| Part | State it keeps | Operations | Interacts with |
|---|---|---|---|
| Cell grid and cursor (`Term`) | `line`/`alt` screens (pointer-swapped); per-row `dirty`; `tabs`; cursor `c` {x, y, attr, state ⊆ {WRAPNEXT, ORIGIN}}; `top`/`bot`; `mode` bits {WRAP, INSERT, ALTSCREEN, CRLF, ECHO, PRINT, UTF8}; `lastc` | tmoveto, tmoveato, tsetchar, tclearregion, tscrollup/down, tnewline, tinsert/delete char/line, tputtab, tswapscreen, tsetscroll, treset, tnew, tresize | every handler below |
| Saved cursors | `static TCursor c[2]` in `tcursor`, indexed by the ALTSCREEN bit | DECSC/DECRC, CSI s/u, modes 1048/1049, treset, tresize | global: shared by all Terms |
| Escape parser | `t->esc` bits; global `csiescseq` (512-byte buffer, 16 args); global `strescseq` (growable buffer) | the branches of `tputc`, csiparse, csireset, strparse, strreset, tstrsequence | dispatches to csihandle, eschandle, tcontrolcode, strhandle |
| Handlers | none of their own | csihandle (CSI finals), eschandle (ESC finals), tcontrolcode (C0/C1), tsetmode (DEC/ANSI modes), tsetattr (SGR), strhandle (OSC/DCS/PM/APC) | grid, saved cursors, host stubs |
| UTF-8 and base64 | none (pure) | utf8decode/encode/validate, base64dec | tputc (encode), strhandle (OSC 52) |
| Dumps | none (read-only) | tlinelen, tdumpline, tdump2cb, tdump2buf | grid |

The hard behaviours are these:
- A handler is a composition of primitives. A trailing `tmoveto` clamps the cursor and clears WRAPNEXT. The clamps happen at different points in different handlers.
- Wide glyphs occupy two cells, and only `tsetchar` fixes up the partner cell.
- Saved cursors outlive resizes and region changes.
- The two screens swap by pointer, and `treset` and `tresize` loop over both screens.
- C `int` arithmetic on parameters that the host controls can overflow.
- The parser state is global and shared between terminals.

## Modules

- **`Term.tla`** is the grid. Its variables are the Term fields that some handler reads for control:
  - `line`, `alt`, `dirty`, `col`, `row`, `c`, `top`, `bot`, `mode`, `tabs`, `lastc`;
  - `saved`, the static `c[2]` of `tcursor`;
  - `oob`, a ghost flag set when `tsetchar` would write outside the row.

  Each st.c primitive is an operator of the same name, from a record of these fields to a record. A handler is the composition of the calls it makes, in code order, and `Becomes` assigns the result. Each action is one complete sequence fed from the idle parser state:
  - a printable (`Put`);
  - each C0/C1 control (`HT`, `BS`, `CR`, `LF`, `SUB`, `C1NEL`, `C1HTS`, `IgnoredControl`), each of which also clears `lastc`;
  - each ESC final (`IND`, `NEL`, `HTS`, `RI`, `RIS`, `DECSC`, `DECRC`, `DECALN`);
  - each grid-changing CSI final, with its parameter from `Args`;
  - `DECSET` and `SM` for the modes in `PrivateModes` and `AnsiModes`;
  - `Resize`.

  The constant `Inputs` names the sequences that a run feeds. A run that is about the geometry feeds all of them, and one that is about content feeds the sequences that change content.

  Data is abstracted:
  - A glyph is a code point from a small set plus the layout bits wrap, wide and wdummy.
  - Colours and text attributes are left out, because no handler branches on them.
  - C `int` overflow is `CInt`/`IntSum`. An overflowing sum may be the wrapped or the exact value, because the behaviour is undefined. The width is the constant `IntBits`.
- **`MCTerm.tla`** holds the MC definitions: the resize sets and the views. `GeometryView` keeps only what the cursor, region, tabs and modes depend on. No handler reads a glyph to decide geometry, so the view is closed under `Next`. `AltView` adds the alternate buffer, with each glyph reduced to "blank or not" plus its layout bits. Both views include `Materialised`, which is always TRUE. It makes TLC evaluate the function-valued variables that the view leaves out, so that queued states can be written to disk.

- **`MCAltScreen.tla`** adds a history variable `entry` to `Term`, for the alternate-screen run. While the alternate screen is shown, `entry` holds three things: the primary screen as `tsetmode` swapped it out (or as `tresize` last reshaped it), the cursor at that moment, and whether the swap was `CSI ? 1049 h`. `AltNext` is `Next` plus the update of `entry`, so the history records and never constrains. `AltTripView` adds to `AltView` the two facts `AltRoundTrip` reads: the swapped-out primary is still the recorded one, and the primary's saved slot still holds the recorded cursor.

- **`Escape.tla`** holds the parser of `tputc` as pure operators on one terminal's view of the parser state. That view is a record `s` with these fields:
  - `esc` (the `ESC_*` bits), `utf8` (MODE_UTF8), `lastc` and `cur`;
  - `csi`: the bytes of `csiescseq.buf` and the terminals that put them there;
  - `str`: `strescseq` with `type`, `len` and `siz` (the body as its length only);
  - `saved`: the static slots `c[2]`;
  - `last`, a ghost holding the latest dispatch (its kind, its command byte and the terminals whose bytes it read).

  `TPutc` is the whole of `tputc` outside the grid:
  - the STR branch, with the doubling of `siz` and the `SIZE_MAX` ceiling;
  - the control branch (`TControlCode`);
  - the escape branch: CSI accumulation with the forced dispatch one short of a full buffer, `EscHandle`, `TDefUtf8`, and the charset and test states;
  - printing, which only sets `lastc` here; the grid effect of printing is in `Term.tla`.

  `CsiParse`/`StrtolEnd`/`CsiArgsEnd` translate `csiparse` up to `mode[0]`. Argument values are not computed, because no parser property reads them. A Rune is narrowed to a byte (`Byte`) wherever the code passes it to a `char`/`uchar` parameter.
- **`Parser.tla`** holds several terminals. `esc`, `utf8`, `lastc` and `cur` are per terminal. `csi`, `str` and `saved` are single variables, because in st.c they are the file-scope statics `csiescseq`, `strescseq` and `c[2]`. The actions are these:
  - `Create(t)` is `tnew` of another terminal, whose `treset` overwrites the saved slots;
  - `Feed(t, u)` is one whole call of `tputc(t, u)`, for any created terminal, in any order.
- There is no abstract specification of the parser. Spec §5 says each `Term` owns its accumulators, but §9 states that this C source keeps them as file-scope statics and that only a reimplementation moves them into the `Term`. A per-terminal specification would therefore only restate a documented limitation. What the sharing breaks, the write past `csiescseq.buf`, is checked directly (parser_shared_csi).
- **`MCParser.tla`** holds the rune sets, symmetry, and `ParserView`:
  - The view drops the ghosts `last` and `input`.
  - It keeps a dead accumulator (one that no terminal can read) as its length only.
  - It includes `Verdicts`, the tuple of the runs' invariants. Under a VIEW, TLC checks invariants only on states that are new by the view. With the verdicts in the view, a state that breaks an invariant is never merged with one that keeps it. `GeometryView` includes `TypeOK` for the same reason.

- **`Utf8.tla`** holds the UTF-8 codec as pure operators. A byte is a number in 0..255 and a buffer is a sequence of bytes. The C tables `utfbyte`, `utfmask`, `utfmin` and `utfmax` are functions on 0..UTF_SIZ, indexed as in the code.
  - `Utf8DecodeByte`, `Utf8Validate`, `Utf8EncodeByte`, `Utf8Encode` and `Utf8Decode` follow the C functions of the same names. Their loops are the recursions `DecodeFrom` and the per-byte shifts of `Utf8Encode`.
  - `utf8encodebyte` returns a `char`, so only the low 8 bits of `u` reach the byte (`u % 256`).
  - The reference definitions below the line are written from RFC 3629, not from the code: `RefEncode`, the nine well-formed rows `WellFormed`, and `Gather`, the scalar a well-formed prefix carries.
- **`Base64.tla`** holds `base64dec`, `base64dec_getc` and the table `base64_digits` as operators. A C string is its bytes before the NUL.
  - `GetC` skips what `isprint` rejects in the C locale (bytes outside 0x20..0x7e), and at the NUL it returns `'='` without moving.
  - `DecFrom` is the `while (*src)` loop, one group of four digits per step, with its three breaks.
  - `Base64Alloc` is the size passed to `xmalloc`.
  - `RefB64` is the RFC 4648 encoder used as the reference.
- **`Dump.tla`** holds `tlinelen`, `tdump2buf` and `tdump2cb` as operators on a screen `(scr, ncol, nrow)`. The dumps read the grid and change nothing, so a screen is an argument and not a state.
  - `DumpWrites` is the sequence of writes both dumps make: the UTF-8 bytes of each cell up to `MIN(tlinelen, col)`, and a newline after each row but the last.
  - `CbWrite` is one write into the `malloc(CHUNK_SIZE)` buffer of `tdump2cb`. A glyph that would not fit first sends the chunk to `goSTDumpCB`. The newline is stored without that test, as in the code.
  - The constant `CodeOf` gives the code point each glyph name of `Term` stands for. `CHUNK_SIZE` comes from the host build; it is not defined in `src/`.
- **`Sgr.tla`** holds `tsetattr` and `tdefcolor` as operators on the cursor attribute `[mode, fg, bg]`. `mode` holds only the eight SGR bits, because the cursor never carries the layout bits.
  - `SgrStep` is one round of the `for (i = 0; i < l; i++)` loop and returns the attribute and the next `i`. `TDefColor` returns the colour and the moved `npar`, so the pointer argument of the C function becomes a second result.
  - `defaultfg`, `defaultbg` and `TRUECOLOR` come from the host's config.h and st.h, which are not in `src/`. They are the constants `DefaultFg` and `DefaultBg` (258 and 259 in the run), and `TrueColor`, which keeps the property that matters: a direct colour is never an index in 0..255 and never negative.
  - `RefSgr` is spec §4.9 read as a parse of the vector into codes and complete colour subsequences. It is written without the index arithmetic of the code.
- **`PureCalls.tla`** is a harness for the functions above, which depend only on their arguments. Its state is one call: `call` (the function and its arguments), `result` and `returned`. Each function is one action that returns its result. `Init` ranges over every argument in the constant sets, so one breadth-first level checks every call. Nothing follows a returned call, so this run, alone, has `CHECK_DEADLOCK FALSE`.
- **`MCPureCalls.tla`** holds the argument sets:
  - 16 code points on each boundary of the codec: 0, 0x7F/0x80, 0x7FF/0x800, 0xFFFF/0x10000, the surrogate edges, 0x10FFFF/0x110000, and 2^21 − 1;
  - every byte string of one lead byte followed by up to three bytes from a set of continuation and non-continuation bytes;
  - every message of up to 4 bytes over four values, in each of its standard encodings (padded, unpadded, and with a tab, LF or CR inserted anywhere);
  - junk payloads up to 5 characters;
  - two cursor attributes (the reset one, and one with bits and both kinds of colour) and every SGR vector of one to three tokens; a token is a code on the edge of a range tsetattr tests, an unknown code, -1, a complete 38/48 subsequence with components in or out of 0..255, or one cut short;
  - every screen of up to 4×1 or 2×2 cells over blank, a 2-byte glyph, a 3-byte wide glyph with its wdummy, and wrapped cells.
- **`MCDump.tla`** checks `tdump2cb` on the screens `Term` reaches: `DumpChunksFit` reads `Dump2Cb(line, col, row)`.

## Runs

| Run | cfg | Expect | Shows |
|---|---|---|---|
| term_geometry | TermGeometry.cfg | pass | `TypeOK`, `CursorInBounds` (spec §3 invariants 1–4). Every handler, DECOM, DECSC/DECRC and mode 1048, on a 3×2 grid resized to 2×1 and 3×2, with a no-op resize to 0×1. Args {0, 7} covers the default count and INT_MAX (IntBits 4), which clamps or overflows. About 53k distinct states. |
| term_altscreen | TermAltScreen.cfg (MCAltScreen) | pass | `AltScreenClean`: with modes 1047/1048/1049, reset and resize, the alternate buffer is blank whenever the primary screen shows. `AltRoundTrip` (spec §8 invariant 7, scenario S6): leaving the alternate screen shows the primary exactly as it was swapped out, and `CSI ? 1049 l` after `CSI ? 1049 h`, with no resize between, puts the cursor back where it was. 2×2 grid resized to 2×1, Args {1, 2}. It feeds the sequences that write, erase, scroll, save and restore, and reset, and CUP reaches every cell. About 105k states. |
| term_wide_pair | TermWidePair.cfg | violation | `WidePairing` (spec 8.2): ED/EL/ECH split wide glyphs (st.c:712). |
| term_dch_write | TermDchWrite.cfg | violation | `NoOutOfRowWrite`: after DCH, printing writes `line[y][-1]` (st.c:685). |
| term_cuf_overflow | TermCufOverflow.cfg | violation | `CursorForwardNeverBack`: `c.x + n` overflows (st.c:1129). |
| term_ech_negative | TermEchNegative.cfg | violation | `EraseCharsFromCursor`: `CSI -1 X` erases left of the cursor; strtol accepts a sign (st.c:618, 1227). |
| parser_bounds | ParserBounds.cfg | pass | `CsiTerminatorFits` for one terminal fed C0, C1, ESC finals, CSI bytes, string starters, terminators and 2- and 4-byte code points. About 35k states. |
| parser_str_shared | ParserStrShared.cfg | pass | `StrTerminatorFits`: the doubling of `siz` and the ceiling keep `len` below the allocation, with two terminals, both created, starting, growing and ending strings in any interleaving. About 330k states. |
| parser_shared_csi | ParserSharedCsi.cfg | violation | `CsiTerminatorFits`: two terminals in CSI push the shared buffer to ESC_BUF_SIZ, so csiparse writes past it (st.c:1887). |
| pure_calls | PureCalls.cfg | pass | `Utf8RoundTrip`: utf8encode gives the RFC 3629 bytes of every scalar, utf8decode reads them back, and everything else becomes U+FFFD (spec 8.3). `Utf8DecodeWellFormed`: utf8decode returns the scalar and length of every well-formed prefix, and never U+FFFD for one. `Base64Fits`: what base64dec writes, plus its NUL, fits the buffer it allocates. `Base64DecodesStandard`: every standard encoding of a message, padded or not and with tab/LF/CR inserted, decodes to the message (spec 8.4). `DumpsAgree`: tdump2cb's chunks are non-empty, join to what tdump2buf writes, and its result is their length (spec §6). `SgrMatchesSpec`: on vectors whose colour subsequences are complete, tsetattr gives what spec §4.9 gives. About 155k states, one per call and its return. |
| term_dump_chunk | TermDumpChunk.cfg | violation | `DumpChunksFit`: print two 2-byte glyphs on a 2-column row, and the newline makes the chunk 5 bytes, past `malloc(CHUNK_SIZE)` with CHUNK_SIZE 4 (st.c:1502). |
| sgr_truncated | PureSgrTruncated.cfg (MCPureCalls) | violation | `SgrTruncatedConsumed` (spec §7, bad input is consumed): `CSI 38;5 m` sets blink, because tdefcolor breaks without advancing `npar` and tsetattr reads the 5 as SGR 5 (st.c:798). |

Why these bounds are enough:
- For the codec, the code points sit on each side of every table boundary, which is where `utf8validate` can be off by one. The byte strings include every lead class, truncated sequences, and continuations that stop early. The base64 messages of 1–4 bytes give every padding case (0, 1, 2 `=`), and a second group.
- For the dumps, CHUNK_SIZE 4 holds two 2-byte glyphs exactly, or one 3-byte glyph with one byte to spare. The screens of 4×1 and 2×2 then fill, overflow and just miss a chunk, with and without the newline.
- Three columns are the fewest in which a wide glyph fits in a row that has a cell to spare, and in which a tab stop sits between the edges (TabSpaces 2).
- Two rows give a scroll region that can be smaller than the screen.
- The resize sets shrink below the cursor, which drops rows and leaves saved cursors out of range, and then grow again, which grows the tabs from the last stop.
- `IntBits = 4` scales INT_MAX down to 7. This keeps the REP recursion shallow while still letting `c.x + n` overflow.

- The parser runs use `EscBufSiz = 4` (ESC_BUF_SIZ is 512). The bound checked is relative to the size, so a buffer of 4 is enough: the forced dispatch happens after 3 bytes.
- `SizeMax = 20` lowers the STR ceiling `(SIZE_MAX - UTF_SIZ)/2` to 8. `siz` then goes 4 → 8 → 16 and stops growing, so the runs reach the case where bytes are dropped, with `len` up to 15.
- The rune sets hold one member of each class `tputc` branches on: BEL, LF, CAN, ESC, NEL (133), ST (156), OSC (157), `#`, `%`, `(`, `1`, `7`, `8`, `;`, `@`, `G`, `[`, `\`, `]`, `c`, `s`, `u`, a 2-byte code point (311) and a 4-byte one (65536).

There is no fairness and there are no liveness properties: the terminal only reacts to input, and nothing in the grid or the parser must eventually happen. A sequence left unfinished stays pending until more input comes, which is what the code intends. Every state has a successor, so deadlock checking is on.

The `pure_calls` harness stops after its one call; every other run checks deadlock.

The violation runs each reproduce a defect. They are listed as findings in PROJECT.json. Further defects turn up in the models but have no run. Each is a single step that the code's own comments or the spec already name:
- CBT keeps `CURSOR_WRAPNEXT` (st.c:1564).
- The 8-bit ST 0x9C discards a string instead of dispatching it. The code marks this `TODO: ST` (st.c:1711).
- ED 1 clears the rows above the cursor only when `c.y > 1` (st.c:1180). Spec §9 lists this guard as an open question.
- ESC followed by a code point outside ASCII runs the command of its low byte (st.c:1903).
- base64dec decodes a space as `'A'` (st.c:376), while spec 8.4 says whitespace is ignored.
- Where `char` is unsigned, the `-1` entries of `base64_digits` become 255 (st.c:358).

All of them are recorded as hazards with notes.

## Not modelled

- Charsets: SO/SI, LS2/LS3, ESC ( ) * + with `tdeftran`, and the DEC graphics lookup in `tsetchar` (st.c 661–677, 1577–1600, 1659–1662, 1748–1758). Their state is the four-entry `trantbl`, `charset` and `icharset`. They decide only which code point `tsetchar` stores. No handler branches on that code point, and no section of the spec states a property about it beyond the table lookup. `Term`'s actions are all fired by one run, term_geometry, and that run would have to tell the charset states apart. That multiplies its state space by 4 to 64, which would take it past five minutes, and there is no property to check in exchange.
- The SGR attribute inside `Term`: `tsetattr` is modelled in `Sgr.tla` on the attribute alone. What `tsetchar` copies into a glyph, and what DECSC/DECRC save, would need every glyph and saved cursor of `Term` to carry an attribute. No grid handler branches on attributes, so this would multiply the state space without changing any behaviour the Term runs check.
- Print mode (`tprinter`, MODE_PRINT), `tdumpline` and `tdump`: they only pass the bytes `tdump2buf` computes to the printer stub.
- The effects of `strhandle` (title, colours, OSC 52 selection): host stubs that change no state. `strparse` only feeds them. `base64dec` is modelled on its own, in `Base64.tla`.
- The host stubs and `ttywrite`: no-ops.
- Selection: empty stubs.
- Allocation failure: fatal by design.
- DECSET with several parameters in one sequence: the loop applies each one in turn, so it is the same as several one-parameter actions, except when a later parameter reads state set by an earlier one.
- Zero-width glyphs (`wcwidth` = 0).
