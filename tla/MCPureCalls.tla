----------------------------- MODULE MCPureCalls -----------------------------
EXTENDS PureCalls, FiniteSets

\* Code points at every boundary utf8validate() and utf8encode() test: the
\* ends of each length class, the surrogates and their neighbours, U+FFFD,
\* the last scalar and the first values past it, up to 21 bits.
MCRunes == {0, 65, 127, 128, 2047, 2048, 55295, 55296, 57343, 57344, 65533,
            65535, 65536, 1114111, 1114112, 2097151}

\* Lead bytes of every class utf8decodebyte() tells apart, with the ends of
\* the ranges RFC 3629 allows after E0, ED, F0 and F4; continuation
\* candidates at those ends, an ASCII byte and a lead byte.
MCLeads == {0, 65, 127, 128, 191, 192, 193, 194, 223, 224, 237, 239, 240,
            244, 245, 248, 255}
MCConts == {65, 128, 143, 144, 159, 160, 191, 192}
MCByteStrings ==
  {<<>>} \cup [1..1 -> MCLeads]
  \cup {<<l>> \o r : l \in MCLeads, r \in UNION {[1..n -> MCConts] : n \in 1..3}}

\* ASCII messages of up to four bytes whose encodings use the digits
\* 'A', '+' and '/' among others.
MCMessages == UNION {[1..n -> {1, 63, 104, 126}] : n \in 0..4}

\* Tab, newline and return.
MCWhitespace == {9, 10, 13}

\* Payloads of up to five bytes of digits, '=', '+', a newline, a space and
\* a byte above 0x7f.
MCJunk == UNION {[1..n -> {65, 61, 10, 32, 43, 200}] : n \in 0..5}

\* A narrow glyph stands for U+00E9, a wide one for U+4E00: two and three
\* bytes in UTF-8.  NUL is the code point of a wdummy cell.
MCCodeOf == [g \in {"a", "W", " ", "NUL"} |->
               CASE g = "a" -> 233 [] g = "W" -> 19968 [] g = " " -> 32 [] OTHER -> 0]

\* Cells as Term leaves them: blank, a narrow glyph, the two halves of a
\* wide one, and a narrow glyph or a printed space carrying the wrap mark.
MCCells == {[u |-> " ", mode |-> {}], [u |-> "a", mode |-> {}],
            [u |-> "W", mode |-> {"wide"}], [u |-> "NUL", mode |-> {"wdummy"}],
            [u |-> "a", mode |-> {"wrap"}], [u |-> " ", mode |-> {"wrap"}]}

\* Every screen of these cells up to four columns and one row, or two by
\* two: rows that fill a chunk of four bytes, overflow it, or are empty.
MCScreens ==
  UNION {{[scr |-> s, ncol |-> g[1], nrow |-> g[2]] : s \in [0..g[2] - 1 -> [0..g[1] - 1 -> MCCells]]}
           : g \in {<<1, 1>>, <<2, 1>>, <<3, 1>>, <<4, 1>>, <<1, 2>>, <<2, 2>>}}

\* Two cursor attributes: the one treset() leaves, and one with bits set,
\* an indexed foreground and a direct background.
MCAttrs == {ResetAttr, [mode |-> {"bold", "blink", "struck"}, fg |-> 3, bg |-> TrueColor(1, 2, 3)]}

\* SGR parameters as csiparse() gives them: single codes on each edge of
\* every range tsetattr() tests, an unknown code and -1 (the value of an
\* overflowing strtol), complete 38/48 subsequences with components in
\* and out of 0..255, and two cut short.
MCSgrTokens ==
  {<<p>> : p \in {0, 1, 5, 9, 22, 25, 26, 29, 30, 37, 38, 39, 48, 49, 90, 97, 100, 107, -1}}
  \cup {<<38, 5, n>> : n \in {0, 255, 256}}
  \cup {<<48, 2>> \o rgb : rgb \in {<<0, 0, 0>>, <<255, 1, 0>>, <<0, 256, 0>>}}
  \cup {<<38, 2, 7>>, <<48, 5>>}

\* Every vector of one to three tokens.
MCSgrVectors ==
  UNION {{FlattenSeq(ts) : ts \in [1..n -> MCSgrTokens]} : n \in 1..3}
====
