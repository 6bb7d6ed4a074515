------------------------------ MODULE PureCalls ------------------------------
(***************************************************************************)
(* One call of a function of src/st.c that reads only its arguments, and  *)
(* what it returns: utf8encode(), as tputc() and the dumps call it on a    *)
(* Rune; utf8decode(), as tsetchar() calls it on a string; base64dec(), as *)
(* strhandle() calls it on the payload of OSC 52; tdump2cb() and           *)
(* tdump2buf() on a screen.  A call is one step from its arguments to its  *)
(* result, and nothing happens once it has returned.                       *)
(***************************************************************************)
EXTENDS Utf8, Base64, Dump, Sgr

CONSTANTS
  Runes,        \* arguments of utf8encode()
  ByteStrings,  \* buffers given to utf8decode(), clen being their length
  Messages,     \* byte strings whose RFC 4648 encoding OSC 52 carries
  Whitespace,   \* bytes a sender may insert into that encoding
  Junk,         \* other payloads of OSC 52
  Screens,      \* [scr, ncol, nrow]: screens handed to the dumps
  Attrs,        \* cursor attributes tsetattr() starts from
  SgrVectors    \* parameter vectors csiparse() gives CSI ... m


\* Insert byte w after the first k bytes of s.
Insert(s, k, w) == SubSeq(s, 1, k) \o <<w>> \o SubSeq(s, k + 1, Len(s))

\* The encodings of m a sender may produce: padded or not, with at most one
\* whitespace byte inserted anywhere.
Unpadded(s) == SelectSeq(s, LAMBDA x : x # 61)
Encodings(m) ==
  LET forms == {RefB64(m), Unpadded(RefB64(m))}
  IN forms \cup UNION {{Insert(s, k, w) : k \in 0..Len(s), w \in Whitespace} : s \in forms}

Calls ==
  [fn : {"utf8encode"}, arg : Runes, std : {FALSE}, of : {<<>>}]
  \cup [fn : {"utf8decode"}, arg : ByteStrings, std : {FALSE}, of : {<<>>}]
  \cup [fn : {"base64dec"}, arg : Junk, std : {FALSE}, of : {<<>>}]
  \cup [fn : {"tdump2cb"}, arg : Screens, std : {FALSE}, of : {<<>>}]
  \cup [fn : {"tsetattr"}, arg : [from : Attrs, attr : SgrVectors], std : {FALSE}, of : {<<>>}]
  \cup UNION {{[fn |-> "base64dec", arg |-> s, std |-> TRUE, of |-> m] : s \in Encodings(m)} : m \in Messages}

VARIABLES call, result, returned

vars == <<call, result, returned>>

Init == call \in Calls /\ result = <<>> /\ returned = FALSE

Utf8EncodeCall ==
  /\ call.fn = "utf8encode" /\ ~returned
  /\ result' = Utf8Encode(call.arg)
  /\ returned' = TRUE
  /\ UNCHANGED call

Utf8DecodeCall ==
  /\ call.fn = "utf8decode" /\ ~returned
  /\ result' = Utf8Decode(call.arg)
  /\ returned' = TRUE
  /\ UNCHANGED call

Base64DecCall ==
  /\ call.fn = "base64dec" /\ ~returned
  /\ result' = Base64Dec(call.arg)
  /\ returned' = TRUE
  /\ UNCHANGED call

TDump2CbCall ==
  /\ call.fn = "tdump2cb" /\ ~returned
  /\ result' = Dump2Cb(call.arg.scr, call.arg.ncol, call.arg.nrow)
  /\ returned' = TRUE
  /\ UNCHANGED call

\* csihandle() case 'm': tsetattr(t, csiescseq.arg, csiescseq.narg).
TSetAttrCall ==
  /\ call.fn = "tsetattr" /\ ~returned
  /\ result' = TSetAttr(call.arg.from, call.arg.attr)
  /\ returned' = TRUE
  /\ UNCHANGED call

Next == Utf8EncodeCall \/ Utf8DecodeCall \/ Base64DecCall \/ TDump2CbCall \/ TSetAttrCall

Spec == Init /\ [][Next]_vars

Returned(fn) == call.fn = fn /\ returned
-----------------------------------------------------------------------------
(* Properties.                                                             *)

\* Spec 8.3, UTF-8 round trip: utf8encode() writes the RFC 3629 encoding
\* of every scalar value, which utf8decode() turns back into the same code
\* point and length; a surrogate or a value past U+10FFFF is written as the
\* encoding of U+FFFD.
Utf8RoundTrip ==
  Returned("utf8encode") =>
    IF IsScalar(call.arg)
    THEN /\ result = RefEncode(call.arg)
         /\ Utf8Decode(result) = [u |-> call.arg, len |-> Len(result)]
    ELSE result = RefEncode(UTF_INVALID)

\* Spec 4.1: utf8decode() accepts exactly the well-formed sequences of
\* RFC 3629, returning their scalar and length, and yields U+FFFD for any
\* other input (overlong forms, surrogates, values past U+10FFFF, stray or
\* missing continuation bytes); once UTF_SIZ bytes are available it never
\* asks for more.
Utf8DecodeWellFormed ==
  Returned("utf8decode") =>
    /\ \A f \in RefForms(call.arg) :
         result = [u |-> Gather(call.arg, Len(f), Len(f)), len |-> Len(f)]
    /\ RefForms(call.arg) = {} => result.u = UTF_INVALID
    /\ Len(call.arg) >= UTF_SIZ => result.len >= 1

\* base64dec() writes its bytes and the final NUL inside the buffer it
\* allocated from strlen(src), whatever bytes OSC 52 carries.
Base64Fits ==
  Returned("base64dec") => Len(result.out) < result.alloc

\* Spec 8.4: decoding a standard encoding of an ASCII string, padded or
\* not, with a newline, return or tab inserted, gives back the string.
Base64DecodesStandard ==
  Returned("base64dec") /\ call.std => result.out = call.of

\* Spec section 6: dump_to_callback emits what dump_to_buffer writes, cut
\* into chunks: the chunks goSTDumpCB() receives, joined, are the bytes
\* tdump2buf() writes, none of them is empty, and tdump2cb() returns their
\* number.
DumpsAgree ==
  Returned("tdump2cb") =>
    LET buf == Dump2Buf(call.arg.scr, call.arg.ncol, call.arg.nrow)
    IN /\ FlattenSeq(result.chunks) = buf
       /\ \A i \in 1..Len(result.chunks) : result.chunks[i] # <<>>
       /\ result.ret = Len(buf)

\* Spec section 4.9: on a vector whose 38/48 subsequences are complete,
\* tsetattr() leaves the attribute the spec's reading gives: 38;5;n and
\* 48;5;n take three parameters and 38;2;r;g;b five, an out-of-range
\* colour changes nothing, 90..97 and 100..107 are the bright colours.
SgrMatchesSpec ==
  Returned("tsetattr") /\ Complete(call.arg.attr) =>
    result = RefSgr(call.arg.from, call.arg.attr)

\* A parameter vector whose last 38 or 48 subsequence is cut short by its
\* end: the selector 2 or 5 is there but not all of its components.
CutShort(q) ==
  /\ Len(q) >= 2 /\ q[1] \in {38, 48} /\ q[2] \in {2, 5}
  /\ Len(q) < IF q[2] = 5 THEN 3 ELSE 5

\* Spec section 7, bad input: a malformed SGR subsequence is logged and
\* consumed.  A 38;2 or 48;5 cut short by the end of the vector therefore
\* changes nothing, and the codes before it act as section 4.9 says.
\* tdefcolor() breaks out without advancing npar, and tsetattr() then reads
\* the selector and the components it skipped as SGR codes of their own.
SgrTruncatedConsumed ==
  Returned("tsetattr") =>
    \A k \in 1..Len(call.arg.attr) :
      LET p == SubSeq(call.arg.attr, 1, k - 1)
      IN Complete(p) /\ CutShort(Drop(call.arg.attr, k - 1)) =>
           result = RefSgr(call.arg.from, p)
====
