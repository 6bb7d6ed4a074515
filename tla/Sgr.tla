-------------------------------- MODULE Sgr ---------------------------------
(***************************************************************************)
(* tsetattr() and tdefcolor() of src/st.c: CSI ... m applied to the       *)
(* cursor's attribute t->c.attr, as pure operators.  An attribute is a     *)
(* record of the SGR bits set in its mode and its fg and bg colours; the   *)
(* parameter vector is csiescseq.arg[0..narg-1] as a sequence, attr[i] of  *)
(* the code being attr[i + 1] here.  The cursor's mode never holds the     *)
(* layout bits (ATTR_WRAP, ATTR_WIDE, ...), which only glyphs carry.       *)
(*                                                                         *)
(* RefSgr is section 4.9 of the spec, written independently of the code.  *)
(***************************************************************************)
EXTENDS Integers, Sequences

CONSTANTS
  DefaultFg, DefaultBg   \* config.h defaultfg, defaultbg: not in src/

SgrBits == {"bold", "faint", "italic", "underline", "blink", "reverse",
            "invisible", "struck"}

\* The attribute treset() gives the cursor.
ResetAttr == [mode |-> {}, fg |-> DefaultFg, bg |-> DefaultBg]

\* TRUECOLOR(r, g, b) of st.h, which the host build supplies: bit 24 marks
\* a direct colour, so it is never an index 0..255 and never negative.
TrueColor(r, g, b) == 2^24 + r * 2^16 + g * 2^8 + b

\* attr[k] for 0 <= k.  Past narg the array still holds the zeros
\* csireset() left there; attr[ESC_ARG_SIZ] is past the array, and every
\* value it could hold leads tdefcolor() to the same outcome, so it is 0.
Arg(attr, k) == IF k < Len(attr) THEN attr[k + 1] ELSE 0

\* tdefcolor(attr, &npar, l): <<idx, npar>>.  A 2 or 5 without all its
\* parameters, or any other selector, breaks without moving npar; an
\* out-of-range component moves npar but gives idx -1.
TDefColor(attr, npar, l) ==
  CASE Arg(attr, npar + 1) = 2 /\ npar + 4 < l ->
         LET rgb == {Arg(attr, npar + k) : k \in 2..4}
         IN <<IF rgb \subseteq 0..255
              THEN TrueColor(Arg(attr, npar + 2), Arg(attr, npar + 3), Arg(attr, npar + 4))
              ELSE -1, npar + 4>>
    [] Arg(attr, npar + 1) = 5 /\ npar + 2 < l ->
         <<IF Arg(attr, npar + 2) \in 0..255 THEN Arg(attr, npar + 2) ELSE -1, npar + 2>>
    [] OTHER -> <<-1, npar>>

\* The bits cases 1..9 set and cases 22..29 clear.
SetsBit(p) ==
  CASE p = 1 -> {"bold"} [] p = 2 -> {"faint"} [] p = 3 -> {"italic"}
    [] p = 4 -> {"underline"} [] p \in {5, 6} -> {"blink"} [] p = 7 -> {"reverse"}
    [] p = 8 -> {"invisible"} [] p = 9 -> {"struck"} [] OTHER -> {}
ClearsBit(p) ==
  CASE p = 22 -> {"bold", "faint"} [] p = 23 -> {"italic"} [] p = 24 -> {"underline"}
    [] p = 25 -> {"blink"} [] p = 27 -> {"reverse"} [] p = 28 -> {"invisible"}
    [] p = 29 -> {"struck"} [] OTHER -> {}

BaseColourNoBright(p) ==
  CASE p \in 30..37 -> <<"fg", p - 30>> [] p \in 40..47 -> <<"bg", p - 40>>
    [] p \in 90..97 -> <<"fg", p - 90>> [] p \in 100..107 -> <<"bg", p - 100 + 8>>
\* The colour the default branch gives: 30..37 and 90..97 a foreground,
\* 40..47 and 100..107 a background.
BaseColour(p) ==
  CASE p \in 30..37 -> <<"fg", p - 30>> [] p \in 40..47 -> <<"bg", p - 40>>
    [] p \in 90..97 -> <<"fg", p - 90 + 8>> [] p \in 100..107 -> <<"bg", p - 100 + 8>>

\* Case 0: clear the eight SGR bits and restore both default colours.
SgrReset(a) == [mode |-> a.mode \ SgrBits, fg |-> DefaultFg, bg |-> DefaultBg]

\* One round of the loop of tsetattr(): <<attribute, next i>>.  An unknown
\* parameter is logged and changes nothing.
SgrStep(a, attr, i, l) ==
  LET p == attr[i + 1]
      d == TDefColor(attr, i, l)
  IN CASE p = 0 -> <<SgrReset(a), i + 1>>
       [] SetsBit(p) # {} -> <<[a EXCEPT !.mode = @ \cup SetsBit(p)], i + 1>>
       [] ClearsBit(p) # {} -> <<[a EXCEPT !.mode = @ \ ClearsBit(p)], i + 1>>
       [] p = 38 -> <<IF d[1] >= 0 THEN [a EXCEPT !.fg = d[1]] ELSE a, d[2] + 1>>
       [] p = 48 -> <<IF d[1] >= 0 THEN [a EXCEPT !.bg = d[1]] ELSE a, d[2] + 1>>
       [] p = 39 -> <<[a EXCEPT !.fg = DefaultFg], i + 1>>
       [] p = 49 -> <<[a EXCEPT !.bg = DefaultBg], i + 1>>
       [] p \in 30..37 \cup 40..47 \cup 90..97 \cup 100..107 ->
            <<[a EXCEPT ![BaseColour(p)[1]] = BaseColour(p)[2]], i + 1>>
       [] OTHER -> <<a, i + 1>>

RECURSIVE SetAttrFrom(_, _, _)
SetAttrFrom(a, attr, i) ==
  IF i >= Len(attr) THEN a
  ELSE LET s == SgrStep(a, attr, i, Len(attr)) IN SetAttrFrom(s[1], attr, s[2])

\* tsetattr(t, attr, l) with l = Len(attr): the cursor attribute after it.
TSetAttr(a, attr) == SetAttrFrom(a, attr, 0)

-----------------------------------------------------------------------------
(* The reference: section 4.9 of the spec, on vectors whose colour         *)
(* subsequences are complete.                                              *)

Drop(s, n) == SubSeq(s, n + 1, Len(s))

\* The length of the colour subsequence at the head of s, or 0.
ColourLen(s) ==
  IF Len(s) >= 3 /\ s[1] \in {38, 48} /\ s[2] = 5 THEN 3
  ELSE IF Len(s) >= 5 /\ s[1] \in {38, 48} /\ s[2] = 2 THEN 5 ELSE 0

RECURSIVE Complete(_)
Complete(s) ==
  \/ s = <<>>
  \/ s[1] \notin {38, 48} /\ Complete(Tail(s))
  \/ ColourLen(s) > 0 /\ Complete(Drop(s, ColourLen(s)))

\* The colour a complete subsequence names, or none when a value is
\* outside 0..255.
RefColour(s) ==
  IF ColourLen(s) = 3 THEN (IF s[3] \in 0..255 THEN {s[3]} ELSE {})
  ELSE IF {s[3], s[4], s[5]} \subseteq 0..255 THEN {TrueColor(s[3], s[4], s[5])} ELSE {}

RefBit == <<"bold", "faint", "italic", "underline", "blink", "blink", "reverse",
            "invisible", "struck">>

\* 1..9 set a bit, 22 clears bold and faint, 23..29 (but 26) clear the bit
\* 20 below them.
RefCode(a, p) ==
  CASE p = 0 -> ResetAttr
    [] p \in 1..9 -> [a EXCEPT !.mode = @ \cup {RefBit[p]}]
    [] p = 22 -> [a EXCEPT !.mode = @ \ {"bold", "faint"}]
    [] p \in 23..29 \ {26} -> [a EXCEPT !.mode = @ \ {RefBit[p - 20]}]
    [] p \in 30..37 -> [a EXCEPT !.fg = p - 30]
    [] p \in 90..97 -> [a EXCEPT !.fg = p - 82]
    [] p \in 40..47 -> [a EXCEPT !.bg = p - 40]
    [] p \in 100..107 -> [a EXCEPT !.bg = p - 92]
    [] p = 39 -> [a EXCEPT !.fg = DefaultFg]
    [] p = 49 -> [a EXCEPT !.bg = DefaultBg]
    [] OTHER -> a

RECURSIVE RefSgr(_, _)
RefSgr(a, s) ==
  IF s = <<>> THEN a
  ELSE IF ColourLen(s) > 0
  THEN LET which == IF s[1] = 38 THEN "fg" ELSE "bg"
           col == RefColour(s)
       IN RefSgr(IF col = {} THEN a ELSE [a EXCEPT ![which] = CHOOSE v \in col : TRUE],
                 Drop(s, ColourLen(s)))
  ELSE RefSgr(RefCode(a, s[1]), Tail(s))
====
