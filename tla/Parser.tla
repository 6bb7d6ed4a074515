------------------------------- MODULE Parser -------------------------------
(***************************************************************************)
(* The escape parser of src/st.c as built: every terminal has its own      *)
(* esc bits, MODE_UTF8, lastc and cursor, but csiescseq, strescseq and the *)
(* saved-cursor slots c[2] of tcursor() are file-scope statics, one for    *)
(* the whole process.  The host feeds code points to any terminal in any   *)
(* order: a read of one pane's pty can end in the middle of a sequence and *)
(* the next call of tputc() may be for another pane.                       *)
(*                                                                         *)
(* One step is one call of tputc(t, u), the whole call.  The grid is left  *)
(* to Term.tla; both screens stay primary here, so tcursor() uses c[0].    *)
(***************************************************************************)
EXTENDS Escape

VARIABLES
  esc, utf8, lastc, cur,   \* per terminal: t->esc, MODE_UTF8, t->lastc # 0, t->c
  csi, str, saved,         \* the statics csiescseq, strescseq, c[2]
  created,                 \* the terminals tnew() has returned
  last,                    \* ghost: per terminal, the latest dispatch
  input                    \* ghost: <<t, u>> of the latest call of tputc()

vars == <<esc, utf8, lastc, cur, csi, str, saved, created, last, input>>

\* The state one call of tputc(t, _) reads, as a record for Escape.
Local(t) ==
  [esc |-> esc[t], utf8 |-> utf8[t], lastc |-> lastc[t], cur |-> cur[t],
   last |-> last[t], csi |-> csi, str |-> str, saved |-> saved]

Becomes(t, s) ==
  /\ esc' = [esc EXCEPT ![t] = s.esc]
  /\ utf8' = [utf8 EXCEPT ![t] = s.utf8]
  /\ lastc' = [lastc EXCEPT ![t] = s.lastc]
  /\ cur' = [cur EXCEPT ![t] = s.cur]
  /\ last' = [last EXCEPT ![t] = s.last]
  /\ csi' = s.csi /\ str' = s.str /\ saved' = s.saved

\* A terminal as tnew() leaves it: zeroed by memset(), then treset() sets
\* MODE_UTF8 and saves the fresh cursor into both static slots.  The
\* statics csiescseq and strescseq start zeroed; the first terminal exists.
Init ==
  /\ esc = [t \in Terms |-> {}]
  /\ utf8 = [t \in Terms |-> TRUE]
  /\ lastc = [t \in Terms |-> FALSE]
  /\ cur = [t \in Terms |-> t]
  /\ last = [t \in Terms |-> NoDispatch]
  /\ csi = EmptyCsi
  /\ str = EmptyStr
  /\ \E t0 \in Terms : created = {t0} /\ saved = [i \in 0..1 |-> t0]
  /\ input = <<>>

\* tnew() for another terminal: its treset() overwrites both slots.
Create(t) ==
  /\ t \notin created
  /\ created' = created \cup {t}
  /\ saved' = [i \in 0..1 |-> t]
  /\ UNCHANGED <<esc, utf8, lastc, cur, csi, str, last, input>>

\* tputc(t, u).
Feed(t, u) ==
  /\ t \in created
  /\ Becomes(t, TPutc(Local(t), t, u))
  /\ input' = <<t, u>>
  /\ UNCHANGED created

Next == \E t \in Terms : Create(t) \/ \E u \in Runes : Feed(t, u)

Spec == Init /\ [][Next]_vars
-----------------------------------------------------------------------------
(* Properties.                                                             *)

\* csiparse() writes NUL at csiescseq.buf[len] and tputc() stores the next
\* byte at buf[len++]: the forced dispatch one short of a full buffer must
\* keep len below ESC_BUF_SIZ, whatever the interleaving of terminals.
CsiTerminatorFits == Len(csi.buf) < EscBufSiz

\* strparse() writes NUL at strescseq.buf[len] and the STR branch of tputc()
\* copies up to UTF_SIZ bytes at buf[len]: the doubling and the ceiling
\* must keep len below the allocated siz once a string has started.
StrTerminatorFits == str.siz = 0 \/ str.len < str.siz

=============================================================================
