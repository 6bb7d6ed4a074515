----------------------------- MODULE MCAltScreen -----------------------------
(***************************************************************************)
(* Term on the alternate screen, for TLC, with a history variable: while   *)
(* the alternate screen is shown, entry holds the primary screen as it was *)
(* when tsetmode swapped it out (or as tresize last reshaped it), the      *)
(* cursor at that moment, and whether the swap was CSI ? 1049 h, which     *)
(* also saved that cursor.  It is the empty set on the primary screen.     *)
(* The history only records; it never constrains a step of Term.          *)
(***************************************************************************)
EXTENDS MCTerm

VARIABLE entry

varsH == <<vars, entry>>

\* tresize reshapes the swapped-out primary and clamps the cursors, so it
\* starts a new record without the cursor; a resize to the same size keeps
\* every row and column of both screens.
TrackEntry ==
  entry' =
    IF "altscreen" \notin mode' THEN {}
    ELSE IF "altscreen" \notin mode
         THEN {[line |-> line, c |-> c, by1049 |-> DECSET(TRUE, 1049)]}
    ELSE IF col' # col \/ row' # row THEN {[line |-> alt', c |-> c', by1049 |-> FALSE]}
    ELSE entry

AltInit == Init /\ entry = {}
AltNext == Next /\ TrackEntry
AltSpec == AltInit /\ [][AltNext]_varsH

\* A step of tsetmode(set = 0) for one of the alternate-screen modes that
\* leaves the alternate screen (RIS leaves it too, clearing both screens).
LeavesByMode ==
  /\ "altscreen" \in mode /\ "altscreen" \notin mode'
  /\ \E m \in PrivateModes \cap {47, 1047, 1049} : DECSET(FALSE, m)

\* Spec 8, invariant 7, and scenario S6: leaving the alternate screen shows
\* the primary screen exactly as it was when it was swapped out, and
\* CSI ? 1049 l after CSI ? 1049 h, with no resize between, puts the cursor
\* back where it was.  Every handler run on the alternate screen must leave
\* the swapped-out primary alone, tcursor must save and load the primary's
\* slot on either side of the swap, and tsetmode must clear the alternate
\* screen before it swaps back.
AltRoundTrip ==
  [][\A e \in entry :
       LeavesByMode =>
         /\ line' = e.line
         /\ e.by1049 /\ DECSET(FALSE, 1049) => c'.x = e.c.x /\ c'.y = e.c.y]_varsH

\* AltView with what AltRoundTrip reads of the history: whether the
\* swapped-out primary is still the recorded one, and whether the primary's
\* saved slot still holds the recorded cursor.  No handler reads the
\* primary's glyphs while it is swapped out, so these facts evolve on their
\* own and a state is merged only with one that agrees on them.
AltTripView ==
  <<AltView,
    \A e \in entry : alt = e.line /\ (e.by1049 => Loadable(e.c) = Loadable(saved[0]))>>
====
