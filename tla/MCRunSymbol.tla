---------------------------- MODULE MCRunSymbol ----------------------------
(* RunSymbol over short histories of a few telling bars. *)
EXTENDS RunSymbol

Seen(o, h, l, c, entry, exit) ==
    [open |-> o, high |-> h, low |-> l, close |-> c, entry |-> entry, exit |-> exit]

\* A rally that arms the trailing stop of an entry at its open, asking for an
\* entry, an exit or nothing; a gap that opens below every stop and recovers
\* past the target; a bar that falls through the fixed and the trailing stop
\* in its course.
MCBarData == {Seen(100, 112, 100, 110, TRUE, FALSE), Seen(100, 112, 100, 110, FALSE, TRUE),
              Seen(100, 112, 100, 110, FALSE, FALSE),
              Seen(80, 125, 70, 120, TRUE, FALSE), Seen(80, 125, 70, 120, FALSE, FALSE),
              Seen(110, 112, 90, 104, FALSE, FALSE)}

=============================================================================
