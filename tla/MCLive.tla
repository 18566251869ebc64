------------------------------- MODULE MCLive -------------------------------
(* LiveLoop for one token whose strategy may say anything, or for two that   *)
(* enter together or not.                                                    *)
EXTENDS LiveLoop

Anything == [Symbols -> Signal]

CONSTANTS a
PairSaid == {[s \in Symbols |-> "entry"], [s \in Symbols |-> IF s = a THEN "entry" ELSE "hold"]}

=============================================================================
