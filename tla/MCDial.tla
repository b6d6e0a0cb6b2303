------------------------------- MODULE MCDial -------------------------------
(* Dial for TLC.                                                           *)
EXTENDS Dial

CONSTANTS Primaries, Fallbacks     \* the longest lists

MCMaxAddrs == [r \in Racers |-> IF r = "primary" THEN Primaries ELSE Fallbacks]
=============================================================================
