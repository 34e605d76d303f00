---------------------------- MODULE MCFpgaImage ----------------------------
(* FpgaImage for TLC.                                                      *)
EXTENDS FpgaImage

CONSTANTS hello   \* the application's script

\* No other script's name contains this one's.
MCMatch == [a \in Apps |-> {a}]
=============================================================================
