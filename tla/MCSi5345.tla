------------------------------ MODULE MCSi5345 ------------------------------
(* Si5345 for TLC.                                                         *)
EXTENDS Si5345

CONSTANTS p1, p2

Reg(p, a, v) == [page |-> p, address |-> a, value |-> v]

\* The shape of the files: page 0x0B register 0x24 stops the chip, registers of
\* both pages are set, and the same register starts it again.
MCProfiles == {
    <<Comment, Reg(11, 36, 192), Comment, Reg(0, 22, 2), Reg(11, 36, 195)>>,
    <<Reg(11, 36, 192), Reg(0, 22, 1), Reg(11, 71, 1), Reg(11, 36, 195)>>}
=============================================================================
