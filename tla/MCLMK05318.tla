----------------------------- MODULE MCLMK05318 -----------------------------
(* LMK05318 for TLC.                                                       *)
EXTENDS LMK05318

\* Nothing, and both bits.
MCBytes == {{}, {3, 7}}

Addrs == {
    <<>>,                  \* a file without a register line
    <<11, 12, 13>>,        \* one block, a mask inside
    <<12, 13, 353>>,       \* a mask at the start; a gap; a register kept whole
    <<11, 13>>,            \* a gap of one
    <<13, 353, 354>>,
    <<13, 13>>,            \* a register twice
    <<353>>}

\* Every choice of data for these addresses.
MCProfiles == UNION {
    {[i \in 1 .. Len(a) |-> [address |-> a[i], data |-> d[i]]] :
        d \in [1 .. Len(a) -> {{3}, {7}}]} : a \in Addrs}
=============================================================================
