---------------------------- MODULE MCMemRegion ----------------------------
(* MemRegion for TLC: every call on a small region.                       *)
EXTENDS MemRegion

MCAll(align, trxns) ==
    [op : {"read", "write"}, offset : 0 .. Size, nbytes : 1 .. Size,
     align : {align}, trxn : trxns]

\* The aligned accesses of at least a byte, in transactions of any size and in one.
\* Within one word the latter fail: a read does not return, a write raises.
WithinWord(c) == (c.offset % WordSize) + c.nbytes <= WordSize
MCAligned ==
    MCAll(TRUE, {WordSize, 2 * WordSize})
        \cup {c \in MCAll(TRUE, {0}) : ~WithinWord(c)}
=============================================================================
