------------------------------ MODULE MemRegion ------------------------------
(***************************************************************************)
(* One call of PCIMemoryRegion.read or write (resources/libapp/pcie/       *)
(* pci.py): an access of some bytes of a memory region is done word by     *)
(* word, because an access of a register may change it.                    *)
(*                                                                         *)
(* A step is a transaction.  Bytes are abstract: byte b of the region      *)
(* holds b at first, and the bytes to write are Size, Size + 1, ...        *)
(***************************************************************************)
EXTENDS Naturals, Sequences

CONSTANTS
    WordSize,  \* word_size, in bytes
    Size,      \* size of the region, in bytes
    Calls      \* the calls: [op, offset, nbytes, align, trxn], trxn = 0 for None

ASSUME RegionAssumption ==
    /\ WordSize \in Nat \ {0}
    /\ Size \in Nat /\ Size % WordSize = 0
    /\ Calls \subseteq [op : {"read", "write"}, offset : Nat, nbytes : Nat,
                        align : BOOLEAN, trxn : Nat]

VARIABLES
    call,    \* the arguments
    pc,      \* where it is
    pos,     \* the position of the mapping
    left,    \* the bytes still to be read or written
    data,    \* the bytes read so far
    memory,  \* the bytes of the region, and of a word behind it
    reads,   \* how often the call read each word
    writes,  \* and wrote it
    buf,     \* "volatile" with _MemVolatileAccess; else the pointer _buf: "none" yet,
             \* "old", or "made" in this call
    hidden   \* how often the pointer read each word besides

pointerVars == <<buf, hidden>>
regionVars  == <<call, pc, pos, left, data, memory, reads, writes, pointerVars>>

Words  == 0 .. Size \div WordSize
Region == 0 .. Size + WordSize - 1
Bytes  == 0 .. 2 * Size + WordSize

RegionType ==
    /\ call \in Calls
    /\ pc \in {"head", "loop", "aligned", "tail", "done", "error"}
    /\ pos \in 0 .. Size + WordSize
    /\ left \in 0 .. call.nbytes
    /\ data \in Seq(Bytes)
    /\ memory \in [Region -> Bytes]
    /\ reads \in [Words -> Nat] /\ writes \in [Words -> Nat]

PointerType ==
    /\ buf \in {"volatile", "none", "old", "made"}
    /\ hidden \in [Words -> Nat]

\* _check_rw_access(): anything else raises before a word is touched.
InRange(c) == c.offset + c.nbytes <= Size /\ c.trxn % WordSize = 0

RegionInit ==
    /\ call \in {c \in Calls : InRange(c)}
    /\ pc = "head"
    /\ pos = 0
    /\ left = call.nbytes
    /\ data = <<>>
    /\ memory = [b \in Region |-> b]
    /\ reads = [w \in Words |-> 0]
    /\ writes = [w \in Words |-> 0]
    /\ buf \in {"volatile", "none", "old"}
    /\ hidden = [w \in Words |-> 0]
-----------------------------------------------------------------------------
First(p) == p \div WordSize

\* mutant: a word too many behind an aligned end
EndTooFar(p, n) == (p + n) \div WordSize + 1

\* The word behind the last one that has any of n bytes at p.
End(p, n) == (p + n + WordSize - 1) \div WordSize

Span(p, n) == First(p) .. End(p, n) - 1

\* The words from..to-1 of the region, and n bytes of a sequence from its i-th on.
LoadWords(from, to)  == [i \in 1 .. (to - from) * WordSize |-> memory[from * WordSize + i - 1]]
Cut(s, i, n)    == SubSeq(s, i + 1, i + n)
From(s, i)      == SubSeq(s, i + 1, Len(s))
Count(f, words) == [w \in Words |-> IF w \in words THEN f[w] + 1 ELSE f[w]]

\* What read_aligned_once(n) returns at position p.
Got(p, n) ==
    LET all == LoadWords(First(p), End(p, n))
    IN  IF Len(all) > n THEN Cut(all, p % WordSize, n) ELSE all

\* The bytes write_aligned_once() makes of d at position p, and the words it reads.
HasFirst(p)    == p % WordSize # 0
WithFirst(p, d) ==
    IF HasFirst(p) THEN Cut(LoadWords(First(p), First(p) + 1), 0, p % WordSize) \o d ELSE d
Rest(p, d)    == (p + Len(WithFirst(p, d))) % WordSize
HasLast(p, d) == End(p, Len(d)) - First(p) > 1 /\ Rest(p, d) # 0
Merged(p, d)  ==
    IF HasLast(p, d)
    THEN WithFirst(p, d) \o From(LoadWords(End(p, Len(d)) - 1, End(p, Len(d))), Rest(p, d))
    ELSE WithFirst(p, d)
ReadFor(p, d) ==
    {w \in Span(p, Len(d)) : \/ w = First(p) /\ HasFirst(p)
                             \/ w = End(p, Len(d)) - 1 /\ HasLast(p, d)}

\* The words that are complete are written; one that is not is an exception.
Complete(p, d) == Len(Merged(p, d)) \div WordSize >= End(p, Len(d)) - First(p)

Store(p, d, then) ==
    LET m       == Merged(p, d)
        written == {w \in Span(p, Len(d)) : (w - First(p) + 1) * WordSize <= Len(m)}
    IN  /\ memory' = [b \in Region |-> IF First(b) \in written
                                       THEN m[b - First(p) * WordSize + 1] ELSE memory[b]]
        /\ writes' = Count(writes, written)
        /\ pos' = p + Len(m)
        /\ pc' = IF Complete(p, d) THEN then ELSE "error"

\* n bytes of the value to write, from where the call is.
Value(n) == [i \in 1 .. n |-> Size + call.nbytes - left + i - 1]
-----------------------------------------------------------------------------
IsRead    == call.op = "read"
Unaligned == call.align /\ call.offset % WordSize # 0
Lo        == First(call.offset) * WordSize

Skip == call.offset - Lo

\* Those of n bytes that are in the first word.
FirstBytes(n) == IF n < WordSize - Skip THEN n ELSE WordSize - Skip
HeadBytes     == FirstBytes(left)

\* The first word, if the access starts within it.
FirstPart ==
    /\ pc = "head"
    /\ \/ /\ ~Unaligned
          /\ pos' = call.offset
          /\ pc' = "loop"
          /\ UNCHANGED <<left, data, memory, reads, writes>>
       \/ /\ Unaligned /\ IsRead
          /\ data' = Cut(Got(Lo, WordSize), Skip, HeadBytes)
          /\ reads' = Count(reads, Span(Lo, WordSize))
          /\ pos' = Lo + WordSize
          /\ left' = left - HeadBytes
          /\ pc' = "loop"
          /\ UNCHANGED <<memory, writes>>
       \/ /\ Unaligned /\ ~IsRead
          /\ LET word == Got(Lo, WordSize)
             IN  Store(Lo, Cut(word, 0, Skip) \o Value(HeadBytes)
                               \o From(word, Skip + HeadBytes), "loop")
          /\ reads' = Count(reads, Span(Lo, WordSize))
          /\ left' = left - HeadBytes
          /\ UNCHANGED data
    /\ UNCHANGED call

\* n bytes in one transaction.
Transfer(n, then) ==
    /\ left' = left - n
    /\ \/ /\ IsRead
          /\ data' = data \o Got(pos, n)
          /\ reads' = Count(reads, Span(pos, n))
          /\ pos' = pos + n
          /\ pc' = then
          /\ UNCHANGED <<memory, writes>>
       \/ /\ ~IsRead
          /\ Store(pos, Value(n), then)
          /\ reads' = Count(reads, ReadFor(pos, Value(n)))
          /\ UNCHANGED data
    /\ UNCHANGED call

\* None is all of a write, and of a read what follows the first word.
Trxn ==
    IF call.trxn # 0 THEN call.trxn
    ELSE IF IsRead /\ Unaligned THEN call.nbytes - FirstBytes(call.nbytes)
    ELSE call.nbytes

\* while nbytes >= trxn_size
AtLeastTrxn == left >= Trxn

WholePart ==
    /\ pc = "loop"
    /\ IF AtLeastTrxn THEN Transfer(Trxn, "loop")
       ELSE pc' = "aligned" /\ UNCHANGED <<call, pos, left, data, memory, reads, writes>>

WholeWords == First(left) * WordSize

WordsPart ==
    /\ pc = "aligned"
    /\ IF left >= WordSize THEN Transfer(WholeWords, "tail")
       ELSE pc' = "tail" /\ UNCHANGED <<call, pos, left, data, memory, reads, writes>>

\* mutant: the start of the word is put behind instead of its rest
LastFirst(word) == Value(left) \o Cut(word, 0, WordSize - left)

TailWord(word) == Value(left) \o From(word, left)

\* The last word, if the access ends within it.
LastPart ==
    /\ pc = "tail"
    /\ \/ /\ left = 0
          /\ pc' = "done"
          /\ UNCHANGED <<pos, data, memory, reads, writes>>
       \/ /\ left > 0 /\ IsRead
          /\ data' = data \o Cut(Got(pos, WordSize), 0, left)
          /\ reads' = Count(reads, Span(pos, WordSize))
          /\ pos' = pos + WordSize
          /\ pc' = "done"
          /\ UNCHANGED <<memory, writes>>
       \/ /\ left > 0 /\ ~IsRead
          /\ LET word == TailWord(Got(pos, WordSize))
             IN  /\ Store(pos, word, "done")
                 /\ reads' = Count(Count(reads, Span(pos, WordSize)), ReadFor(pos, word))
          /\ UNCHANGED data
    /\ left' = 0
    /\ UNCHANGED call

\* What the pointer adds to the accesses of a step: it is made when it is first used, with
\* a read at address 0, and a word stored through it is read as well.
Pointer ==
    LET first == buf = "none" /\ <<reads, writes>>' # <<reads, writes>>
    IN  /\ buf' = IF first THEN "made" ELSE buf
        /\ hidden' = IF buf = "volatile" THEN hidden
                     ELSE [w \in Words |-> hidden[w] + (writes'[w] - writes[w])
                                                    + (IF first /\ w = 0 THEN 1 ELSE 0)]

Part == FirstPart \/ WholePart \/ WordsPart \/ LastPart

RegionNext == Part /\ Pointer

RegionSpec == RegionInit /\ [][RegionNext]_regionVars
-----------------------------------------------------------------------------
(* Properties                                                              *)

Wanted == call.offset .. call.offset + call.nbytes - 1

\* Whatever its offset, length and transactions, a read returns the bytes at the offset,
\* in their order, and a write changes the bytes at the offset and no other.
Transfers ==
    pc = "done" =>
        IF IsRead THEN data = [i \in 1 .. call.nbytes |-> call.offset + i - 1]
        ELSE \A b \in Region :
                 memory[b] = IF b \in Wanted THEN Size + b - call.offset ELSE b

\* A call reads a word at most once and writes it at most once, wherever the access starts
\* and ends, and only if it has one of the bytes.  With _MemVolatileAccess there is no
\* other access: registers that a read clears, or that act when they are written, see
\* one, their neighbours none.  Without it the pointer reads each word that is written
\* once more, no other, but for word 0 in the call that makes the pointer.
OncePerWord ==
    /\ RegionType /\ PointerType
    /\ \A w \in Words :
          /\ reads[w] <= 1 /\ writes[w] <= 1
          /\ reads[w] + writes[w] > 0 => \E b \in Wanted : First(b) = w
          /\ buf = "volatile" => hidden[w] = 0
          /\ hidden[w] <= writes[w] + (IF w = 0 /\ buf = "made" THEN 1 ELSE 0)
=============================================================================
