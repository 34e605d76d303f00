------------------------------ MODULE LMK05318 ------------------------------
(***************************************************************************)
(* Loading a profile into the LMK05318 clock generator:                    *)
(* LMK05318.load_config and _soft_reset (clock_generator.py).              *)
(*                                                                         *)
(* load_config goes through the lines of the profile, joins the bytes of   *)
(* consecutive addresses into one block write, and leaves some bits of     *)
(* some registers as they are in the chip.  Then it sets and clears the    *)
(* reset bit.  Any transfer can fail, a block write half-way, and the      *)
(* daemon can die; the next load starts from the chip it then finds.       *)
(*                                                                         *)
(* A byte is the set of its bits that are 1.  One process at a time talks  *)
(* to this chip.                                                           *)
(***************************************************************************)
EXTENDS Naturals, Sequences

CONSTANTS
    Addresses,   \* the registers of the chip, 12 among them
    Bits,        \* the bits of a byte that are looked at, 7 among them
    Bytes,       \* what a register can hold at first
    Profiles,    \* the register lines of each profile: sequences of [address, data]
    MaxLoads     \* bound: the calls of load_config

Byte == SUBSET Bits

ASSUME AddressesAssumption == Addresses \subseteq Nat /\ 12 \in Addresses
ASSUME BitsAssumption == 7 \in Bits /\ Bytes \subseteq Byte
ASSUME ProfilesAssumption == Profiles \subseteq Seq([address : Addresses, data : Byte])
ASSUME BoundAssumption == MaxLoads \in Nat

VARIABLES
    regs,      \* the chip's registers
    at,        \* where load_config is
    profile,   \* the lines of the profile
    next,      \* the line that is due
    block,     \* datablock: an address and the bytes to write there; no bytes: None
    res,       \* what _soft_reset read from register 12
    told,      \* the outcome of the last load_config
    want,      \* history: the chip, had every line so far been written at once
    loads      \* what MaxLoads bounds

vars == <<regs, at, profile, next, block, res, told, want, loads>>

None   == [baddr |-> 0, data |-> <<>>]
Covers(b) == {b.baddr + i - 1 : i \in 1 .. Len(b.data)}

\* A block is meant for registers of the chip.
TypeOK ==
    /\ regs \in [Addresses -> Byte]
    /\ want \in [Addresses -> Byte]
    /\ at \in {"idle", "lines", "reset", "set", "clear", "sync"}
    /\ profile \in Profiles \cup {<<>>}
    /\ next \in 1 .. Len(profile) + 1
    /\ block \in [baddr : Nat, data : Seq(Byte)] /\ Covers(block) \subseteq Addresses
    /\ res \in Byte
    /\ told \in {"none", "loaded", "failed"}
    /\ loads \in 0 .. MaxLoads

Init ==
    /\ regs \in [Addresses -> Bytes]
    /\ want = regs
    /\ at = "idle"
    /\ profile = <<>>
    /\ next = 1
    /\ block = None
    /\ res = {}
    /\ told = "none"
    /\ loads = 0
-----------------------------------------------------------------------------
(* What a line becomes                                                     *)

Special(a) == a \in {12, 157, 164} \/ a >= 353

\* The bits that keep what the chip has: mask.
Mask(a) ==
    IF a = 12 THEN Bits \cap {0, 1, 2, 5, 7}
    ELSE IF Special(a) THEN Bits ELSE {}

\* mutant: the mask is taken for the bits to write.
Exchanged(line, old) == (old \ Mask(line.address)) \cup (line.data \cap Mask(line.address))
WrData(line, old) == (old \cap Mask(line.address)) \cup (line.data \ Mask(line.address))

\* mutant: every line joins the block there is.
JoinsAlways(a) == block.data # <<>>
\* The line continues the block: address = addrlast + 1.
Joins(a) == block.data # <<>> /\ a = block.baddr + Len(block.data)

\* The chip after a block write, or after its first n bytes.
Put(r, b, n) ==
    [a \in Addresses |->
        IF a \in b.baddr .. b.baddr + n - 1 THEN b.data[a - b.baddr + 1] ELSE r[a]]

\* A line that does not continue the block has the block written.
Flushed(a) == IF Joins(a) THEN regs ELSE Put(regs, block, Len(block.data))

\* "Don't forget the final write"
FinalWrite == Put(regs, block, Len(block.data))
-----------------------------------------------------------------------------
Load(s) ==
    /\ at = "idle" /\ loads < MaxLoads
    /\ at' = "lines"
    /\ profile' = s
    /\ next' = 1
    /\ block' = None
    /\ told' = "none"
    /\ want' = regs
    /\ loads' = loads + 1
    /\ UNCHANGED <<regs, res>>

\* The body of the loop: read the register if it has a mask, and write the block
\* there is or add to it.
Line ==
    /\ at = "lines" /\ next <= Len(profile)
    /\ LET line == profile[next]
           data == WrData(line, regs[line.address])
       IN  /\ regs' = Flushed(line.address)
           /\ block' = IF Joins(line.address)
                       THEN [block EXCEPT !.data = Append(@, data)]
                       ELSE [baddr |-> line.address, data |-> <<data>>]
           /\ want' = [want EXCEPT ![line.address] = WrData(line, @)]
    /\ next' = next + 1
    /\ UNCHANGED <<at, profile, res, told, loads>>

\* The write behind the loop; a file without register lines has no block: TypeError.
Last ==
    /\ at = "lines" /\ next = Len(profile) + 1
    /\ IF block.data = <<>>
       THEN at' = "idle" /\ told' = "failed" /\ UNCHANGED regs
       ELSE at' = "reset" /\ regs' = FinalWrite /\ UNCHANGED told
    /\ block' = None
    /\ UNCHANGED <<profile, next, res, want, loads>>

\* _soft_reset: read, set the bit, clear the bit, read.
ReadReset ==
    /\ at = "reset"
    /\ res' = regs[12]
    /\ at' = "set"
    /\ UNCHANGED <<regs, profile, next, block, told, want, loads>>

\* mutant: the bit is set again.
StillSet == res \cup {7}
Ended == res \ {7}

SetReset ==
    /\ at = "set"
    /\ regs' = [regs EXCEPT ![12] = res \cup {7}]
    /\ at' = "clear"
    /\ UNCHANGED <<profile, next, block, res, told, want, loads>>

ClearReset ==
    /\ at = "clear"
    /\ regs' = [regs EXCEPT ![12] = Ended]
    /\ at' = "sync"
    /\ UNCHANGED <<profile, next, block, res, told, want, loads>>

Sync ==
    /\ at = "sync"
    /\ at' = "idle"
    /\ told' = "loaded"
    /\ UNCHANGED <<regs, profile, next, block, res, want, loads>>

\* What a block write that fails leaves: the first bytes, or all of them.
Torn == {Put(regs, block, n) : n \in 0 .. Len(block.data)}

\* A transfer fails, or the daemon dies, with or without the effect.
Abort ==
    /\ at # "idle"
    /\ regs' \in CASE at = "lines" -> Torn
                   [] at = "set"   -> {regs, [regs EXCEPT ![12] = res \cup {7}]}
                   [] at = "clear" -> {regs, [regs EXCEPT ![12] = Ended]}
                   [] OTHER        -> {regs}
    /\ at' = "idle"
    /\ told' = "failed"
    /\ block' = None
    /\ UNCHANGED <<profile, next, res, want, loads>>

Next ==
    \/ \E s \in Profiles : Load(s)
    \/ Line \/ Last \/ ReadReset \/ SetReset \/ ClearReset \/ Sync \/ Abort

Spec == Init /\ [][Next]_vars
-----------------------------------------------------------------------------
(* Properties                                                              *)

\* Joining writes changes nothing but the number of transfers: what is in the chip
\* and in the block together is at every line what byte by byte writes would have
\* given, the bits that were read back before the block was written included.
NothingLost ==
    /\ TypeOK
    /\ at = "lines" => Put(regs, block, Len(block.data)) = want

\* A load_config that returned has left every register as the lines say, one after
\* the other, and the chip out of reset, in whatever state an earlier load that
\* failed or died had left it.
LoadedAsSequential ==
    at = "idle" /\ told = "loaded" => regs = [want EXCEPT ![12] = @ \ {7}]

\* The bits behind a mask keep the value they have in the chip, through torn blocks
\* too; only _soft_reset touches one of them, the reset bit.
ProtectedKept ==
    [][\A a \in Addresses :
          LET kept == Mask(a) \ (IF at \in {"set", "clear"} THEN {7} ELSE {})
          IN  regs'[a] \cap kept = regs[a] \cap kept]_regs

\* The chip is reset only when it holds the whole profile.
NoEarlyReset ==
    [][7 \notin regs[12] /\ 7 \in regs'[12] => next = Len(profile) + 1 /\ regs = want]_regs
=============================================================================
