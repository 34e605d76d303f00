-------------------------- MODULE LMK05318_proofs --------------------------
(***************************************************************************)
(* Theorems about LMK05318, for every chip, profile and number of loads.   *)
(***************************************************************************)
EXTENDS LMK05318, TLAPS

\* What a write of the block that is pending would make of the chip.
Pending == Put(regs, block, Len(block.data))

\* The chip at each step of load_config, against the one that is written byte by byte.
Progress ==
    /\ at = "lines" => Pending = want
    /\ at = "lines" => \A a \in Addresses : regs[a] \cap Mask(a) = want[a] \cap Mask(a)
    /\ at \notin {"idle", "lines"} => next = Len(profile) + 1
    /\ at \in {"reset", "set"} => regs = want
    /\ at \in {"set", "clear"} => res = want[12]
    /\ at = "clear" => regs = [want EXCEPT ![12] = res \cup {7}]
    /\ at = "sync" => regs = [want EXCEPT ![12] = @ \ {7}]
    /\ at = "idle" /\ told = "loaded" => regs = [want EXCEPT ![12] = @ \ {7}]

Inv == TypeOK /\ Progress
-----------------------------------------------------------------------------
\* An element of a sequence is in the set that the sequence is over.
LEMMA ElementOfSeq ==
    ASSUME NEW S, NEW s \in Seq(S), NEW i \in 1 .. Len(s)
    PROVE  s[i] \in S
OBVIOUS

\* A line that is due is a line of the profile.
LEMMA LineFacts ==
    ASSUME TypeOK, next <= Len(profile)
    PROVE  /\ profile[next].address \in Addresses
           /\ profile[next].address \in Nat
           /\ profile[next].data \in Byte
<1>1. profile \in Seq([address : Addresses, data : Byte])
    <2>1. CASE profile \in Profiles
        BY <2>1, ProfilesAssumption
    <2>2. CASE profile = <<>>
        BY <2>2
    <2> QED
        BY <2>1, <2>2 DEF TypeOK
<1>2. next \in 1 .. Len(profile)
    BY <1>1 DEF TypeOK
<1>3. profile[next] \in [address : Addresses, data : Byte]
    BY <1>1, <1>2, ElementOfSeq
<1> QED
    BY <1>3, AddressesAssumption

\* A byte made from a line is a byte, and keeps the masked bits.
LEMMA WrDataFacts ==
    ASSUME NEW line, line.data \in Byte, NEW old \in Byte
    PROVE  /\ WrData(line, old) \in Byte
           /\ WrData(line, old) \cap Mask(line.address) = old \cap Mask(line.address)
BY DEF WrData, Byte

\* The chip after a block write, or a part of one.
LEMMA PutType ==
    ASSUME NEW r \in [Addresses -> Byte], NEW b,
           b.baddr \in Nat, b.data \in Seq(Byte), NEW n \in 0 .. Len(b.data)
    PROVE  Put(r, b, n) \in [Addresses -> Byte]
<1>1. ASSUME NEW a \in Addresses, a \in b.baddr .. b.baddr + n - 1
      PROVE  b.data[a - b.baddr + 1] \in Byte
    <2>1. a - b.baddr + 1 \in 1 .. Len(b.data)
        BY <1>1, AddressesAssumption
    <2> QED
        BY <2>1
<1> QED
    BY <1>1 DEF Put

\* A block with nothing in it changes nothing.
LEMMA PutNone ==
    ASSUME NEW r \in [Addresses -> Byte]
    PROVE  Put(r, None, Len(None.data)) = r
<1>1. \A a \in Addresses : a \notin None.baddr .. None.baddr + Len(None.data) - 1
    BY AddressesAssumption DEF None
<1> QED
    BY <1>1 DEF Put

\* A block of one byte changes one register.
LEMMA PutOne ==
    ASSUME NEW r \in [Addresses -> Byte], NEW a \in Addresses, NEW d \in Byte
    PROVE  Put(r, [baddr |-> a, data |-> <<d>>], 1) = [r EXCEPT ![a] = d]
<1> DEFINE b == [baddr |-> a, data |-> <<d>>]
<1>1. Len(b.data) = 1 /\ b.data[1] = d /\ b.baddr = a
    OBVIOUS
<1>2. \A x \in Addresses : x \in a .. a + 1 - 1 <=> x = a
    BY AddressesAssumption
<1>3. Put(r, b, 1) = [x \in Addresses |-> IF x = a THEN d ELSE r[x]]
    BY <1>1, <1>2, AddressesAssumption DEF Put
<1> QED
    BY <1>1, <1>3

\* A byte at the end of a block changes one register more.
LEMMA PutAppend ==
    ASSUME NEW r \in [Addresses -> Byte], NEW k \in Nat, NEW s \in Seq(Byte),
           NEW d \in Byte, NEW a \in Addresses, a = k + Len(s)
    PROVE  Put(r, [baddr |-> k, data |-> Append(s, d)], Len(Append(s, d)))
              = [Put(r, [baddr |-> k, data |-> s], Len(s)) EXCEPT ![a] = d]
<1> DEFINE b == [baddr |-> k, data |-> s]
           c == [baddr |-> k, data |-> Append(s, d)]
           n == Len(s)
<1>1. Len(Append(s, d)) = n + 1 /\ n \in Nat
    OBVIOUS
<1>2. \A i \in 1 .. n : Append(s, d)[i] = s[i]
    OBVIOUS
<1>3. Append(s, d)[n + 1] = d
    OBVIOUS
<1>4. ASSUME NEW x \in Addresses
      PROVE  Put(r, c, n + 1)[x] = [Put(r, b, n) EXCEPT ![a] = d][x]
    <2>1. CASE x = a
        BY <2>1, <1>1, <1>3, AddressesAssumption DEF Put
    <2>2. CASE x # a /\ x \in k .. k + n - 1
        <3>1. x - k + 1 \in 1 .. n
            BY <2>2, <1>1, AddressesAssumption
        <3> QED
            BY <2>2, <3>1, <1>1, <1>2, AddressesAssumption DEF Put
    <2>3. CASE x # a /\ x \notin k .. k + n - 1
        <3>1. x \notin k .. k + (n + 1) - 1
            BY <2>3, <1>1, AddressesAssumption
        <3> QED
            BY <2>3, <3>1, <1>1, AddressesAssumption DEF Put
    <2> QED
        BY <2>1, <2>2, <2>3
<1>5. Put(r, c, n + 1) = [Put(r, b, n) EXCEPT ![a] = d]
    BY <1>4 DEF Put
<1> QED
    BY <1>5, <1>1

\* ... and covers one register more.
LEMMA CoversAppend ==
    ASSUME NEW k \in Nat, NEW s \in Seq(Byte), NEW d \in Byte, NEW a, a = k + Len(s)
    PROVE  Covers([baddr |-> k, data |-> Append(s, d)])
              = Covers([baddr |-> k, data |-> s]) \cup {a}
<1>1. Len(Append(s, d)) = Len(s) + 1 /\ Len(s) \in Nat
    OBVIOUS
<1>2. Covers([baddr |-> k, data |-> s]) = {k + i - 1 : i \in 1 .. Len(s)}
    BY DEF Covers
<1>3. Covers([baddr |-> k, data |-> Append(s, d)]) = {k + i - 1 : i \in 1 .. Len(s) + 1}
    BY <1>1 DEF Covers
<1>4. 1 .. Len(s) + 1 = (1 .. Len(s)) \cup {Len(s) + 1} /\ k + (Len(s) + 1) - 1 = a
    BY <1>1
<1> QED
    BY <1>2, <1>3, <1>4
-----------------------------------------------------------------------------
\* One iteration of the loop: the register of the line gets the byte of the line, in
\* the chip and the pending block together, and the masked bits are those of before.
LEMMA LineStep ==
    ASSUME Inv, Line
    PROVE  Inv'
<1> DEFINE line == profile[next]
           a == line.address
           data == WrData(line, regs[a])
           n == Len(block.data)
<1>1. /\ at = "lines" /\ next <= Len(profile) /\ at' = "lines" /\ next' = next + 1
      /\ UNCHANGED <<profile, res, told, loads>>
    BY DEF Line
<1>2. a \in Addresses /\ a \in Nat /\ line.data \in Byte
    BY <1>1, LineFacts DEF Inv
<1>3. regs[a] \in Byte /\ want[a] \in Byte
    BY <1>2 DEF Inv, TypeOK
<1>4. /\ data \in Byte
      /\ data \cap Mask(a) = regs[a] \cap Mask(a)
      /\ WrData(line, want[a]) \in Byte
      /\ WrData(line, want[a]) \cap Mask(a) = want[a] \cap Mask(a)
    BY <1>2, <1>3, WrDataFacts
<1>5. data = WrData(line, want[a])
    BY <1>1, <1>2 DEF Inv, Progress, WrData
<1>6. want' = [want EXCEPT ![a] = data]
    BY <1>5 DEF Line
<1>7. /\ block.baddr \in Nat /\ block.data \in Seq(Byte) /\ n \in Nat
      /\ block = [baddr |-> block.baddr, data |-> block.data]
      /\ regs \in [Addresses -> Byte]
    BY DEF Inv, TypeOK
<1>8. regs' \in [Addresses -> Byte] /\ block' \in [baddr : Nat, data : Seq(Byte)]
      /\ Covers(block') \subseteq Addresses /\ Put(regs', block', Len(block'.data)) = want'
      /\ \A x \in Addresses : regs'[x] \cap Mask(x) = want'[x] \cap Mask(x)
    <2>0. Pending \in [Addresses -> Byte] /\ Pending = want
        BY <1>1, <1>7, PutType DEF Pending, Inv, Progress
    <2>1. CASE Joins(a)
        <3>1. /\ regs' = regs
              /\ block' = [baddr |-> block.baddr, data |-> Append(block.data, data)]
            BY <2>1, <1>7 DEF Line, Flushed
        <3>2. a = block.baddr + n
            BY <2>1 DEF Joins
        <3>3. Covers(block') = Covers(block) \cup {a}
            BY <3>1, <3>2, <1>2, <1>4, <1>7, CoversAppend
        <3>4. Put(regs, block', Len(block'.data)) = [Pending EXCEPT ![a] = data]
            BY <3>1, <3>2, <1>2, <1>4, <1>7, PutAppend DEF Pending
        <3>5. \A x \in Addresses : regs[x] \cap Mask(x) = want'[x] \cap Mask(x)
            BY <1>1, <1>2, <1>4, <1>6 DEF Inv, TypeOK, Progress
        <3>6. Append(block.data, data) \in Seq(Byte)
            BY <1>4, <1>7
        <3>7. block' \in [baddr : Nat, data : Seq(Byte)] /\ Covers(block') \subseteq Addresses
            BY <3>1, <3>3, <3>6, <1>2, <1>7 DEF Inv, TypeOK
        <3> HIDE DEF data
        <3> QED
            BY <3>1, <3>4, <3>5, <3>7, <2>0, <1>6, <1>7
    <2>2. CASE ~Joins(a)
        <3>1. regs' = Pending /\ block' = [baddr |-> a, data |-> <<data>>]
            BY <2>2 DEF Line, Flushed, Pending
        <3>2. Len(block'.data) = 1 /\ block'.data \in Seq(Byte) /\ Covers(block') = {a}
            BY <3>1, <1>2, <1>4 DEF Covers
        <3>3. Put(Pending, block', Len(block'.data)) = [Pending EXCEPT ![a] = data]
            <4> HIDE DEF data, a
            <4>1. Put(Pending, [baddr |-> a, data |-> <<data>>], 1)
                     = [Pending EXCEPT ![a] = data]
                BY <2>0, <1>2, <1>4, PutOne
            <4> QED
                BY <3>1, <3>2, <4>1
        <3>4. \A x \in Addresses : want[x] \cap Mask(x) = want'[x] \cap Mask(x)
            BY <1>1, <1>2, <1>4, <1>5, <1>6 DEF Inv, TypeOK
        <3> QED
            BY <3>1, <3>2, <3>3, <3>4, <2>0, <1>2, <1>6
    <2> QED
        BY <2>1, <2>2
<1>9. TypeOK'
    <2>1. want' \in [Addresses -> Byte]
        BY <1>4, <1>6 DEF Inv, TypeOK
    <2>2. next' \in 1 .. Len(profile') + 1
        <3>1. Len(profile) \in Nat
            BY ProfilesAssumption DEF Inv, TypeOK
        <3> QED
            BY <3>1, <1>1 DEF Inv, TypeOK
    <2> QED
        BY <2>1, <2>2, <1>1, <1>8 DEF Inv, TypeOK
<1>10. Progress'
    BY <1>1, <1>8 DEF Progress, Pending
<1> QED
    BY <1>9, <1>10 DEF Inv
-----------------------------------------------------------------------------
\* The empty block that load_config starts from is a block, and covers no register.
LEMMA NoneType == None \in [baddr : Nat, data : Seq(Byte)] /\ Covers(None) \subseteq Addresses
BY DEF None, Covers

\* A chip that no process has written yet.
LEMMA InitInv ==
    ASSUME Init
    PROVE  Inv
<1>1. regs \in [Addresses -> Byte]
    BY BitsAssumption DEF Init, Byte
<1>2. TypeOK
    BY <1>1, NoneType, BoundAssumption DEF Init, TypeOK, Byte
<1>3. Progress
    BY DEF Init, Progress
<1> QED
    BY <1>2, <1>3 DEF Inv

\* The registers as _soft_reset leaves them are registers.
LEMMA ResetType ==
    ASSUME NEW r \in [Addresses -> Byte], NEW b \in Byte
    PROVE  /\ [r EXCEPT ![12] = b \cup {7}] \in [Addresses -> Byte]
           /\ [r EXCEPT ![12] = b \ {7}] \in [Addresses -> Byte]
<1>1. b \cup {7} \in Byte /\ b \ {7} \in Byte
    BY BitsAssumption DEF Byte
<1> QED
    BY <1>1

\* A block write that fails half-way leaves registers.
LEMMA TornType ==
    ASSUME TypeOK, NEW r \in Torn
    PROVE  r \in [Addresses -> Byte]
<1>1. PICK n \in 0 .. Len(block.data) : r = Put(regs, block, n)
    BY DEF Torn
<1> QED
    BY <1>1, PutType DEF TypeOK

\* Every step of load_config, _soft_reset or a failure keeps the inductive invariant.
LEMMA NextInv ==
    ASSUME Inv, [Next]_vars
    PROVE  Inv'
<1> USE DEF Inv
<1>1. ASSUME NEW s \in Profiles, Load(s) PROVE Inv'
    <2>1. TypeOK'
        <3>1. Len(s) \in Nat
            BY ProfilesAssumption
        <3> QED
            BY <1>1, <3>1, NoneType, BoundAssumption DEF Load, TypeOK
    <2>2. Progress'
        <3>1. Put(regs, None, Len(None.data)) = regs
            BY PutNone DEF TypeOK
        <3> QED
            BY <1>1, <3>1 DEF Load, Progress, Pending
    <2> QED
        BY <2>1, <2>2
<1>2. CASE Line
    BY <1>2, LineStep
<1>3. CASE Last
    <2>1. FinalWrite \in [Addresses -> Byte]
        <3>1. Len(block.data) \in 0 .. Len(block.data)
            BY DEF TypeOK
        <3> QED
            BY <3>1, PutType DEF TypeOK, FinalWrite
    <2>2. TypeOK'
        BY <1>3, <2>1, NoneType DEF Last, TypeOK
    <2>3. Progress'
        BY <1>3 DEF Last, Progress, Pending, FinalWrite
    <2> QED
        BY <2>2, <2>3
<1>4. CASE ReadReset
    BY <1>4, AddressesAssumption DEF ReadReset, TypeOK, Progress
<1>5. CASE SetReset
    <2>1. TypeOK'
        BY <1>5, ResetType DEF SetReset, TypeOK
    <2>2. Progress'
        BY <1>5 DEF SetReset, Progress
    <2> QED
        BY <2>1, <2>2
<1>6. CASE ClearReset
    <2>1. TypeOK'
        BY <1>6, ResetType DEF ClearReset, TypeOK, Ended
    <2>2. regs' = [want EXCEPT ![12] = @ \ {7}]
        BY <1>6, AddressesAssumption DEF ClearReset, TypeOK, Progress, Ended
    <2>3. Progress'
        BY <1>6, <2>2 DEF ClearReset, Progress
    <2> QED
        BY <2>1, <2>3
<1>7. CASE Sync
    BY <1>7 DEF Sync, TypeOK, Progress
<1>8. CASE Abort
    <2>1. regs' \in [Addresses -> Byte]
        BY <1>8, TornType, ResetType DEF Abort, TypeOK, Ended
    <2>2. TypeOK'
        BY <1>8, <2>1, NoneType DEF Abort, TypeOK
    <2>3. Progress'
        BY <1>8 DEF Abort, Progress
    <2> QED
        BY <2>2, <2>3
<1>9. CASE UNCHANGED vars
    BY <1>9 DEF vars, TypeOK, Progress, Pending
<1> QED
    BY <1>1, <1>2, <1>3, <1>4, <1>5, <1>6, <1>7, <1>8, <1>9 DEF Next

\* The inductive invariant holds in every state of load_config and _soft_reset.
LEMMA Invariant == Spec => []Inv
BY InitInv, NextInv, PTL DEF Spec

\* What is in the chip and in the pending block together is at every line what byte
\* by byte writes would have given.
THEOREM NothingLostHolds == Spec => []NothingLost
<1>1. Inv => NothingLost
    BY DEF Inv, Progress, Pending, NothingLost
<1> QED
    BY <1>1, Invariant, PTL

\* A load_config that returned has left the chip as byte by byte writes would have,
\* and out of reset.
THEOREM LoadedAsSequentialHolds == Spec => []LoadedAsSequential
<1>1. Inv => LoadedAsSequential
    BY DEF Inv, Progress, LoadedAsSequential
<1> QED
    BY <1>1, Invariant, PTL
-----------------------------------------------------------------------------
\* A write of the block, or of its first bytes, leaves the masked bits alone.
LEMMA TornKept ==
    ASSUME Inv, at = "lines", NEW r \in Torn, NEW a \in Addresses
    PROVE  r[a] \cap Mask(a) = regs[a] \cap Mask(a)
<1>1. PICK n \in 0 .. Len(block.data) : r = Put(regs, block, n)
    BY DEF Torn
<1>2. block.baddr \in Nat /\ Len(block.data) \in Nat
    BY DEF Inv, TypeOK
<1>3. r[a] = regs[a] \/ r[a] = Pending[a]
    <2>1. CASE a \in block.baddr .. block.baddr + n - 1
        <3>1. a \in block.baddr .. block.baddr + Len(block.data) - 1
            BY <2>1, <1>1, <1>2, AddressesAssumption
        <3> QED
            BY <2>1, <3>1, <1>1 DEF Put, Pending
    <2>2. CASE a \notin block.baddr .. block.baddr + n - 1
        BY <2>2, <1>1 DEF Put
    <2> QED
        BY <2>1, <2>2
<1> QED
    BY <1>3 DEF Inv, Progress

\* Every step but those of _soft_reset leaves the masked bits alone.
LEMMA OtherStepsKeep ==
    ASSUME Inv, Next, at \notin {"set", "clear"}, NEW a \in Addresses
    PROVE  regs'[a] \cap Mask(a) = regs[a] \cap Mask(a)
<1>1. CASE UNCHANGED regs
    BY <1>1
<1>2. ASSUME at = "lines", regs' \in Torn
      PROVE  regs'[a] \cap Mask(a) = regs[a] \cap Mask(a)
    BY <1>2, TornKept
<1>3. Put(regs, block, Len(block.data)) \in Torn
    <2>1. Len(block.data) \in 0 .. Len(block.data)
        BY DEF Inv, TypeOK
    <2> QED
        BY <2>1 DEF Torn
<1>4. CASE Line
    BY <1>4, <1>1, <1>2, <1>3 DEF Line, Flushed
<1>5. CASE Last
    BY <1>5, <1>1, <1>2, <1>3 DEF Last, FinalWrite
<1>6. CASE Abort
    BY <1>6, <1>1, <1>2 DEF Abort
<1>7. CASE \/ \E s \in Profiles : Load(s)
           \/ ReadReset \/ SetReset \/ ClearReset \/ Sync
    BY <1>7, <1>1 DEF Load, ReadReset, SetReset, ClearReset, Sync
<1> QED
    BY <1>4, <1>5, <1>6, <1>7 DEF Next

\* A step of _soft_reset, done or failed, sets the reset bit or clears it, and
\* changes nothing else.
LEMMA ResetSteps ==
    ASSUME Inv, Next, at \in {"set", "clear"}
    PROVE  \/ regs' = regs
           \/ at = "set" /\ regs' = [regs EXCEPT ![12] = regs[12] \cup {7}]
           \/ at = "clear" /\ regs' = [regs EXCEPT ![12] = regs[12] \ {7}]
<1>1. at = "set" => res = regs[12]
    BY DEF Inv, Progress
<1>2. at = "clear" => regs[12] \ {7} = res \ {7}
    BY AddressesAssumption DEF Inv, TypeOK, Progress
<1> QED
    BY <1>1, <1>2 DEF Next, Load, Line, Last, ReadReset, SetReset, ClearReset, Sync, Abort, Ended

\* The bits behind a mask keep their value, but for the reset bit in _soft_reset.
THEOREM ProtectedKeptHolds == Spec => ProtectedKept
<1> DEFINE Kept(a) == Mask(a) \ (IF at \in {"set", "clear"} THEN {7} ELSE {})
           Keeps == \A a \in Addresses : regs'[a] \cap Kept(a) = regs[a] \cap Kept(a)
<1>1. ASSUME Inv, [Next]_vars PROVE [Keeps]_regs
    <2>1. CASE UNCHANGED vars
        BY <2>1 DEF vars
    <2>2. CASE Next /\ at \notin {"set", "clear"}
        <3>1. \A a \in Addresses : regs'[a] \cap Mask(a) = regs[a] \cap Mask(a)
            BY <2>2, <1>1, OtherStepsKeep
        <3> QED
            BY <2>2, <3>1
    <2>3. CASE Next /\ at \in {"set", "clear"}
        BY <2>3, <1>1, ResetSteps, AddressesAssumption DEF Inv, TypeOK
    <2> QED
        BY <1>1, <2>1, <2>2, <2>3
<1>2. ASSUME Inv, [Next]_vars
      PROVE [\A a \in Addresses :
                LET kept == Mask(a) \ (IF at \in {"set", "clear"} THEN {7} ELSE {})
                IN  regs'[a] \cap kept = regs[a] \cap kept]_regs
    BY <1>1, <1>2
<1> QED
    BY <1>2, Invariant, PTL DEF Spec, ProtectedKept

\* The chip is reset only when it holds the whole profile.
THEOREM NoEarlyResetHolds == Spec => NoEarlyReset
<1>1. ASSUME Inv, [Next]_vars
      PROVE  [7 \notin regs[12] /\ 7 \in regs'[12] =>
                 next = Len(profile) + 1 /\ regs = want]_regs
    <2>1. CASE UNCHANGED vars
        BY <2>1 DEF vars
    <2>2. CASE Next /\ at \notin {"set", "clear"}
        <3>1. 12 \in Addresses /\ 7 \in Mask(12)
            BY AddressesAssumption, BitsAssumption DEF Mask
        <3>2. regs'[12] \cap Mask(12) = regs[12] \cap Mask(12)
            BY <2>2, <3>1, <1>1, OtherStepsKeep
        <3> QED
            BY <3>1, <3>2
    <2>3. CASE Next /\ at \in {"set", "clear"}
        <3>1. at = "set" => next = Len(profile) + 1 /\ regs = want
            BY <1>1 DEF Inv, Progress
        <3>2. at = "clear" => regs' = regs \/ 7 \notin regs'[12]
            BY <2>3, <1>1, ResetSteps, AddressesAssumption DEF Inv, TypeOK
        <3> QED
            BY <2>3, <3>1, <3>2
    <2> QED
        BY <1>1, <2>1, <2>2, <2>3
<1> QED
    BY <1>1, Invariant, PTL DEF Spec, NoEarlyReset
=============================================================================
