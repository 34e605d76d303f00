------------------------ MODULE RegisterFile_proofs ------------------------
(***************************************************************************)
(* Proofs about RegisterFile, for every size of words and strings, every   *)
(* number of register files and of tries, and bursts of any length: the    *)
(* lock of the I2C device heals, a 64 bit value and a string are read as   *)
(* their parts in order, and joined accesses are those that were asked for.*)
(*                                                                         *)
(* And proofs about PhyTuning, which sets such registers: for any number   *)
(* of transceivers and interfaces, and any table of tunings, an interface  *)
(* without news that nobody else writes to is tuned as the table says, and *)
(* the tool's own field stays what it set.                                 *)
(***************************************************************************)
EXTENDS RegisterFile, PhyTuning, SequenceTheorems, WellFoundedInduction, TLAPS

Registers == Nat \cup {"high", "low"}
Places    == {"try", "held", "done", "failed"}
Taken     == {"held", "done", "failed"}

CallType ==
    [what : {"wide", "string", "one"}, obj : Objects, left : Seq(Registers), got : Seq(Registers),
     from : 0 .. MaxCount, at : Places, tries : Nat, stuck : Nat]

CallOK == call = NoCall \/ call \in CallType

\* What a call keeps from its begin
Frame(d, c) == d.what = c.what /\ d.obj = c.obj /\ d.from = c.from

\* The lock is taken exactly while a try holds it, unless an interrupt left it; the
\* first try of a call finds it and no later one does, and a call has a first try
\* before it returns.  A try that holds the lock is one of a register the object has.
CallInv ==
    call \in CallType =>
        /\ last = NoCall
        /\ kind # "mako" => call.at = "try"
        /\ call.at \in Taken => locked = 1
        /\ call.at = "try" /\ (call.got # <<>> \/ call.tries > 0 \/ call.stuck > 0) => locked = 0
        /\ call.stuck <= 1
        /\ call.left = <<>> => call.at = "try" /\ call.got # <<>>
        /\ call.at = "done" => call.got # <<>>
        /\ call.at \in Taken => Own

LastInv == last # NoCall /\ last.verdict \in {"value", "gave up"} => locked = 0

LockInv == TypeOK /\ CallOK /\ CallInv /\ LastInv /\ (kind # "mako" => locked = 0)

ClassType == [len : 0 .. MaxLen, high : BOOLEAN, str : 0 .. MaxLen, wide : BOOLEAN]

\* The compounds of a class are made of what it has.
LEMMA AddedType ==
    ASSUME NEW c \in ClassType, NEW csv \in Csvs
    PROVE  Added(c, csv) \in ClassType
<1>1. Larger(c.len, csv.len) \in 0 .. MaxLen
    BY WordAssumption DEF Larger, ClassType, Csvs
<1>2. QED
    BY <1>1 DEF Added, ClassType, Csvs

\* That no call is in progress is not a call.
LEMMA NoCallFacts == NoCall \notin CallType /\ NoCall.what = "none"
    BY DEF NoCall, CallType

\* The device is free before anything is read.
LEMMA InitLock == Init => LockInv
<1> SUFFICES ASSUME Init PROVE LockInv
    OBVIOUS
<1>1. TypeOK
    BY WordAssumption DEF Init, TypeOK, NoClass
<1>2. QED
    BY <1>1, NoCallFacts DEF Init, LockInv, CallOK, CallInv, LastInv

\* RegisterFile() does not touch the device.
LEMMA ConstructLock ==
    ASSUME LockInv, NEW i \in Objects, NEW csv \in Csvs, Construct(i, csv)
    PROVE  LockInv'
<1>1. class' \in ClassType
    BY AddedType DEF Construct, LockInv, TypeOK, ClassType
<1>2. TypeOK'
    BY <1>1 DEF Construct, LockInv, TypeOK, ClassType
<1>3. QED
    BY <1>2, NoCallFacts DEF Construct, LockInv, CallOK, CallInv, LastInv

\* A call begins with the lock as the last one left it.
LEMMA BeginLock ==
    ASSUME LockInv, NEW i \in Objects, NEW what \in {"wide", "string", "one"},
           NEW registers \in Seq(Registers), Begin(i, what, registers)
    PROVE  LockInv'
<1>1. call' \in CallType
    BY DEF Begin, CallType, Places
<1>2. TypeOK'
    BY DEF Begin, object, LockInv, TypeOK
<1>3. call'.at = "try" /\ call'.got = <<>> /\ call'.tries = 0 /\ call'.stuck = 0 /\ call'.left # <<>>
    BY DEF Begin
<1>4. last' = NoCall /\ UNCHANGED <<kind, locked>>
    BY DEF Begin, object
<1>5. QED
    <2>1. CallInv'
        BY <1>3, <1>4 DEF CallInv, Taken
    <2>2. LastInv' /\ CallOK'
        BY <1>1, <1>4 DEF LastInv, CallOK
    <2>3. QED
        BY <1>2, <1>4, <2>1, <2>2 DEF LockInv

\* A read begins: a register, a wide one or a string.
LEMMA ReadsBegin ==
    ASSUME LockInv, NEW i \in Objects,
           ReadWide(i) \/ ReadString(i) \/ \E r \in {"high", "low"} : ReadOne(i, r)
    PROVE  LockInv'
<1>1. CASE ReadWide(i)
    <2>1. Wide \in Seq(Registers)
        BY DEF Wide, Registers
    <2>2. QED
        BY <1>1, <2>1, BeginLock DEF ReadWide
<1>2. CASE ReadString(i)
    <2>1. files[i] \in Csvs
        BY <1>2 DEF ReadString, LockInv, TypeOK
    <2>2. NoClass \in ClassType /\ class \in ClassType
        BY WordAssumption DEF NoClass, ClassType, LockInv, TypeOK
    <2>3. ClassOf(i) \in ClassType
        BY <2>1, <2>2, AddedType DEF ClassOf
    <2>4. StringOf(ClassOf(i).str) \in Seq(Registers)
        <3>1. ClassOf(i).str \in Nat
            BY <2>3, WordAssumption DEF ClassType
        <3>2. QED
            BY <3>1 DEF StringOf, Registers
    <2>5. QED
        BY <1>2, <2>4, BeginLock DEF ReadString
<1>3. CASE \E r \in {"high", "low"} : ReadOne(i, r)
    <2>1. PICK r \in {"high", "low"} : ReadOne(i, r)
        BY <1>3
    <2>2. <<r>> \in Seq(Registers)
        BY DEF Registers
    <2>3. QED
        BY <2>1, <2>2, BeginLock DEF ReadOne
<1>4. QED
    BY <1>1, <1>2, <1>3

\* The counter starts within its range.
LEMMA ZeroCount == 0 \in 0 .. MaxCount
    BY WordAssumption

\* The end of a call
LEMMA EndedLock ==
    ASSUME LockInv, call \in CallType, NEW verdict, Ended(verdict),
           UNCHANGED object, locked' \in {0, 1},
           kind # "mako" => locked' = 0,
           verdict \in {"value", "gave up"} => locked' = 0
    PROVE  LockInv'
<1>0. kind' = kind /\ files' = files /\ class' = class
    BY DEF object
<1>4. count' \in 0 .. MaxCount
    <2>1. count' = 0
        BY Zenon DEF Ended
    <2>2. QED
        BY <2>1, ZeroCount, Zenon
<1>1. TypeOK'
    <2>1. locked' \in {0, 1}
        OBVIOUS
    <2>2. QED
        BY <1>0, <1>4, <2>1 DEF LockInv, TypeOK
<1>2. call' = NoCall /\ last'.verdict = verdict
    BY DEF Ended
<1>3. QED
    <2>1. CallInv' /\ CallOK'
        BY <1>2, NoCallFacts DEF CallInv, CallOK
    <2>2. LastInv' /\ (kind' # "mako" => locked' = 0)
        BY <1>0, <1>2 DEF LastInv
    <2>3. QED
        BY <1>1, <2>1, <2>2 DEF LockInv

\* A call is changed one field at a time.
LEMMA SetAt ==
    ASSUME NEW c \in CallType, NEW p \in Places
    PROVE  LET d == [c EXCEPT !.at = p] IN
           /\ d \in CallType /\ d.at = p
           /\ d.left = c.left /\ d.got = c.got /\ d.tries = c.tries /\ d.stuck = c.stuck
           /\ Frame(d, c)
    BY DEF CallType, Frame

\* A call with another number of tries
LEMMA SetTries ==
    ASSUME NEW c \in CallType, NEW n \in Nat
    PROVE  LET d == [c EXCEPT !.tries = n] IN
           /\ d \in CallType /\ d.tries = n
           /\ d.left = c.left /\ d.got = c.got /\ d.at = c.at /\ d.stuck = c.stuck
           /\ Frame(d, c)
    BY DEF CallType, Frame

\* The end of a try that failed: what it leaves free, the next try finds free.
LEMMA TryAgainLock ==
    ASSUME LockInv, call \in CallType, NEW c \in CallType, TryAgain(c),
           c.left # <<>>, c.stuck <= 1, UNCHANGED object, locked' = 0
    PROVE  LockInv'
<1>1. CASE c.tries + 1 = Retries
    BY <1>1, EndedLock DEF TryAgain
<1>2. CASE c.tries + 1 # Retries
    <2>1. call' = [c EXCEPT !.at = "try", !.tries = @ + 1] /\ UNCHANGED <<last, count>>
        BY <1>2 DEF TryAgain
    <2>5. PICK d : d = [c EXCEPT !.at = "try"]
        OBVIOUS
    <2>6. /\ d \in CallType /\ d.at = "try" /\ d.left = c.left /\ d.stuck = c.stuck
          /\ d.tries = c.tries
        BY <2>5, SetAt DEF Places
    <2>7. call' = [d EXCEPT !.tries = c.tries + 1]
        BY <2>1, <2>5, Zenon
    <2>8. c.tries + 1 \in Nat
        BY DEF CallType
    <2>2. call' \in CallType /\ call'.at = "try" /\ call'.left = c.left /\ call'.stuck = c.stuck
        BY <2>6, <2>7, <2>8, SetTries
    <2>3. TypeOK'
        BY <2>1 DEF object, LockInv, TypeOK
    <2>4. QED
        <3>1. CallInv' /\ CallOK'
            BY <2>1, <2>2 DEF CallInv, CallOK, Taken, LockInv
        <3>2. LastInv' /\ (kind' # "mako" => locked' = 0)
            BY DEF LastInv
        <3>3. QED
            BY <2>3, <3>1, <3>2 DEF LockInv
<1>3. QED
    BY <1>1, <1>2

\* A call with another number of tries that found the lock taken
LEMMA SetStuck ==
    ASSUME NEW c \in CallType, NEW n \in Nat
    PROVE  LET d == [c EXCEPT !.stuck = n] IN
           /\ d \in CallType /\ d.stuck = n
           /\ d.left = c.left /\ d.got = c.got /\ d.at = c.at /\ d.tries = c.tries
           /\ Frame(d, c)
    BY DEF CallType, Frame

\* A call with other registers left to read
LEMMA SetLeft ==
    ASSUME NEW c \in CallType, NEW s \in Seq(Registers)
    PROVE  LET d == [c EXCEPT !.left = s] IN
           /\ d \in CallType /\ d.left = s
           /\ d.stuck = c.stuck /\ d.got = c.got /\ d.at = c.at /\ d.tries = c.tries
           /\ Frame(d, c)
    BY DEF CallType, Frame

\* A call that has got other values
LEMMA SetGot ==
    ASSUME NEW c \in CallType, NEW s \in Seq(Registers)
    PROVE  LET d == [c EXCEPT !.got = s] IN
           /\ d \in CallType /\ d.got = s
           /\ d.stuck = c.stuck /\ d.left = c.left /\ d.at = c.at /\ d.tries = c.tries
           /\ Frame(d, c)
    BY DEF CallType, Frame

\* A register that was read is one more value, and one register less to read.
LEMMA ReadFacts ==
    ASSUME LockInv, call \in CallType, call.left # <<>>
    PROVE  /\ Read \in CallType /\ Read.got # <<>> /\ Read.left = Tail(call.left)
           /\ Read.at = call.at /\ Read.stuck = call.stuck /\ Read.tries = 0
           /\ Read.got = Append(call.got, Value(Head(call.left))) /\ Frame(Read, call)
<1>1. call.left \in Seq(Registers) /\ call.got \in Seq(Registers)
    BY DEF CallType
<1>2. PICK r : r = Head(call.left)
    OBVIOUS
<1>3. r \in Registers /\ Tail(call.left) \in Seq(Registers)
    BY <1>1, <1>2
<1>4. Value(r) \in Registers
    <2>1. count \in Nat /\ Word \in Nat \ {0}
        BY WordAssumption DEF LockInv, TypeOK
    <2>2. count \div Word \in Nat /\ count % Word \in Nat
        BY <2>1
    <2>3. QED
        BY <1>3, <2>2 DEF Value, Registers
<1>5. PICK got : got = Append(call.got, Value(r))
    OBVIOUS
<1>6. got \in Seq(Registers) /\ got # <<>>
    BY <1>1, <1>4, <1>5
<1>7. PICK c : c = [call EXCEPT !.got = got]
    OBVIOUS
<1>8. PICK d : d = [c EXCEPT !.left = Tail(call.left)]
    OBVIOUS
<1>9. Read = [d EXCEPT !.tries = 0]
    BY <1>2, <1>5, <1>7, <1>8, Zenon DEF Read
<1>10. /\ c \in CallType /\ c.got = got /\ Frame(c, call)
       /\ c.stuck = call.stuck /\ c.at = call.at
    BY <1>6, <1>7, SetGot
<1>11. /\ d \in CallType /\ d.got = got /\ d.left = Tail(call.left) /\ Frame(d, c)
       /\ d.stuck = call.stuck /\ d.at = call.at
    BY <1>3, <1>8, <1>10, SetLeft
<1>12. /\ Read \in CallType /\ Read.got = got /\ Read.left = Tail(call.left) /\ Read.tries = 0
       /\ Read.at = call.at /\ Read.stuck = call.stuck /\ Frame(Read, d)
    BY <1>9, <1>11, SetTries
<1>13. Frame(Read, call)
    BY <1>10, <1>11, <1>12 DEF Frame
<1>14. QED
    BY <1>2, <1>5, <1>6, <1>12, <1>13

\* A call reads the next register of the same object.
LEMMA SameOwn ==
    ASSUME Own, UNCHANGED object, call'.left = call.left, Frame(call', call)
    PROVE  Own'
BY DEF Own, Owns, object, Frame

\* What a step that changes only the call and the lock has to show
LEMMA CallStep ==
    ASSUME LockInv, call \in CallType, UNCHANGED <<object, count, last>>,
           locked' \in {0, 1}, kind # "mako" => locked' = 0,
           call' \in CallType, CallInv'
    PROVE  LockInv'
<1>1. TypeOK'
    BY DEF object, LockInv, TypeOK
<1>2. LastInv' /\ CallOK' /\ (kind' # "mako" => locked' = 0)
    BY DEF object, LockInv, CallInv, LastInv, CallOK
<1>3. QED
    BY <1>1, <1>2 DEF LockInv

\* A call in progress is of its type and at one of its places.
LEMMA InCall == ASSUME LockInv, call # NoCall PROVE call \in CallType /\ CallInv
    BY DEF LockInv, CallOK

\* A read that is not of the device, and the end of one
LEMMA ReadLock ==
    ASSUME LockInv, NotOwned \/ Returns \/ EosRead
    PROVE  LockInv'
<1>0. call \in CallType /\ CallInv /\ locked \in {0, 1} /\ (kind # "mako" => locked = 0)
    BY InCall DEF NotOwned, Returns, EosRead, At, LockInv, TypeOK
<1>1. CASE NotOwned
    BY <1>0, <1>1, EndedLock DEF NotOwned
<1>2. CASE Returns
    <2>1. locked = 0
        BY <1>0, <1>2 DEF Returns, CallInv
    <2>2. QED
        BY <1>0, <1>2, <2>1, EndedLock DEF Returns
<1>3. CASE EosRead
    <2>0. /\ call.left # <<>> /\ call.at = "try" /\ locked = 0 /\ UNCHANGED <<object, locked>>
          /\ (call' = Read /\ UNCHANGED <<last, count>>) \/ TryAgain(call)
        BY <1>0, <1>3 DEF EosRead, At
    <2>1. CASE call' = Read /\ UNCHANGED <<last, count>>
        <3>1. /\ call' \in CallType /\ call'.got # <<>> /\ call'.at = "try" /\ call'.stuck <= 1
            BY <1>0, <2>0, <2>1, ReadFacts DEF CallInv
        <3>2. CallInv'
            BY <1>0, <2>0, <2>1, <3>1 DEF CallInv, Taken
        <3>3. QED
            BY <1>0, <2>0, <2>1, <3>1, <3>2, CallStep
    <2>2. CASE TryAgain(call)
        BY <1>0, <2>0, <2>2, TryAgainLock DEF CallInv
    <2>3. QED
        BY <2>0, <2>1, <2>2
<1>4. QED
    BY <1>1, <1>2, <1>3

\* An access takes the lock, or finds it taken and gives up the try.
LEMMA GrabLock ==
    ASSUME LockInv, Grab \/ FoundLocked
    PROVE  LockInv'
<1>0. /\ call \in CallType /\ CallInv /\ kind = "mako"
      /\ call.left # <<>> /\ call.at = "try" /\ call.stuck <= 1
    BY InCall DEF Grab, FoundLocked, At, CallInv
<1>1. CASE Grab
    <2>1. /\ call' = [call EXCEPT !.at = "held"] /\ locked' = 1 /\ UNCHANGED <<object, count, last>>
        BY <1>1 DEF Grab
    <2>2. /\ call' \in CallType /\ call'.at = "held" /\ call'.left # <<>> /\ call'.stuck <= 1
          /\ call'.left = call.left /\ Frame(call', call)
        BY <1>0, <2>1, SetAt DEF Places
    <2>5. Own'
        BY <1>1, <2>1, <2>2, SameOwn DEF Grab
    <2>3. CallInv'
        BY <1>0, <2>1, <2>2, <2>5 DEF CallInv, Taken, object
    <2>4. QED
        BY <1>0, <2>1, <2>2, <2>3, CallStep
<1>2. CASE FoundLocked
    <2>1. call.stuck = 0
        BY <1>0, <1>2 DEF FoundLocked, CallInv, CallType
    <2>2. PICK c : c = [call EXCEPT !.stuck = call.stuck + 1]
        OBVIOUS
    <2>6. c = [call EXCEPT !.stuck = 1]
        <3>1. call.stuck + 1 = 1
            BY <2>1
        <3>2. QED
            BY <2>2, <3>1, Zenon
    <2>3. TryAgain(c) /\ locked' = 0 /\ UNCHANGED object
        BY <1>2, <2>2, Zenon DEF FoundLocked, LockAfter
    <2>4. c \in CallType /\ c.left # <<>> /\ c.stuck <= 1
        <3>1. c \in CallType /\ c.stuck = 1 /\ c.left = call.left
            <4>1. 1 \in Nat
                OBVIOUS
            <4>2. QED
                BY <1>0, <2>6, <4>1, SetStuck, Zenon
        <3>2. QED
            BY <1>0, <3>1
    <2>5. QED
        BY <1>0, <2>3, <2>4, TryAgainLock
<1>3. QED
    BY <1>1, <1>2

\* The transfer, and the release that follows it in any case
LEMMA TransferLock ==
    ASSUME LockInv, Transfer \/ Release
    PROVE  LockInv'
<1>0. /\ call \in CallType /\ CallInv /\ kind = "mako"
      /\ call.left # <<>> /\ call.at \in Taken /\ call.stuck <= 1 /\ locked = 1
    BY InCall DEF Transfer, Release, At, CallInv, Taken
<1>1. CASE Transfer
    <2>1. call.at = "held" /\ UNCHANGED <<object, count, locked, last>> /\ Own
        BY <1>0, <1>1 DEF Transfer, At, CallInv
    <2>2. CASE call' = [Read EXCEPT !.at = "done", !.left = call.left]
        <3>1. PICK c : c = [Read EXCEPT !.at = "done"]
            OBVIOUS
        <3>2. /\ c \in CallType /\ c.at = "done" /\ c.got # <<>> /\ c.stuck = call.stuck
              /\ Frame(c, call)
            BY <1>0, <3>1, ReadFacts, SetAt DEF Places, Frame
        <3>3. call' = [c EXCEPT !.left = call.left]
            BY <2>2, <3>1, Zenon
        <3>4. call.left \in Seq(Registers)
            BY <1>0 DEF CallType
        <3>5. /\ call' \in CallType /\ call'.at = "done" /\ call'.got # <<>>
              /\ call'.stuck <= 1 /\ call'.left # <<>> /\ call'.left = call.left
              /\ Frame(call', call)
            BY <1>0, <3>2, <3>3, <3>4, SetLeft DEF Frame
        <3>8. Own'
            BY <2>1, <3>5, SameOwn
        <3>6. CallInv'
            BY <1>0, <2>1, <3>5, <3>8 DEF CallInv, Taken, object
        <3>7. QED
            BY <1>0, <2>1, <3>5, <3>6, CallStep
    <2>3. CASE call' = [call EXCEPT !.at = "failed"]
        <3>1. /\ call' \in CallType /\ call'.at = "failed" /\ call'.stuck <= 1
              /\ call'.left # <<>> /\ call'.left = call.left /\ Frame(call', call)
            BY <1>0, <2>3, SetAt DEF Places
        <3>4. Own'
            BY <2>1, <3>1, SameOwn
        <3>2. CallInv'
            BY <1>0, <2>1, <3>1, <3>4 DEF CallInv, Taken, object
        <3>3. QED
            BY <1>0, <2>1, <3>1, <3>2, CallStep
    <2>4. QED
        BY <1>1, <2>2, <2>3 DEF Transfer
<1>2. CASE Release
    <2>1. locked' = 0 /\ UNCHANGED object
        BY <1>2 DEF Release
    <2>2. CASE At("done") /\ call' = [call EXCEPT !.at = "try", !.left = Tail(@)] /\ UNCHANGED <<last, count>>
        <3>1. PICK c : c = [call EXCEPT !.at = "try"]
            OBVIOUS
        <3>2. c \in CallType /\ c.at = "try" /\ c.got = call.got /\ c.stuck = call.stuck
            BY <1>0, <3>1, SetAt DEF Places
        <3>3. call' = [c EXCEPT !.left = Tail(call.left)]
            BY <2>2, <3>1, Zenon
        <3>4. Tail(call.left) \in Seq(Registers)
            BY <1>0 DEF CallType
        <3>5. call.got # <<>>
            BY <1>0, <2>2 DEF CallInv, At
        <3>6. /\ call' \in CallType /\ call'.at = "try" /\ call'.got # <<>> /\ call'.stuck <= 1
            BY <1>0, <3>2, <3>3, <3>4, <3>5, SetLeft
        <3>7. CallInv'
            BY <1>0, <2>1, <2>2, <3>6 DEF CallInv, Taken, object
        <3>8. QED
            BY <1>0, <2>1, <2>2, <3>6, <3>7, CallStep
    <2>3. CASE At("failed") /\ TryAgain(call)
        BY <1>0, <2>1, <2>3, TryAgainLock
    <2>4. QED
        BY <1>2, <2>2, <2>3 DEF Release
<1>3. QED
    BY <1>1, <1>2

\* Ctrl-C may leave the lock, but then it ends the call.
LEMMA InterruptLock ==
    ASSUME LockInv, Interrupt
    PROVE  LockInv'
<1>0. /\ call \in CallType /\ CallInv /\ kind = "mako" /\ call.left # <<>> /\ call.stuck <= 1
      /\ locked \in {0, 1} /\ UNCHANGED object
    BY InCall DEF Interrupt, At, CallInv, LockInv, TypeOK
<1>1. CASE Ended("interrupted") /\ locked' \in {0, locked}
    BY <1>0, <1>1, EndedLock
<1>2. CASE locked = 0 /\ TryAgain(call) /\ UNCHANGED locked
    BY <1>0, <1>2, TryAgainLock
<1>3. QED
    BY <1>1, <1>2 DEF Interrupt

BurstStep ==
    \/ \E a \in Addrs :
          \/ AddRegister(a, TRUE, 0, FALSE)
          \/ \E v \in {1, 2}, list \in BOOLEAN : AddRegister(a, FALSE, v, list)
    \/ AddRaises(FALSE) \/ Submit \/ ClearBurst

\* A burst is apart from the calls and their register files.
LEMMA BurstApart == BurstStep => UNCHANGED <<object, count, locked, call, last>>
    BY DEF BurstStep, AddRegister, AddRaises, Submit, ClearBurst

\* A counter that counts, and a burst: they do not touch the lock.
LEMMA OtherLock ==
    ASSUME LockInv,
           Counts \/ BurstStep
    PROVE  LockInv'
<1>1. UNCHANGED <<object, locked, call, last>> /\ count' \in 0 .. MaxCount
    <2>1. CASE Counts
        <3>1. count \in Nat /\ count < MaxCount /\ count' = count + 1
            BY <2>1, WordAssumption DEF Counts, LockInv, TypeOK
        <3>2. QED
            BY <2>1, <3>1, WordAssumption DEF Counts
    <2>2. CASE ~Counts
        BY <2>2, BurstApart DEF LockInv, TypeOK
    <2>3. QED
        BY <2>1, <2>2
<1>2. TypeOK'
    BY <1>1 DEF object, LockInv, TypeOK
<1>3. QED
    BY <1>1, <1>2 DEF object, LockInv, CallOK, CallInv, LastInv, Own, Owns

\* A step of anyone keeps the invariant of the lock.
LEMMA NextLock == LockInv /\ [Next]_vars => LockInv'
<1> SUFFICES ASSUME LockInv, [Next]_vars PROVE LockInv'
    OBVIOUS
<1>1. CASE \E i \in Objects : \E csv \in Csvs : Construct(i, csv)
    BY <1>1, ConstructLock
<1>2. CASE \E i \in Objects : ReadWide(i) \/ ReadString(i) \/ \E r \in {"high", "low"} : ReadOne(i, r)
    BY <1>2, ReadsBegin
<1>3. CASE NotOwned \/ Returns \/ EosRead
    BY <1>3, ReadLock
<1>4. CASE Grab \/ FoundLocked
    BY <1>4, GrabLock
<1>5. CASE Transfer \/ Release
    BY <1>5, TransferLock
<1>6. CASE Interrupt
    BY <1>6, InterruptLock
<1>7. CASE Counts \/ BurstStep
    BY <1>7, OtherLock
<1>8. CASE UNCHANGED vars
    BY <1>8 DEF vars, object, LockInv, TypeOK, CallOK, CallInv, LastInv, Own, Owns
<1>9. QED
    BY <1>1, <1>2, <1>3, <1>4, <1>5, <1>6, <1>7, <1>8 DEF Next, BurstStep

\* Whatever the size of the words and the number of tries, the lock of the I2C device that
\* MakoRegAccess takes is left by nothing but an interrupt in the finally of read_reg(), and
\* the next access loses one try to it at most.
THEOREM LockHealsHolds == Spec => []LockHeals
<1>1. Init => LockInv
    BY InitLock
<1>2. LockInv /\ [Next]_vars => LockInv'
    BY NextLock
<1>3. LockInv => LockHeals
    BY DEF LockInv, CallOK, CallInv, LastInv, LockHeals, Taken
<1>4. QED
    BY <1>1, <1>2, <1>3, PTL DEF Spec
-----------------------------------------------------------------------------
(* What a step does to the read of a compound: Rest is what is left to be  *)
(* read when the register of an access that is done counts as read.        *)

Rest == IF call.at = "done" THEN Tail(call.left) ELSE call.left

NoRead ==
    /\ call' \in CallType /\ call'.got = call.got /\ Rest' = Rest /\ Frame(call', call)
    /\ last' = last /\ count' \in {count, count + 1}

OneRead ==
    /\ Rest # <<>> /\ Owns(call.obj, call.what, Head(Rest))
    /\ call' \in CallType /\ call'.got = Append(call.got, Value(Head(Rest)))
    /\ Rest' = Tail(Rest) /\ Frame(call', call)
    /\ UNCHANGED <<last, count>>

CallEnd ==
    \/ Ended("value") /\ Rest = <<>>
    \/ Ended("attribute") /\ Rest # <<>> /\ ~Owns(call.obj, call.what, Head(Rest))
    \/ Ended("gave up")
    \/ Ended("interrupted")

\* A try that failed reads nothing.
LEMMA TryReads ==
    ASSUME call \in CallType, NEW c \in CallType, TryAgain(c),
           c.got = call.got, c.left = call.left, Frame(c, call), call.at # "done"
    PROVE  NoRead \/ CallEnd
<1>1. CASE c.tries + 1 = Retries
    BY <1>1 DEF TryAgain, CallEnd
<1>2. CASE c.tries + 1 # Retries
    <2>1. call' = [c EXCEPT !.at = "try", !.tries = @ + 1] /\ UNCHANGED <<last, count>>
        BY <1>2 DEF TryAgain
    <2>2. PICK d : d = [c EXCEPT !.at = "try"]
        OBVIOUS
    <2>3. /\ d \in CallType /\ d.at = "try" /\ d.left = c.left /\ d.got = c.got /\ Frame(d, c)
          /\ d.tries = c.tries
        BY <2>2, SetAt DEF Places
    <2>4. call' = [d EXCEPT !.tries = c.tries + 1]
        BY <2>1, <2>2, Zenon
    <2>5. c.tries + 1 \in Nat
        BY DEF CallType
    <2>6. /\ call' \in CallType /\ call'.at = "try" /\ call'.left = d.left /\ call'.got = d.got
          /\ Frame(call', d)
        BY <2>3, <2>4, <2>5, SetTries
    <2>7. Rest' = Rest
        BY <2>3, <2>6 DEF Rest
    <2>8. QED
        BY <2>1, <2>3, <2>6, <2>7 DEF NoRead, Frame
<1>3. QED
    BY <1>1, <1>2

\* A step of a call reads one register or none, or ends the call.
LEMMA CallReads ==
    ASSUME LockInv, call # NoCall, [Next]_vars
    PROVE  UNCHANGED <<files, class, kind>> /\ (NoRead \/ OneRead \/ CallEnd)
<1>0. call \in CallType /\ CallInv
    BY InCall
<1>1. CASE NotOwned \/ Returns
    <2>1. CASE NotOwned
        <3>1. Ended("attribute") /\ call.at = "try" /\ call.left # <<>> /\ ~Own /\ UNCHANGED object
            BY <2>1 DEF NotOwned, At
        <3>2. Rest = call.left
            BY <3>1 DEF Rest
        <3>3. QED
            BY <3>1, <3>2 DEF CallEnd, object, Own
    <2>2. CASE Returns
        <3>1. Ended("value") /\ call.left = <<>> /\ UNCHANGED object
            BY <2>2 DEF Returns
        <3>2. Rest = call.left
            BY <1>0, <3>1 DEF Rest, CallInv
        <3>3. QED
            BY <3>1, <3>2 DEF CallEnd, object
    <2>3. QED
        BY <1>1, <2>1, <2>2
<1>2. CASE EosRead
    <2>1. /\ call.left # <<>> /\ call.at = "try" /\ Owns(call.obj, call.what, Head(call.left))
          /\ UNCHANGED object
          /\ (call' = Read /\ UNCHANGED <<last, count>>) \/ TryAgain(call)
        BY <1>2 DEF EosRead, At, Own
    <2>2. CASE call' = Read /\ UNCHANGED <<last, count>>
        <3>1. /\ call' \in CallType /\ call'.left = Tail(call.left) /\ call'.at = "try"
              /\ call'.got = Append(call.got, Value(Head(call.left))) /\ Frame(call', call)
            BY <1>0, <2>1, <2>2, ReadFacts
        <3>2. QED
            BY <2>1, <2>2, <3>1 DEF OneRead, Rest, object
    <2>3. CASE TryAgain(call)
        BY <1>0, <2>1, <2>3, TryReads DEF object, Frame
    <2>4. QED
        BY <2>1, <2>2, <2>3
<1>3. CASE Grab
    <2>1. /\ call' = [call EXCEPT !.at = "held"] /\ UNCHANGED <<object, count, last>>
          /\ call.at = "try"
        BY <1>3 DEF Grab, At
    <2>2. /\ call' \in CallType /\ call'.at = "held" /\ call'.left = call.left
          /\ call'.got = call.got /\ Frame(call', call)
        BY <1>0, <2>1, SetAt DEF Places
    <2>3. QED
        BY <2>1, <2>2 DEF NoRead, Rest, object
<1>4. CASE FoundLocked
    <2>1. PICK c : c = [call EXCEPT !.stuck = call.stuck + 1]
        OBVIOUS
    <2>2. TryAgain(c) /\ UNCHANGED object /\ call.at = "try"
        BY <1>4, <2>1, Zenon DEF FoundLocked, At
    <2>3. call.stuck + 1 \in Nat
        BY <1>0 DEF CallType
    <2>4. c \in CallType /\ c.left = call.left /\ c.got = call.got /\ Frame(c, call)
        BY <1>0, <2>1, <2>3, SetStuck
    <2>5. QED
        BY <1>0, <2>2, <2>4, TryReads DEF object
<1>5. CASE Transfer
    <2>1. /\ call.at = "held" /\ call.left # <<>> /\ UNCHANGED <<object, count, locked, last>>
          /\ call' \in {[Read EXCEPT !.at = "done", !.left = call.left], [call EXCEPT !.at = "failed"]}
        BY <1>5 DEF Transfer, At
    <2>2. Owns(call.obj, call.what, Head(call.left))
        BY <1>0, <2>1 DEF CallInv, Taken, Own
    <2>3. CASE call' = [Read EXCEPT !.at = "done", !.left = call.left]
        <3>1. PICK c : c = [Read EXCEPT !.at = "done"]
            OBVIOUS
        <3>2. /\ c \in CallType /\ c.at = "done" /\ Frame(c, Read)
              /\ c.got = Append(call.got, Value(Head(call.left))) /\ Frame(Read, call)
            BY <1>0, <2>1, <3>1, ReadFacts, SetAt DEF Places
        <3>3. call' = [c EXCEPT !.left = call.left]
            BY <2>3, <3>1, Zenon
        <3>4. call.left \in Seq(Registers)
            BY <1>0 DEF CallType
        <3>5. /\ call' \in CallType /\ call'.at = "done" /\ call'.got = c.got
              /\ call'.left = call.left /\ Frame(call', c)
            BY <3>2, <3>3, <3>4, SetLeft
        <3>6. Rest = call.left /\ Rest' = Tail(call.left)
            BY <2>1, <3>5 DEF Rest
        <3>7. Frame(call', call)
            BY <3>2, <3>5 DEF Frame
        <3>8. QED
            BY <2>1, <2>2, <3>2, <3>5, <3>6, <3>7 DEF OneRead, object
    <2>4. CASE call' = [call EXCEPT !.at = "failed"]
        <3>1. /\ call' \in CallType /\ call'.at = "failed" /\ call'.left = call.left
              /\ call'.got = call.got /\ Frame(call', call)
            BY <1>0, <2>4, SetAt DEF Places
        <3>2. QED
            BY <2>1, <3>1 DEF NoRead, Rest, object
    <2>5. QED
        BY <2>1, <2>3, <2>4
<1>6. CASE Release
    <2>1. CASE At("done") /\ call' = [call EXCEPT !.at = "try", !.left = Tail(@)] /\ UNCHANGED <<last, count>>
        <3>1. PICK c : c = [call EXCEPT !.at = "try"]
            OBVIOUS
        <3>2. c \in CallType /\ c.got = call.got /\ c.at = "try" /\ Frame(c, call)
            BY <1>0, <3>1, SetAt DEF Places
        <3>3. call' = [c EXCEPT !.left = Tail(call.left)]
            BY <2>1, <3>1, Zenon
        <3>4. call.left # <<>> /\ call.left \in Seq(Registers) /\ call.at = "done"
            BY <1>0, <2>1 DEF CallType, At
        <3>5. Tail(call.left) \in Seq(Registers)
            BY <3>4
        <3>6. /\ call' \in CallType /\ call'.left = Tail(call.left) /\ call'.at = "try"
              /\ call'.got = call.got /\ Frame(call', c)
            BY <3>2, <3>3, <3>5, SetLeft
        <3>7. Rest' = Rest
            BY <3>4, <3>6 DEF Rest
        <3>8. Frame(call', call)
            BY <3>2, <3>6 DEF Frame
        <3>9. QED
            BY <1>6, <2>1, <3>6, <3>7, <3>8 DEF NoRead, Release, object
    <2>2. CASE At("failed") /\ TryAgain(call)
        BY <1>0, <1>6, <2>2, TryReads DEF At, Release, object, Frame
    <2>3. QED
        BY <1>6, <2>1, <2>2 DEF Release
<1>7. CASE Interrupt
    <2>1. CASE Ended("interrupted")
        BY <1>7, <2>1 DEF Interrupt, CallEnd, object
    <2>2. CASE call.at = "try" /\ TryAgain(call)
        BY <1>0, <1>7, <2>2, TryReads DEF Interrupt, object, Frame
    <2>3. QED
        BY <1>7, <2>1, <2>2 DEF Interrupt
<1>8. CASE Counts \/ BurstStep \/ UNCHANGED vars
    <2>1. UNCHANGED <<object, call, last>> /\ count' \in {count, count + 1}
        BY <1>8, BurstApart DEF Counts, vars
    <2>2. QED
        BY <1>0, <2>1 DEF NoRead, Rest, Frame, object
<1>9. CASE \E i \in Objects :
              \/ \E csv \in Csvs : Construct(i, csv)
              \/ ReadWide(i) \/ ReadString(i) \/ \E r \in {"high", "low"} : ReadOne(i, r)
    BY <1>9 DEF Construct, ReadWide, ReadString, ReadOne, Begin
<1>10. QED
    BY <1>1, <1>2, <1>3, <1>4, <1>5, <1>6, <1>7, <1>8, <1>9 DEF Next, BurstStep
-----------------------------------------------------------------------------
(* The reads of compounds                                                  *)

\* The strings of a class are as long as the longest of the files that made it, and
\* what it has is a register of some file.
ClassInv ==
    /\ class.str = class.len
    /\ \A i \in Objects : files[i] # None /\ ~files[i].nested => files[i].len <= class.len
    /\ class.len > 0 => \E j \in Objects : files[j] # None /\ files[j].len = class.len
    /\ class.high => \E j \in Objects : files[j] # None /\ files[j].high
    /\ class.wide => class.high /\ \E j \in Objects : files[j] # None /\ files[j].low

StringSoFar ==
    /\ Len(call.got) + Len(Rest) = ClassOf(call.obj).str
    /\ Len(call.got) <= files[call.obj].len
    /\ \A k \in 1 .. Len(call.got) : call.got[k] = k
    /\ \A k \in 1 .. Len(Rest) : Rest[k] = Len(call.got) + k

\* The high half was read at m, the low half at n.
WideSoFar ==
    \/ Rest = Wide /\ call.got = <<>>
    \/ Rest = <<"low">> /\ \E m \in call.from .. count : call.got = <<m \div Word>>
    \/ Rest = <<>> /\ \E m \in call.from .. count : \E n \in m .. count :
                          call.got = <<m \div Word, n % Word>>

ReadsInv ==
    call # NoCall =>
        /\ files[call.obj] # None
        /\ call.from <= count
        /\ call.what = "string" => StringSoFar
        /\ call.what = "wide" => ClassOf(call.obj).wide /\ WideSoFar
        /\ call.what = "one" =>
                Rest = <<>> \/ \E r \in Registers : Rest = <<r>> /\ Owns(call.obj, "one", r)

ResultInv ==
    /\ last # NoCall => last.obj \in Objects /\ files[last.obj] # None
    /\ WholeString
    /\ WideRead

CompoundInv == ClassInv /\ ReadsInv /\ ResultInv

\* The halves of a counter that only counts up
LEMMA Halves ==
    ASSUME NEW f \in Nat, NEW m \in Nat, NEW n \in Nat, NEW t \in Nat,
           f <= m, m <= n, n <= t
    PROVE  /\ (m \div Word) * Word + (n % Word) <= t
           /\ f \div Word = t \div Word => (m \div Word) * Word + (n % Word) \in f .. t
<1> DEFINE W == Word
<1>1. W \in Nat \ {0}
    BY WordAssumption
<1> HIDE DEF W
<1>2. ASSUME NEW a \in Nat
      PROVE  a \div W \in Nat /\ a % W \in 0 .. W - 1 /\ a = (a \div W) * W + (a % W)
    BY <1>1
<1>3. ASSUME NEW a \in Nat, NEW b \in Nat, a <= b PROVE a \div W <= b \div W
    <2> DEFINE x == a \div W
    <2> DEFINE y == b \div W
    <2>1. x \in Nat /\ y \in Nat /\ a >= x * W /\ b < y * W + W
        BY <1>1, <1>2
    <2> HIDE DEF x, y
    <2>2. SUFFICES ASSUME x >= y + 1 PROVE FALSE
        BY <2>1 DEF x, y
    <2>3. x * W >= (y + 1) * W
        BY <1>1, <2>1, <2>2
    <2>4. (y + 1) * W = y * W + W
        BY <1>1, <2>1
    <2>5. x * W \in Nat /\ y * W \in Nat
        BY <1>1, <2>1
    <2>6. QED
        BY <1>1, <1>3, <2>1, <2>3, <2>4, <2>5
<1> DEFINE x == m \div W
<1> DEFINE y == n \div W
<1>4. x \in Nat /\ y \in Nat /\ x <= y /\ n = y * W + (n % W) /\ n % W \in Nat
    BY <1>1, <1>2, <1>3
<1>5. x * W \in Nat /\ y * W \in Nat /\ x * W <= y * W
    BY <1>1, <1>4
<1>6. x * W + (n % W) <= t
    BY <1>4, <1>5
<1>7. ASSUME f \div W = t \div W PROVE x * W + (n % W) \in f .. t
    <2>1. f \div W <= x /\ y <= t \div W /\ f \div W \in Nat
        BY <1>2, <1>3
    <2>2. x = y
        BY <1>4, <1>7, <2>1
    <2>3. QED
        BY <1>4, <2>2
<1>8. QED
    BY <1>6, <1>7 DEF W

\* The class after the registers of one more file
LEMMA ConstructClass ==
    ASSUME LockInv, ClassInv, NEW i \in Objects, NEW csv \in Csvs, Construct(i, csv)
    PROVE  ClassInv'
<1>1. /\ files[i] = None /\ files' = [files EXCEPT ![i] = csv] /\ csv # None
      /\ class' = IF csv.nested THEN class ELSE Added(class, csv)
    BY NoneAssumption DEF Construct, Csvs
<1>2. /\ files \in [Objects -> Csvs \cup {None}] /\ class \in ClassType
      /\ class.len \in Nat /\ csv.len \in Nat
    BY WordAssumption DEF LockInv, TypeOK, ClassType, Csvs
<1>3. /\ files'[i] = csv /\ \A j \in Objects : j # i => files'[j] = files[j]
      /\ \A j \in Objects : files[j] # None => files'[j] = files[j]
    BY <1>1, <1>2
<1>4. \A j \in Objects : files[j] # None => files[j] \in Csvs /\ files[j].len \in Nat
    BY <1>2, WordAssumption DEF Csvs
<1>5. CASE csv.nested
    BY <1>1, <1>3, <1>5 DEF ClassInv
<1>6. CASE ~csv.nested
    <2>1. class' = Added(class, csv)
        BY <1>1, <1>6
    <2>2. /\ class'.len = Larger(class.len, csv.len)
          /\ class'.high = (class.high \/ csv.high)
          /\ class'.str = IF csv.len > 0 THEN Larger(class.len, csv.len) ELSE class.str
          /\ class'.wide = (class.wide \/ (csv.low /\ (class.high \/ csv.high)))
        BY <2>1 DEF Added
    <2>3. class'.str = class'.len
        BY <1>2, <2>2 DEF ClassInv, Larger
    <2>4. \A j \in Objects : files'[j] # None /\ ~files'[j].nested => files'[j].len <= class'.len
        BY <1>2, <1>3, <1>4, <2>2 DEF ClassInv, Larger
    <2>5. class'.len > 0 => \E j \in Objects : files'[j] # None /\ files'[j].len = class'.len
        BY <1>1, <1>2, <1>3, <2>2 DEF ClassInv, Larger
    <2>6. class'.high => \E j \in Objects : files'[j] # None /\ files'[j].high
        BY <1>1, <1>3, <2>2 DEF ClassInv
    <2>7. class'.wide => class'.high /\ \E j \in Objects : files'[j] # None /\ files'[j].low
        BY <1>1, <1>3, <2>2 DEF ClassInv
    <2>8. QED
        BY <2>3, <2>4, <2>5, <2>6, <2>7 DEF ClassInv
<1>7. QED
    BY <1>5, <1>6

\* RegisterFile() puts the registers and compounds of one more file into the class.
LEMMA ConstructCompound ==
    ASSUME LockInv, CompoundInv, NEW i \in Objects, NEW csv \in Csvs, Construct(i, csv)
    PROVE  CompoundInv'
<1>1. /\ call' = NoCall /\ last' = last /\ files[i] = None
      /\ files' = [files EXCEPT ![i] = csv]
    BY DEF Construct
<1>2. \A j \in Objects : files[j] # None => files'[j] = files[j]
    BY <1>1 DEF LockInv, TypeOK
<1>3. ReadsInv'
    BY <1>1 DEF ReadsInv
<1>4. ResultInv'
    BY <1>1, <1>2 DEF CompoundInv, ResultInv, WholeString, WideRead, Ok
<1>5. QED
    BY <1>3, <1>4, ConstructClass DEF CompoundInv

\* What the class of a built register file has
LEMMA ClassOfFacts ==
    ASSUME LockInv, ClassInv, NEW i \in Objects, files[i] # None
    PROVE  LET c == ClassOf(i) IN
           /\ files[i].len \in Nat /\ c.str \in Nat /\ files[i].len <= c.str
           /\ c.str > files[i].len =>
                \E j \in Objects : files[j] # None /\ files[j] # files[i]
           /\ c.wide /\ ~(files[i].low /\ files[i].high) =>
                \E j \in Objects : files[j] # None /\ files[j] # files[i]
<1>1. /\ files[i] \in Csvs /\ class \in ClassType /\ files[i].len \in Nat
      /\ class.len \in Nat /\ class.str \in Nat
    BY WordAssumption DEF LockInv, TypeOK, ClassType, Csvs
<1>2. CASE files[i].nested
    <2>1. ClassOf(i) = Added(NoClass, files[i])
        BY <1>2 DEF ClassOf
    <2>2. Larger(0, files[i].len) = files[i].len
        BY <1>1 DEF Larger
    <2>3. ClassOf(i).str = files[i].len
        BY <1>1, <2>1, <2>2 DEF Added, NoClass
    <2>4. ClassOf(i).wide = (NoClass.wide \/ (files[i].low /\ (NoClass.high \/ files[i].high)))
        BY <2>1 DEF Added
    <2>5. ~NoClass.wide /\ ~NoClass.high
        BY DEF NoClass
    <2>6. ClassOf(i).wide => files[i].low /\ files[i].high
        BY <2>4, <2>5, Zenon
    <2>7. ~(ClassOf(i).str > files[i].len) /\ files[i].len <= ClassOf(i).str
        BY <1>1, <2>3
    <2>8. ClassOf(i).str \in Nat
        BY <1>1, <2>3
    <2>9. QED
        BY <1>1, <2>6, <2>7, <2>8, Zenon
<1>3. CASE ~files[i].nested
    <2>1. ClassOf(i) = class
        BY <1>3 DEF ClassOf
    <2>2. files[i].len <= class.str
        BY <1>3 DEF ClassInv
    <2>3. ASSUME class.str > files[i].len
          PROVE  \E j \in Objects : files[j] # None /\ files[j] # files[i]
        <3>1. class.len > 0 /\ class.len # files[i].len
            BY <1>1, <2>3 DEF ClassInv
        <3>2. QED
            BY <3>1 DEF ClassInv
    <2>4. ASSUME class.wide, ~(files[i].low /\ files[i].high)
          PROVE  \E j \in Objects : files[j] # None /\ files[j] # files[i]
        BY <2>4 DEF ClassInv
    <2>5. QED
        BY <1>1, <2>1, <2>2, <2>3, <2>4
<1>4. QED
    BY <1>2, <1>3

\* The results of earlier reads are not affected by a call that begins.
LEMMA BeginCompound ==
    ASSUME LockInv, CompoundInv, NEW i \in Objects,
           ReadWide(i) \/ ReadString(i) \/ \E r \in {"high", "low"} : ReadOne(i, r)
    PROVE  CompoundInv'
<1>1. /\ files[i] # None /\ UNCHANGED object /\ last' = NoCall
      /\ call'.obj = i /\ call'.got = <<>> /\ call'.from = count' /\ count' \in Nat
      /\ Rest' = call'.left
      /\ \/ call'.what = "wide" /\ call'.left = Wide /\ ClassOf(i).wide
         \/ call'.what = "string" /\ call'.left = StringOf(ClassOf(i).str)
         \/ call'.what = "one" /\ \E r \in {"high", "low"} : call'.left = <<r>> /\ Owns(i, "one", r)
    <2>1. PICK what, registers :
            /\ files[i] # None /\ Begin(i, what, registers)
            /\ \/ what = "wide" /\ registers = Wide /\ ClassOf(i).wide
               \/ what = "string" /\ registers = StringOf(ClassOf(i).str)
               \/ what = "one" /\ \E r \in {"high", "low"} : registers = <<r>> /\ Owns(i, "one", r)
        BY DEF ReadWide, ReadString, ReadOne
    <2>2. /\ call'.what = what /\ call'.obj = i /\ call'.left = registers /\ call'.got = <<>>
          /\ call'.from = count' /\ call'.at = "try" /\ count' \in 0 .. MaxCount
          /\ last' = NoCall /\ UNCHANGED object
        BY <2>1 DEF Begin
    <2>3. Rest' = registers
        BY <2>2 DEF Rest
    <2>4. QED
        BY <2>1, <2>2, <2>3, WordAssumption
<1>2. UNCHANGED <<files, class>> /\ ClassOf(i)' = ClassOf(i)
    BY <1>1 DEF object, ClassOf
<1>3. ClassInv' /\ ResultInv'
    BY <1>1, <1>2, NoCallFacts DEF CompoundInv, ClassInv, ResultInv, WholeString, WideRead, Ok
<1>4. call'.what = "string" => StringSoFar'
    <2>1. SUFFICES ASSUME call'.what = "string" PROVE StringSoFar'
        OBVIOUS
    <2>2. Rest' = StringOf(ClassOf(i).str)
        BY <1>1, <2>1
    <2>3. ClassOf(i).str \in Nat /\ files[i].len \in Nat
        BY <1>1, ClassOfFacts DEF CompoundInv
    <2>4. /\ Len(Rest') = ClassOf(i).str
          /\ \A k \in 1 .. Len(Rest') : Rest'[k] = k
        BY <2>2, <2>3 DEF StringOf
    <2>5. Len(call'.got) = 0
        BY <1>1
    <2>6. ClassOf(call.obj)' = ClassOf(i) /\ files'[call'.obj] = files[i]
        BY <1>1, <1>2 DEF ClassOf
    <2>7. QED
        BY <2>3, <2>4, <2>5, <2>6 DEF StringSoFar
<1>5. call'.what = "wide" => ClassOf(call.obj)'.wide /\ WideSoFar'
    BY <1>1, <1>2 DEF ClassOf, WideSoFar
<1>6. call'.what = "one" =>
        \E r \in Registers : Rest' = <<r>> /\ Owns(call.obj, "one", r)'
    BY <1>1, <1>2 DEF Owns, Registers
<1>7. ReadsInv'
    BY <1>1, <1>2, <1>4, <1>5, <1>6 DEF ReadsInv
<1>8. QED
    BY <1>3, <1>7 DEF CompoundInv

\* The counter may count while nothing is read.
LEMMA NoReadCompound ==
    ASSUME LockInv, CompoundInv, call # NoCall, NoRead, UNCHANGED <<files, class>>
    PROVE  CompoundInv'
<1>1. /\ call'.got = call.got /\ Rest' = Rest /\ call'.what = call.what
      /\ call'.obj = call.obj /\ call'.from = call.from /\ last' = last
    BY DEF NoRead, Frame
<1>2. count \in Nat /\ count' \in Nat /\ count <= count' /\ call.from \in Nat
    BY InCall, WordAssumption DEF NoRead, LockInv, TypeOK, CallType
<1>3. ClassInv' /\ ResultInv'
    BY <1>1 DEF CompoundInv, ClassInv, ResultInv, WholeString, WideRead, Ok
<1>4. ClassOf(call.obj)' = ClassOf(call.obj)
    BY <1>1 DEF ClassOf
<1>5. StringSoFar => StringSoFar'
    BY <1>1, <1>4 DEF StringSoFar
<1>6. WideSoFar => WideSoFar'
    <2>1. \A m : m \in call.from .. count => m \in call.from .. count'
        BY <1>2
    <2>2. \A m \in call.from .. count : \A n \in m .. count : n \in m .. count'
        BY <1>2
    <2>3. QED
        BY <1>1, <2>1, <2>2 DEF WideSoFar
<1>7. \A r \in Registers : Owns(call.obj, "one", r) => Owns(call.obj, "one", r)'
    BY <1>1 DEF Owns
<1>8. call.from <= count'
    BY <1>2 DEF CompoundInv, ReadsInv
<1>9. ReadsInv'
    BY <1>1, <1>4, <1>5, <1>6, <1>7, <1>8 DEF CompoundInv, ReadsInv
<1>10. QED
    BY <1>3, <1>9 DEF CompoundInv

\* What has been read of a string, and what is left, is the string.
LEMMA OneReadString ==
    ASSUME LockInv, call # NoCall, StringSoFar, OneRead, UNCHANGED <<files, class>>,
           call.what = "string", files[call.obj] # None
    PROVE  StringSoFar'
<1> DEFINE g == Len(call.got)
<1>1. /\ call.got \in Seq(Registers) /\ Rest \in Seq(Registers) /\ Rest # <<>>
      /\ call.obj \in Objects
    <2>1. call.left \in Seq(Registers) /\ call.got \in Seq(Registers) /\ call.obj \in Objects
        BY InCall DEF CallType
    <2>2. call.at = "done" => call.left # <<>>
        BY InCall DEF CallInv
    <2>3. call.at = "done" => Tail(call.left) \in Seq(Registers)
        BY <2>1, <2>2
    <2>4. QED
        BY <2>1, <2>3 DEF Rest, OneRead
<1>2. g \in Nat /\ Len(Rest) \in Nat \ {0} /\ files[call.obj].len \in Nat
    BY <1>1, WordAssumption DEF LockInv, TypeOK, Csvs
<1>3. Head(Rest) = g + 1 /\ Head(Rest) \in Nat
    <2>1. 1 \in 1 .. Len(Rest) /\ g + 1 \in Nat
        BY <1>2
    <2>2. Rest[1] = g + 1
        BY <2>1 DEF StringSoFar
    <2>3. Head(Rest) = Rest[1]
        BY <1>1
    <2>4. QED
        BY <2>1, <2>2, <2>3
<1>4. g + 1 <= files[call.obj].len
    BY <1>3 DEF OneRead, Owns
<1>5. call'.got = Append(call.got, g + 1)
    BY <1>3 DEF OneRead, Value
<1>6. /\ Len(call'.got) = g + 1
      /\ \A k \in 1 .. g : call'.got[k] = call.got[k]
      /\ call'.got[g + 1] = g + 1
    <2>1. g + 1 \in Registers
        BY <1>2 DEF Registers
    <2>2. QED
        BY <1>1, <1>5, <2>1, AppendProperties
<1>7. /\ Len(Rest') = Len(Rest) - 1
      /\ \A k \in 1 .. Len(Rest) - 1 : Rest'[k] = Rest[k + 1]
    BY <1>1, HeadTailProperties DEF OneRead
<1>8. \A k \in 1 .. Len(call'.got) : call'.got[k] = k
    <2>1. \A k \in 1 .. g + 1 : k \in 1 .. g \/ k = g + 1
        BY <1>2
    <2>2. QED
        BY <1>6, <2>1 DEF StringSoFar
<1>9. \A k \in 1 .. Len(Rest') : Rest'[k] = Len(call'.got) + k
    <2> TAKE k \in 1 .. Len(Rest')
    <2>1. k \in 1 .. Len(Rest) - 1
        BY <1>7
    <2> HIDE DEF g
    <2>2. k + 1 \in 1 .. Len(Rest) /\ g + (k + 1) = g + 1 + k
        BY <1>2, <2>1
    <2>3. Rest'[k] = Rest[k + 1] /\ Rest[k + 1] = g + (k + 1)
        BY <1>7, <2>1, <2>2 DEF StringSoFar, g
    <2>4. QED
        BY <1>6, <2>2, <2>3
<1>10. ClassOf(call.obj)' = ClassOf(call.obj) /\ files'[call'.obj] = files[call.obj]
    BY DEF OneRead, Frame, ClassOf
<1> HIDE DEF g
<1>11. Len(call'.got) + Len(Rest') = ClassOf(call.obj).str
    <2>1. g + Len(Rest) = ClassOf(call.obj).str
        BY DEF g, StringSoFar
    <2>2. g + 1 + (Len(Rest) - 1) = g + Len(Rest)
        BY <1>2
    <2>3. QED
        BY <1>6, <1>7, <2>1, <2>2
<1>12. QED
    BY <1>4, <1>6, <1>8, <1>9, <1>10, <1>11 DEF StringSoFar

\* A second element is appended to a first.
LEMMA Pair ==
    ASSUME NEW a, NEW b
    PROVE  Append(<<a>>, b) = <<a, b>> /\ <<a, b>>[1] = a /\ <<a, b>>[2] = b
<1> DEFINE S == {a, b}
<1>1. <<a>> \in Seq(S) /\ <<a, b>> \in Seq(S) /\ b \in S
    OBVIOUS
<1>2. <<a>>[1] = a /\ <<a, b>>[1] = a /\ <<a, b>>[2] = b
    OBVIOUS
<1>3. Len(<<a>>) = 1 /\ Len(<<a, b>>) = 2
    OBVIOUS
<1> HIDE DEF S
<1>4. /\ Append(<<a>>, b) \in Seq(S) /\ Len(Append(<<a>>, b)) = 2
      /\ Append(<<a>>, b)[1] = a /\ Append(<<a>>, b)[2] = b
    BY <1>1, <1>2, <1>3, AppendProperties
<1>5. \A k \in 1 .. 2 : Append(<<a>>, b)[k] = <<a, b>>[k]
    BY <1>2, <1>4
<1>6. Append(<<a>>, b) = <<a, b>>
    BY <1>1, <1>3, <1>4, <1>5, SeqEqual
<1>7. QED
    BY <1>2, <1>6

\* One half of a 64 bit register is read.
LEMMA OneReadWide ==
    ASSUME LockInv, call # NoCall, call.from <= count, WideSoFar, OneRead, call.what = "wide"
    PROVE  WideSoFar'
<1>1. /\ call'.got = Append(call.got, Value(Head(Rest))) /\ Rest' = Tail(Rest) /\ Rest # <<>>
      /\ call'.from = call.from /\ count' = count
    BY DEF OneRead, Frame
<1>2. call.from \in Nat /\ count \in Nat
    BY InCall, WordAssumption DEF LockInv, TypeOK, CallType
<1>3. CASE Rest = Wide /\ call.got = <<>>
    <2>1. Head(Rest) = "high" /\ Rest' = <<"low">>
        BY <1>1, <1>3 DEF Wide
    <2>2. call'.got = <<count \div Word>>
        BY <1>1, <1>3, <2>1 DEF Value
    <2>3. count \in call.from .. count
        BY <1>2
    <2>4. QED
        BY <1>1, <2>1, <2>2, <2>3 DEF WideSoFar
<1>4. CASE Rest = <<"low">> /\ \E m \in call.from .. count : call.got = <<m \div Word>>
    <2>1. PICK m \in call.from .. count : call.got = <<m \div Word>>
        BY <1>4
    <2>2. Head(Rest) = "low" /\ Rest' = <<>>
        BY <1>1, <1>4
    <2>3. call'.got = <<m \div Word, count % Word>>
        <3>1. Value("low") = count % Word
            BY DEF Value
        <3>2. call'.got = Append(<<m \div Word>>, count % Word)
            BY <1>1, <2>1, <2>2, <3>1, Zenon
        <3>3. QED
            BY <3>2, Pair, Zenon
    <2>4. count \in m .. count
        BY <1>2
    <2>5. QED
        BY <1>1, <2>2, <2>3, <2>4 DEF WideSoFar
<1>5. QED
    BY <1>1, <1>3, <1>4 DEF WideSoFar

\* One register of a compound is read.
LEMMA OneReadCompound ==
    ASSUME LockInv, CompoundInv, call # NoCall, OneRead, UNCHANGED <<files, class>>
    PROVE  CompoundInv'
<1>1. /\ call'.what = call.what /\ call'.obj = call.obj /\ call'.from = call.from
      /\ last' = last /\ count' = count
    BY DEF OneRead, Frame
<1>2. ClassInv' /\ ResultInv'
    BY <1>1 DEF CompoundInv, ClassInv, ResultInv, WholeString, WideRead, Ok
<1>3. call.what = "string" => StringSoFar'
    BY OneReadString DEF CompoundInv, ReadsInv
<1>4. call.what = "wide" => ClassOf(call.obj)'.wide /\ WideSoFar'
    BY <1>1, OneReadWide DEF CompoundInv, ReadsInv, ClassOf
<1>5. call.what = "one" => Rest' = <<>>
    <2>1. ASSUME NEW r, Rest = <<r>> PROVE Tail(Rest) = <<>>
        BY <2>1
    <2>2. Rest # <<>> /\ Rest' = Tail(Rest)
        BY DEF OneRead
    <2>3. QED
        BY <2>1, <2>2, Zenon DEF CompoundInv, ReadsInv
<1>6. ReadsInv'
    BY <1>1, <1>3, <1>4, <1>5 DEF CompoundInv, ReadsInv
<1>7. QED
    BY <1>2, <1>6 DEF CompoundInv

\* What is left to be read is a list of registers.
LEMMA RestType ==
    ASSUME LockInv, call # NoCall
    PROVE  /\ call \in CallType /\ call.obj \in Objects /\ call.got \in Seq(Registers)
           /\ call.from \in Nat /\ count \in Nat
           /\ Rest \in Seq(Registers)
<1>1. call \in CallType /\ (call.at = "done" => call.left # <<>>) /\ count \in Nat
    BY InCall, WordAssumption DEF CallInv, LockInv, TypeOK
<1>2. call.left \in Seq(Registers) /\ call.got \in Seq(Registers) /\ call.obj \in Objects
    BY <1>1 DEF CallType
<1>3. call.from \in Nat
    BY <1>1, WordAssumption DEF CallType
<1>4. call.left # <<>> => Tail(call.left) \in Seq(Registers)
    BY <1>2
<1>5. Rest \in Seq(Registers)
    BY <1>1, <1>2, <1>4, Zenon DEF Rest
<1>6. QED
    BY <1>1, <1>2, <1>3, <1>5

\* A string that was read to its end
LEMMA StringRead ==
    ASSUME LockInv, CompoundInv, call # NoCall, Rest = <<>>, call.what = "string"
    PROVE  call.got = StringOf(files[call.obj].len)
<1>1. PICK n : n = files[call.obj].len
    OBVIOUS
<1>2. PICK m : m = ClassOf(call.obj).str
    OBVIOUS
<1>3. PICK got : got = call.got
    OBVIOUS
<1>4. n \in Nat /\ m \in Nat /\ n <= m
    BY <1>1, <1>2, RestType, ClassOfFacts DEF CompoundInv, ReadsInv
<1>5. StringSoFar
    BY DEF CompoundInv, ReadsInv
<1>6. Len(got) + Len(Rest) = m /\ Len(got) <= n /\ \A k \in 1 .. Len(got) : got[k] = k
    BY <1>1, <1>2, <1>3, <1>5, Zenon DEF StringSoFar
<1>7. got \in Seq(Registers) /\ Len(got) \in Nat
    BY <1>3, RestType, LenProperties
<1>8. Len(Rest) = 0
    OBVIOUS
<1>9. Len(got) = n
    BY <1>4, <1>6, <1>7, <1>8
<1>10. StringOf(n) \in Seq(Registers) /\ Len(StringOf(n)) = n /\ \A k \in 1 .. n : StringOf(n)[k] = k
    BY <1>4 DEF StringOf, Registers
<1>11. got = StringOf(n)
    BY <1>6, <1>7, <1>9, <1>10, SeqEqual
<1>12. QED
    BY <1>1, <1>3, <1>11

\* A 64-bit value that was read to its end
LEMMA ValueRead ==
    ASSUME LockInv, CompoundInv, call # NoCall, Rest = <<>>, call.what = "wide"
    PROVE  LET value == call.got[1] * Word + call.got[2] IN
           /\ call.from \div Word = count \div Word => value \in call.from .. count
           /\ value <= count
<1>1. WideSoFar
    BY DEF CompoundInv, ReadsInv
<1>2. Rest # Wide /\ Rest # <<"low">>
    BY DEF Wide
<1>3. PICK m \in call.from .. count : \E n \in m .. count :
            call.got = <<m \div Word, n % Word>>
    BY <1>1, <1>2, Zenon DEF WideSoFar
<1>4. PICK n \in m .. count : call.got = <<m \div Word, n % Word>>
    BY <1>3
<1>5. call.got[1] = m \div Word /\ call.got[2] = n % Word
    <2>1. PICK a, b : a = m \div Word /\ b = n % Word
        OBVIOUS
    <2>2. call.got = <<a, b>>
        BY <1>4, <2>1, Zenon
    <2>3. <<a, b>>[1] = a /\ <<a, b>>[2] = b
        BY Pair
    <2>4. QED
        BY <2>1, <2>2, <2>3, Zenon
<1>6. call.from \in Nat /\ count \in Nat
    BY RestType
<1>7. m \in Nat /\ n \in Nat /\ call.from <= m /\ m <= n /\ n <= count
    BY <1>6
<1>8. QED
    BY <1>5, <1>6, <1>7, Halves, Zenon

\* A register that the object of a compound does not have
LEMMA RegisterMissed ==
    ASSUME LockInv, CompoundInv, call # NoCall, Rest # <<>>,
           ~Owns(call.obj, call.what, Head(Rest))
    PROVE  \E j \in Objects : files[j] # None /\ files[j] # files[call.obj]
<1>1. call.obj \in Objects /\ files[call.obj] # None
    BY RestType DEF CompoundInv, ReadsInv
<1>2. CASE call.what = "string"
    <2>1. PICK g : g = Len(call.got)
        OBVIOUS
    <2>2. g \in Nat
        BY <2>1, RestType, LenProperties
    <2>3. Len(Rest) \in Nat \ {0} /\ Head(Rest) = Rest[1]
        BY RestType
    <2>4. StringSoFar
        BY <1>2 DEF CompoundInv, ReadsInv
    <2>5. 1 \in 1 .. Len(Rest)
        BY <2>3
    <2>6. Rest[1] = g + 1 /\ g + Len(Rest) = ClassOf(call.obj).str
        BY <2>1, <2>4, <2>5, Zenon DEF StringSoFar
    <2>7. ~(g + 1 <= files[call.obj].len)
        BY <1>2, <2>3, <2>6 DEF Owns
    <2>8. files[call.obj].len \in Nat /\ ClassOf(call.obj).str \in Nat
        BY <1>1, ClassOfFacts DEF CompoundInv
    <2>9. ClassOf(call.obj).str > files[call.obj].len
        BY <2>2, <2>3, <2>6, <2>7, <2>8
    <2>10. QED
        BY <1>1, <2>9, ClassOfFacts DEF CompoundInv
<1>3. CASE call.what = "wide"
    <2>1. ClassOf(call.obj).wide /\ WideSoFar
        BY <1>3 DEF CompoundInv, ReadsInv
    <2>2. Rest = <<"high", "low">> \/ Rest = <<"low">>
        BY <2>1, Zenon DEF WideSoFar, Wide
    <2>3. Head(Rest) = "high" \/ Head(Rest) = "low"
        BY <2>2
    <2>4. ~(files[call.obj].low /\ files[call.obj].high)
        BY <1>3, <2>3 DEF Owns
    <2>5. QED
        BY <1>1, <2>1, <2>4, ClassOfFacts DEF CompoundInv
<1>4. CASE call.what = "one"
    <2>1. PICK r \in Registers : Rest = <<r>> /\ Owns(call.obj, "one", r)
        BY <1>4, Zenon DEF CompoundInv, ReadsInv
    <2>2. Head(<<r>>) = r
        OBVIOUS
    <2>3. QED
        BY <1>4, <2>1, <2>2, Zenon
<1>5. QED
    BY <1>2, <1>3, <1>4, RestType DEF CallType

\* A compound that was read is what it should be, and only with files that differ can a
\* read miss a register.
LEMMA EndCompound ==
    ASSUME LockInv, CompoundInv, call # NoCall, CallEnd, UNCHANGED <<files, class>>
    PROVE  CompoundInv'
<1>1. PICK verdict :
        /\ Ended(verdict)
        /\ verdict = "value" => Rest = <<>>
        /\ verdict = "attribute" => Rest # <<>> /\ ~Owns(call.obj, call.what, Head(Rest))
    <2>1. CASE Ended("value") /\ Rest = <<>>
        BY <2>1
    <2>2. CASE Ended("attribute") /\ Rest # <<>> /\ ~Owns(call.obj, call.what, Head(Rest))
        BY <2>2
    <2>3. CASE Ended("gave up")
        <3>1. "gave up" # "value" /\ "gave up" # "attribute"
            OBVIOUS
        <3>2. QED
            BY <2>3, <3>1, Zenon
    <2>4. CASE Ended("interrupted")
        BY <2>4
    <2>5. QED
        BY <2>1, <2>2, <2>3, <2>4 DEF CallEnd
<1>2. /\ call' = NoCall
      /\ last'.what = call.what /\ last'.obj = call.obj /\ last'.verdict = verdict
      /\ last'.got = call.got /\ last'.from = call.from /\ last'.to = count
    BY <1>1 DEF Ended
<1>3. ClassInv' /\ ReadsInv'
    BY <1>2 DEF CompoundInv, ClassInv, ReadsInv
<1>4. last'.obj \in Objects /\ files'[last'.obj] # None
    BY <1>2, RestType DEF CompoundInv, ReadsInv
<1>5. WholeString'
    BY <1>1, <1>2, StringRead, RegisterMissed DEF WholeString, Ok
<1>6. WideRead'
    <2>1. SUFFICES ASSUME verdict = "value", call.what = "wide" PROVE WideRead'
        BY <1>2 DEF WideRead, Ok
    <2>2. QED
        BY <1>1, <1>2, <2>1, ValueRead, Zenon DEF WideRead
<1>7. QED
    BY <1>3, <1>4, <1>5, <1>6 DEF CompoundInv, ResultInv

\* No compound is read before there is a file.
LEMMA InitCompound == Init => CompoundInv
<1> SUFFICES ASSUME Init PROVE CompoundInv
    OBVIOUS
<1>1. call = NoCall /\ last = NoCall /\ class = NoClass /\ \A i \in Objects : files[i] = None
    BY DEF Init
<1>2. ClassInv
    BY <1>1 DEF ClassInv, NoClass
<1>3. ReadsInv /\ ResultInv
    BY <1>1 DEF ReadsInv, ResultInv, WholeString, WideRead, Ok
<1>4. QED
    BY <1>2, <1>3 DEF CompoundInv

\* A step of anyone keeps what is known of the compounds.
LEMMA NextCompound == LockInv /\ CompoundInv /\ [Next]_vars => CompoundInv'
<1> SUFFICES ASSUME LockInv, CompoundInv, [Next]_vars PROVE CompoundInv'
    OBVIOUS
<1>1. CASE call # NoCall
    BY <1>1, CallReads, NoReadCompound, OneReadCompound, EndCompound
<1>2. CASE call = NoCall
    <2>1. CASE \E i \in Objects : \E csv \in Csvs : Construct(i, csv)
        BY <2>1, ConstructCompound
    <2>2. CASE \E i \in Objects : ReadWide(i) \/ ReadString(i) \/ \E r \in {"high", "low"} : ReadOne(i, r)
        BY <2>2, BeginCompound
    <2>3. CASE BurstStep \/ UNCHANGED vars
        <3>1. UNCHANGED <<files, class, call, last>>
            BY <2>3, BurstApart DEF object, vars
        <3>2. QED
            BY <1>2, <3>1 DEF CompoundInv, ClassInv, ReadsInv, ResultInv, WholeString, WideRead, Ok
    <2>4. ~(\/ NotOwned \/ Returns \/ EosRead \/ Grab \/ FoundLocked \/ Transfer \/ Release
            \/ Interrupt \/ Counts)
        BY <1>2 DEF NotOwned, Returns, EosRead, Grab, FoundLocked, Transfer, Release, Interrupt,
                    Counts, At
    <2>5. QED
        BY <2>1, <2>2, <2>3, <2>4 DEF Next, BurstStep
<1>3. QED
    BY <1>1, <1>2

\* At every place of a read, of a wide register or a string, what it has got is of the registers
\* that come first in it.
LEMMA CompoundInvariant == Spec => [](LockInv /\ CompoundInv)
<1>1. Init => LockInv /\ CompoundInv
    BY InitLock, InitCompound
<1>2. LockInv /\ CompoundInv /\ [Next]_vars => LockInv' /\ CompoundInv'
    BY NextLock, NextCompound
<1>3. QED
    BY <1>1, <1>2, PTL DEF Spec

\* A 64-bit value that RegisterFile reads as two registers is one its counter had, or, when
\* the low half wrapped in between, less by what the high half has counted: never more.
THEOREM WideReadHolds == Spec => []WideRead
<1>1. CompoundInv => WideRead
    BY DEF CompoundInv, ResultInv
<1>2. QED
    BY <1>1, CompoundInvariant, PTL

\* A string is read whole and in order whatever register files share its class, and a read
\* of a compound misses a register only when there are files that differ.
THEOREM WholeStringHolds == Spec => []WholeString
<1>1. CompoundInv => WholeString
    BY DEF CompoundInv, ResultInv
<1>2. QED
    BY <1>1, CompoundInvariant, PTL
-----------------------------------------------------------------------------
(* Bursts                                                                  *)

\* Every non-empty set of natural numbers has a least element.
LEMMA Least ==
    ASSUME NEW T \in SUBSET Nat, T # {}
    PROVE  \E x \in T : \A y \in T : x <= y
<1> DEFINE R == OpToRel(<, Nat)
<1>1. IsWellFoundedOn(R, Nat)
    BY NatLessThanWellFounded
<1>2. PICK x \in T : \A y \in T : ~ (<<y, x>> \in R)
    <2> HIDE DEF R
    <2> QED
        BY <1>1, WFMin
<1>3. \A y \in T : y < x => <<y, x>> \in R
    BY DEF OpToRel
<1> HIDE DEF R
<1>4. \A y \in T : ~(y < x)
    BY <1>2, <1>3, Zenon
<1>5. QED
    BY <1>4

Item         == [word : BOOLEAN, v : Nat]
Values       == Seq(Item)
Transactions == [addr : Nat, reads : Nat, list : BOOLEAN, vals : Values]
Access       == [addr : Nat, reads : BOOLEAN, v : Nat]

Size(t) == IF t.reads > 0 THEN t.reads ELSE Len(t.vals)

\* all[n] are the accesses of the first n transactions.
Table(b, all) ==
    all = [n \in 0 .. Len(b) |-> IF n = 0 THEN <<>> ELSE all[n - 1] \o Accesses(b[n])]

\* A number where a write stands alone, or a list where it goes on.
Misfit(n) == ~asked[n].reads /\ (lists[n] <=> InARow(n))

\* However the accesses were joined, the transactions make those that were added; one that
\* does not fit has a value that does not; and one whose value is a number is the last
\* access that was added.
BurstInv ==
    /\ burst \in Seq(Transactions) /\ asked \in Seq(Access)
    /\ lists \in Seq(BOOLEAN) /\ Len(lists) = Len(asked)
    /\ \A n \in 1 .. Len(burst) : Size(burst[n]) >= 1
    /\ \E all : /\ Table(burst, all) /\ all[Len(burst)] = asked
                /\ \A n \in 0 .. Len(burst) : all[n] \in Seq(Access)
    /\ (\E n \in 1 .. Len(burst) : ~Fit(burst[n])) => \E n \in 1 .. Len(asked) : Misfit(n)
    /\ burst # <<>> /\ Last(burst).reads = 0 /\ ~Last(burst).list =>
           ~asked[Len(asked)].reads /\ ~lists[Len(asked)]

\* There is one table at most.
LEMMA TableUnique ==
    ASSUME NEW b, Len(b) \in Nat, NEW f, NEW g, Table(b, f), Table(b, g)
    PROVE  f[Len(b)] = g[Len(b)]
<1> DEFINE T == {n \in Nat : n <= Len(b) /\ f[n] # g[n]}
<1>1. SUFFICES ASSUME f[Len(b)] # g[Len(b)] PROVE FALSE
    OBVIOUS
<1>2. T \in SUBSET Nat /\ Len(b) \in T
    BY <1>1
<1>3. PICK n \in T : \A y \in T : n <= y
    <2> HIDE DEF T
    <2> QED
        BY <1>2, Least
<1>4. n \in 0 .. Len(b)
    BY <1>3
<1>5. f[n] = IF n = 0 THEN <<>> ELSE f[n - 1] \o Accesses(b[n])
    BY <1>4 DEF Table
<1>6. g[n] = IF n = 0 THEN <<>> ELSE g[n - 1] \o Accesses(b[n])
    BY <1>4 DEF Table
<1>7. n # 0
    BY <1>3, <1>5, <1>6
<1>8. f[n - 1] = g[n - 1]
    <2>1. n - 1 \in Nat /\ n - 1 <= Len(b) /\ ~(n <= n - 1)
        BY <1>3, <1>4, <1>7
    <2>2. QED
        BY <1>3, <2>1
<1>9. QED
    BY <1>3, <1>5, <1>6, <1>7, <1>8, Zenon

\* The accesses of the bursts' transactions
LEMMA InOrderIs ==
    ASSUME Len(burst) \in Nat, NEW all, Table(burst, all)
    PROVE  InOrder = all[Len(burst)]
<1>1. InOrder = (CHOOSE f : Table(burst, f))[Len(burst)]
    BY DEF InOrder, Table
<1>2. Table(burst, CHOOSE f : Table(burst, f))
    OBVIOUS
<1>3. QED
    BY <1>1, <1>2, TableUnique

\* The accesses of a transaction, one by one
One(t, k) ==
    IF t.reads > 0 THEN [addr |-> t.addr + k - 1, reads |-> TRUE, v |-> 0]
    ELSE [addr |-> t.addr + k - 1, reads |-> FALSE, v |-> t.vals[k].v]

\* A transaction is as many accesses as it has reads or values.
LEMMA AccessesFacts ==
    ASSUME NEW t \in Transactions
    PROVE  /\ Accesses(t) \in Seq(Access) /\ Size(t) \in Nat /\ Len(Accesses(t)) = Size(t)
           /\ \A k \in 1 .. Size(t) : Accesses(t)[k] = One(t, k) /\ One(t, k) \in Access
<1>1. t.addr \in Nat /\ t.reads \in Nat /\ t.vals \in Values /\ Len(t.vals) \in Nat
    BY DEF Transactions, Values
<1>2. \A k \in Nat \ {0} : t.addr + k - 1 \in Nat
    BY <1>1
<1>3. CASE t.reads > 0
    <2>1. /\ Size(t) = t.reads
          /\ Accesses(t) = [k \in 1 .. Size(t) |-> One(t, k)]
        BY <1>3 DEF Size, Accesses, One
    <2>2. \A k \in 1 .. Size(t) : One(t, k) \in Access
        BY <1>1, <1>2, <1>3, <2>1 DEF One, Access
    <2>3. QED
        BY <1>1, <2>1, <2>2
<1>4. CASE ~(t.reads > 0)
    <2>1. /\ Size(t) = Len(t.vals)
          /\ Accesses(t) = [k \in 1 .. Size(t) |-> One(t, k)]
        BY <1>4 DEF Size, Accesses, One
    <2>2. \A k \in 1 .. Size(t) : t.vals[k].v \in Nat
        <3>1. \A k \in 1 .. Size(t) : t.vals[k] \in Item
            BY <1>1, <2>1, ElementOfSeq DEF Values
        <3>2. QED
            BY <3>1 DEF Item
    <2>3. \A k \in 1 .. Size(t) : One(t, k) \in Access
        BY <1>1, <1>2, <1>4, <2>1, <2>2 DEF One, Access
    <2>4. QED
        BY <1>1, <2>1, <2>3
<1>5. QED
    BY <1>3, <1>4

\* An access of its own
LEMMA NewAccess ==
    ASSUME NEW a \in Nat, NEW reads \in BOOLEAN, NEW v \in Nat, NEW list \in BOOLEAN
    PROVE  LET t == Alone(a, reads, v, list)
               x == [addr |-> a, reads |-> reads, v |-> IF reads THEN 0 ELSE v]
           IN  /\ t \in Transactions /\ x \in Access /\ Size(t) = 1 /\ Accesses(t) = <<x>>
               /\ (t.reads = 0 <=> ~reads) /\ t.list = list
               /\ reads \/ list => Fit(t)
<1> DEFINE item == [word |-> TRUE, v |-> v]
           vals == IF reads THEN <<>> ELSE <<item>>
           t == [addr |-> a, reads |-> IF reads THEN 1 ELSE 0, list |-> list, vals |-> vals]
           x == [addr |-> a, reads |-> reads, v |-> IF reads THEN 0 ELSE v]
<1>0. item \in Item /\ item.word /\ item.v = v
    BY DEF Item
<1>1. /\ vals \in Values
      /\ ~reads => vals = <<item>> /\ vals[1] = item
    <2> HIDE DEF item
    <2>1. <<>> \in Seq(Item) /\ <<item>> \in Seq(Item) /\ <<item>>[1] = item
        BY <1>0
    <2>2. QED
        BY <2>1, Zenon DEF Values
<1>2. t \in Transactions /\ x \in Access
    BY <1>1 DEF Transactions, Access
<1>3. Size(t) = 1
    BY DEF Size
<1>4. One(t, 1) = x
    <2>1. a + 1 - 1 = a
        OBVIOUS
    <2>2. CASE reads
        BY <2>1, <2>2 DEF One
    <2>3. CASE ~reads
        <3>1. t.vals[1].v = v /\ t.addr = a /\ t.reads = 0
            BY <1>0, <1>1, <2>3
        <3>2. One(t, 1) = [addr |-> a, reads |-> FALSE, v |-> v]
            <4> HIDE DEF t
            <4>1. ~(t.reads > 0)
                BY <3>1
            <4>2. QED
                BY <2>1, <3>1, <4>1, Zenon DEF One
        <3>3. x = [addr |-> a, reads |-> FALSE, v |-> v]
            BY <2>3
        <3>4. QED
            BY <3>2, <3>3, Zenon
    <2>4. QED
        BY <2>2, <2>3
<1>5. Accesses(t) \in Seq(Access) /\ Len(Accesses(t)) = 1 /\ Accesses(t)[1] = x
    <2> HIDE DEF t, x
    <2>1. 1 \in 1 .. Size(t)
        BY <1>3
    <2>2. QED
        BY <1>2, <1>3, <1>4, <2>1, AccessesFacts
<1>6. Accesses(t) = <<x>>
    <2> HIDE DEF t, x
    <2>1. <<x>> \in Seq(Access) /\ Len(<<x>>) = 1 /\ <<x>>[1] = x
        BY <1>2
    <2>2. QED
        BY <1>5, <2>1, SeqEqual
<1>7. reads \/ list => Fit(t)
    <2>1. CASE reads
        BY <2>1 DEF Fit
    <2>2. CASE ~reads
        <3>1. Len(t.vals) = 1 /\ t.vals[1].word /\ t.list = list
            BY <1>0, <1>1, <2>2
        <3> HIDE DEF t
        <3>2. QED
            BY <2>2, <3>1 DEF Fit
    <2>3. QED
        BY <2>1, <2>2
<1>8. (t.reads = 0 <=> ~reads) /\ t.list = list
    OBVIOUS
<1>9. t = Alone(a, reads, v, list)
    BY DEF Alone
<1> HIDE DEF t, x
<1>10. QED
    BY <1>2, <1>3, <1>6, <1>7, <1>8, <1>9 DEF x

\* An access that goes on where the transaction ends, joined to it
LEMMA JoinedFacts ==
    ASSUME NEW t \in Transactions, NEW a \in Nat, NEW reads \in BOOLEAN, NEW v \in Nat,
           NEW list \in BOOLEAN, Size(t) >= 1, Follows(t, a, reads)
    PROVE  LET u == Joined(t, reads, v, list)
               x == [addr |-> a, reads |-> reads, v |-> IF reads THEN 0 ELSE v]
           IN  /\ u \in Transactions /\ Size(u) = Size(t) + 1 /\ x \in Access
               /\ Accesses(u) = Append(Accesses(t), x)
               /\ u.reads > 0 \/ u.list
               /\ ~Fit(u) => ~reads /\ (list \/ ~Fit(t))
               /\ ~reads => ~One(t, Size(t)).reads /\ a = One(t, Size(t)).addr + 1
<1> DEFINE u == Joined(t, reads, v, list)
           x == [addr |-> a, reads |-> reads, v |-> IF reads THEN 0 ELSE v]
           n == Size(t)
<1>1. /\ t.addr \in Nat /\ t.reads \in Nat /\ t.vals \in Values /\ Len(t.vals) \in Nat
      /\ n \in Nat
    BY AccessesFacts DEF Transactions, Values
<1>2. x \in Access
    BY DEF Access
<1>3. /\ u \in Transactions /\ Size(u) = n + 1
      /\ \A k \in 1 .. n : One(u, k) = One(t, k)
      /\ One(u, n + 1) = x
      /\ u.reads > 0 \/ u.list
      /\ ~Fit(u) => ~reads /\ (list \/ ~Fit(t))
      /\ ~reads => ~One(t, n).reads /\ a = One(t, n).addr + 1
    <2>1. CASE reads
        <3>1. t.reads > 0 /\ a = t.addr + t.reads /\ n = t.reads
            BY <2>1 DEF Follows, Size
        <3>2. /\ u \in Transactions /\ u.reads = t.reads + 1 /\ u.addr = t.addr /\ u.vals = t.vals
            BY <1>1, <2>1 DEF Joined, Transactions
        <3>3. u.reads > 0 /\ Size(u) = n + 1
            <4> HIDE DEF u
            <4> QED
                BY <1>1, <3>1, <3>2 DEF Size
        <3>4. \A k : One(u, k) = [addr |-> t.addr + k - 1, reads |-> TRUE, v |-> 0]
            <4> HIDE DEF u
            <4> QED
                BY <3>2, <3>3, Zenon DEF One
        <3>5. \A k : One(t, k) = [addr |-> t.addr + k - 1, reads |-> TRUE, v |-> 0]
            BY <3>1, Zenon DEF One
        <3>6. t.addr + (n + 1) - 1 = a
            BY <1>1, <3>1
        <3>7. x = [addr |-> a, reads |-> TRUE, v |-> 0]
            BY <2>1
        <3>8. Fit(u)
            <4> HIDE DEF u
            <4> QED
                BY <3>3 DEF Fit
        <3>9. QED
            <4> HIDE DEF u, x, n
            <4> QED
                BY <2>1, <3>2, <3>3, <3>4, <3>5, <3>6, <3>7, <3>8, Zenon
    <2>2. CASE ~reads
        <3> DEFINE item == [word |-> ~list, v |-> v]
        <3>1. ~(t.reads > 0) /\ t.reads = 0 /\ a = t.addr + Len(t.vals) /\ n = Len(t.vals) /\ t.list
            BY <2>2 DEF Follows, Size
        <3>2. u = [t EXCEPT !.vals = Append(t.vals, item)]
            BY <2>2 DEF Joined
        <3>3. item \in Item /\ item.v = v /\ (item.word <=> ~list)
            BY DEF Item
        <3>4. /\ Append(t.vals, item) \in Values /\ Len(Append(t.vals, item)) = n + 1
              /\ \A k \in 1 .. n : Append(t.vals, item)[k] = t.vals[k]
              /\ Append(t.vals, item)[n + 1] = item
            <4> HIDE DEF item
            <4> QED
                BY <1>1, <3>1, <3>3, AppendProperties DEF Values
        <3> HIDE DEF item
        <3>5. /\ u \in Transactions /\ u.reads = t.reads /\ u.addr = t.addr
              /\ u.vals = Append(t.vals, item) /\ u.list = t.list
            <4> HIDE DEF u
            <4> QED
                BY <1>1, <3>2, <3>4 DEF Transactions
        <3>6. ~(u.reads > 0) /\ Size(u) = n + 1
            <4> HIDE DEF u
            <4> QED
                BY <3>1, <3>4, <3>5 DEF Size
        <3>7. \A k : One(u, k) = [addr |-> t.addr + k - 1, reads |-> FALSE, v |-> u.vals[k].v]
            <4> HIDE DEF u
            <4> QED
                BY <3>5, <3>6, Zenon DEF One
        <3>8. \A k : One(t, k) = [addr |-> t.addr + k - 1, reads |-> FALSE, v |-> t.vals[k].v]
            BY <3>1, Zenon DEF One
        <3>9. t.addr + (n + 1) - 1 = a /\ t.addr + n - 1 + 1 = a
            BY <1>1, <3>1
        <3>10. x = [addr |-> a, reads |-> FALSE, v |-> v]
            BY <2>2
        <3>11. \A k \in 1 .. n : u.vals[k] = t.vals[k]
            BY <3>4, <3>5, Zenon
        <3>12. u.vals[n + 1].v = v
            BY <3>3, <3>4, <3>5, Zenon
        <3>13. ~One(t, n).reads /\ One(t, n).addr = t.addr + n - 1
            BY <3>8
        <3>14. ~Fit(u) => list \/ ~Fit(t)
            <4>1. SUFFICES ASSUME ~list, Fit(t) PROVE Fit(u)
                OBVIOUS
            <4>2. \A k \in 1 .. n : t.vals[k].word
                BY <3>1, <4>1 DEF Fit
            <4>3. u.vals[n + 1].word
                BY <3>3, <3>4, <3>5, <4>1, Zenon
            <4>4. \A k \in 1 .. n + 1 : k \in 1 .. n \/ k = n + 1
                BY <1>1
            <4>5. Len(u.vals) = n + 1 /\ u.list
                BY <3>1, <3>4, <3>5
            <4> HIDE DEF u, n
            <4>6. \A k \in 1 .. n + 1 : u.vals[k].word
                BY <3>11, <4>2, <4>3, <4>4, Zenon
            <4>7. QED
                BY <4>5, <4>6, Zenon DEF Fit
        <3>15. QED
            <4> HIDE DEF u, x, n
            <4> QED
                BY <2>2, <3>1, <3>5, <3>6, <3>7, <3>8, <3>9, <3>10, <3>11, <3>12, <3>13, <3>14, Zenon
    <2>3. QED
        BY <2>1, <2>2
<1> HIDE DEF u, x
<1>4. Accesses(u) = Append(Accesses(t), x)
    <2>1. /\ Accesses(t) \in Seq(Access) /\ Len(Accesses(t)) = n
          /\ \A k \in 1 .. n : Accesses(t)[k] = One(t, k)
        BY AccessesFacts
    <2>2. /\ Append(Accesses(t), x) \in Seq(Access) /\ Len(Append(Accesses(t), x)) = n + 1
          /\ \A k \in 1 .. n : Append(Accesses(t), x)[k] = Accesses(t)[k]
          /\ Append(Accesses(t), x)[n + 1] = x
        BY <1>2, <2>1, AppendProperties
    <2>3. /\ Accesses(u) \in Seq(Access) /\ Len(Accesses(u)) = n + 1
          /\ \A k \in 1 .. n + 1 : Accesses(u)[k] = One(u, k)
        BY <1>3, AccessesFacts
    <2>4. \A k \in 1 .. n + 1 : k \in 1 .. n \/ k = n + 1
        BY <1>1
    <2>5. \A k \in 1 .. n + 1 : Accesses(u)[k] = Append(Accesses(t), x)[k]
        <3> HIDE DEF n
        <3> QED
            BY <1>3, <2>1, <2>2, <2>3, <2>4, Zenon
    <2>6. QED
        BY <2>2, <2>3, <2>5, SeqEqual
<1>5. QED
    BY <1>2, <1>3, <1>4 DEF u, x

\* The table of one transaction more
LEMMA Grown ==
    ASSUME NEW b \in Seq(Transactions), NEW t \in Transactions, NEW all, Table(b, all),
           \A n \in 0 .. Len(b) : all[n] \in Seq(Access)
    PROVE  \E g : /\ Table(Append(b, t), g)
                  /\ g[Len(Append(b, t))] = all[Len(b)] \o Accesses(t)
                  /\ \A n \in 0 .. Len(Append(b, t)) : g[n] \in Seq(Access)
<1> DEFINE m == Len(b)
           c == Append(b, t)
           g == [n \in 0 .. m + 1 |-> IF n = m + 1 THEN all[m] \o Accesses(t) ELSE all[n]]
<1>1. m \in Nat
    OBVIOUS
<1>2. /\ Len(c) = m + 1 /\ c[m + 1] = t
      /\ \A n \in 1 .. m : c[n] = b[n]
    BY AppendProperties
<1> HIDE DEF c, m
<1>3. \A n \in 0 .. m : n \in 0 .. m + 1 /\ n # m + 1
    BY <1>1
<1>4. g[m + 1] = all[m] \o Accesses(t) /\ \A n \in 0 .. m : g[n] = all[n]
    BY <1>1, <1>3
<1>5. \A n \in 0 .. m + 1 : g[n] = IF n = 0 THEN <<>> ELSE g[n - 1] \o Accesses(c[n])
    <2>1. TAKE n \in 0 .. m + 1
    <2>2. CASE n = m + 1
        <3>1. n # 0 /\ n - 1 = m /\ m \in 0 .. m
            BY <1>1, <2>2
        <3>2. g[n - 1] = all[m] /\ c[n] = t
            BY <1>2, <1>4, <2>2, <3>1, Zenon
        <3> HIDE DEF g
        <3>3. QED
            BY <1>4, <2>2, <3>1, <3>2, Zenon
    <2>3. CASE n = 0
        <3>1. 0 \in 0 .. m /\ m = Len(b)
            BY <1>1 DEF m
        <3>2. all[0] = <<>>
            BY <3>1 DEF Table
        <3> HIDE DEF g
        <3>3. QED
            BY <1>4, <2>3, <3>1, <3>2, Zenon
    <2>4. CASE n # 0 /\ n # m + 1
        <3>1. n \in 1 .. m /\ n \in 0 .. m /\ n - 1 \in 0 .. m
            BY <1>1, <2>1, <2>4
        <3>2. all[n] = all[n - 1] \o Accesses(b[n])
            BY <2>4, <3>1 DEF Table, m
        <3> HIDE DEF g
        <3>3. QED
            BY <1>2, <1>4, <2>4, <3>1, <3>2, Zenon
    <2>5. QED
        BY <2>2, <2>3, <2>4
<1>6. Table(c, g)
    BY <1>2, <1>5 DEF Table
<1>7. \A n \in 0 .. m + 1 : g[n] \in Seq(Access)
    <2>1. all[m] \in Seq(Access) /\ \A n \in 0 .. m : all[n] \in Seq(Access)
        BY <1>1 DEF m
    <2>2. all[m] \o Accesses(t) \in Seq(Access)
        BY <2>1, AccessesFacts, ConcatProperties
    <2>3. \A n \in 0 .. m + 1 : n \in 0 .. m \/ n = m + 1
        BY <1>1
    <2> HIDE DEF g
    <2>4. QED
        BY <1>4, <2>1, <2>2, <2>3, Zenon
<1> HIDE DEF g
<1>8. Len(b) = m
    BY DEF m
<1>9. QED
    BY <1>2, <1>4, <1>6, <1>7, <1>8, Zenon DEF c

\* The table without the last transaction
LEMMA Shortened ==
    ASSUME NEW b \in Seq(Transactions), b # <<>>, NEW all, Table(b, all),
           \A n \in 0 .. Len(b) : all[n] \in Seq(Access)
    PROVE  /\ Front(b) \in Seq(Transactions) /\ Last(b) \in Transactions
           /\ Len(b) \in Nat \ {0} /\ Len(Front(b)) = Len(b) - 1
           /\ \A n \in 1 .. Len(b) - 1 : Front(b)[n] = b[n]
           /\ \E h : /\ Table(Front(b), h)
                     /\ \A n \in 0 .. Len(Front(b)) : h[n] \in Seq(Access)
                     /\ all[Len(b)] = h[Len(Front(b))] \o Accesses(Last(b))
<1> DEFINE m == Len(b)
           c == Front(b)
           h == [n \in 0 .. m - 1 |-> all[n]]
<1>1. m \in Nat \ {0} /\ Last(b) \in Transactions /\ Last(b) = b[m]
    BY DEF Last
<1>2. c \in Seq(Transactions) /\ Len(c) = m - 1 /\ \A n \in 1 .. m - 1 : c[n] = b[n]
    <2>1. \A n \in 1 .. m - 1 : b[n] \in Transactions
        BY <1>1, ElementOfSeq
    <2>2. /\ c \in Seq(Transactions)
          /\ Len(c) = IF 1 <= m - 1 THEN m - 1 - 1 + 1 ELSE 0
          /\ \A n \in 1 .. m - 1 - 1 + 1 : c[n] = b[1 + n - 1]
        BY <1>1, <2>1, SubSeqProperties DEF Front
    <2> HIDE DEF c, m
    <2>3. QED
        BY <1>1, <2>2
<1>3. /\ \A n \in 0 .. m : all[n] = IF n = 0 THEN <<>> ELSE all[n - 1] \o Accesses(b[n])
      /\ m = Len(b) /\ \A n \in 0 .. m : all[n] \in Seq(Access)
    BY DEF Table
<1> HIDE DEF c, m
<1>4. \A n \in 0 .. m - 1 : h[n] = all[n]
    OBVIOUS
<1>5. \A n \in 0 .. m - 1 : h[n] = IF n = 0 THEN <<>> ELSE h[n - 1] \o Accesses(c[n])
    <2>1. TAKE n \in 0 .. m - 1
    <2>2. n \in 0 .. m
        BY <1>1, <2>1
    <2>3. CASE n = 0
        <3> HIDE DEF h
        <3> QED
            BY <1>3, <1>4, <2>1, <2>2, <2>3
    <2>4. CASE n # 0
        <3>1. n \in 1 .. m - 1 /\ n - 1 \in 0 .. m - 1
            BY <1>1, <2>1, <2>4
        <3> HIDE DEF h
        <3>2. QED
            BY <1>2, <1>3, <1>4, <2>1, <2>2, <2>4, <3>1, Zenon
    <2>5. QED
        BY <2>3, <2>4
<1>6. Table(c, h)
    BY <1>2, <1>5 DEF Table
<1> HIDE DEF h
<1>7. m - 1 \in 0 .. m - 1 /\ m \in 0 .. m /\ m # 0 /\ \A n \in 0 .. m - 1 : n \in 0 .. m
    BY <1>1
<1>8. all[m] = h[m - 1] \o Accesses(b[m])
    BY <1>3, <1>4, <1>7, Zenon
<1>9. \A n \in 0 .. m - 1 : h[n] \in Seq(Access)
    BY <1>3, <1>4, <1>7, Zenon
<1>10. \E f : /\ Table(c, f)
              /\ \A n \in 0 .. Len(c) : f[n] \in Seq(Access)
              /\ all[m] = f[Len(c)] \o Accesses(Last(b))
    BY <1>1, <1>2, <1>6, <1>8, <1>9, Zenon
<1>11. QED
    BY <1>1, <1>2, <1>10, Zenon DEF m, c

\* s \o t with one access more
LEMMA AppendConcat ==
    ASSUME NEW s \in Seq(Access), NEW t \in Seq(Access), NEW x \in Access
    PROVE  s \o Append(t, x) = Append(s \o t, x) /\ s \o <<x>> = Append(s, x)
<1>1. \A r \in Seq(Access) : Append(r, x) = r \o <<x>>
    <2>1. ASSUME NEW r \in Seq(Access) PROVE Append(r, x) = r \o <<x>>
        OBVIOUS
    <2>2. QED
        BY <2>1
<1>2. <<x>> \in Seq(Access) /\ s \o t \in Seq(Access)
    BY ConcatProperties
<1>3. (s \o t) \o <<x>> = s \o (t \o <<x>>)
    BY <1>2, ConcatAssociative
<1>4. QED
    BY <1>1, <1>2, <1>3, Zenon

\* The last access that was added is that of the last transaction.
LEMMA LastAsked ==
    ASSUME BurstInv, burst # <<>>
    PROVE  LET l == Last(burst)
           IN  /\ l \in Transactions /\ Size(l) \in Nat \ {0} /\ Len(asked) \in Nat \ {0}
               /\ asked[Len(asked)] = One(l, Size(l))
<1> DEFINE l == Last(burst)
           f == Front(burst)
<1>1. PICK all : /\ Table(burst, all) /\ all[Len(burst)] = asked
                 /\ \A n \in 0 .. Len(burst) : all[n] \in Seq(Access)
    BY DEF BurstInv
<1>2. /\ l \in Transactions /\ Len(burst) \in Nat \ {0} /\ l = burst[Len(burst)]
      /\ Len(f) = Len(burst) - 1
    BY <1>1, Shortened DEF BurstInv, Last
<1>3. PICK h : /\ \A n \in 0 .. Len(f) : h[n] \in Seq(Access)
               /\ all[Len(burst)] = h[Len(f)] \o Accesses(l)
    BY <1>1, Shortened DEF BurstInv
<1>4. Size(l) >= 1
    <2>1. Len(burst) \in 1 .. Len(burst)
        BY <1>2
    <2>2. QED
        BY <1>2, <2>1 DEF BurstInv
<1>5. /\ Accesses(l) \in Seq(Access) /\ Size(l) \in Nat /\ Len(Accesses(l)) = Size(l)
      /\ \A k \in 1 .. Size(l) : Accesses(l)[k] = One(l, k)
    BY <1>2, AccessesFacts
<1> HIDE DEF l, f
<1>6. PICK s \in Seq(Access), q \in Seq(Access) : s = h[Len(f)] /\ q = Accesses(l)
    <2>1. Len(f) \in 0 .. Len(f)
        BY <1>2
    <2>2. QED
        BY <1>3, <1>5, <2>1
<1>7. PICK m \in Nat, k \in Nat \ {0} : m = Len(s) /\ k = Size(l)
    BY <1>4, <1>5, LenProperties
<1>8. /\ Len(s \o q) = Len(s) + Len(q)
      /\ \A i \in 1 .. Len(s) + Len(q) :
            (s \o q)[i] = IF i <= Len(s) THEN s[i] ELSE q[i - Len(s)]
    BY ConcatProperties
<1>9. asked = s \o q /\ Len(q) = k
    BY <1>1, <1>3, <1>5, <1>6, <1>7
<1>10. m + k \in 1 .. m + k /\ ~(m + k <= m) /\ m + k - m = k /\ k \in 1 .. k
    OBVIOUS
<1>11. Len(asked) = m + k /\ asked[m + k] = q[k]
    BY <1>7, <1>8, <1>9, <1>10
<1>12. q[k] = One(l, k)
    BY <1>5, <1>6, <1>7, <1>10
<1>13. QED
    BY <1>2, <1>7, <1>11, <1>12 DEF l

\* What does not fit stays so when an access is added, and so may the access itself.
LEMMA MisfitStays ==
    ASSUME asked \in Seq(Access), lists \in Seq(BOOLEAN), Len(lists) = Len(asked),
           NEW x \in Access, NEW list \in BOOLEAN,
           asked' = Append(asked, x), lists' = Append(lists, list)
    PROVE  /\ Len(asked') = Len(asked) + 1 /\ Len(asked) \in Nat
           /\ asked'[Len(asked')] = x /\ lists'[Len(asked')] = list
           /\ asked' \in Seq(Access) /\ lists' \in Seq(BOOLEAN) /\ Len(lists') = Len(asked')
           /\ (\E n \in 1 .. Len(asked) : Misfit(n)) => \E n \in 1 .. Len(asked') : Misfit(n)'
           /\ /\ ~x.reads
              /\ list <=> /\ Len(asked) > 0 /\ ~asked[Len(asked)].reads
                          /\ x.addr = asked[Len(asked)].addr + 1
              => \E n \in 1 .. Len(asked') : Misfit(n)'
<1> DEFINE m == Len(asked)
<1>1. /\ m \in Nat /\ Len(asked') = m + 1 /\ asked'[m + 1] = x
      /\ \A n \in 1 .. m : asked'[n] = asked[n]
      /\ asked' \in Seq(Access)
    BY LenProperties, AppendProperties
<1>2. /\ lists' \in Seq(BOOLEAN) /\ Len(lists') = m + 1 /\ lists'[m + 1] = list
      /\ \A n \in 1 .. m : lists'[n] = lists[n]
    BY <1>1, LenProperties, AppendProperties
<1> HIDE DEF m
<1>3. \A n \in 1 .. m : n \in 1 .. m + 1 /\ (n > 1 => n - 1 \in 1 .. m)
    BY <1>1
<1>4. ASSUME NEW n \in 1 .. m, Misfit(n)
      PROVE  Misfit(n)'
    <2>1. asked'[n] = asked[n] /\ lists'[n] = lists[n] /\ (n > 1 => asked'[n - 1] = asked[n - 1])
        BY <1>1, <1>2, <1>3
    <2>2. InARow(n)' <=> InARow(n)
        BY <2>1 DEF InARow
    <2>3. QED
        BY <1>4, <2>1, <2>2, Zenon DEF Misfit
<1>5. (\E n \in 1 .. m : Misfit(n)) => \E n \in 1 .. m + 1 : Misfit(n)'
    BY <1>3, <1>4
<1>6. ASSUME ~x.reads,
             list <=> m > 0 /\ ~asked[m].reads /\ x.addr = asked[m].addr + 1
      PROVE  \E n \in 1 .. m + 1 : Misfit(n)'
    <2>1. PICK k : k = m + 1
        OBVIOUS
    <2>2. k \in 1 .. m + 1 /\ (k > 1 <=> m > 0) /\ k - 1 = m
        BY <1>1, <2>1
    <2>3. /\ asked'[k] = x /\ lists'[k] = list
          /\ m > 0 => asked'[k - 1] = asked[m]
        BY <1>1, <1>2, <2>1, <2>2
    <2>4. InARow(k)' <=> /\ m > 0 /\ ~asked[m].reads
                         /\ x.addr = asked[m].addr + 1
        BY <1>6, <2>2, <2>3 DEF InARow
    <2>5. Misfit(k)'
        BY <1>6, <2>3, <2>4, Zenon DEF Misfit
    <2>6. QED
        BY <2>2, <2>5
<1>7. QED
    BY <1>1, <1>2, <1>5, <1>6 DEF m

\* An access is added: in a transaction of its own, or joined to the last one.
LEMMA AddKeeps ==
    ASSUME BurstInv, NEW a \in Addrs, NEW reads \in BOOLEAN, NEW v \in Nat,
           NEW list \in BOOLEAN, AddRegister(a, reads, v, list)
    PROVE  BurstInv'
<1> DEFINE x == [addr |-> a, reads |-> reads, v |-> IF reads THEN 0 ELSE v]
           t == Alone(a, reads, v, list)
<1>1. /\ a \in Nat /\ asked' = Append(asked, x) /\ lists' = Append(lists, list)
      /\ burst # <<>> => ~LenRaises(Last(burst), reads)
    BY AddrsAssumption DEF AddRegister
<1>2. IF burst # <<>> /\ Follows(Last(burst), a, reads)
      THEN burst' = Append(Front(burst), Joined(Last(burst), reads, v, list))
      ELSE burst' = Append(burst, t)
    BY DEF AddRegister
<1>3. /\ t \in Transactions /\ x \in Access /\ Size(t) = 1 /\ Accesses(t) = <<x>>
      /\ (t.reads = 0 <=> ~reads) /\ t.list = list
      /\ reads \/ list => Fit(t)
      /\ x.reads = reads /\ x.addr = a
    BY <1>1, NewAccess
<1> HIDE DEF x, t
<1>4. PICK all : /\ Table(burst, all) /\ all[Len(burst)] = asked
                 /\ \A n \in 0 .. Len(burst) : all[n] \in Seq(Access)
    BY DEF BurstInv
<1>5. /\ burst \in Seq(Transactions) /\ asked \in Seq(Access) /\ Len(burst) \in Nat
      /\ \A n \in 1 .. Len(burst) : Size(burst[n]) >= 1
    BY LenProperties DEF BurstInv
<1>6. /\ Len(asked') = Len(asked) + 1 /\ Len(asked) \in Nat
      /\ asked'[Len(asked')] = x /\ lists'[Len(asked')] = list
      /\ asked' \in Seq(Access) /\ lists' \in Seq(BOOLEAN) /\ Len(lists') = Len(asked')
      /\ (\E n \in 1 .. Len(asked) : Misfit(n)) => \E n \in 1 .. Len(asked') : Misfit(n)'
      /\ /\ ~x.reads
         /\ list <=> /\ Len(asked) > 0 /\ ~asked[Len(asked)].reads
                     /\ x.addr = asked[Len(asked)].addr + 1
         => \E n \in 1 .. Len(asked') : Misfit(n)'
    BY <1>1, <1>3, <1>5, MisfitStays DEF BurstInv
<1>7. CASE ~(burst # <<>> /\ Follows(Last(burst), a, reads))
    <2>1. burst' = Append(burst, t)
        BY <1>2, <1>7
    <2>2. /\ burst' \in Seq(Transactions) /\ Len(burst') = Len(burst) + 1
          /\ \A n \in 1 .. Len(burst) : burst'[n] = burst[n]
          /\ burst'[Len(burst) + 1] = t
        BY <1>3, <1>5, <2>1, AppendProperties
    <2>3. \A n \in 1 .. Len(burst') : n \in 1 .. Len(burst) \/ n = Len(burst) + 1
        BY <1>5, <2>2
    <2>4. ASSUME NEW n \in 1 .. Len(burst')
          PROVE  Size(burst'[n]) >= 1
        <3>1. CASE n \in 1 .. Len(burst)
            <4>1. burst'[n] = burst[n]
                BY <2>2, <3>1
            <4>2. QED
                BY <1>5, <3>1, <4>1
        <3>2. CASE n = Len(burst) + 1
            <4>1. burst'[n] = t
                BY <2>2, <3>2
            <4>2. QED
                BY <1>3, <4>1
        <3>3. QED
            BY <2>3, <3>1, <3>2
    <2>5. PICK g : /\ Table(burst', g)
                   /\ g[Len(burst')] = all[Len(burst)] \o Accesses(t)
                   /\ \A n \in 0 .. Len(burst') : g[n] \in Seq(Access)
        BY <1>3, <1>4, <1>5, <2>1, Grown
    <2>6. g[Len(burst')] = asked'
        BY <1>1, <1>3, <1>4, <1>5, <2>5, AppendConcat
    <2>7. ASSUME \E n \in 1 .. Len(burst') : ~Fit(burst'[n])
          PROVE  \E n \in 1 .. Len(asked') : Misfit(n)'
        <3>1. CASE \E n \in 1 .. Len(burst) : ~Fit(burst[n])
            BY <1>6, <3>1 DEF BurstInv
        <3>2. CASE ~Fit(t)
            <4>1. ~reads /\ ~list
                BY <1>3, <3>2
            <4>2. Len(asked) > 0 => burst # <<>>
                <5>1. SUFFICES ASSUME burst = <<>> PROVE Len(asked) = 0
                    BY <1>6
                <5>2. asked = all[0] /\ 0 \in 0 .. 0 /\ Len(burst) = 0
                    BY <1>4, <5>1
                <5>3. all[0] = <<>>
                    BY <1>4, <5>2 DEF Table
                <5>4. QED
                    BY <5>2, <5>3
            <4>3. ASSUME burst # <<>>, ~asked[Len(asked)].reads
                  PROVE  a # asked[Len(asked)].addr + 1
                <5> DEFINE l == Last(burst)
                <5>1. /\ l \in Transactions /\ Size(l) \in Nat \ {0}
                      /\ asked[Len(asked)] = One(l, Size(l))
                    BY <4>3, LastAsked
                <5>2. ~Follows(l, a, FALSE) /\ ~LenRaises(l, FALSE)
                    BY <1>1, <1>7, <4>1, <4>3
                <5> HIDE DEF l
                <5>3. ~(l.reads > 0) /\ l.addr \in Nat /\ l.reads \in Nat
                    BY <4>3, <5>1 DEF One, Transactions
                <5>4. l.reads = 0 /\ l.list /\ Size(l) = Len(l.vals)
                    BY <5>2, <5>3 DEF LenRaises, Size
                <5>5. a # l.addr + Size(l)
                    BY <5>2, <5>4 DEF Follows
                <5>6. asked[Len(asked)].addr = l.addr + Size(l) - 1
                    BY <5>1, <5>3 DEF One
                <5>7. QED
                    BY <5>1, <5>3, <5>5, <5>6
            <4>4. QED
                BY <1>3, <1>6, <4>1, <4>2, <4>3
        <3>3. QED
            BY <2>2, <2>3, <2>7, <3>1, <3>2, Zenon
    <2>8. burst' # <<>> /\ Last(burst') = t
        BY <1>5, <2>2 DEF Last
    <2>9. Last(burst').reads = 0 /\ ~Last(burst').list =>
              ~asked'[Len(asked')].reads /\ ~lists'[Len(asked')]
        BY <1>3, <1>6, <2>8
    <2>10. QED
        BY <1>6, <2>2, <2>4, <2>5, <2>6, <2>7, <2>9, Zenon DEF BurstInv, Table, Misfit, InARow, Last
<1>8. CASE burst # <<>> /\ Follows(Last(burst), a, reads)
    <2> DEFINE f == Front(burst)
               l == Last(burst)
               u == Joined(Last(burst), reads, v, list)
    <2>1. burst' = Append(f, u)
        BY <1>2, <1>8
    <2>2. /\ f \in Seq(Transactions) /\ l \in Transactions
          /\ Len(burst) \in Nat \ {0} /\ Len(f) = Len(burst) - 1
          /\ \A n \in 1 .. Len(burst) - 1 : f[n] = burst[n]
          /\ l = burst[Len(burst)]
        BY <1>4, <1>5, <1>8, Shortened DEF Last
    <2>3. PICK h : /\ Table(f, h)
                   /\ \A n \in 0 .. Len(f) : h[n] \in Seq(Access)
                   /\ all[Len(burst)] = h[Len(f)] \o Accesses(l)
        BY <1>4, <1>5, <1>8, Shortened
    <2>4. Size(l) >= 1 /\ Follows(l, a, reads)
        <3>1. Len(burst) \in 1 .. Len(burst)
            BY <2>2
        <3>2. QED
            BY <1>5, <1>8, <2>2, <3>1
    <2>5. /\ u \in Transactions /\ Size(u) = Size(l) + 1
          /\ Accesses(u) = Append(Accesses(l), x)
          /\ u.reads > 0 \/ u.list
          /\ ~Fit(u) => ~reads /\ (list \/ ~Fit(l))
          /\ ~reads => ~One(l, Size(l)).reads /\ a = One(l, Size(l)).addr + 1
        <3>1. PICK c : c = l
            OBVIOUS
        <3>2. u = Joined(c, reads, v, list)
            BY <3>1
        <3> HIDE DEF l, u
        <3>3. c \in Transactions /\ Size(c) >= 1 /\ Follows(c, a, reads) /\ a \in Nat
            BY <1>1, <2>2, <2>4, <3>1
        <3>4. LET w == Joined(c, reads, v, list)
                  y == [addr |-> a, reads |-> reads, v |-> IF reads THEN 0 ELSE v]
              IN  /\ w \in Transactions /\ Size(w) = Size(c) + 1 /\ y \in Access
                  /\ Accesses(w) = Append(Accesses(c), y)
                  /\ w.reads > 0 \/ w.list
                  /\ ~Fit(w) => ~reads /\ (list \/ ~Fit(c))
                  /\ ~reads => ~One(c, Size(c)).reads /\ a = One(c, Size(c)).addr + 1
            BY <3>3, JoinedFacts
        <3>5. QED
            BY <3>1, <3>2, <3>4, Zenon DEF x
    <2>6. /\ Accesses(l) \in Seq(Access) /\ Size(l) \in Nat /\ Len(Accesses(l)) = Size(l)
          /\ \A k \in 1 .. Size(l) : Accesses(l)[k] = One(l, k) /\ One(l, k) \in Access
        BY <2>2, AccessesFacts
    <2> HIDE DEF f, l, u
    <2>7. /\ burst' \in Seq(Transactions) /\ Len(burst') = Len(burst)
          /\ \A n \in 1 .. Len(f) : burst'[n] = f[n]
          /\ burst'[Len(f) + 1] = u /\ Len(f) + 1 = Len(burst) /\ Len(f) \in Nat
        BY <2>1, <2>2, <2>5, AppendProperties
    <2>8. \A n \in 1 .. Len(burst') : n \in 1 .. Len(f) \/ n = Len(f) + 1
        BY <2>7
    <2>9. \A n \in 1 .. Len(f) : n \in 1 .. Len(burst) - 1 /\ n \in 1 .. Len(burst)
        BY <2>2
    <2>10. \A n \in 1 .. Len(burst') : Size(burst'[n]) >= 1
        <3>1. Size(u) >= 1
            BY <2>5, <2>6
        <3>2. QED
            BY <1>5, <2>2, <2>7, <2>8, <2>9, <3>1, Zenon
    <2>11. PICK g : /\ Table(burst', g)
                    /\ g[Len(burst')] = h[Len(f)] \o Accesses(u)
                    /\ \A n \in 0 .. Len(burst') : g[n] \in Seq(Access)
        <3>1. \E g : /\ Table(Append(f, u), g)
                     /\ g[Len(Append(f, u))] = h[Len(f)] \o Accesses(u)
                     /\ \A n \in 0 .. Len(Append(f, u)) : g[n] \in Seq(Access)
            <4>1. /\ f \in Seq(Transactions) /\ u \in Transactions /\ Table(f, h)
                  /\ \A n \in 0 .. Len(f) : h[n] \in Seq(Access)
                BY <2>2, <2>3, <2>5
            <4>2. QED
                BY <4>1, Grown, Zenon
        <3>2. QED
            BY <2>1, <3>1, Zenon DEF Table
    <2>12. g[Len(burst')] = asked'
        <3>1. h[Len(f)] \in Seq(Access)
            BY <2>3, <2>7
        <3>2. h[Len(f)] \o Append(Accesses(l), x) = Append(h[Len(f)] \o Accesses(l), x)
            BY <1>3, <2>6, <3>1, AppendConcat
        <3>3. QED
            BY <1>1, <1>4, <2>3, <2>5, <2>11, <3>2, Zenon
    <2>13. ASSUME \E n \in 1 .. Len(burst') : ~Fit(burst'[n])
           PROVE  \E n \in 1 .. Len(asked') : Misfit(n)'
        <3>1. CASE \E n \in 1 .. Len(burst) : ~Fit(burst[n])
            BY <1>6, <3>1 DEF BurstInv
        <3>2. CASE ~\E n \in 1 .. Len(burst) : ~Fit(burst[n])
            <4>1. ~Fit(u)
                BY <2>2, <2>7, <2>8, <2>9, <2>13, <3>2, Zenon
            <4>2. Fit(l)
                <5>1. Len(burst) \in 1 .. Len(burst)
                    BY <2>2
                <5>2. QED
                    BY <2>2, <3>2, <5>1
            <4>3. ~reads /\ list
                BY <2>5, <4>1, <4>2
            <4>4. /\ Len(asked) > 0 /\ ~asked[Len(asked)].reads
                  /\ a = asked[Len(asked)].addr + 1
                BY <1>8, <2>5, <4>3, LastAsked DEF l
            <4>5. QED
                BY <1>3, <1>6, <4>3, <4>4
        <3>3. QED
            BY <3>1, <3>2
    <2>14. Last(burst') = u
        BY <2>2, <2>7 DEF Last
    <2>15. ~(Last(burst').reads = 0 /\ ~Last(burst').list)
        BY <2>5, <2>14
    <2>16. QED
        BY <1>6, <2>7, <2>10, <2>11, <2>12, <2>13, <2>15, Zenon
        DEF BurstInv, Table, Misfit, InARow, Last
<1>9. QED
    BY <1>7, <1>8

\* An empty burst and no access
LEMMA EmptyBurst ==
    /\ <<>> \in Seq(Transactions) /\ <<>> \in Seq(Access)
    /\ \A n : n \notin 1 .. Len(<<>>)
    /\ \E all : /\ Table(<<>>, all) /\ all[Len(<<>>)] = <<>>
                /\ \A n \in 0 .. Len(<<>>) : all[n] \in Seq(Access)
<1> DEFINE all == [n \in 0 .. 0 |-> <<>>]
<1>1. /\ <<>> \in Seq(Transactions) /\ <<>> \in Seq(Access) /\ Len(<<>>) = 0
      /\ \A n : n \notin 1 .. 0
    OBVIOUS
<1>2. Table(<<>>, all) /\ all[0] = <<>> /\ \A n \in 0 .. 0 : all[n] \in Seq(Access)
    BY <1>1 DEF Table
<1> HIDE DEF all
<1>3. QED
    BY <1>1, <1>2, Zenon

\* Such a burst is as it was asked for.
LEMMA NoBurstInv ==
    ASSUME burst' = <<>>, asked' = <<>>, lists' = <<>>
    PROVE  BurstInv'
<1>1. /\ burst' \in Seq(Transactions) /\ asked' \in Seq(Access)
      /\ \A n : n \notin 1 .. Len(burst')
      /\ \E all : /\ Table(burst', all) /\ all[Len(burst')] = asked'
                  /\ \A n \in 0 .. Len(burst') : all[n] \in Seq(Access)
    BY EmptyBurst, Zenon
<1>2. lists' \in Seq(BOOLEAN) /\ Len(lists') = Len(asked') /\ burst' = <<>>
    OBVIOUS
<1>3. QED
    BY <1>1, <1>2, Zenon DEF BurstInv, Table

BurstsInv == BurstInv /\ BurstAsAsked

\* A burst is empty before it is filled.
LEMMA InitBurst == Init => BurstsInv
<1> SUFFICES ASSUME Init PROVE BurstsInv
    OBVIOUS
<1>1. burst = <<>> /\ asked = <<>> /\ lists = <<>> /\ sent = NoBurst
    BY DEF Init
<1>2. /\ burst \in Seq(Transactions) /\ asked \in Seq(Access)
      /\ \A n : n \notin 1 .. Len(burst)
      /\ \E all : /\ Table(burst, all) /\ all[Len(burst)] = asked
                  /\ \A n \in 0 .. Len(burst) : all[n] \in Seq(Access)
    BY <1>1, EmptyBurst, Zenon
<1>3. lists \in Seq(BOOLEAN) /\ Len(lists) = Len(asked) /\ burst = <<>>
    BY <1>1
<1>4. BurstInv
    BY <1>2, <1>3, Zenon DEF BurstInv
<1>5. BurstAsAsked
    BY <1>1 DEF BurstAsAsked, NoBurst
<1>6. QED
    BY <1>4, <1>5 DEF BurstsInv

\* _submit() makes the accesses that were added, or none; len() raises at a number.
LEMMA SubmitKeeps ==
    ASSUME BurstInv, Submit \/ AddRaises(FALSE)
    PROVE  BurstsInv'
<1>1. UNCHANGED <<burst, asked, lists>>
    BY DEF Submit, AddRaises
<1>2. BurstInv'
    BY <1>1 DEF BurstInv, Table, Misfit, InARow, Last
<1>3. InOrder = asked
    <2>1. PICK all : Table(burst, all) /\ all[Len(burst)] = asked
        BY DEF BurstInv
    <2>2. Len(burst) \in Nat
        BY LenProperties DEF BurstInv
    <2>3. InOrder = all[Len(burst)]
        BY <2>1, <2>2, InOrderIs
    <2>4. QED
        BY <2>1, <2>3
<1>4. BurstAsAsked'
    <2>1. CASE Submit /\ \A n \in 1 .. Len(burst) : Fit(burst[n])
        <3>1. \/ sent' = [verdict |-> "sent", did |-> asked]
              \/ \E n \in 0 .. Len(asked) : sent' = [verdict |-> "failed", did |-> SubSeq(asked, 1, n)]
            BY <1>3, <2>1 DEF Submit
        <3>2. QED
            BY <1>1, <3>1 DEF BurstAsAsked
    <2>2. CASE Submit /\ ~\A n \in 1 .. Len(burst) : Fit(burst[n])
        <3>1. sent' = [verdict |-> "error", did |-> <<>>]
            BY <2>2 DEF Submit
        <3>2. \E n \in 1 .. Len(asked) : Misfit(n)
            BY <2>2 DEF BurstInv
        <3>3. \E n \in 1 .. Len(asked') : Misfit(n)'
            BY <1>1, <3>2 DEF Misfit, InARow
        <3>4. QED
            BY <3>1, <3>3, Zenon DEF BurstAsAsked, Misfit
    <2>3. CASE AddRaises(FALSE)
        <3>1. sent' = [verdict |-> "refused", did |-> <<>>] /\ burst # <<>>
              /\ Last(burst).reads = 0 /\ ~Last(burst).list
            BY <2>3 DEF AddRaises, LenRaises
        <3>2. ~asked[Len(asked)].reads /\ ~lists[Len(asked)]
            BY <3>1 DEF BurstInv
        <3>3. Len(asked) # 0
            BY <3>1, LastAsked
        <3>4. asked # <<>>
            BY <3>3
        <3>5. QED
            BY <1>1, <3>1, <3>2, <3>4 DEF BurstAsAsked
    <2>4. QED
        BY <2>1, <2>2, <2>3
<1>5. QED
    BY <1>2, <1>4 DEF BurstsInv

\* A step of anyone keeps what is known of the burst.
LEMMA NextBurst == BurstsInv /\ [Next]_vars => BurstsInv'
<1> SUFFICES ASSUME BurstsInv, [Next]_vars PROVE BurstsInv'
    OBVIOUS
<1>1. ASSUME NEW a \in Addrs, NEW reads \in BOOLEAN, NEW v \in Nat, NEW list \in BOOLEAN,
             AddRegister(a, reads, v, list)
      PROVE  BurstsInv'
    <2>1. BurstInv'
        BY <1>1, AddKeeps DEF BurstsInv
    <2>2. sent' = NoBurst
        BY <1>1 DEF AddRegister
    <2>3. BurstAsAsked'
        BY <2>2 DEF BurstAsAsked, NoBurst
    <2>4. QED
        BY <2>1, <2>3 DEF BurstsInv
<1>2. CASE \E a \in Addrs : \/ AddRegister(a, TRUE, 0, FALSE)
                            \/ \E v \in {1, 2}, list \in BOOLEAN : AddRegister(a, FALSE, v, list)
    BY <1>1, <1>2
<1>3. CASE AddRaises(FALSE) \/ Submit
    BY <1>3, SubmitKeeps DEF BurstsInv
<1>9. CASE ClearBurst
    <2>1. BurstInv'
        BY <1>9, NoBurstInv DEF ClearBurst
    <2>2. BurstAsAsked'
        BY <1>9 DEF ClearBurst, BurstAsAsked, NoBurst
    <2>3. QED
        BY <2>1, <2>2 DEF BurstsInv
<1>4. ASSUME UNCHANGED bus PROVE BurstsInv'
    BY <1>4 DEF bus, BurstsInv, BurstInv, BurstAsAsked, Misfit, InARow, Table, Size, Last
<1>5. CASE \E i \in Objects :
              \/ \E csv \in Csvs : Construct(i, csv)
              \/ ReadWide(i) \/ ReadString(i) \/ \E r \in {"high", "low"} : ReadOne(i, r)
    BY <1>4, <1>5 DEF Construct, ReadWide, ReadString, ReadOne, Begin
<1>6. CASE NotOwned \/ Returns \/ EosRead \/ Grab \/ FoundLocked
    BY <1>4, <1>6 DEF NotOwned, Returns, EosRead, Grab, FoundLocked
<1>7. CASE Transfer \/ Release \/ Interrupt \/ Counts \/ UNCHANGED vars
    BY <1>4, <1>7 DEF Transfer, Release, Interrupt, Counts, vars
<1>8. QED
    BY <1>2, <1>3, <1>5, <1>6, <1>7, <1>9 DEF Next

\* However _add_register() joins the accesses of a burst, what the device does is what was
\* added to it, in that order, as far as the bus does not fail; or the burst raises, which takes a
\* number for a write that stands alone, a list for one that goes on, or a write behind a number.
THEOREM BurstAsAskedHolds == Spec => []BurstAsAsked
<1>1. Init => BurstsInv
    BY InitBurst
<1>2. BurstsInv /\ [Next]_vars => BurstsInv'
    BY NextBurst
<1>3. BurstsInv => BurstAsAsked
    BY DEF BurstsInv
<1>4. QED
    BY <1>1, <1>2, <1>3, PTL DEF Spec
-----------------------------------------------------------------------------
(* The tuning of the transceivers: the invariant.                          *)

TunedFields == {Tuned[n] : n \in 1 .. Len(Tuned)}
TunedJobs   == [field : TunedFields, value : FieldValues]
Trying(q)   == step[q] \in {"look", "refresh", "commit"}
Applying    == dpc \in {"source", "medium", "speed", "set"}

\* Two that work on a port's record at the same time are noted for both.  Who works on
\* it alone has read what the record holds.
ClashInv ==
    \A p \in Ports :
        /\ Busy(Tool, p) /\ Busy(Daemon, p) => p \in clash[Tool] /\ p \in clash[Daemon]
        /\ step[Daemon] = "commit" /\ port[Daemon] = p /\ p \notin clash[Tool] =>
              cache[Daemon][Other] = phy[p][Other]
        /\ step[Tool] = "commit" /\ port[Tool] = p /\ p \notin clash[Daemon] =>
              \A f \in TunedFields : cache[Tool][f] = phy[p][f]

\* The daemon assigns the fields of the tuning, the tool its own.
JobsInv ==
    /\ jobs[Daemon] \in Seq(TunedJobs)
    /\ Trying(Daemon) <=> jobs[Daemon] # <<>>
    /\ dpc # "set" => step[Daemon] = "idle"
    /\ dpc = "set" => port[Daemon] = dport
    /\ Trying(Tool) => jobs[Tool] = <<[field |-> Other, value |-> lastSet[port[Tool]]]>>
    /\ step[Tool] = "commit" => cache[Tool][Other] = lastSet[port[Tool]]

\* What is tuned is watched, and what was read is so until there is news.
WatchInv ==
    /\ events \cap todo = {}
    /\ \A i \in todo : told[i] = "none"
    /\ dpc = "down" => events = {} /\ todo = {} /\ told = [i \in Intfs |-> "none"]
    /\ Applying => cur \notin todo
    /\ dpc \in {"medium", "speed", "set"} =>
          /\ \A i \in Intfs \ {cur} : i \notin untold => source[i] # dport
          /\ cur \notin untold => source[cur] = dport
    /\ dpc \in {"speed", "set"} /\ cur \notin untold /\ cur \notin events => dmedium = MediumOf(cur)

\* The speed and medium the daemon tunes for, and how many fields it has set.
Wanted == <<speed[cur], dmedium>>
SetSoFar == Len(Tuned) - Len(jobs[Daemon])

\* Without news, what is set and what is still to be set are those of the tuning.
SetInv ==
    dpc = "set" /\ step[Daemon] # "raised" /\ cur \notin events /\ cur \notin untold =>
        /\ Wanted \in DOMAIN TuningData
        /\ SetSoFar \in 0 .. Len(Tuned)
        /\ \A n \in 1 .. Len(jobs[Daemon]) :
              jobs[Daemon][n] = [field |-> Tuned[SetSoFar + n],
                                 value |-> TuningData[Wanted][SetSoFar + n]]
        /\ dport \notin clash[Daemon] =>
              /\ \A n \in 1 .. SetSoFar : phy[dport][Tuned[n]] = TuningData[Wanted][n]
              /\ step[Daemon] = "commit" =>
                    \A n \in 1 .. SetSoFar + 1 : cache[Daemon][Tuned[n]] = TuningData[Wanted][n]

\* An interface that was tuned, and is not being tuned again, is tuned.
TunedInv ==
    \A i \in Intfs :
        ~(Applying /\ i = cur) /\ told[i] = "tuned" /\ i \notin events /\ Untroubled(i) => AsTuned(i)

TuningInv == TuningType /\ ClashInv /\ JobsInv /\ WatchInv /\ SetInv /\ TunedInv /\ ToolKept

\* What is assumed of the constants.
LEMMA TuningFacts ==
    /\ Procs = {Daemon, Tool} /\ Daemon # Tool
    /\ NoPort \notin Ports /\ Unset \notin FieldValues
    /\ Tuned \in Seq(Fields) /\ Len(Tuned) \in Nat /\ Len(Tuned) > 0
    /\ \A m, n \in 1 .. Len(Tuned) : Tuned[m] = Tuned[n] => m = n
    /\ \A n \in 1 .. Len(Tuned) : Tuned[n] \in Fields /\ Tuned[n] \in TunedFields
    /\ Other \in Fields /\ Other \notin TunedFields /\ TunedFields \subseteq Fields
    /\ TunedJobs \subseteq Assignment
    /\ MaxTries \in Nat \ {0} /\ Ports # {} /\ Intfs # {}
<1>1. /\ Procs = {Daemon, Tool} /\ Daemon # Tool
      /\ NoPort \notin Ports /\ Unset \notin FieldValues
      /\ Tuned \in Seq(Fields) /\ Tuned # <<>>
      /\ \A m, n \in 1 .. Len(Tuned) : Tuned[m] = Tuned[n] => m = n
      /\ Other \in Fields /\ \A n \in 1 .. Len(Tuned) : Tuned[n] # Other
    BY TuningAssumption
<1>2. Len(Tuned) \in Nat /\ Len(Tuned) > 0 /\ \A n \in 1 .. Len(Tuned) : Tuned[n] \in Fields
    BY <1>1
<1>3. /\ \A n \in 1 .. Len(Tuned) : Tuned[n] \in TunedFields
      /\ TunedFields \subseteq Fields /\ Other \notin TunedFields
    BY <1>1, <1>2 DEF TunedFields
<1>4. TunedJobs \subseteq Assignment
    BY <1>3 DEF TunedJobs, Assignment
<1>5. QED
    BY <1>1, <1>2, <1>3, <1>4, PhyAssumption, TuningAssumption

\* At first nothing is tuned.
LEMMA TuningInitInv == TuningInit => TuningInv
<1> SUFFICES ASSUME TuningInit PROVE TuningInv
    OBVIOUS
<1>1. PICK s \in Starts : speed = s.speed /\ medium = s.medium /\ source = s.source
    BY DEF TuningInit
<1>2. s \in Surroundings
    BY TuningAssumption
<1>3. [speed |-> speed, medium |-> medium, source |-> source] \in Surroundings
    BY <1>1, <1>2 DEF Surroundings
<1>4. Blank \in Record /\ MaxTries \in Nat \ {0}
    BY PhyAssumption DEF Blank, Record
<1>5. (CHOOSE p \in Ports : TRUE) \in Ports /\ (CHOOSE i \in Intfs : TRUE) \in Intfs
    BY TuningFacts
<1>6. Changes \in Nat
    BY TuningAssumption
<1>7. PhyType
    BY <1>4, <1>5 DEF TuningInit, PhyInit, PhyType
<1>8. TuningType
    <2>1. /\ events = {} /\ todo = {} /\ untold = {} /\ dpc = "down" /\ initial = FALSE /\ fphy = FALSE
          /\ cur \in Intfs /\ dport \in Ports /\ dmedium \in Media /\ changes = 0
          /\ told = [i \in Intfs |-> "none"] /\ lastSet = [p \in Ports |-> Unset]
        BY <1>5 DEF TuningInit, Media
    <2>2. /\ told \in [Intfs -> {"none", "tuned", "failed", "off"}]
          /\ lastSet \in [Ports -> FieldValues \cup {Unset}]
        BY <2>1
    <2>3. changes \in 0 .. Changes
        BY <1>6, <2>1
    <2>4. QED
        BY <1>3, <1>7, <2>1, <2>2, <2>3 DEF TuningType
<1>9. step = [q \in Procs |-> "idle"] /\ jobs = [q \in Procs |-> <<>>] /\ Daemon \in Procs /\ Tool \in Procs
    BY TuningFacts DEF TuningInit, PhyInit
<1>10. /\ dpc = "down" /\ events = {} /\ todo = {} /\ told = [i \in Intfs |-> "none"]
       /\ lastSet = [p \in Ports |-> Unset]
    BY DEF TuningInit
<1>11. QED
    BY <1>8, <1>9, <1>10
    DEF TuningInv, ClashInv, JobsInv, WatchInv, SetInv, TunedInv, ToolKept, Busy, Trying, Applying
-----------------------------------------------------------------------------
(* What the steps of a process with a record do.                           *)

\* What a step of a process with the FPGA changes: its own place, and perhaps the record it
\* works on, which becomes what it has made of it.
Touches(q) ==
    /\ UNCHANGED <<port, clash>>
    /\ \A r \in Procs \ {q} : step'[r] = step[r] /\ jobs'[r] = jobs[r] /\ cache'[r] = cache[r]
    /\ \A p \in Ports : phy'[p] = phy[p] \/ (step[q] = "commit" /\ port[q] = p /\ phy'[p] = cache[q])
    /\ \/ step[q] = "look" /\ step'[q] = "refresh" /\ jobs'[q] = jobs[q]
          /\ UNCHANGED phy
       \/ step[q] = "refresh" /\ step'[q] = "commit" /\ jobs'[q] = jobs[q]
          /\ cache'[q] = [phy[port[q]] EXCEPT ![Head(jobs[q]).field] = Head(jobs[q]).value]
          /\ UNCHANGED phy
       \/ step[q] = "commit" /\ cache'[q] = cache[q]
          /\ phy'[port[q]] = cache[q] /\ jobs'[q] = Tail(jobs[q])
          /\ step'[q] = IF Len(jobs[q]) = 1 THEN "idle" ELSE "look"
       \/ cache'[q] = cache[q] /\ step'[q] = step[q] /\ jobs'[q] = jobs[q]
       \/ cache'[q] = cache[q] /\ step'[q] = "raised" /\ jobs'[q] = <<>>

\* Transactions, and failures, are such steps.
LEMMA TransactionTouches ==
    ASSUME TuningType, NEW q \in Procs, Transaction(q) \/ Fail(q), jobs[q] # <<>>
    PROVE  PhyType' /\ Touches(q) /\ Trying(q)
<1>1. /\ phy \in [Ports -> Record] /\ port \in [Procs -> Ports]
      /\ step \in [Procs -> {"idle", "look", "refresh", "commit", "raised"}]
      /\ jobs \in [Procs -> Seq(Assignment)]
      /\ cache \in [Procs -> Record]
      /\ tries \in [Procs -> 0 .. MaxTries - 1]
      /\ clash \in [Procs -> SUBSET Ports]
      /\ MaxTries \in Nat \ {0}
    BY TuningFacts DEF TuningType, PhyType
<1>2. /\ Head(jobs[q]) \in Assignment /\ Tail(jobs[q]) \in Seq(Assignment)
      /\ jobs[q] \in Seq(Assignment)
    BY <1>1
<1>3. \A n \in 0 .. MaxTries - 1 : [tries EXCEPT ![q] = n] \in [Procs -> 0 .. MaxTries - 1]
    BY <1>1
<1>4. 0 \in 0 .. MaxTries - 1
    BY <1>1
<1>5. CASE Look(q)
    <2>1. PhyType'
        BY <1>1, <1>3, <1>4, <1>5 DEF Look, ReadReg, Tried, PhyType
    <2>2. Touches(q) /\ Trying(q)
        BY <1>1, <1>5 DEF Look, Tried, Touches, Trying
    <2>3. QED
        BY <2>1, <2>2
<1>6. CASE Refresh(q)
    <2> DEFINE r == [phy[port[q]] EXCEPT ![Head(jobs[q]).field] = Head(jobs[q]).value]
    <2>1. phy[port[q]] \in Record /\ Head(jobs[q]).field \in Fields /\ Head(jobs[q]).value \in FieldValues
        BY <1>1, <1>2 DEF Assignment
    <2>2. r \in Record
        BY <2>1 DEF Record
    <2>3. cache' = [cache EXCEPT ![q] = r]
        BY <1>6 DEF Refresh, Refreshed, ReadReg
    <2>4. Touches(q) /\ Trying(q)
        BY <1>1, <1>6, <2>3 DEF Refresh, Tried, Touches, Trying
    <2> HIDE DEF r
    <2>5. PhyType'
        BY <1>1, <1>3, <1>4, <1>6, <2>2, <2>3 DEF Refresh, Tried, PhyType
    <2>6. QED
        BY <2>4, <2>5
<1>7. CASE Commit(q)
    <2>1. PhyType'
        BY <1>1, <1>2, <1>3, <1>4, <1>7 DEF Commit, WriteReg, Tried, PhyType
    <2>2. Touches(q) /\ Trying(q)
        BY <1>1, <1>7 DEF Commit, WriteReg, Tried, Touches, Trying
    <2>3. QED
        BY <2>1, <2>2
<1>8. CASE Fail(q)
    <2>1. phy' \in [Ports -> Record]
        BY <1>1, <1>8 DEF Fail, WriteReg
    <2>2. PhyType'
        <3>1. CASE tries[q] + 1 < MaxTries
            <4>1. tries[q] + 1 \in 0 .. MaxTries - 1
                BY <1>1, <3>1
            <4>2. tries' \in [Procs -> 0 .. MaxTries - 1] /\ UNCHANGED <<step, jobs, port, cache, clash>>
                BY <1>1, <1>8, <3>1, <4>1 DEF Fail
            <4>3. QED
                BY <1>1, <2>1, <4>2 DEF PhyType
        <3>2. CASE ~(tries[q] + 1 < MaxTries)
            <4>1. /\ step' = [step EXCEPT ![q] = "raised"] /\ tries' = [tries EXCEPT ![q] = 0]
                  /\ jobs' = [jobs EXCEPT ![q] = <<>>] /\ UNCHANGED <<port, cache, clash>>
                BY <1>8, <3>2 DEF Fail, Tried
            <4>2. <<>> \in Seq(Assignment)
                OBVIOUS
            <4>3. /\ tries' \in [Procs -> 0 .. MaxTries - 1]
                  /\ jobs' \in [Procs -> Seq(Assignment)]
                  /\ step' \in [Procs -> {"idle", "look", "refresh", "commit", "raised"}]
                BY <1>1, <1>4, <4>1, <4>2
            <4>4. QED
                BY <1>1, <2>1, <4>1, <4>3 DEF PhyType
        <3>3. QED
            BY <3>1, <3>2
    <2>3. Touches(q) /\ Trying(q)
        BY <1>1, <1>8 DEF Fail, WriteReg, Tried, Touches, Trying
    <2>4. QED
        BY <2>2, <2>3
<1>9. QED
    BY <1>5, <1>6, <1>7, <1>8 DEF Transaction
-----------------------------------------------------------------------------
(* What happens around the daemon.                                         *)

\* What it keeps of the records, as long as nobody sets a field.
LEMMA RecordsKept ==
    ASSUME TuningInv, UNCHANGED <<phyVars, lastSet>>,
           \/ UNCHANGED <<dpc, dport>>
           \/ dpc # "set" /\ dpc' # "set"
    PROVE  ClashInv' /\ JobsInv' /\ ToolKept'
<1>1. UNCHANGED <<phy, step, port, jobs, cache, tries, clash>>
    BY DEF phyVars
<1>2. \A q \in Procs : \A p \in Ports : Busy(q, p)' = Busy(q, p)
    BY <1>1 DEF Busy
<1>3. ClashInv'
    BY <1>1, <1>2, TuningFacts DEF TuningInv, ClashInv
<1>4. JobsInv'
    BY <1>1 DEF TuningInv, JobsInv, Trying
<1>5. ToolKept'
    BY <1>1, <1>2, TuningFacts DEF TuningInv, ToolKept
<1>6. QED
    BY <1>3, <1>4, <1>5

\* A change is an event for a daemon that watches the interface, or is noted.
News ==
    /\ UNCHANGED <<phyVars, ownVars, lastSet>>
    /\ events \subseteq events' /\ untold \subseteq untold'
    /\ events' \subseteq events \cup (Intfs \ todo)
    /\ dpc = "down" => events' = events
    /\ \A i \in Intfs \ untold' : source'[i] = source[i]
    /\ \A i \in Intfs \ (untold' \cup events' \cup todo) :
           dpc # "down" => speed'[i] = speed[i] /\ medium'[i] = medium[i]

\* The changes are.
LEMMA ChangesAreNews ==
    ASSUME TuningType,
           \/ \E i \in Intfs, s \in Speeds : SetSpeed(i, s)
           \/ \E i \in Intfs, m \in Media \cup {"unknown"} : Insert(i, m) \/ Identify(i, m)
           \/ \E s \in Patches : Repatch(s)
    PROVE  News /\ TuningType'
<1>1. /\ speed \in [Intfs -> Speeds] /\ medium \in [Intfs -> Media \cup {"unknown"}]
      /\ source \in Patches /\ source \in [Intfs -> Ports \cup {NoPort}]
      /\ events \subseteq Intfs /\ untold \subseteq Intfs
    BY DEF TuningType, Surroundings, Patches
<1>2. \A e, m, p : e \in [Intfs -> Speeds] /\ m \in [Intfs -> Media \cup {"unknown"}] /\ p \in Patches
          => [speed |-> e, medium |-> m, source |-> p] \in Surroundings
    BY DEF Surroundings
<1>3. ASSUME Change, phyVars' = phyVars, ownVars' = ownVars, lastSet' = lastSet,
             events' \subseteq Intfs, untold' \subseteq Intfs,
             [speed |-> speed', medium |-> medium', source |-> source'] \in Surroundings
      PROVE  TuningType'
    <2>1. changes' \in 0 .. Changes
        <3>1. Changes \in Nat
            BY TuningAssumption
        <3>2. QED
            BY <1>3, <3>1 DEF Change, TuningType
    <2>2. UNCHANGED <<phy, step, port, jobs, cache, tries, clash>>
        BY <1>3 DEF phyVars
    <2>3. UNCHANGED <<dpc, initial, todo, cur, dport, dmedium, fphy, told>>
        BY <1>3 DEF ownVars
    <2>4. PhyType'
        BY <2>2 DEF TuningType, PhyType
    <2>5. QED
        BY <1>3, <2>1, <2>3, <2>4 DEF TuningType
<1>4. ASSUME NEW i \in Intfs, NEW s \in Speeds, SetSpeed(i, s)
      PROVE  News /\ TuningType'
    <2>1. speed' = [speed EXCEPT ![i] = s] /\ speed' \in [Intfs -> Speeds]
        BY <1>1, <1>4 DEF SetSpeed
    <2>2. Change /\ UNCHANGED <<phyVars, medium, source, ownVars, untold, lastSet>>
          /\ events' = IF dpc # "down" /\ i \notin todo THEN events \cup {i} ELSE events
        BY <1>4 DEF SetSpeed, Notify, Watched
    <2>3. News
        BY <1>1, <2>1, <2>2 DEF News
    <2>4. QED
        BY <1>1, <1>2, <1>3, <2>1, <2>2, <2>3
<1>5. ASSUME NEW i \in Intfs, NEW m \in Media \cup {"unknown"}, Insert(i, m)
      PROVE  News /\ TuningType'
    <2>1. medium' = [medium EXCEPT ![i] = m] /\ medium' \in [Intfs -> Media \cup {"unknown"}]
        BY <1>1, <1>5 DEF Insert
    <2>2. Change /\ UNCHANGED <<phyVars, speed, source, ownVars, untold, lastSet>>
          /\ events' = IF dpc # "down" /\ i \notin todo THEN events \cup {i} ELSE events
        BY <1>5 DEF Insert, Notify, Watched
    <2>3. News
        BY <1>1, <2>1, <2>2 DEF News
    <2>4. QED
        BY <1>1, <1>2, <1>3, <2>1, <2>2, <2>3
<1>6. ASSUME NEW i \in Intfs, NEW m \in Media \cup {"unknown"}, Identify(i, m)
      PROVE  News /\ TuningType'
    <2>1. medium' = [medium EXCEPT ![i] = m] /\ medium' \in [Intfs -> Media \cup {"unknown"}]
        BY <1>1, <1>6 DEF Identify
    <2>2. /\ Change /\ UNCHANGED <<phyVars, speed, source, events, ownVars, lastSet>>
          /\ untold' = untold \cup {i}
        BY <1>6 DEF Identify
    <2>3. News
        BY <1>1, <2>1, <2>2 DEF News
    <2>4. QED
        BY <1>1, <1>2, <1>3, <2>1, <2>2, <2>3
<1>7. ASSUME NEW s \in Patches, Repatch(s)
      PROVE  News /\ TuningType'
    <2>1. /\ source' = s /\ Change /\ UNCHANGED <<phyVars, speed, medium, events, ownVars, lastSet>>
          /\ untold' = untold \cup {i \in Intfs : s[i] # source[i]}
        BY <1>7 DEF Repatch
    <2>2. News
        BY <1>1, <2>1 DEF News
    <2>3. QED
        BY <1>1, <1>2, <1>3, <2>1, <2>2
<1>8. QED
    BY <1>4, <1>5, <1>6, <1>7

\* News keep the invariant: of what they change no claim is left.
LEMMA NewsKept ==
    ASSUME TuningInv, TuningType', News
    PROVE  TuningInv'
<1>1. /\ UNCHANGED <<dpc, initial, todo, cur, dport, dmedium, fphy, told>>
      /\ UNCHANGED <<phy, step, port, jobs, cache, tries, clash, lastSet>>
    BY DEF News, ownVars, phyVars
<1>2. ClashInv' /\ JobsInv' /\ ToolKept'
    BY <1>1, RecordsKept DEF News
<1>3. cur \in Intfs /\ (dpc \in {"source", "medium", "speed", "set"} => cur \notin todo)
    BY DEF TuningInv, TuningType, WatchInv, Applying
<1>4. \A i \in Intfs : i \notin untold' /\ i \notin events' /\ i \notin todo /\ dpc # "down" =>
          /\ i \notin untold /\ i \notin events
          /\ speed'[i] = speed[i] /\ source'[i] = source[i] /\ medium'[i] = medium[i]
          /\ MediumOf(i)' = MediumOf(i)
    BY DEF News, MediumOf
<1>5. WatchInv'
    <2>1. events' \cap todo' = {} /\ (dpc' = "down" => events' = {})
        BY <1>1 DEF TuningInv, WatchInv, News
    <2>2. dpc \in {"medium", "speed", "set"} =>
              /\ \A i \in Intfs \ {cur} : i \notin untold' => source'[i] # dport
              /\ cur \notin untold' => source'[cur] = dport
        BY <1>3 DEF TuningInv, WatchInv, News
    <2>3. dpc \in {"speed", "set"} /\ cur \notin untold' /\ cur \notin events' =>
              dmedium = IF medium'[cur] = "copper" THEN "copper" ELSE "fiber"
        <3> SUFFICES ASSUME dpc \in {"speed", "set"}, cur \notin untold', cur \notin events'
                     PROVE  dmedium = IF medium'[cur] = "copper" THEN "copper" ELSE "fiber"
            OBVIOUS
        <3>1. cur \notin untold /\ cur \notin events /\ medium'[cur] = medium[cur]
            BY <1>3, <1>4
        <3>2. dmedium = MediumOf(cur)
            BY <3>1 DEF TuningInv, WatchInv
        <3>3. QED
            BY <3>1, <3>2 DEF MediumOf
    <2>4. /\ \A i \in todo : told[i] = "none"
          /\ dpc = "down" => todo = {} /\ told = [i \in Intfs |-> "none"]
        BY DEF TuningInv, WatchInv
    <2>5. QED
        BY <1>1, <1>3, <2>1, <2>2, <2>3, <2>4 DEF WatchInv, Applying, MediumOf
<1>6. SetInv'
    <2> SUFFICES ASSUME dpc = "set", step[Daemon] # "raised", cur \notin events', cur \notin untold'
                 PROVE  SetInv'
        BY <1>1 DEF SetInv
    <2>1. Wanted' = Wanted /\ SetSoFar' = SetSoFar /\ cur \notin events /\ cur \notin untold
        BY <1>1, <1>3, <1>4 DEF Wanted, SetSoFar
    <2>2. QED
        BY <1>1, <2>1 DEF TuningInv, SetInv
<1>7. TunedInv'
    <2> SUFFICES ASSUME NEW i \in Intfs, ~(Applying /\ i = cur), told[i] = "tuned",
                        i \notin events', i \notin untold', source'[i] \notin clash[Daemon]
                 PROVE  AsTuned(i)'
        BY <1>1 DEF TunedInv, Untroubled, Applying
    <2>1. i \notin todo /\ dpc # "down"
        BY DEF TuningInv, WatchInv
    <2>2. /\ i \notin untold /\ i \notin events
          /\ speed'[i] = speed[i] /\ source'[i] = source[i]
          /\ MediumOf(i)' = MediumOf(i)
        BY <1>4, <2>1
    <2>3. AsTuned(i)
        BY <2>2 DEF TuningInv, TunedInv, Untroubled
    <2>4. QED
        BY <1>1, <2>2, <2>3 DEF AsTuned
<1>8. QED
    BY <1>2, <1>5, <1>6, <1>7 DEF TuningInv
-----------------------------------------------------------------------------
(* The daemon, before it sets a field.                                     *)

\* The types stay, if those of what changes do.
LEMMA TypeKept ==
    ASSUME TuningType, PhyType', UNCHANGED <<speed, medium, source, changes>>,
           events' \subseteq Intfs, todo' \subseteq Intfs, untold' \subseteq Intfs,
           dpc' \in {"down", "init", "idle", "source", "medium", "speed", "set"},
           initial' \in BOOLEAN, fphy' \in BOOLEAN, cur' \in Intfs, dport' \in Ports,
           dmedium' \in Media, told' \in [Intfs -> {"none", "tuned", "failed", "off"}],
           lastSet' \in [Ports -> FieldValues \cup {Unset}]
    PROVE  TuningType'
    BY DEF TuningType

\* Nothing but the place of the daemon changes, and what it is to set up.
LEMMA BeginKept ==
    ASSUME TuningInv, Start \/ InitDone \/ Disable
    PROVE  TuningInv'
<1>1. /\ UNCHANGED <<phyVars, envVars, cur, dport, dmedium, told, untold, lastSet, changes>>
      /\ dpc \in {"down", "init", "idle"} /\ dpc' \in {"init", "idle"}
      /\ initial' \in BOOLEAN /\ fphy' \in BOOLEAN
      /\ todo' = todo \/ (dpc = "down" /\ todo' = Intfs)
    BY DEF Start, InitDone, Disable, TuningInv, TuningType
<1>2. /\ UNCHANGED <<phy, step, port, jobs, cache, tries, clash, lastSet>>
      /\ UNCHANGED <<speed, medium, source, events, cur, dport, dmedium, told, untold, changes>>
    BY <1>1 DEF phyVars, envVars
<1>3. ClashInv' /\ JobsInv' /\ ToolKept'
    BY <1>1, RecordsKept
<1>4. TuningType'
    <2>1. PhyType'
        BY <1>2 DEF TuningInv, TuningType, PhyType
    <2>2. QED
        BY <1>1, <1>2, <2>1, TypeKept DEF TuningInv, TuningType
<1>5. WatchInv'
    BY <1>1, <1>2 DEF TuningInv, TuningType, WatchInv, Applying
<1>6. SetInv'
    BY <1>1 DEF SetInv
<1>7. TunedInv'
    <2> SUFFICES ASSUME NEW i \in Intfs, told[i] = "tuned", i \notin events, i \notin untold,
                        source[i] \notin clash[Daemon]
                 PROVE  AsTuned(i)'
        BY <1>2 DEF TunedInv, Untroubled
    <2>1. AsTuned(i)
        BY <1>1 DEF TuningInv, TunedInv, Untroubled, Applying
    <2>2. MediumOf(i)' = MediumOf(i)
        BY <1>2 DEF MediumOf
    <2>3. QED
        BY <1>2, <2>1, <2>2 DEF AsTuned
<1>8. QED
    BY <1>3, <1>4, <1>5, <1>6, <1>7 DEF TuningInv

\* An interface is going to be tuned: no claim about it is left.
LEMMA ApplyKept ==
    ASSUME TuningInv, NEW i \in Intfs, SetUp(i) \/ Event(i)
    PROVE  TuningInv'
<1>1. /\ Apply(i) /\ dpc \in {"init", "idle"} /\ initial' = initial
      /\ \/ i \in todo /\ todo' = todo \ {i} /\ events' = events
         \/ i \in events /\ events' = events \ {i} /\ todo' = todo
    BY DEF SetUp, Event
<1>2. /\ cur' = i /\ dpc' = "source" /\ untold' = untold \ {i}
      /\ UNCHANGED <<phy, step, port, jobs, cache, tries, clash, lastSet>>
      /\ UNCHANGED <<speed, medium, source, dport, dmedium, fphy, told, changes>>
      /\ UNCHANGED phyVars
    BY <1>1 DEF Apply, phyVars
<1>3. ClashInv' /\ JobsInv' /\ ToolKept'
    BY <1>1, <1>2, RecordsKept
<1>4. TuningType'
    <2>1. PhyType'
        BY <1>2 DEF TuningInv, TuningType, PhyType
    <2>2. /\ events' \subseteq Intfs /\ todo' \subseteq Intfs /\ untold' \subseteq Intfs
        BY <1>1, <1>2 DEF TuningInv, TuningType
    <2>3. QED
        BY <1>1, <1>2, <2>1, <2>2, TypeKept DEF TuningInv, TuningType
<1>5. WatchInv'
    BY <1>1, <1>2 DEF TuningInv, WatchInv, Applying
<1>6. SetInv'
    BY <1>2 DEF SetInv
<1>7. TunedInv'
    <2> SUFFICES ASSUME NEW j \in Intfs, j # i, told[j] = "tuned", j \notin events',
                        j \notin untold', source[j] \notin clash[Daemon]
                 PROVE  AsTuned(j)'
        BY <1>2 DEF TunedInv, Untroubled, Applying
    <2>1. j \notin events /\ j \notin untold
        BY <1>1, <1>2
    <2>2. AsTuned(j)
        BY <1>1, <2>1 DEF TuningInv, TunedInv, Untroubled, Applying
    <2>3. MediumOf(j)' = MediumOf(j)
        BY <1>2 DEF MediumOf
    <2>4. QED
        BY <1>2, <2>2, <2>3 DEF AsTuned
<1>8. QED
    BY <1>3, <1>4, <1>5, <1>6, <1>7 DEF TuningInv

\* What the daemon reads is so, and no other interface has the port.  An exception leaves
\* the interface untuned.
LEMMA ReadKept ==
    ASSUME TuningInv, ReadSource \/ ReadMedium
    PROVE  TuningInv'
<1>1. /\ UNCHANGED <<phyVars, envVars, todo, cur, fphy, untold, lastSet, changes>>
      /\ dpc \in {"source", "medium"} /\ Applying
    BY DEF ReadSource, ReadMedium, Applying
<1>2. /\ UNCHANGED <<phy, step, port, jobs, cache, tries, clash, lastSet>>
      /\ UNCHANGED <<speed, medium, source, events, todo, cur, fphy, untold, changes>>
    BY <1>1 DEF phyVars, envVars
<1>3. /\ source \in [Intfs -> Ports \cup {NoPort}] /\ cur \in Intfs /\ cur \notin todo
      /\ \A i, j \in Intfs : source[i] = source[j] => i = j \/ source[i] = NoPort
    BY <1>1 DEF TuningInv, TuningType, WatchInv, Applying, Surroundings, Patches
<1>4. \/ /\ dpc' = "idle" /\ initial' = FALSE /\ UNCHANGED <<dport, dmedium>>
         /\ told' = [told EXCEPT ![cur] = "failed"]
      \/ /\ dpc = "source" /\ dpc' = "medium" /\ source[cur] # NoPort /\ dport' = source[cur]
         /\ UNCHANGED <<told, initial, dmedium>>
      \/ /\ dpc = "medium" /\ dpc' = "speed" /\ dmedium' = MediumOf(cur)
         /\ UNCHANGED <<told, initial, dport>>
    BY DEF ReadSource, ReadMedium, Raised
<1>5. dpc' \in {"idle", "medium", "speed"} /\ initial' \in BOOLEAN
    BY <1>4 DEF TuningInv, TuningType
<1>6. ClashInv' /\ JobsInv' /\ ToolKept'
    BY <1>1, <1>2, <1>5, RecordsKept
<1>7. TuningType'
    <2>1. PhyType'
        BY <1>2 DEF TuningInv, TuningType, PhyType
    <2>2. told' \in [Intfs -> {"none", "tuned", "failed", "off"}]
        BY <1>4 DEF TuningInv, TuningType
    <2>3. dport' \in Ports /\ dmedium' \in Media
        BY <1>3, <1>4 DEF TuningInv, TuningType, MediumOf, Media
    <2>4. QED
        BY <1>2, <1>5, <2>1, <2>2, <2>3, TypeKept DEF TuningInv, TuningType
<1>8. WatchInv'
    <2>1. events' \cap todo' = {} /\ \A i \in todo' : told'[i] = "none"
        BY <1>2, <1>3, <1>4 DEF TuningInv, TuningType, WatchInv
    <2>2. dpc' \in {"medium", "speed", "set"} =>
              /\ \A i \in Intfs \ {cur'} : i \notin untold' => source'[i] # dport'
              /\ cur' \notin untold' => source'[cur'] = dport'
        BY <1>2, <1>3, <1>4 DEF TuningInv, WatchInv
    <2>3. dpc' = "speed" => dmedium' = MediumOf(cur)
        BY <1>4
    <2>4. MediumOf(cur)' = MediumOf(cur)
        BY <1>2 DEF MediumOf
    <2>5. QED
        BY <1>2, <1>3, <1>5, <2>1, <2>2, <2>3, <2>4 DEF WatchInv, Applying
<1>9. SetInv'
    BY <1>5 DEF SetInv
<1>10. TunedInv'
    <2> SUFFICES ASSUME NEW i \in Intfs, i # cur, told[i] = "tuned", i \notin events,
                        i \notin untold, source[i] \notin clash[Daemon]
                 PROVE  AsTuned(i)'
        BY <1>2, <1>4 DEF TuningInv, TuningType, TunedInv, Untroubled, Applying
    <2>1. AsTuned(i)
        BY DEF TuningInv, TunedInv, Untroubled
    <2>2. MediumOf(i)' = MediumOf(i)
        BY <1>2 DEF MediumOf
    <2>3. QED
        BY <1>2, <2>1, <2>2 DEF AsTuned
<1>11. QED
    BY <1>6, <1>7, <1>8, <1>9, <1>10 DEF TuningInv

\* A process leaves its record.
LEMMA LeaveType ==
    ASSUME TuningType, NEW q \in Procs, Leave(q)
    PROVE  /\ PhyType' /\ UNCHANGED <<phy, port, cache, clash>>
           /\ step' = [step EXCEPT ![q] = "idle"] /\ jobs' = [jobs EXCEPT ![q] = <<>>]
<1>1. /\ UNCHANGED <<phy, port, cache, clash>>
      /\ step' = [step EXCEPT ![q] = "idle"] /\ jobs' = [jobs EXCEPT ![q] = <<>>]
      /\ tries' = [tries EXCEPT ![q] = 0]
    BY DEF Leave, Tried
<1>2. tries' \in [Procs -> 0 .. MaxTries - 1]
    BY <1>1, TuningFacts DEF TuningType, PhyType
<1>3. jobs' \in [Procs -> Seq(Assignment)]
    <2>1. <<>> \in Seq(Assignment)
        OBVIOUS
    <2>2. QED
        BY <1>1, <2>1 DEF TuningType, PhyType
<1>4. QED
    BY <1>1, <1>2, <1>3 DEF TuningType, PhyType

\* Nothing is left of a daemon that dies.
LEMMA CrashKept ==
    ASSUME TuningInv, Crash
    PROVE  TuningInv'
<1>1. /\ dpc' = "down" /\ initial' = FALSE /\ fphy' = FALSE /\ events' = {} /\ todo' = {}
      /\ told' = [i \in Intfs |-> "none"]
      /\ UNCHANGED <<speed, medium, source, cur, dport, dmedium, untold, lastSet>>
      /\ Change
    BY DEF Crash
<1>2. /\ PhyType' /\ UNCHANGED <<phy, port, cache, clash>>
      /\ step' = [step EXCEPT ![Daemon] = "idle"] /\ jobs' = [jobs EXCEPT ![Daemon] = <<>>]
    BY TuningFacts, LeaveType DEF Crash, TuningInv
<1>3. /\ step'[Daemon] = "idle" /\ step'[Tool] = step[Tool]
      /\ jobs'[Daemon] = <<>> /\ jobs'[Tool] = jobs[Tool]
    BY <1>2, TuningFacts DEF TuningInv, TuningType, PhyType
<1>4. ClashInv' /\ JobsInv' /\ ToolKept'
    <2>1. ClashInv'
        BY <1>2, <1>3 DEF TuningInv, ClashInv, Busy
    <2>2. JobsInv'
        <3>1. <<>> \in Seq(TunedJobs)
            OBVIOUS
        <3>2. QED
            BY <1>1, <1>2, <1>3, <3>1 DEF TuningInv, JobsInv, Trying
    <2>3. ToolKept'
        BY <1>1, <1>2, <1>3 DEF TuningInv, ToolKept, Busy
    <2>4. QED
        BY <2>1, <2>2, <2>3
<1>5. TuningType'
    <2>1. changes' \in 0 .. Changes
        <3>1. Changes \in Nat
            BY TuningAssumption
        <3>2. QED
            BY <1>1, <3>1 DEF Change, TuningInv, TuningType
    <2>2. told' \in [Intfs -> {"none", "tuned", "failed", "off"}]
        BY <1>1
    <2>3. QED
        BY <1>1, <1>2, <2>1, <2>2 DEF TuningInv, TuningType
<1>6. WatchInv' /\ SetInv' /\ TunedInv'
    BY <1>1 DEF WatchInv, SetInv, TunedInv, Applying
<1>7. QED
    BY <1>4, <1>5, <1>6 DEF TuningInv
-----------------------------------------------------------------------------
(* The fields are set.                                                     *)

\* A process starts on a record; the other is noted if it works on it as well.
LEMMA AssignType ==
    ASSUME TuningType, NEW q \in Procs, NEW p \in Ports, NEW list \in Seq(Assignment),
           Assign(q, p, list), NEW o, Procs = {q, o}, q # o
    PROVE  /\ PhyType' /\ UNCHANGED <<phy, cache>>
           /\ step' = [step EXCEPT ![q] = "look"] /\ port' = [port EXCEPT ![q] = p]
           /\ jobs' = [jobs EXCEPT ![q] = list]
           /\ Busy(o, p) => clash'[q] = clash[q] \cup {p} /\ clash'[o] = clash[o] \cup {p}
           /\ ~Busy(o, p) => clash'[q] = clash[q] \ {p} /\ clash'[o] = clash[o]
<1>1. /\ step' = [step EXCEPT ![q] = "look"] /\ port' = [port EXCEPT ![q] = p]
      /\ jobs' = [jobs EXCEPT ![q] = list] /\ UNCHANGED <<phy, cache, tries>>
      /\ clash' = [r \in Procs |->
            IF r = q THEN IF \E x \in Procs \ {q} : Busy(x, p)
                          THEN clash[q] \cup {p} ELSE clash[q] \ {p}
            ELSE IF Busy(r, p) THEN clash[r] \cup {p} ELSE clash[r]]
    BY DEF Assign
<1>2. (\E x \in Procs \ {q} : Busy(x, p)) <=> Busy(o, p)
    OBVIOUS
<1>3. /\ Busy(o, p) => clash'[q] = clash[q] \cup {p} /\ clash'[o] = clash[o] \cup {p}
      /\ ~Busy(o, p) => clash'[q] = clash[q] \ {p} /\ clash'[o] = clash[o]
    BY <1>1, <1>2
<1>4. clash' \in [Procs -> SUBSET Ports]
    <2>1. \A r \in Procs : clash[r] \in SUBSET Ports
        BY DEF TuningType, PhyType
    <2>2. clash'[q] \in SUBSET Ports /\ clash'[o] \in SUBSET Ports
        BY <1>3, <2>1
    <2>3. \A r \in Procs : clash'[r] \in SUBSET Ports
        BY <2>2
    <2>4. clash' = [r \in Procs |-> clash'[r]]
        BY <1>1
    <2>5. QED
        BY <2>3, <2>4
<1>5. QED
    BY <1>1, <1>3, <1>4 DEF TuningType, PhyType

\* set_speed() begins, or there is nothing to set.
LEMMA ReadSpeedKept ==
    ASSUME TuningInv, ReadSpeed
    PROVE  TuningInv'
<1>1. /\ UNCHANGED <<speed, medium, source, events, todo, cur, dport, dmedium, fphy, untold, lastSet>>
      /\ changes' = changes /\ dpc = "speed" /\ Applying /\ step[Daemon] = "idle"
    BY DEF ReadSpeed, envVars, Applying, TuningInv, JobsInv
<1>2. \/ /\ UNCHANGED phyVars /\ dpc' \in {"init", "idle"} /\ initial' \in BOOLEAN
         /\ \E how \in {"off", "failed"} : told' = [told EXCEPT ![cur] = how]
      \/ /\ Wanted \in DOMAIN TuningData
         /\ Assign(Daemon, dport, [n \in 1 .. Len(Tuned) |->
                       [field |-> Tuned[n], value |-> TuningData[Wanted][n]]])
         /\ dpc' = "set" /\ UNCHANGED <<told, initial>>
    BY DEF ReadSpeed, ApplyEnded, Raised, Wanted, TuningInv, TuningType
<1>3. /\ cur \in Intfs /\ cur \notin todo /\ told \in [Intfs -> {"none", "tuned", "failed", "off"}]
      /\ initial \in BOOLEAN /\ dport \in Ports
    BY <1>1 DEF TuningInv, TuningType, WatchInv
<1>4. WatchInv'
    <2>1. events' \cap todo' = {} /\ \A i \in todo' : told'[i] = "none"
        BY <1>1, <1>2, <1>3 DEF TuningInv, TuningType, WatchInv
    <2>2. MediumOf(cur)' = MediumOf(cur)
        BY <1>1 DEF MediumOf
    <2>3. dpc' \in {"init", "idle", "set"}
        BY <1>2
    <2>4. /\ \A i \in Intfs \ {cur'} : i \notin untold' => source'[i] # dport'
          /\ cur' \notin untold' => source'[cur'] = dport'
        BY <1>1 DEF TuningInv, WatchInv
    <2>5. cur' \notin untold' /\ cur' \notin events' => dmedium' = MediumOf(cur)'
        BY <1>1, <2>2 DEF TuningInv, WatchInv
    <2>6. QED
        BY <1>1, <1>3, <2>1, <2>3, <2>4, <2>5 DEF WatchInv, Applying
<1>5. ASSUME UNCHANGED phy, \A p \in Ports \ clash'[Daemon] : p = dport \/ p \notin clash[Daemon]
      PROVE  TunedInv'
    <2> SUFFICES ASSUME NEW i \in Intfs, i # cur, told[i] = "tuned", i \notin events,
                        i \notin untold, source[i] \notin clash'[Daemon]
                 PROVE  AsTuned(i)'
        <3>1. told'[cur] # "tuned" \/ Applying'
            BY <1>2, <1>3 DEF Applying
        <3>2. \A i \in Intfs : i # cur => told'[i] = told[i]
            BY <1>2, <1>3
        <3>3. QED
            BY <1>1, <3>1, <3>2 DEF TunedInv, Untroubled
    <2>1. source[i] # dport
        BY <1>1 DEF TuningInv, WatchInv
    <2>2. source[i] \in Ports \cup {NoPort}
        BY DEF TuningInv, TuningType, Surroundings, Patches
    <2>3. source[i] \notin clash[Daemon]
        <3>1. clash[Daemon] \in SUBSET Ports
            BY TuningFacts DEF TuningInv, TuningType, PhyType
        <3>2. QED
            BY <1>5, <2>1, <2>2, <3>1, TuningFacts
    <2>4. AsTuned(i)
        BY <2>3 DEF TuningInv, TunedInv, Untroubled
    <2>5. MediumOf(i)' = MediumOf(i)
        BY <1>1 DEF MediumOf
    <2>6. QED
        BY <1>1, <1>5, <2>4, <2>5 DEF AsTuned
<1>6. CASE UNCHANGED phyVars /\ dpc' \in {"init", "idle"} /\ initial' \in BOOLEAN
           /\ \E how \in {"off", "failed"} : told' = [told EXCEPT ![cur] = how]
    <2>1. UNCHANGED <<phy, step, port, jobs, cache, tries, clash>>
        BY <1>6 DEF phyVars
    <2>2. ClashInv' /\ JobsInv' /\ ToolKept'
        BY <1>1, <1>6, RecordsKept
    <2>3. PhyType'
        BY <2>1 DEF TuningInv, TuningType, PhyType
    <2>4. told' \in [Intfs -> {"none", "tuned", "failed", "off"}]
        BY <1>3, <1>6
    <2>5. TuningType'
        BY <1>1, <1>6, <2>3, <2>4, TypeKept DEF TuningInv, TuningType
    <2>6. SetInv' /\ TunedInv'
        BY <1>5, <1>6, <2>1 DEF SetInv
    <2>7. QED
        BY <1>4, <2>2, <2>5, <2>6 DEF TuningInv
<1>7. CASE /\ Wanted \in DOMAIN TuningData
           /\ Assign(Daemon, dport, [n \in 1 .. Len(Tuned) |->
                         [field |-> Tuned[n], value |-> TuningData[Wanted][n]]])
           /\ dpc' = "set" /\ UNCHANGED <<told, initial>>
    <2> DEFINE list == [n \in 1 .. Len(Tuned) |->
                          [field |-> Tuned[n], value |-> TuningData[Wanted][n]]]
    <2>1. list \in Seq(TunedJobs) /\ Len(list) = Len(Tuned)
          /\ \A n \in 1 .. Len(Tuned) : list[n] = [field |-> Tuned[n], value |-> TuningData[Wanted][n]]
        <3>1. TuningData[Wanted] \in [1 .. Len(Tuned) -> FieldValues]
            BY <1>7, TuningAssumption
        <3>2. \A n \in 1 .. Len(Tuned) : list[n] \in TunedJobs
            BY <3>1, TuningFacts DEF TunedJobs
        <3>3. list \in [1 .. Len(Tuned) -> TunedJobs] /\ Len(Tuned) \in Nat
            BY <3>2, TuningFacts
        <3> HIDE DEF list
        <3>4. list \in Seq(TunedJobs)
            BY <3>3, SeqDef
        <3>5. Len(list) = Len(Tuned)
            BY <3>3, <3>4, LenProperties
        <3>6. QED
            BY <3>4, <3>5 DEF list
    <2> HIDE DEF list
    <2>2. list \in Seq(Assignment) /\ list # <<>>
        <3>1. \A n \in 1 .. Len(list) : list[n] \in Assignment
            BY <2>1, TuningFacts
        <3>2. list \in Seq(Assignment)
            BY <2>1, TuningFacts
        <3>3. QED
            BY <2>1, <3>2, TuningFacts
    <2>3. /\ PhyType' /\ UNCHANGED <<phy, cache>>
          /\ step' = [step EXCEPT ![Daemon] = "look"] /\ port' = [port EXCEPT ![Daemon] = dport]
          /\ jobs' = [jobs EXCEPT ![Daemon] = list]
          /\ Busy(Tool, dport) => /\ clash'[Daemon] = clash[Daemon] \cup {dport}
                                  /\ clash'[Tool] = clash[Tool] \cup {dport}
          /\ ~Busy(Tool, dport) => /\ clash'[Daemon] = clash[Daemon] \ {dport}
                                   /\ clash'[Tool] = clash[Tool]
        <3>1. Daemon \in Procs /\ Procs = {Daemon, Tool} /\ Daemon # Tool
            BY TuningFacts
        <3>2. Assign(Daemon, dport, list) /\ TuningType
            BY <1>7 DEF list, TuningInv
        <3>3. QED
            BY <1>3, <2>2, <3>1, <3>2, AssignType
    <2>4. /\ step'[Daemon] = "look" /\ step'[Tool] = step[Tool]
          /\ port'[Daemon] = dport /\ port'[Tool] = port[Tool]
          /\ jobs'[Daemon] = list /\ jobs'[Tool] = jobs[Tool]
        BY <2>3, TuningFacts DEF TuningInv, TuningType, PhyType
    <2>5. TuningType'
        BY <1>1, <1>7, <2>3, TypeKept DEF TuningInv, TuningType
    <2>6. ClashInv'
        BY <1>1, <2>3, <2>4 DEF TuningInv, ClashInv, Busy
    <2>7. JobsInv'
        BY <1>1, <1>7, <2>1, <2>2, <2>3, <2>4 DEF TuningInv, JobsInv, Trying
    <2>8. ToolKept'
        BY <1>1, <2>3, <2>4 DEF TuningInv, ToolKept, Busy
    <2>9. SetInv'
        <3>1. Wanted' = Wanted /\ SetSoFar' = 0
            BY <1>1, <2>1, <2>4, TuningFacts DEF Wanted, SetSoFar
        <3>2. \A n \in 1 .. Len(list) : 0 + n = n
            BY <2>1, TuningFacts
        <3>3. 0 \in 0 .. Len(Tuned)
            BY TuningFacts
        <3>4. QED
            BY <1>7, <2>1, <2>4, <3>1, <3>2, <3>3 DEF SetInv
    <2>10. TunedInv'
        BY <1>5, <2>3
    <2>11. QED
        BY <1>4, <2>5, <2>6, <2>7, <2>8, <2>9, <2>10 DEF TuningInv
<1>8. QED
    BY <1>2, <1>6, <1>7

\* set_speed() has set all fields, or raised.
LEMMA SetDoneKept ==
    ASSUME TuningInv, SetDone
    PROVE  TuningInv'
<1>1. /\ UNCHANGED <<speed, medium, source, events, todo, cur, dport, dmedium, fphy, untold, lastSet>>
      /\ changes' = changes /\ dpc = "set" /\ Applying
    BY DEF SetDone, envVars, Applying
<1>2. \/ /\ step[Daemon] = "idle" /\ UNCHANGED phyVars /\ dpc' \in {"init", "idle"}
         /\ initial' \in BOOLEAN /\ told' = [told EXCEPT ![cur] = "tuned"]
      \/ /\ step[Daemon] = "raised" /\ Leave(Daemon) /\ dpc' = "idle" /\ initial' = FALSE
         /\ told' = [told EXCEPT ![cur] = "failed"]
    BY DEF SetDone, ApplyEnded, Raised, TuningInv, TuningType
<1>3. /\ cur \in Intfs /\ cur \notin todo /\ told \in [Intfs -> {"none", "tuned", "failed", "off"}]
      /\ dport \in Ports
    BY <1>1 DEF TuningInv, TuningType, WatchInv
<1>4. dpc' \in {"init", "idle"} /\ initial' \in BOOLEAN
    BY <1>2
<1>5. /\ PhyType' /\ UNCHANGED <<phy, port, cache, clash>>
      /\ step'[Daemon] = "idle" /\ step'[Tool] = step[Tool]
      /\ jobs'[Daemon] = <<>> /\ jobs'[Tool] = jobs[Tool]
    <2>1. CASE step[Daemon] = "idle" /\ UNCHANGED phyVars
        <3>1. jobs[Daemon] = <<>>
            BY <2>1 DEF TuningInv, JobsInv, Trying
        <3>2. UNCHANGED <<phy, step, port, jobs, cache, tries, clash>>
            BY <2>1 DEF phyVars
        <3>3. QED
            BY <2>1, <3>1, <3>2 DEF TuningInv, TuningType, PhyType
    <2>2. CASE Leave(Daemon)
        <3>1. /\ PhyType' /\ UNCHANGED <<phy, port, cache, clash>>
              /\ step' = [step EXCEPT ![Daemon] = "idle"] /\ jobs' = [jobs EXCEPT ![Daemon] = <<>>]
            BY <2>2, TuningFacts, LeaveType DEF TuningInv
        <3>2. QED
            BY <3>1, TuningFacts DEF TuningInv, TuningType, PhyType
    <2>3. QED
        BY <1>2, <2>1, <2>2
<1>6. ClashInv'
    BY <1>5 DEF TuningInv, ClashInv, Busy
<1>7. JobsInv'
    <2>1. <<>> \in Seq(TunedJobs)
        OBVIOUS
    <2>2. QED
        BY <1>1, <1>4, <1>5, <2>1 DEF TuningInv, JobsInv, Trying
<1>8. ToolKept'
    BY <1>1, <1>5 DEF TuningInv, ToolKept, Busy
<1>9. TuningType'
    <2>1. told' \in [Intfs -> {"none", "tuned", "failed", "off"}]
        BY <1>2, <1>3
    <2>2. QED
        BY <1>1, <1>4, <1>5, <2>1, TypeKept DEF TuningInv, TuningType
<1>10. WatchInv'
    <2>1. events' \cap todo' = {} /\ \A i \in todo' : told'[i] = "none"
        BY <1>1, <1>2, <1>3 DEF TuningInv, TuningType, WatchInv
    <2>2. QED
        BY <1>4, <2>1 DEF WatchInv, Applying
<1>11. SetInv'
    BY <1>4 DEF SetInv
<1>12. \A i \in Intfs : MediumOf(i)' = MediumOf(i) /\ (AsTuned(i)' <=> AsTuned(i))
    <2>1. \A i \in Intfs : MediumOf(i)' = MediumOf(i)
        BY <1>1 DEF MediumOf
    <2>2. QED
        BY <1>1, <1>5, <2>1 DEF AsTuned
<1>13. step[Daemon] = "idle" /\ cur \notin events /\ Untroubled(cur) => AsTuned(cur)
    <2> SUFFICES ASSUME step[Daemon] = "idle", cur \notin events, cur \notin untold,
                        source[cur] \notin clash[Daemon]
                 PROVE  AsTuned(cur)
        BY DEF Untroubled
    <2>1. source[cur] = dport /\ dmedium = MediumOf(cur)
        BY <1>1 DEF TuningInv, WatchInv
    <2>2. jobs[Daemon] = <<>>
        BY DEF TuningInv, JobsInv, Trying
    <2>3. SetSoFar = Len(Tuned)
        BY <2>2, TuningFacts DEF SetSoFar
    <2>4. /\ Wanted \in DOMAIN TuningData
          /\ \A n \in 1 .. Len(Tuned) : phy[dport][Tuned[n]] = TuningData[Wanted][n]
        BY <1>1, <2>1, <2>3 DEF TuningInv, SetInv
    <2>5. QED
        BY <1>3, <2>1, <2>4 DEF AsTuned, Wanted
<1>14. TunedInv'
    <2> SUFFICES ASSUME NEW i \in Intfs, told'[i] = "tuned", i \notin events, i \notin untold,
                        source[i] \notin clash[Daemon]
                 PROVE  AsTuned(i)
        BY <1>1, <1>5, <1>12 DEF TunedInv, Untroubled
    <2>1. CASE i = cur
        BY <1>2, <1>3, <1>13, <2>1 DEF Untroubled
    <2>2. CASE i # cur
        BY <1>2, <1>3, <2>2 DEF TuningInv, TunedInv, Untroubled
    <2>3. QED
        BY <2>1, <2>2
<1>15. QED
    BY <1>6, <1>7, <1>8, <1>9, <1>10, <1>11, <1>14 DEF TuningInv

\* A transaction of the daemon: it keeps the tool's field, and sets the next of its own.
LEMMA SetStepKept ==
    ASSUME TuningInv, SetStep
    PROVE  TuningInv'
<1>1. /\ UNCHANGED <<speed, medium, source, events, dpc, initial, todo, cur, dport, dmedium, fphy>>
      /\ UNCHANGED <<told, untold, lastSet, changes>> /\ dpc = "set"
    BY DEF SetStep, envVars, ownVars
<1>2. PhyType' /\ Touches(Daemon) /\ Trying(Daemon) /\ jobs[Daemon] # <<>>
    <2>1. Trying(Daemon)
        BY DEF SetStep, Transaction, Look, Refresh, Commit, Fail, Trying
    <2>2. jobs[Daemon] # <<>> /\ TuningType
        BY <2>1 DEF TuningInv, JobsInv
    <2>3. QED
        BY <2>1, <2>2, TuningFacts, TransactionTouches DEF SetStep
<1>3. /\ UNCHANGED <<port, clash>>
      /\ step'[Tool] = step[Tool] /\ jobs'[Tool] = jobs[Tool] /\ cache'[Tool] = cache[Tool]
      /\ \A p \in Ports : phy'[p] = phy[p] \/ (step[Daemon] = "commit" /\ port[Daemon] = p /\ phy'[p] = cache[Daemon])
      /\ step[Daemon] # "idle" /\ port[Daemon] = dport /\ dport \in Ports
    BY <1>1, <1>2, TuningFacts DEF Touches, Trying, TuningInv, JobsInv, TuningType
<1>4. /\ jobs[Daemon] \in Seq(TunedJobs) /\ Len(jobs[Daemon]) \in Nat /\ Len(jobs[Daemon]) > 0
      /\ Head(jobs[Daemon]) = jobs[Daemon][1] /\ Head(jobs[Daemon]).field \in TunedFields
      /\ Tail(jobs[Daemon]) \in Seq(TunedJobs) /\ Len(Tail(jobs[Daemon])) = Len(jobs[Daemon]) - 1
      /\ \A n \in 1 .. Len(jobs[Daemon]) - 1 : Tail(jobs[Daemon])[n] = jobs[Daemon][n + 1]
    <2>1. jobs[Daemon] \in Seq(TunedJobs)
        BY DEF TuningInv, JobsInv
    <2>2. Head(jobs[Daemon]) \in TunedJobs
        BY <1>2, <2>1
    <2>3. QED
        BY <1>2, <2>1, <2>2 DEF TunedJobs
<1>5. /\ \A p \in Ports : phy[p] \in [Fields -> FieldValues]
      /\ \A q \in Procs : cache[q] \in [Fields -> FieldValues]
    BY DEF TuningInv, TuningType, PhyType, Record
<1>6. TuningType'
    BY <1>1, <1>2 DEF TuningInv, TuningType
<1>7. ClashInv'
    <2> SUFFICES ASSUME NEW p \in Ports
                 PROVE  /\ Busy(Tool, p)' /\ Busy(Daemon, p)' => p \in clash[Tool] /\ p \in clash[Daemon]
                        /\ step'[Daemon] = "commit" /\ port[Daemon] = p /\ p \notin clash[Tool] =>
                              cache'[Daemon][Other] = phy'[p][Other]
                        /\ step[Tool] = "commit" /\ port[Tool] = p /\ p \notin clash[Daemon] =>
                              \A f \in TunedFields : cache[Tool][f] = phy'[p][f]
        BY <1>3 DEF ClashInv
    <2>1. Busy(Tool, p)' /\ Busy(Daemon, p)' => p \in clash[Tool] /\ p \in clash[Daemon]
        BY <1>3 DEF TuningInv, ClashInv, Busy
    <2>2. ASSUME step'[Daemon] = "commit", port[Daemon] = p, p \notin clash[Tool]
          PROVE  cache'[Daemon][Other] = phy'[p][Other]
        <3>1. \/ /\ cache'[Daemon] = [phy[p] EXCEPT ![Head(jobs[Daemon]).field] = Head(jobs[Daemon]).value]
                 /\ UNCHANGED phy
              \/ cache'[Daemon] = cache[Daemon] /\ step[Daemon] = "commit"
            BY <1>2, <2>2 DEF Touches
        <3>2. Other \in Fields /\ Head(jobs[Daemon]).field # Other
            BY <1>4, TuningFacts
        <3>3. CASE /\ cache'[Daemon] = [phy[p] EXCEPT ![Head(jobs[Daemon]).field] = Head(jobs[Daemon]).value]
                   /\ UNCHANGED phy
            BY <1>5, <3>2, <3>3
        <3>4. CASE cache'[Daemon] = cache[Daemon] /\ step[Daemon] = "commit"
            <4>1. cache[Daemon][Other] = phy[p][Other]
                BY <2>2, <3>4 DEF TuningInv, ClashInv
            <4>2. QED
                BY <1>3, <3>4, <4>1
        <3>5. QED
            BY <3>1, <3>3, <3>4
    <2>3. ASSUME step[Tool] = "commit", port[Tool] = p, p \notin clash[Daemon]
          PROVE  \A f \in TunedFields : cache[Tool][f] = phy'[p][f]
        <3>1. port[Daemon] # p
            BY <1>3, <2>3 DEF TuningInv, ClashInv, Busy
        <3>2. phy'[p] = phy[p]
            BY <1>3, <3>1
        <3>3. QED
            BY <2>3, <3>2 DEF TuningInv, ClashInv
    <2>4. QED
        BY <2>1, <2>2, <2>3
<1>8. JobsInv'
    <2>1. jobs'[Daemon] \in Seq(TunedJobs)
        <3>1. <<>> \in Seq(TunedJobs)
            OBVIOUS
        <3>2. QED
            BY <1>2, <1>4, <3>1 DEF Touches
    <2>2. Trying(Daemon)' <=> jobs'[Daemon] # <<>>
        <3>1. Len(jobs[Daemon]) = 1 <=> Tail(jobs[Daemon]) = <<>>
            <4>1. Tail(jobs[Daemon]) = <<>> <=> Len(Tail(jobs[Daemon])) = 0
                BY <1>4, EmptySeq
            <4>2. QED
                BY <1>4, <4>1
        <3>2. QED
            BY <1>2, <3>1 DEF Touches, Trying
    <2>3. QED
        BY <1>1, <1>3, <2>1, <2>2 DEF TuningInv, JobsInv, Trying
<1>9. ToolKept'
    <2> SUFFICES ASSUME NEW p \in Ports, ~Busy(Tool, p), lastSet[p] # Unset, p \notin clash[Tool]
                 PROVE  phy'[p][Other] = lastSet[p]
        BY <1>1, <1>3 DEF ToolKept, Busy
    <2>1. phy[p][Other] = lastSet[p]
        BY DEF TuningInv, ToolKept
    <2>2. step[Daemon] = "commit" /\ port[Daemon] = p => cache[Daemon][Other] = phy[p][Other]
        BY DEF TuningInv, ClashInv
    <2>3. QED
        BY <1>3, <2>1, <2>2
<1>10. WatchInv'
    <2>1. MediumOf(cur)' = MediumOf(cur)
        BY <1>1 DEF MediumOf
    <2>2. QED
        BY <1>1, <2>1 DEF TuningInv, WatchInv, Applying
<1>11. SetInv'
    <2> SUFFICES ASSUME step'[Daemon] # "raised", cur \notin events, cur \notin untold
                 PROVE  SetInv'
        BY <1>1 DEF SetInv
    <2> DEFINE k == SetSoFar
    <2> DEFINE l == Len(jobs[Daemon])
    <2> DEFINE want == TuningData[Wanted]
    <2>1. Wanted' = Wanted
        BY <1>1 DEF Wanted
    <2>2. /\ Wanted \in DOMAIN TuningData /\ k \in 0 .. Len(Tuned)
          /\ \A n \in 1 .. l :
                jobs[Daemon][n] = [field |-> Tuned[k + n], value |-> want[k + n]]
          /\ dport \notin clash[Daemon] =>
                /\ \A n \in 1 .. k : phy[dport][Tuned[n]] = want[n]
                /\ step[Daemon] = "commit" => \A n \in 1 .. k + 1 : cache[Daemon][Tuned[n]] = want[n]
        <3>1. step[Daemon] # "raised"
            BY <1>2 DEF Trying
        <3>2. QED
            BY <1>1, <3>1 DEF TuningInv, SetInv
    <2>3. k = Len(Tuned) - l /\ l \in Nat /\ l > 0 /\ Len(Tuned) \in Nat
        BY <1>4, TuningFacts DEF SetSoFar
    <2> HIDE DEF k, l, want
    <2>4. ASSUME jobs'[Daemon] = jobs[Daemon],
                 dport \notin clash[Daemon] =>
                    /\ \A n \in 1 .. k : phy'[dport][Tuned[n]] = want[n]
                    /\ step'[Daemon] = "commit" =>
                          \A n \in 1 .. k + 1 : cache'[Daemon][Tuned[n]] = want[n]
          PROVE  SetInv'
        <3>1. SetSoFar' = k
            BY <2>4 DEF SetSoFar, k
        <3>2. QED
            BY <1>1, <1>3, <2>1, <2>2, <2>4, <3>1 DEF SetInv, want, l
    <2>5. CASE step[Daemon] = "look" /\ step'[Daemon] = "refresh" /\ jobs'[Daemon] = jobs[Daemon]
               /\ UNCHANGED phy
        BY <2>2, <2>4, <2>5
    <2>6. CASE step[Daemon] = "refresh" /\ step'[Daemon] = "commit" /\ jobs'[Daemon] = jobs[Daemon]
               /\ cache'[Daemon] = [phy[port[Daemon]] EXCEPT ![Head(jobs[Daemon]).field] = Head(jobs[Daemon]).value]
               /\ UNCHANGED phy
        <3>1. 1 \in 1 .. l /\ k + 1 \in 1 .. Len(Tuned)
            BY <2>2, <2>3
        <3>2. Head(jobs[Daemon]).field = Tuned[k + 1] /\ Head(jobs[Daemon]).value = want[k + 1]
            <4>1. jobs[Daemon][1] = [field |-> Tuned[k + 1], value |-> want[k + 1]]
                BY <2>2, <3>1
            <4>2. Head(jobs[Daemon]) = jobs[Daemon][1]
                BY <1>4
            <4>3. QED
                BY <4>1, <4>2
        <3>3. ASSUME dport \notin clash[Daemon], NEW n \in 1 .. k + 1
              PROVE  cache'[Daemon][Tuned[n]] = want[n]
            <4>1. n \in 1 .. Len(Tuned) /\ Tuned[n] \in Fields
                BY <2>2, <2>3, <3>1, TuningFacts
            <4>2. cache'[Daemon][Tuned[n]] = IF Tuned[n] = Tuned[k + 1] THEN want[k + 1] ELSE phy[dport][Tuned[n]]
                BY <1>3, <1>5, <2>6, <3>2, <4>1
            <4>3. CASE n = k + 1
                BY <4>2, <4>3
            <4>4. CASE n # k + 1
                <5>1. Tuned[n] # Tuned[k + 1] /\ n \in 1 .. k
                    BY <2>2, <2>3, <3>1, <4>1, <4>4, TuningFacts
                <5>2. QED
                    BY <2>2, <3>3, <4>2, <5>1
            <4>5. QED
                BY <4>3, <4>4
        <3>4. QED
            BY <2>2, <2>4, <2>6, <3>3
    <2>7. CASE step[Daemon] = "commit" /\ cache'[Daemon] = cache[Daemon]
               /\ phy'[port[Daemon]] = cache[Daemon] /\ jobs'[Daemon] = Tail(jobs[Daemon])
               /\ step'[Daemon] = IF Len(jobs[Daemon]) = 1 THEN "idle" ELSE "look"
        <3>1. SetSoFar' = k + 1 /\ k + 1 \in 0 .. Len(Tuned) /\ Len(jobs'[Daemon]) = l - 1
            <4>1. Len(jobs'[Daemon]) = l - 1
                BY <1>4, <2>7 DEF l
            <4>2. SetSoFar' = Len(Tuned) - Len(jobs'[Daemon])
                BY DEF SetSoFar
            <4>3. QED
                BY <2>2, <2>3, <4>1, <4>2
        <3>2. ASSUME NEW n \in 1 .. l - 1
              PROVE  jobs'[Daemon][n] = [field |-> Tuned[k + 1 + n], value |-> want[k + 1 + n]]
            <4>1. n + 1 \in 1 .. l /\ k + (n + 1) = k + 1 + n
                BY <2>2, <2>3
            <4>2. jobs'[Daemon][n] = jobs[Daemon][n + 1]
                BY <1>4, <2>7 DEF l
            <4>3. jobs[Daemon][n + 1] = [field |-> Tuned[k + (n + 1)], value |-> want[k + (n + 1)]]
                BY <2>2, <4>1
            <4>4. QED
                BY <4>1, <4>2, <4>3
        <3>3. dport \notin clash[Daemon] => \A n \in 1 .. k + 1 : phy'[dport][Tuned[n]] = want[n]
            BY <1>3, <2>2, <2>7
        <3>4. step'[Daemon] # "commit"
            BY <2>7
        <3>5. QED
            BY <1>1, <1>3, <2>1, <2>2, <3>1, <3>2, <3>3, <3>4 DEF SetInv, want
    <2>8. CASE cache'[Daemon] = cache[Daemon] /\ step'[Daemon] = step[Daemon]
               /\ jobs'[Daemon] = jobs[Daemon]
        <3>1. \A n \in 1 .. k : n \in 1 .. k + 1
            BY <2>2
        <3>2. dport \notin clash[Daemon] => \A n \in 1 .. k : phy'[dport][Tuned[n]] = want[n]
            BY <1>3, <2>2, <3>1
        <3>3. QED
            BY <2>2, <2>4, <2>8, <3>2
    <2>9. QED
        BY <1>2, <2>5, <2>6, <2>7, <2>8 DEF Touches
<1>12. TunedInv'
    <2> SUFFICES ASSUME NEW i \in Intfs, i # cur, told[i] = "tuned", i \notin events,
                        i \notin untold, source[i] \notin clash[Daemon]
                 PROVE  AsTuned(i)'
        BY <1>1, <1>3 DEF TunedInv, Untroubled, Applying
    <2>1. AsTuned(i) /\ source[i] # dport
        BY <1>1 DEF TuningInv, TunedInv, WatchInv, Untroubled
    <2>2. MediumOf(i)' = MediumOf(i)
        BY <1>1 DEF MediumOf
    <2>3. source[i] \in Ports => phy'[source[i]] = phy[source[i]]
        BY <1>3, <2>1
    <2>4. QED
        BY <1>1, <2>1, <2>2, <2>3 DEF AsTuned
<1>13. QED
    BY <1>6, <1>7, <1>8, <1>9, <1>10, <1>11, <1>12 DEF TuningInv
-----------------------------------------------------------------------------
(* The tool.                                                               *)

\* What the tool does leaves the daemon as it is: it keeps its claims if the tuned fields of
\* the records that nobody else overlapped stay.
LEMMA AroundKept ==
    ASSUME TuningInv, UNCHANGED <<envVars, ownVars, untold>>,
           step'[Daemon] = step[Daemon], jobs'[Daemon] = jobs[Daemon],
           cache'[Daemon] = cache[Daemon], clash[Daemon] \subseteq clash'[Daemon],
           \A p \in Ports \ clash'[Daemon] : \A f \in TunedFields : phy'[p][f] = phy[p][f]
    PROVE  WatchInv' /\ SetInv' /\ TunedInv'
<1>1. /\ UNCHANGED <<speed, medium, source, events, untold>>
      /\ UNCHANGED <<dpc, initial, todo, cur, dport, dmedium, fphy, told>>
    BY DEF envVars, ownVars
<1>2. \A i \in Intfs : MediumOf(i)' = MediumOf(i)
    BY <1>1 DEF MediumOf
<1>3. WatchInv'
    <2>1. MediumOf(cur)' = MediumOf(cur)
        BY <1>1 DEF MediumOf
    <2>2. QED
        BY <1>1, <2>1 DEF TuningInv, WatchInv, Applying
<1>4. SetInv'
    <2> SUFFICES ASSUME dpc = "set", step[Daemon] # "raised", cur \notin events, cur \notin untold
                 PROVE  SetInv'
        BY <1>1 DEF SetInv
    <2>1. Wanted' = Wanted /\ SetSoFar' = SetSoFar
        BY <1>1 DEF Wanted, SetSoFar
    <2>2. /\ Wanted \in DOMAIN TuningData
          /\ SetSoFar \in 0 .. Len(Tuned)
          /\ \A n \in 1 .. Len(jobs[Daemon]) :
                jobs[Daemon][n] = [field |-> Tuned[SetSoFar + n],
                                   value |-> TuningData[Wanted][SetSoFar + n]]
          /\ dport \notin clash[Daemon] =>
                /\ \A n \in 1 .. SetSoFar : phy[dport][Tuned[n]] = TuningData[Wanted][n]
                /\ step[Daemon] = "commit" =>
                      \A n \in 1 .. SetSoFar + 1 : cache[Daemon][Tuned[n]] = TuningData[Wanted][n]
        BY DEF TuningInv, SetInv
    <2>3. dport \notin clash'[Daemon] =>
              \A n \in 1 .. SetSoFar : phy'[dport][Tuned[n]] = TuningData[Wanted][n]
        <3>1. dport \in Ports
            BY DEF TuningInv, TuningType
        <3>2. \A n \in 1 .. SetSoFar : Tuned[n] \in TunedFields
            BY <2>2, TuningFacts
        <3>3. QED
            BY <2>2, <3>1, <3>2
    <2>4. QED
        BY <1>1, <2>1, <2>2, <2>3 DEF SetInv
<1>5. TunedInv'
    <2> SUFFICES ASSUME NEW i \in Intfs, ~(Applying /\ i = cur), told[i] = "tuned",
                        i \notin events, i \notin untold, source[i] \notin clash'[Daemon]
                 PROVE  AsTuned(i)'
        BY <1>1 DEF TunedInv, Untroubled, Applying
    <2>1. AsTuned(i)
        BY DEF TuningInv, TunedInv, Untroubled
    <2>2. \A n \in 1 .. Len(Tuned) : phy'[source[i]][Tuned[n]] = phy[source[i]][Tuned[n]]
        BY <2>1, TuningFacts DEF AsTuned
    <2>3. QED
        BY <1>1, <1>2, <2>1, <2>2 DEF AsTuned
<1>6. QED
    BY <1>3, <1>4, <1>5

\* The types stay when the tool does something.
LEMMA ToolType ==
    ASSUME TuningType, PhyType', UNCHANGED <<envVars, ownVars, untold>>,
           lastSet' \in [Ports -> FieldValues \cup {Unset}], changes' = changes \/ Change
    PROVE  TuningType'
<1>1. changes' \in 0 .. Changes
    <2>1. Changes \in Nat
        BY TuningAssumption
    <2>2. QED
        BY <2>1 DEF Change, TuningType
<1>2. /\ UNCHANGED <<speed, medium, source, events, untold>>
      /\ UNCHANGED <<dpc, initial, todo, cur, dport, dmedium, fphy, told>>
    BY DEF envVars, ownVars
<1>3. QED
    BY <1>1, <1>2 DEF TuningType

\* A transaction of the tool keeps the tuned fields, and sets the tool's.
LEMMA ToolStepKept ==
    ASSUME TuningInv, ToolStep
    PROVE  TuningInv'
<1>1. UNCHANGED <<envVars, ownVars, untold, lastSet, changes>> /\ UNCHANGED <<dpc, dport>>
    BY DEF ToolStep, ownVars
<1>2. PhyType' /\ Touches(Tool) /\ Trying(Tool)
      /\ jobs[Tool] = <<[field |-> Other, value |-> lastSet[port[Tool]]]>>
    <2>1. Trying(Tool)
        BY DEF ToolStep, Transaction, Look, Refresh, Commit, Fail, Trying
    <2>2. jobs[Tool] = <<[field |-> Other, value |-> lastSet[port[Tool]]]>> /\ TuningType
        BY <2>1 DEF TuningInv, JobsInv
    <2>3. jobs[Tool] # <<>>
        BY <2>2
    <2>4. QED
        BY <2>1, <2>2, <2>3, TuningFacts, TransactionTouches DEF ToolStep
<1>3. /\ UNCHANGED <<port, clash>> /\ Daemon \in Procs \ {Tool}
      /\ step'[Daemon] = step[Daemon] /\ jobs'[Daemon] = jobs[Daemon] /\ cache'[Daemon] = cache[Daemon]
      /\ \A p \in Ports : phy'[p] = phy[p] \/ (step[Tool] = "commit" /\ port[Tool] = p /\ phy'[p] = cache[Tool])
      /\ step[Tool] # "idle" /\ port[Tool] \in Ports
    BY <1>2, TuningFacts DEF Touches, Trying, TuningInv, TuningType, PhyType
<1>4. /\ Head(jobs[Tool]).field = Other /\ Head(jobs[Tool]).value = lastSet[port[Tool]]
      /\ Len(jobs[Tool]) = 1
    BY <1>2
<1>5. /\ \A p \in Ports : phy[p] \in [Fields -> FieldValues]
      /\ cache[Tool] \in [Fields -> FieldValues]
    BY TuningFacts DEF TuningInv, TuningType, PhyType, Record
<1>6. \A p \in Ports \ clash[Daemon] : \A f \in TunedFields : phy'[p][f] = phy[p][f]
    BY <1>3 DEF TuningInv, ClashInv
<1>7. WatchInv' /\ SetInv' /\ TunedInv'
    BY <1>1, <1>3, <1>6, AroundKept
<1>8. TuningType'
    BY <1>1, <1>2, ToolType DEF TuningInv, TuningType
<1>9. ClashInv'
    <2> SUFFICES ASSUME NEW p \in Ports
                 PROVE  /\ Busy(Tool, p)' /\ Busy(Daemon, p)' => p \in clash[Tool] /\ p \in clash[Daemon]
                        /\ step[Daemon] = "commit" /\ port[Daemon] = p /\ p \notin clash[Tool] =>
                              cache[Daemon][Other] = phy'[p][Other]
                        /\ step'[Tool] = "commit" /\ port[Tool] = p /\ p \notin clash[Daemon] =>
                              \A f \in TunedFields : cache'[Tool][f] = phy'[p][f]
        BY <1>3 DEF ClashInv
    <2>1. Busy(Tool, p)' /\ Busy(Daemon, p)' => p \in clash[Tool] /\ p \in clash[Daemon]
        BY <1>3 DEF TuningInv, ClashInv, Busy
    <2>2. ASSUME step[Daemon] = "commit", port[Daemon] = p, p \notin clash[Tool]
          PROVE  cache[Daemon][Other] = phy'[p][Other]
        <3>1. port[Tool] # p
            BY <1>3, <2>2 DEF TuningInv, ClashInv, Busy
        <3>2. phy'[p] = phy[p]
            BY <1>3, <3>1
        <3>3. QED
            BY <2>2, <3>2 DEF TuningInv, ClashInv
    <2>3. ASSUME step'[Tool] = "commit", port[Tool] = p, p \notin clash[Daemon], NEW f \in TunedFields
          PROVE  cache'[Tool][f] = phy'[p][f]
        <3>1. \/ /\ cache'[Tool] = [phy[p] EXCEPT ![Other] = lastSet[p]]
                 /\ UNCHANGED phy
              \/ cache'[Tool] = cache[Tool] /\ step[Tool] = "commit"
            BY <1>2, <1>4, <2>3 DEF Touches
        <3>2. f \in Fields /\ f # Other
            BY TuningFacts
        <3>3. CASE cache'[Tool] = [phy[p] EXCEPT ![Other] = lastSet[p]] /\ UNCHANGED phy
            BY <1>5, <3>2, <3>3
        <3>4. CASE cache'[Tool] = cache[Tool] /\ step[Tool] = "commit"
            <4>1. cache[Tool][f] = phy[p][f]
                BY <2>3, <3>4 DEF TuningInv, ClashInv
            <4>2. QED
                BY <1>3, <3>4, <4>1
        <3>5. QED
            BY <3>1, <3>3, <3>4
    <2>4. QED
        BY <2>1, <2>2, <2>3
<1>10. JobsInv'
    <2>1. Trying(Tool)' => jobs'[Tool] = jobs[Tool]
        BY <1>2, <1>4 DEF Touches, Trying
    <2>2. step'[Tool] = "commit" => cache'[Tool][Other] = lastSet[port[Tool]]
        <3>1. CASE step[Tool] = "refresh"
            <4>1. step'[Tool] = "commit" =>
                      cache'[Tool] = [phy[port[Tool]] EXCEPT ![Other] = lastSet[port[Tool]]]
                BY <1>2, <1>4, <3>1 DEF Touches
            <4>2. QED
                BY <1>3, <1>5, <4>1, TuningFacts
        <3>2. CASE step[Tool] # "refresh"
            BY <1>2, <3>2 DEF Touches, TuningInv, JobsInv
        <3>3. QED
            BY <3>1, <3>2
    <2>3. lastSet' = lastSet
        BY <1>1
    <2>4. QED
        BY <1>1, <1>2, <1>3, <2>1, <2>2, <2>3 DEF TuningInv, JobsInv, Trying
<1>11. ToolKept'
    <2> SUFFICES ASSUME NEW p \in Ports, ~Busy(Tool, p)', lastSet[p] # Unset, p \notin clash[Tool]
                 PROVE  phy'[p][Other] = lastSet[p]
        BY <1>1, <1>3 DEF ToolKept
    <2>1. CASE port[Tool] = p
        <3>1. step'[Tool] = "idle"
            BY <1>3, <2>1 DEF Busy
        <3>2. step[Tool] = "commit" /\ phy'[p] = cache[Tool]
            BY <1>2, <1>3, <2>1, <3>1 DEF Touches, Trying
        <3>3. QED
            BY <2>1, <3>2 DEF TuningInv, JobsInv
    <2>2. CASE port[Tool] # p
        <3>1. phy'[p] = phy[p]
            BY <1>3, <2>2
        <3>2. QED
            BY <2>2, <3>1 DEF TuningInv, ToolKept, Busy
    <2>3. QED
        BY <2>1, <2>2
<1>12. QED
    BY <1>7, <1>8, <1>9, <1>10, <1>11 DEF TuningInv

\* The tool starts to set its field.
LEMMA ToolSetKept ==
    ASSUME TuningInv, NEW p \in Ports, NEW v \in FieldValues, ToolSet(p, v)
    PROVE  TuningInv'
<1> DEFINE list == <<[field |-> Other, value |-> v]>>
<1>1. /\ step[Tool] = "idle" /\ Change /\ Assign(Tool, p, list)
      /\ lastSet' = [lastSet EXCEPT ![p] = v] /\ UNCHANGED <<envVars, ownVars, untold>>
      /\ UNCHANGED <<dpc, dport>>
    BY DEF ToolSet, ownVars
<1>2. list \in Seq(Assignment)
    BY TuningFacts DEF Assignment
<1>3. /\ PhyType' /\ UNCHANGED <<phy, cache>>
      /\ step' = [step EXCEPT ![Tool] = "look"] /\ port' = [port EXCEPT ![Tool] = p]
      /\ jobs' = [jobs EXCEPT ![Tool] = list]
      /\ Busy(Daemon, p) => clash'[Tool] = clash[Tool] \cup {p} /\ clash'[Daemon] = clash[Daemon] \cup {p}
      /\ ~Busy(Daemon, p) => clash'[Tool] = clash[Tool] \ {p} /\ clash'[Daemon] = clash[Daemon]
    <2>1. Tool \in Procs /\ Procs = {Tool, Daemon} /\ Tool # Daemon
        BY TuningFacts
    <2> HIDE DEF list
    <2>2. Assign(Tool, p, list) /\ TuningType
        BY <1>1 DEF TuningInv
    <2>3. QED
        BY <1>2, <2>1, <2>2, AssignType
<1>4. /\ step'[Tool] = "look" /\ step'[Daemon] = step[Daemon]
      /\ port'[Tool] = p /\ port'[Daemon] = port[Daemon]
      /\ jobs'[Tool] = list /\ jobs'[Daemon] = jobs[Daemon]
    BY <1>3, TuningFacts DEF TuningInv, TuningType, PhyType
<1>5. lastSet \in [Ports -> FieldValues \cup {Unset}] /\ lastSet' \in [Ports -> FieldValues \cup {Unset}]
    BY <1>1 DEF TuningInv, TuningType
<1>6. TuningType'
    BY <1>1, <1>3, <1>5, ToolType DEF TuningInv
<1>7. WatchInv' /\ SetInv' /\ TunedInv'
    BY <1>1, <1>3, <1>4, AroundKept
<1>8. ClashInv'
    BY <1>1, <1>3, <1>4 DEF TuningInv, ClashInv, Busy
<1>9. JobsInv'
    BY <1>1, <1>3, <1>4, <1>5 DEF TuningInv, JobsInv, Trying
<1>10. ToolKept'
    BY <1>1, <1>3, <1>4, <1>5 DEF TuningInv, ToolKept, Busy
<1>11. QED
    BY <1>6, <1>7, <1>8, <1>9, <1>10 DEF TuningInv

\* The tool ends; what it was setting is not set.
LEMMA ToolEndsKept ==
    ASSUME TuningInv, ToolEnds
    PROVE  TuningInv'
<1>1. /\ step[Tool] # "idle" /\ Leave(Tool)
      /\ lastSet' = [lastSet EXCEPT ![port[Tool]] = Unset]
      /\ UNCHANGED <<envVars, ownVars, untold, changes>> /\ UNCHANGED <<dpc, dport>>
    BY DEF ToolEnds, ownVars
<1>2. /\ PhyType' /\ UNCHANGED <<phy, port, cache, clash>>
      /\ step' = [step EXCEPT ![Tool] = "idle"] /\ jobs' = [jobs EXCEPT ![Tool] = <<>>]
    BY <1>1, TuningFacts, LeaveType DEF TuningInv
<1>3. /\ step'[Tool] = "idle" /\ step'[Daemon] = step[Daemon]
      /\ jobs'[Tool] = <<>> /\ jobs'[Daemon] = jobs[Daemon]
    BY <1>2, TuningFacts DEF TuningInv, TuningType, PhyType
<1>4. lastSet \in [Ports -> FieldValues \cup {Unset}] /\ lastSet' \in [Ports -> FieldValues \cup {Unset}]
      /\ port[Tool] \in Ports
    BY <1>1, TuningFacts DEF TuningInv, TuningType, PhyType
<1>5. TuningType'
    BY <1>1, <1>2, <1>4, ToolType DEF TuningInv
<1>6. WatchInv' /\ SetInv' /\ TunedInv'
    BY <1>1, <1>2, <1>3, AroundKept
<1>7. ClashInv'
    BY <1>2, <1>3 DEF TuningInv, ClashInv, Busy
<1>8. JobsInv'
    BY <1>1, <1>2, <1>3 DEF TuningInv, JobsInv, Trying
<1>9. ToolKept'
    BY <1>1, <1>2, <1>3, <1>4 DEF TuningInv, ToolKept, Busy
<1>10. QED
    BY <1>5, <1>6, <1>7, <1>8, <1>9 DEF TuningInv

\* Every step keeps the invariant.
LEMMA TuningInvKept == TuningInv /\ [TuningNext]_tuningVars => TuningInv'
<1> SUFFICES ASSUME TuningInv, [TuningNext]_tuningVars PROVE TuningInv'
    OBVIOUS
<1>1. CASE UNCHANGED tuningVars
    <2>1. News
        BY <1>1 DEF News, tuningVars, envVars
    <2>2. TuningType'
        BY <1>1 DEF TuningInv, TuningType, PhyType, tuningVars, phyVars, envVars, ownVars
    <2>3. QED
        BY <2>1, <2>2, NewsKept
<1>2. CASE DaemonStep
    BY <1>2, BeginKept, ApplyKept, ReadKept, ReadSpeedKept, SetStepKept, SetDoneKept DEF DaemonStep
<1>3. CASE Disable
    BY <1>3, BeginKept
<1>4. CASE EnvStep
    <2>1. CASE Crash
        BY <2>1, CrashKept
    <2>2. CASE ~Crash
        BY <1>4, <2>2, ChangesAreNews, NewsKept DEF EnvStep, TuningInv
    <2>3. QED
        BY <2>1, <2>2
<1>5. CASE ToolNext
    BY <1>5, ToolStepKept, ToolSetKept, ToolEndsKept DEF ToolNext
<1>6. QED
    BY <1>1, <1>2, <1>3, <1>4, <1>5 DEF TuningNext

\* The inductive invariant of a daemon that tunes and a tool at the same PHY records.
THEOREM TuningInvariant == TuningSpec => []TuningInv
    BY TuningInitInv, TuningInvKept, PTL DEF TuningSpec

\* An interface the daemon says it tuned, and has no news of, is tuned for the speed and
\* medium it has (_apply_tuning), for any interfaces, ports, speeds and tunings, and any
\* number of changes, failures and deaths.
THEOREM TunedWhenQuietHolds == TuningSpec => []TunedWhenQuiet
<1>1. TuningInv => TunedWhenQuiet
    BY DEF TuningInv, TunedInv, TunedWhenQuiet, Applying
<1>2. QED
    BY <1>1, TuningInvariant, PTL

\* What the tool set in a port's record stays, whatever the daemon tunes and however often
\* its transactions fail (PhyConfig.__setattr__), unless both changed it at one time.
THEOREM ToolKeptHolds == TuningSpec => []ToolKept
<1>1. TuningInv => ToolKept
    BY DEF TuningInv
<1>2. QED
    BY <1>1, TuningInvariant, PTL
=============================================================================
