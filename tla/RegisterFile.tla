---------------------------- MODULE RegisterFile ----------------------------
(***************************************************************************)
(* Register files: what RegisterFile() builds from a CSV file, the compound*)
(* registers it adds (64-bit values and strings, register_file.py), their  *)
(* reads through an accessor (register_accessor.py), and the bursts of     *)
(* register_burst.py.                                                      *)
(*                                                                         *)
(* A CSV file is abstracted to a string of len registers name_0_3, name_4_7*)
(* and so on, the registers count_low and count_high of a counter, and     *)
(* whether they are in a node of their own or in the root.  The class of a *)
(* root is shared by all register files, that of a node is its own.        *)
(*                                                                         *)
(* External: the FPGA; hal.i2c, whose grab() counts in locked and which can*)
(* fail; Ctrl-C in a CLI session.                                          *)
(***************************************************************************)
EXTENDS Naturals, Sequences

CONSTANTS
    Word,      \* the values of a register, 2^32 in the code
    MaxCount,  \* bound: what the counter has counted to by the end of a read
    MaxLen,    \* the longest string, in registers
    Objects,   \* the register files of a process
    Retries,   \* the tries of an access, Len(RETRIES)
    Addrs,     \* the addresses of a burst
    MaxBurst,  \* bound: the accesses of a burst
    None

ASSUME WordAssumption  == Word \in Nat \ {0, 1} /\ MaxCount \in Nat /\ MaxLen \in Nat
ASSUME TriesAssumption == Retries \in Nat \ {0, 1}
ASSUME AddrsAssumption == Addrs \subseteq Nat
ASSUME NoneAssumption  == None \notin [len : 0 .. MaxLen, low : BOOLEAN, high : BOOLEAN, nested : BOOLEAN]

Csvs == {csv \in [len : 0 .. MaxLen, low : BOOLEAN, high : BOOLEAN, nested : BOOLEAN] :
            csv.len > 0 \/ csv.low \/ csv.high}

VARIABLES
    kind,    \* what the process uses: MakoRegAccess, EosRegAccess, or bursts over that; or PCIe
    count,   \* hardware: the counter, during a read
    files,   \* the CSV file of each register file
    class,   \* the attributes of the class RootNode
    locked,  \* hal.i2c.Device.locked
    call,    \* the read of a compound that is going on
    last,    \* how the last one ended
    burst,   \* the transactions of a burst
    asked, lists,  \* what was added to it, and which of the values were given as lists
    sent     \* how the last call of it ended, and what it did

object == <<kind, files, class>>
bus    == <<burst, asked, lists, sent>>
vars   == <<object, count, locked, call, last, bus>>

Larger(m, n) == IF m > n THEN m ELSE n

NoClass == [len |-> 0, high |-> FALSE, str |-> 0, wide |-> FALSE]

\* mutant: the compounds are added in the loop that adds the registers
AddedEarly(c, csv) ==
    LET len  == Larger(c.len, csv.len)
        high == c.high \/ csv.high
    IN  [len |-> len, high |-> high,
         str  |-> IF csv.len > 0 THEN Larger(c.len, 1) ELSE c.str,
         wide |-> c.wide \/ (csv.low /\ c.high)]

\* A class after the registers of a file and then its compounds have been added to it:
\* the names the class has, whichever file they are from, make up the compounds.
Added(c, csv) ==
    LET len  == Larger(c.len, csv.len)
        high == c.high \/ csv.high
    IN  [len |-> len, high |-> high,
         str  |-> IF csv.len > 0 THEN len ELSE c.str,
         wide |-> c.wide \/ (csv.low /\ high)]

ClassOf(i) == IF files[i].nested THEN Added(NoClass, files[i]) ELSE class

\* The registers of a compound, in the order in which they are read
StringOf(n) == [k \in 1 .. n |-> k]

\* mutant: the halves are read the other way round
LowFirst == <<"low", "high">>

Wide == <<"high", "low">>

\* getattr() finds the register of the object itself.
Owns(i, what, r) ==
    IF what = "string" THEN r <= files[i].len
    ELSE IF r = "high" THEN files[i].high ELSE files[i].low

NoCall == [what |-> "none"]
NoBurst == [verdict |-> "none", did |-> <<>>]

TypeOK ==
    /\ kind \in {"mako", "eos", "burst", "pcie"} /\ count \in 0 .. MaxCount
    /\ files \in [Objects -> Csvs \cup {None}]
    /\ class \in [len : 0 .. MaxLen, high : BOOLEAN, str : 0 .. MaxLen, wide : BOOLEAN]
    /\ locked \in {0, 1}

Init ==
    /\ kind \in {"mako", "eos", "burst", "pcie"} /\ count = 0
    /\ files = [i \in Objects |-> None] /\ class = NoClass
    /\ locked = 0
    /\ call = NoCall /\ last = NoCall
    /\ burst = <<>> /\ asked = <<>> /\ lists = <<>> /\ sent = NoBurst
-----------------------------------------------------------------------------
(* Register files                                                          *)

\* RegisterFile(csvfile, accessor)
Construct(i, csv) ==
    /\ call = NoCall /\ kind \in {"mako", "eos"} /\ files[i] = None
    /\ files' = [files EXCEPT ![i] = csv]
    /\ class' = IF csv.nested THEN class ELSE Added(class, csv)
    /\ UNCHANGED <<kind, count, locked, call, last, bus>>

Begin(i, what, registers) ==
    /\ call = NoCall
    /\ registers # <<>>
    /\ count' \in 0 .. MaxCount
    /\ call' = [what |-> what, obj |-> i, left |-> registers, got |-> <<>>, from |-> count',
                at |-> "try", tries |-> 0, stuck |-> 0]
    /\ last' = NoCall
    /\ UNCHANGED <<object, locked, bus>>

ReadWide(i)   == files[i] # None /\ ClassOf(i).wide /\ Begin(i, "wide", Wide)
ReadString(i) == files[i] # None /\ Begin(i, "string", StringOf(ClassOf(i).str))
ReadOne(i, r) == files[i] # None /\ Owns(i, "one", r) /\ Begin(i, "one", <<r>>)

Ended(verdict) ==
    /\ last' = [what |-> call.what, obj |-> call.obj, verdict |-> verdict,
                got |-> call.got, from |-> call.from, to |-> count]
    /\ call' = NoCall /\ count' = 0

At(where) == call # NoCall /\ call.left # <<>> /\ call.at = where
Own == Owns(call.obj, call.what, Head(call.left))

NotOwned ==
    /\ At("try") /\ ~Own
    /\ Ended("attribute")
    /\ UNCHANGED <<object, locked, bus>>

Returns ==
    /\ call # NoCall /\ call.left = <<>>
    /\ Ended("value")
    /\ UNCHANGED <<object, locked, bus>>
-----------------------------------------------------------------------------
(* An access, tried again when it raises                                   *)

Value(r) == IF call.what = "string" THEN r
            ELSE IF r = "high" THEN count \div Word ELSE count % Word

Read == [call EXCEPT !.got = Append(@, Value(Head(call.left))), !.left = Tail(@), !.tries = 0]

\* Retryable
TryAgain(c) ==
    IF c.tries + 1 = Retries THEN Ended("gave up")
    ELSE call' = [c EXCEPT !.at = "try", !.tries = @ + 1] /\ UNCHANGED <<last, count>>

EosRead ==
    /\ kind = "eos" /\ At("try") /\ Own
    /\ \/ call' = Read /\ UNCHANGED <<last, count>>
       \/ TryAgain(call)
    /\ UNCHANGED <<object, locked, bus>>

\* MakoRegAccess.read_reg(): the lock is free and taken, ...
Grab ==
    /\ kind = "mako" /\ At("try") /\ Own /\ locked = 0
    /\ locked' = 1
    /\ call' = [call EXCEPT !.at = "held"]
    /\ UNCHANGED <<object, count, last, bus>>

\* mutant: the assertion is before the try
LockKept == 1

\* ... or the assertion fails, and the finally releases what another call had left.
LockAfter == 0

FoundLocked ==
    /\ kind = "mako" /\ At("try") /\ Own /\ locked = 1
    /\ locked' = LockAfter
    /\ TryAgain([call EXCEPT !.stuck = @ + 1])
    /\ UNCHANGED <<object, bus>>

Transfer ==
    /\ At("held")
    /\ call' \in {[Read EXCEPT !.at = "done", !.left = call.left], [call EXCEPT !.at = "failed"]}
    /\ UNCHANGED <<object, count, locked, last, bus>>

Release ==
    /\ locked' = 0
    /\ \/ At("done") /\ call' = [call EXCEPT !.at = "try", !.left = Tail(@)] /\ UNCHANGED <<last, count>>
       \/ At("failed") /\ TryAgain(call)
    /\ UNCHANGED <<object, bus>>

\* Ctrl-C.  Between two tries it ends the call.  In a try it releases the lock; but before the
\* lock is taken, the assertion of the finally raises in its place, which is tried again, and
\* in the finally the lock stays.
Interrupt ==
    /\ kind = "mako" /\ \E where \in {"try", "held", "done", "failed"} : At(where)
    /\ Own
    /\ \/ call.at = "try" /\ Ended("interrupted") /\ UNCHANGED locked
       \/ call.at = "try" /\ locked = 0 /\ TryAgain(call) /\ UNCHANGED locked
       \/ /\ call.at = "held" \/ (call.at = "try" /\ locked = 1)
          /\ Ended("interrupted") /\ locked' = 0
       \/ call.at \in {"done", "failed"} /\ Ended("interrupted") /\ UNCHANGED locked
    /\ UNCHANGED <<object, bus>>

Counts ==
    /\ call # NoCall /\ count < MaxCount
    /\ count' = count + 1
    /\ UNCHANGED <<object, locked, call, last, bus>>
-----------------------------------------------------------------------------
(* Bursts                                                                  *)

Front(s) == SubSeq(s, 1, Len(s) - 1)
Last(s)  == s[Len(s)]

\* mutant: reads are joined whatever their address
FollowsAny(t, a, reads) == t.reads > 0 /\ reads

\* _add_register(): an access that goes on where the last transaction ends
Follows(t, a, reads) ==
    IF reads THEN t.reads > 0 /\ t.addr + t.reads = a
    ELSE t.reads = 0 /\ t.list /\ t.addr + Len(t.vals) = a

\* The value of a write is a number, the default being 0, or a list of one, which is
\* what _submit_burst() takes.  len() of a number raises.
LenRaises(t, reads) == ~reads /\ t.reads = 0 /\ ~t.list

\* A number joined to a list is an element of it, a list a list in a list.
Joined(t, reads, v, list) ==
    IF reads THEN [t EXCEPT !.reads = @ + 1]
    ELSE [t EXCEPT !.vals = Append(@, [word |-> ~list, v |-> v])]

Alone(a, reads, v, list) ==
    [addr |-> a, reads |-> IF reads THEN 1 ELSE 0, list |-> list,
     vals |-> IF reads THEN <<>> ELSE <<[word |-> TRUE, v |-> v]>>]

AddRegister(a, reads, v, list) ==
    /\ kind = "burst" /\ Len(asked) < MaxBurst
    /\ burst # <<>> => ~LenRaises(Last(burst), reads)
    /\ asked' = Append(asked, [addr |-> a, reads |-> reads, v |-> IF reads THEN 0 ELSE v])
    /\ lists' = Append(lists, list)
    /\ burst' = IF burst # <<>> /\ Follows(Last(burst), a, reads)
                THEN Append(Front(burst), Joined(Last(burst), reads, v, list))
                ELSE Append(burst, Alone(a, reads, v, list))
    /\ sent' = NoBurst
    /\ UNCHANGED <<object, count, locked, call, last>>

\* TypeError, before anything is added.
AddRaises(reads) ==
    /\ kind = "burst"
    /\ burst # <<>> /\ LenRaises(Last(burst), reads)
    /\ sent' = [verdict |-> "refused", did |-> <<>>]
    /\ UNCHANGED <<object, count, locked, call, last, burst, asked, lists>>

\* What the device does for a transaction
Accesses(t) ==
    IF t.reads > 0 THEN [k \in 1 .. t.reads |-> [addr |-> t.addr + k - 1, reads |-> TRUE, v |-> 0]]
    ELSE [k \in 1 .. Len(t.vals) |-> [addr |-> t.addr + k - 1, reads |-> FALSE, v |-> t.vals[k].v]]

InOrder == LET all[n \in 0 .. Len(burst)] ==
                   IF n = 0 THEN <<>> ELSE all[n - 1] \o Accesses(burst[n])
           IN  all[Len(burst)]

\* Values are taken out of lists, and have to be numbers.
Fit(t) == t.reads > 0 \/ (t.list /\ \A k \in 1 .. Len(t.vals) : t.vals[k].word)

\* The bytes of all values are put together before the bus is used, where a failure
\* leaves some of the accesses made.  The burst stays as it is.
Submit ==
    /\ burst # <<>>
    /\ IF \A n \in 1 .. Len(burst) : Fit(burst[n])
       THEN \/ sent' = [verdict |-> "sent", did |-> InOrder]
            \/ \E n \in 0 .. Len(InOrder) : sent' = [verdict |-> "failed", did |-> SubSeq(InOrder, 1, n)]
       ELSE sent' = [verdict |-> "error", did |-> <<>>]
    /\ UNCHANGED <<object, count, locked, call, last, burst, asked, lists>>

\* _clear()
ClearBurst ==
    /\ kind = "burst"
    /\ burst' = <<>> /\ asked' = <<>> /\ lists' = <<>> /\ sent' = NoBurst
    /\ UNCHANGED <<object, count, locked, call, last>>
-----------------------------------------------------------------------------
Next ==
    \/ \E i \in Objects :
          \/ \E csv \in Csvs : Construct(i, csv)
          \/ ReadWide(i) \/ ReadString(i) \/ \E r \in {"high", "low"} : ReadOne(i, r)
    \/ NotOwned \/ Returns \/ EosRead
    \/ Grab \/ FoundLocked \/ Transfer \/ Release \/ Interrupt
    \/ Counts
    \/ \E a \in Addrs :
          \/ AddRegister(a, TRUE, 0, FALSE)
          \/ \E v \in {1, 2}, list \in BOOLEAN : AddRegister(a, FALSE, v, list)
    \/ AddRaises(FALSE) \/ Submit \/ ClearBurst

Spec == Init /\ [][Next]_vars
-----------------------------------------------------------------------------
(* Properties                                                              *)

Ok == last # NoCall /\ last.verdict = "value"

\* A 64-bit value that was read is one the counter had between the start and the end of the
\* read, unless its low half wrapped in between; then it is too small, by what the high
\* half counted since, and never more than the counter.
WideRead ==
    Ok /\ last.what = "wide" =>
        LET value == last.got[1] * Word + last.got[2] IN
        /\ last.from \div Word = last.to \div Word => value \in last.from .. last.to
        /\ value <= last.to

\* A string that was read is the whole string of its own file, in order, whatever other
\* register files the process has built; only with files that differ can a read of a
\* compound miss a register.
WholeString ==
    /\ Ok /\ last.what = "string" => last.got = StringOf(files[last.obj].len)
    /\ last # NoCall /\ last.verdict = "attribute" =>
           \E j \in Objects : files[j] # None /\ files[j] # files[last.obj]

\* The lock of the device is left taken by nothing but an interrupt in its release; that
\* costs a later access one try, and no more.
LockHeals ==
    /\ TypeOK
    /\ last # NoCall /\ last.verdict \in {"value", "gave up"} => locked = 0
    /\ call # NoCall => call.stuck <= 1 /\ (call.at \in {"held", "done", "failed"} => locked = 1)

\* The n-th access added writes to the register behind that of the write before it.
InARow(n) ==
    /\ n > 1
    /\ ~asked[n - 1].reads /\ ~asked[n].reads /\ asked[n].addr = asked[n - 1].addr + 1

\* A burst that is submitted makes the accesses that were added to it since it was cleared,
\* in their order, however it joined them; a failure of the bus cuts them off somewhere.
\* Or it raises and makes none: which takes a value given as a number where a write stands
\* alone, or as a list where it goes on.  An access is refused only behind a write
\* whose value was a number.
BurstAsAsked ==
    /\ sent.verdict = "sent" => sent.did = asked
    /\ sent.verdict = "failed" => \E n \in 0 .. Len(asked) : sent.did = SubSeq(asked, 1, n)
    /\ sent.verdict = "error" =>
           \E n \in 1 .. Len(asked) : ~asked[n].reads /\ (lists[n] <=> InARow(n))
    /\ sent.verdict = "refused" =>
           asked # <<>> /\ ~asked[Len(asked)].reads /\ ~lists[Len(asked)]
=============================================================================
