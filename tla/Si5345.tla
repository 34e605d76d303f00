------------------------------- MODULE Si5345 -------------------------------
(***************************************************************************)
(* Loading a profile into the Si5345 clock generator: Si5345.load_config   *)
(* and the wait for device_ready in ClockGenerator.load_profile            *)
(* (clock_generator.py).                                                   *)
(*                                                                         *)
(* The chip has 256 registers in view; which ones, its page register says. *)
(* An access with a page (_paged) is therefore four steps: grab the I2C    *)
(* device, select the page, read or write, release the device.  Several    *)
(* processes load profiles, bus transfers fail, and a process can die      *)
(* between any two steps; the kernel then frees the device.  This is the   *)
(* chip behind hal.i2c, where the device can be grabbed.                   *)
(***************************************************************************)
EXTENDS Naturals, Sequences

CONSTANTS
    Procs,       \* the processes that load profiles
    Profiles,    \* the profiles, files of lines
    Pages,       \* the pages of the chip, 0 among them
    Addresses,   \* the addresses of registers on a page
    Values,      \* what a register can hold
    Reset,       \* ... and what each holds at first
    Comment,     \* a line that is not for a register
    Nobody,      \* not a process
    MaxLoads,    \* bound: the calls of load_profile
    MaxErrors    \* bound: the failed transfers and killed processes

Items == [page : Pages, address : Addresses, value : Values]

ASSUME PagesAssumption == 0 \in Pages
ASSUME ProfilesAssumption == Profiles \subseteq Seq(Items \cup {Comment})
ASSUME CommentAssumption == Comment \notin Items
ASSUME ValuesAssumption == Reset \in Values
ASSUME NobodyAssumption == Nobody \notin Procs
ASSUME BoundsAssumption == MaxLoads \in Nat /\ MaxErrors \in Nat

VARIABLES
    page,      \* the chip's page register
    regs,      \* its other registers, by page and address
    ready,     \* register 0xFE of page 0 reads 0x0F
    holder,    \* who has grabbed the I2C device
    at,        \* where each process is
    profile,   \* the profile it loads
    next,      \* the item it is at; behind the last one, it polls 0xFE
    error,     \* an exception is on its way out of the current access
    told,      \* the outcome of the last load_profile, "waiting" after a poll in vain
    alone,     \* history: no other process has touched the chip since that call
    loads, errors   \* what MaxLoads and MaxErrors bound

chip == <<page, regs, ready>>
vars == <<page, regs, ready, holder, at, profile, next, error, told, alone, loads, errors>>

Register == Pages \X Addresses
Places   == {"idle", "grab", "select", "access", "release"}

TypeOK ==
    /\ page \in Pages
    /\ regs \in [Register -> Values]
    /\ ready \in BOOLEAN
    /\ holder \in Procs \cup {Nobody}
    /\ at \in [Procs -> Places]
    /\ profile \in [Procs -> Profiles \cup {<<>>}]
    /\ \A p \in Procs : next[p] \in 1 .. Len(profile[p]) + 1
    /\ error \in [Procs -> BOOLEAN]
    /\ told \in [Procs -> {"none", "waiting", "loaded", "failed"}]
    /\ alone \in [Procs -> BOOLEAN]
    /\ loads \in 0 .. MaxLoads /\ errors \in 0 .. MaxErrors

Init ==
    /\ page \in Pages
    /\ regs = [r \in Register |-> Reset]
    /\ ready = FALSE
    /\ holder = Nobody
    /\ at = [p \in Procs |-> "idle"]
    /\ profile = [p \in Procs |-> <<>>]
    /\ next = [p \in Procs |-> 1]
    /\ error = [p \in Procs |-> FALSE]
    /\ told = [p \in Procs |-> "none"]
    /\ alone = [p \in Procs |-> FALSE]
    /\ loads = 0 /\ errors = 0
-----------------------------------------------------------------------------
\* The lines with a register, in the order of the file: _reg_map_parser appends
\* those that match.
Parsed(s) ==
    LET kept[i \in 0 .. Len(s)] ==
            IF i = 0 THEN <<>>
            ELSE IF s[i] = Comment THEN kept[i - 1] ELSE Append(kept[i - 1], s[i])
    IN  kept[Len(s)]

Line(p) == Parsed(profile[p])[next[p]]

\* mutant: the last line is forgotten.
PollsEarly(p) == next[p] >= Len(Parsed(profile[p]))
\* Every line is written.
Polls(p) == next[p] > Len(Parsed(profile[p]))

\* The page an access is for: item[0][0:4], and 0 for device_ready.
Page(p) == IF Polls(p) THEN 0 ELSE Line(p).page

\* Whoever has called load_profile before, or calls it meanwhile, is not alone.
Load(p, s) ==
    /\ at[p] = "idle" /\ loads < MaxLoads
    /\ at' = [at EXCEPT ![p] = "grab"]
    /\ profile' = [profile EXCEPT ![p] = s]
    /\ next' = [next EXCEPT ![p] = 1]
    /\ told' = [told EXCEPT ![p] = "none"]
    /\ alone' = [q \in Procs |-> q = p /\ \A o \in Procs \ {p} : at[o] = "idle"]
    /\ loads' = loads + 1
    /\ UNCHANGED <<chip, holder, error, errors>>

\* mutant: the device is not grabbed.
GrabFree == TRUE
CanGrab == holder = Nobody

Grab(p) ==
    /\ at[p] = "grab" /\ CanGrab
    /\ holder' = p
    /\ at' = [at EXCEPT ![p] = "select"]
    /\ UNCHANGED <<chip, profile, next, error, told, alone, loads, errors>>

Select(p) ==
    /\ at[p] = "select"
    /\ page' = Page(p)
    /\ at' = [at EXCEPT ![p] = "access"]
    /\ UNCHANGED <<regs, ready, holder, profile, next, error, told, alone, loads, errors>>

\* A register is written on the page that is selected; the chip starts again to
\* lock to what it has been given.
Written(r, v) ==
    /\ regs' = [regs EXCEPT ![r] = v]
    /\ ready' = FALSE

WriteItem(p) == Written(<<page, Line(p).address>>, Line(p).value)

Write(p) ==
    /\ at[p] = "access" /\ ~Polls(p)
    /\ WriteItem(p)
    /\ next' = [next EXCEPT ![p] = @ + 1]
    /\ at' = [at EXCEPT ![p] = "release"]
    /\ UNCHANGED <<page, holder, profile, error, told, alone, loads, errors>>

\* Register 0xFE of another page holds something else.
Poll(p) ==
    /\ at[p] = "access" /\ Polls(p)
    /\ \E seen \in IF page = 0 THEN {ready} ELSE BOOLEAN :
          told' = [told EXCEPT ![p] = IF seen THEN "loaded" ELSE "waiting"]
    /\ at' = [at EXCEPT ![p] = "release"]
    /\ UNCHANGED <<chip, holder, profile, next, error, alone, loads, errors>>

\* mutant: released only after a good access.
StillHeld == "idle"
Finally == "release"

\* A transfer fails, having had its effect or not; the rest of the access is skipped.
Fail(p) ==
    /\ errors < MaxErrors
    /\ at[p] \in {"select", "access"}
    /\ \/ UNCHANGED chip
       \/ at[p] = "select" /\ page' = Page(p) /\ UNCHANGED <<regs, ready>>
       \/ at[p] = "access" /\ ~Polls(p) /\ WriteItem(p) /\ UNCHANGED page
    /\ error' = [error EXCEPT ![p] = TRUE]
    /\ at' = [at EXCEPT ![p] = Finally]
    /\ errors' = errors + 1
    /\ UNCHANGED <<holder, profile, next, told, alone, loads>>

\* The finally clause, and what follows: the exception leaves load_profile, a chip
\* that is ready ends it, and otherwise the next line or the next poll is due.
Release(p) ==
    /\ at[p] = "release"
    /\ holder' = Nobody
    /\ error' = [error EXCEPT ![p] = FALSE]
    /\ \/ /\ error[p]
          /\ at' = [at EXCEPT ![p] = "idle"]
          /\ told' = [told EXCEPT ![p] = "failed"]
       \/ /\ ~error[p] /\ told[p] = "loaded"
          /\ at' = [at EXCEPT ![p] = "idle"]
          /\ UNCHANGED told
       \/ /\ ~error[p] /\ told[p] # "loaded"
          /\ at' = [at EXCEPT ![p] = "grab"]
          /\ UNCHANGED told
    /\ UNCHANGED <<chip, profile, next, alone, loads, errors>>

\* load_profile raises TimeoutError after a poll.
TimedOut(p) ==
    /\ at[p] = "grab" /\ told[p] = "waiting"
    /\ at' = [at EXCEPT ![p] = "idle"]
    /\ told' = [told EXCEPT ![p] = "failed"]
    /\ UNCHANGED <<chip, holder, profile, next, error, alone, loads, errors>>

\* The process is killed.
Crash(p) ==
    /\ at[p] # "idle" /\ errors < MaxErrors
    /\ at' = [at EXCEPT ![p] = "idle"]
    /\ error' = [error EXCEPT ![p] = FALSE]
    /\ told' = [told EXCEPT ![p] = "none"]
    /\ holder' = IF holder = p THEN Nobody ELSE holder
    /\ errors' = errors + 1
    /\ UNCHANGED <<chip, profile, next, alone, loads>>

\* The chip locks.
Lock ==
    /\ ~ready /\ ready' = TRUE
    /\ UNCHANGED <<page, regs, holder, at, profile, next, error, told, alone, loads, errors>>

Access(p) == Select(p) \/ Write(p) \/ Poll(p) \/ Release(p)

Next ==
    \/ Lock
    \/ \E p \in Procs :
          \/ \E s \in Profiles : Load(p, s)
          \/ Grab(p) \/ Access(p) \/ Fail(p) \/ TimedOut(p) \/ Crash(p)

Spec == Init /\ [][Next]_vars
-----------------------------------------------------------------------------
(* Properties                                                              *)

\* The lines of a profile for a register.
Lines(s, r) == {i \in 1 .. Len(s) : s[i] # Comment /\ r = <<s[i].page, s[i].address>>}

\* A register some profile has a line for.
Named == {r \in Register : \E s \in Profiles : Lines(s, r) # {}}

\* What r holds when a profile has been written line by line.
Loaded(s, r, old) ==
    IF Lines(s, r) = {} THEN old
    ELSE s[CHOOSE i \in Lines(s, r) : \A j \in Lines(s, r) : j <= i].value

\* A process has the device grabbed exactly while it is in an access: two never are,
\* and however an access ends (a failed transfer, a death) the device is free again.
OneHolder ==
    /\ TypeOK
    /\ \A p \in Procs : holder = p <=> at[p] \in {"select", "access", "release"}

\* A profile's bytes reach the registers it names and no other, although an address
\* alone does not say which register it is and other processes, failures and
\* deaths come between the selection of a page and the write.
NoStray == \A r \in Register \ Named : regs[r] = Reset

\* A load_profile that returned has put every line of the file into the chip.
ProfileLoaded ==
    \A p \in Procs : at[p] = "idle" /\ told[p] = "loaded" /\ alone[p] =>
        \A r \in Named : regs[r] = Loaded(profile[p], r, regs[r])
=============================================================================
