------------------------------ MODULE PhyConfig ------------------------------
(***************************************************************************)
(* The PHY records of an FPGA and how processes set fields of them:        *)
(* PhyConfig.__setattr__ (resources/libapp/sysctl.py) over Register.read   *)
(* and write with their retries (register_file.py) over the transactions   *)
(* of EosRegAccess (register_accessor.py, pl_smbus_burst.py).              *)
(*                                                                         *)
(* A field is set by a read-modify-write of its record: a read to see      *)
(* whether there is such a field (hasattr), a read of the record and a     *)
(* write of it.  A step is one transaction with the FPGA.  External: the   *)
(* SMBus daemon, which carries out a transaction as a whole, or fails,     *)
(* having carried it out or not.                                           *)
(***************************************************************************)
EXTENDS Naturals, Sequences

CONSTANTS
    Procs,        \* the processes that set fields
    Ports,        \* the ports; each has a record
    Fields,       \* the fields of a record
    FieldValues,  \* what a field can hold
    Reset,        \* ... and what each holds at first
    MaxTries      \* how often a transaction is tried: the length of Register.RETRIES

Record     == [Fields -> FieldValues]
Assignment == [field : Fields, value : FieldValues]

ASSUME PhyAssumption == Ports # {} /\ Reset \in FieldValues /\ MaxTries \in Nat \ {0}

VARIABLES
    phy,    \* the records
    step,   \* where each process is
    port,   \* the record it works on
    jobs,   \* the assignments it still has to do
    cache,  \* PhyConfig._phy_config
    tries,  \* the failed tries of the transaction that is due
    clash   \* history: the ports whose last assignments another process overlapped

phyVars == <<phy, step, port, jobs, cache, tries, clash>>

PhyType ==
    /\ phy \in [Ports -> Record]
    /\ step \in [Procs -> {"idle", "look", "refresh", "commit", "raised"}]
    /\ port \in [Procs -> Ports]
    /\ jobs \in [Procs -> Seq(Assignment)]
    /\ cache \in [Procs -> Record]
    /\ tries \in [Procs -> 0 .. MaxTries - 1]
    /\ clash \in [Procs -> SUBSET Ports]

Blank == [f \in Fields |-> Reset]

PhyInit ==
    /\ phy = [p \in Ports |-> Blank]
    /\ step = [q \in Procs |-> "idle"]
    /\ port = [q \in Procs |-> CHOOSE p \in Ports : TRUE]
    /\ jobs = [q \in Procs |-> <<>>]
    /\ cache = [q \in Procs |-> Blank]
    /\ tries = [q \in Procs |-> 0]
    /\ clash = [q \in Procs |-> {}]
-----------------------------------------------------------------------------
Busy(q, p) == step[q] # "idle" /\ port[q] = p

\* Process q starts on a list of assignments to port p's record.
Assign(q, p, list) ==
    /\ step' = [step EXCEPT ![q] = "look"]
    /\ port' = [port EXCEPT ![q] = p]
    /\ jobs' = [jobs EXCEPT ![q] = list]
    /\ clash' = [r \in Procs |->
          IF r = q THEN IF \E o \in Procs \ {q} : Busy(o, p)
                        THEN clash[q] \cup {p} ELSE clash[q] \ {p}
          ELSE IF Busy(r, p) THEN clash[r] \cup {p} ELSE clash[r]]
    /\ UNCHANGED <<phy, cache, tries>>

\* mutant: refresh() is left out, and the record that was written last is used
NotRead(q) == cache[q]

\* EosRegAccess.read_reg: the address and the data in one transaction.
ReadReg(q) == phy[port[q]]

\* EosRegAccess.write_reg
WriteReg(q) == phy' = [phy EXCEPT ![port[q]] = cache[q]]

Tried(q, next) ==
    /\ step' = [step EXCEPT ![q] = next]
    /\ tries' = [tries EXCEPT ![q] = 0]

\* hasattr(self, name) reads the record; its value does not matter.
Look(q) ==
    /\ step[q] = "look"
    /\ cache' = [cache EXCEPT ![q] = ReadReg(q)]
    /\ Tried(q, "refresh")
    /\ UNCHANGED <<phy, port, jobs, clash>>

\* refresh()
Refreshed(q) == ReadReg(q)

\* ... and setattr(self._phy_config, name, value)
Refresh(q) ==
    /\ step[q] = "refresh"
    /\ cache' = [cache EXCEPT ![q] =
                    [Refreshed(q) EXCEPT ![Head(jobs[q]).field] = Head(jobs[q]).value]]
    /\ Tried(q, "commit")
    /\ UNCHANGED <<phy, port, jobs, clash>>

\* commit(), and on to the next assignment.
Commit(q) ==
    /\ step[q] = "commit"
    /\ WriteReg(q)
    /\ jobs' = [jobs EXCEPT ![q] = Tail(@)]
    /\ Tried(q, IF Len(jobs[q]) = 1 THEN "idle" ELSE "look")
    /\ UNCHANGED <<port, cache, clash>>

\* A transaction fails.  It is tried again, or the exception leaves __setattr__ and
\* with it the list of assignments.
Fail(q) ==
    /\ step[q] \in {"look", "refresh", "commit"}
    /\ \/ UNCHANGED phy
       \/ step[q] = "commit" /\ WriteReg(q)
    /\ IF tries[q] + 1 < MaxTries
       THEN tries' = [tries EXCEPT ![q] = @ + 1] /\ UNCHANGED <<step, jobs>>
       ELSE /\ Tried(q, "raised")
            /\ jobs' = [jobs EXCEPT ![q] = <<>>]
    /\ UNCHANGED <<port, cache, clash>>

\* The process is through with an exception, or is killed.
Leave(q) ==
    /\ Tried(q, "idle")
    /\ jobs' = [jobs EXCEPT ![q] = <<>>]
    /\ UNCHANGED <<phy, port, cache, clash>>

Transaction(q) == Look(q) \/ Refresh(q) \/ Commit(q)
=============================================================================
