---------------------------- MODULE Pcie_proofs ----------------------------
(***************************************************************************)
(* Proofs about the package pcie and what programs an FPGA behind it.      *)
(*                                                                         *)
(* FpgaPcie, for every number of devices, set of images and number of      *)
(* attempts, and whatever fails: an FPGA is not reprogrammed under a device *)
(* the kernel has listed unless its removal failed, a device that was found *)
(* can be used, a rescan that nobody disturbs finds all, and the cached    *)
(* flag of a device tells the truth.                                       *)
(*                                                                         *)
(* MemRegion, for every size of a word and of a region and every set of    *)
(* calls whose transactions start at words: a call moves every byte, and   *)
(* no other, and touches each word once.                                   *)
(*                                                                         *)
(* PciConfig, for every header and every list of capabilities: an object   *)
(* is of the class of its device, and has the regions of its BARs.         *)
(***************************************************************************)
EXTENDS FpgaPcie, MemRegion, PciConfig, FiniteSetTheorems, SequenceTheorems,
        WellFoundedInduction, TLAPS

\* A set of natural numbers that is not empty has a least element.
LEMMA Least ==
    ASSUME NEW S \in SUBSET Nat, S # {}
    PROVE  \E n \in S : \A m \in S : n <= m
<1>1. IsWellFoundedOn(OpToRel(<, Nat), Nat)
    BY NatLessThanWellFounded
<1>2. PICK n \in S : \A m \in S : ~(<<m, n>> \in OpToRel(<, Nat))
    BY <1>1, WFMin
<1>3. \A m \in S : ~(m < n)
    BY <1>2 DEF OpToRel
<1>4. QED
    BY <1>3
-----------------------------------------------------------------------------
(* The bus and the process that programs the FPGA.                         *)

\* The bridge is none of the devices behind it.
LEMMA BdfFacts ==
    /\ Bridge \notin Slots /\ Bridge \in Bdfs /\ Slots \subseteq Bdfs
    /\ Slots \subseteq Nat
    /\ Blank \in [Slots -> {"none", "pcie", "pci"}]
    BY HotplugAssumption DEF Bridge, Slots, Bdfs, Blank

\* A rescan lists devices and a driver sets them up.
LEMMA RescanType ==
    ASSUME HotplugType, OsRescan
    PROVE  listed' \in SUBSET Bdfs /\ command' \in [Slots -> Byte]
<1>1. Present \subseteq Slots
    BY DEF Present
<1>2. PICK D \in SUBSET (Present \ listed), c \in Commands :
         command' = [s \in Slots |-> IF s \in D THEN c ELSE command[s]]
    BY DEF OsRescan
<1>3. command' \in [Slots -> Byte]
    BY <1>2, HotplugAssumption DEF HotplugType
<1>4. QED
    BY <1>1, <1>3, BdfFacts DEF OsRescan, HotplugType

\* A removal unlists a device, and nothing else that is not on the bus.
LEMMA RemoveType ==
    ASSUME HotplugType, \/ RemoveBridge \/ UNCHANGED listed
                        \/ \E b \in Bdfs : OsRemove(b)
    PROVE  listed' \in SUBSET Bdfs
    BY DEF HotplugType, RemoveBridge, OsRemove

\* What is listed first is listed.
LEMMA FirstListedFacts ==
    ASSUME listed \cap Slots # {}
    PROVE  FirstListed \in listed \cap Slots
<1>1. \E s \in listed \cap Slots : \A r \in listed \cap Slots : s <= r
    BY Least, BdfFacts
<1>2. QED
    BY <1>1 DEF FirstListed

\* The places of the process that programs the FPGA, and what it keeps, have their types.
LEMMA HotplugTypeKept ==
    ASSUME HotplugType, HotplugNext
    PROVE  HotplugType'
<1> USE HotplugAssumption
<1>1. CASE Load \/ Unload
    BY <1>1, BdfFacts DEF Load, Unload, HotplugType, busVars
<1>2. CASE PreRescan \/ ClearRescan \/ RescanAgain \/ LastRescan
    <2>1. OsRescan
        BY <1>2 DEF PreRescan, ClearRescan, RescanAgain, LastRescan
    <2>2. QED
        BY <1>2, <2>1, RescanType
        DEF PreRescan, ClearRescan, RescanAgain, LastRescan, HotplugType
<1>3. CASE PreRemove \/ Drop \/ ClearRemove \/ DropAgain
    <2>1. RemoveBridge \/ UNCHANGED listed
        BY <1>3 DEF PreRemove, Drop, ClearRemove, DropAgain, PassedOver
    <2>2. listed' \in SUBSET Bdfs
        BY <2>1, RemoveType
    <2>3. cached' \in BOOLEAN
        BY <1>3 DEF PreRemove, Drop, ClearRemove, DropAgain, HotplugType
    <2>4. slipped' \in BOOLEAN
        <3>1. CASE UNCHANGED slipped
            BY <3>1 DEF HotplugType
        <3>2. CASE PassedOver
            <4>1. slipped' = (Bridge \in listed)
                BY <3>2 DEF PassedOver
            <4>2. (Bridge \in listed) \in BOOLEAN
                OBVIOUS
            <4>3. QED
                BY <4>1, <4>2, Zenon
        <3>3. QED
            BY <1>3, <3>1, <3>2 DEF PreRemove, Drop, ClearRemove, DropAgain
    <2>5. /\ at' \in {"program", "rescan", "clear", "lastRescan", "idle"}
          /\ UNCHANGED <<fpga, trained, command, attempt, found, alone>>
        BY <1>3 DEF PreRemove, Drop, ClearRemove, DropAgain
    <2>6. QED
        BY <2>2, <2>3, <2>4, <2>5 DEF HotplugType
<1>4. CASE LoadImage \/ ClearImage
    <2>1. PICK i \in Images \cup {Blank} : Program(i)
        BY <1>4 DEF LoadImage, ClearImage
    <2>2. /\ fpga' \in Images \cup {Blank} /\ trained' \in BOOLEAN
          /\ command' \in [Slots -> Byte]
        <3>1. 0 \in Byte
            BY DEF Byte
        <3>2. QED
            BY <2>1, <3>1 DEF Program
    <2>3. /\ at' \in {"rescan", "idle", "again"}
          /\ UNCHANGED <<listed, attempt, found, cached, alone, slipped>>
        BY <1>4 DEF LoadImage, ClearImage
    <2>4. QED
        BY <2>2, <2>3 DEF HotplugType
<1>5. CASE Rescan
    <2>1. CASE AttemptLeft
        BY <1>5, <2>1, RescanType DEF Rescan, AttemptLeft, HotplugType
    <2>2. CASE ~AttemptLeft
        BY <1>5, <2>2 DEF Rescan, HotplugType
    <2>3. QED
        BY <2>1, <2>2
<1>6. CASE Probe
    BY <1>6, FirstListedFacts, BdfFacts DEF Probe, busVars, HotplugType
<1>7. CASE ValidateMmio
    <2>1. command' \in [Slots -> Byte]
        BY <1>7 DEF ValidateMmio, HotplugType
    <2>2. QED
        BY <1>7, <2>1 DEF ValidateMmio, HotplugType
<1>8. CASE Train
    BY <1>8 DEF Train, HotplugType, loadVars
<1>9. CASE Raise
    BY <1>9, BdfFacts DEF Raise, HotplugType, busVars
<1>10. QED
    BY <1>1, <1>2, <1>3, <1>4, <1>5, <1>6, <1>7, <1>8, <1>9 DEF HotplugNext, LoadStep
-----------------------------------------------------------------------------
(* Programming.  HotInv says what is listed at each place of the process   *)
(* that programs the FPGA, as long as nobody else changes the bus.         *)

\* What is behind a bridge that was removed is removed with it.
BusInv == Bridge \in listed \/ listed = {}

HotInv ==
    /\ at \in {"again", "dropAgain", "lastRescan"} => fpga = Blank
    /\ Pseudo /\ alone =>
          /\ at \in {"rescan", "probe", "drop", "mmio"} /\ ~slipped =>
                 listed \cap Slots \subseteq Present
          /\ at \in {"program", "clear", "again"} /\ ~slipped => listed = {}
          /\ at = "dropAgain" /\ ~slipped => listed = {Bridge}
          /\ at = "lastRescan" => listed = {}
          /\ at = "mmio" /\ found \in Slots => found \in listed

\* An FPGA without an image has no device.
LEMMA BlankFacts == fpga = Blank => Present = {}
    BY DEF Blank, Present, Answers

\* A rescan of an empty list finds the bridge and what answers.
LEMMA RescanOfNone ==
    ASSUME listed = {}, OsRescan
    PROVE  listed' = {Bridge} \cup Present
    BY DEF OsRescan

\* The bus keeps its shape, whoever changes it.
LEMMA BusKept ==
    ASSUME BusInv, OsRescan \/ RemoveBridge \/ (\E b \in Bdfs : OsRemove(b)) \/ UNCHANGED listed
    PROVE  BusInv'
    BY BdfFacts DEF BusInv, OsRescan, RemoveBridge, OsRemove

\* Every step of the process that programs the FPGA touches the bus in one of these ways.
LEMMA LoaderOnBus ==
    ASSUME HotplugNext
    PROVE  OsRescan \/ RemoveBridge \/ UNCHANGED listed
    BY DEF HotplugNext, LoadStep, Load, Unload, Train, PreRescan, PreRemove, LoadImage, Rescan,
           Probe, Drop, ValidateMmio, ClearRescan, ClearRemove, ClearImage, RescanAgain,
           DropAgain, LastRescan, PassedOver, Raise, busVars

\* The process that programs the FPGA keeps what is known of the list at its places.
LEMMA HotKept ==
    ASSUME HotplugType, BusInv, HotInv, HotplugNext
    PROVE  HotInv'
<1> USE DEF HotInv
<1>1. CASE Load \/ Unload
    BY <1>1 DEF Load, Unload, busVars
<1>2. CASE PreRescan \/ ClearRescan
    BY <1>2 DEF PreRescan, ClearRescan
<1>3. CASE PreRemove
    BY <1>3 DEF PreRemove, PassedOver, RemoveBridge, OsRemove, BusInv
<1>4. CASE LoadImage
    BY <1>4 DEF LoadImage
<1>5. CASE Rescan
    <2>1. CASE AttemptLeft
        <3>1. listed' = listed \cup {Bridge} \cup Present
            BY <1>5, <2>1 DEF Rescan, OsRescan
        <3>2. Present' = Present
            BY <1>5 DEF Rescan, Present, Answers
        <3>3. QED
            BY <1>5, <2>1, <3>1, <3>2, BdfFacts DEF Rescan
    <2>2. CASE ~AttemptLeft
        BY <1>5, <2>2 DEF Rescan
    <2>3. QED
        BY <2>1, <2>2
<1>6. CASE Probe
    <2>1. Present' = Present /\ UNCHANGED <<fpga, listed, alone, slipped>>
        BY <1>6 DEF Probe, busVars, Present, Answers
    <2>2. at = "probe" /\ at' \in {"mmio", "rescan", "drop"}
        BY <1>6 DEF Probe
    <2>3. at' = "mmio" /\ found' \in Slots => found' \in listed
        <3>1. Elsewhere \notin Slots
            BY HotplugAssumption DEF Elsewhere, Slots
        <3>2. QED
            BY <1>6, <3>1, FirstListedFacts DEF Probe
    <2>4. QED
        BY <2>1, <2>2, <2>3
<1>7. CASE Drop
    <2>1. Present' = Present /\ at = "drop" /\ at' = "rescan" /\ UNCHANGED <<alone, slipped>>
        BY <1>7 DEF Drop, Present, Answers
    <2>2. listed' \subseteq listed
        BY <1>7 DEF Drop, RemoveBridge, OsRemove
    <2>3. QED
        BY <2>1, <2>2
<1>8. CASE ValidateMmio \/ Raise
    BY <1>8 DEF ValidateMmio, Raise
<1>9. CASE ClearRemove
    BY <1>9 DEF ClearRemove, PassedOver, RemoveBridge, OsRemove, BusInv
<1>10. CASE ClearImage
    BY <1>10 DEF ClearImage, Program
<1>11. CASE RescanAgain
    <2>1. UNCHANGED <<fpga, alone, slipped>> /\ at = "again" /\ at' \in {"dropAgain", "idle"}
        BY <1>11 DEF RescanAgain
    <2>2. listed = {} => listed' = {Bridge}
        BY <1>11, <2>1, RescanOfNone, BlankFacts DEF RescanAgain
    <2>3. QED
        BY <2>1, <2>2
<1>12. CASE DropAgain
    BY <1>12 DEF DropAgain, RemoveBridge, OsRemove
<1>13. CASE LastRescan
    BY <1>13 DEF LastRescan
<1>14. CASE Train
    <2>1. \A s \in Slots : Answers(s) => Answers(s)'
        BY <1>14 DEF Train, Answers
    <2>2. Present \subseteq Present'
        BY <2>1 DEF Present
    <2>3. fpga # Blank /\ UNCHANGED <<fpga, listed, at, found, alone, slipped>>
        BY <1>14 DEF Train, loadVars
    <2>4. QED
        BY <2>2, <2>3
<1>15. QED
    BY <1>1, <1>2, <1>3, <1>4, <1>5, <1>6, <1>7, <1>8, <1>9, <1>10, <1>11, <1>12, <1>13, <1>14
    DEF HotplugNext, LoadStep

\* A step of the tool is none of the process that programs the FPGA, and leaves the
\* list and the registers alone, or is noted.
Apart ==
    /\ UNCHANGED <<fpga, trained, loadVars, slipped>>
    /\ alone' => alone /\ UNCHANGED <<listed, command>>

\* Such a step keeps what is known of the bus.
LEMMA ApartKept ==
    ASSUME HotInv, Apart
    PROVE  HotInv'
<1>1. UNCHANGED <<fpga, trained, at, found, slipped>>
    BY DEF Apart, loadVars
<1>2. alone' => alone /\ UNCHANGED listed
    BY DEF Apart
<1>3. Present' = Present
    BY <1>1 DEF Present, Answers
<1>4. QED
    BY <1>1, <1>2, <1>3 DEF HotInv
-----------------------------------------------------------------------------
(* The tool.  KnownInv says that what it knows of a device is true, until  *)
(* the process that programs the FPGA touches that device; ToolInv, that   *)
(* what it manages is what it knows, when no loop is under way; CalmInv,   *)
(* that a rescan nobody disturbed misses nothing.                          *)

PcieSlots == {s \in Slots : all[s].kind = "pcie"}

KnownInv ==
    \A s \in PcieSlots \ disturbed :
        /\ s \in listed /\ Answers(s)
        /\ all[s].mem # "unknown" => (all[s].mem = "on") = MemOn(command[s])

ToolInv ==
    /\ tpc \in {"idle", "enable"} => managed = Managed(all)
    /\ tpc = "enable" => todo \subseteq managed
    /\ tpc = "remove" /\ Bridge \in todo => PcieSlots \subseteq todo

KindOf(b) == IF b = Bridge THEN "pcie" ELSE fpga[b]

CalmInv ==
    /\ tpc = "list" /\ calm => {Bridge} \cup Present \subseteq listed
    /\ tpc = "load" /\ calm =>
        \A b \in {Bridge} \cup Present :
            b \in listed /\ (b \notin todo => all[b].kind = KindOf(b))

PcieInv == TypeOK /\ BusInv /\ HotInv /\ KnownInv /\ ToolInv /\ CalmInv

\* A manager that has not looked for devices knows of none.
LEMMA InitPcie == Init => PcieInv
<1> SUFFICES ASSUME Init PROVE PcieInv
    OBVIOUS
<1>1. TypeOK
    <2>1. HotplugType
        <3>1. [s \in Slots |-> 0] \in [Slots -> Byte]
            BY DEF Byte
        <3>2. 0 \in 0 .. Attempts
            BY HotplugAssumption
        <3>3. QED
            BY <3>1, <3>2, BdfFacts DEF Init, HotplugInit, HotplugType
    <2>2. all \in [Bdfs -> [kind : {"none", "pcie", "pci"}, mem : {"unknown", "on", "off"}]]
        BY DEF Init, Absent
    <2>3. QED
        BY <2>1, <2>2 DEF Init, TypeOK
<1>2. BusInv /\ HotInv
    BY DEF Init, HotplugInit, BusInv, HotInv
<1>3. \A b \in Bdfs : all[b].kind = "none"
    BY DEF Init, Absent
<1>4. PcieSlots = {} /\ Managed(all) = {}
    BY <1>3, BdfFacts DEF PcieSlots, Managed
<1>5. QED
    BY <1>1, <1>2, <1>4 DEF PcieInv, KnownInv, ToolInv, CalmInv, Init

\* The process that programs the FPGA leaves the tool's variables alone, and what the
\* tool knows of the devices it touches is no more relied on.
LEMMA LoaderKeeps ==
    ASSUME PcieInv, LoaderStep
    PROVE  PcieInv'
<1>1. HotplugNext /\ UNCHANGED toolVars /\ disturbed' = disturbed \cup Touched
    BY DEF LoaderStep
<1>2. UNCHANGED <<all, managed, tpc, todo, next, en>>
    BY <1>1 DEF toolVars
<1>3. calm' \in BOOLEAN
    <2>1. CASE tpc = "idle"
        BY <2>1 DEF LoaderStep
    <2>2. CASE tpc # "idle" /\ calm /\ busVars' = busVars
        BY <2>2 DEF LoaderStep
    <2>3. CASE tpc # "idle" /\ ~(calm /\ busVars' = busVars)
        BY <2>3 DEF LoaderStep
    <2>4. QED
        BY <2>1, <2>2, <2>3
<1>4. TypeOK'
    <2>1. HotplugType'
        BY <1>1, HotplugTypeKept DEF PcieInv, TypeOK
    <2>2. disturbed' \subseteq Slots
        BY <1>1 DEF PcieInv, TypeOK, Touched
    <2>3. QED
        BY <1>2, <1>3, <2>1, <2>2 DEF PcieInv, TypeOK
<1>5. BusInv' /\ HotInv'
    BY <1>1, BusKept, HotKept, LoaderOnBus DEF PcieInv, TypeOK
<1>6. KnownInv'
    <2> SUFFICES ASSUME NEW s \in PcieSlots' \ disturbed'
                 PROVE  /\ s \in listed' /\ Answers(s)'
                        /\ all'[s].mem # "unknown" =>
                                 (all'[s].mem = "on") = MemOn(command'[s])
        BY DEF KnownInv
    <2>1. s \in PcieSlots \ disturbed /\ s \in Slots /\ s \notin Touched
        BY <1>1, <1>2 DEF PcieSlots
    <2>2. /\ command'[s] = command[s] /\ (s \in listed' <=> s \in listed)
          /\ fpga' = fpga /\ trained' = trained
        BY <2>1 DEF Touched
    <2>3. QED
        BY <1>2, <2>1, <2>2 DEF PcieInv, KnownInv, Answers
<1>7. ToolInv'
    BY <1>2 DEF PcieInv, ToolInv, PcieSlots, Managed
<1>8. CalmInv'
    <2>1. CASE tpc \in {"list", "load"} /\ calm'
        <3>1. calm /\ UNCHANGED <<fpga, trained, listed, command>>
            BY <2>1 DEF LoaderStep, busVars
        <3>2. Present' = Present /\ \A b : KindOf(b)' = KindOf(b)
            BY <3>1 DEF Present, Answers, KindOf
        <3>3. QED
            BY <1>2, <3>1, <3>2 DEF PcieInv, CalmInv
    <2>2. QED
        BY <1>2, <2>1 DEF CalmInv
<1>9. QED
    BY <1>4, <1>5, <1>6, <1>7, <1>8 DEF PcieInv

\* An operation of the manager begins.
LEMMA BeginKeeps ==
    ASSUME PcieInv,
           \/ \E remove, bridge \in BOOLEAN : RescanDevices(remove, bridge)
           \/ \E bridge \in BOOLEAN : RemoveDevices(bridge)
           \/ \E on \in BOOLEAN : EnableAccess(on)
    PROVE  PcieInv'
<1>1. PICK where \in {"remove", "rescan", "enable"}, set \in SUBSET Bdfs :
          /\ Begin(where, set)
          /\ where = "enable" => set = managed
          /\ where = "remove" => \E bridge \in BOOLEAN : set = Removable(bridge)
    <2>1. managed \in SUBSET Bdfs /\ \A bridge \in BOOLEAN : Removable(bridge) \in SUBSET Bdfs
        BY BdfFacts DEF PcieInv, TypeOK, Removable
    <2>2. QED
        BY <2>1 DEF RescanDevices, RemoveDevices, EnableAccess
<1>2. next' \in {"idle", "rescan"} /\ en' \in BOOLEAN
    BY DEF RescanDevices, RemoveDevices, EnableAccess
<1>3. /\ tpc = "idle" /\ tpc' = where /\ todo' = set /\ calm' = TRUE
      /\ UNCHANGED <<fpga, trained, listed, command, at, attempt, found, cached, alone, slipped>>
      /\ UNCHANGED <<all, managed, disturbed>>
    BY <1>1 DEF Begin, hotplugVars, busVars, loadVars
<1>4. TypeOK'
    BY <1>2, <1>3 DEF PcieInv, TypeOK, HotplugType
<1>5. BusInv' /\ HotInv' /\ KnownInv'
    BY <1>3 DEF PcieInv, BusInv, HotInv, KnownInv, PcieSlots, Present, Answers
<1>6. ToolInv'
    <2>1. managed = Managed(all) /\ PcieSlots' = PcieSlots /\ Bridge \notin managed
        BY <1>3, BdfFacts DEF PcieInv, ToolInv, TypeOK, PcieSlots
    <2>2. where = "remove" /\ Bridge \in set => PcieSlots \subseteq set
        BY <1>1, <2>1 DEF Removable, Managed, PcieSlots
    <2>3. QED
        BY <1>1, <1>3, <2>1, <2>2 DEF ToolInv, Managed
<1>7. CalmInv'
    BY <1>3 DEF CalmInv
<1>8. QED
    BY <1>4, <1>5, <1>6, <1>7 DEF PcieInv

\* The tool's steps leave what is not theirs alone.
LEMMA ToolApart == ToolStep => Apart
    BY DEF ToolStep, RemoveOne, LoadOne, Removed, ToolRescan, List, Loaded, EnableOne, Enabling,
           OthersUnchanged, Apart, hotplugVars, busVars, loadVars

\* A device is removed.
LEMMA RemoveOneKeeps ==
    ASSUME PcieInv, NEW b \in Bdfs, RemoveOne(b)
    PROVE  TypeOK' /\ KnownInv' /\ ToolInv' /\ CalmInv'
<1>1. /\ tpc = "remove" /\ tpc' = "remove" /\ b \in todo /\ todo' = todo \ {b}
      /\ b = Bridge => todo = {Bridge}
      /\ listed' \in {listed, IF b = Bridge THEN {} ELSE listed \ {b}}
      /\ all' = [all EXCEPT ![b] = Absent]
      /\ UNCHANGED <<fpga, trained, at, attempt, found, cached, slipped, command, managed, next,
                     en, calm, disturbed>>
      /\ alone' = FALSE
    BY DEF RemoveOne, OsRemove, OthersUnchanged, loadVars
<1>2. \A s \in Slots : all'[s].kind = IF s = b THEN "none" ELSE all[s].kind
    BY <1>1, BdfFacts DEF PcieInv, TypeOK, Absent
<1>3. PcieSlots' = PcieSlots \ {b}
    BY <1>2 DEF PcieSlots
<1>4. TypeOK'
    <2>1. all' \in [Bdfs -> [kind : {"none", "pcie", "pci"}, mem : {"unknown", "on", "off"}]]
        BY <1>1 DEF PcieInv, TypeOK, Absent
    <2>2. listed' \in SUBSET Bdfs
        BY <1>1 DEF PcieInv, TypeOK, HotplugType
    <2>3. QED
        BY <1>1, <2>1, <2>2 DEF PcieInv, TypeOK, HotplugType
<1>5. KnownInv'
    <2>1. b = Bridge => PcieSlots = {}
        BY <1>1, BdfFacts DEF PcieInv, ToolInv, PcieSlots
    <2>2. \A s \in PcieSlots' : all'[s] = all[s] /\ s # b /\ (s \in listed => s \in listed')
        BY <1>1, <1>3, <2>1, BdfFacts DEF PcieInv, TypeOK, PcieSlots
    <2>3. QED
        BY <1>1, <1>3, <2>2 DEF PcieInv, KnownInv, Answers
<1>6. ToolInv' /\ CalmInv'
    BY <1>1, <1>3 DEF PcieInv, ToolInv, CalmInv
<1>7. QED
    BY <1>4, <1>5, <1>6

\* A device of the list is looked at.
LEMMA LoadOneKeeps ==
    ASSUME PcieInv, NEW b \in Bdfs, LoadOne(b)
    PROVE  TypeOK' /\ KnownInv' /\ ToolInv' /\ CalmInv'
<1>1. /\ tpc = "load" /\ tpc' = "load" /\ b \in todo /\ todo' = todo \ {b}
      /\ disturbed' = disturbed \ {b}
      /\ UNCHANGED <<fpga, trained, at, attempt, found, cached, slipped, command, managed, next, en,
                     calm>>
      /\ alone' \in {alone, FALSE}
    BY DEF LoadOne, OthersUnchanged, loadVars
<1>2. InSystem(b) => all' = [all EXCEPT ![b] = NewObject(b)] /\ listed' = listed
    BY DEF LoadOne
<1>3. ~InSystem(b) => /\ all' = [all EXCEPT ![b] = Absent]
                      /\ listed' \in {listed, IF b = Bridge THEN {} ELSE listed \ {b}}
    BY DEF LoadOne, OsRemove
<1>4. NewObject(b) = [kind |-> KindOf(b), mem |-> "unknown"]
    BY DEF NewObject, KindOf
<1>5. KindOf(b) \in {"none", "pcie", "pci"}
    <2>1. b # Bridge => b \in Slots
        BY DEF Bdfs
    <2>2. fpga \in [Slots -> {"none", "pcie", "pci"}]
        BY HotplugAssumption, BdfFacts DEF PcieInv, TypeOK, HotplugType
    <2>3. QED
        BY <2>1, <2>2 DEF KindOf
<1>6. /\ DOMAIN all = Bdfs
      /\ all'[b].mem = "unknown"
      /\ all'[b].kind = IF InSystem(b) THEN KindOf(b) ELSE "none"
      /\ \A c \in Bdfs : c # b => all'[c] = all[c]
    BY <1>2, <1>3, <1>4 DEF PcieInv, TypeOK, Absent
<1>7. TypeOK'
    <2>1. all' \in [Bdfs -> [kind : {"none", "pcie", "pci"}, mem : {"unknown", "on", "off"}]]
        BY <1>2, <1>3, <1>4, <1>5 DEF PcieInv, TypeOK, Absent
    <2>2. listed' \in SUBSET Bdfs
        BY <1>2, <1>3 DEF PcieInv, TypeOK, HotplugType
    <2>3. HotplugType'
        BY <1>1, <2>2 DEF PcieInv, TypeOK, HotplugType
    <2>4. QED
        BY <1>1, <2>1, <2>3 DEF PcieInv, TypeOK
<1>8. KnownInv'
    <2> SUFFICES ASSUME NEW s \in PcieSlots' \ disturbed'
                 PROVE  /\ s \in listed' /\ Answers(s)'
                        /\ all'[s].mem # "unknown" =>
                                 (all'[s].mem = "on") = MemOn(command'[s])
        BY DEF KnownInv
    <2>1. s \in Slots /\ s \in Bdfs /\ s # Bridge
        BY BdfFacts DEF PcieSlots
    <2>2. Answers(s)' <=> Answers(s)
        BY <1>1 DEF Answers
    <2>3. CASE s = b
        <3>1. InSystem(b)
            BY <1>6, <2>3 DEF PcieSlots
        <3>2. QED
            BY <1>2, <1>6, <2>1, <2>2, <2>3, <3>1 DEF InSystem
    <2>4. CASE s # b
        <3>1. s \in PcieSlots \ disturbed /\ all'[s] = all[s]
            BY <1>1, <1>6, <2>1, <2>4 DEF PcieSlots
        <3>2. s \in listed /\ Answers(s)
            BY <3>1 DEF PcieInv, KnownInv
        <3>3. ~InSystem(b) => b # Bridge
            BY <3>2 DEF InSystem, PcieInv, BusInv
        <3>4. s \in listed'
            BY <1>2, <1>3, <2>4, <3>2, <3>3
        <3>5. QED
            BY <1>1, <2>2, <3>1, <3>2, <3>4 DEF PcieInv, KnownInv
    <2>5. QED
        BY <2>3, <2>4
<1>9. ToolInv'
    BY <1>1 DEF ToolInv
<1>10. CalmInv'
    <2> SUFFICES ASSUME calm, NEW c \in {Bridge} \cup Present
                 PROVE  c \in listed' /\ (c \notin todo' => all'[c].kind = KindOf(c))
        <3>1. Present' = Present /\ \A d : KindOf(d)' = KindOf(d)
            BY <1>1 DEF Present, Answers, KindOf
        <3>2. QED
            BY <1>1, <3>1 DEF CalmInv
    <2>1. c \in listed /\ (c \notin todo => all[c].kind = KindOf(c))
        BY <1>1 DEF PcieInv, CalmInv
    <2>2. Bridge \in listed /\ c \in Bdfs
        BY <1>1, BdfFacts DEF PcieInv, CalmInv, Present
    <2>3. c = b => InSystem(b)
        BY <2>1 DEF InSystem, Present
    <2>4. ~InSystem(b) => b # Bridge
        BY <2>2 DEF InSystem
    <2>5. c \in listed'
        BY <1>2, <1>3, <2>1, <2>3, <2>4
    <2>6. c \notin todo' => all'[c].kind = KindOf(c)
        BY <1>1, <1>6, <2>1, <2>2, <2>3
    <2>7. QED
        BY <2>5, <2>6
<1>11. QED
    BY <1>7, <1>8, <1>9, <1>10

\* The bit for memory accesses of a device that is enabled or disabled.
LEMMA CommandFacts ==
    ASSUME PcieInv, NEW s \in Slots
    PROVE  CommandOf(s) \in Byte /\ MemOn(CommandOf(s)) = en
<1>1. en \in BOOLEAN
    BY DEF PcieInv, TypeOK
<1>2. CommandOf(s) \in IF en THEN {2, 3} ELSE {0, 1}
    BY <1>1 DEF CommandOf
<1>3. (0 \div 2) % 2 = 0 /\ (1 \div 2) % 2 = 0 /\ (2 \div 2) % 2 = 1 /\ (3 \div 2) % 2 = 1
    OBVIOUS
<1>4. QED
    BY <1>1, <1>2, <1>3 DEF Byte, MemOn

\* The accesses of a device are enabled or disabled, or it is gone.
LEMMA EnableOneKeeps ==
    ASSUME PcieInv, NEW s \in Slots, EnableOne(s)
    PROVE  TypeOK' /\ KnownInv' /\ ToolInv' /\ CalmInv'
<1>1. CASE s \notin listed /\ all[s].mem = "unknown"
    <2>1. /\ tpc' = "idle" /\ todo' = {} /\ tpc = "enable"
          /\ UNCHANGED <<fpga, trained, listed, command, at, attempt, found, cached, alone, slipped>>
          /\ UNCHANGED <<all, managed, next, en, calm, disturbed>>
        BY <1>1 DEF EnableOne, hotplugVars, busVars, loadVars
    <2>2. TypeOK'
        BY <2>1 DEF PcieInv, TypeOK, HotplugType
    <2>3. QED
        BY <2>1, <2>2 DEF PcieInv, KnownInv, ToolInv, CalmInv, PcieSlots, Managed, Answers
<1>2. CASE ~(s \notin listed /\ all[s].mem = "unknown")
    <2> DEFINE flag == IF en THEN "on" ELSE "off"
    <2>1. /\ tpc = "enable" /\ tpc' = "enable" /\ s \in todo /\ todo' = todo \ {s}
          /\ all' = [all EXCEPT ![s].mem = flag]
          /\ command' = IF s \in listed /\ Answers(s)
                        THEN [command EXCEPT ![s] = CommandOf(s)] ELSE command
          /\ UNCHANGED <<fpga, trained, listed, at, attempt, found, cached, slipped>>
          /\ UNCHANGED <<managed, next, en, calm, disturbed>>
          /\ alone' = FALSE
        BY <1>2 DEF EnableOne, loadVars
    <2>2. /\ s \in Bdfs /\ all'[s].mem = flag
          /\ \A b \in Bdfs : all'[b].kind = all[b].kind /\ (b # s => all'[b] = all[b])
        BY <2>1, BdfFacts DEF PcieInv, TypeOK
    <2>3. PcieSlots' = PcieSlots /\ Managed(all') = Managed(all)
        BY <2>2, BdfFacts DEF PcieSlots, Managed
    <2>4. TypeOK'
        <3>1. all' \in [Bdfs -> [kind : {"none", "pcie", "pci"}, mem : {"unknown", "on", "off"}]]
            BY <2>1, <2>2 DEF PcieInv, TypeOK
        <3>2. command' \in [Slots -> Byte]
            BY <2>1, CommandFacts DEF PcieInv, TypeOK, HotplugType
        <3>3. QED
            BY <2>1, <3>1, <3>2 DEF PcieInv, TypeOK, HotplugType
    <2>5. KnownInv'
        <3> SUFFICES ASSUME NEW r \in PcieSlots \ disturbed
                     PROVE  /\ r \in listed /\ Answers(r)
                            /\ all'[r].mem # "unknown" =>
                                     (all'[r].mem = "on") = MemOn(command'[r])
            BY <2>1, <2>3 DEF KnownInv, Answers
        <3>1. /\ r \in listed /\ Answers(r) /\ r \in Slots /\ r \in Bdfs
              /\ all[r].mem # "unknown" => (all[r].mem = "on") = MemOn(command[r])
            BY BdfFacts DEF PcieInv, KnownInv, PcieSlots
        <3>2. CASE r = s
            <4>1. command'[r] = CommandOf(s)
                BY <2>1, <3>1, <3>2 DEF PcieInv, TypeOK, HotplugType
            <4>2. (flag = "on") = en
                BY DEF PcieInv, TypeOK
            <4>3. MemOn(command'[r]) = en
                BY <4>1, CommandFacts
            <4>4. QED
                BY <2>2, <3>1, <3>2, <4>2, <4>3
        <3>3. CASE r # s
            <4>1. command'[r] = command[r]
                BY <2>1, <3>1, <3>3 DEF PcieInv, TypeOK, HotplugType
            <4>2. QED
                BY <2>2, <3>1, <3>3, <4>1
        <3>4. QED
            BY <3>2, <3>3
    <2>6. ToolInv' /\ CalmInv'
        BY <2>1, <2>3 DEF PcieInv, ToolInv, CalmInv
    <2>7. QED
        BY <2>4, <2>5, <2>6
<1>3. QED
    BY <1>1, <1>2

\* The other steps of the tool: its rescan, its list, and the ends of its loops.
LEMMA RestKeeps ==
    ASSUME PcieInv, Removed \/ ToolRescan \/ List \/ Loaded \/ Enabling
    PROVE  TypeOK' /\ KnownInv' /\ ToolInv' /\ CalmInv'
<1> USE DEF PcieInv
<1>1. CASE Removed
    <2>1. managed' = Managed(all) /\ tpc' = next /\ tpc = "remove" /\ todo = {}
          /\ UNCHANGED <<fpga, trained, listed, command, at, attempt, found, cached, alone, slipped>>
          /\ UNCHANGED <<all, todo, next, en, calm, disturbed>>
        BY <1>1 DEF Removed, hotplugVars, busVars, loadVars
    <2>2. next \in {"idle", "rescan"} /\ Managed(all) \subseteq Slots
        BY DEF TypeOK, Managed
    <2>3. TypeOK'
        BY <2>1, <2>2 DEF TypeOK, HotplugType
    <2>4. QED
        BY <2>1, <2>2, <2>3 DEF KnownInv, ToolInv, CalmInv, PcieSlots, Managed, Answers
<1>2. CASE ToolRescan
    <2>1. /\ tpc = "rescan" /\ tpc' = "list" /\ OsRescan /\ alone' = FALSE
          /\ UNCHANGED <<fpga, trained, at, attempt, found, cached, slipped, calm>>
          /\ UNCHANGED <<all, managed, todo, next, en, disturbed>>
        BY <1>2 DEF ToolRescan, OthersUnchanged, loadVars
    <2>2. TypeOK'
        BY <2>1, RescanType DEF TypeOK, HotplugType
    <2>3. KnownInv'
        <3>1. \A s \in Slots : s \in listed => s \in listed' /\ command'[s] = command[s]
            BY <2>1 DEF OsRescan
        <3>2. QED
            BY <2>1, <3>1 DEF KnownInv, PcieSlots, Answers
    <2>4. ToolInv'
        BY <2>1 DEF ToolInv
    <2>5. CalmInv'
        BY <2>1 DEF CalmInv, OsRescan, Present, Answers
    <2>6. QED
        BY <2>2, <2>3, <2>4, <2>5
<1>3. CASE List
    <2>1. /\ tpc = "list" /\ tpc' = "load" /\ todo' = listed
          /\ UNCHANGED <<fpga, trained, listed, command, at, attempt, found, cached, alone, slipped>>
          /\ UNCHANGED <<all, managed, next, en, calm, disturbed>>
        BY <1>3 DEF List, hotplugVars, busVars, loadVars
    <2>2. TypeOK'
        BY <2>1 DEF TypeOK, HotplugType
    <2>3. Present' = Present
        BY <2>1 DEF Present, Answers
    <2>4. QED
        BY <2>1, <2>2, <2>3 DEF KnownInv, ToolInv, CalmInv, PcieSlots, Answers
<1>4. CASE Loaded
    <2>1. /\ tpc = "load" /\ tpc' = "idle" /\ managed' = Managed(all)
          /\ UNCHANGED <<fpga, trained, listed, command, at, attempt, found, cached, alone, slipped>>
          /\ UNCHANGED <<all, todo, next, en, calm, disturbed>>
        BY <1>4 DEF Loaded, LookUp, hotplugVars, busVars, loadVars
    <2>2. TypeOK'
        BY <2>1 DEF TypeOK, HotplugType, Managed
    <2>3. QED
        BY <2>1, <2>2 DEF KnownInv, ToolInv, CalmInv, PcieSlots, Managed, Answers
<1>5. CASE Enabling
    <2>1. /\ tpc = "enable" /\ tpc' = "idle"
          /\ UNCHANGED <<fpga, trained, listed, command, at, attempt, found, cached, alone, slipped>>
          /\ UNCHANGED <<all, managed, todo, next, en, calm, disturbed>>
        BY <1>5 DEF Enabling, hotplugVars, busVars, loadVars
    <2>2. TypeOK'
        BY <2>1 DEF TypeOK, HotplugType
    <2>3. QED
        BY <2>1, <2>2 DEF KnownInv, ToolInv, CalmInv, PcieSlots, Managed, Answers
<1>6. QED
    BY <1>1, <1>2, <1>3, <1>4, <1>5

\* How the tool touches the list.
LEMMA ToolOnBus == ToolStep => OsRescan \/ (\E b \in Bdfs : OsRemove(b)) \/ UNCHANGED listed
    BY DEF ToolStep, RemoveOne, LoadOne, Removed, ToolRescan, List, Loaded, EnableOne, Enabling,
           hotplugVars, busVars

\* Every step, of the tool, of the process and of the kernel, keeps the invariant.
LEMMA PcieKept == PcieInv /\ [Next]_vars => PcieInv'
<1> SUFFICES ASSUME PcieInv, [Next]_vars PROVE PcieInv'
    OBVIOUS
<1>1. CASE UNCHANGED vars
    BY <1>1
    DEF vars, hotplugVars, busVars, loadVars, toolVars, PcieInv, TypeOK, HotplugType, BusInv,
        HotInv, KnownInv, ToolInv, CalmInv, PcieSlots, Managed, Present, Answers,
        KindOf
<1>2. CASE ToolStep
    <2>1. BusInv' /\ HotInv'
        BY <1>2, ToolOnBus, BusKept, ToolApart, ApartKept DEF PcieInv
    <2>2. TypeOK' /\ KnownInv' /\ ToolInv' /\ CalmInv'
        BY <1>2, RemoveOneKeeps, LoadOneKeeps, EnableOneKeeps, RestKeeps DEF ToolStep
    <2>3. QED
        BY <2>1, <2>2 DEF PcieInv
<1>3. QED
    BY <1>1, <1>2, LoaderKeeps, BeginKeeps DEF Next

\* The inductive invariant of an FPGA on the bus, the process that programs it, and a tool.
THEOREM PcieInvariant == Spec => []PcieInv
    BY InitPcie, PcieKept, PTL DEF Spec

\* While the process that programs the FPGA leaves a device alone, the access flag the
\* tool has cached for it says what its register says (FpgaPCIeDeviceManager).
THEOREM FlagIsTrueHolds == Spec => []FlagIsTrue
<1>1. PcieInv => FlagIsTrue
    BY DEF PcieInv, KnownInv, ToolInv, FlagIsTrue, PcieSlots, Managed
<1>2. QED
    BY <1>1, PcieInvariant, PTL

\* A step of an FPGA on the bus that moves the process that programs it is one of that process.
LEMMA LoaderMoves ==
    ASSUME Next, at' # at
    PROVE  HotplugNext
<1>1. ~ToolStep
    BY ToolApart DEF Apart, loadVars
<1>2. QED
    BY <1>1 DEF Next, LoaderStep, RescanDevices, RemoveDevices, EnableAccess, Begin,
                hotplugVars, loadVars

\* A value of three bits, with the second added, is written with the digit that setpci reads.
LEMMA SmallValues ==
    ASSUME NEW c \in Byte, MemOn(c) \/ c < 8
    PROVE  MemOn(Enabled(c))
<1>1. CASE MemOn(c)
    BY <1>1 DEF Enabled
<1>2. CASE ~MemOn(c)
    <2>1. c \in {0, 1, 2, 3, 4, 5, 6, 7}
        BY <1>2 DEF Byte
    <2>2. (2 \div 2) % 2 = 1 /\ (3 \div 2) % 2 = 1 /\ (6 \div 2) % 2 = 1 /\ (7 \div 2) % 2 = 1
        OBVIOUS
    <2>3. c \in {0, 1, 4, 5}
        BY <1>2, <2>1, <2>2 DEF MemOn
    <2>4. \A n \in {2, 3, 6, 7} : n \div 100 = 0 /\ n \div 10 = 0 /\ n % 10 = n
        OBVIOUS
    <2>5. 0 % 10 = 0
        OBVIOUS
    <2>6. AsHex(c + 2) = c + 2
        BY <2>3, <2>4, <2>5 DEF AsHex
    <2>7. QED
        BY <1>2, <2>2, <2>3, <2>6 DEF Enabled, MemOn
<1>3. QED
    BY <1>1, <1>2

\* The device post_load() found answers and can be accessed, if nobody else was at the bus, no
\* removal failed, and no bit above the third was set without the one for memory accesses.
THEOREM LoadedIsUsableHolds == Spec => LoadedIsUsable
<1> DEFINE Usable ==
        Pseudo /\ alone /\ ~slipped /\ at = "mmio" /\ at' = "idle" /\ found' \in Slots =>
            /\ found \in listed /\ Answers(found)
            /\ MemOn(command[found]) \/ command[found] < 8 => MemOn(command'[found])
<1>1. PcieInv /\ [Next]_vars => [Usable]_hotplugVars
    <2> SUFFICES ASSUME PcieInv, Next, Pseudo, alone, ~slipped, at = "mmio", at' = "idle",
                        found' \in Slots
                 PROVE  /\ found \in listed /\ Answers(found)
                        /\ MemOn(command[found]) \/ command[found] < 8 => MemOn(command'[found])
        BY DEF vars
    <2>1. HotplugNext
        BY LoaderMoves
    <2>2. ~Raise
        <3>1. found' # Bridge
            BY BdfFacts
        <3>2. QED
            BY <3>1 DEF Raise
    <2>3. ValidateMmio
        <3>1. ~Train
            BY DEF Train, loadVars
        <3>2. QED
            BY <2>1, <2>2, <3>1
            DEF HotplugNext, LoadStep, Load, Unload, PreRescan, PreRemove, LoadImage, Rescan,
                Probe, Drop, ClearRescan, ClearRemove, ClearImage, RescanAgain, DropAgain,
                LastRescan
    <2>4. found' = found
        BY <2>3 DEF ValidateMmio
    <2>5. found \in listed /\ Answers(found)
        BY <2>4 DEF PcieInv, HotInv, Present
    <2>6. command[found] \in Byte /\ command'[found] = Enabled(command[found])
        BY <2>3, <2>4, <2>5 DEF ValidateMmio, PcieInv, TypeOK, HotplugType
    <2>7. QED
        BY <2>5, <2>6, SmallValues
<1>2. QED
    BY <1>1, PcieInvariant, PTL DEF Spec, LoadedIsUsable

\* pre_load() and pre_clear() leave no device listed for the reprogramming, unless a removal of
\* theirs failed, and an unload ends with nothing behind the bridge, if nobody else was at the bus.
THEOREM NoLiveReprogramHolds == Spec => NoLiveReprogram
<1> DEFINE Safe == Pseudo /\ alone /\ at' # at =>
              /\ at \in {"program", "clear"} /\ ~slipped => listed \cap Slots = {}
              /\ /\ at \in {"again", "dropAgain", "lastRescan"} /\ at' = "idle"
                 /\ slipped => at = "lastRescan"
                 => listed' \subseteq {Bridge}
<1>1. PcieInv /\ [Next]_vars => [Safe]_hotplugVars
    <2> SUFFICES ASSUME PcieInv, Next, Pseudo, alone, at' # at
                 PROVE  Safe
        BY DEF vars
    <2>1. at \in {"program", "clear"} /\ ~slipped => listed \cap Slots = {}
        BY DEF PcieInv, HotInv
    <2>2. ASSUME at \in {"again", "dropAgain", "lastRescan"}, at' = "idle",
                 slipped => at = "lastRescan"
          PROVE  listed' \subseteq {Bridge}
        <3>1. RescanAgain \/ LastRescan \/ Raise
            BY <2>2, LoaderMoves
            DEF HotplugNext, LoadStep, Load, Unload, Train, PreRescan, PreRemove, LoadImage, Rescan,
                Probe, Drop, ValidateMmio, ClearRescan, ClearRemove, ClearImage, DropAgain, loadVars
        <3>2. listed \subseteq {Bridge} /\ Present = {}
            BY <2>2, BlankFacts DEF PcieInv, HotInv
        <3>3. listed' \subseteq listed \cup {Bridge} \cup Present
            BY <3>1 DEF RescanAgain, LastRescan, Raise, OsRescan, busVars
        <3>4. QED
            BY <3>2, <3>3
    <2>3. QED
        BY <2>1, <2>2
<1>2. QED
    BY <1>1, PcieInvariant, PTL DEF Spec, NoLiveReprogram

\* A rescan that the process programming the FPGA does not disturb finds every PCIe device
\* that answers, whatever the tool remembered before (detect_pci_devices).
THEOREM RescanFindsAllHolds == Spec => RescanFindsAll
<1> DEFINE Finds == tpc = "load" /\ tpc' = "idle" /\ calm =>
                       {s \in Present : fpga[s] = "pcie"} \subseteq managed'
<1>1. PcieInv /\ [Next]_vars => [Finds]_vars
    <2> SUFFICES ASSUME PcieInv, Next, tpc = "load", tpc' = "idle", calm,
                        NEW s \in Present, fpga[s] = "pcie"
                 PROVE  s \in managed'
        OBVIOUS
    <2>1. Loaded
        BY DEF Next, LoaderStep, toolVars, RescanDevices, RemoveDevices, EnableAccess, Begin,
               ToolStep, RemoveOne, LoadOne, Removed, ToolRescan, List, EnableOne, Enabling
    <2>2. managed' = Managed(all) /\ todo = {}
        BY <2>1 DEF Loaded, LookUp
    <2>3. s \in Slots /\ s # Bridge
        BY BdfFacts DEF Present
    <2>4. all[Bridge].kind = "pcie" /\ all[s].kind = "pcie"
        BY <2>2, <2>3 DEF PcieInv, CalmInv, KindOf
    <2>5. QED
        BY <2>2, <2>3, <2>4 DEF Managed
<1>2. QED
    BY <1>1, PcieInvariant, PTL DEF Spec, RescanFindsAll
-----------------------------------------------------------------------------
(* Words and bytes.                                                        *)

\* A position is so many words and a rest.
LEMMA Divide ==
    ASSUME NEW p \in Nat
    PROVE  /\ First(p) \in Nat /\ First(p) * WordSize \in Nat
           /\ p % WordSize \in 0 .. WordSize - 1
           /\ p = First(p) * WordSize + (p % WordSize)
<1>1. WordSize \in Nat \ {0}
    BY RegionAssumption
<1>2. QED
    BY <1>1 DEF First

\* Words keep the order of their bytes.
LEMMA WordsOrder ==
    ASSUME NEW v \in Nat, NEW w \in Nat
    PROVE  /\ v * WordSize \in Nat
           /\ v <= w => v * WordSize <= w * WordSize
           /\ v * WordSize < w * WordSize + WordSize => v <= w
           /\ (v + 1) * WordSize = v * WordSize + WordSize
<1>1. WordSize \in Nat \ {0}
    BY RegionAssumption
<1>2. v * WordSize \in Nat /\ w * WordSize \in Nat
      /\ (v + 1) * WordSize = v * WordSize + WordSize
      /\ (w + 1) * WordSize = w * WordSize + WordSize
    BY <1>1
<1>3. \A x, y \in Nat : x <= y => x * WordSize <= y * WordSize
    BY <1>1
<1>4. ASSUME v * WordSize < w * WordSize + WordSize
      PROVE  v <= w
    <2>1. SUFFICES ASSUME w + 1 <= v PROVE FALSE
        OBVIOUS
    <2>2. (w + 1) * WordSize <= v * WordSize
        BY <1>3, <2>1
    <2>3. QED
        BY <1>1, <1>2, <1>4, <2>2
<1>5. QED
    BY <1>2, <1>3, <1>4

\* There is one way to say it.
LEMMA Quotient ==
    ASSUME NEW p \in Nat, NEW q \in Nat, NEW r \in 0 .. WordSize - 1,
           p = q * WordSize + r
    PROVE  First(p) = q /\ p % WordSize = r
<1>1. WordSize \in Nat \ {0}
    BY RegionAssumption
<1>2. First(p) \in Nat /\ First(p) * WordSize \in Nat /\ p % WordSize \in 0 .. WordSize - 1
      /\ p = First(p) * WordSize + (p % WordSize)
    BY Divide
<1>3. q * WordSize \in Nat
    BY <1>1
<1>4. First(p) <= q /\ q <= First(p)
    BY <1>1, <1>2, <1>3, WordsOrder
<1>5. First(p) = q
    <2>1. First(p) \in Nat
        BY <1>2
    <2>2. QED
        BY <1>4, <2>1
<1>6. QED
    BY <1>1, <1>2, <1>3, <1>5

\* Whole words behind a position.
LEMMA AddWords ==
    ASSUME NEW p \in Nat, NEW k \in Nat
    PROVE  First(p + k * WordSize) = First(p) + k /\ (p + k * WordSize) % WordSize = p % WordSize
<1>1. WordSize \in Nat \ {0} /\ k * WordSize \in Nat
    BY RegionAssumption
<1>2. First(p) \in Nat /\ p % WordSize \in 0 .. WordSize - 1
      /\ p = First(p) * WordSize + (p % WordSize)
    BY Divide
<1>3. (First(p) + k) * WordSize = First(p) * WordSize + k * WordSize
    BY <1>1, <1>2
<1>4. p + k * WordSize = (First(p) + k) * WordSize + (p % WordSize)
    BY <1>1, <1>2, <1>3
<1>5. QED
    BY <1>1, <1>2, <1>4, Quotient

\* The word behind the last that has a byte before p.
Up(p) == End(p, 0)

\* It is the word of p, or the next if p is within a word.
LEMMA UpFacts ==
    ASSUME NEW p \in Nat
    PROVE  /\ Up(p) \in Nat
           /\ Up(p) = IF p % WordSize = 0 THEN First(p) ELSE First(p) + 1
           /\ Up(p) * WordSize \in Nat
           /\ p <= Up(p) * WordSize /\ Up(p) * WordSize < p + WordSize
<1>1. WordSize \in Nat \ {0}
    BY RegionAssumption
<1>2. First(p) \in Nat /\ First(p) * WordSize \in Nat /\ p % WordSize \in 0 .. WordSize - 1
      /\ p = First(p) * WordSize + (p % WordSize)
    BY Divide
<1>3. Up(p) = First(p + WordSize - 1) /\ p + WordSize - 1 \in Nat
    BY <1>1 DEF Up, End, First
<1>4. (First(p) + 1) * WordSize = First(p) * WordSize + WordSize
    BY <1>1, <1>2
<1>5. CASE p % WordSize = 0
    <2>1. p + WordSize - 1 = First(p) * WordSize + (WordSize - 1)
        BY <1>1, <1>2, <1>5
    <2>2. Up(p) = First(p)
        BY <1>1, <1>2, <1>3, <2>1, Quotient
    <2>3. QED
        BY <1>1, <1>2, <1>5, <2>2
<1>6. CASE p % WordSize # 0
    <2>1. p + WordSize - 1 = (First(p) + 1) * WordSize + ((p % WordSize) - 1)
        BY <1>1, <1>2, <1>4
    <2>2. Up(p) = First(p) + 1
        BY <1>1, <1>2, <1>3, <1>6, <2>1, Quotient
    <2>3. QED
        BY <1>1, <1>2, <1>4, <1>6, <2>2
<1>7. QED
    BY <1>5, <1>6

\* The end of an access is where it ends.
LEMMA EndUp ==
    ASSUME NEW p \in Nat, NEW n \in Nat
    PROVE  End(p, n) = Up(p + n)
    BY RegionAssumption DEF End, Up

\* Words follow the order of their bytes.
LEMMA UpOrder ==
    ASSUME NEW p \in Nat, NEW q \in Nat, p <= q
    PROVE  First(p) <= First(q) /\ Up(p) <= Up(q) /\ First(p) <= Up(p)
<1>1. WordSize \in Nat \ {0}
    BY RegionAssumption
<1>2. ASSUME NEW x \in Nat, NEW y \in Nat, x <= y
      PROVE  First(x) <= First(y)
    <2>1. /\ First(x) \in Nat /\ First(x) * WordSize <= x
          /\ First(y) \in Nat /\ y < First(y) * WordSize + WordSize
          /\ First(x) * WordSize \in Nat /\ First(y) * WordSize \in Nat
        <3>1. /\ First(x) \in Nat /\ First(x) * WordSize \in Nat
              /\ x % WordSize \in 0 .. WordSize - 1
              /\ x = First(x) * WordSize + (x % WordSize)
            BY Divide
        <3>2. /\ First(y) \in Nat /\ First(y) * WordSize \in Nat
              /\ y % WordSize \in 0 .. WordSize - 1
              /\ y = First(y) * WordSize + (y % WordSize)
            BY Divide
        <3>3. First(x) * WordSize <= x
            BY <1>1, <3>1
        <3>4. y < First(y) * WordSize + WordSize
            BY <1>1, <3>2
        <3>5. QED
            BY <3>1, <3>2, <3>3, <3>4
    <2>2. First(x) * WordSize < First(y) * WordSize + WordSize
        BY <1>1, <1>2, <2>1
    <2>3. QED
        BY <2>1, <2>2, WordsOrder
<1>3. p + WordSize - 1 \in Nat /\ q + WordSize - 1 \in Nat
      /\ p + WordSize - 1 <= q + WordSize - 1 /\ p <= p + WordSize - 1
    BY <1>1
<1>4. Up(p) = First(p + WordSize - 1) /\ Up(q) = First(q + WordSize - 1)
    BY <1>1 DEF Up, End, First
<1>5. QED
    BY <1>2, <1>3, <1>4

\* The bytes of a word.
LEMMA InWord ==
    ASSUME NEW b \in Nat, NEW w \in Nat
    PROVE  First(b) = w <=> w * WordSize <= b /\ b < w * WordSize + WordSize
<1>1. WordSize \in Nat \ {0}
    BY RegionAssumption
<1>2. /\ First(b) \in Nat /\ First(b) * WordSize \in Nat
      /\ b % WordSize \in 0 .. WordSize - 1
      /\ b = First(b) * WordSize + (b % WordSize)
    BY Divide
<1>3. ASSUME w * WordSize <= b, b < w * WordSize + WordSize PROVE First(b) = w
    <2>1. w * WordSize \in Nat
        BY WordsOrder
    <2>2. First(b) * WordSize < w * WordSize + WordSize
          /\ w * WordSize < First(b) * WordSize + WordSize
        BY <1>1, <1>2, <1>3, <2>1
    <2>3. First(b) \in Nat
        BY <1>2
    <2>4. First(b) <= w /\ w <= First(b)
        BY <2>2, <2>3, WordsOrder
    <2>5. QED
        BY <2>3, <2>4
<1>4. QED
    BY <1>1, <1>2, <1>3
-----------------------------------------------------------------------------
(* Sequences of bytes.                                                     *)

\* A function on 1 .. k is a sequence.
LEMMA MadeSeq ==
    ASSUME NEW k \in Nat, NEW s \in [1 .. k -> Bytes]
    PROVE  s \in Seq(Bytes) /\ Len(s) = k
<1>1. s \in Seq(Bytes)
    BY SeqDef
<1>2. QED
    BY <1>1, LenProperties

\* The bytes from the i-th on.
LEMMA CutMade ==
    ASSUME NEW k \in Nat, NEW s \in [1 .. k -> Bytes], NEW i \in Nat, NEW n \in Nat, i + n <= k
    PROVE  /\ Cut(s, i, n) \in [1 .. n -> Bytes]
           /\ \A j \in 1 .. n : Cut(s, i, n)[j] = s[i + j]
<1>1. \A x \in i + 1 .. i + n : s[x] \in Bytes
    OBVIOUS
<1>2. i + 1 \in Int /\ i + n \in Int /\ (i + n) - (i + 1) + 1 = n
      /\ (i + 1 <= i + n <=> n # 0) /\ \A j \in 1 .. n : (i + 1) + j - 1 = i + j
    OBVIOUS
<1>3. /\ SubSeq(s, i + 1, i + n) \in Seq(Bytes)
      /\ Len(SubSeq(s, i + 1, i + n)) = IF i + 1 <= i + n THEN (i + n) - (i + 1) + 1 ELSE 0
      /\ \A j \in 1 .. (i + n) - (i + 1) + 1 : SubSeq(s, i + 1, i + n)[j] = s[(i + 1) + j - 1]
    BY <1>1, <1>2, SubSeqProperties
<1>4. Len(SubSeq(s, i + 1, i + n)) = n
    BY <1>2, <1>3
<1>5. SubSeq(s, i + 1, i + n) \in [1 .. n -> Bytes]
    BY <1>3, <1>4, LenProperties
<1>6. QED
    BY <1>2, <1>3, <1>5 DEF Cut

\* All bytes from the i-th on.
LEMMA FromMade ==
    ASSUME NEW k \in Nat, NEW s \in [1 .. k -> Bytes], NEW i \in 0 .. k
    PROVE  /\ From(s, i) \in [1 .. k - i -> Bytes]
           /\ \A j \in 1 .. k - i : From(s, i)[j] = s[i + j]
<1> DEFINE n == k - i
<1>1. Len(s) = k /\ i \in Nat /\ n \in Nat /\ i + n = k /\ i + n <= k
    BY MadeSeq
<1> HIDE DEF n
<1>2. From(s, i) = Cut(s, i, n)
    BY <1>1 DEF From, Cut
<1>3. Cut(s, i, n) \in [1 .. n -> Bytes] /\ \A j \in 1 .. n : Cut(s, i, n)[j] = s[i + j]
    BY <1>1, CutMade
<1>4. QED
    BY <1>2, <1>3 DEF n

\* Bytes behind bytes.
LEMMA JoinMade ==
    ASSUME NEW k \in Nat, NEW n \in Nat, NEW s \in [1 .. k -> Bytes], NEW t \in [1 .. n -> Bytes]
    PROVE  /\ s \o t \in [1 .. k + n -> Bytes]
           /\ \A j \in 1 .. k + n : (s \o t)[j] = IF j <= k THEN s[j] ELSE t[j - k]
<1>1. s \in Seq(Bytes) /\ t \in Seq(Bytes) /\ Len(s) = k /\ Len(t) = n
    BY MadeSeq
<1>2. /\ s \o t \in Seq(Bytes) /\ Len(s \o t) = k + n
      /\ \A j \in 1 .. k + n : (s \o t)[j] = IF j <= k THEN s[j] ELSE t[j - k]
    BY <1>1, ConcatProperties
<1>3. s \o t \in [1 .. k + n -> Bytes]
    BY <1>2, LenProperties
<1>4. QED
    BY <1>2, <1>3
-----------------------------------------------------------------------------
(* The words of the region.                                                *)

\* The words from..to-1 are so many bytes of the region.
LEMMA BytesLoaded ==
    ASSUME memory \in [Region -> Bytes], NEW from \in Nat, NEW to \in Nat, from <= to,
           to * WordSize <= Size + WordSize
    PROVE  /\ (to - from) * WordSize \in Nat
           /\ (to - from) * WordSize = to * WordSize - from * WordSize
           /\ LoadWords(from, to) \in [1 .. (to - from) * WordSize -> Bytes]
           /\ \A i \in 1 .. (to - from) * WordSize :
                  LoadWords(from, to)[i] = memory[from * WordSize + i - 1]
<1>1. WordSize \in Nat \ {0} /\ Size \in Nat
    BY RegionAssumption
<1>2. from * WordSize \in Nat /\ to * WordSize \in Nat /\ from * WordSize <= to * WordSize
    BY <1>1, WordsOrder
<1>3. (to - from) * WordSize = to * WordSize - from * WordSize
    BY <1>1
<1> DEFINE n == (to - from) * WordSize
<1>4. n \in Nat /\ n = to * WordSize - from * WordSize
    BY <1>2, <1>3
<1> DEFINE f == from * WordSize
<1> DEFINE g == to * WordSize
<1> HIDE DEF n, f, g
<1>5. ASSUME NEW i \in 1 .. n
      PROVE  f + i - 1 \in Region
    <2>1. f \in Nat /\ g \in Nat /\ n = g - f /\ g <= Size + WordSize
        BY <1>2, <1>4 DEF n, f, g
    <2>2. QED
        BY <1>1, <2>1 DEF Region
<1>6. LoadWords(from, to) = [i \in 1 .. n |-> memory[f + i - 1]]
    BY DEF LoadWords, n, f
<1>7. LoadWords(from, to) \in [1 .. n -> Bytes]
    BY <1>5, <1>6
<1>8. QED
    BY <1>3, <1>4, <1>6, <1>7 DEF n, f

\* The words an aligned access spans.
LEMMA AlignedSpan ==
    ASSUME NEW p \in Nat, p % WordSize = 0, NEW m \in Nat
    PROVE  /\ p = First(p) * WordSize /\ First(p) \in Nat
           /\ End(p, m) = Up(p + m) /\ Up(p + m) \in Nat /\ First(p) <= Up(p + m)
           /\ Up(p + m) = First(p) + Up(m) /\ Up(m) \in Nat
           /\ (Up(p + m) - First(p)) * WordSize = Up(m) * WordSize
           /\ (p + m) % WordSize = m % WordSize
           /\ Up(p + m) * WordSize = p + Up(m) * WordSize
<1>1. WordSize \in Nat \ {0} /\ p + m \in Nat
    BY RegionAssumption
<1>2. p = First(p) * WordSize /\ First(p) \in Nat
    <2>1. p = First(p) * WordSize + (p % WordSize) /\ First(p) \in Nat
          /\ First(p) * WordSize \in Nat
        BY Divide
    <2>2. QED
        BY <2>1
<1>3. p + m = m + First(p) * WordSize
    BY <1>2
<1>4. First(p + m) = First(m) + First(p) /\ (p + m) % WordSize = m % WordSize
    <2>1. /\ First(m + First(p) * WordSize) = First(m) + First(p)
          /\ (m + First(p) * WordSize) % WordSize = m % WordSize
        BY <1>2, AddWords
    <2>2. QED
        BY <1>3, <2>1
<1>5. First(m) \in Nat
    BY Divide
<1>6. Up(p + m) = First(p) + Up(m) /\ Up(p + m) \in Nat /\ Up(m) \in Nat
    <2>1. Up(p + m) \in Nat
          /\ Up(p + m) = IF (p + m) % WordSize = 0 THEN First(p + m) ELSE First(p + m) + 1
        BY <1>1, UpFacts
    <2>2. Up(m) \in Nat /\ Up(m) = IF m % WordSize = 0 THEN First(m) ELSE First(m) + 1
        BY UpFacts
    <2>3. QED
        BY <1>2, <1>4, <1>5, <2>1, <2>2
<1>7. /\ (Up(p + m) - First(p)) * WordSize = Up(m) * WordSize
      /\ Up(p + m) * WordSize = First(p) * WordSize + Up(m) * WordSize
    <2>1. Up(p + m) - First(p) = Up(m)
        BY <1>2, <1>6
    <2>2. (First(p) + Up(m)) * WordSize = First(p) * WordSize + Up(m) * WordSize
        BY <1>1, <1>2, <1>6
    <2>3. QED
        BY <1>6, <2>1, <2>2
<1>8. QED
    BY <1>2, <1>4, <1>6, <1>7, EndUp

\* An aligned read returns the bytes at its position.
LEMMA GotAligned ==
    ASSUME memory \in [Region -> Bytes], NEW p \in Nat, p % WordSize = 0, NEW m \in Nat,
           Up(p + m) * WordSize <= Size + WordSize
    PROVE  /\ Got(p, m) \in [1 .. m -> Bytes]
           /\ \A i \in 1 .. m : Got(p, m)[i] = memory[p + i - 1]
<1>1. WordSize \in Nat \ {0}
    BY RegionAssumption
<1> DEFINE k == Up(m) * WordSize
<1> DEFINE got == LoadWords(First(p), End(p, m))
<1>2. /\ p = First(p) * WordSize /\ First(p) \in Nat
      /\ End(p, m) \in Nat /\ First(p) <= End(p, m)
      /\ End(p, m) * WordSize <= Size + WordSize
      /\ (End(p, m) - First(p)) * WordSize = k
    <2>1. /\ p = First(p) * WordSize /\ First(p) \in Nat
          /\ End(p, m) = Up(p + m) /\ Up(p + m) \in Nat /\ First(p) <= Up(p + m)
          /\ (Up(p + m) - First(p)) * WordSize = Up(m) * WordSize
        BY AlignedSpan
    <2>2. QED
        BY <2>1
<1>3. k \in Nat /\ m <= k
    BY UpFacts
<1>4. got \in [1 .. k -> Bytes] /\ \A i \in 1 .. k : got[i] = memory[p + i - 1]
    <2>1. /\ LoadWords(First(p), End(p, m)) \in [1 .. (End(p, m) - First(p)) * WordSize -> Bytes]
          /\ \A i \in 1 .. (End(p, m) - First(p)) * WordSize :
                 LoadWords(First(p), End(p, m))[i] = memory[First(p) * WordSize + i - 1]
        BY <1>2, BytesLoaded
    <2>2. QED
        BY <1>2, <2>1
<1> HIDE DEF k
<1>5. Len(got) = k
    BY <1>3, <1>4, MadeSeq
<1>6. CASE Len(got) > m
    <2>1. Got(p, m) = Cut(got, 0, m)
        BY <1>6 DEF Got
    <2>2. /\ Cut(got, 0, m) \in [1 .. m -> Bytes]
          /\ \A j \in 1 .. m : Cut(got, 0, m)[j] = got[0 + j]
        <3> HIDE DEF got
        <3>1. 0 \in Nat /\ 0 + m <= k /\ k \in Nat
            BY <1>3
        <3>2. got \in [1 .. k -> Bytes]
            BY <1>4
        <3>3. QED
            BY <3>1, <3>2, CutMade
    <2>3. QED
        BY <1>3, <1>4, <2>1, <2>2
<1>7. CASE ~(Len(got) > m)
    <2>1. Got(p, m) = got /\ k = m
        BY <1>3, <1>5, <1>7 DEF Got
    <2>2. QED
        BY <1>4, <2>1
<1>8. QED
    BY <1>6, <1>7

\* What the bytes given to write_aligned_once() are merged with: nothing, if they are
\* whole words or fewer than one word, and the rest of the last word otherwise.
LEMMA MergedAligned ==
    ASSUME memory \in [Region -> Bytes], NEW p \in Nat, p % WordSize = 0, NEW m \in Nat,
           NEW d \in [1 .. m -> Bytes], Up(p + m) * WordSize <= Size + WordSize
    PROVE  /\ ReadFor(p, d) \subseteq Span(p, m)
           /\ m % WordSize = 0 => ReadFor(p, d) = {} /\ Merged(p, d) = d
           /\ m % WordSize # 0 /\ Up(m) <= 1 => Merged(p, d) = d
           /\ m % WordSize # 0 /\ Up(m) > 1 =>
                  /\ Merged(p, d) \in [1 .. Up(m) * WordSize -> Bytes]
                  /\ \A i \in 1 .. m : Merged(p, d)[i] = d[i]
                  /\ \A i \in m + 1 .. Up(m) * WordSize : Merged(p, d)[i] = memory[p + i - 1]
<1>1. WordSize \in Nat \ {0} /\ Len(d) = m
    BY RegionAssumption, MadeSeq
<1>2. /\ p = First(p) * WordSize /\ First(p) \in Nat
      /\ End(p, m) \in Nat /\ First(p) <= End(p, m) /\ End(p, m) = First(p) + Up(m)
      /\ Up(m) \in Nat /\ End(p, m) = Up(p + m)
      /\ (p + m) % WordSize = m % WordSize
      /\ End(p, m) * WordSize = p + Up(m) * WordSize
    <2>1. /\ p = First(p) * WordSize /\ First(p) \in Nat
          /\ End(p, m) = Up(p + m) /\ Up(p + m) \in Nat /\ First(p) <= Up(p + m)
          /\ Up(p + m) = First(p) + Up(m) /\ Up(m) \in Nat
          /\ (p + m) % WordSize = m % WordSize
          /\ Up(p + m) * WordSize = p + Up(m) * WordSize
        BY AlignedSpan
    <2>2. QED
        BY <2>1
<1>3. ~HasFirst(p) /\ WithFirst(p, d) = d /\ Rest(p, d) = m % WordSize
    BY <1>1, <1>2 DEF HasFirst, WithFirst, Rest
<1>4. HasLast(p, d) <=> Up(m) > 1 /\ m % WordSize # 0
    BY <1>1, <1>2, <1>3 DEF HasLast
<1>5. ReadFor(p, d) \subseteq Span(p, m) /\ (m % WordSize = 0 => ReadFor(p, d) = {})
    BY <1>1, <1>3, <1>4 DEF ReadFor
<1>6. ~HasLast(p, d) => Merged(p, d) = d
    BY <1>3 DEF Merged
<1>7. ASSUME m % WordSize # 0, Up(m) > 1
      PROVE  /\ Merged(p, d) \in [1 .. Up(m) * WordSize -> Bytes]
             /\ \A i \in 1 .. m : Merged(p, d)[i] = d[i]
             /\ \A i \in m + 1 .. Up(m) * WordSize : Merged(p, d)[i] = memory[p + i - 1]
    <2> DEFINE word == LoadWords(End(p, m) - 1, End(p, m))
    <2> DEFINE r == m % WordSize
    <2> DEFINE n == WordSize - r
    <2> DEFINE k == Up(m) * WordSize
    <2> DEFINE e == End(p, m) - 1
    <2>1. Merged(p, d) = d \o From(word, r)
        BY <1>1, <1>3, <1>4, <1>7 DEF Merged
    <2>2. r \in 0 .. WordSize /\ n \in Nat /\ r + n = WordSize
        <3>1. m % WordSize \in 0 .. WordSize - 1
            BY Divide
        <3>2. QED
            BY <1>1, <3>1
    <2>3. k \in Nat /\ m + n = k
        <3>1. /\ m = First(m) * WordSize + (m % WordSize)
              /\ First(m) \in Nat /\ First(m) * WordSize \in Nat
            BY Divide
        <3>2. Up(m) = First(m) + 1
            BY <1>7, UpFacts
        <3>3. (First(m) + 1) * WordSize = First(m) * WordSize + WordSize
            BY <3>1, WordsOrder
        <3>4. QED
            BY <1>1, <2>2, <3>1, <3>2, <3>3
    <2>4. /\ e \in Nat /\ e + 1 = End(p, m) /\ e * WordSize \in Nat
          /\ e * WordSize + WordSize = p + k
          /\ End(p, m) * WordSize <= Size + WordSize
        <3>1. e \in Nat /\ e + 1 = End(p, m)
            BY <1>2, <1>7
        <3>2. (e + 1) * WordSize = e * WordSize + WordSize /\ e * WordSize \in Nat
            BY <3>1, WordsOrder
        <3>3. QED
            BY <1>2, <3>1, <3>2
    <2>5. word \in [1 .. WordSize -> Bytes]
          /\ \A i \in 1 .. WordSize : word[i] = memory[e * WordSize + i - 1]
        <3> HIDE DEF e
        <3>1. /\ LoadWords(e, e + 1) \in [1 .. (e + 1 - e) * WordSize -> Bytes]
              /\ \A i \in 1 .. (e + 1 - e) * WordSize :
                     LoadWords(e, e + 1)[i] = memory[e * WordSize + i - 1]
            BY <2>4, BytesLoaded
        <3>2. (e + 1 - e) * WordSize = WordSize
            BY <1>1, <2>4
        <3>3. word = LoadWords(e, e + 1)
            BY <2>4 DEF e
        <3>4. QED
            BY <3>1, <3>2, <3>3
    <2> HIDE DEF word, r, n, k, e
    <2>6. From(word, r) \in [1 .. n -> Bytes]
          /\ \A j \in 1 .. n : From(word, r)[j] = word[r + j]
        <3>1. WordSize - r = n /\ WordSize \in Nat /\ r \in 0 .. WordSize
            BY <1>1, <2>2 DEF n
        <3>2. word \in [1 .. WordSize -> Bytes]
            BY <2>5
        <3>3. /\ From(word, r) \in [1 .. WordSize - r -> Bytes]
              /\ \A j \in 1 .. WordSize - r : From(word, r)[j] = word[r + j]
            BY <3>1, <3>2, FromMade
        <3>4. QED
            BY <3>1, <3>3
    <2>7. /\ d \o From(word, r) \in [1 .. m + n -> Bytes]
          /\ \A j \in 1 .. m + n :
                 (d \o From(word, r))[j] = IF j <= m THEN d[j] ELSE From(word, r)[j - m]
        <3> DEFINE t == From(word, r)
        <3>1. t \in [1 .. n -> Bytes] /\ n \in Nat
            BY <2>2, <2>6
        <3> HIDE DEF t
        <3>2. /\ d \o t \in [1 .. m + n -> Bytes]
              /\ \A j \in 1 .. m + n : (d \o t)[j] = IF j <= m THEN d[j] ELSE t[j - m]
            BY <3>1, JoinMade, ZenonT(60)
        <3>3. QED
            BY <3>2 DEF t
    <2>8. \A i \in 1 .. m : Merged(p, d)[i] = d[i]
        BY <2>1, <2>2, <2>7
    <2>9. ASSUME NEW i \in m + 1 .. k
          PROVE  Merged(p, d)[i] = memory[p + i - 1]
        <3>1. i \in 1 .. m + n /\ ~(i <= m) /\ i - m \in 1 .. n
            BY <2>2, <2>3
        <3>2. Merged(p, d)[i] = word[r + (i - m)]
            BY <2>1, <2>6, <2>7, <3>1
        <3>3. r + (i - m) \in 1 .. WordSize /\ e * WordSize + (r + (i - m)) - 1 = p + i - 1
            BY <1>1, <2>2, <2>3, <2>4, <3>1
        <3>4. QED
            BY <2>5, <3>2, <3>3
    <2>10. Merged(p, d) \in [1 .. k -> Bytes]
        BY <2>1, <2>3, <2>7
    <2>11. QED
        BY <2>8, <2>9, <2>10 DEF k
<1>8. QED
    BY <1>2, <1>4, <1>5, <1>6, <1>7

\* Whole words are written as they are.
LEMMA StoreWords ==
    ASSUME NEW p \in Nat, p % WordSize = 0, NEW m \in Nat, NEW d \in [1 .. m -> Bytes],
           NEW k \in Nat, Up(m) = k, Merged(p, d) \in [1 .. k * WordSize -> Bytes],
           NEW then, Store(p, d, then)
    PROVE  /\ memory' = [b \in Region |-> IF p <= b /\ b < p + k * WordSize
                                          THEN Merged(p, d)[b - p + 1] ELSE memory[b]]
           /\ writes' = Count(writes, Span(p, m))
           /\ pos' = p + k * WordSize /\ pc' = then
<1> DEFINE e == Merged(p, d)
<1> DEFINE F == First(p)
<1> DEFINE written == {w \in Span(p, Len(d)) : (w - First(p) + 1) * WordSize <= Len(e)}
<1>1. WordSize \in Nat \ {0} /\ Size \in Nat /\ Len(d) = m
    BY RegionAssumption, MadeSeq
<1>2. k * WordSize \in Nat /\ Len(e) = k * WordSize
    <2>1. k * WordSize \in Nat
        BY WordsOrder
    <2>2. QED
        BY <2>1, MadeSeq
<1>3. p = F * WordSize /\ F \in Nat /\ End(p, m) = F + k
    BY AlignedSpan
<1>4. First(Len(e)) = k
    <2>1. k * WordSize = k * WordSize + 0 /\ 0 \in 0 .. WordSize - 1
        BY <1>1, <1>2
    <2>2. First(k * WordSize) = k
        BY <1>2, <2>1, Quotient
    <2>3. QED
        BY <1>2, <2>2
<1> HIDE DEF e
<1>5. Span(p, m) = F .. F + k - 1
    BY <1>3 DEF Span
<1>6. written = Span(p, m)
    <2>1. ASSUME NEW w \in F .. F + k - 1
          PROVE  (w - F + 1) * WordSize <= k * WordSize
        <3>1. w - F + 1 \in Nat /\ w - F + 1 <= k
            BY <1>3
        <3>2. QED
            BY <3>1, WordsOrder
    <2>2. QED
        BY <1>1, <1>2, <1>5, <2>1
<1>7. ASSUME NEW b \in Region
      PROVE  First(b) \in Span(p, m) <=> p <= b /\ b < p + k * WordSize
    <2>1. b \in Nat
        BY <1>1 DEF Region
    <2>2. /\ First(b) \in Nat /\ First(b) * WordSize \in Nat
          /\ First(b) * WordSize <= b /\ b < First(b) * WordSize + WordSize
        <3>1. /\ First(b) \in Nat /\ First(b) * WordSize \in Nat
              /\ b % WordSize \in 0 .. WordSize - 1
              /\ b = First(b) * WordSize + (b % WordSize)
            BY <2>1, Divide
        <3>2. QED
            BY <1>1, <2>1, <3>1
    <2>3. (F + k) * WordSize = F * WordSize + k * WordSize /\ F * WordSize \in Nat
        BY <1>1, <1>3
    <2>4. First(b) \in Span(p, m) <=> F <= First(b) /\ First(b) + 1 <= F + k
        BY <1>3, <1>5, <2>2
    <2>5. /\ (First(b) + 1) * WordSize = First(b) * WordSize + WordSize
          /\ F <= First(b) => F * WordSize <= First(b) * WordSize
          /\ F * WordSize < First(b) * WordSize + WordSize => F <= First(b)
        BY <1>3, <2>2, WordsOrder
    <2>6. First(b) + 1 <= F + k => (First(b) + 1) * WordSize <= (F + k) * WordSize
        BY <1>3, <2>2, WordsOrder
    <2>7. F + k <= First(b) => (F + k) * WordSize <= First(b) * WordSize
        BY <1>3, <2>2, WordsOrder
    <2>8. F <= First(b) <=> p <= b
        BY <1>1, <1>3, <2>1, <2>2, <2>3, <2>5
    <2>9. First(b) + 1 <= F + k <=> b < p + k * WordSize
        <3>1. ASSUME First(b) + 1 <= F + k
              PROVE  b < p + k * WordSize
            <4>1. First(b) * WordSize + WordSize <= F * WordSize + k * WordSize
                BY <2>3, <2>5, <2>6, <3>1
            <4>2. QED
                BY <1>1, <1>2, <1>3, <2>1, <2>2, <2>3, <4>1
        <3>2. ASSUME ~(First(b) + 1 <= F + k)
              PROVE  ~(b < p + k * WordSize)
            <4>1. F + k <= First(b)
                BY <1>3, <2>2, <3>2
            <4>2. F * WordSize + k * WordSize <= First(b) * WordSize
                BY <2>3, <2>7, <4>1
            <4>3. QED
                BY <1>2, <1>3, <2>1, <2>2, <2>3, <4>2
        <3>3. QED
            BY <3>1, <3>2
    <2>10. QED
        BY <2>4, <2>8, <2>9
<1>8. /\ memory' = [b \in Region |-> IF First(b) \in written
                                     THEN e[b - First(p) * WordSize + 1] ELSE memory[b]]
      /\ writes' = Count(writes, written)
      /\ pos' = p + Len(e)
      /\ pc' = IF Complete(p, d) THEN then ELSE "error"
    BY DEF Store, e
<1>9. Complete(p, d)
    <2>1. Len(e) \div WordSize = k /\ End(p, Len(d)) - First(p) = k
        BY <1>1, <1>3, <1>4 DEF First
    <2>2. QED
        BY <2>1 DEF Complete, e
<1>10. memory' = [b \in Region |-> IF p <= b /\ b < p + k * WordSize
                                   THEN e[b - p + 1] ELSE memory[b]]
    BY <1>3, <1>6, <1>7, <1>8
<1>11. QED
    BY <1>2, <1>6, <1>8, <1>9, <1>10 DEF e

\* Fewer bytes than a word are not: the call is over.
LEMMA StorePart ==
    ASSUME memory \in [Region -> Bytes], NEW p \in Nat, p % WordSize = 0, NEW m \in Nat,
           NEW d \in [1 .. m -> Bytes], m % WordSize # 0, Up(m) <= 1, Merged(p, d) = d,
           NEW then, Store(p, d, then)
    PROVE  /\ memory' = memory /\ writes' = Count(writes, {})
           /\ pos' = p + m /\ pos' <= Up(p + m) * WordSize /\ pc' = "error"
<1>1. WordSize \in Nat \ {0} /\ Len(d) = m
    BY RegionAssumption, MadeSeq
<1>2. Up(m) = 1 /\ First(m) = 0
    <2>1. Up(m) = First(m) + 1 /\ First(m) \in Nat
        BY UpFacts, Divide
    <2>2. QED
        BY <2>1
<1>3. m < WordSize
    <2>1. m = First(m) * WordSize + (m % WordSize) /\ m % WordSize \in 0 .. WordSize - 1
        BY Divide
    <2>2. First(m) * WordSize = 0
        BY <1>1, <1>2
    <2>3. QED
        BY <1>1, <2>1, <2>2
<1>4. First(p) \in Nat /\ End(p, m) = First(p) + 1
    BY <1>2, AlignedSpan
<1>5. {w \in Span(p, Len(d)) : (w - First(p) + 1) * WordSize <= Len(Merged(p, d))} = {}
    <2>1. Span(p, Len(d)) = {First(p)}
        BY <1>1, <1>4 DEF Span
    <2>2. First(p) - First(p) + 1 = 1
        BY <1>4
    <2>3. 1 * WordSize = WordSize
        BY <1>1
    <2>4. ~((First(p) - First(p) + 1) * WordSize <= Len(Merged(p, d)))
        BY <1>1, <1>3, <2>2, <2>3
    <2>5. QED
        BY <2>1, <2>4
<1>6. ~Complete(p, d)
    <2>1. Len(Merged(p, d)) \div WordSize = 0 /\ End(p, Len(d)) - First(p) = 1
        BY <1>1, <1>2, <1>4 DEF First
    <2>2. QED
        BY <2>1 DEF Complete
<1>7. /\ memory' = [b \in Region |-> memory[b]] /\ writes' = Count(writes, {})
      /\ pos' = p + m /\ pc' = "error"
    BY <1>1, <1>5, <1>6 DEF Store
<1>8. p + m <= Up(p + m) * WordSize
    BY UpFacts
<1>9. QED
    BY <1>7, <1>8

\* An aligned write puts its bytes at its position and changes no other, or it is over
\* without a change.
LEMMA StoreAligned ==
    ASSUME memory \in [Region -> Bytes], NEW p \in Nat, p % WordSize = 0, NEW m \in Nat,
           NEW d \in [1 .. m -> Bytes], Up(p + m) * WordSize <= Size + WordSize,
           NEW then, Store(p, d, then)
    PROVE  /\ pos' \in Nat /\ pos' <= Up(p + m) * WordSize
           /\ ReadFor(p, d) \subseteq Span(p, m)
           /\ m % WordSize = 0 => pos' = p + m /\ pc' = then /\ ReadFor(p, d) = {}
           /\ \/ /\ pc' = then /\ pos' % WordSize = 0
                 /\ memory' = [b \in Region |-> IF p <= b /\ b < p + m THEN d[b - p + 1]
                                                ELSE memory[b]]
                 /\ writes' = Count(writes, Span(p, m))
              \/ pc' = "error" /\ memory' = memory /\ writes' = Count(writes, {})
<1> DEFINE k == Up(m)
<1>1. WordSize \in Nat \ {0} /\ Size \in Nat
    BY RegionAssumption
<1>2. k \in Nat /\ k * WordSize \in Nat /\ m <= k * WordSize
    BY UpFacts
<1>3. Up(p + m) * WordSize = p + k * WordSize
    BY AlignedSpan
<1>4. /\ ReadFor(p, d) \subseteq Span(p, m)
      /\ m % WordSize = 0 => ReadFor(p, d) = {} /\ Merged(p, d) = d
      /\ m % WordSize # 0 /\ k <= 1 => Merged(p, d) = d
      /\ m % WordSize # 0 /\ k > 1 =>
             /\ Merged(p, d) \in [1 .. k * WordSize -> Bytes]
             /\ \A i \in 1 .. m : Merged(p, d)[i] = d[i]
             /\ \A i \in m + 1 .. k * WordSize : Merged(p, d)[i] = memory[p + i - 1]
    BY MergedAligned
<1>5. (p + k * WordSize) % WordSize = 0
    BY <1>2, AddWords
<1> HIDE DEF k
<1>6. CASE m % WordSize = 0
    <2>1. m = k * WordSize
        <3>1. m = First(m) * WordSize + (m % WordSize) /\ First(m) * WordSize \in Nat
            BY Divide
        <3>2. k = First(m)
            BY <1>6, UpFacts DEF k
        <3>3. QED
            BY <1>6, <3>1, <3>2
    <2>2. Merged(p, d) = d /\ Merged(p, d) \in [1 .. k * WordSize -> Bytes]
        BY <1>4, <1>6, <2>1
    <2>3. /\ memory' = [b \in Region |-> IF p <= b /\ b < p + k * WordSize
                                         THEN Merged(p, d)[b - p + 1] ELSE memory[b]]
          /\ writes' = Count(writes, Span(p, m))
          /\ pos' = p + k * WordSize /\ pc' = then
        BY <1>2, <2>2, StoreWords DEF k
    <2>4. pos' = p + m /\ pos' % WordSize = 0 /\ pos' \in Nat /\ pos' <= Up(p + m) * WordSize
        BY <1>2, <1>3, <1>5, <2>1, <2>3
    <2>5. memory' = [b \in Region |-> IF p <= b /\ b < p + m THEN d[b - p + 1]
                                      ELSE memory[b]]
        BY <2>1, <2>2, <2>3
    <2>6. QED
        BY <1>4, <1>6, <2>3, <2>4, <2>5
<1>7. CASE m % WordSize # 0 /\ k > 1
    <2>1. /\ memory' = [b \in Region |-> IF p <= b /\ b < p + k * WordSize
                                         THEN Merged(p, d)[b - p + 1] ELSE memory[b]]
          /\ writes' = Count(writes, Span(p, m))
          /\ pos' = p + k * WordSize /\ pc' = then
        <3>1. Merged(p, d) \in [1 .. k * WordSize -> Bytes]
            BY <1>4, <1>7
        <3>2. QED
            BY <1>2, <3>1, StoreWords DEF k
    <2>2. ASSUME NEW b \in Region
          PROVE  (IF p <= b /\ b < p + k * WordSize THEN Merged(p, d)[b - p + 1] ELSE memory[b])
                     = IF p <= b /\ b < p + m THEN d[b - p + 1] ELSE memory[b]
        <3>1. b \in Nat
            BY <1>1 DEF Region
        <3>2. CASE p <= b /\ b < p + m
            <4>1. b - p + 1 \in 1 .. m /\ b < p + k * WordSize
                BY <1>2, <3>1, <3>2
            <4>2. Merged(p, d)[b - p + 1] = d[b - p + 1]
                BY <1>4, <1>7, <4>1
            <4>3. QED
                BY <3>2, <4>1, <4>2
        <3>3. CASE p + m <= b /\ b < p + k * WordSize
            <4>1. b - p + 1 \in m + 1 .. k * WordSize /\ p + (b - p + 1) - 1 = b
                  /\ p <= b /\ ~(b < p + m)
                BY <1>2, <3>1, <3>3
            <4>2. Merged(p, d)[b - p + 1] = memory[b]
                BY <1>4, <1>7, <4>1
            <4>3. QED
                BY <3>3, <4>1, <4>2
        <3>4. CASE ~(p <= b /\ b < p + k * WordSize)
            <4>1. ~(p <= b /\ b < p + m)
                BY <1>2, <3>1, <3>4
            <4>2. QED
                BY <3>4, <4>1
        <3>5. QED
            BY <1>2, <3>1, <3>2, <3>3, <3>4
    <2>3. memory' = [b \in Region |-> IF p <= b /\ b < p + m THEN d[b - p + 1]
                                      ELSE memory[b]]
        BY <2>1, <2>2
    <2>4. pos' % WordSize = 0 /\ pos' \in Nat /\ pos' <= Up(p + m) * WordSize
        BY <1>2, <1>3, <1>5, <2>1
    <2>5. QED
        BY <1>4, <1>7, <2>1, <2>3, <2>4
<1>8. CASE m % WordSize # 0 /\ k <= 1
    <2>1. Merged(p, d) = d
        BY <1>4, <1>8
    <2>2. /\ memory' = memory /\ writes' = Count(writes, {})
          /\ pos' = p + m /\ pos' <= Up(p + m) * WordSize /\ pc' = "error"
        BY <1>8, <2>1, StorePart DEF k
    <2>3. QED
        BY <1>4, <1>8, <2>2
<1>9. QED
    BY <1>2, <1>6, <1>7, <1>8
-----------------------------------------------------------------------------
(* A call.                                                                 *)

\* What the theorems ask of the calls: they are aligned, as by default, and want at least
\* a byte.  Without the first a word is not read as one, and without the second the first
\* word is read, and written, for nothing.
AlignedCalls == \A c \in Calls : c.align /\ c.nbytes > 0

\* What was moved so far, and the words it touched.
Moved == call.nbytes - left
Touch == First(call.offset) .. Up(call.offset + Moved) - 1

\* The words touched were accessed once, no other was.
Once ==
    \A w \in Words : /\ reads[w] <= 1 /\ writes[w] <= 1
                     /\ reads[w] + writes[w] > 0 => w \in Touch

\* The bytes moved are where they belong, the others where they were.
Bytewise ==
    IF IsRead
    THEN /\ data = [i \in 1 .. Moved |-> call.offset + i - 1]
         /\ memory = [b \in Region |-> b]
    ELSE memory = [b \in Region |-> IF call.offset <= b /\ b < call.offset + Moved
                                    THEN Size + b - call.offset ELSE b]

\* As long as something is left it is left from pos on, and pos is at a word.
AtWord ==
    /\ left > 0 => pos = call.offset + Moved
    /\ pos % WordSize = 0 \/ (left = 0 /\ Trxn > 0)

RegionInv ==
    /\ RegionType
    /\ InRange(call)
    /\ Once
    /\ pc = "head" => /\ left = call.nbytes /\ data = <<>> /\ memory = [b \in Region |-> b]
                      /\ \A w \in Words : reads[w] = 0 /\ writes[w] = 0
    /\ pc # "head" => call.offset % WordSize = 0 \/ Moved >= FirstBytes(call.nbytes)
    /\ pc \in {"loop", "aligned", "tail"} => AtWord
    /\ pc \in {"loop", "aligned", "tail", "done"} => Bytewise
    /\ pc = "tail" => left < WordSize
    /\ pc = "done" => left = 0

\* A call, as far as it got.
LEMMA CallFacts ==
    ASSUME AlignedCalls, call \in Calls, InRange(call), left \in 0 .. call.nbytes
    PROVE  /\ WordSize \in Nat \ {0} /\ Size \in Nat
           /\ call.op \in {"read", "write"}
           /\ call.offset \in Nat /\ call.nbytes \in Nat /\ call.trxn \in Nat
           /\ call.nbytes > 0 /\ call.offset + call.nbytes <= Size
           /\ call.trxn % WordSize = 0
           /\ Moved \in Nat /\ Moved + left = call.nbytes
           /\ Unaligned <=> call.offset % WordSize # 0
<1>1. /\ call.op \in {"read", "write"} /\ call.offset \in Nat /\ call.nbytes \in Nat
      /\ call.trxn \in Nat /\ call.align /\ call.nbytes > 0
    BY RegionAssumption DEF AlignedCalls
<1>2. QED
    BY <1>1, RegionAssumption DEF InRange, Moved, Unaligned

\* An access counts once for every word it is of.
LEMMA CountFacts ==
    ASSUME NEW f \in [Words -> Nat], NEW S
    PROVE  /\ Count(f, S) \in [Words -> Nat]
           /\ \A w \in Words : Count(f, S)[w] = IF w \in S THEN f[w] + 1 ELSE f[w]
    BY DEF Count

\* Words accessed once, and none of them again.
LEMMA OnceKept ==
    ASSUME RegionType, Once, NEW R, NEW V, NEW T,
           reads' = Count(reads, R), writes' = Count(writes, V),
           R \cap Touch = {}, V \cap Touch = {},
           R \subseteq T, V \subseteq T, Touch \subseteq T
    PROVE  /\ reads' \in [Words -> Nat] /\ writes' \in [Words -> Nat]
           /\ \A w \in Words : /\ reads'[w] <= 1 /\ writes'[w] <= 1
                               /\ reads'[w] + writes'[w] > 0 => w \in T
<1>1. reads \in [Words -> Nat] /\ writes \in [Words -> Nat]
    BY DEF RegionType
<1>2. /\ reads' \in [Words -> Nat]
      /\ \A w \in Words : reads'[w] = IF w \in R THEN reads[w] + 1 ELSE reads[w]
    BY <1>1, CountFacts
<1>3. /\ writes' \in [Words -> Nat]
      /\ \A w \in Words : writes'[w] = IF w \in V THEN writes[w] + 1 ELSE writes[w]
    BY <1>1, CountFacts
<1>4. ASSUME NEW w \in Words
      PROVE  /\ reads'[w] <= 1 /\ writes'[w] <= 1
             /\ reads'[w] + writes'[w] > 0 => w \in T
    <2>1. reads[w] \in Nat /\ writes[w] \in Nat
          /\ reads[w] <= 1 /\ writes[w] <= 1 /\ (reads[w] + writes[w] > 0 => w \in Touch)
        BY <1>1 DEF Once
    <2>2. w \notin Touch => reads[w] = 0 /\ writes[w] = 0
        BY <2>1
    <2>3. QED
        BY <1>2, <1>3, <2>1, <2>2
<1>5. QED
    BY <1>2, <1>3, <1>4

\* The words of m bytes more are behind those touched.
LEMMA SpanNext ==
    ASSUME call.offset \in Nat, Moved \in Nat, NEW p \in Nat, p % WordSize = 0, NEW m \in Nat,
           m > 0 => p = call.offset + Moved
    PROVE  LET T == First(call.offset) .. Up(call.offset + (Moved + m)) - 1
           IN  Span(p, m) \cap Touch = {} /\ Span(p, m) \subseteq T /\ Touch \subseteq T
<1> DEFINE o == call.offset
<1> DEFINE q == o + Moved
<1> DEFINE T == First(o) .. Up(o + (Moved + m)) - 1
<1>1. q \in Nat /\ q + m = o + (Moved + m) /\ o \in Nat /\ o <= q /\ q + m \in Nat /\ q <= q + m
    OBVIOUS
<1> HIDE DEF q, o
<1>2. /\ First(o) \in Nat /\ First(q) \in Nat /\ Up(q) \in Nat /\ Up(q + m) \in Nat
      /\ First(o) <= First(q) /\ First(q) <= Up(q) /\ Up(q) <= Up(q + m)
    BY <1>1, Divide, UpFacts, UpOrder
<1>3. Touch = First(o) .. Up(q) - 1 /\ T = First(o) .. Up(q + m) - 1
    BY <1>1 DEF Touch, o, q
<1> HIDE DEF T
<1>4. Touch \subseteq T
    BY <1>2, <1>3
<1>5. /\ First(p) \in Nat /\ Up(p + m) \in Nat
      /\ Span(p, m) = First(p) .. Up(p + m) - 1
      /\ Up(p + m) = First(p) + Up(m) /\ Up(m) \in Nat
    BY AlignedSpan DEF Span
<1>6. CASE m = 0
    <2>1. Up(p + m) = First(p)
        BY <1>6, UpFacts
    <2>2. Span(p, m) = {}
        BY <1>5, <2>1
    <2>3. QED
        BY <1>4, <2>2 DEF o, T
<1>7. CASE m > 0
    <2>1. p = q
        BY <1>7 DEF q, o
    <2>2. Up(q) = First(q)
        BY <1>1, <2>1, UpFacts
    <2>3. Span(p, m) = First(q) .. Up(q + m) - 1
        BY <1>5, <2>1
    <2>4. Span(p, m) \cap Touch = {} /\ Span(p, m) \subseteq T
        BY <1>2, <1>3, <2>2, <2>3
    <2>5. QED
        BY <1>4, <2>4 DEF o, T
<1>8. QED
    BY <1>6, <1>7

\* A call starts with nothing moved.
LEMMA RegionInitInv ==
    ASSUME AlignedCalls, RegionInit
    PROVE  RegionInv
<1>1. call \in Calls /\ InRange(call) /\ left = call.nbytes /\ pc = "head" /\ pos = 0
    BY DEF RegionInit
<1>2. call.nbytes \in Nat /\ WordSize \in Nat \ {0} /\ Size \in Nat
    BY <1>1, RegionAssumption
<1>3. left \in 0 .. call.nbytes
    BY <1>1, <1>2
<1>4. RegionType
    <2>1. memory \in [Region -> Bytes]
        BY <1>2 DEF RegionInit, Region, Bytes
    <2>2. <<>> \in Seq(Bytes)
        BY EmptySeq
    <2>3. pos \in 0 .. Size + WordSize
        BY <1>1, <1>2
    <2>4. QED
        BY <1>1, <1>3, <2>1, <2>2, <2>3 DEF RegionInit, RegionType
<1>5. QED
    BY <1>1, <1>4 DEF RegionInit, RegionInv, Once

\* The end of m bytes at an aligned position within the region is within the region and
\* the word behind it.
LEMMA UpInRegion ==
    ASSUME NEW p \in 0 .. Size + WordSize, p % WordSize = 0, NEW m \in Nat,
           m > 0 => p + m <= Size
    PROVE  /\ Up(p + m) * WordSize <= Size + WordSize
           /\ \A i \in 1 .. m : p + i - 1 \in Region
<1>1. WordSize \in Nat \ {0} /\ Size \in Nat /\ p \in Nat
    BY RegionAssumption
<1>2. Up(p + m) * WordSize <= Size + WordSize
    <2>1. CASE m = 0
        <3>1. Up(p + m) = First(p)
            BY <1>1, <2>1, UpFacts
        <3>2. First(p) * WordSize = p
            BY <1>1, AlignedSpan
        <3>3. QED
            BY <1>1, <3>1, <3>2
    <2>2. CASE m > 0
        <3>1. Up(p + m) * WordSize \in Nat /\ Up(p + m) * WordSize < (p + m) + WordSize
            BY <1>1, UpFacts
        <3>2. QED
            BY <1>1, <2>2, <3>1
    <2>3. QED
        BY <2>1, <2>2
<1>3. QED
    BY <1>1, <1>2 DEF Region

\* The m bytes behind those a read has.
LEMMA ReadMore ==
    ASSUME memory = [b \in Region |-> b], memory \in [Region -> Bytes],
           call.offset \in Nat, Moved \in Nat, call.offset + Moved <= Size,
           data = [i \in 1 .. Moved |-> call.offset + i - 1],
           NEW m \in Nat, NEW t \in [1 .. m -> Bytes],
           \A i \in 1 .. m : t[i] = call.offset + Moved + i - 1
    PROVE  /\ data \o t = [i \in 1 .. Moved + m |-> call.offset + i - 1]
           /\ data \o t \in Seq(Bytes)
<1>1. WordSize \in Nat \ {0} /\ Size \in Nat
    BY RegionAssumption
<1> DEFINE k == Moved
<1> DEFINE o == call.offset
<1>2. k \in Nat /\ o \in Nat /\ o + k <= Size
    OBVIOUS
<1>3. data = [i \in 1 .. k |-> o + i - 1]
    OBVIOUS
<1>4. \A i \in 1 .. m : t[i] = o + k + i - 1
    OBVIOUS
<1> HIDE DEF k, o
<1>5. data \in [1 .. k -> Bytes]
    <2>1. \A i \in 1 .. k : o + i - 1 \in Bytes
        BY <1>1, <1>2 DEF Bytes
    <2>2. QED
        BY <1>3, <2>1
<1>6. /\ data \o t \in [1 .. k + m -> Bytes]
      /\ \A j \in 1 .. k + m : (data \o t)[j] = IF j <= k THEN data[j] ELSE t[j - k]
    BY <1>2, <1>5, JoinMade
<1>7. ASSUME NEW j \in 1 .. k + m
      PROVE  (data \o t)[j] = o + j - 1
    <2>1. CASE j <= k
        <3>1. j \in 1 .. k
            BY <1>2, <2>1
        <3>2. data[j] = o + j - 1
            BY <1>3, <3>1
        <3>3. QED
            BY <1>6, <2>1, <3>2
    <2>2. CASE ~(j <= k)
        <3>1. j - k \in 1 .. m /\ o + k + (j - k) - 1 = o + j - 1
            BY <1>2, <2>2
        <3>2. t[j - k] = o + j - 1
            BY <1>4, <3>1
        <3>3. QED
            BY <1>6, <2>2, <3>2
    <2>3. QED
        BY <2>1, <2>2
<1>8. data \o t = [j \in 1 .. k + m |-> o + j - 1]
    BY <1>6, <1>7
<1>9. data \o t \in Seq(Bytes)
    <2>1. k + m \in Nat
        BY <1>2
    <2>2. QED
        BY <1>6, <2>1, MadeSeq
<1>10. QED
    BY <1>8, <1>9 DEF k, o

\* The m bytes to write that are behind those written.
LEMMA ValueFacts ==
    ASSUME Size \in Nat, call.offset \in Nat, call.nbytes \in Nat, Moved \in Nat, left \in Nat,
           Moved + left = call.nbytes, call.offset + call.nbytes <= Size,
           NEW m \in 0 .. left
    PROVE  /\ Value(m) \in [1 .. m -> Bytes]
           /\ \A i \in 1 .. m : Value(m)[i] = Size + Moved + i - 1
<1>1. WordSize \in Nat
    BY RegionAssumption
<1>2. \A i \in 1 .. m : /\ Size + call.nbytes - left + i - 1 = Size + Moved + i - 1
                        /\ Size + Moved + i - 1 \in Bytes
    BY <1>1 DEF Bytes
<1>3. QED
    BY <1>2 DEF Value

\* The region when so many bytes were written, and with m more of them at pos.
Written(k) == [b \in Region |-> IF call.offset <= b /\ b < call.offset + k
                                THEN Size + b - call.offset ELSE b]
More(m)    == [b \in Region |-> IF pos <= b /\ b < pos + m
                                THEN Size + b - call.offset ELSE memory[b]]

\* The bytes written behind those written before.
LEMMA WriteMore ==
    ASSUME call.offset \in Nat, Moved \in Nat, pos \in Nat, NEW m \in Nat,
           m > 0 => pos = call.offset + Moved, call.offset + (Moved + m) <= Size,
           memory = Written(Moved)
    PROVE  More(m) = Written(Moved + m) /\ Written(Moved + m) \in [Region -> Bytes]
<1> DEFINE o == call.offset
<1> DEFINE k == Moved
<1> DEFINE p == pos
<1>1. WordSize \in Nat \ {0} /\ Size \in Nat
    BY RegionAssumption
<1>2. /\ o \in Nat /\ k \in Nat /\ p \in Nat /\ m \in Nat
      /\ m > 0 => p = o + k
      /\ o + (k + m) <= Size
    OBVIOUS
<1>3. \A b \in Region : b \in Nat /\ b < Size + WordSize
    BY <1>1 DEF Region
<1>4. ASSUME NEW b \in Region
      PROVE  /\ (IF p <= b /\ b < p + m THEN Size + b - o
                 ELSE IF o <= b /\ b < o + k THEN Size + b - o ELSE b)
                    = IF o <= b /\ b < o + (k + m) THEN Size + b - o ELSE b
             /\ (IF o <= b /\ b < o + (k + m) THEN Size + b - o ELSE b) \in Bytes
    <2>1. b \in Nat /\ b < Size + WordSize
        BY <1>3
    <2> HIDE DEF o, k, p
    <2>2. m = 0 \/ (m > 0 /\ p = o + k)
        BY <1>2
    <2>3. QED
        BY <1>1, <1>2, <2>1, <2>2 DEF Bytes
<1>5. \A b \in Region : memory[b] = IF o <= b /\ b < o + k THEN Size + b - o ELSE b
    BY DEF Written
<1>6. QED
    BY <1>4, <1>5 DEF More, Written

\* So many bytes in one transaction keep all of it.
LEMMA TransferInv ==
    ASSUME AlignedCalls, RegionInv, pc \in {"loop", "aligned"},
           NEW m \in 0 .. left, pos % WordSize = 0,
           m % WordSize = 0 \/ (m = left /\ Trxn > 0),
           NEW then \in {"loop", "tail"}, then = "tail" => left - m < WordSize,
           Transfer(m, then)
    PROVE  RegionInv'
<1>1. /\ RegionType /\ InRange(call) /\ Once /\ Bytewise /\ AtWord
      /\ call.offset % WordSize = 0 \/ Moved >= FirstBytes(call.nbytes)
    BY DEF RegionInv
<1>2. /\ WordSize \in Nat \ {0} /\ Size \in Nat
      /\ call.op \in {"read", "write"}
      /\ call.offset \in Nat /\ call.nbytes \in Nat
      /\ call.nbytes > 0 /\ call.offset + call.nbytes <= Size
      /\ Moved \in Nat /\ Moved + left = call.nbytes
      /\ call \in Calls /\ left \in 0 .. call.nbytes
    BY <1>1, CallFacts DEF RegionType
<1>3. /\ m \in Nat /\ left \in Nat /\ m <= left /\ pos \in 0 .. Size + WordSize
      /\ m > 0 => pos = call.offset + Moved /\ pos + m <= Size
    <2>1. pos \in 0 .. Size + WordSize
        BY <1>1 DEF RegionType
    <2>2. left > 0 => pos = call.offset + Moved
        BY <1>1 DEF AtWord
    <2>3. QED
        BY <1>2, <2>1, <2>2
<1>4. call' = call /\ left' = left - m
    BY DEF Transfer
<1>5. /\ Moved' = Moved + m /\ left' \in 0 .. call'.nbytes /\ Moved' >= Moved
      /\ Trxn' = Trxn /\ InRange(call)' /\ (IsRead' <=> IsRead)
      /\ (call.offset % WordSize = 0 \/ Moved >= FirstBytes(call.nbytes))'
    <2>1. Moved' = Moved + m /\ left' \in 0 .. call'.nbytes /\ Moved' >= Moved
        BY <1>2, <1>3, <1>4 DEF Moved
    <2>2. Trxn' = Trxn /\ InRange(call)' /\ (IsRead' <=> IsRead)
        BY <1>1, <1>4 DEF Trxn, IsRead, Unaligned, FirstBytes, Skip, Lo, InRange
    <2>3. FirstBytes(call.nbytes)' = FirstBytes(call.nbytes) /\ FirstBytes(call.nbytes) \in Int
        <3>1. First(call.offset) * WordSize \in Nat
            BY <1>2, Divide
        <3>2. FirstBytes(call.nbytes) \in Int
            BY <1>2, <3>1 DEF FirstBytes, Skip, Lo
        <3>3. QED
            BY <1>4, <3>2 DEF FirstBytes, Skip, Lo, First
    <2>4. QED
        BY <1>1, <1>2, <1>4, <2>1, <2>2, <2>3
<1>6. /\ Up(pos + m) * WordSize <= Size + WordSize
      /\ \A i \in 1 .. m : pos + i - 1 \in Region
    BY <1>3, UpInRegion
<1> DEFINE T == First(call.offset) .. Up(call.offset + (Moved + m)) - 1
<1>7. /\ Span(pos, m) \cap Touch = {} /\ Span(pos, m) \subseteq T /\ Touch \subseteq T
    BY <1>2, <1>3, SpanNext
<1>8. Touch' = T
    BY <1>4, <1>5 DEF Touch, Up, End, First
<1> HIDE DEF T
<1>9. memory \in [Region -> Bytes] /\ data \in Seq(Bytes)
    BY <1>1 DEF RegionType
<1>10. CASE IsRead
    <2>1. /\ data' = data \o Got(pos, m) /\ reads' = Count(reads, Span(pos, m))
          /\ pos' = pos + m /\ pc' = then /\ memory' = memory /\ writes' = writes
        BY <1>10 DEF Transfer
    <2>2. /\ Got(pos, m) \in [1 .. m -> Bytes]
          /\ \A i \in 1 .. m : Got(pos, m)[i] = memory[pos + i - 1]
        BY <1>3, <1>6, <1>9, GotAligned
    <2>3. memory = [b \in Region |-> b] /\ data = [i \in 1 .. Moved |-> call.offset + i - 1]
        BY <1>1, <1>10 DEF Bytewise
    <2>4. \A i \in 1 .. m : Got(pos, m)[i] = call.offset + Moved + i - 1
        <3>1. \A i \in 1 .. m : memory[pos + i - 1] = pos + i - 1
            BY <1>6, <2>3
        <3>2. \A i \in 1 .. m : pos = call.offset + Moved
            BY <1>3
        <3>3. QED
            BY <2>2, <3>1, <3>2
    <2>5. data' = [i \in 1 .. Moved + m |-> call.offset + i - 1] /\ data' \in Seq(Bytes)
        <3> DEFINE t == Got(pos, m)
        <3>1. t \in [1 .. m -> Bytes] /\ \A i \in 1 .. m : t[i] = call.offset + Moved + i - 1
            BY <2>2, <2>4
        <3>2. call.offset + Moved <= Size
            BY <1>2
        <3> HIDE DEF t
        <3>3. /\ data \o t = [i \in 1 .. Moved + m |-> call.offset + i - 1]
              /\ data \o t \in Seq(Bytes)
            BY <1>2, <1>3, <1>9, <2>3, <3>1, <3>2, ReadMore
        <3>4. QED
            BY <2>1, <3>3 DEF t
    <2>6. Bytewise'
        BY <1>4, <1>5, <1>10, <2>1, <2>3, <2>5 DEF Bytewise, Region
    <2>7. writes' = Count(writes, {})
        BY <1>1, <2>1 DEF Count, RegionType
    <2>8. Once' /\ reads' \in [Words -> Nat] /\ writes' \in [Words -> Nat]
        <3>1. /\ reads' \in [Words -> Nat] /\ writes' \in [Words -> Nat]
              /\ \A w \in Words : /\ reads'[w] <= 1 /\ writes'[w] <= 1
                                  /\ reads'[w] + writes'[w] > 0 => w \in T
            BY <1>1, <1>7, <2>1, <2>7, OnceKept
        <3>2. QED
            BY <1>8, <3>1 DEF Once, Words
    <2>9. pos' \in 0 .. Size + WordSize
        BY <1>2, <1>3, <2>1
    <2>10. RegionType'
        BY <1>2, <1>4, <1>5, <1>9, <2>1, <2>5, <2>8, <2>9 DEF RegionType, Region, Bytes, Words
    <2>11. AtWord'
        <3>1. left' > 0 => pos' = call'.offset + Moved'
            <4>1. left > 0 => pos = call.offset + Moved
                BY <1>1 DEF AtWord
            <4>2. left' > 0 => left > 0
                BY <1>3, <1>4
            <4>3. call'.offset + Moved' = call.offset + (Moved + m)
                BY <1>4, <1>5
            <4>4. left' > 0 => pos' = (call.offset + Moved) + m
                BY <2>1, <4>1, <4>2
            <4>5. (call.offset + Moved) + m = call.offset + (Moved + m)
                BY <1>2, <1>3
            <4>6. QED
                BY <4>3, <4>4, <4>5
        <3>2. pos' % WordSize = 0 \/ (left' = 0 /\ Trxn' > 0)
            <4>1. CASE m % WordSize = 0
                <5>1. (pos + m) % WordSize = m % WordSize
                    BY <1>3, AlignedSpan
                <5>2. QED
                    BY <2>1, <4>1, <5>1
            <4>2. CASE m = left /\ Trxn > 0
                BY <1>3, <1>4, <1>5, <4>2
            <4>3. QED
                BY <4>1, <4>2
        <3>3. QED
            BY <3>1, <3>2 DEF AtWord
    <2>12. QED
        BY <1>4, <1>5, <2>1, <2>6, <2>8, <2>10, <2>11 DEF RegionInv
<1>11. CASE ~IsRead
    <2>1. /\ Store(pos, Value(m), then) /\ reads' = Count(reads, ReadFor(pos, Value(m)))
          /\ data' = data
        BY <1>11 DEF Transfer
    <2>2. /\ Value(m) \in [1 .. m -> Bytes]
          /\ \A i \in 1 .. m : Value(m)[i] = Size + Moved + i - 1
        BY <1>2, <1>3, ValueFacts
    <2> DEFINE d == Value(m)
    <2>3. /\ pos' \in Nat /\ pos' <= Up(pos + m) * WordSize
          /\ ReadFor(pos, d) \subseteq Span(pos, m)
          /\ m % WordSize = 0 => pos' = pos + m /\ pc' = then /\ ReadFor(pos, d) = {}
          /\ \/ /\ pc' = then /\ pos' % WordSize = 0
                /\ memory' = [b \in Region |-> IF pos <= b /\ b < pos + m THEN d[b - pos + 1]
                                               ELSE memory[b]]
                /\ writes' = Count(writes, Span(pos, m))
             \/ pc' = "error" /\ memory' = memory /\ writes' = Count(writes, {})
        <3>1. d \in [1 .. m -> Bytes] /\ Store(pos, d, then) /\ pos \in Nat
            BY <1>3, <2>1, <2>2
        <3> HIDE DEF d
        <3>2. QED
            BY <1>3, <1>6, <1>9, <3>1, StoreAligned
    <2> HIDE DEF d
    <2>4. pos' \in 0 .. Size + WordSize
        <3>1. Up(pos + m) * WordSize \in Nat
            BY <1>3, UpFacts
        <3>2. QED
            BY <1>2, <1>6, <2>3, <3>1
    <2>5. memory = [b \in Region |-> IF call.offset <= b /\ b < call.offset + Moved
                                     THEN Size + b - call.offset ELSE b]
        BY <1>1, <1>11 DEF Bytewise
    <2>6. Once' /\ reads' \in [Words -> Nat] /\ writes' \in [Words -> Nat]
        <3>1. PICK V : writes' = Count(writes, V) /\ V \subseteq Span(pos, m)
            BY <2>3
        <3>2. /\ reads' = Count(reads, ReadFor(pos, d))
              /\ ReadFor(pos, d) \cap Touch = {} /\ ReadFor(pos, d) \subseteq T
              /\ V \cap Touch = {} /\ V \subseteq T
            BY <1>7, <2>1, <2>3, <3>1 DEF d
        <3>3. /\ reads' \in [Words -> Nat] /\ writes' \in [Words -> Nat]
              /\ \A w \in Words : /\ reads'[w] <= 1 /\ writes'[w] <= 1
                                  /\ reads'[w] + writes'[w] > 0 => w \in T
            BY <1>1, <1>7, <3>1, <3>2, OnceKept
        <3>4. QED
            BY <1>8, <3>3 DEF Once, Words
    <2>7. CASE /\ pc' = then /\ pos' % WordSize = 0
               /\ memory' = [b \in Region |-> IF pos <= b /\ b < pos + m THEN d[b - pos + 1]
                                              ELSE memory[b]]
        <3>1. memory' = Written(Moved + m) /\ memory' \in [Region -> Bytes]
            <4>1. More(m) = Written(Moved + m) /\ Written(Moved + m) \in [Region -> Bytes]
                <5>1. /\ call.offset \in Nat /\ Moved \in Nat /\ pos \in Nat /\ m \in Nat
                      /\ call.offset + (Moved + m) <= Size
                    BY <1>2, <1>3
                <5>2. m > 0 => pos = call.offset + Moved
                    BY <1>3
                <5>3. memory = Written(Moved)
                    BY <2>5 DEF Written
                <5>4. QED
                    BY <5>1, <5>2, <5>3, WriteMore
            <4>2. ASSUME NEW b \in Region, pos <= b, b < pos + m
                  PROVE  d[b - pos + 1] = Size + b - call.offset
                <5>1. b \in Nat
                    BY <1>2 DEF Region
                <5>2. b - pos + 1 \in 1 .. m /\ pos = call.offset + Moved
                    BY <1>3, <4>2, <5>1
                <5>3. d[b - pos + 1] = Size + Moved + (b - pos + 1) - 1
                    BY <2>2, <5>2 DEF d
                <5>4. QED
                    BY <1>2, <1>3, <5>1, <5>2, <5>3
            <4>3. memory' = More(m)
                BY <2>7, <4>2 DEF More
            <4>4. QED
                BY <4>1, <4>3
        <3>2. Bytewise'
            BY <1>4, <1>5, <1>11, <3>1 DEF Bytewise, Region, Written
        <3>3. RegionType'
            BY <1>2, <1>4, <1>5, <1>9, <2>1, <2>4, <2>6, <2>7, <3>1
            DEF RegionType, Region, Bytes, Words
        <3>4. left' > 0 => pos' = call'.offset + Moved'
            <4>1. left > 0 => pos = call.offset + Moved
                BY <1>1 DEF AtWord
            <4>2. left' > 0 => m % WordSize = 0
                BY <1>3, <1>4
            <4>3. QED
                BY <1>2, <1>3, <1>4, <1>5, <2>3, <4>1, <4>2
        <3>5. AtWord'
            BY <2>7, <3>4 DEF AtWord
        <3>6. QED
            BY <1>4, <1>5, <2>6, <2>7, <3>2, <3>3, <3>5 DEF RegionInv
    <2>8. CASE pc' = "error" /\ memory' = memory
        <3>1. RegionType'
            BY <1>2, <1>4, <1>5, <1>9, <2>1, <2>4, <2>6, <2>8
            DEF RegionType, Region, Bytes, Words
        <3>2. QED
            BY <1>5, <2>6, <2>8, <3>1 DEF RegionInv
    <2>9. QED
        BY <2>3, <2>7, <2>8
<1>12. QED
    BY <1>10, <1>11

\* Going on without a transaction.
LEMMA GoOnInv ==
    ASSUME RegionInv, pc \in {"loop", "aligned"},
           UNCHANGED <<call, pos, left, data, memory, reads, writes>>,
           pc' \in {"aligned", "tail"}, pc' = "tail" => left < WordSize
    PROVE  RegionInv'
<1>1. /\ RegionType' /\ InRange(call)' /\ Once' /\ Bytewise' /\ AtWord'
      /\ (call.offset % WordSize = 0 \/ Moved >= FirstBytes(call.nbytes))'
    BY DEF RegionInv, RegionType, InRange, Once, Bytewise, AtWord, Moved, FirstBytes, Touch,
           Up, End, First, IsRead, Trxn, Unaligned, Skip, Lo, Words, Region, Bytes
<1>2. QED
    BY <1>1 DEF RegionInv

\* The transaction size is so many words or all there is.
LEMMA TrxnFacts ==
    ASSUME AlignedCalls, RegionInv, pc = "loop", AtLeastTrxn
    PROVE  /\ Trxn \in 0 .. left /\ pos % WordSize = 0
           /\ Trxn % WordSize = 0 \/ (Trxn = left /\ Trxn > 0)
<1>1. /\ RegionType /\ InRange(call) /\ AtWord
      /\ call.offset % WordSize = 0 \/ Moved >= FirstBytes(call.nbytes)
    BY DEF RegionInv
<1>2. /\ WordSize \in Nat \ {0} /\ Size \in Nat
      /\ call.offset \in Nat /\ call.nbytes \in Nat /\ call.trxn \in Nat
      /\ call.trxn % WordSize = 0
      /\ Moved \in Nat /\ Moved + left = call.nbytes /\ left \in 0 .. call.nbytes
      /\ Unaligned <=> call.offset % WordSize # 0
    BY <1>1, CallFacts DEF RegionType
<1>3. 0 % WordSize = 0
    <2>1. 0 = 0 * WordSize + 0 /\ 0 \in 0 .. WordSize - 1
        BY <1>2
    <2>2. QED
        BY <2>1, Quotient
<1>4. /\ FirstBytes(call.nbytes) \in Int /\ FirstBytes(call.nbytes) <= call.nbytes
    <2>1. First(call.offset) * WordSize \in Nat
        BY <1>2, Divide
    <2>2. QED
        BY <1>2, <2>1 DEF FirstBytes, Skip, Lo
<1>5. CASE call.trxn # 0
    BY <1>1, <1>2, <1>5 DEF Trxn, AtLeastTrxn, AtWord
<1>6. CASE call.trxn = 0 /\ IsRead /\ Unaligned
    <2>1. Trxn = call.nbytes - FirstBytes(call.nbytes)
        BY <1>6 DEF Trxn
    <2>2. Moved >= FirstBytes(call.nbytes)
        BY <1>1, <1>2, <1>6
    <2>3. Trxn \in Nat /\ Trxn = left
        BY <1>2, <1>4, <2>1, <2>2 DEF AtLeastTrxn
    <2>4. QED
        BY <1>1, <1>3, <2>3 DEF AtWord
<1>7. CASE call.trxn = 0 /\ ~(IsRead /\ Unaligned)
    <2>1. Trxn = call.nbytes
        BY <1>7 DEF Trxn
    <2>2. Trxn \in Nat /\ Trxn = left
        BY <1>2, <2>1 DEF AtLeastTrxn
    <2>3. QED
        BY <1>1, <1>3, <2>2 DEF AtWord
<1>8. QED
    BY <1>5, <1>6, <1>7

\* Transactions keep all of it.
LEMMA WholePartInv ==
    ASSUME AlignedCalls, RegionInv, WholePart
    PROVE  RegionInv'
<1>1. CASE AtLeastTrxn
    <2>1. Transfer(Trxn, "loop") /\ pc = "loop"
        BY <1>1 DEF WholePart
    <2>2. /\ Trxn \in 0 .. left /\ pos % WordSize = 0
          /\ Trxn % WordSize = 0 \/ (Trxn = left /\ Trxn > 0)
        BY <1>1, <2>1, TrxnFacts
    <2>3. QED
        BY <2>1, <2>2, TransferInv
<1>2. CASE ~AtLeastTrxn
    BY <1>2, GoOnInv DEF WholePart
<1>3. QED
    BY <1>1, <1>2

\* The words behind the last transaction do.
LEMMA WordsPartInv ==
    ASSUME AlignedCalls, RegionInv, WordsPart
    PROVE  RegionInv'
<1>1. pc = "aligned" /\ RegionType /\ InRange(call) /\ AtWord
    BY DEF WordsPart, RegionInv
<1>2. WordSize \in Nat \ {0} /\ left \in Nat
    BY <1>1, CallFacts DEF RegionType
<1>3. CASE left >= WordSize
    <2>1. Transfer(WholeWords, "tail")
        BY <1>3 DEF WordsPart
    <2>2. pos % WordSize = 0
        BY <1>1, <1>2, <1>3 DEF AtWord
    <2>3. /\ WholeWords \in 0 .. left /\ left - WholeWords < WordSize
        <3>1. /\ left = First(left) * WordSize + (left % WordSize)
              /\ left % WordSize \in 0 .. WordSize - 1 /\ First(left) * WordSize \in Nat
            BY <1>2, Divide
        <3>2. QED
            BY <1>2, <3>1 DEF WholeWords
    <2>4. WholeWords % WordSize = 0
        <3>1. First(left) \in Nat
            BY <1>2, Divide
        <3>2. WholeWords = First(left) * WordSize + 0 /\ 0 \in 0 .. WordSize - 1
              /\ WholeWords \in Nat
            BY <1>2, <2>3, <3>1 DEF WholeWords
        <3>3. QED
            BY <3>1, <3>2, Quotient
    <2>5. QED
        BY <1>1, <2>1, <2>2, <2>3, <2>4, TransferInv
<1>4. CASE ~(left >= WordSize)
    BY <1>1, <1>2, <1>4, GoOnInv DEF WordsPart
<1>5. QED
    BY <1>3, <1>4

\* One word, as it is read before a part of it is taken or put.
LEMMA OneWord ==
    ASSUME memory \in [Region -> Bytes], NEW p \in 0 .. Size, p % WordSize = 0
    PROVE  /\ WordSize % WordSize = 0
           /\ Up(p + WordSize) * WordSize <= Size + WordSize
           /\ Span(p, WordSize) = {First(p)}
           /\ (p + WordSize) % WordSize = 0
           /\ Got(p, WordSize) \in [1 .. WordSize -> Bytes]
           /\ \A i \in 1 .. WordSize : /\ Got(p, WordSize)[i] = memory[p + i - 1]
                                       /\ p + i - 1 \in Region
<1>1. WordSize \in Nat \ {0} /\ Size \in Nat /\ p \in Nat
    BY RegionAssumption
<1>2. WordSize % WordSize = 0 /\ First(WordSize) = 1
    <2>1. WordSize = 1 * WordSize + 0 /\ 0 \in 0 .. WordSize - 1
        BY <1>1
    <2>2. QED
        BY <1>1, <2>1, Quotient
<1>3. Up(WordSize) = 1
    BY <1>1, <1>2, UpFacts
<1>4. /\ Up(p + WordSize) = First(p) + 1 /\ First(p) \in Nat
      /\ End(p, WordSize) = First(p) + 1
      /\ (p + WordSize) % WordSize = 0
      /\ Up(p + WordSize) * WordSize = p + 1 * WordSize
    <2>1. WordSize \in Nat
        BY <1>1
    <2>2. /\ First(p) \in Nat /\ End(p, WordSize) = Up(p + WordSize)
          /\ Up(p + WordSize) = First(p) + Up(WordSize)
          /\ (p + WordSize) % WordSize = WordSize % WordSize
          /\ Up(p + WordSize) * WordSize = p + Up(WordSize) * WordSize
        BY <1>1, <2>1, AlignedSpan
    <2>3. QED
        BY <1>2, <1>3, <2>2
<1>5. Up(p + WordSize) * WordSize <= Size + WordSize
    BY <1>1, <1>4
<1>6. Span(p, WordSize) = {First(p)}
    BY <1>4 DEF Span
<1>7. /\ Got(p, WordSize) \in [1 .. WordSize -> Bytes]
      /\ \A i \in 1 .. WordSize : Got(p, WordSize)[i] = memory[p + i - 1]
    BY <1>1, <1>5, GotAligned
<1>8. \A i \in 1 .. WordSize : p + i - 1 \in Region
    BY <1>1 DEF Region
<1>9. QED
    BY <1>2, <1>4, <1>5, <1>6, <1>7, <1>8

\* Where an access within a word starts.
LEMMA HeadFacts ==
    ASSUME AlignedCalls, RegionInv, pc = "head", Unaligned
    PROVE  /\ Lo \in 0 .. Size /\ Lo % WordSize = 0 /\ First(Lo) = First(call.offset)
           /\ Skip \in 1 .. WordSize - 1 /\ Lo + Skip = call.offset
           /\ HeadBytes \in 1 .. left /\ Skip + HeadBytes <= WordSize
           /\ HeadBytes < left => Skip + HeadBytes = WordSize
           /\ First(call.offset) < Up(call.offset + HeadBytes)
<1>1. RegionType /\ InRange(call) /\ left = call.nbytes
    BY DEF RegionInv
<1>2. /\ WordSize \in Nat \ {0} /\ Size \in Nat
      /\ call.offset \in Nat /\ call.nbytes \in Nat /\ call.nbytes > 0
      /\ call.offset + call.nbytes <= Size
      /\ call.offset % WordSize # 0
    BY <1>1, CallFacts DEF RegionType
<1>3. /\ call.offset = Lo + (call.offset % WordSize) /\ Lo \in Nat
      /\ First(call.offset) \in Nat
      /\ call.offset % WordSize \in 0 .. WordSize - 1
    BY <1>2, Divide DEF Lo
<1>4. Lo % WordSize = 0 /\ First(Lo) = First(call.offset)
    <2>1. Lo = First(call.offset) * WordSize + 0 /\ 0 \in 0 .. WordSize - 1
        BY <1>2, <1>3 DEF Lo
    <2>2. QED
        BY <1>3, <2>1, Quotient
<1>5. Lo \in 0 .. Size /\ Skip \in 1 .. WordSize - 1 /\ Lo + Skip = call.offset
    BY <1>2, <1>3 DEF Skip
<1>6. /\ HeadBytes \in 1 .. left /\ Skip + HeadBytes <= WordSize
      /\ HeadBytes < left => Skip + HeadBytes = WordSize
    BY <1>1, <1>2, <1>5 DEF HeadBytes, FirstBytes
<1>7. First(call.offset) < Up(call.offset + HeadBytes)
    <2>1. Up(call.offset) = First(call.offset) + 1
        BY <1>2, UpFacts
    <2>2. call.offset + HeadBytes \in Nat /\ call.offset <= call.offset + HeadBytes
        BY <1>1, <1>2, <1>6
    <2>3. Up(call.offset) <= Up(call.offset + HeadBytes) /\ Up(call.offset + HeadBytes) \in Nat
        BY <1>2, <2>2, UpOrder, UpFacts
    <2>4. QED
        BY <1>3, <2>1, <2>3
<1>8. QED
    BY <1>4, <1>5, <1>6, <1>7

\* After the first word, given what was moved.
LEMMA HeadDone ==
    ASSUME AlignedCalls, RegionInv, pc = "head", Unaligned,
           call' = call, left' = left - HeadBytes, pc' = "loop", pos' = Lo + WordSize,
           reads' = Count(reads, {First(call.offset)}),
           writes' = writes \/ writes' = Count(writes, {First(call.offset)}),
           data' \in Seq(Bytes), memory' \in [Region -> Bytes],
           IF IsRead
           THEN /\ data' = [i \in 1 .. HeadBytes |-> call.offset + i - 1]
                /\ memory' = [b \in Region |-> b]
           ELSE memory' = Written(HeadBytes)
    PROVE  RegionInv'
<1>1. /\ RegionType /\ InRange(call) /\ left = call.nbytes
      /\ \A w \in Words : reads[w] = 0 /\ writes[w] = 0
    BY DEF RegionInv
<1>2. /\ WordSize \in Nat \ {0} /\ Size \in Nat /\ call \in Calls
      /\ call.offset \in Nat /\ call.nbytes \in Nat /\ call.nbytes > 0
      /\ call.offset + call.nbytes <= Size
    BY <1>1, CallFacts DEF RegionType
<1>3. /\ Lo \in 0 .. Size /\ Lo % WordSize = 0
      /\ Skip \in 1 .. WordSize - 1 /\ Lo + Skip = call.offset
      /\ HeadBytes \in 1 .. left
      /\ HeadBytes < left => Skip + HeadBytes = WordSize
      /\ First(call.offset) < Up(call.offset + HeadBytes)
    BY HeadFacts
<1>4. /\ left' \in 0 .. call'.nbytes /\ Moved' = HeadBytes
      /\ HeadBytes = FirstBytes(call.nbytes) /\ HeadBytes \in Nat
    BY <1>1, <1>2, <1>3 DEF Moved, HeadBytes
<1>5. InRange(call)' /\ (IsRead' <=> IsRead) /\ FirstBytes(call.nbytes)' = FirstBytes(call.nbytes)
    BY <1>1 DEF InRange, IsRead, FirstBytes, Skip, Lo, First
<1>6. (call.offset % WordSize = 0 \/ Moved >= FirstBytes(call.nbytes))'
    BY <1>3, <1>4, <1>5
<1>7. Bytewise'
    BY <1>4, <1>5 DEF Bytewise, Region, Written
<1>8. AtWord'
    <2>1. pos' % WordSize = 0
        BY <1>1, <1>3, OneWord DEF RegionType
    <2>2. left' > 0 => pos' = call'.offset + Moved'
        <3>1. left' > 0 => Skip + HeadBytes = WordSize
            BY <1>1, <1>2, <1>3
        <3>2. Skip + HeadBytes = WordSize => Lo + WordSize = call.offset + HeadBytes
            <4>1. Lo \in Nat /\ Skip \in Nat /\ HeadBytes \in Nat
                BY <1>1, <1>2, <1>3
            <4>2. Lo + (Skip + HeadBytes) = (Lo + Skip) + HeadBytes
                BY <4>1
            <4>3. QED
                BY <1>3, <4>2
        <3>3. QED
            BY <1>4, <3>1, <3>2
    <2>3. QED
        BY <2>1, <2>2 DEF AtWord
<1>9. /\ reads' \in [Words -> Nat] /\ writes' \in [Words -> Nat] /\ Once'
    <2> DEFINE f == First(call.offset)
    <2>1. reads \in [Words -> Nat] /\ writes \in [Words -> Nat]
        BY <1>1 DEF RegionType
    <2>2. /\ reads' \in [Words -> Nat]
          /\ \A w \in Words : reads'[w] = IF w \in {f} THEN reads[w] + 1 ELSE reads[w]
        BY <2>1, CountFacts
    <2>3. /\ writes' \in [Words -> Nat]
          /\ \A w \in Words : \/ writes'[w] = writes[w]
                              \/ writes'[w] = IF w \in {f} THEN writes[w] + 1 ELSE writes[w]
        <3> DEFINE counted == Count(writes, {f})
        <3>1. writes' = writes \/ writes' = counted
            OBVIOUS
        <3> HIDE DEF f
        <3>2. counted = [w \in Words |-> IF w \in {f} THEN writes[w] + 1 ELSE writes[w]]
            BY DEF Count
        <3> HIDE DEF counted
        <3>3. /\ counted \in [Words -> Nat]
              /\ \A w \in Words :
                     counted[w] = IF w \in {f} THEN writes[w] + 1 ELSE writes[w]
            BY <2>1, <3>2
        <3>4. CASE writes' = writes
            BY <2>1, <3>4
        <3>5. CASE writes' = counted
            BY <3>3, <3>5
        <3>6. QED
            BY <3>1, <3>4, <3>5
    <2>4. f \in Touch'
        <3>1. Touch' = f .. Up(call.offset + HeadBytes) - 1
            BY <1>4 DEF Touch, Up, End, First
        <3>2. f \in Nat /\ Up(call.offset + HeadBytes) \in Nat
            <4>1. call.offset + HeadBytes \in Nat
                BY <1>2, <1>4
            <4>2. QED
                BY <1>2, <4>1, Divide, UpFacts
        <3>3. QED
            BY <1>3, <3>1, <3>2
    <2>5. ASSUME NEW w \in Words
          PROVE  /\ reads'[w] <= 1 /\ writes'[w] <= 1
                 /\ reads'[w] + writes'[w] > 0 => w \in Touch'
        <3>1. reads[w] = 0 /\ writes[w] = 0
            BY <1>1
        <3>2. /\ reads'[w] \in {0, 1} /\ writes'[w] \in {0, 1}
              /\ w # f => reads'[w] = 0 /\ writes'[w] = 0
            <4> HIDE DEF f
            <4>1. reads'[w] = IF w = f THEN reads[w] + 1 ELSE reads[w]
                BY <2>2
            <4>2. \/ writes'[w] = writes[w]
                  \/ writes'[w] = IF w = f THEN writes[w] + 1 ELSE writes[w]
                BY <2>3
            <4>3. 0 + 1 = 1
                OBVIOUS
            <4>4. QED
                BY <3>1, <4>1, <4>2, <4>3
        <3>3. QED
            BY <2>4, <3>2
    <2>6. QED
        BY <2>2, <2>3, <2>5 DEF Once, Words
<1>10. RegionType'
    <2>1. pos' \in 0 .. Size + WordSize
        BY <1>2, <1>3
    <2>2. QED
        BY <1>2, <1>4, <1>9, <2>1 DEF RegionType, Region, Bytes, Words
<1>11. QED
    BY <1>5, <1>6, <1>7, <1>8, <1>9, <1>10 DEF RegionInv

\* The first word does.
LEMMA FirstPartInv ==
    ASSUME AlignedCalls, RegionInv, FirstPart
    PROVE  RegionInv'
<1>1. /\ pc = "head" /\ RegionType /\ InRange(call) /\ Once /\ left = call.nbytes /\ data = <<>>
      /\ memory = [b \in Region |-> b] /\ memory \in [Region -> Bytes]
      /\ \A w \in Words : reads[w] = 0 /\ writes[w] = 0
    BY DEF FirstPart, RegionInv, RegionType
<1>2. /\ WordSize \in Nat \ {0} /\ Size \in Nat /\ call \in Calls
      /\ call.offset \in Nat /\ call.nbytes \in Nat /\ call.nbytes > 0
      /\ call.offset + call.nbytes <= Size
      /\ Unaligned <=> call.offset % WordSize # 0
      /\ Moved = 0
    BY <1>1, CallFacts DEF RegionType, Moved
<1>3. CASE ~Unaligned
    <2>1. /\ pos' = call.offset /\ pc' = "loop"
          /\ UNCHANGED <<call, left, data, memory, reads, writes>>
        BY <1>3 DEF FirstPart
    <2>2. data = [i \in 1 .. 0 |-> call.offset + i - 1]
        <3> DEFINE e == [i \in 1 .. 0 |-> call.offset + i - 1]
        <3>1. e \in [1 .. 0 -> Bytes]
            OBVIOUS
        <3>2. e \in Seq(Bytes) /\ Len(e) = 0 /\ <<>> \in Seq(Bytes) /\ Len(<<>>) = 0
            BY <3>1, MadeSeq, EmptySeq
        <3>3. e = <<>>
            BY <3>2, SeqEqual
        <3>4. QED
            BY <1>1, <3>3
    <2>3. memory = [b \in Region |-> IF call.offset <= b /\ b < call.offset + 0
                                     THEN Size + b - call.offset ELSE b]
        <3>1. \A b \in Region : ~(call.offset <= b /\ b < call.offset + 0)
            BY <1>2 DEF Region
        <3>2. QED
            BY <1>1, <3>1
    <2>4. Moved' = 0 /\ left' = call'.nbytes
        BY <1>1, <1>2, <2>1 DEF Moved
    <2>5. Bytewise'
        BY <1>1, <2>1, <2>2, <2>3, <2>4 DEF Bytewise, IsRead, Region
    <2>6. AtWord'
        <3>1. pos' = call'.offset + Moved' /\ pos' % WordSize = 0
            BY <1>2, <1>3, <2>1, <2>4
        <3>2. QED
            BY <3>1 DEF AtWord
    <2>7. RegionType'
        BY <1>1, <1>2, <2>1 DEF RegionType, Region, Bytes, Words
    <2>8. Once'
        BY <1>1, <2>1 DEF Once, Words
    <2>9. InRange(call)' /\ (call.offset % WordSize = 0)'
        BY <1>1, <1>2, <1>3, <2>1 DEF InRange
    <2>10. QED
        BY <2>1, <2>5, <2>6, <2>7, <2>8, <2>9 DEF RegionInv
<1>4. ASSUME Unaligned
      PROVE  /\ Lo \in 0 .. Size /\ Lo % WordSize = 0 /\ First(Lo) = First(call.offset)
             /\ Skip \in 1 .. WordSize - 1 /\ Lo + Skip = call.offset
             /\ HeadBytes \in 1 .. left /\ Skip + HeadBytes <= WordSize
             /\ HeadBytes \in Nat /\ Skip \in Nat /\ Lo \in Nat
    <2>1. /\ Lo \in 0 .. Size /\ Lo % WordSize = 0 /\ First(Lo) = First(call.offset)
          /\ Skip \in 1 .. WordSize - 1 /\ Lo + Skip = call.offset
          /\ HeadBytes \in 1 .. left /\ Skip + HeadBytes <= WordSize
        BY <1>1, <1>4, HeadFacts
    <2>2. QED
        BY <1>1, <1>2, <2>1
<1> DEFINE word == Got(Lo, WordSize)
<1>5. ASSUME Unaligned
      PROVE  /\ WordSize % WordSize = 0 /\ Up(Lo + WordSize) * WordSize <= Size + WordSize
             /\ Span(Lo, WordSize) = {First(call.offset)}
             /\ word \in [1 .. WordSize -> Bytes]
             /\ \A i \in 1 .. WordSize : word[i] = Lo + i - 1
    <2>1. /\ WordSize % WordSize = 0 /\ Up(Lo + WordSize) * WordSize <= Size + WordSize
          /\ Span(Lo, WordSize) = {First(Lo)}
          /\ word \in [1 .. WordSize -> Bytes]
          /\ \A i \in 1 .. WordSize : word[i] = memory[Lo + i - 1] /\ Lo + i - 1 \in Region
        BY <1>1, <1>4, <1>5, OneWord
    <2>2. \A i \in 1 .. WordSize : memory[Lo + i - 1] = Lo + i - 1
        BY <1>1, <2>1
    <2>3. QED
        BY <1>4, <1>5, <2>1, <2>2
<1> HIDE DEF word
<1>6. CASE Unaligned /\ IsRead
    <2>1. /\ data' = Cut(word, Skip, HeadBytes) /\ reads' = Count(reads, Span(Lo, WordSize))
          /\ pos' = Lo + WordSize /\ left' = left - HeadBytes /\ pc' = "loop"
          /\ UNCHANGED <<memory, writes>> /\ call' = call
        BY <1>6 DEF FirstPart, word
    <2> DEFINE h == HeadBytes
    <2> DEFINE s == Skip
    <2>2. h \in Nat /\ s \in Nat /\ s + h <= WordSize /\ WordSize \in Nat
          /\ Lo \in Nat /\ Lo + s = call.offset
        BY <1>2, <1>4, <1>6
    <2>3. word \in [1 .. WordSize -> Bytes] /\ \A i \in 1 .. WordSize : word[i] = Lo + i - 1
        BY <1>5, <1>6
    <2> HIDE DEF h, s
    <2>4. /\ Cut(word, s, h) \in [1 .. h -> Bytes]
          /\ \A j \in 1 .. h : Cut(word, s, h)[j] = word[s + j]
        <3>1. word \in [1 .. WordSize -> Bytes]
            BY <2>3
        <3>2. QED
            BY <2>2, <3>1, CutMade
    <2>5. \A j \in 1 .. h : word[s + j] = call.offset + j - 1
        <3>1. \A j \in 1 .. h : s + j \in 1 .. WordSize /\ Lo + (s + j) - 1 = call.offset + j - 1
            BY <1>2, <2>2
        <3>2. QED
            BY <2>3, <3>1
    <2>6. Cut(word, s, h) = [i \in 1 .. h |-> call.offset + i - 1]
        BY <2>4, <2>5
    <2>7. Cut(word, s, h) \in Seq(Bytes)
        BY <2>2, <2>4, MadeSeq
    <2>8. /\ data' = [i \in 1 .. HeadBytes |-> call.offset + i - 1] /\ data' \in Seq(Bytes)
          /\ reads' = Count(reads, {First(call.offset)})
        BY <1>5, <1>6, <2>1, <2>6, <2>7 DEF h, s
    <2>9. QED
        BY <1>1, <1>6, <2>1, <2>8, HeadDone
<1>7. CASE Unaligned /\ ~IsRead
    <2> DEFINE h == HeadBytes
    <2> DEFINE s == Skip
    <2> DEFINE x == Cut(word, 0, s)
    <2> DEFINE y == Value(h)
    <2> DEFINE z == From(word, s + h)
    <2> DEFINE d == x \o y \o z
    <2>1. /\ Store(Lo, d, "loop") /\ reads' = Count(reads, Span(Lo, WordSize))
          /\ left' = left - HeadBytes /\ data' = data /\ call' = call
        BY <1>7 DEF FirstPart, word
    <2>2. h \in Nat /\ s \in Nat /\ s + h <= WordSize /\ WordSize \in Nat /\ h \in 0 .. left
          /\ Lo \in Nat /\ Lo + s = call.offset
        BY <1>2, <1>4, <1>7
    <2>3. word \in [1 .. WordSize -> Bytes] /\ \A i \in 1 .. WordSize : word[i] = Lo + i - 1
        BY <1>5, <1>7
    <2>4. y \in [1 .. h -> Bytes] /\ \A i \in 1 .. h : y[i] = Size + i - 1
        <3>1. left \in Nat /\ Moved \in Nat /\ Moved + left = call.nbytes
            BY <1>1, <1>2
        <3>2. /\ Value(h) \in [1 .. h -> Bytes]
              /\ \A i \in 1 .. h : Value(h)[i] = Size + Moved + i - 1
            BY <1>2, <2>2, <3>1, ValueFacts
        <3>3. \A i \in 1 .. h : Size + Moved + i - 1 = Size + i - 1
            BY <1>2
        <3>4. QED
            BY <3>2, <3>3
    <2> HIDE DEF h, s
    <2>5. /\ x \in [1 .. s -> Bytes] /\ \A j \in 1 .. s : x[j] = word[0 + j]
        <3>1. word \in [1 .. WordSize -> Bytes] /\ 0 \in Nat /\ 0 + s <= WordSize
            BY <2>2, <2>3
        <3>2. QED
            BY <2>2, <3>1, CutMade
    <2>6. /\ z \in [1 .. WordSize - (s + h) -> Bytes]
          /\ \A j \in 1 .. WordSize - (s + h) : z[j] = word[(s + h) + j]
        <3>1. word \in [1 .. WordSize -> Bytes] /\ s + h \in 0 .. WordSize
            BY <2>2, <2>3
        <3>2. QED
            BY <2>2, <3>1, FromMade
    <2> HIDE DEF x, y, z
    <2> DEFINE n == WordSize - (s + h)
    <2>7. n \in Nat /\ s + h \in Nat /\ (s + h) + n = WordSize
        BY <2>2
    <2> HIDE DEF n
    <2>8. /\ x \o y \in [1 .. s + h -> Bytes]
          /\ \A j \in 1 .. s + h : (x \o y)[j] = IF j <= s THEN x[j] ELSE y[j - s]
        <3>1. x \in [1 .. s -> Bytes] /\ y \in [1 .. h -> Bytes]
            BY <2>4, <2>5
        <3>2. QED
            BY <2>2, <3>1, JoinMade
    <2> DEFINE xy == x \o y
    <2> DEFINE k == s + h
    <2>9. xy \in [1 .. k -> Bytes] /\ k \in Nat /\ n \in Nat /\ z \in [1 .. n -> Bytes]
        BY <2>6, <2>7, <2>8 DEF n
    <2> HIDE DEF xy, k
    <2>10. /\ xy \o z \in [1 .. k + n -> Bytes]
           /\ \A j \in 1 .. k + n : (xy \o z)[j] = IF j <= k THEN xy[j] ELSE z[j - k]
        BY <2>9, JoinMade
    <2>11. d = xy \o z /\ k + n = WordSize
        BY <2>7 DEF xy, k
    <2> HIDE DEF d
    <2>12. d \in [1 .. WordSize -> Bytes]
        BY <2>10, <2>11
    <2>13. ASSUME NEW j \in 1 .. WordSize
           PROVE  d[j] = IF s < j /\ j <= s + h THEN Size + (j - s) - 1 ELSE Lo + j - 1
        <3>1. CASE j <= s
            <4>1. j \in 1 .. s /\ j \in 1 .. s + h /\ j <= k /\ 0 + j = j
                BY <2>2, <3>1 DEF k
            <4>2. d[j] = xy[j] /\ xy[j] = x[j] /\ x[j] = word[j]
                BY <2>5, <2>8, <2>10, <2>11, <3>1, <4>1 DEF xy
            <4>3. ~(s < j)
                BY <2>2, <3>1
            <4>4. QED
                BY <2>3, <4>2, <4>3
        <3>2. CASE s < j /\ j <= s + h
            <4>1. j - s \in 1 .. h /\ j \in 1 .. s + h /\ j <= k /\ ~(j <= s)
                BY <2>2, <3>2 DEF k
            <4>2. d[j] = xy[j] /\ xy[j] = y[j - s]
                BY <2>8, <2>10, <2>11, <4>1 DEF xy
            <4>3. y[j - s] = Size + (j - s) - 1
                BY <2>4, <4>1
            <4>4. QED
                BY <3>2, <4>2, <4>3
        <3>3. CASE s + h < j
            <4>1. j - k \in 1 .. n /\ ~(j <= k) /\ (s + h) + (j - k) = j
                BY <2>2, <2>7, <3>3 DEF k
            <4>2. d[j] = z[j - k]
                BY <2>10, <2>11, <4>1
            <4>3. z[j - k] = word[(s + h) + (j - k)]
                BY <2>6, <4>1 DEF n
            <4>4. ~(j <= s + h)
                BY <2>2, <3>3
            <4>5. QED
                BY <2>3, <4>1, <4>2, <4>3, <4>4
        <3>4. QED
            BY <2>2, <3>1, <3>2, <3>3
    <2>14. /\ pos' = Lo + WordSize /\ pc' = "loop"
           /\ memory' = [b \in Region |-> IF Lo <= b /\ b < Lo + WordSize
                                          THEN d[b - Lo + 1] ELSE memory[b]]
           /\ writes' = Count(writes, Span(Lo, WordSize))
        <3>1. /\ WordSize % WordSize = 0 => pos' = Lo + WordSize /\ pc' = "loop"
              /\ \/ /\ memory' = [b \in Region |-> IF Lo <= b /\ b < Lo + WordSize
                                                   THEN d[b - Lo + 1] ELSE memory[b]]
                    /\ writes' = Count(writes, Span(Lo, WordSize))
                 \/ pc' = "error"
            <4>1. Lo % WordSize = 0 /\ Up(Lo + WordSize) * WordSize <= Size + WordSize
                BY <1>4, <1>5, <1>7
            <4>2. QED
                BY <1>1, <2>1, <2>2, <2>12, <4>1, StoreAligned
        <3>2. QED
            BY <1>5, <1>7, <3>1
    <2>15. memory' = Written(HeadBytes) /\ memory' \in [Region -> Bytes]
        <3>1. ASSUME NEW b \in Region
              PROVE  /\ (IF Lo <= b /\ b < Lo + WordSize THEN d[b - Lo + 1] ELSE memory[b])
                            = IF call.offset <= b /\ b < call.offset + h
                              THEN Size + b - call.offset ELSE b
                     /\ (IF call.offset <= b /\ b < call.offset + h
                         THEN Size + b - call.offset ELSE b) \in Bytes
            <4>1. b \in Nat /\ b < Size + WordSize /\ memory[b] = b
                BY <1>1, <1>2 DEF Region
            <4>2. (IF call.offset <= b /\ b < call.offset + h
                   THEN Size + b - call.offset ELSE b) \in Bytes
                BY <1>2, <2>2, <4>1 DEF Bytes
            <4>3. CASE Lo <= b /\ b < Lo + WordSize
                <5> DEFINE j == b - Lo + 1
                <5>1. /\ j \in 1 .. WordSize
                      /\ (s < j /\ j <= s + h) <=> (call.offset <= b /\ b < call.offset + h)
                      /\ Size + (j - s) - 1 = Size + b - call.offset /\ Lo + j - 1 = b
                    <6>1. Lo \in Nat /\ b \in Nat /\ s \in Nat /\ h \in Nat /\ Size \in Nat
                          /\ WordSize \in Nat
                        BY <1>2, <2>2, <4>1
                    <6>2. j \in 1 .. WordSize /\ Lo + j - 1 = b
                        BY <4>3, <6>1
                    <6>3. \A o \in Nat : Lo + s = o =>
                              /\ (s < j /\ j <= s + h) <=> (o <= b /\ b < o + h)
                              /\ Size + (j - s) - 1 = Size + b - o
                        BY <6>1
                    <6>4. QED
                        BY <1>2, <2>2, <6>2, <6>3
                <5> HIDE DEF j
                <5>2. d[j] = IF s < j /\ j <= s + h THEN Size + (j - s) - 1 ELSE Lo + j - 1
                    BY <2>13, <5>1
                <5>3. QED
                    BY <4>2, <4>3, <5>1, <5>2 DEF j
            <4>4. CASE ~(Lo <= b /\ b < Lo + WordSize)
                <5>1. ~(call.offset <= b /\ b < call.offset + h)
                    BY <2>2, <4>1, <4>4
                <5>2. QED
                    BY <4>1, <4>2, <4>4, <5>1
            <4>5. QED
                BY <4>3, <4>4
        <3>2. memory' = [b \in Region |-> IF call.offset <= b /\ b < call.offset + h
                                          THEN Size + b - call.offset ELSE b]
            BY <2>14, <3>1
        <3>3. memory' \in [Region -> Bytes]
            BY <3>1, <3>2
        <3>4. QED
            BY <3>2, <3>3 DEF Written, h
    <2>16. /\ reads' = Count(reads, {First(call.offset)})
           /\ writes' = Count(writes, {First(call.offset)})
           /\ data' \in Seq(Bytes)
        BY <1>1, <1>5, <1>7, <2>1, <2>14 DEF RegionType
    <2>17. QED
        BY <1>1, <1>7, <2>1, <2>14, <2>15, <2>16, HeadDone
<1>8. QED
    BY <1>3, <1>6, <1>7

\* The last word does.
LEMMA LastPartInv ==
    ASSUME AlignedCalls, RegionInv, LastPart
    PROVE  RegionInv'
<1>1. /\ pc = "tail" /\ RegionType /\ InRange(call) /\ Once /\ Bytewise /\ AtWord
      /\ left < WordSize /\ memory \in [Region -> Bytes] /\ data \in Seq(Bytes)
      /\ call.offset % WordSize = 0 \/ Moved >= FirstBytes(call.nbytes)
    BY DEF LastPart, RegionInv, RegionType
<1>2. /\ WordSize \in Nat \ {0} /\ Size \in Nat /\ call \in Calls
      /\ call.offset \in Nat /\ call.nbytes \in Nat /\ call.nbytes > 0
      /\ call.offset + call.nbytes <= Size
      /\ Moved \in Nat /\ Moved + left = call.nbytes /\ left \in 0 .. call.nbytes
    BY <1>1, CallFacts DEF RegionType
<1>3. /\ call' = call /\ left' = 0 /\ Moved' = call.nbytes /\ Moved' = Moved + left
      /\ left' \in 0 .. call'.nbytes /\ Moved' >= Moved
    BY <1>2 DEF LastPart, Moved
<1>4. /\ InRange(call)' /\ (IsRead' <=> IsRead)
      /\ (call.offset % WordSize = 0 \/ Moved >= FirstBytes(call.nbytes))'
    <2>1. FirstBytes(call.nbytes)' = FirstBytes(call.nbytes) /\ FirstBytes(call.nbytes) \in Int
        <3>1. First(call.offset) * WordSize \in Nat
            BY <1>2, Divide
        <3>2. FirstBytes(call.nbytes) \in Int
            BY <1>2, <3>1 DEF FirstBytes, Skip, Lo
        <3>3. QED
            BY <1>3, <3>2 DEF FirstBytes, Skip, Lo, First
    <2>2. QED
        BY <1>1, <1>2, <1>3, <2>1 DEF InRange, IsRead
<1> DEFINE T == First(call.offset) .. Up(call.offset + (Moved + left)) - 1
<1>5. Touch' = T
    BY <1>3 DEF Touch, Up, End, First
<1> HIDE DEF T
<1>6. CASE left = 0
    <2>1. pc' = "done" /\ UNCHANGED <<pos, data, memory, reads, writes>>
        BY <1>6 DEF LastPart
    <2>2. Moved' = Moved
        BY <1>2, <1>3, <1>6
    <2>3. Bytewise' /\ Once'
        BY <1>1, <1>3, <1>4, <2>1, <2>2 DEF Bytewise, Once, Touch, Up, End, First, Region, Words
    <2>4. RegionType'
        BY <1>1, <1>2, <1>3, <2>1 DEF RegionType, Region, Bytes, Words
    <2>5. QED
        BY <1>3, <1>4, <2>1, <2>3, <2>4 DEF RegionInv
<1> DEFINE word == Got(pos, WordSize)
<1>7. ASSUME left > 0
      PROVE  /\ pos \in 0 .. Size /\ pos = call.offset + Moved /\ pos % WordSize = 0
             /\ pos + left <= Size /\ pos \in Nat
             /\ WordSize % WordSize = 0 /\ Up(pos + WordSize) * WordSize <= Size + WordSize
             /\ Span(pos, WordSize) = {First(pos)}
             /\ word \in [1 .. WordSize -> Bytes]
             /\ \A i \in 1 .. WordSize : word[i] = memory[pos + i - 1] /\ pos + i - 1 \in Region
    <2>1. pos = call.offset + Moved /\ pos % WordSize = 0
        BY <1>1, <1>2, <1>7 DEF AtWord
    <2>2. pos \in 0 .. Size /\ pos + left <= Size /\ pos \in Nat
        BY <1>2, <2>1
    <2>3. QED
        BY <1>1, <2>1, <2>2, OneWord
<1> HIDE DEF word
<1>8. ASSUME left > 0, NEW V, V \subseteq {First(pos)},
             reads' = Count(reads, {First(pos)}), writes' = Count(writes, V)
      PROVE  Once' /\ reads' \in [Words -> Nat] /\ writes' \in [Words -> Nat]
    <2>1. /\ Span(pos, left) \cap Touch = {} /\ Span(pos, left) \subseteq T
          /\ Touch \subseteq T
        <3>1. left \in Nat /\ left > 0 => pos = call.offset + Moved
            BY <1>2, <1>7, <1>8
        <3>2. pos \in Nat /\ pos % WordSize = 0
            BY <1>7, <1>8
        <3>3. left \in Nat
            BY <1>2
        <3>4. QED
            BY <1>2, <1>7, <1>8, <3>2, <3>3, SpanNext DEF T
    <2>2. First(pos) \in Span(pos, left)
        <3>1. Up(pos + left) = First(pos) + Up(left) /\ First(pos) \in Nat /\ Up(left) \in Nat
              /\ Span(pos, left) = First(pos) .. Up(pos + left) - 1
            <4>1. pos \in Nat /\ pos % WordSize = 0 /\ left \in Nat
                BY <1>2, <1>7, <1>8
            <4>2. QED
                BY <4>1, AlignedSpan DEF Span
        <3>2. Up(left) # 0
            <4>1. left \in Nat /\ left <= Up(left) * WordSize
                BY <1>2, UpFacts
            <4>2. 0 * WordSize = 0
                BY <1>2
            <4>3. QED
                BY <1>8, <4>1, <4>2
        <3>3. QED
            BY <3>1, <3>2
    <2>3. {First(pos)} \cap Touch = {} /\ {First(pos)} \subseteq T
          /\ V \cap Touch = {} /\ V \subseteq T
        BY <1>8, <2>1, <2>2
    <2>4. /\ reads' \in [Words -> Nat] /\ writes' \in [Words -> Nat]
          /\ \A w \in Words : /\ reads'[w] <= 1 /\ writes'[w] <= 1
                              /\ reads'[w] + writes'[w] > 0 => w \in T
        BY <1>1, <1>8, <2>1, <2>3, OnceKept
    <2>5. QED
        BY <1>5, <2>4 DEF Once, Words
<1> DEFINE m == left
<1>9. CASE left > 0 /\ IsRead
    <2>1. /\ data' = data \o Cut(word, 0, left) /\ reads' = Count(reads, Span(pos, WordSize))
          /\ pos' = pos + WordSize /\ pc' = "done" /\ UNCHANGED <<memory, writes>>
        BY <1>9 DEF LastPart, word
    <2>2. m \in Nat /\ 0 + m <= WordSize /\ WordSize \in Nat /\ 0 \in Nat
        BY <1>1, <1>2
    <2>3. word \in [1 .. WordSize -> Bytes]
        BY <1>7, <1>9
    <2>4. memory = [b \in Region |-> b] /\ data = [i \in 1 .. Moved |-> call.offset + i - 1]
        BY <1>1, <1>9 DEF Bytewise
    <2> DEFINE t == Cut(word, 0, m)
    <2> HIDE DEF m
    <2>5. t \in [1 .. m -> Bytes] /\ \A j \in 1 .. m : t[j] = word[0 + j]
        BY <2>2, <2>3, CutMade
    <2>6. \A i \in 1 .. m : t[i] = call.offset + Moved + i - 1
        <3>1. \A i \in 1 .. m : i \in 1 .. WordSize /\ 0 + i = i
            BY <2>2
        <3>2. \A i \in 1 .. WordSize : word[i] = pos + i - 1
            BY <1>7, <1>9, <2>4
        <3>3. pos = call.offset + Moved
            BY <1>7, <1>9
        <3>4. QED
            BY <2>5, <3>1, <3>2, <3>3
    <2> HIDE DEF t
    <2>7. /\ data \o t = [i \in 1 .. Moved + m |-> call.offset + i - 1]
          /\ data \o t \in Seq(Bytes)
        <3>1. call.offset + Moved <= Size
            BY <1>2
        <3>2. t \in [1 .. m -> Bytes]
            BY <2>5
        <3>3. QED
            BY <1>1, <1>2, <2>2, <2>4, <2>6, <3>1, <3>2, ReadMore
    <2>8. data' = [i \in 1 .. Moved' |-> call.offset + i - 1] /\ data' \in Seq(Bytes)
        BY <1>3, <2>1, <2>7 DEF t, m
    <2>9. Bytewise'
        BY <1>3, <1>4, <1>9, <2>1, <2>4, <2>8 DEF Bytewise, Region
    <2>10. Once' /\ reads' \in [Words -> Nat] /\ writes' \in [Words -> Nat]
        <3>1. writes' = Count(writes, {}) /\ reads' = Count(reads, {First(pos)})
            BY <1>1, <1>7, <1>9, <2>1 DEF Count, RegionType
        <3>2. {} \subseteq {First(pos)}
            OBVIOUS
        <3>3. QED
            BY <1>8, <1>9, <3>1, <3>2
    <2>11. pos' \in 0 .. Size + WordSize
        <3>1. pos \in 0 .. Size
            BY <1>7, <1>9
        <3>2. QED
            BY <1>2, <2>1, <3>1
    <2>12. RegionType'
        BY <1>1, <1>2, <1>3, <2>1, <2>8, <2>10, <2>11 DEF RegionType, Region, Bytes, Words
    <2>13. QED
        BY <1>3, <1>4, <2>1, <2>9, <2>10, <2>12 DEF RegionInv
<1>10. CASE left > 0 /\ ~IsRead
    <2> DEFINE y == Value(m)
    <2> DEFINE z == From(word, m)
    <2> DEFINE n == WordSize - m
    <2> DEFINE d == y \o z
    <2>1. /\ Store(pos, d, "done") /\ data' = data
          /\ reads' = Count(Count(reads, Span(pos, WordSize)), ReadFor(pos, d))
        BY <1>10 DEF LastPart, word, TailWord
    <2>2. /\ m \in Nat /\ m \in 0 .. left /\ n \in Nat /\ m + n = WordSize /\ m \in 0 .. WordSize
          /\ WordSize \in Nat /\ m > 0 /\ m = left
        BY <1>1, <1>2, <1>10
    <2>3. y \in [1 .. m -> Bytes] /\ \A i \in 1 .. m : y[i] = Size + Moved + i - 1
        BY <1>2, <2>2, ValueFacts
    <2>4. word \in [1 .. WordSize -> Bytes]
        BY <1>7, <1>10
    <2> HIDE DEF m
    <2>5. z \in [1 .. n -> Bytes] /\ \A j \in 1 .. n : z[j] = word[m + j]
        BY <2>2, <2>4, FromMade
    <2> HIDE DEF y, z, n
    <2>6. /\ y \o z \in [1 .. m + n -> Bytes]
          /\ \A j \in 1 .. m + n : (y \o z)[j] = IF j <= m THEN y[j] ELSE z[j - m]
        <3>1. /\ m \in Nat /\ n \in Nat
              /\ y \in [1 .. m -> Bytes] /\ z \in [1 .. n -> Bytes]
            BY <2>2, <2>3, <2>5
        <3>2. QED
            BY <3>1, JoinMade
    <2>7. d \in [1 .. WordSize -> Bytes]
        BY <2>2, <2>6
    <2>8. ASSUME NEW j \in 1 .. WordSize
          PROVE  d[j] = IF j <= m THEN Size + Moved + j - 1 ELSE memory[pos + j - 1]
        <3>1. CASE j <= m
            <4>1. j \in 1 .. m /\ j \in 1 .. m + n
                BY <2>2, <3>1
            <4>2. QED
                BY <2>3, <2>6, <3>1, <4>1
        <3>2. CASE ~(j <= m)
            <4>1. j - m \in 1 .. n /\ j \in 1 .. m + n /\ m + (j - m) = j
                BY <2>2, <3>2
            <4>2. d[j] = word[j]
                BY <2>5, <2>6, <3>2, <4>1
            <4>3. word[j] = memory[pos + j - 1]
                BY <1>7, <1>10
            <4>4. QED
                BY <3>2, <4>2, <4>3
        <3>3. QED
            BY <3>1, <3>2
    <2> HIDE DEF d
    <2>9. /\ pos' = pos + WordSize /\ pc' = "done" /\ ReadFor(pos, d) = {}
          /\ memory' = [b \in Region |-> IF pos <= b /\ b < pos + WordSize
                                         THEN d[b - pos + 1] ELSE memory[b]]
          /\ writes' = Count(writes, Span(pos, WordSize))
        <3>1. /\ WordSize % WordSize = 0 =>
                     pos' = pos + WordSize /\ pc' = "done" /\ ReadFor(pos, d) = {}
              /\ \/ /\ memory' = [b \in Region |-> IF pos <= b /\ b < pos + WordSize
                                                   THEN d[b - pos + 1] ELSE memory[b]]
                    /\ writes' = Count(writes, Span(pos, WordSize))
                 \/ pc' = "error"
            <4>1. pos \in Nat /\ pos % WordSize = 0
                  /\ Up(pos + WordSize) * WordSize <= Size + WordSize
                BY <1>7, <1>10
            <4>2. QED
                BY <1>1, <2>1, <2>2, <2>7, <4>1, StoreAligned
        <3>2. QED
            BY <1>7, <1>10, <3>1
    <2>10. memory' = Written(Moved + m) /\ memory' \in [Region -> Bytes]
        <3>1. More(m) = Written(Moved + m) /\ Written(Moved + m) \in [Region -> Bytes]
            <4>1. /\ call.offset \in Nat /\ Moved \in Nat /\ pos \in Nat /\ m \in Nat
                  /\ call.offset + (Moved + m) <= Size
                BY <1>2, <1>7, <1>10, <2>2
            <4>2. m > 0 => pos = call.offset + Moved
                BY <1>7, <1>10
            <4>3. memory = Written(Moved)
                BY <1>1, <1>10 DEF Bytewise, Written
            <4>4. QED
                BY <4>1, <4>2, <4>3, WriteMore
        <3>2. ASSUME NEW b \in Region
              PROVE  (IF pos <= b /\ b < pos + WordSize THEN d[b - pos + 1] ELSE memory[b])
                         = IF pos <= b /\ b < pos + m THEN Size + b - call.offset ELSE memory[b]
            <4>1. b \in Nat /\ pos \in Nat /\ pos = call.offset + Moved
                BY <1>2, <1>7, <1>10 DEF Region
            <4>2. CASE pos <= b /\ b < pos + WordSize
                <5>1. b - pos + 1 \in 1 .. WordSize /\ (b - pos + 1 <= m <=> b < pos + m)
                      /\ pos + (b - pos + 1) - 1 = b
                    BY <2>2, <4>1, <4>2
                <5>2. d[b - pos + 1] = IF b - pos + 1 <= m
                                       THEN Size + Moved + (b - pos + 1) - 1
                                       ELSE memory[pos + (b - pos + 1) - 1]
                    BY <2>8, <5>1
                <5>3. Size + Moved + (b - pos + 1) - 1 = Size + b - call.offset
                    BY <1>2, <4>1
                <5>4. QED
                    BY <4>2, <5>1, <5>2, <5>3
            <4>3. CASE ~(pos <= b /\ b < pos + WordSize)
                <5>1. ~(pos <= b /\ b < pos + m)
                    BY <2>2, <4>1, <4>3
                <5>2. QED
                    BY <4>3, <5>1
            <4>4. QED
                BY <4>2, <4>3
        <3>3. memory' = More(m)
            BY <2>9, <3>2 DEF More
        <3>4. QED
            BY <3>1, <3>3
    <2>11. Bytewise'
        BY <1>3, <1>4, <1>10, <2>10 DEF Bytewise, Region, Written, m
    <2>12. Once' /\ reads' \in [Words -> Nat] /\ writes' \in [Words -> Nat]
        <3>1. writes' = Count(writes, {First(pos)})
            BY <1>7, <1>10, <2>9
        <3>2. reads' = Count(reads, {First(pos)})
            <4>1. reads' = Count(Count(reads, {First(pos)}), {})
                BY <1>7, <1>10, <2>1, <2>9
            <4>2. QED
                BY <4>1 DEF Count
        <3>3. QED
            BY <1>8, <1>10, <3>1, <3>2
    <2>13. pos' \in 0 .. Size + WordSize
        <3>1. pos \in 0 .. Size
            BY <1>7, <1>10
        <3>2. pos' = pos + WordSize
            BY <2>9
        <3>3. Size \in Nat /\ WordSize \in Nat
            BY <1>2
        <3>4. QED
            BY <3>1, <3>2, <3>3
    <2>14. RegionType'
        BY <1>1, <1>2, <1>3, <2>1, <2>9, <2>10, <2>12, <2>13
        DEF RegionType, Region, Bytes, Words
    <2>15. QED
        BY <1>3, <1>4, <2>9, <2>11, <2>12, <2>14 DEF RegionInv
<1>11. QED
    BY <1>2, <1>6, <1>9, <1>10

\* Every call keeps it.
THEOREM RegionInvariant == AlignedCalls => (RegionSpec => []RegionInv)
<1> SUFFICES ASSUME AlignedCalls PROVE RegionSpec => []RegionInv
    OBVIOUS
<1>1. RegionInit => RegionInv
    BY RegionInitInv
<1>2. RegionInv /\ [RegionNext]_regionVars => RegionInv'
    <2>1. SUFFICES ASSUME RegionInv, [RegionNext]_regionVars PROVE RegionInv'
        OBVIOUS
    <2>2. CASE UNCHANGED regionVars
        BY <2>1, <2>2
        DEF RegionInv, RegionType, InRange, Once, Bytewise, AtWord, Moved, FirstBytes, Touch,
            Up, End, First, IsRead, Trxn, Unaligned, Skip, Lo, Words, Region, Bytes, regionVars
    <2>3. QED
        BY <2>1, <2>2, FirstPartInv, WholePartInv, WordsPartInv, LastPartInv DEF RegionNext, Part
<1>3. QED
    BY <1>1, <1>2, PTL DEF RegionSpec

\* Of a word, the pointer has made as many reads as the call has made writes, and one more
\* of word 0 if it was made in the call; with _MemVolatileAccess there is no pointer.
PointerInv ==
    /\ PointerType
    /\ \A w \in Words :
          hidden[w] = IF buf = "volatile" THEN 0
                      ELSE writes[w] + (IF w = 0 /\ buf = "made" THEN 1 ELSE 0)

\* A step keeps it.
LEMMA PointerKept ==
    ASSUME PointerInv, Pointer, writes \in [Words -> Nat], writes' \in [Words -> Nat]
    PROVE  PointerInv'
<1> DEFINE first == buf = "none" /\ <<reads, writes>>' # <<reads, writes>>
<1>1. /\ buf' = IF first THEN "made" ELSE buf
      /\ hidden' = IF buf = "volatile" THEN hidden
                   ELSE [w \in Words |-> hidden[w] + (writes'[w] - writes[w])
                                                  + (IF first /\ w = 0 THEN 1 ELSE 0)]
    BY DEF Pointer
<1>2. first => buf = "none"
    OBVIOUS
<1> HIDE DEF first
<1>3. buf' \in {"volatile", "none", "old", "made"} /\ (buf' = "volatile" <=> buf = "volatile")
    BY <1>1, <1>2 DEF PointerInv, PointerType
<1>4. CASE buf = "volatile"
    BY <1>1, <1>2, <1>3, <1>4 DEF PointerInv, PointerType, Words
<1>5. CASE buf # "volatile"
    <2>1. ASSUME NEW w \in Words
          PROVE  /\ hidden[w] + (writes'[w] - writes[w]) + (IF first /\ w = 0 THEN 1 ELSE 0)
                        = writes'[w] + (IF w = 0 /\ buf' = "made" THEN 1 ELSE 0)
                 /\ writes'[w] + (IF w = 0 /\ buf' = "made" THEN 1 ELSE 0) \in Nat
        <3>1. writes[w] \in Nat /\ writes'[w] \in Nat
            OBVIOUS
        <3>2. hidden[w] = writes[w] + (IF w = 0 /\ buf = "made" THEN 1 ELSE 0)
            BY <1>5 DEF PointerInv
        <3>3. buf' = "made" <=> first \/ buf = "made"
            BY <1>1
        <3>4. QED
            BY <1>2, <3>1, <3>2, <3>3
    <2>2. \A w \in Words : /\ hidden'[w] \in Nat
                           /\ hidden'[w] = writes'[w] + (IF w = 0 /\ buf' = "made" THEN 1 ELSE 0)
        BY <1>1, <1>5, <2>1
    <2>3. hidden' \in [Words -> Nat]
        BY <1>1, <1>5, <2>1
    <2>4. QED
        BY <1>3, <1>5, <2>2, <2>3 DEF PointerInv, PointerType, Words
<1>6. QED
    BY <1>4, <1>5

\* Every call keeps it.
THEOREM PointerInvariant == AlignedCalls => (RegionSpec => []PointerInv)
<1> SUFFICES ASSUME AlignedCalls PROVE RegionSpec => []PointerInv
    OBVIOUS
<1>1. RegionInit => PointerInv
    BY DEF RegionInit, PointerInv, PointerType
<1>2. RegionInv /\ RegionInv' /\ PointerInv /\ [RegionNext]_regionVars => PointerInv'
    <2>1. SUFFICES ASSUME RegionInv, RegionInv', PointerInv, [RegionNext]_regionVars
                   PROVE  PointerInv'
        OBVIOUS
    <2>2. writes \in [Words -> Nat] /\ writes' \in [Words -> Nat]
        BY <2>1 DEF RegionInv, RegionType, Words
    <2>3. CASE UNCHANGED regionVars
        BY <2>1, <2>3 DEF regionVars, pointerVars, PointerInv, PointerType, Words
    <2>4. QED
        BY <2>1, <2>2, <2>3, PointerKept DEF RegionNext
<1>3. QED
    BY <1>1, <1>2, RegionInvariant, PTL DEF RegionSpec

\* Whatever its offset, length and transactions, a read returns the bytes at the offset,
\* in their order, and a write changes the bytes at the offset and no other: for every
\* size of a word and of the region, and every aligned call of at least a byte.
THEOREM TransfersHolds == AlignedCalls => (RegionSpec => []Transfers)
<1> SUFFICES ASSUME AlignedCalls PROVE RegionSpec => []Transfers
    OBVIOUS
<1>1. RegionInv => Transfers
    <2>1. SUFFICES ASSUME RegionInv, pc = "done" PROVE Transfers
        BY DEF Transfers
    <2>2. RegionType /\ InRange(call) /\ Bytewise /\ left = 0
        BY <2>1 DEF RegionInv
    <2>3. /\ call.offset \in Nat /\ call.nbytes \in Nat /\ Moved = call.nbytes
          /\ Size \in Nat /\ WordSize \in Nat
        BY <2>1, <2>2, CallFacts DEF RegionType, Moved
    <2>4. \A b \in Region : b \in Wanted <=> call.offset <= b /\ b < call.offset + Moved
        BY <2>3 DEF Wanted, Region
    <2>5. QED
        BY <2>2, <2>3, <2>4 DEF Transfers, Bytewise
<1>2. QED
    BY <1>1, RegionInvariant, PTL

\* A call reads a word at most once and writes it at most once, and only if it has one of the
\* bytes, and how often the pointer reads one besides: for every size of a word and of the
\* region, and every such call.
THEOREM OncePerWordHolds == AlignedCalls => (RegionSpec => []OncePerWord)
<1> SUFFICES ASSUME AlignedCalls PROVE RegionSpec => []OncePerWord
    OBVIOUS
<1>1. RegionInv /\ PointerInv => OncePerWord
    <2>1. SUFFICES ASSUME RegionInv, PointerInv PROVE OncePerWord
        OBVIOUS
    <2>2. RegionType /\ InRange(call) /\ Once
        BY <2>1 DEF RegionInv
    <2>3. /\ call.offset \in Nat /\ call.nbytes \in Nat /\ call.nbytes > 0 /\ Moved \in Nat
          /\ Size \in Nat /\ WordSize \in Nat \ {0} /\ Moved <= call.nbytes
        <3>1. left \in 0 .. call.nbytes
            BY <2>2 DEF RegionType
        <3>2. QED
            BY <2>1, <2>2, <3>1, CallFacts DEF RegionType
    <2>4. ASSUME NEW w \in Words, w \in Touch
          PROVE  \E b \in Wanted : First(b) = w
        <3>1. /\ w \in Nat /\ First(call.offset) <= w /\ w + 1 <= Up(call.offset + Moved)
              /\ Up(call.offset + Moved) \in Nat /\ First(call.offset) \in Nat
            <4>1. call.offset + Moved \in Nat /\ w \in Nat
                BY <2>3 DEF Words
            <4>2. Up(call.offset + Moved) \in Nat /\ First(call.offset) \in Nat
                BY <2>3, <4>1, Divide, UpFacts
            <4>3. QED
                BY <2>4, <4>1, <4>2 DEF Touch
        <3>2. w * WordSize + WordSize <= Up(call.offset + Moved) * WordSize
              /\ w * WordSize \in Nat
            BY <2>3, <3>1, WordsOrder
        <3>3. Up(call.offset + Moved) * WordSize \in Nat
              /\ Up(call.offset + Moved) * WordSize < (call.offset + Moved) + WordSize
            BY <2>3, UpFacts
        <3>4. w * WordSize < call.offset + call.nbytes
            BY <2>3, <3>2, <3>3
        <3>5. CASE call.offset <= w * WordSize
            <4>1. w * WordSize \in Wanted
                BY <2>3, <3>2, <3>4, <3>5 DEF Wanted
            <4>2. First(w * WordSize) = w
                BY <2>3, <3>1, <3>2, InWord
            <4>3. QED
                BY <4>1, <4>2
        <3>6. CASE w * WordSize < call.offset
            <4>1. call.offset \in Wanted
                BY <2>3 DEF Wanted
            <4>2. First(call.offset) * WordSize <= w * WordSize
                  /\ First(call.offset) * WordSize \in Nat
                BY <3>1, WordsOrder
            <4>3. call.offset < w * WordSize + WordSize
                <5>1. call.offset = First(call.offset) * WordSize + (call.offset % WordSize)
                      /\ call.offset % WordSize \in 0 .. WordSize - 1
                    BY <2>3, Divide
                <5>2. QED
                    BY <2>3, <3>2, <4>2, <5>1
            <4>4. First(call.offset) = w
                <5>1. w * WordSize <= call.offset
                    BY <2>3, <3>2, <3>6
                <5>2. QED
                    BY <2>3, <3>1, <4>3, <5>1, InWord
            <4>5. QED
                BY <4>1, <4>4
        <3>7. QED
            BY <2>3, <3>2, <3>5, <3>6
    <2>5. \A w \in Words : writes[w] \in Nat
        BY <2>2 DEF RegionType
    <2>6. \A w \in Words :
             /\ buf = "volatile" => hidden[w] = 0
             /\ hidden[w] <= writes[w] + (IF w = 0 /\ buf = "made" THEN 1 ELSE 0)
        BY <2>1, <2>5 DEF PointerInv
    <2>7. QED
        BY <2>1, <2>2, <2>4, <2>6 DEF OncePerWord, Once, PointerInv
<1>2. QED
    BY <1>1, RegionInvariant, PointerInvariant, PTL
-----------------------------------------------------------------------------
(* The list of capabilities.  Walk(list, n, f): f[k] is where k steps lead. *)

Walk(list, n, f) ==
    f = [k \in 0 .. n |-> IF k = 0 THEN list.first
                          ELSE IF f[k - 1] = 0 THEN 0 ELSE list.next[f[k - 1]]]

\* One step further.
NextOf(list, p) == IF p = 0 THEN 0 ELSE list.next[p]

\* A walk is one as far as it goes.
LEMMA WalkSteps ==
    ASSUME NEW list, NEW n \in Nat, NEW f, Walk(list, n, f)
    PROVE  f[0] = list.first /\ \A k \in 1 .. n : f[k] = NextOf(list, f[k - 1])
<1>1. \A k \in 0 .. n : f[k] = IF k = 0 THEN list.first
                               ELSE IF f[k - 1] = 0 THEN 0 ELSE list.next[f[k - 1]]
    BY DEF Walk
<1>2. QED
    BY <1>1 DEF NextOf

\* The walk exists: it is extended step by step.
LEMMA WalkExists ==
    ASSUME NEW list, NEW n \in Nat
    PROVE  \E f : Walk(list, n, f)
<1> DEFINE T == {m \in Nat : ~ \E f : Walk(list, m, f)}
<1>1. SUFFICES ASSUME T # {} PROVE FALSE
    OBVIOUS
<1>2. PICK m \in T : \A k \in T : m <= k
    BY <1>1, Least
<1>3. CASE m = 0
    <2>1. Walk(list, 0, [k \in 0 .. 0 |-> list.first])
        BY DEF Walk
    <2>2. QED
        BY <1>2, <1>3, <2>1
<1>4. CASE m # 0
    <2>1. m - 1 \in Nat /\ m - 1 \notin T
        BY <1>2, <1>4
    <2>2. PICK f : Walk(list, m - 1, f)
        BY <2>1
    <2> DEFINE g == [k \in 0 .. m |-> IF k < m THEN f[k] ELSE NextOf(list, f[m - 1])]
    <2>3. f[0] = list.first /\ \A k \in 1 .. m - 1 : f[k] = NextOf(list, f[k - 1])
        BY <2>1, <2>2, WalkSteps
    <2>4. m \in Nat /\ (\A k \in 0 .. m - 1 : g[k] = f[k]) /\ g[m] = NextOf(list, f[m - 1])
        OBVIOUS
    <2>5. g = [k \in 0 .. m |-> g[k]]
        OBVIOUS
    <2> HIDE DEF g
    <2>6. \A k \in 0 .. m : g[k] = IF k = 0 THEN list.first
                                   ELSE IF g[k - 1] = 0 THEN 0 ELSE list.next[g[k - 1]]
        BY <1>4, <2>3, <2>4 DEF NextOf
    <2>7. Walk(list, m, g)
        BY <2>5, <2>6 DEF Walk
    <2>8. QED
        BY <1>2, <2>7
<1>5. QED
    BY <1>3, <1>4

\* Two walks agree.
LEMMA WalksAgree ==
    ASSUME NEW list, NEW m \in Nat, NEW n \in Nat, m <= n,
           NEW f, Walk(list, m, f), NEW g, Walk(list, n, g)
    PROVE  f[m] = g[m]
<1> DEFINE T == {k \in 0 .. m : f[k] # g[k]}
<1>1. SUFFICES ASSUME T # {} PROVE FALSE
    OBVIOUS
<1>2. T \in SUBSET Nat
    OBVIOUS
<1>3. PICK k \in T : \A j \in T : k <= j
    BY <1>1, <1>2, Least
<1>4. /\ f[0] = list.first /\ \A j \in 1 .. m : f[j] = NextOf(list, f[j - 1])
      /\ g[0] = list.first /\ \A j \in 1 .. n : g[j] = NextOf(list, g[j - 1])
    BY WalkSteps
<1>5. k # 0 /\ k \in 1 .. m /\ k \in 1 .. n
    BY <1>3, <1>4
<1>6. f[k - 1] = g[k - 1]
    BY <1>3, <1>5
<1>7. QED
    BY <1>3, <1>4, <1>5, <1>6

\* Along the list, step by step.
LEMMA AlongFacts ==
    ASSUME NEW list
    PROVE  /\ Along(list, 0) = list.first
           /\ \A n \in Nat : Along(list, n + 1) = NextOf(list, Along(list, n))
<1>1. ASSUME NEW n \in Nat
      PROVE  \E f : Walk(list, n, f) /\ Along(list, n) = f[n]
    <2>1. Along(list, n) = (CHOOSE f : Walk(list, n, f))[n]
        BY DEF Along, Walk
    <2>2. Walk(list, n, CHOOSE f : Walk(list, n, f))
        BY WalkExists
    <2>3. QED
        BY <2>1, <2>2
<1>2. Along(list, 0) = list.first
    BY <1>1, WalkSteps
<1>3. ASSUME NEW n \in Nat
      PROVE  Along(list, n + 1) = NextOf(list, Along(list, n))
    <2>1. PICK f : Walk(list, n, f) /\ Along(list, n) = f[n]
        BY <1>1
    <2>2. n + 1 \in Nat
        OBVIOUS
    <2>3. PICK g : Walk(list, n + 1, g) /\ Along(list, n + 1) = g[n + 1]
        BY <1>1, <2>2
    <2>4. f[n] = g[n]
        BY <2>1, <2>2, <2>3, WalksAgree
    <2>5. g[n + 1] = NextOf(list, g[n + 1 - 1])
        BY <2>2, <2>3, WalkSteps
    <2>6. QED
        BY <2>1, <2>3, <2>4, <2>5
<1>4. QED
    BY <1>2, <1>3

\* A list whose pointers lead to capabilities it has, or to its end.
Linked(list) ==
    /\ Len(list.id) \in Nat
    /\ list.first \in 0 .. Len(list.id)
    /\ list.next \in [1 .. Len(list.id) -> 0 .. Len(list.id)]

\* What holds first, and of each step after one it holds of, holds all along.
LEMMA AlongIn ==
    ASSUME NEW list, NEW S, list.first \in S,
           \A p \in S : NextOf(list, p) \in S,
           NEW n \in Nat
    PROVE  Along(list, n) \in S
<1> DEFINE T == {m \in Nat : Along(list, m) \notin S}
<1>1. SUFFICES ASSUME T # {} PROVE FALSE
    OBVIOUS
<1>2. PICK m \in T : \A k \in T : m <= k
    BY <1>1, Least
<1>3. m # 0
    BY AlongFacts
<1>4. m - 1 \in Nat /\ m - 1 \notin T
    BY <1>2, <1>3
<1>5. Along(list, m - 1) \in S
    BY <1>4
<1>6. Along(list, m - 1 + 1) = NextOf(list, Along(list, m - 1))
    BY <1>4, AlongFacts
<1>7. m - 1 + 1 = m
    BY <1>4
<1>8. QED
    BY <1>5, <1>6, <1>7

\* From the same capability the list goes on in the same way.
LEMMA AlongOn ==
    ASSUME NEW list, NEW i \in Nat, NEW j \in Nat, Along(list, i) = Along(list, j),
           NEW n \in Nat
    PROVE  Along(list, i + n) = Along(list, j + n)
<1> DEFINE T == {m \in Nat : Along(list, i + m) # Along(list, j + m)}
<1>1. SUFFICES ASSUME T # {} PROVE FALSE
    OBVIOUS
<1>2. PICK m \in T : \A k \in T : m <= k
    BY <1>1, Least
<1>3. i + 0 = i /\ j + 0 = j
    OBVIOUS
<1>4. m # 0
    BY <1>3
<1>5. m - 1 \in Nat /\ m - 1 \notin T
    BY <1>2, <1>4
<1>6. Along(list, i + (m - 1)) = Along(list, j + (m - 1))
    BY <1>5
<1>7. /\ i + (m - 1) \in Nat /\ i + (m - 1) + 1 = i + m
      /\ j + (m - 1) \in Nat /\ j + (m - 1) + 1 = j + m
    BY <1>5
<1>8. Along(list, i + m) = NextOf(list, Along(list, i + (m - 1)))
    BY <1>7, AlongFacts
<1>9. Along(list, j + m) = NextOf(list, Along(list, j + (m - 1)))
    BY <1>7, AlongFacts
<1>10. QED
    BY <1>6, <1>8, <1>9

\* Behind its end the list stays at its end.
LEMMA AlongEnd ==
    ASSUME NEW list, NEW i \in Nat, Along(list, i) = 0, NEW n \in Nat, i <= n
    PROVE  Along(list, n) = 0
<1> DEFINE T == {m \in Nat : i <= m /\ Along(list, m) # 0}
<1>1. SUFFICES ASSUME T # {} PROVE FALSE
    OBVIOUS
<1>2. PICK m \in T : \A k \in T : m <= k
    BY <1>1, Least
<1>3. m # i /\ m - 1 \in Nat /\ i <= m - 1
    BY <1>2
<1>4. Along(list, m - 1) = 0
    BY <1>2, <1>3
<1>5. Along(list, m - 1 + 1) = NextOf(list, Along(list, m - 1)) /\ m - 1 + 1 = m
    BY <1>3, AlongFacts
<1>6. QED
    BY <1>2, <1>4, <1>5 DEF NextOf

\* A list without an end comes back to where it has been.
LEMMA AlongBack ==
    ASSUME NEW list, Linked(list), ~Ends(list)
    PROVE  /\ \A n \in Nat : Along(list, n) \in 0 .. Len(list.id)
           /\ \A n \in 0 .. Len(list.id) : Along(list, n) # 0
           /\ \E k \in 0 .. Len(list.id) :
                  Along(list, Len(list.id) + 1) = Along(list, k)
<1> DEFINE N == Len(list.id)
<1>1. N \in Nat /\ list.first \in 0 .. N /\ list.next \in [1 .. N -> 0 .. N]
    BY DEF Linked
<1>2. \A p \in 0 .. N : NextOf(list, p) \in 0 .. N
    BY <1>1 DEF NextOf
<1> HIDE DEF N
<1>3. \A n \in Nat : Along(list, n) \in 0 .. N
    BY <1>1, <1>2, AlongIn
<1>4. Along(list, N) # 0
    BY DEF Ends, N
<1>5. \A n \in 0 .. N : Along(list, n) # 0
    <2>1. SUFFICES ASSUME NEW n \in 0 .. N, Along(list, n) = 0 PROVE FALSE
        OBVIOUS
    <2>2. n \in Nat /\ n <= N
        BY <1>1
    <2>3. QED
        BY <1>1, <1>4, <2>1, <2>2, AlongEnd
<1> DEFINE f == [n \in 0 .. N |-> Along(list, n)]
<1>6. f \in [0 .. N -> 1 .. N]
    BY <1>1, <1>3, <1>5
<1>7. \E i, j \in 0 .. N : i # j /\ f[i] = f[j]
    <2>1. /\ IsFiniteSet(0 .. N) /\ Cardinality(0 .. N) = N + 1
          /\ IsFiniteSet(1 .. N) /\ Cardinality(1 .. N) = N
        <3>1. 0 \in Int /\ 1 \in Int /\ N \in Int
            BY <1>1
        <3>2. /\ IsFiniteSet(0 .. N) /\ Cardinality(0 .. N) = IF 0 > N THEN 0 ELSE N - 0 + 1
              /\ IsFiniteSet(1 .. N) /\ Cardinality(1 .. N) = IF 1 > N THEN 0 ELSE N - 1 + 1
            BY <3>1, FS_Interval
        <3>3. QED
            BY <1>1, <3>2
    <2>2. Cardinality(1 .. N) < Cardinality(0 .. N)
        BY <1>1, <2>1
    <2> HIDE DEF f
    <2>3. QED
        BY <1>6, <2>1, <2>2, FS_PigeonHole
<1>8. PICK i, j \in 0 .. N : i < j /\ Along(list, i) = Along(list, j)
    <2>1. PICK i, j \in 0 .. N : i # j /\ f[i] = f[j]
        BY <1>7
    <2>2. Along(list, i) = Along(list, j) /\ Along(list, j) = Along(list, i)
        BY <2>1
    <2>3. i < j \/ j < i
        BY <1>1, <2>1
    <2>4. QED
        BY <2>2, <2>3
<1>9. i \in Nat /\ j \in Nat /\ N + 1 - j \in Nat /\ j + (N + 1 - j) = N + 1
      /\ i + (N + 1 - j) \in 0 .. N
    BY <1>1, <1>8
<1>10. Along(list, i + (N + 1 - j)) = Along(list, j + (N + 1 - j))
    BY <1>8, <1>9, AlongOn
<1>11. Along(list, N + 1) = Along(list, i + (N + 1 - j))
    BY <1>9, <1>10
<1>12. \E k \in 0 .. N : Along(list, N + 1) = Along(list, k)
    BY <1>9, <1>11
<1>13. QED
    BY <1>3, <1>5, <1>12 DEF N

\* The capabilities that are seen are those the list leads to: one step from any of them
\* is seen as well, or the end.
LEMMA SeenClosed ==
    ASSUME NEW list, Linked(list)
    PROVE  /\ Seen(list) \in SUBSET (1 .. Len(list.id))
           /\ Closed(list, Seen(list))
           /\ ~Ends(list) => list.first # 0 /\ \A p \in Seen(list) : list.next[p] # 0
<1> DEFINE N == Len(list.id)
<1>1. N \in Nat /\ list.first \in 0 .. N /\ list.next \in [1 .. N -> 0 .. N]
    BY DEF Linked
<1>2. \A p \in 0 .. N : NextOf(list, p) \in 0 .. N
    BY <1>1 DEF NextOf
<1> HIDE DEF N
<1>3. \A n \in Nat : Along(list, n) \in 0 .. N
    BY <1>1, <1>2, AlongIn
<1>4. \A p : p \in Seen(list) <=> p # 0 /\ \E n \in 0 .. N : p = Along(list, n)
    BY DEF Seen, N
<1>5. Seen(list) \in SUBSET (1 .. N)
    BY <1>1, <1>3, <1>4
<1>6. Along(list, 0) = list.first /\ 0 \in 0 .. N
    BY <1>1, AlongFacts
<1>7. ASSUME NEW p \in Seen(list)
      PROVE  /\ list.next[p] # 0 => list.next[p] \in Seen(list)
             /\ ~Ends(list) => list.next[p] # 0
    <2>1. PICK n \in 0 .. N : p = Along(list, n) /\ p # 0
        BY <1>4
    <2>2. n \in Nat
        BY <1>1
    <2>3. Along(list, n + 1) = list.next[p]
        <3>1. Along(list, n + 1) = NextOf(list, Along(list, n))
            BY <2>2, AlongFacts
        <3>2. QED
            BY <2>1, <3>1 DEF NextOf
    <2>4. CASE n < N
        <3>1. n + 1 \in 0 .. N
            BY <1>1, <2>4
        <3>2. ~Ends(list) => Along(list, n + 1) # 0
            BY <3>1, AlongBack DEF N
        <3>3. QED
            BY <1>4, <2>3, <3>1, <3>2
    <2>5. CASE n = N /\ ~Ends(list)
        <3>1. PICK k \in 0 .. N : Along(list, N + 1) = Along(list, k)
            BY <2>5, AlongBack DEF N
        <3>2. Along(list, k) # 0
            BY <2>5, AlongBack DEF N
        <3>3. QED
            BY <1>4, <2>3, <2>5, <3>1, <3>2
    <2>6. CASE n = N /\ Ends(list)
        BY <2>1, <2>6 DEF Ends, N
    <2>7. QED
        BY <1>1, <2>4, <2>5, <2>6
<1>8. ~Ends(list) => list.first # 0
    BY <1>6, AlongBack DEF N
<1>9. list.first # 0 => list.first \in Seen(list)
    BY <1>4, <1>6
<1>10. QED
    BY <1>5, <1>7, <1>8, <1>9 DEF Closed, N

\* Nothing is seen that the list leads out of.
LEMMA SeenLeast ==
    ASSUME NEW list, NEW S, 0 \notin S, Closed(list, S)
    PROVE  Seen(list) \subseteq S
<1>1. \A p \in S \cup {0} : NextOf(list, p) \in S \cup {0}
    BY DEF Closed, NextOf
<1>2. list.first \in S \cup {0}
    BY DEF Closed
<1>3. \A n \in Nat : Along(list, n) \in S \cup {0}
    <2> DEFINE U == S \cup {0}
    <2>1. list.first \in U /\ \A p \in U : NextOf(list, p) \in U
        BY <1>1, <1>2
    <2> HIDE DEF U
    <2>2. \A n \in Nat : Along(list, n) \in U
        BY <2>1, AlongIn
    <2>3. QED
        BY <2>2 DEF U
<1>4. QED
    BY <1>3 DEF Seen

\* The walk decides whether the device supports PCI Express, and is endless only if
\* the list is.
LEMMA WalkDecides ==
    ASSUME NEW list, Linked(list)
    PROVE  /\ ChecksPcie(list) <=> Supports(list)
           /\ PCIe \in Decoded(list) <=> Supports(list)
           /\ ~Ends(list) => Endless(list)
<1>1. /\ Seen(list) \in SUBSET (1 .. Len(list.id)) /\ Closed(list, Seen(list))
      /\ ~Ends(list) => list.first # 0 /\ \A p \in Seen(list) : list.next[p] # 0
    BY SeenClosed
<1>2. ASSUME NEW S \in SUBSET (1 .. Len(list.id)), Closed(list, S)
      PROVE  Seen(list) \subseteq S
    <2>1. 0 \notin S
        BY DEF Linked
    <2>2. QED
        BY <1>2, <2>1, SeenLeast
<1>3. ChecksPcie(list) <=> Supports(list)
    BY <1>1, <1>2 DEF ChecksPcie, Supports
<1>4. PCIe \in Decoded(list) <=> ChecksPcie(list)
    BY DEF Decoded, ChecksPcie
<1>5. QED
    BY <1>1, <1>3, <1>4 DEF Endless
-----------------------------------------------------------------------------
(* The objects and their devices.                                          *)

\* The devices there can be.
Devices == WithBars \cup WithCaps(1) \cup WithCaps(2)

PciObjects ==
    [class : [header : 0 .. 2, pcie : BOOLEAN], ids : 0 .. 2, caps : SUBSET {PCIe},
     regions : {Regions(d) : d \in Devices}, bus : 0 .. 2]

\* There is a device, and perhaps an object, of a class.
PciType == dev \in Devices /\ (obj # NoObject => obj \in PciObjects)

\* What there is about a device.
LEMMA DeviceFacts ==
    ASSUME NEW d \in Devices
    PROVE  Linked(d.list) /\ d.header \in 0 .. 2 /\ d.ids \in 0 .. 2 /\ d.bus \in 0 .. 2
<1>1. Linked(NoCaps)
    <2>1. <<>> \in Seq({PCIe}) /\ Len(<<>>) = 0
        OBVIOUS
    <2>2. NoCaps.id = <<>> /\ NoCaps.first = 0 /\ NoCaps.next = <<>>
        BY DEF NoCaps
    <2>3. <<>> \in [1 .. 0 -> 0 .. 0]
        <3>1. <<>> = [i \in {} |-> i] /\ 1 .. 0 = {}
            OBVIOUS
        <3>2. QED
            BY <3>1
    <2>4. QED
        BY <2>1, <2>2, <2>3 DEF Linked
<1>2. ASSUME NEW list \in Lists
      PROVE  Linked(list)
    <2>1. /\ NumCaps \in Nat /\ list.id \in [1 .. NumCaps -> {PCIe, "other"}]
          /\ list.first \in 0 .. NumCaps /\ list.next \in [1 .. NumCaps -> 0 .. NumCaps]
        BY WordsAssumption DEF Lists
    <2>2. list.id \in Seq({PCIe, "other"})
        BY <2>1, SeqDef
    <2>3. Len(list.id) = NumCaps
        BY <2>1, <2>2, LenProperties
    <2>4. QED
        BY <2>1, <2>3 DEF Linked
<1>3. CASE d \in WithBars
    BY <1>1, <1>3 DEF WithBars, Device, Endpoint
<1>4. CASE d \in WithCaps(1) \cup WithCaps(2)
    BY <1>2, <1>4 DEF WithCaps, Device
<1>5. QED
    BY <1>3, <1>4 DEF Devices

\* An object of the class of a device that is taken from it.
LEMMA ObjectTaken ==
    ASSUME NEW d \in Devices
    PROVE  /\ New(d) \in PciObjects
           /\ New(d).class = [header |-> d.header, pcie |-> Supports(d.list)]
           /\ New(d).ids = d.ids /\ New(d).regions = Regions(d)
<1>1. Linked(d.list) /\ d.header \in 0 .. 2 /\ d.ids \in 0 .. 2 /\ d.bus \in 0 .. 2
    BY DeviceFacts
<1>2. ChecksPcie(d.list) = Supports(d.list)
    BY <1>1, WalkDecides DEF ChecksPcie, Supports
<1>3. Decoded(d.list) \in SUBSET {PCIe}
    BY DEF Decoded
<1>4. Class(d) = [header |-> d.header, pcie |-> Supports(d.list)]
    BY <1>2 DEF Class
<1>5. Supports(d.list) \in BOOLEAN
    BY DEF Supports
<1>6. Class(d) \in [header : 0 .. 2, pcie : BOOLEAN]
    BY <1>1, <1>4, <1>5
<1>7. Regions(d) \in {Regions(e) : e \in Devices}
    OBVIOUS
<1>8. (IF d.header = PciBridge THEN d.bus ELSE 0) \in 0 .. 2
    BY <1>1
<1> DEFINE bus == IF d.header = PciBridge THEN d.bus ELSE 0
<1>9. New(d) = [class |-> Class(d), ids |-> d.ids, caps |-> Decoded(d.list),
                regions |-> Regions(d), bus |-> bus]
    BY DEF New
<1>10. bus \in 0 .. 2
    BY <1>8
<1> HIDE DEF bus
<1>11. QED
    BY <1>1, <1>3, <1>4, <1>6, <1>7, <1>9, <1>10 DEF PciObjects

\* How the information of a device is taken in for an object of a class.
LEMMA InitInfoFacts ==
    ASSUME NEW d \in Devices, NEW class \in [header : 0 .. 2, pcie : BOOLEAN]
    PROVE  /\ InitInfo(class, d) = "ok" =>
                  class = [header |-> d.header, pcie |-> Supports(d.list)]
           /\ InitInfo(class, d) = "loops" => Endless(d.list)
           /\ InitInfo(class, d) = "class" => class.pcie # Supports(d.list)
           /\ InitInfo(class, d) \in {"header", "loops", "class", "ok"}
<1>1. Linked(d.list)
    BY DeviceFacts
<1>2. /\ PCIe \in Decoded(d.list) <=> Supports(d.list)
      /\ ~Ends(d.list) => Endless(d.list)
    BY <1>1, WalkDecides
<1>3. class = [header |-> class.header, pcie |-> class.pcie] /\ class.pcie \in BOOLEAN
    OBVIOUS
<1>4. (PCIe \in Decoded(d.list)) = Supports(d.list)
    <2>1. Supports(d.list) \in BOOLEAN
        BY DEF Supports
    <2>2. QED
        BY <1>2, <2>1
<1>5. QED
    BY <1>2, <1>3, <1>4 DEF InitInfo

\* How an object is made.
LEMMA FactoryFacts ==
    ASSUME NEW d \in Devices
    PROVE  /\ Factory(d) \in {"invalid", "loops", "ok"}
           /\ Factory(d) = "loops" => Endless(d.list)
<1>1. Linked(d.list)
    BY DeviceFacts
<1>2. ~Ends(d.list) => Endless(d.list)
    BY <1>1, WalkDecides
<1>3. Class(d).header = d.header /\ Class(d).pcie = ChecksPcie(d.list)
    BY DEF Class
<1>4. (PCIe \in Decoded(d.list)) = ChecksPcie(d.list)
    <2>1. PCIe \in Decoded(d.list) <=> ChecksPcie(d.list)
        BY DEF Decoded, ChecksPcie
    <2>2. ChecksPcie(d.list) \in BOOLEAN
        BY DEF ChecksPcie
    <2>3. QED
        BY <2>1, <2>2
<1>5. QED
    BY <1>2, <1>3, <1>4 DEF Factory, InitInfo

\* What a rescan does to an object.
LEMMA RescannedFacts ==
    ASSUME NEW d \in Devices, NEW o \in PciObjects, NEW there \in BOOLEAN
    PROVE  /\ Rescanned(o, d, there) \in PciObjects
           /\ Rescanned(o, d, there).class = o.class
           /\ Rescanned(o, d, there) # o =>
                  InitInfo(o.class, d) = "ok" /\ Rescanned(o, d, there).ids = d.ids
           /\ InitInfo(o.class, d) = "ok" /\ there => Rescanned(o, d, there).regions = Regions(d)
<1>1. d.ids \in 0 .. 2 /\ Decoded(d.list) \in SUBSET {PCIe}
      /\ Regions(d) \in {Regions(e) : e \in Devices}
    BY DeviceFacts DEF Decoded
<1>2. /\ Identified(o, d) \in PciObjects /\ Identified(o, d).class = o.class
      /\ Identified(o, d).ids = d.ids
    BY <1>1 DEF Identified, PciObjects
<1>3. /\ With(o, d) \in PciObjects /\ With(o, d).class = o.class
      /\ With(o, d).ids = d.ids /\ With(o, d).regions = Regions(d)
    BY <1>1, <1>2 DEF With, PciObjects
<1>4. QED
    BY <1>2, <1>3 DEF Rescanned

\* Every step keeps the types.
LEMMA PciTypeKept ==
    ASSUME PciType, [PciNext]_pci
    PROVE  PciType'
<1>1. CASE UNCHANGED pci
    BY <1>1 DEF PciType, pci
<1>2. CASE Detect
    <2>1. dev' = dev /\ (obj' = New(dev) \/ obj' = NoObject)
        BY <1>2 DEF Detect
    <2>2. QED
        BY <2>1, ObjectTaken DEF PciType
<1>3. ASSUME NEW there \in BOOLEAN, RescanObject(there)
      PROVE  PciType'
    <2>1. dev' = dev /\ obj # NoObject /\ obj' = Rescanned(obj, dev, there)
        BY <1>3 DEF RescanObject
    <2>2. QED
        BY <2>1, RescannedFacts DEF PciType
<1>4. ASSUME NEW bar \in 0 .. NumBars, Access(bar)
      PROVE  PciType'
    BY <1>4 DEF Access, PciType
<1>5. CASE Replug
    BY <1>5 DEF Replug, PciType, Devices
<1>6. QED
    BY <1>1, <1>2, <1>3, <1>4, <1>5 DEF PciNext

\* An object is only ever of the class of its device, whatever device is there, and a walk
\* that does not return is one of an endless list, for any number of BARs and capabilities.
THEOREM ObjectFitsHolds == PciSpec => ObjectFits
<1> DEFINE Fits ==
      /\ obj' # obj /\ obj' # NoObject =>
              /\ obj'.class = [header |-> dev.header, pcie |-> Supports(dev.list)]
              /\ obj'.ids = dev.ids
      /\ how' # how => /\ how' = "loops" => Endless(dev.list)
                       /\ obj = NoObject => how' \in {"ok", "invalid", "loops"}
                       /\ how' = "class" => obj.class.pcie # Supports(dev.list)
<1>1. PciInit => PciType
    BY DEF PciInit, PciIdle, PciType, Devices
<1>2. PciType /\ [PciNext]_pci => PciType'
    BY PciTypeKept
<1>3. PciType /\ PciNext => Fits
    <2> SUFFICES ASSUME PciType, PciNext PROVE Fits
        OBVIOUS
    <2>1. CASE Detect
        <3>1. /\ obj = NoObject /\ how' = Factory(dev) /\ dev \in Devices
              /\ obj' # NoObject => how' = "ok" /\ obj' = New(dev)
            BY <2>1 DEF Detect, PciType
        <3>2. QED
            BY <3>1, ObjectTaken, FactoryFacts
    <2>2. ASSUME NEW there \in BOOLEAN, RescanObject(there)
          PROVE  Fits
        <3>1. /\ dev \in Devices /\ obj # NoObject /\ obj \in PciObjects
              /\ obj' = Rescanned(obj, dev, there)
              /\ how' = "gone" \/ how' = InitInfo(obj.class, dev)
            BY <2>2 DEF RescanObject, PciType
        <3>2. obj.class \in [header : 0 .. 2, pcie : BOOLEAN]
            BY <3>1 DEF PciObjects
        <3>3. obj' # obj => /\ obj'.class = [header |-> dev.header, pcie |-> Supports(dev.list)]
                            /\ obj'.ids = dev.ids
            BY <3>1, <3>2, RescannedFacts, InitInfoFacts
        <3>4. /\ how' = "loops" => Endless(dev.list)
              /\ how' = "class" => obj.class.pcie # Supports(dev.list)
            BY <3>1, <3>2, InitInfoFacts
        <3>5. QED
            BY <3>1, <3>3, <3>4
    <2>3. CASE (\E bar \in 0 .. NumBars : Access(bar)) \/ Replug
        BY <2>3 DEF Access, Replug
    <2>4. QED
        BY <2>1, <2>2, <2>3 DEF PciNext
<1>4. PciType /\ [PciNext]_pci => [Fits]_pci
    BY <1>3
<1> HIDE DEF Fits
<1>5. PciSpec => [][Fits]_pci
    BY <1>1, <1>2, <1>4, PTL DEF PciSpec
<1>6. QED
    BY <1>5 DEF ObjectFits, Fits
-----------------------------------------------------------------------------
(* The regions.  Down(d, m, f): f[n] are those of the registers from n on. *)

\* The region of the BAR at register n.
RegionAt(d, n, w) ==
    [num |-> n - 1, memory |-> ~Bar(d, n).io, width |-> w,
     base |-> Line(d, n)[1] + (IF w = 2 THEN HighWord * Line(d, n + 1)[1] ELSE 0),
     size |-> Line(d, n)[2] + (IF w = 2 THEN HighWord * Line(d, n + 1)[2] ELSE 0) + 1
              - (Line(d, n)[1] + (IF w = 2 THEN HighWord * Line(d, n + 1)[1] ELSE 0))]

\* The registers from n on: the BAR there, if there is one, and what f has behind it.
FromRegister(d, n, f) ==
    IF n > NumBars THEN <<>>
    ELSE (IF Bar(d, n).zero THEN <<>> ELSE <<RegionAt(d, n, Width(Bar(d, n)))>>)
         \o f[n + Width(Bar(d, n))]

Down(d, m, f) == f = [n \in m .. NumBars + 2 |-> FromRegister(d, n, f)]

\* A register has one or two more.
LEMMA WidthFacts ==
    ASSUME NEW bar
    PROVE  Width(bar) \in {1, 2}
    BY DEF Width

\* The table exists: it is extended register by register, from the last one.
LEMMA DownExists ==
    ASSUME NEW d
    PROVE  \E f : Down(d, 1, f)
<1> DEFINE T == {k \in 0 .. NumBars + 1 : ~ \E f : Down(d, NumBars + 2 - k, f)}
<1>1. NumBars \in Nat
    BY WordsAssumption
<1>2. T = {}
    <2>1. SUFFICES ASSUME T # {} PROVE FALSE
        OBVIOUS
    <2>2. T \in SUBSET Nat
        OBVIOUS
    <2>3. PICK k \in T : \A j \in T : k <= j
        BY <2>1, <2>2, Least
    <2>4. k \in 0 .. NumBars + 1 /\ ~ \E f : Down(d, NumBars + 2 - k, f)
        OBVIOUS
    <2>5. CASE k = 0
        <3> DEFINE g == [n \in NumBars + 2 .. NumBars + 2 |-> <<>>]
        <3>1. g = [n \in NumBars + 2 .. NumBars + 2 |-> FromRegister(d, n, g)]
            <4>1. \A f : \A n \in NumBars + 2 .. NumBars + 2 : FromRegister(d, n, f) = <<>>
                BY <1>1 DEF FromRegister
            <4>2. \A n \in NumBars + 2 .. NumBars + 2 : FromRegister(d, n, g) = <<>>
                BY <4>1
            <4>3. QED
                BY <4>2
        <3>2. NumBars + 2 - 0 = NumBars + 2
            BY <1>1
        <3> HIDE DEF g
        <3>3. Down(d, NumBars + 2 - 0, g)
            BY <3>1, <3>2 DEF Down
        <3>4. QED
            BY <2>4, <2>5, <3>3
    <2>6. CASE k # 0
        <3> DEFINE m == NumBars + 2 - k
        <3>1. k - 1 \in 0 .. NumBars + 1 /\ k - 1 \notin T
            BY <1>1, <2>3, <2>4, <2>6
        <3>2. m + 1 = NumBars + 2 - (k - 1) /\ m \in Nat /\ m + 1 \in Nat /\ m + 1 <= NumBars + 2
            BY <1>1, <2>4, <2>6
        <3>3. \E f : Down(d, m + 1, f)
            BY <3>1, <3>2
        <3> HIDE DEF m, T
        <3>4. PICK f : Down(d, m + 1, f)
            BY <3>3
        <3> DEFINE g == [n \in m .. NumBars + 2 |-> IF n = m THEN FromRegister(d, m, f) ELSE f[n]]
        <3>5. /\ g = [n \in m .. NumBars + 2 |-> g[n]]
              /\ g[m] = FromRegister(d, m, f)
              /\ \A n \in m + 1 .. NumBars + 2 : g[n] = f[n]
            BY <1>1, <3>2
        <3>6. \A n \in m + 1 .. NumBars + 2 : f[n] = FromRegister(d, n, f)
            BY <3>4 DEF Down
        <3> HIDE DEF g
        <3>7. \A n \in m .. NumBars + 2 : FromRegister(d, n, g) = FromRegister(d, n, f)
            <4> SUFFICES ASSUME NEW n \in m .. NumBars + 2, ~(n > NumBars)
                         PROVE  g[n + Width(Bar(d, n))] = f[n + Width(Bar(d, n))]
                BY DEF FromRegister
            <4>1. Width(Bar(d, n)) \in {1, 2}
                BY WidthFacts
            <4>2. n + Width(Bar(d, n)) \in m + 1 .. NumBars + 2
                BY <1>1, <3>2, <4>1
            <4>3. QED
                BY <3>5, <4>2
        <3>8. \A n \in m .. NumBars + 2 : g[n] = FromRegister(d, n, g)
            <4>1. \A n \in m .. NumBars + 2 : n = m \/ n \in m + 1 .. NumBars + 2
                BY <1>1, <3>2
            <4>2. QED
                BY <3>5, <3>6, <3>7, <4>1
        <3>9. Down(d, m, g)
            BY <3>5, <3>8 DEF Down
        <3>10. QED
            BY <2>4, <3>9 DEF m
    <2>7. QED
        BY <2>5, <2>6
<1>3. NumBars + 1 \in 0 .. NumBars + 1 /\ NumBars + 2 - (NumBars + 1) = 1
    BY <1>1
<1>4. \E f : Down(d, NumBars + 2 - (NumBars + 1), f)
    BY <1>2, <1>3
<1>5. QED
    BY <1>3, <1>4

\* The regions of a device are the first entry of such a table.
LEMMA RegionsDown ==
    ASSUME NEW d
    PROVE  \E f : Down(d, 1, f) /\ Regions(d) = f[1]
<1>1. Regions(d) = (CHOOSE f : Down(d, 1, f))[1]
    BY DEF Regions, Down, FromRegister, RegionAt
<1>2. Down(d, 1, CHOOSE f : Down(d, 1, f))
    BY DownExists
<1>3. QED
    BY <1>1, <1>2

\* A device whose BARs are laid out as they can be.
LaidOut(d) == d.kind \in Layouts /\ d.base \in [1 .. NumBars -> Nat]

\* All devices are.
LEMMA DevicesLaidOut ==
    ASSUME NEW d \in Devices
    PROVE  LaidOut(d)
<1>1. NumBars \in Nat /\ Bases \subseteq Nat
    BY WordsAssumption
<1>2. CASE d \in WithBars
    <2>1. PICK kind \in Layouts : \E base \in Given(kind) :
              d = Device(Endpoint, 0, NoCaps, kind, base)
        BY <1>2 DEF WithBars
    <2>2. PICK base \in Given(kind) : d = Device(Endpoint, 0, NoCaps, kind, base)
        BY <2>1
    <2>3. base \in [1 .. NumBars -> Nat]
        <3>1. base \in [1 .. NumBars -> Bases \cup {0}]
            BY DEF Given
        <3>2. \A n \in 1 .. NumBars : base[n] \in Nat
            <4>1. \A x \in Bases \cup {0} : x \in Nat
                BY <1>1
            <4>2. \A n \in 1 .. NumBars : base[n] \in Bases \cup {0}
                BY <3>1
            <4>3. QED
                BY <4>1, <4>2
        <3>3. base = [n \in 1 .. NumBars |-> base[n]]
            BY <3>1
        <3>4. QED
            BY <3>2, <3>3
    <2>4. QED
        BY <2>2, <2>3 DEF LaidOut, Device
<1>3. CASE d \in WithCaps(1) \cup WithCaps(2)
    <2>1. PICK ids \in 1 .. 2 : d \in WithCaps(ids)
        BY <1>3
    <2>2. d.kind = OneBar /\ d.base = [NoBase EXCEPT ![1] = ids]
        BY <2>1 DEF WithCaps, Device
    <2>3. OneBar \in Layouts
        <3>1. OneBar = [n \in 1 .. NumBars |-> IF n = 1 THEN "mem32" ELSE "none"]
            BY DEF OneBar, NoBars
        <3>2. QED
            BY <1>1, <3>1 DEF Layouts
    <2>4. [NoBase EXCEPT ![1] = ids] \in [1 .. NumBars -> Nat]
        <3>1. ids \in Nat /\ NoBase \in [1 .. NumBars -> Nat]
            BY DEF NoBase
        <3>2. QED
            BY <3>1
    <2>5. QED
        BY <2>2, <2>3, <2>4 DEF LaidOut
<1>4. QED
    BY <1>2, <1>3 DEF Devices

\* The BARs from bar on that a region can be made of.
Having(d, bar) == {b \in bar .. NumBars : HasRegion(d, b)}

RegionValues == [num : Nat, memory : BOOLEAN, width : {1, 2}, base : Nat, size : Nat]

\* The regions s are those of the BARs from bar on, in order.
RegionsOf(d, bar, s) ==
    /\ s \in Seq(RegionValues)
    /\ Len(s) = Cardinality(Having(d, bar))
    /\ \A n \in 1 .. Len(s) : s[n].num \in Having(d, bar) /\ s[n] = Expected(d, s[n].num)
    /\ \A m, n \in 1 .. Len(s) : m < n => s[m].num < s[n].num
    /\ \A b \in Having(d, bar) : \E n \in 1 .. Len(s) : s[n].num = b

\* A register that is not the upper half of another has a BAR, or none; and so has the one
\* behind that BAR.
LEMMA RegisterFacts ==
    ASSUME NEW d, LaidOut(d), NEW n \in 1 .. NumBars, d.kind[n] # "upper"
    PROVE  LET w == Width(Bar(d, n)) IN
           /\ ~Bar(d, n).zero <=> HasRegion(d, n - 1)
           /\ ~Bar(d, n).zero => RegionAt(d, n, w) = Expected(d, n - 1)
           /\ Expected(d, n - 1) \in RegionValues
           /\ n + w > NumBars \/ d.kind[n + w] # "upper"
           /\ w = 2 => ~HasRegion(d, n)
           /\ w \in {1, 2}
<1> DEFINE w == Width(Bar(d, n))
<1>1. NumBars \in Nat /\ HighWord \in Nat
    BY WordsAssumption
<1>2. /\ d.kind \in [1 .. NumBars -> {"none", "io", "mem32", "mem64", "upper"}]
      /\ \A k \in 1 .. NumBars :
             /\ d.kind[k] = "upper" <=> k > 1 /\ d.kind[k - 1] = "mem64"
             /\ d.kind[k] = "mem64" => k < NumBars
      /\ d.base \in [1 .. NumBars -> Nat]
    BY DEF LaidOut, Layouts
<1>3. n \in Nat /\ n <= NumBars /\ n - 1 \in Nat /\ n - 1 < NumBars /\ (n - 1) + 1 = n
    BY <1>1
<1>4. /\ Bar(d, n).zero = (d.kind[n] = "none" \/ (d.kind[n] = "mem32" /\ d.base[n] = 0))
      /\ Bar(d, n).io = (d.kind[n] = "io")
      /\ Bar(d, n).wide = (d.kind[n] = "mem64")
    BY DEF Bar
<1>5. w = IF d.kind[n] = "mem64" THEN 2 ELSE 1
    BY <1>4 DEF Width
<1>6. Bar(d, n).zero <=> ~HasRegion(d, n - 1)
    BY <1>3, <1>4 DEF HasRegion
<1>7. d.base[n] \in Nat /\ BarSize(n) = n + 1 /\ BarSize((n - 1) + 1) = n + 1
    BY <1>2, <1>3 DEF BarSize
<1>8. Expected(d, n - 1) =
        [num |-> n - 1, memory |-> d.kind[n] # "io", width |-> w, base |-> d.base[n],
         size |-> n + 1]
    BY <1>3, <1>5, <1>7 DEF Expected
<1>9. ~Bar(d, n).zero => RegionAt(d, n, w) = Expected(d, n - 1)
    <2> SUFFICES ASSUME ~Bar(d, n).zero PROVE RegionAt(d, n, w) = Expected(d, n - 1)
        OBVIOUS
    <2>1. Line(d, n) = <<d.base[n], d.base[n] + (n + 1) - 1>>
        BY <1>4, <1>7 DEF Line
    <2>2. w = 2 => Line(d, n + 1) = <<0, 0>>
        <3>1. d.kind[n] = "mem64" => d.kind[n + 1] = "upper"
            BY <1>1, <1>2, <1>3
        <3>2. QED
            BY <1>5, <3>1 DEF Line
    <2>3. (IF w = 2 THEN HighWord * Line(d, n + 1)[1] ELSE 0) = 0
          /\ (IF w = 2 THEN HighWord * Line(d, n + 1)[2] ELSE 0) = 0
        BY <1>1, <2>2
    <2>4. (~Bar(d, n).io) = (d.kind[n] # "io")
        BY <1>4
    <2> HIDE DEF w
    <2>5. /\ Line(d, n)[1] + 0 = d.base[n]
          /\ Line(d, n)[2] + 0 + 1 - (Line(d, n)[1] + 0) = n + 1
        BY <1>3, <1>7, <2>1
    <2>6. QED
        BY <1>8, <2>3, <2>4, <2>5 DEF RegionAt
<1>10. Expected(d, n - 1) \in RegionValues
    <2>1. w \in {1, 2} /\ n + 1 \in Nat
        BY <1>3, <1>5
    <2> HIDE DEF w
    <2>2. \A mem \in BOOLEAN :
              [num |-> n - 1, memory |-> mem, width |-> w, base |-> d.base[n], size |-> n + 1]
                  \in RegionValues
        BY <1>3, <1>7, <2>1 DEF RegionValues
    <2>3. PICK mem \in BOOLEAN : mem = (d.kind[n] # "io")
        OBVIOUS
    <2>4. QED
        BY <1>8, <2>2, <2>3
<1>11. n + w > NumBars \/ d.kind[n + w] # "upper"
    <2>1. CASE d.kind[n] = "mem64"
        <3>1. w = 2 /\ n + 1 \in 1 .. NumBars /\ d.kind[n + 1] = "upper"
            BY <1>1, <1>2, <1>3, <1>5, <2>1
        <3>2. SUFFICES ASSUME n + 2 <= NumBars PROVE d.kind[n + 2] # "upper"
            BY <1>1, <1>3, <3>1
        <3>3. n + 2 \in 1 .. NumBars /\ (n + 2) - 1 = n + 1
            BY <1>1, <1>3, <3>2
        <3>4. QED
            BY <1>2, <3>1, <3>3
    <2>2. CASE d.kind[n] # "mem64"
        <3>1. w = 1
            BY <1>5, <2>2
        <3>2. SUFFICES ASSUME n + 1 <= NumBars PROVE d.kind[n + 1] # "upper"
            BY <1>1, <1>3, <3>1
        <3>3. n + 1 \in 1 .. NumBars /\ (n + 1) - 1 = n
            BY <1>1, <1>3, <3>2
        <3>4. QED
            BY <1>2, <2>2, <3>3
    <2>3. QED
        BY <2>1, <2>2
<1>12. w = 2 => ~HasRegion(d, n)
    BY <1>1, <1>2, <1>3, <1>5 DEF HasRegion
<1>13. QED
    BY <1>5, <1>6, <1>9, <1>10, <1>11, <1>12

\* A region before regions.
LEMMA Before ==
    ASSUME NEW r \in RegionValues, NEW s \in Seq(RegionValues)
    PROVE  /\ <<r>> \o s \in Seq(RegionValues) /\ Len(<<r>> \o s) = Len(s) + 1
           /\ (<<r>> \o s)[1] = r
           /\ \A n \in 2 .. Len(s) + 1 : (<<r>> \o s)[n] = s[n - 1] /\ n - 1 \in 1 .. Len(s)
<1>1. <<r>> \in Seq(RegionValues) /\ Len(<<r>>) = 1 /\ <<r>>[1] = r
    OBVIOUS
<1>2. /\ <<r>> \o s \in Seq(RegionValues) /\ Len(<<r>> \o s) = Len(<<r>>) + Len(s)
      /\ \A n \in 1 .. Len(<<r>>) + Len(s) :
             (<<r>> \o s)[n] = IF n <= Len(<<r>>) THEN <<r>>[n] ELSE s[n - Len(<<r>>)]
    BY <1>1, ConcatProperties
<1>3. Len(s) \in Nat
    OBVIOUS
<1>4. QED
    BY <1>1, <1>2, <1>3

\* There are only so many of the BARs from one on.
LEMMA HavingFacts ==
    ASSUME NEW d, NEW bar \in Nat
    PROVE  /\ Having(d, bar) \in SUBSET Nat /\ IsFiniteSet(Having(d, bar))
           /\ Cardinality(Having(d, bar)) \in Nat
           /\ \A b \in Having(d, bar) : bar <= b /\ b < NumBars /\ HasRegion(d, b)
           /\ \A b \in Nat : bar <= b /\ HasRegion(d, b) => b \in Having(d, bar)
<1>1. NumBars \in Nat
    BY WordsAssumption
<1>2. Having(d, bar) \in SUBSET (0 .. NumBars)
    BY <1>1 DEF Having
<1>3. IsFiniteSet(0 .. NumBars)
    <2>1. 0 \in Int /\ NumBars \in Int
        BY <1>1
    <2>2. QED
        BY <2>1, FS_Interval
<1>4. IsFiniteSet(Having(d, bar))
    BY <1>2, <1>3, FS_Subset
<1>5. Cardinality(Having(d, bar)) \in Nat
    BY <1>4, FS_CardinalityType
<1>6. QED
    BY <1>1, <1>2, <1>4, <1>5 DEF Having, HasRegion

\* The region of one more BAR, before those behind it.
LEMMA RegionBefore ==
    ASSUME NEW d, NEW bar \in Nat, NEW far \in Nat, bar < far, bar < NumBars,
           HasRegion(d, bar), \A b \in Nat : bar < b /\ b < far => ~HasRegion(d, b),
           Expected(d, bar) \in RegionValues,
           NEW s, RegionsOf(d, far, s)
    PROVE  RegionsOf(d, bar, <<Expected(d, bar)>> \o s)
<1> DEFINE r == Expected(d, bar)
<1> DEFINE t == <<r>> \o s
<1>1. r.num = bar
    BY DEF Expected
<1>2. /\ s \in Seq(RegionValues) /\ Len(s) = Cardinality(Having(d, far)) /\ Len(s) \in Nat
      /\ \A n \in 1 .. Len(s) : s[n].num \in Having(d, far) /\ s[n] = Expected(d, s[n].num)
      /\ \A m, n \in 1 .. Len(s) : m < n => s[m].num < s[n].num
      /\ \A b \in Having(d, far) : \E n \in 1 .. Len(s) : s[n].num = b
    BY DEF RegionsOf
<1>3. /\ t \in Seq(RegionValues) /\ Len(t) = Len(s) + 1 /\ t[1] = r
      /\ \A n \in 2 .. Len(s) + 1 : t[n] = s[n - 1] /\ n - 1 \in 1 .. Len(s)
    BY <1>2, Before
<1>4. Having(d, bar) = Having(d, far) \cup {bar} /\ bar \notin Having(d, far)
    BY HavingFacts
<1>5. Len(t) = Cardinality(Having(d, bar))
    <2>1. IsFiniteSet(Having(d, far))
        BY HavingFacts
    <2>2. Cardinality(Having(d, far) \cup {bar}) = Cardinality(Having(d, far)) + 1
        BY <1>4, <2>1, FS_AddElement
    <2>3. QED
        BY <1>2, <1>3, <1>4, <2>2
<1> HIDE DEF r, t
<1>6. \A n \in 1 .. Len(t) : n = 1 \/ n \in 2 .. Len(s) + 1
    BY <1>2, <1>3
<1>7. ASSUME NEW n \in 1 .. Len(t)
      PROVE  t[n].num \in Having(d, bar) /\ t[n] = Expected(d, t[n].num)
    <2>1. CASE n = 1
        BY <1>1, <1>3, <1>4, <2>1 DEF r
    <2>2. CASE n \in 2 .. Len(s) + 1
        BY <1>2, <1>3, <1>4, <2>2
    <2>3. QED
        BY <1>6, <2>1, <2>2
<1>8. ASSUME NEW m \in 1 .. Len(t), NEW n \in 1 .. Len(t), m < n
      PROVE  t[m].num < t[n].num
    <2>1. n \in 2 .. Len(s) + 1
        BY <1>2, <1>3, <1>8
    <2>2. t[n] = s[n - 1] /\ n - 1 \in 1 .. Len(s)
        BY <1>3, <2>1
    <2>3. CASE m = 1
        <3>1. s[n - 1].num \in Having(d, far)
            BY <1>2, <2>2
        <3>2. far <= s[n - 1].num /\ s[n - 1].num \in Nat
            BY <3>1, HavingFacts
        <3>3. t[m].num = bar /\ t[n].num = s[n - 1].num
            BY <1>1, <1>3, <2>2, <2>3
        <3>4. QED
            BY <3>2, <3>3
    <2>4. CASE m \in 2 .. Len(s) + 1
        <3>1. t[m] = s[m - 1] /\ m - 1 \in 1 .. Len(s) /\ m - 1 < n - 1
            BY <1>2, <1>3, <1>8, <2>1, <2>4
        <3>2. QED
            BY <1>2, <2>2, <3>1
    <2>5. QED
        BY <1>6, <2>3, <2>4
<1>9. ASSUME NEW b \in Having(d, bar)
      PROVE  \E n \in 1 .. Len(t) : t[n].num = b
    <2>1. CASE b = bar
        <3>1. 1 \in 1 .. Len(t)
            BY <1>2, <1>3
        <3>2. QED
            BY <1>1, <1>3, <2>1, <3>1
    <2>2. CASE b \in Having(d, far)
        <3>1. PICK n \in 1 .. Len(s) : s[n].num = b
            BY <1>2, <2>2
        <3>2. n + 1 \in 2 .. Len(s) + 1 /\ n + 1 \in 1 .. Len(t) /\ (n + 1) - 1 = n
            BY <1>2, <1>3
        <3>3. t[n + 1] = s[n]
            BY <1>3, <3>2
        <3>4. QED
            BY <3>1, <3>2, <3>3
    <2>3. QED
        BY <1>4, <2>1, <2>2
<1>10. RegionsOf(d, bar, t)
    BY <1>3, <1>5, <1>7, <1>8, <1>9 DEF RegionsOf
<1>11. QED
    BY <1>10 DEF r, t

\* A register without a BAR adds nothing.
LEMMA NoneBefore ==
    ASSUME NEW d, NEW bar \in Nat, NEW far \in Nat, bar < far,
           \A b \in Nat : bar <= b /\ b < far => ~HasRegion(d, b),
           NEW s, RegionsOf(d, far, s)
    PROVE  RegionsOf(d, bar, <<>> \o s)
<1>1. Having(d, bar) = Having(d, far)
    BY HavingFacts
<1>2. s \in Seq(RegionValues)
    BY DEF RegionsOf
<1>3. <<>> \o s = s
    BY <1>2, ConcatEmptySeq
<1>4. QED
    BY <1>1, <1>3 DEF RegionsOf

\* The table is right at register n, unless that is the upper half of another.
Right(d, f, n) == n > NumBars \/ d.kind[n] # "upper" => RegionsOf(d, n - 1, f[n])

\* The regions of a device are those of its BARs, in order.
LEMMA RegionsRight ==
    ASSUME NEW d \in Devices
    PROVE  RegionsOf(d, 0, Regions(d))
<1>1. LaidOut(d)
    BY DevicesLaidOut
<1>2. NumBars \in Nat
    BY WordsAssumption
<1>3. PICK f : Down(d, 1, f) /\ Regions(d) = f[1]
    BY RegionsDown
<1>4. \A n \in 1 .. NumBars + 2 : f[n] = FromRegister(d, n, f)
    BY <1>3 DEF Down
<1> DEFINE T == {k \in 0 .. NumBars + 1 : ~Right(d, f, NumBars + 2 - k)}
<1>5. T = {}
    <2>1. SUFFICES ASSUME T # {} PROVE FALSE
        OBVIOUS
    <2>2. T \in SUBSET Nat
        OBVIOUS
    <2>3. PICK k \in T : \A j \in T : k <= j
        BY <2>1, <2>2, Least
    <2> DEFINE n == NumBars + 2 - k
    <2>4. k \in 0 .. NumBars + 1 /\ ~Right(d, f, n)
        OBVIOUS
    <2>5. ASSUME NEW m \in n + 1 .. NumBars + 2
          PROVE  Right(d, f, m)
        <3> DEFINE j == NumBars + 2 - m
        <3>1. j \in 0 .. NumBars + 1 /\ ~(k <= j) /\ NumBars + 2 - j = m
            BY <1>2, <2>4
        <3>2. j \notin T
            BY <2>3, <3>1
        <3>3. QED
            BY <3>1, <3>2
    <2>6. n \in 1 .. NumBars + 2 /\ n \in Nat /\ n - 1 \in Nat
        BY <1>2, <2>4
    <2> HIDE DEF n, T
    <2>7. f[n] = FromRegister(d, n, f)
        BY <1>4, <2>6
    <2>8. CASE n > NumBars
        <3>1. f[n] = <<>>
            BY <2>7, <2>8 DEF FromRegister
        <3>2. Having(d, n - 1) = {}
            BY <1>2, <2>6, <2>8, HavingFacts
        <3>3. Len(<<>>) = Cardinality(Having(d, n - 1))
            BY <3>2, FS_EmptySet
        <3>4. RegionsOf(d, n - 1, <<>>)
            BY <3>2, <3>3 DEF RegionsOf
        <3>5. QED
            BY <2>4, <3>1, <3>4 DEF Right
    <2>9. CASE n <= NumBars
        <3> DEFINE w == Width(Bar(d, n))
        <3>1. n \in 1 .. NumBars /\ d.kind[n] # "upper"
            BY <1>2, <2>4, <2>6, <2>9 DEF Right
        <3>2. /\ ~Bar(d, n).zero <=> HasRegion(d, n - 1)
              /\ ~Bar(d, n).zero => RegionAt(d, n, w) = Expected(d, n - 1)
              /\ Expected(d, n - 1) \in RegionValues
              /\ n + w > NumBars \/ d.kind[n + w] # "upper"
              /\ w = 2 => ~HasRegion(d, n)
              /\ w \in {1, 2}
            BY <1>1, <3>1, RegisterFacts
        <3>3. f[n] = (IF Bar(d, n).zero THEN <<>> ELSE <<RegionAt(d, n, w)>>) \o f[n + w]
            <4>1. ~(n > NumBars)
                BY <1>2, <2>6, <2>9
            <4>2. QED
                BY <2>7, <4>1 DEF FromRegister
        <3> HIDE DEF w
        <3>4. n + w \in n + 1 .. NumBars + 2
            BY <1>2, <2>6, <2>9, <3>2
        <3>5. RegionsOf(d, n + w - 1, f[n + w])
            <4>1. PICK m \in n + 1 .. NumBars + 2 : m = n + w
                BY <3>4
            <4>2. Right(d, f, m)
                BY <2>5
            <4>3. RegionsOf(d, m - 1, f[m])
                BY <3>2, <4>1, <4>2 DEF Right
            <4>4. m - 1 = n + w - 1
                BY <1>2, <2>6, <3>2, <4>1
            <4>5. QED
                BY <4>1, <4>3, <4>4
        <3>6. /\ n + w - 1 \in Nat /\ n - 1 < n + w - 1 /\ n - 1 < NumBars
              /\ \A b \in Nat : n - 1 < b /\ b < n + w - 1 => w = 2 /\ b = n
            BY <1>2, <2>6, <2>9, <3>2
        <3>7. \A b \in Nat : n - 1 < b /\ b < n + w - 1 => ~HasRegion(d, b)
            BY <3>2, <3>6
        <3>8. CASE Bar(d, n).zero
            <4>1. \A b \in Nat : n - 1 <= b /\ b < n + w - 1 => ~HasRegion(d, b)
                BY <2>6, <3>2, <3>7, <3>8
            <4>2. RegionsOf(d, n - 1, <<>> \o f[n + w])
                BY <2>6, <3>5, <3>6, <4>1, NoneBefore
            <4>3. QED
                BY <2>4, <3>3, <3>8, <4>2 DEF Right
        <3>9. CASE ~Bar(d, n).zero
            <4>1. RegionsOf(d, n - 1, <<Expected(d, n - 1)>> \o f[n + w])
                BY <2>6, <3>2, <3>5, <3>6, <3>7, <3>9, RegionBefore
            <4>2. QED
                BY <2>4, <3>2, <3>3, <3>9, <4>1 DEF Right
        <3>10. QED
            BY <3>8, <3>9
    <2>10. QED
        BY <1>2, <2>6, <2>8, <2>9
<1>6. NumBars + 1 \in 0 .. NumBars + 1 /\ NumBars + 2 - (NumBars + 1) = 1
    BY <1>2
<1>7. Right(d, f, NumBars + 2 - (NumBars + 1))
    BY <1>5, <1>6
<1>8. 1 > NumBars \/ d.kind[1] # "upper"
    BY <1>1, <1>2 DEF LaidOut, Layouts
<1>9. RegionsOf(d, 1 - 1, f[1])
    BY <1>6, <1>7, <1>8 DEF Right
<1>10. QED
    BY <1>3, <1>9

\* The last of the regions with a number, or none.
Found(regions, bar) ==
    LET matching == {n \in 1 .. Len(regions) : regions[n].num = bar}
    IN  IF matching = {} THEN NoObject
        ELSE regions[CHOOSE n \in matching : \A m \in matching : m <= n]

\* Among regions in order it is the one of the BAR.
LEMMA FoundRight ==
    ASSUME NEW d, NEW s, RegionsOf(d, 0, s), NEW bar
    PROVE  Found(s, bar) = IF bar \in Having(d, 0) THEN Expected(d, bar) ELSE NoObject
<1> DEFINE matching == {n \in 1 .. Len(s) : s[n].num = bar}
<1>1. /\ s \in Seq(RegionValues) /\ Len(s) \in Nat
      /\ \A n \in 1 .. Len(s) : s[n].num \in Having(d, 0) /\ s[n] = Expected(d, s[n].num)
      /\ \A m, n \in 1 .. Len(s) : m < n => s[m].num < s[n].num
      /\ \A b \in Having(d, 0) : \E n \in 1 .. Len(s) : s[n].num = b
    BY DEF RegionsOf
<1>2. Found(s, bar) = IF matching = {} THEN NoObject
                      ELSE s[CHOOSE n \in matching : \A m \in matching : m <= n]
    BY DEF Found
<1>3. CASE bar \in Having(d, 0)
    <2>1. PICK n \in 1 .. Len(s) : s[n].num = bar
        BY <1>1, <1>3
    <2>2. bar \in Nat
        <3>1. 0 \in Nat
            OBVIOUS
        <3>2. QED
            BY <1>3, <3>1, HavingFacts
    <2>3. matching = {n}
        <3>1. ASSUME NEW m \in 1 .. Len(s), s[m].num = bar
              PROVE  m = n
            <4>1. ~(m < n) /\ ~(n < m)
                BY <1>1, <2>1, <2>2, <3>1
            <4>2. QED
                BY <1>1, <4>1
        <3>2. QED
            BY <2>1, <3>1
    <2>4. n \in matching /\ \A m \in matching : m <= n
        BY <1>1, <2>3
    <2> HIDE DEF matching
    <2>5. (CHOOSE k \in matching : \A m \in matching : m <= k) = n
        BY <2>3, <2>4
    <2>6. Found(s, bar) = s[n]
        BY <1>2, <2>4, <2>5
    <2>7. QED
        BY <1>1, <1>3, <2>1, <2>6
<1>4. CASE bar \notin Having(d, 0)
    <2>1. matching = {}
        BY <1>1, <1>4
    <2>2. QED
        BY <1>2, <1>4, <2>1
<1>5. QED
    BY <1>3, <1>4

\* A filled object has the regions of its device, and an accessor the one it found among
\* those there were.
PciInv ==
    /\ PciType
    /\ fresh => obj.regions = Regions(dev)
    /\ access # NoAccess =>
          access.bar \in 0 .. NumBars /\ access.region = Found(access.of, access.bar)

\* Every step keeps that.
LEMMA PciInvKept ==
    ASSUME PciInv, [PciNext]_pci
    PROVE  PciInv'
<1>1. PciType /\ PciType'
    BY PciTypeKept DEF PciInv
<1>2. CASE UNCHANGED pci
    BY <1>1, <1>2 DEF PciInv, pci
<1>3. CASE Detect
    <2>1. dev \in Devices /\ dev' = dev /\ access' = access
        BY <1>1, <1>3 DEF Detect, PciType
    <2>2. fresh' => obj' = New(dev)
        BY <1>3 DEF Detect
    <2>3. fresh' => obj'.regions = Regions(dev')
        BY <2>1, <2>2, ObjectTaken
    <2>4. QED
        BY <1>1, <2>1, <2>3 DEF PciInv
<1>4. ASSUME NEW there \in BOOLEAN, RescanObject(there)
      PROVE  PciInv'
    <2>1. /\ dev \in Devices /\ dev' = dev /\ access' = access
          /\ obj # NoObject /\ obj \in PciObjects
          /\ obj' = Rescanned(obj, dev, there)
          /\ fresh' => how' = "ok" \/ (fresh /\ obj' = obj)
          /\ how' = "ok" => InitInfo(obj.class, dev) = "ok" /\ there
        BY <1>1, <1>4 DEF RescanObject, PciType
    <2>2. fresh' => obj'.regions = Regions(dev')
        BY <2>1, RescannedFacts DEF PciInv
    <2>3. QED
        BY <1>1, <2>1, <2>2 DEF PciInv
<1>5. ASSUME NEW bar \in 0 .. NumBars, Access(bar)
      PROVE  PciInv'
    <2>1. /\ UNCHANGED <<dev, obj, fresh>>
          /\ access' = [bar |-> bar, of |-> obj.regions, region |-> Found(obj.regions, bar)]
        BY <1>5 DEF Access, Found
    <2>2. QED
        BY <1>1, <2>1 DEF PciInv
<1>6. CASE Replug
    <2>1. access' = NoAccess /\ obj' = obj /\ (fresh' => fresh /\ dev' = dev)
        BY <1>6 DEF Replug
    <2>2. QED
        BY <1>1, <2>1 DEF PciInv
<1>7. QED
    BY <1>2, <1>3, <1>4, <1>5, <1>6 DEF PciNext

\* An object filled from its device has exactly the regions of its BARs, and an accessor has
\* the one it asked for, for any number of BARs in any layout, with any addresses.
THEOREM BarReachedHolds == PciSpec => []BarReached
<1>1. PciInit => PciInv
    BY DEF PciInit, PciIdle, PciInv, PciType, Devices
<1>2. PciInv /\ [PciNext]_pci => PciInv'
    BY PciInvKept
<1>3. PciInv => BarReached
    <2> SUFFICES ASSUME PciInv, fresh
                 PROVE  LET has == {bar \in 0 .. NumBars : HasRegion(dev, bar)} IN
                        /\ Len(obj.regions) = Cardinality(has)
                        /\ \A n \in 1 .. Len(obj.regions) :
                               /\ obj.regions[n].num \in has
                               /\ obj.regions[n] = Expected(dev, obj.regions[n].num)
                               /\ n > 1 => obj.regions[n - 1].num < obj.regions[n].num
                        /\ access # NoAccess /\ access.of = obj.regions =>
                               access.region = IF access.bar \in has
                                               THEN Expected(dev, access.bar) ELSE NoObject
        BY DEF BarReached
    <2> DEFINE has == {bar \in 0 .. NumBars : HasRegion(dev, bar)}
    <2> DEFINE s == obj.regions
    <2>1. RegionsOf(dev, 0, s)
        BY RegionsRight DEF PciInv, PciType
    <2>2. has = Having(dev, 0)
        BY DEF Having
    <2>3. access # NoAccess => access.region = Found(access.of, access.bar)
        BY DEF PciInv
    <2> HIDE DEF has, s
    <2>4. access # NoAccess /\ access.of = s =>
              access.region = IF access.bar \in has THEN Expected(dev, access.bar) ELSE NoObject
        BY <2>1, <2>2, <2>3, FoundRight
    <2>5. /\ s \in Seq(RegionValues) /\ Len(s) \in Nat /\ Len(s) = Cardinality(has)
          /\ \A n \in 1 .. Len(s) : s[n].num \in has /\ s[n] = Expected(dev, s[n].num)
          /\ \A m, n \in 1 .. Len(s) : m < n => s[m].num < s[n].num
        BY <2>1, <2>2 DEF RegionsOf
    <2>6. \A n \in 1 .. Len(s) : n > 1 => s[n - 1].num < s[n].num
        <3> SUFFICES ASSUME NEW n \in 1 .. Len(s), n > 1 PROVE s[n - 1].num < s[n].num
            OBVIOUS
        <3>1. n - 1 \in 1 .. Len(s) /\ n - 1 < n
            BY <2>5
        <3>2. QED
            BY <2>5, <3>1
    <2>7. QED
        BY <2>4, <2>5, <2>6 DEF has, s
<1>4. QED
    BY <1>1, <1>2, <1>3, PTL DEF PciSpec
=============================================================================
