------------------------------ MODULE FpgaPcie ------------------------------
(***************************************************************************)
(* A tool on the PCI devices of an FPGA (FpgaPCIeDeviceManager of          *)
(* pcie/fpga_pcie.py, PCIDeviceManager and PCIDevice of pcie/pci.py) next  *)
(* to the process that loads the FPGA's images (PcieHotplug).  They share  *)
(* the kernel's device list and the COMMAND registers, and no lock.        *)
(***************************************************************************)
EXTENDS PcieHotplug

VARIABLES
    all,       \* all_devices, with _memspace_access_enabled as "unknown", "on" or "off"
    managed,   \* pcie_devices: the devices the tool manages
    tpc,       \* where the tool is
    todo,      \* the devices its loop still has to do
    next,      \* what follows the removal, "rescan" or "idle"
    en,        \* the argument of enable_access_pci_devices()
    calm,      \* history: the loader did not touch the bus since the operation began
    disturbed  \* history: the devices the loader touched since the tool looked at them

toolVars == <<all, managed, tpc, todo, next, en>>
vars     == <<hotplugVars, toolVars, calm, disturbed>>

Absent == [kind |-> "none", mem |-> "unknown"]

TypeOK ==
    /\ HotplugType
    /\ all \in [Bdfs -> [kind : {"none", "pcie", "pci"}, mem : {"unknown", "on", "off"}]]
    /\ managed \subseteq Slots
    /\ tpc \in {"idle", "remove", "rescan", "list", "load", "enable"}
    /\ todo \subseteq Bdfs
    /\ next \in {"idle", "rescan"}
    /\ en \in BOOLEAN
    /\ calm \in BOOLEAN
    /\ disturbed \subseteq Slots

\* The manager of a tool that has not looked for devices yet (autodetect=False).
Init ==
    /\ HotplugInit
    /\ all = [b \in Bdfs |-> Absent]
    /\ managed = {}
    /\ tpc = "idle"
    /\ todo = {}
    /\ next = "idle"
    /\ en = FALSE
    /\ calm = TRUE
    /\ disturbed = {}
-----------------------------------------------------------------------------
\* _get_managed_pcie_devices(): the PCIe devices on the bus of the bridge.
Managed(devices) ==
    {s \in Slots : devices[Bridge].kind # "none" /\ devices[s].kind = "pcie"}

Begin(where, set) ==
    /\ tpc = "idle"
    /\ tpc' = where
    /\ todo' = set
    /\ calm' = TRUE
    /\ UNCHANGED <<hotplugVars, all, managed, disturbed>>

Removable(bridge) ==
    managed \cup (IF bridge /\ all[Bridge].kind # "none" THEN {Bridge} ELSE {})

\* rescan_pci_devices(remove, remove_bridge)
RescanDevices(remove, bridge) ==
    /\ IF remove THEN Begin("remove", Removable(bridge)) ELSE Begin("rescan", {})
    /\ next' = "rescan"
    /\ en' = FALSE

\* remove_pci_devices(remove_bridge)
RemoveDevices(bridge) ==
    /\ Begin("remove", Removable(bridge))
    /\ next' = "idle"
    /\ en' = FALSE

\* enable_access_pci_devices(memory)
EnableAccess(memory) ==
    /\ Begin("enable", managed)
    /\ en' = memory
    /\ next' = "idle"

OthersUnchanged == UNCHANGED <<fpga, trained, loadVars, slipped, calm>>

\* PCIDevice.remove(): an error is taken for a device that is gone already.
RemoveOne(b) ==
    /\ tpc = "remove" /\ b \in todo
    /\ b = Bridge => todo = {Bridge}
    /\ OsRemove(b) \/ UNCHANGED listed
    /\ alone' = FALSE
    /\ all' = [all EXCEPT ![b] = Absent]
    /\ todo' = todo \ {b}
    /\ OthersUnchanged /\ UNCHANGED <<command, managed, tpc, next, en, disturbed>>

Removed ==
    /\ tpc = "remove" /\ todo = {}
    /\ managed' = Managed(all)
    /\ tpc' = next
    /\ UNCHANGED <<hotplugVars, all, todo, next, en, calm, disturbed>>

\* detect_pci_devices(): the kernel's rescan, its list, and each device of the list.
ToolRescan ==
    /\ tpc = "rescan"
    /\ OsRescan
    /\ alone' = FALSE
    /\ tpc' = "list"
    /\ OthersUnchanged /\ UNCHANGED <<all, managed, todo, next, en, disturbed>>

List ==
    /\ tpc = "list"
    /\ todo' = listed
    /\ tpc' = "load"
    /\ UNCHANGED <<hotplugVars, all, managed, next, en, calm, disturbed>>

\* mutant: an object the manager has already is kept
KeptObject(b) ==
    IF all[b].kind # "none" THEN all[b]
    ELSE [kind |-> IF b = Bridge THEN "pcie" ELSE fpga[b], mem |-> "unknown"]

NewObject(b) == [kind |-> IF b = Bridge THEN "pcie" ELSE fpga[b], mem |-> "unknown"]

InSystem(b) == b \in listed /\ (b = Bridge \/ Answers(b))

\* _pci_device_factory(): a device that does not answer is removed, if that succeeds.
LoadOne(b) ==
    /\ tpc = "load" /\ b \in todo
    /\ IF InSystem(b)
       THEN /\ all' = [all EXCEPT ![b] = NewObject(b)]
            /\ UNCHANGED <<listed, alone>>
       ELSE /\ all' = [all EXCEPT ![b] = Absent]
            /\ OsRemove(b) \/ UNCHANGED listed
            /\ alone' = FALSE
    /\ todo' = todo \ {b}
    /\ disturbed' = disturbed \ {b}
    /\ OthersUnchanged /\ UNCHANGED <<command, managed, tpc, next, en>>

\* mutant: the devices found are not looked up again
NotLookedUp == UNCHANGED managed

LookUp == managed' = Managed(all)

Loaded ==
    /\ tpc = "load" /\ todo = {}
    /\ LookUp
    /\ tpc' = "idle"
    /\ UNCHANGED <<hotplugVars, all, todo, next, en, calm, disturbed>>
-----------------------------------------------------------------------------
\* memspace_access_enabled, read: cached for the life of the object.  All bits of a
\* device that does not answer are set.
MemOf(s) ==
    IF all[s].mem # "unknown" THEN all[s].mem
    ELSE IF ~Answers(s) \/ MemOn(command[s]) THEN "on" ELSE "off"

\* memspace_access_enabled, written: the value encoded is the flag read, not the
\* register, so that the flag becomes the bit for I/O accesses.
CommandOf(s) == (IF MemOf(s) = "on" THEN 1 ELSE 0) + (IF en THEN 2 ELSE 0)

\* setpci reports no device to read as an error, and no device to write as a warning.
EnableOne(s) ==
    /\ tpc = "enable" /\ s \in todo
    /\ IF s \notin listed /\ all[s].mem = "unknown"
       THEN /\ tpc' = "idle"
            /\ todo' = {}
            /\ UNCHANGED <<hotplugVars, all>>
       ELSE /\ all' = [all EXCEPT ![s].mem = IF en THEN "on" ELSE "off"]
            /\ command' = IF s \in listed /\ Answers(s)
                          THEN [command EXCEPT ![s] = CommandOf(s)] ELSE command
            /\ alone' = FALSE
            /\ todo' = todo \ {s}
            /\ UNCHANGED <<tpc, fpga, trained, listed, loadVars, slipped>>
    /\ UNCHANGED <<managed, next, en, calm, disturbed>>

Enabling ==
    /\ tpc = "enable" /\ todo = {}
    /\ tpc' = "idle"
    /\ UNCHANGED <<hotplugVars, all, managed, todo, next, en, calm, disturbed>>

ToolStep ==
    \/ \E b \in Bdfs : RemoveOne(b) \/ LoadOne(b)
    \/ Removed \/ ToolRescan \/ List \/ Loaded
    \/ \E s \in Slots : EnableOne(s)
    \/ Enabling
-----------------------------------------------------------------------------
\* A step of the loader or of the link, and what it does to what the tool knows.
Touched == {s \in Slots : \/ command'[s] # command[s]
                          \/ (s \in listed') # (s \in listed)
                          \/ <<fpga', trained'>> # <<fpga, trained>>}

LoaderStep ==
    /\ HotplugNext
    /\ calm' = (tpc = "idle" \/ (calm /\ busVars' = busVars))
    /\ disturbed' = disturbed \cup Touched
    /\ UNCHANGED toolVars

Next ==
    \/ LoaderStep
    \/ \E remove, bridge \in BOOLEAN : RescanDevices(remove, bridge)
    \/ \E bridge \in BOOLEAN : RemoveDevices(bridge)
    \/ \E memory \in BOOLEAN : EnableAccess(memory)
    \/ ToolStep

Spec == Init /\ [][Next]_vars
-----------------------------------------------------------------------------
(* Properties                                                              *)

\* A rescan that nobody disturbs finds every PCIe device that answers, whatever
\* happened to the bus, and to what the tool remembers of it, before.
RescanFindsAll ==
    [][tpc = "load" /\ tpc' = "idle" /\ calm =>
        {s \in Present : fpga[s] = "pcie"} \subseteq managed']_vars

\* A read or write of a region is let through because of a flag that is cached: while
\* the loader leaves a device alone, the flag says what the device's register says.
FlagIsTrue ==
    /\ TypeOK
    /\ \A s \in managed \ disturbed :
           tpc = "idle" /\ all[s].mem # "unknown" =>
               /\ s \in listed /\ Answers(s)
               /\ (all[s].mem = "on") = MemOn(command[s])
=============================================================================
