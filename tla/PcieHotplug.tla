---------------------------- MODULE PcieHotplug ----------------------------
(***************************************************************************)
(* Reprogramming an FPGA that is a PCI device: Pcie.pre_load, post_load,   *)
(* pre_clear and post_clear (resources/libapp/device.py), around the       *)
(* load_image and unload_image of the board's own interface.               *)
(*                                                                         *)
(* External: the kernel's list of devices (sysfs), which it changes when   *)
(* "1" is written to a rescan or remove file, the FPGA and its link, and   *)
(* lspci, setpci and echo, each of which may fail.  The bridge above the   *)
(* FPGA is device 0, what the image puts behind it are the devices         *)
(* 1, 2, ... in the order of their addresses.                              *)
(***************************************************************************)
EXTENDS Naturals

CONSTANTS
    NumSlots,  \* the devices an image can have
    Images,    \* what the images put on the bus: "none", "pcie" or "pci" per slot
    Commands,  \* what a driver may set the COMMAND register of a device to
    Pseudo,    \* Pcie.pseudo_hotplug
    Attempts   \* Pcie.rescan_check_attempts

Bridge == 0
Slots  == 1 .. NumSlots
Bdfs   == {Bridge} \cup Slots
Blank  == [s \in Slots |-> "none"]
Byte   == 0 .. 255

\* Some device that is not the FPGA's.
Elsewhere == NumSlots + 1

ASSUME HotplugAssumption ==
    /\ NumSlots \in Nat
    /\ Images \subseteq [Slots -> {"none", "pcie", "pci"}]
    /\ Commands \subseteq Byte
    /\ Pseudo \in BOOLEAN
    /\ Attempts \in Nat

VARIABLES
    \* external
    fpga,      \* the image in the FPGA
    trained,   \* its link is up
    listed,    \* the kernel's devices
    command,   \* the lower byte of the COMMAND register of each device
    \* the process that programs the FPGA
    at,        \* where it is
    attempt,   \* the attempts of post_load() so far
    found,     \* bdf in post_load(): a device of the FPGA, Elsewhere, or Bridge for ""
    cached,    \* Pcie._cached_bridge is set
    alone,     \* history: nobody else changed listed or command since it began
    slipped    \* history: a removal in front of the programming failed

busVars  == <<fpga, trained, listed, command>>
loadVars == <<at, attempt, found, cached>>
hotplugVars == <<busVars, loadVars, alone, slipped>>

HotplugType ==
    /\ fpga \in Images \cup {Blank}
    /\ trained \in BOOLEAN
    /\ listed \in SUBSET Bdfs
    /\ command \in [Slots -> Byte]
    /\ at \in {"idle", "preRescan", "preRemove", "program", "rescan", "probe", "drop",
               "mmio", "clearRescan", "clearRemove", "clear", "again", "dropAgain",
               "lastRescan"}
    /\ attempt \in 0 .. Attempts
    /\ found \in Bdfs \cup {Elsewhere}
    /\ cached \in BOOLEAN
    /\ alone \in BOOLEAN
    /\ slipped \in BOOLEAN

HotplugInit ==
    /\ fpga = Blank
    /\ trained = FALSE
    /\ listed = {Bridge}
    /\ command = [s \in Slots |-> 0]
    /\ at = "idle"
    /\ attempt = 0
    /\ found = Bridge
    /\ cached = FALSE
    /\ alone = TRUE
    /\ slipped = FALSE
-----------------------------------------------------------------------------
(* The bus                                                                 *)

Answers(s) == fpga[s] # "none" /\ trained
Present    == {s \in Slots : Answers(s)}

\* echo 1 > /sys/bus/pci/rescan: devices are added, never removed; a driver may
\* set up a device it finds.
OsRescan ==
    /\ listed' = listed \cup {Bridge} \cup Present
    /\ \E D \in SUBSET (Present \ listed), c \in Commands :
        command' = [s \in Slots |-> IF s \in D THEN c ELSE command[s]]

\* echo 1 > .../remove, of the bridge and so of what is behind it.
OsRemove(b) == listed' = IF b = Bridge THEN {} ELSE listed \ {b}

\* The link comes up some time after the image was loaded.
Train ==
    /\ ~trained
    /\ fpga # Blank
    /\ trained' = TRUE
    /\ UNCHANGED <<fpga, listed, command, loadVars, alone, slipped>>

\* A new image: the registers of its devices are reset and the link goes down.
Program(image) ==
    /\ fpga' = image
    /\ trained' = FALSE
    /\ command' = [s \in Slots |-> 0]
-----------------------------------------------------------------------------
(* Loading                                                                 *)

Load ==
    /\ at = "idle"
    /\ at' = IF Pseudo THEN "preRescan" ELSE "program"
    /\ found' = Bridge
    /\ alone' = TRUE
    /\ slipped' = FALSE
    /\ UNCHANGED <<busVars, attempt, cached>>

PreRescan ==
    /\ at = "preRescan"
    /\ OsRescan
    /\ at' = "preRemove"
    /\ UNCHANGED <<fpga, trained, attempt, found, cached, alone, slipped>>

\* mutant: the bridge stays
RemoveNothing == UNCHANGED listed

\* _find_bridge() and _remove_bridge()
RemoveBridge == Bridge \in listed /\ OsRemove(Bridge)

\* except Exception: pass.  The bridge was not found, or one of the steps up to its
\* removal failed (_read_window() and _invalidate_window() among them).
PassedOver == UNCHANGED listed /\ slipped' = (Bridge \in listed)

PreRemove ==
    /\ at = "preRemove"
    /\ (RemoveBridge /\ UNCHANGED slipped) \/ PassedOver
    /\ at' = "program"
    /\ UNCHANGED <<fpga, trained, command, attempt, found, cached, alone>>

\* load_image() of the board: the new image, or an exception that ends the call
\* before post_load().
LoadImage ==
    /\ at = "program"
    /\ \/ \E i \in Images : Program(i) /\ at' = "rescan"
       \/ Program(Blank) /\ at' = "idle"
    /\ UNCHANGED <<listed, attempt, found, cached, alone, slipped>>

AttemptLeft == attempt < Attempts

\* One attempt of post_load(): rescan, find the bridge, look behind it.
Rescan ==
    /\ at = "rescan"
    /\ IF AttemptLeft
       THEN OsRescan /\ attempt' = attempt + 1 /\ at' = "probe"
       ELSE at' = "idle" /\ attempt' = 0 /\ UNCHANGED <<listed, command>>
    /\ UNCHANGED <<fpga, trained, found, cached, alone, slipped>>

\* lspci -s bus: | head -1
FirstListed == CHOOSE s \in listed \cap Slots : \A r \in listed \cap Slots : s <= r

\* _probe_downstream_device() cuts the number of the bus off at its first digit above 9
\* (secondary=[0-9]*), and so may look behind another bridge: there may be a device
\* or none.  An exception of its steps is passed over, and nothing is removed.
Probe ==
    /\ at = "probe"
    /\ \/ /\ Bridge \in listed
          /\ found' \in {Elsewhere} \cup (IF listed \cap Slots = {} THEN {} ELSE {FirstListed})
          /\ at' = "mmio"
       \/ /\ at' \in {"rescan"} \cup (IF Pseudo /\ Bridge \in listed THEN {"drop"} ELSE {})
          /\ UNCHANGED found
    /\ UNCHANGED <<busVars, attempt, cached, alone, slipped>>

\* Nothing found behind the bridge: it is removed for the next rescan to find, or
\* that fails and is passed over.
Drop ==
    /\ at = "drop"
    /\ RemoveBridge \/ UNCHANGED listed
    /\ at' = "rescan"
    /\ UNCHANGED <<fpga, trained, command, attempt, found, cached, alone, slipped>>

\* The bit for memory accesses is the second.
MemOn(c) == (c \div 2) % 2 = 1

\* Up to 999: what setpci, which reads a number as hexadecimal, makes of a decimal one.
AsHex(n) == 256 * (n \div 100) + 16 * ((n \div 10) % 10) + (n % 10)

\* mutant: the bit is only written if another one is set already
EnabledIfAny(c) == IF MemOn(c) \/ c = 0 THEN c ELSE AsHex(c + 2)

\* _validate_mmio_access(): "COMMAND.B={}".format(value | 0b10)
Enabled(c) == IF MemOn(c) THEN c ELSE AsHex(c + 2)

\* A device that does not answer has all bits set.  What does not fit into the register
\* is an error (Raise), and the device of another bridge is not in the model.
ValidateMmio ==
    /\ at = "mmio"
    /\ IF found \in Slots /\ Answers(found)
       THEN /\ found \in listed
            /\ Enabled(command[found]) \in Byte
            /\ command' = [command EXCEPT ![found] = Enabled(@)]
       ELSE found \in listed \cup {Elsewhere} /\ UNCHANGED command
    /\ at' = "idle"
    /\ attempt' = 0
    /\ UNCHANGED <<fpga, trained, listed, found, cached, alone, slipped>>
-----------------------------------------------------------------------------
(* Clearing                                                                *)

Unload ==
    /\ at = "idle"
    /\ at' = IF Pseudo THEN "clearRescan" ELSE "clear"
    /\ found' = Bridge
    /\ cached' = FALSE
    /\ alone' = TRUE
    /\ slipped' = FALSE
    /\ UNCHANGED <<busVars, attempt>>

ClearRescan ==
    /\ at = "clearRescan"
    /\ OsRescan
    /\ at' = "clearRemove"
    /\ UNCHANGED <<fpga, trained, attempt, found, cached, alone, slipped>>

\* The bridge is remembered once it was found, whether or not it could be removed.
ClearRemove ==
    /\ at = "clearRemove"
    /\ \/ RemoveBridge /\ cached' = TRUE /\ UNCHANGED slipped
       \/ PassedOver /\ cached' = FALSE
       \/ PassedOver /\ Bridge \in listed /\ cached' = TRUE
    /\ at' = "clear"
    /\ UNCHANGED <<fpga, trained, command, attempt, found, alone>>

ClearImage ==
    /\ at = "clear"
    /\ Program(Blank)
    /\ at' = IF Pseudo THEN "again" ELSE "idle"
    /\ UNCHANGED <<listed, attempt, found, cached, alone, slipped>>

\* post_clear(): the bridge comes back, and once more without its window.
RescanAgain ==
    /\ at = "again"
    /\ OsRescan
    /\ at' = IF cached THEN "dropAgain" ELSE "idle"
    /\ UNCHANGED <<fpga, trained, attempt, found, cached, alone, slipped>>

DropAgain ==
    /\ at = "dropAgain"
    /\ RemoveBridge
    /\ at' = "lastRescan"
    /\ UNCHANGED <<fpga, trained, command, attempt, found, cached, alone, slipped>>

LastRescan ==
    /\ at = "lastRescan"
    /\ OsRescan
    /\ at' = "idle"
    /\ UNCHANGED <<fpga, trained, attempt, found, cached, alone, slipped>>
\* An exception that nothing catches ends the call: of a rescan, of the board's own
\* load_image() or unload_image(), of the accesses to COMMAND, or of the removal of the
\* remembered bridge.
Raise ==
    /\ at \in {"preRescan", "program", "rescan", "mmio", "clearRescan", "clear", "again",
              "dropAgain", "lastRescan"}
    /\ at' = "idle"
    /\ attempt' = 0
    /\ found' = Bridge
    /\ UNCHANGED <<busVars, cached, alone, slipped>>
-----------------------------------------------------------------------------
LoadStep ==
    \/ PreRescan \/ PreRemove \/ LoadImage \/ Rescan \/ Probe \/ Drop \/ ValidateMmio
    \/ ClearRescan \/ ClearRemove \/ ClearImage \/ RescanAgain \/ DropAgain \/ LastRescan
    \/ Raise

HotplugNext == Load \/ Unload \/ LoadStep \/ Train
-----------------------------------------------------------------------------
(* Properties                                                              *)

\* The FPGA is not reprogrammed under a device the kernel has listed, and an unload
\* leaves nothing listed behind the bridge, unless another process listed a device again
\* after it was removed, or the removal failed and was passed over.  A failed removal
\* in pre_clear() is made good by the one in post_clear().
NoLiveReprogram ==
    [][Pseudo /\ alone /\ at' # at =>
          /\ at \in {"program", "clear"} /\ ~slipped => listed \cap Slots = {}
          /\ /\ at \in {"again", "dropAgain", "lastRescan"} /\ at' = "idle"
             /\ slipped => at = "lastRescan"
             => listed' \subseteq {Bridge}]_hotplugVars

\* When post_load() returns with a device of the FPGA, it can be used: it answers, and
\* memory accesses are enabled, whatever a driver had set before, provided that it set
\* none but the lower three bits, or enabled them itself (see AsHex).
LoadedIsUsable ==
    [][Pseudo /\ alone /\ ~slipped /\ at = "mmio" /\ at' = "idle" /\ found' \in Slots =>
          /\ found \in listed /\ Answers(found)
          /\ MemOn(command[found]) \/ command[found] < 8 => MemOn(command'[found])]_hotplugVars
=============================================================================
