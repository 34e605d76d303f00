--------------------------- MODULE MCRegisterFile ---------------------------
(***************************************************************************)
(* A process reaches its registers over I2C or over PCIe: RegisterFile for *)
(* one, PciConfig for the other.                                           *)
(***************************************************************************)
EXTENDS RegisterFile, PciConfig

MCInit ==
    /\ Init
    /\ IF kind = "pcie" THEN PciInit ELSE PciIdle(Nobody)

MCNext ==
    \/ kind # "pcie" /\ Next /\ UNCHANGED pci
    \/ kind = "pcie" /\ PciNext /\ UNCHANGED vars

MCSpec == MCInit /\ [][MCNext]_<<vars, pci>>
=============================================================================
