----------------------------- MODULE MCFpgaPcie -----------------------------
(* FpgaPcie for TLC: small images.                                         *)
EXTENDS FpgaPcie

\* An image with one PCIe device, and one with a PCI device besides.
MCImages == { [s \in Slots |-> IF s = 1 THEN "pcie" ELSE "none"],
              [s \in Slots |-> IF s = 1 THEN "pcie" ELSE "pci"] }

\* Memory accesses and bus mastering; or bits without the one for memory accesses, of
\* which one is above the third.
MCCommands == {6, 68}
=============================================================================
