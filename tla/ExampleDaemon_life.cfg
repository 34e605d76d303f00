CONSTANTS
    Fpgas = {fpga1, fpga2}
    First = fpga1
    Times = {t1, t2}
    None = None
SPECIFICATION Spec
INVARIANTS
    RunningIsReal
    RunningListsAll
PROPERTIES
    Released
    Settles
