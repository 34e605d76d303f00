----------------------------- MODULE PciConfig -----------------------------
(***************************************************************************)
(* The objects of pcie/pci.py for a PCI device: the class of the object,   *)
(* the walks of the capabilities in its configuration space, the regions   *)
(* of its base address registers (BARs), a rescan of the object, and the   *)
(* region that a register accessor takes (PCIeRegAccess).                  *)
(*                                                                         *)
(* A device is its type and identification, its secondary bus if it is a   *)
(* bridge, its list of capabilities (first, id and next, by pointer), and  *)
(* what each BAR is, with the address it has been given.  Another image in *)
(* the FPGA makes it another device at the same place.                     *)
(* External: the devices, and how the kernel shows their BARs.             *)
(***************************************************************************)
EXTENDS Naturals, Sequences, FiniteSets

CONSTANTS
    HighWord,  \* 2^32 in the code
    NumBars,   \* the BARs of a header, 6 or 2 in the code
    NumCaps,   \* bound: the capabilities of a device
    Bases,     \* bound: the addresses a BAR can have been given
    NoObject   \* no object, and no region

ASSUME WordsAssumption ==
    HighWord \in Nat \ {0} /\ {NumBars, NumCaps} \subseteq Nat /\ Bases \subseteq Nat

VARIABLES
    dev,     \* external: the device
    obj,     \* the PCIDevice object
    how,     \* how the last operation ended
    fresh,   \* whether the device is the one that obj was last filled from
    access   \* a register accessor: the BAR it was given, its region, and the regions there were

pci == <<dev, obj, how, fresh, access>>

Endpoint  == 0
PciBridge == 1
PCIe      == "pcie"  \* the identifier of the PCI Express capability

\* The capability n steps along the list; 0 is its end.
Along(list, n) ==
    LET at[k \in 0 .. n] == IF k = 0 THEN list.first
                            ELSE IF at[k - 1] = 0 THEN 0 ELSE list.next[at[k - 1]]
    IN  at[n]

Seen(list) == {Along(list, n) : n \in 0 .. Len(list.id)} \ {0}
Ends(list) == Along(list, Len(list.id)) = 0

\* _config_check_pcie_capability()
ChecksPcie(list) == \E p \in Seen(list) : list.id[p] = PCIe

\* mutant: only the first capability is looked at
DecodedFirst(list) == {list.id[p] : p \in {list.first} \ {0}} \cap {PCIe}

\* _config_decode_capabilities(), if it returns: the capabilities that are supported
Decoded(list) == {list.id[p] : p \in Seen(list)} \cap {PCIe}

\* A BAR as its register shows it, and its line in the file "resource": that of a 64-bit BAR
\* has the whole address, that of its upper half has zeros.  Nothing is prefetchable.
BarSize(n) == n + 1

Bar(d, n) ==
    LET kind == d.kind[n] IN
    [zero |-> \/ kind = "none"
              \/ kind = "mem32" /\ d.base[n] = 0
              \/ kind = "upper" /\ d.base[n - 1] < HighWord,
     io   |-> kind = "io",
     wide |-> kind = "mem64"]

Line(d, n) ==
    IF d.kind[n] \in {"none", "upper"} THEN <<0, 0>> ELSE <<d.base[n], d.base[n] + BarSize(n) - 1>>

\* mutant: a 64-bit BAR takes one register
WidthOne(bar) == 1

\* The registers, and the lines, of a BAR
Width(bar) == IF ~bar.zero /\ ~bar.io /\ bar.wide THEN 2 ELSE 1

\* _config_decode_regions()
Regions(d) ==
    LET Address(n, w, which) ==
            Line(d, n)[which] + (IF w = 2 THEN HighWord * Line(d, n + 1)[which] ELSE 0)
        Region(n, w) ==
            [num |-> n - 1, memory |-> ~Bar(d, n).io, width |-> w,
             base |-> Address(n, w, 1), size |-> Address(n, w, 2) + 1 - Address(n, w, 1)]
        walk[n \in 1 .. NumBars + 2] ==
            IF n > NumBars THEN <<>>
            ELSE LET w == Width(Bar(d, n))
                 IN  (IF Bar(d, n).zero THEN <<>> ELSE <<Region(n, w)>>) \o walk[n + w]
    IN  walk[1]

\* _init_info() for an object of a class: whether it raises, or does not return
InitInfo(class, d) ==
    IF d.header # class.header THEN "header"
    ELSE IF ~Ends(d.list) THEN "loops"
    ELSE IF (PCIe \in Decoded(d.list)) # class.pcie THEN "class"
    ELSE "ok"

\* _pci_device_factory()
Class(d) == [header |-> d.header, pcie |-> ChecksPcie(d.list)]

Factory(d) ==
    IF d.header \notin {Endpoint, PciBridge} THEN "invalid"
    ELSE IF ~ChecksPcie(d.list) /\ ~Ends(d.list) THEN "loops"
    ELSE InitInfo(Class(d), d)

New(d) ==
    [class |-> Class(d), ids |-> d.ids, caps |-> Decoded(d.list), regions |-> Regions(d),
     bus |-> IF d.header = PciBridge THEN d.bus ELSE 0]

Identified(o, d) == [o EXCEPT !.ids = d.ids]
With(o, d)       == [Identified(o, d) EXCEPT !.caps = Decoded(d.list), !.regions = Regions(d)]

\* mutant: the device is identified before its class is checked
RescannedEarly(o, d, there) ==
    IF InitInfo(o.class, d) = "ok" /\ there THEN With(o, d) ELSE Identified(o, d)

\* PCIDevice.rescan(): _init_info() for the object there is.  The file "resource" is opened
\* last, and may be gone.
Rescanned(o, d, there) ==
    IF InitInfo(o.class, d) # "ok" THEN o
    ELSE IF ~there THEN Identified(o, d)
    ELSE With(o, d)
-----------------------------------------------------------------------------
(* Devices                                                                 *)

\* All lists of capabilities, those that come back to themselves included
Lists == [first : 0 .. NumCaps, id : [1 .. NumCaps -> {PCIe, "other"}],
          next : [1 .. NumCaps -> 0 .. NumCaps]]

\* What each BAR is; "upper" is the upper half of the one before it.
Layouts ==
    {kind \in [1 .. NumBars -> {"none", "io", "mem32", "mem64", "upper"}] :
        \A n \in 1 .. NumBars :
            /\ kind[n] = "upper" <=> n > 1 /\ kind[n - 1] = "mem64"
            /\ kind[n] = "mem64" => n < NumBars}

\* 0 is no address yet; only a 64-bit BAR can be above HighWord.
Given(kind) ==
    {base \in [1 .. NumBars -> Bases \cup {0}] :
        \A n \in 1 .. NumBars :
            /\ kind[n] \in {"none", "upper"} => base[n] = 0
            /\ base[n] + BarSize(n) > HighWord  => kind[n] = "mem64"}

Device(header, ids, list, kind, base) ==
    [header |-> header, ids |-> ids, bus |-> ids, list |-> list, kind |-> kind, base |-> base]

NoCaps == [first |-> 0, id |-> <<>>, next |-> <<>>]
NoBars == [n \in 1 .. NumBars |-> "none"]
NoBase == [n \in 1 .. NumBars |-> 0]
OneBar == [NoBars EXCEPT ![1] = "mem32"]
Nobody == Device(Endpoint, 0, NoCaps, NoBars, NoBase)

WithBars      == UNION {{Device(Endpoint, 0, NoCaps, kind, base) : base \in Given(kind)} : kind \in Layouts}
WithCaps(ids) ==
    {Device(header, ids, list, OneBar, [NoBase EXCEPT ![1] = ids]) : header \in 0 .. 2, list \in Lists}

NoAccess == [bar |-> 0, region |-> NoObject, of |-> <<>>]

PciIdle(d) == dev = d /\ obj = NoObject /\ how = "none" /\ fresh = FALSE /\ access = NoAccess
PciInit    == \E d \in WithBars \cup WithCaps(1) : PciIdle(d)

Running == how # "loops"

\* detect_pci_devices() finds the device and makes an object.
Detect ==
    /\ Running /\ obj = NoObject
    /\ how' = Factory(dev)
    /\ obj' = IF how' = "ok" THEN New(dev) ELSE NoObject
    /\ fresh' = (how' = "ok")
    /\ UNCHANGED <<dev, access>>

\* rescan(), without remove
RescanObject(there) ==
    /\ Running /\ obj # NoObject
    /\ how' = IF InitInfo(obj.class, dev) = "ok" /\ ~there THEN "gone" ELSE InitInfo(obj.class, dev)
    /\ obj' = Rescanned(obj, dev, there)
    /\ fresh' = (how' = "ok" \/ (fresh /\ obj' = obj))
    /\ UNCHANGED <<dev, access>>

\* PCIeRegAccess: the last region of that number, or none
Access(bar) ==
    /\ Running /\ obj # NoObject
    /\ LET matching == {n \in 1 .. Len(obj.regions) : obj.regions[n].num = bar}
           found == CHOOSE n \in matching : \A m \in matching : m <= n
       IN  access' = [bar |-> bar, of |-> obj.regions,
                      region |-> IF matching = {} THEN NoObject ELSE obj.regions[found]]
    /\ UNCHANGED <<dev, obj, how, fresh>>

\* The FPGA is loaded with another image.  Bound: once, and not if it had many BARs.
Replug ==
    /\ dev.list # NoCaps
    /\ dev.ids = 1 \/ ~Running
    /\ dev' \in WithCaps(2)
    /\ fresh' = (fresh /\ dev' = dev)
    /\ access' = NoAccess
    /\ UNCHANGED <<obj, how>>

PciNext ==
    \/ Detect
    \/ \E there \in BOOLEAN : RescanObject(there)
    \/ \E bar \in 0 .. NumBars : Access(bar)
    \/ Replug

PciSpec == PciInit /\ [][PciNext]_pci
-----------------------------------------------------------------------------
(* Properties                                                              *)

\* The region of BAR bar, from what the device is
Expected(d, bar) ==
    [num |-> bar, memory |-> d.kind[bar + 1] # "io", width |-> IF d.kind[bar + 1] = "mem64" THEN 2 ELSE 1,
     base |-> d.base[bar + 1], size |-> BarSize(bar + 1)]

\* A 32-bit memory BAR without an address cannot be told from none.
HasRegion(d, bar) ==
    /\ bar < NumBars /\ d.kind[bar + 1] \notin {"none", "upper"}
    /\ ~(d.kind[bar + 1] = "mem32" /\ d.base[bar + 1] = 0)

\* An object that was filled from its device has a region for each of the device's BARs, in
\* order, with the number, width, address and size of that BAR, also behind 64-bit BARs; and
\* a register accessor reaches the BAR it was given, or nothing, if the device does not have
\* it, until a rescan finds other regions: it keeps its own.
BarReached ==
    fresh =>
        LET has == {bar \in 0 .. NumBars : HasRegion(dev, bar)} IN
        /\ Len(obj.regions) = Cardinality(has)
        /\ \A n \in 1 .. Len(obj.regions) :
               /\ obj.regions[n].num \in has
               /\ obj.regions[n] = Expected(dev, obj.regions[n].num)
               /\ n > 1 => obj.regions[n - 1].num < obj.regions[n].num
        /\ access # NoAccess /\ access.of = obj.regions =>
               access.region = IF access.bar \in has THEN Expected(dev, access.bar) ELSE NoObject

\* A set of capabilities that the list does not lead out of
Closed(list, S) ==
    (list.first # 0 => list.first \in S) /\ \A p \in S : list.next[p] # 0 => list.next[p] \in S

Supports(list) == \A S \in SUBSET (1 .. Len(list.id)) : Closed(list, S) => \E p \in S : list.id[p] = PCIe

Endless(list) ==
    /\ list.first # 0
    /\ \E S \in SUBSET (1 .. Len(list.id)) : Closed(list, S) /\ \A p \in S : list.next[p] # 0

\* An object takes nothing from a device that is not of its own class, when it is made and
\* when it is rescanned after the FPGA has become another device: the two walks of the
\* capabilities agree on the class.  Only a list that comes back to itself hangs them.
ObjectFits ==
    [][/\ obj' # obj /\ obj' # NoObject =>
              /\ obj'.class = [header |-> dev.header, pcie |-> Supports(dev.list)]
              /\ obj'.ids = dev.ids
       /\ how' # how => /\ how' = "loops" => Endless(dev.list)
                        /\ obj = NoObject => how' \in {"ok", "invalid", "loops"}
                        /\ how' = "class" => obj.class.pcie # Supports(dev.list)]_pci
=============================================================================
