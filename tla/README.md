# A model of libapp

libapp (`src/resources/libapp`) is the Python library of openfdk that runs an FPGA
application on an Arista switch: it loads FPGA images and clock profiles, talks to the FPGA over
PCIe and SMBus, tunes transceivers, and connects an application's daemon with the CLI.  This
directory holds TLA+ modules that model it, TLC configurations that check them on small
instances, and proofs that the TLA+ proof system checks for instances of every size.

`PROJECT.json` is the index: the components, the runs, for every definition the lines of code it
translates, for every property a mutant (a plausible bug in one definition that makes the
property fail), the hazards of the code with the properties about them, and the theorems.

    tlc -workers 2 -config FpgaImage_image.cfg MCFpgaImage.tla      # a run
    tlapm FpgaImage_proofs.tla                                      # a proof

Contents: [the system](#the-system), [the modules](#the-modules), [the runs](#the-runs),
[fairness](#fairness), [the proofs](#the-proofs), [known defects](#known-defects),
[not modelled](#not-modelled), [plan](#plan).


## The system

An application is a daemon (an EosSdk agent, one process, one thread with an event loop) and CLI
commands (short processes of their own).  They share no memory.  They meet in Sysdb, the switch's
database, which outlives them; in MakoProfile, which configures FPGAs; in the chips on the I2C
buses; and in the kernel's list of PCI devices.  Any of the processes may be killed at any point,
and ProcMgr starts a daemon again.

| component | state | operations | module |
|---|---|---|---|
| FPGA image lifecycle: `Fpga` in `device.py` | the profile entry and its status in MakoProfile; `_profile_key`, `registers`, `_ipcores`, `_bitstream` of the object; the clock chip | `load_image`, `unload_image`, `profile_state`, `is_loaded` | `FpgaImage`, `ImageContract` |
| Clock generators: `clock_generator.py` | the registers of the chip, its page, who has grabbed the device, the block of bytes pending | `load_profile`, `load_config`, `_paged` access, `_soft_reset` | `Si5345`, `LMK05318`; the waits of `load_profile` in `FpgaImage` |
| PCIe hotplug: `Pcie` in `device.py` | the kernel's device list, COMMAND registers, the remembered bridge | `pre_load`, `post_load`, `pre_clear`, `post_clear` | `PcieHotplug` |
| PCI device manager: `pcie/fpga_pcie.py`, `pcie/pci.py` | the devices detected and managed, their cached access flag; for each its class, identification, capabilities and regions | detection, rescan, removal, enabling of accesses | `FpgaPcie`; the objects in `PciConfig` |
| PCI memory regions: `PCIMemoryRegion` in `pcie/pci.py` | the mapped memory | `read`, `write`, aligned or not, in transactions | `MemRegion` |
| Register files and accesses: `register_file.py`, `register_accessor.py`, `pl_smbus_burst.py` | the attributes of the class `RootNode`, the registers of the FPGA, the lock of the I2C device | `RegisterFile()`, read and write of a register, of a 64 bit value and of a string, retried | `RegisterFile`; writes in `PhyConfig`; over PCIe `PciConfig` and `MemRegion` |
| Transceiver tuning: `tuning.py`, `fphy.py`, `sysctl.py` | the PHY records, `TuningMixin.fphy` | `on_initialized`, link speed and transceiver events, `set_speed`, setting a field | `PhyTuning` over `PhyConfig` |
| Child processes: `subprocess.py` | `_fd_map`, `_handlers`, pipes, the EosSdk watch list | `run`, `on_readable`, dropping the manager | `SubprocessMgr` |
| Daemon status: `StatusMutator` (`daemon.py`), `StatusAccessor` (`cli.py`) | flat paths in Sysdb; an index in each process | set, delete, `clear`, `deepupdate`, `status_as_dict` | `StatusTree` |
| Configuration: `ConfigMixin`, `ConfigCommandClass`, `ConfigMutator` | options in Sysdb, the daemon's copy, its status | the configuration commands, the callbacks | `ConfigMirror` |
| Daemons of the examples | `loaded_fpgas`, the timer, the status; their calls of the above | `on_initialized`, `on_timeout`, `on_agent_enabled`, `on_agent_option`, `on_agent_rpc`; the show commands | cliexample in `ConfigMirror`; helloworld, nullverilog, tscore_nomac and telemexample in `ExampleDaemon` |
| Register bursts: `register_burst.py` | the transactions collected | add, submit, clear | `RegisterFile` |
| Telemetry: `telemetry.py` | a socket | `ready`, `send_metrics` | two steps of `ExampleDaemon`, in part |
| Platform descriptions, naming, formatting and shell helpers (`clkgen_ctl.py` among them); build scripts; VHDL cores | | | [not modelled](#not-modelled) |

How they interact.  A daemon's `load_image` (`device.py:949`) first withdraws what it had
requested, loads a clock profile (`clkgen.load_profile`), creates a profile entry and a request in
Sysdb, and polls MakoProfile's answer; on a board with a PCIe FPGA the same call goes through
`Pcie.pre_load` and `post_load`, beside which a tool may manage the same devices.  When the image
runs, the daemon uses `registers`, which go through an accessor over SMBus or a memory region, and
the mixins: `TuningMixin` sets PHY records, `StatusMixin` and `ConfigMixin` answer the CLI.

What is hard in it, and what should hold:

* *Polling another process' state.*  `profile_state()` is read three times in one loop
  (`device.py:1018`), while MakoProfile goes on and may remove what it reads.  A load must tell the
  truth, end in time, and undo everything if it fails; the image must never be asked for on a wrong
  clock.
* *Unlocked shared hardware.*  A page select and an access; a read and a write of one record; a
  list of devices and the devices: other processes come in between.
* *Death between two steps*, of a daemon in a recursive delete, in an unfinished clock load, in
  front of a profile it asked for; the state in Sysdb and in the chips is what its successor finds.
* *Callbacks that call back*: a handler of an exited child starts the next one while the
  reactor is in the middle of the first, and descriptors are reused.
* *Merged and late notifications* of configuration, speed and transceivers.
* *A handler that fails half-way*: the event loop swallows the exception, and the daemon lives on
  with what the handler had done so far.
* *Things read in two steps*: a 64 bit counter that counts, a status of two keys, two walks of one
  list of capabilities.
* *Ctrl-C inside an access*, perhaps inside its `finally`.
* *Arithmetic of partial words, of joined accesses, and of BARs that take two registers.*

The list of the hazards, each at its line, is in `PROJECT.json`.


## The modules

An action is named for the method, or the part of a method, it models.  A step of a process is
what no other process can see a part of: an access of Sysdb, a transfer, a transaction.  What
a variable is in the code is said where it is declared.

**`ImageContract`** says what a daemon may rely on: an image is free, asked for or running, and
each load ends with a verdict.  A good verdict is given and stands only while the image runs,
a bad one only when nothing is asked for any more.

**`FpgaImage`** is the code: `pc[a]` walks daemon `a` through `load_image` and `unload_image`,
`after[a]` says what follows an unload (a return, the rest of a load, the exception).
`avail`, `want` and `state` are the profile entries, requests and answers in Sysdb; `key` and
`regs` the object's `_profile_key` and `registers`; `clk` the chip.  `Poll1`, `Poll2`, `Check`
and `Poll3` are the reads of the wait loop.  `Seen(a)` is what a read can return: `Match`
models the test of script names by substring.  `MakoStart` is MakoProfile's
boot, which removes profiles; `MakoPick`, `MakoFinish` and `MakoClear` serve requests.  The
instance `Contract` maps it to `ImageContract`.  `unloadProfile` is taken to take effect at once.
The clock load is `ClkBegin`, `ClkEnd` and `ClkReady`; at each of them `ClkFail` may end the call.
`FpgaImage_proofs` holds the theorems.

**`Si5345`**: an access with a page is grab, select, transfer, release (`clock_generator.py:90-107`).
The lines of a profile are a sequence; a line that is no register is `Comment`.  A transfer can
fail, and a process can die, at each step.  `Parsed` builds the registers from the lines one by one.
`Si5345_proofs` holds the theorems.

**`LMK05318`**: `load_config` goes through the lines with a pending `block`.  `WrData` is
`_wr_data`, which reads the chip to keep masked bits; a block write may be torn.  `_soft_reset` is
three steps.  A byte is the set of its bits that are 1.  `want` is history: what single writes
would have left.  `LMK05318_proofs` holds the theorems.

**`PcieHotplug`** and **`FpgaPcie`**: the loader and a tool on one kernel device list (`listed`),
COMMAND registers (`command`) and FPGA (`fpga`).  `FpgaPcie` EXTENDS `PcieHotplug` and interleaves
the two.  `all` are the tool's objects with their cached flag, `managed` those of its FPGA;
`alone`, `calm` and `disturbed` are history: whether the other process interfered; `slipped`: a
removal in front of the programming failed, with the bridge listed.  COMMAND is a number, because
`AsHex` is about its digits.  `PassedOver`, `Drop` and `Probe` have the exceptions that the loader
catches, `Raise` those it does not.  `Pcie_proofs` holds the theorems about these two, `MemRegion` and `PciConfig`.

**`MemRegion`**: one call; `FirstPart`, `WordsPart` and `LastPart` are the three loops of an
aligned access, `WholePart` the other.  Bytes carry their address, and the model counts how often
each word was read and written.  `Pointer` adds to each of the parts what the `ctypes` pointer reads
besides where `_MemVolatileAccess` is missing (`hidden`).

**`PhyConfig`** and **`PhyTuning`**: setting a field is the reads of `hasattr` and `refresh`
and the write of `commit` (`sysctl.py:61-72`), each a transaction that may fail and is tried
`MaxTries` times (`Register.RETRIES`), having been carried out or not.  `PhyTuning` adds the mixin:
`SetUp` is an iteration of the loop of `on_initialized`, `ReadSource`, `ReadMedium` and
`ReadSpeed` what `_apply_tuning` reads one after the other, `SetStep` the transactions of
`set_speed`; and a tool that sets another field.  It is the branch for a DCS-7132LB; on other
boards the first two reads are constants.  The theorems are in `RegisterFile_proofs`.

**`SubprocessMgr`**: `map` is `_fd_map`, `watched` the descriptors EosSdk watches, `open` those
that are open.  `Spawn` is `run`, from the loop or from a handler; `OnReadable`, `Notify` and
`Dispatched` are `on_readable`.  `OnReadable` includes the blocking `wait()`.  `SubprocessMgr_proofs`
holds the theorem.

**`StatusTree`**: a path is the sequence of its keys.  `listed` is the index, as the set of paths.
`Descend` and `Ascend` are the recursion of `__delitem__` and `clear`, a step per path;
`ShowBegin`, `ShowItem` and `ShowEnd` a CLI command that reads meanwhile.  `Careful` restricts the
daemon as the daemons in the repository do: it puts no value and mapping at one path.  The same is
assumed of what it gives to `deepupdate` (`StatusAssumption`).  `StatusTree_proofs` holds the
theorems.

**`ConfigMirror`**: `config` are the options in Sysdb, `mirror` what the daemon was told,
`agentStatus` its answer.  `OnAgentOption` brings the latest value of an option, in any order, so that
changes merge; `told` is the value of "enabled" the daemon knows.  `ClearEntry` and `Cleared` are
`status.clear()`, entry by entry, in `on_initialized` (`InitClear`) and in `on_agent_enabled`
(`OnAgentEnabled`, `ShutDown`).  `StatusTree_proofs` holds the theorem.

**`ExampleDaemon`**: the four daemons that load an image or send telemetry.  A handler is a sequence
of steps, `code` what is left of the one that runs; `Write`, `Load(f)`, `Names`, `ReadStamp` and so
on take its head.  `Raise` ends a handler and nothing else.  `loaded` is `loaded_fpgas`, `regs` the
FPGAs with a register file, `told` and `complete` what EosSdk keeps.  Loads and unloads are
`ImageContract`'s: done, or undone with an exception; `NoRegisters` is a `RegisterFile()` that raises
after the load.  `Clear` and `Cleared` are `status.clear()`, which deletes key by key in any order.
`Options` and `NoNumber` are the `float()` of telemexample's options in `on_timeout`, of which
`numbers` says whether they are numbers; the `inf` and `nan` that `float()` takes are left out.
`ShowBegin`, `ShowRunning` and `ShowFpgas` are a CLI command that reads meanwhile.  History are `calm` (nothing was
half cleared while it read), `partly` (the status is half cleared) and `odd` (a tick met an option
that is no number).  `ExampleDaemon_proofs` holds the theorems.

**`RegisterFile`**: `Construct` is `RegisterFile()` for a CSV file, reduced to what its compounds
depend on; `Added` the registers and then the compounds that go into a class, `class` the class of the
roots, which all register files share.  `ReadWide`, `ReadString` and `ReadOne` begin a read, `Grab`,
`Transfer` and `Release` are an access over I2C, `FoundLocked` the assertion in `read_reg`, `TryAgain`
the decorator `Retryable`; `Counts` lets the FPGA count in between.  `AddRegister` and `AddRaises` are
`_add_register()` of `register_burst.py`, `Submit` and `ClearBurst` the two other methods, which nothing calls
together.  A value is a number, as the default 0, or a list of one, as `_submit_burst()` takes it (`Fit`); both are in
the model, with the exceptions that each leads to.  `RegisterFile_proofs` holds the theorems.

**`PciConfig`**: what an object of `pci.py` takes from the configuration space of a device.
`ChecksPcie` and `Decoded` are the two walks of the capabilities, `Regions` the walk of the BARs,
`Factory` and `New` the choice of a class and the construction, `Rescanned` a `rescan()`, which works
through `_init_info` in its order, and `Access` the constructor of `PCIeRegAccess`.  `Replug` puts
another device in its place.

The `MC*` modules give constants that a `.cfg` cannot express.  `MCRegisterFile` also puts
`RegisterFile` and `PciConfig` side by side: a process reaches its registers one way or the other.


## The runs

Every run states one instance; the times are of two workers.

| run | instance and bounds | states | checked |
|---|---|---|---|
| `image` | one daemon, every argument list of `load_image`, two clock profiles, one kill at any step | 37 thousand, 6 s | registers follow the image (unless an unload raised), clock before image, failures undone, clock restored, no false failure, the contract; calls return, with a timeout even if MakoProfile never answers |
| `image_query` | the same | violation | `is_loaded` answers ([finding](#known-defects)) |
| `example` | each of the four daemons, two FPGAs of any board standard, two timestamps, any number of commands, kills and failures | 259 thousand, 15 s | "running" is real (unless a tick raised), a show lists all FPGAs (unless an entry was cleared meanwhile), a reported shutdown has given everything back, the daemon settles |
| `subproc` | two children with every program that needs no reader, two handlers, one that raises, four descriptors, spawns that fail, a manager that is dropped | 71 thousand, 17 s | the map is live, handlers are called after the exit, descriptors are closed, every exit is told |
| `status_tree` | five paths in three levels, two updates, one kill | 269 thousand, 26 s | the index matches Sysdb, shows are complete, deletes are complete, touch nothing else, and end |
| `config` | two options, two addresses, any number of kills | 16 thousand, 2 s | running means loaded and nothing left over, convergence |
| `pci` | two devices, an image with one and one with both, two attempts, COMMAND 0 or what a driver sets: 6 or 68 | 4.7 million, 62 s | the cached flag is right, a loaded device is usable (if COMMAND was below 8), rescans find all, nothing is reprogrammed under the kernel (unless a removal failed) and unloads are clean |
| `mem` | four words of four bytes: every offset and length, one word, two words or everything per transaction, with `_MemVolatileAccess` or a new or old pointer | 12 thousand, 2 s | the right bytes are transferred, each word once; what the pointer reads besides |
| `regfile` | two register files with any CSV of strings of up to two registers, a counter of two bits in words of one, two tries, any failures and interrupts; bursts of three accesses to three addresses, with values as numbers and as lists; devices with any four BARs, or with any list of two capabilities and then another such device | 812 thousand, 26 s | 64 bit reads, whole strings, the lock heals, bursts do as asked; BARs are reached, objects fit their device |
| `si5345` | two processes, two profiles, three loads, one failed transfer or kill | 73 thousand, 4 s | one holder, no stray byte, the profile is loaded |
| `lmk05318` | five addresses with gaps and masks, two bits, seven shapes of profile with all data, two loads, a failure at any step | 126 thousand, 6 s | joined writes lose nothing, the result is that of single writes, masked bits are kept |
| `tuning` | two interfaces, two ports, two tuned fields and the tool's, two tries, two changes (of speed, medium, patching, tool calls, deaths) | 1.3 million, 50 s | the last speed and medium are tuned, the tool's field is kept, convergence |

Why the bounds are enough to meet the interesting cases:

* `image`: a call's effect on a later one shows with the second call, which is not bounded; the
  kill may come in any of them, and the daemon that follows makes calls without bound.  The timeout
  and the failure of the profile are choices.  Two daemons on one FPGA are not in this run, because
  the library does not arbitrate between them (see the defects); the proofs cover any number where
  the property holds.
* `example`: two FPGAs make a load loop that fails at its second turn; two timestamps a read of one
  and a read of the other.  A second life finds what the first left, and has all the actions again.
* `subproc`: one child to be dispatched and one to be started by its handler reuse each other's
  descriptors; four descriptors leave some to be reused and some never used.
* `status_tree`: three levels with two values below one mapping, so that one delete empties a
  mapping and one does not, and a value beside them.
* `pci`: the first device is the one the loader looks for, the second the one it does not.  68 is a value
  that `setpci` misreads, 6 one with the bit set already, 0 one without.
* `mem`: four words give a first, two inner and a last word, so a transaction of two words
  occurs aligned, short and absent.
* `regfile`: in words of one bit (`Word = 2`) a counter up to `MaxCount = 3` wraps its low half while
  the high half counts.  Two files are the fewest that can mix in a class, two tries the fewest
  where one heals what another left, and three accesses join twice, once, or not.  Four BARs
  (`NumBars`) hold a 64 bit BAR in front of, behind and between others, and two of them; an address
  (`Bases = {1, 3, 9}`) lies below or above the word boundary `HighWord = 8`.  Two capabilities
  (`NumCaps`) make every form of list: empty, of one, in either order, and one that comes back.  `Replug`
  happens once, for devices with one BAR: a rescan keeps nothing of the regions it finds, so
  their number matters only within one reading.
* `si5345`: two processes on two pages, and a load after the interleaved ones.
* `lmk05318`: the shapes are the ones that the code tells apart: consecutive, a gap of one, a mask
  at the start of a block, inside, and a register kept whole, a register twice, none.
* `tuning`: a change during each read and another before its event is brought, or a change of
  both processes at one time.  Fields take several values between, so a half-done set of fields
  shows.

`CHECK_DEADLOCK FALSE` is set where the system really stops: the calls, loads, children or changes
of the instance are used up (`mem`, `lmk05318`, `si5345`, `subproc`, `tuning`).  The other runs check
deadlock.


## Fairness

Safety runs and properties need none.  The liveness properties assume:

* `FpgaImage` (`CodeFairness`): the library's loops run on, because nothing in them waits but
  `time.sleep`, and time passes.  That the clock chip answers and locks (`ChipFairness`) and that
  MakoProfile serves (`MakoFairness`) is *not* assumed of the specification: it is the premise of
  the properties, each with the least it needs.  For a load with a timeout `CallReturns` needs the chip
  only: MakoProfile may never answer.
* `SubprocessMgr`: the event loop runs, a readable descriptor that is watched is served (strong
  fairness, since a dispatch in progress keeps the others waiting), children that can go on do.
  A child that waits for its input is not made to.
* `StatusTree`: a recursion that has begun goes on.
* `ConfigMirror`: Sysdb delivers, ProcMgr starts an enabled daemon, a command that has begun goes
  on.  `Converges` has a premise besides: no more commands and kills.
* `ExampleDaemon`: the event loop and ProcMgr go on (`WF_vars(Step)`), and timeouts, which come again
  and again, do not keep the loop from a notification for ever (`SF_vars(OnAgentEnabled)`): EosSdk
  serves its events in turn.  Users, shows and kills need not come; `Settles` asks that they stop.
* `PhyTuning`: the daemon's steps are taken.  A transaction may fail each time; tries are
  bounded by the code, changes by the instance.


## The proofs

`tlapm` checks the eight proof modules from nothing; no step is left out.  Each begins with the
inductive invariant, then has one lemma per action (or group of actions that do the same to it), and
ends with the theorems.  TLC checked each invariant before it was proved.

| theorem | hypothesis | for every |
|---|---|---|
| `TypeCorrect`, `FailureUndoneHolds`, `RegistersFollowImageHolds`, `FailureIsRealHolds`, `ImplementsContractHolds` | distinct script names (all but the first) | set of daemons, clock profiles, restarts |
| `ClockBeforeImageHolds`, `ClockRestoredHolds` | the same, and one daemon on the FPGA | clock profiles, restarts |
| `NothingLostHolds`, `LoadedAsSequentialHolds`, `ProtectedKeptHolds`, `NoEarlyResetHolds` | | LMK05318 profile, number of loads, failure |
| `OneHolderHolds`, `NoStrayHolds`, `ProfileLoadedHolds` | | set of processes, Si5345 profiles of any length, failure, death |
| `MapIsLiveHolds` | | set of children, handlers, descriptors |
| `IndexMatchesHolds`, `ShowCompleteHolds`, `CleanSlateHolds` | `Careful` | tree of paths of any depth, updates, restarts |
| `RunningMeansLoadedHolds` | | set of options and addresses, kills |
| `RunningIsRealHolds`, `RunningListsAllHolds`, `ReleasedHolds` | | set of FPGAs of any standard, exceptions, kills, commands |
| `LockHealsHolds`, `WideReadHolds`, `WholeStringHolds`, `BurstAsAskedHolds` | | word size, CSV files, number of tries, burst of any length and addresses |
| `TunedWhenQuietHolds`, `ToolKeptHolds` | | set of interfaces, ports and speeds, table of tunings, number of tries, changes and deaths |
| `FlagIsTrueHolds`, `LoadedIsUsableHolds`, `NoLiveReprogramHolds`, `RescanFindsAllHolds` | | number of devices and attempts, set of images |
| `TransfersHolds`, `OncePerWordHolds` | `AlignedCalls` | size of a word and of the region, offset, length and size of transaction |
| `ObjectFitsHolds`, `BarReachedHolds` | | number of BARs in any layout with any addresses, number of capabilities in any list |

Each has the named assumptions on the constants besides, which the runs evaluate.

**`FpgaImage_proofs`**:

* `TypeCorrect`: `Spec => []TypeOK`, one lemma for the shared tails of the actions
  (`End`, `Raise`, `Recreate`, `Finish`), one for a daemon's step.
* `CallInvariant`: each daemon `b` has `CallInv(b)`, the inductive strengthening: what is still
  asked for, and which of key and registers are set, at every place of a call.  It is needed
  because the exception is raised steps after the unload it follows.  A step of `b` preserves it,
  and no step of another touches what it reads (`Same`, `Frame`), *if script names are distinct*
  (`Distinct`).  `FailureUndoneHolds` and `RegistersFollowImageHolds` follow.
* `ClockInvariant`: with one daemon on the FPGA, `ClockInv(a)` says for every place which profile
  the chip has and whether it is locked; restarts keep it because the successor withdraws the old
  request before it touches the chip.  `ClockBeforeImageHolds` and `ClockRestoredHolds` follow.
* `PollInvariant`: `PollInv(b)` says what one of the three reads of the wait loop leaves for the next
  to see: MakoProfile only moves a request forward, so at the second read the image is at least being
  applied, at the third it is applied or failed.  `FailureIsRealHolds` follows, and with `CallInv` the refinement: the initial states of `FpgaImage`
  are initial states of `ImageContract`, and each action is one of `Ask`, `Run`, `Drop`, `Good`, `Bad`
  and `Forget` of one daemon (`OnlyOf`) or a stutter.

Assumed, beside the named assumptions on the constants: what the model says of its environment,
in particular that `unloadProfile` takes effect before it returns, and that MakoProfile removes
profiles at its start only.

**`LMK05318_proofs`**: `Inv == TypeOK /\ Progress`.  `Progress` relates the chip, with the block
written out (`Pending`), to the chip that is written byte by byte (`want`), and says that
both have the same masked bits; without the latter the invariant is not inductive, because
`_wr_data` reads the real chip in front of a pending block.  The lemmas about `Put` say what one
byte more in a block does.  `NothingLostHolds` and `LoadedAsSequentialHolds` follow, and the
action properties `ProtectedKeptHolds` and `NoEarlyResetHolds` (with `TornKept` for torn
blocks); the last, that the reset comes after every line, is proved only.  Assumed: one process
at a time at this chip.

**`Si5345_proofs`**: `Parsed`, the lines of a file that are no comments, is a recursive function; that
it exists and is in order (`ParsedTable`, `Kept`) is proved by induction over the lines (below).
`BusInv` says that there is one holder, that the page is the one its line is on when it makes the access,
and that no load is past the end of its file; `OneHolderHolds` and `NoStrayHolds` follow.
`LoadInv(p)` adds that the chip has what the lines so far leave, as long as no other load overlaps.
`ProfileLoadedHolds` is its case for the last line.

**`SubprocessMgr_proofs`**: `ReactorInv` adds to `MapIsLive` that the children in the map, and the one
being dispatched, have been born, and that an unborn child has no pipe.  Without that the invariant is
not inductive: `run()` could give a child that is waited for a second pipe.

**`StatusTree_proofs`**: lemmas about paths as sequences (`UnderOrder`: what is above one path is in
a line; `NextStep`, `AboveIsName`), then `TreeInv`: the index is `Index(status)` at *every* step, no two
values are one above the other (`Apart`), and what is left of an update (`UpdateInv`) or of a recursive
delete (`RemoveInv`) keeps it so; for a show command, that a lasting value not yet shown is still to be
visited (`ShowInv`).  Without `Apart` the invariant is not inductive, and with a value at the path of
a mapping it is false: that is the defect `Careful` excludes.  `ShowCompleteHolds` and `CleanSlateHolds` follow.
The module also has the proof about `ConfigMirror`: `ConfigInv` adds to `RunningMeansLoaded`, which says
for each state of the process what its status may hold, that while `on_initialized` loads, every option its
loop need not visit any more has its answer (`Loading`).  Without that, nothing follows for the step
that sets "running".

**`ExampleDaemon_proofs`**: `HandlerInv` says that `code` is the rest of a handler that can run in the
state the process is in; `Flows`, proved from the sequences, which step then follows which.
`InitInv`, `UpInv`, `StampInv`, `StopInv` say what holds in front of each step (the FPGAs the loop has
visited are loaded, "running" is not yet said, the second form of a timestamp is still to be read), and
`BoundsInv` that no FPGA outside of `Wanted` is touched; `Released` needs the latter, for an image that an
earlier process left.  `StatusInv` says that "running" comes with the whole list where the status is not
half cleared, and `ShowInv` what a show has read so far, and that it began on such a status.  One
lemma per action says that it keeps all of them.

**`RegisterFile_proofs`**: three invariants.  `LockInv` says at which places of a try the lock is taken,
and that only the first try of a call can find it so: a later try, a second register, or the end of a
call has had a `finally` before it.  `CompoundInv` says that the registers read and those left are
together those of the compound (`ReadsInv`), and for a 64 bit value between which values of the counter
its high half was read; `Halves`, about quotients for every word size, does the rest.  `BurstInv` says that
the transactions, written out access by access, are the accesses added so far; `InOrder` takes them
from a recursive function (`Table`), whose value for one access more (`Grown`, `Shortened`) comes by
induction.  It also says that a transaction that does not fit comes with a value of the wrong form for its place
(`Misfit`), so that a burst of the right forms is sent.  Assumed: one process at a time at this device.

The same module has the proofs about `PhyTuning`, in five parts.  `ClashInv`: who works on a record alone has
read what it holds, so that its commit changes its own field only; `ToolKeptHolds` needs it.  `JobsInv`: the
daemon assigns the fields of the tuning and the tool its own.  `WatchInv`: an interface is watched
before it is read, and what was read is so until there is news (`events`, `untold`).  `SetInv`: half-way
through `set_speed`, the fields already set and those to come are together the row of the table for
the speed and medium that were read.  `TunedInv`: an interface that was tuned, and is not being tuned again,
is tuned, or there is news of it.  `TransactionTouches` says what a transaction of
either process, failed or not, does to the records, and `ChangesAreNews` that no change of what tuning
depends on goes without news; the lemmas for the actions use these two.  Assumed: the fields of a tuning
are different ones (`fphy.py:69-72` assigns four), and not the tool's.

**`Pcie_proofs`** is about the package `pcie` and what programs an FPGA behind it:

* `FpgaPcie`: `PcieInv`.  `BusInv`: the bridge is listed whenever anything is.  `HotInv` says for every place of
  `pre_load` and `post_load` what the kernel lists and whether the device found answers, for as long as
  the tool has not been at the bus (`alone`) and no removal has been passed over (`slipped`).  `SmallValues`: up to
  7, a value with the second bit added is one digit, which `setpci` reads as it is.  `KnownInv`: what the tool has cached of a device is true until the
  other process touches that device.  `ToolInv`: it manages what it knows, but in the middle of a loop; `CalmInv`:
  a rescan nobody disturbs still has on its list what it has not looked at.  A step of one
  process keeps the other's part because it is either invisible to it (`Apart`) or noted in the history.
* `MemRegion`: `RegionInv` says after each loop which bytes have been moved (`Moved`, `Bytewise`), which words
  were accessed (`Touch`, `Once`), and that what is left starts at a word (`AtWord`); the lemmas in front are about
  quotients and remainders.  `PointerInv` counts what the pointer reads besides.  Assumed (`AlignedCalls`): transactions start at words, and a call has at least one
  byte.  Without the former it is false (see the [defects](#known-defects)).
* `PciConfig`: the two walks of the capabilities and the one of the BARs are recursive functions, whose tables are proved
  to exist (`Walk`, `Down`).  `ObjectFitsHolds`: the walks agree because each of them finds the capability
  exactly if every set of entries the list does not lead out of has it.  `BarReachedHolds`: from the last register down, the walk
  of the BARs returns the regions of the BARs behind (`Right`), except at the upper half of a 64 bit BAR, where it
  never starts.  Assumed: addresses are numbers.

Induction.  The library's induction rules take an operator as a parameter, which the provers here
cannot instantiate.  Where it is needed, `Least` stands in for it: a set of natural numbers that is not
empty has a least element, which follows from the well-foundedness of `<`.  A statement about every number
is then proved from its least counterexample, and so is that a recursive function has a table of values.

Only model-checked is liveness: `CallReturns`, `Settles`, `ExitNotified`, `OperationEnds` and
`Converges` (of `ConfigMirror` and of `PhyTuning`).  They rest on fairness, and so on `ENABLED`, which is out of this
prover's reach.  Every invariant and action property of the runs is proved.  `RECURSIVE` operators and what
`SelectSeq` returns are out of its reach too; the modules use recursive functions instead.


## Known defects

Found while modelling.  The first is a finding with a run whose counterexample shows it:

* `is_loaded()` raises AttributeError in a restarted daemon whose profile MakoProfile has removed
  (`device.py:1116`): run `image_query`.

The others were met in the code and are either outside a model's scope, part of a model (whose
properties then say what still holds), or excluded by an assumption that is named there.

Images and daemons:

* When the clock load of `unload_image` raises (a failed transfer, or a part number that cannot be read,
  `clock_generator.py:319`, 352), `self.registers = None` (`device.py:1143`) never runs although the request is
  withdrawn: the register file outlives its image.  `RegistersFollowImage` says that this is the only case.
* `load_image` passes no timeout to the clock generator (`device.py:998`), so a dead clock
  chip makes it hang whatever its timeout, and the waits for the chip have no deadline of their own;
  profiles are matched by a substring of the script name (1090), so another application's state
  may be taken; the clock profile `"keep"` is undone by the unload that comes first (997);
  `loadProfile` may raise outside the `try` (1009); of two daemons on one FPGA, the default clock
  that one's `unload_image` loads replaces the clock of the other's image (1142).
* helloworld and nullverilog unload what this process loaded (`HelloWorldExampleDaemon.py:128`): an
  image that an earlier, killed process left survives a clean shutdown if the load loop raised before
  it.  In the model, as in `Released`, only a life in which nothing raised gives everything back.
* A daemon that is killed and disabled before it starts again leaves its images.
* tscore_nomac says "running" before it reads the timestamps (line 97); if a read raises, no timeout
  is ever set.  If no FPGA was found or it was the wrong kind, `on_agent_enabled` raises for
  `fpga = None` (144) and the end of the shutdown is never reported, nor is it when `unload_image`
  raises in any of the daemons, which then still say "running".  An RPC that fails between
  its two status entries leaves timestamps of two triggers.
* `on_timeout` of telemexample raises for an option that is no number, before it sets the next
  timeout (`TelemExampleDaemon.py:122`, 128, 131): the daemon says "running" and never ticks again,
  also when the option is mended.  The `option` command of EOS takes any text.
* `status.clear()` deletes entry by entry (`daemon.py:69`), in any order: a show meanwhile may find "running"
  without the list.  After a kill in the middle this lasts until the next start has cleared the rest.
* telemexample does not clear its status at its start, and shuts down whatever the
  argument of `on_agent_enabled` is (103).
* The configuration example writes an option that is changed after `on_agent_enabled(False)` into
  the cleared status again (`CliExampleDaemon.py:87`).

Child processes:

* `run(input=...)` neither flushes nor closes the child's stdin (`subprocess.py:184`), although its
  docstring promises the arguments of `subprocess.run` (167), so a filter never ends.
* A child that writes more than a pipe holds, or is given more input than that,
  blocks with the daemon; a failed spawn leaves the pipe open (118); a raising handler leaves the
  descriptor open and later handlers untold (151).

Registers:

* The class `RootNode` is shared by the register files of a process (`register_file.py:174`), so with
  different CSV files a compound read may raise AttributeError; a 64 bit register is read in two
  halves, which may be torn.
* `_RegisterBurst.__get__` calls a method that does not exist (`register_burst.py:31`), as does
  `write_block` (`register_accessor.py:165`).  The value of a write is a number by default (33), which raises
  TypeError when it is submitted (`register_accessor.py:131`) and, before that, when any other write is added behind
  it (58); given as a list it works alone, but joined to another write it becomes a list in a list and raises
  (60).  So no burst of joined writes works that is given all values in one form; `BurstAsAsked` says which
  bursts are sent.  `_submit()` does not clear the burst, and nothing calls `_clear()`.
* `MakoRegAccess`: Ctrl-C in the release leaves the lock taken, which the next access heals at the
  cost of a try; Ctrl-C before `grab()` is swallowed and the access tried again.

PCI:

* The walk of the capabilities never ends on a cyclic list (`pci.py:695`, 717); `PCIeRegAccess` keeps
  the region of before a rescan (`register_accessor.py:180`), or has none and raises later;
  `secondary_bus` and the cached access flag are not refreshed by `rescan()` (924, 753); a 32 bit BAR
  without an address is taken for none.
* Enabling memory accesses builds COMMAND from the boolean flag and so changes its other bits (762);
  the fallback of `config_write_setpci` calls `helpers.mask_lower`, which does not exist, its
  range is one short and it does not run its command (876); the fallback of `config_read_setpci`
  drops the capability (851).
* Devices that are no longer there are not purged (128); the last attempt of
  `post_load` leaves the bridge removed.
* `_validate_mmio_access` writes COMMAND in decimal (`device.py:805`), and `setpci` reads hexadecimal: of
  68 (0x44) it makes 70, which is 0x70, and memory accesses stay disabled.  Only values up to 7
  are right, to which `LoadedIsUsable` is restricted; one above 0xff is an exception.
* `_probe_downstream_bus` cuts the bus number off at its first digit above 9 (777), so that a device of
  another bus may be found, and its COMMAND written (`Elsewhere`).
* Where `pre_load` and `pre_clear` find the bridge but fail to read or close its window, or to remove it, the
  exception is passed over (820, 854) and the FPGA is programmed with its devices listed.
  `NoLiveReprogram` says that this is the only way without another process.
* Memory: without `_MemVolatileAccess` a store through the pointer reads the word too (34), and the
  first access that needs the pointer reads word 0 (231): a clear-on-read register may lose its contents to a
  write, or word 0 to any access.  `OncePerWord` says that nothing else is read.
* Memory: with `align=False` a write keeps the wrong part of the last word (376: a
  byte written at 3 changes the byte at 7) and a read goes behind the end; `trxn_size=None` does
  not end, or raises, for an access within one word (337).

Clock, status, tuning:

* The 300 ms delay that a clock profile asks for in a comment
  (`default_lb2_lyrebird_si5345.txt:18`) is skipped by the parser (`clock_generator.py:122`);
  `release()` also runs when `grab()` raised; on EOS select and access are not exclusive; an LMK05318
  file without a register line raises TypeError.
* A status value put at the path of a mapping that is still used drops out of the index when the
  mapping becomes empty (`cli.py:210`), and `clear()` leaves it in Sysdb (`StatusTree` with
  `Careful = FALSE` shows it).
* `_medium()` returns `""` and never None, so the wait at `tuning.py:93` never waits, and
  a copper cable that is identified later stays tuned as fiber; an exception for one
  interface in `on_initialized` leaves those after it unwatched and untuned; a new layer 1 source
  is no event; two processes that set fields of one record at the same time lose one's.


## Not modelled

* Arrays of nodes in register files, the dumps and listings, the bifurcation check and
  `nmi_generation_control`: they read, or nothing calls them.
* The line format and tags of telemetry.
* `__init__.py`, `profiles.py`, `system.py`, `network.py`, `serial.py`, `loghandler.py`, the PCI ids and
  the PCIe shell are tables, names, formatting and single system calls; `clkgen_ctl.py` is deprecated
  and does less than what replaced it.
* The defects above that an assumption excludes (two daemons on one FPGA with different clocks, a
  value and a mapping at one path, `align=False`): no property holds there.
* The build scripts drive Vivado; the VHDL cores are hardware.


## Plan

Done, in this order: `FpgaImage` with `ImageContract`, the core, and its proofs; `SubprocessMgr`;
`StatusTree`; `ConfigMirror`; `PcieHotplug`, then `FpgaPcie` on top; `MemRegion`; `Si5345`;
`LMK05318` and its proofs; `PhyConfig`, then `PhyTuning` on top; `ExampleDaemon`; `RegisterFile`, then
`PciConfig`.  Then the proofs: of `ConfigMirror`, of the lock in `RegisterFile`, of the refinement of
`ImageContract`, of `SubprocessMgr`, `Si5345`, `StatusTree`, of the compounds and bursts of
`RegisterFile`, of `ExampleDaemon`, and of `FpgaPcie`, `MemRegion`, `PciConfig` and `PhyTuning`.

What could follow:

1. What is modelled in part: the arrays of nodes of `register_file.py`, the socket of `telemetry.py`.
2. A load on a board with a PCIe FPGA as one system, `FpgaImage` over `PcieHotplug`: now each has the other's
   calls as a step that is done or fails.
