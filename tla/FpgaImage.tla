----------------------------- MODULE FpgaImage -----------------------------
(***************************************************************************)
(* The life of an FPGA image on EOS: Fpga.load_image, unload_image,        *)
(* profile_state and is_loaded (resources/libapp/device.py), with the wait *)
(* loops of ClockGenerator.load_profile (clock_generator.py) they call.    *)
(*                                                                         *)
(* Apps is the set of application daemons that drive one FPGA, each a      *)
(* process of its own.  External to the library, and modelled from how it  *)
(* is used: MakoProfile (the profile store, the load requests and their    *)
(* status), the SMBus daemon through which the clock chip is reached, and  *)
(* the chip.  Sysdb, hence avail, want and state, outlives a daemon.       *)
(***************************************************************************)
EXTENDS Naturals

CONSTANTS
    Apps,          \* the application daemons (one Fpga object each)
    NoApp,         \* no application
    Match,         \* Match[a]: the apps whose appName contains a's script name
    CustomClocks,  \* the clock profiles of this board besides "default"
    HasClkGen,     \* FALSE: ClockGenerator.noClkGen
    MaxCrashes     \* bound: how often daemons are killed, in all

ASSUME AppsAssumption ==
    /\ NoApp \notin Apps
    /\ Match \in [Apps -> SUBSET Apps]
    /\ \A a \in Apps : a \in Match[a]

ASSUME ClockAssumption ==
    /\ CustomClocks \cap {"default", "keep", "missing", "partial"} = {}
    /\ HasClkGen \in BOOLEAN
    /\ MaxCrashes \in Nat

Clocks == CustomClocks \cup {"default", "keep", "missing"}
Calls  == [clock : Clocks, blocking : BOOLEAN, timed : BOOLEAN, regfile : BOOLEAN]

VARIABLES
    \* the library's state in each daemon process
    pc,       \* where the process is in the call
    after,    \* what follows the clock generator step in progress
    args,     \* the arguments of the load_image call
    told,     \* how the last call ended
    answer,   \* what the last is_loaded() said
    late,     \* time.time() > timeout_time
    key,      \* Fpga._profile_key is set
    fields,   \* Fpga._bitstream, _ipcores... are set
    regs,     \* Fpga.registers is a RegisterFile
    \* external: MakoProfile, the clock chip, the daemons' supervisor
    avail,    \* the apps whose profile is available (created, not removed)
    want,     \* the apps with an entry in profileConfig
    state,    \* profileStatus of that entry
    need,     \* the clock the requested image was built for
    active,   \* the app whose profile is active in the FPGA
    mako,     \* MakoProfile has started
    smbus,    \* the SMBus daemon answers
    clk,      \* the clock chip: its configuration, who writes it, its lock
    crashes   \* daemons killed so far

procVars == <<pc, after, args, told, answer, late, key, fields, regs>>
makoVars == <<avail, want, state, need, active, mako>>
clkVars  == <<smbus, clk>>
vars     == <<procVars, makoVars, clkVars, crashes>>

Steps == {"idle", "withdraw", "sweep", "clkOpen", "clkWrite", "clkWait",
          "create", "request", "poll1", "poll2", "check", "poll3"}
States == {"none", "unknown", "unavailable", "applying", "applied", "failed"}
Results == {"none", "started", "loaded", "unloaded", "timeout", "failed", "badClock",
            "unloadFailed", "rejected"}
NoCall == [clock |-> "default", blocking |-> TRUE, timed |-> FALSE, regfile |-> FALSE]

TypeOK ==
    /\ pc \in [Apps -> Steps]
    /\ after \in [Apps -> {"return", "load", "raise", "create"}]
    /\ args \in [Apps -> Calls]
    /\ told \in [Apps -> Results]
    /\ answer \in [Apps -> {"none", "yes", "no", "error"}]
    /\ late \in [Apps -> BOOLEAN]
    /\ key \in [Apps -> BOOLEAN]
    /\ fields \in [Apps -> BOOLEAN]
    /\ regs \in [Apps -> BOOLEAN]
    /\ avail \in SUBSET Apps
    /\ want \in SUBSET Apps
    /\ state \in [Apps -> States]
    /\ need \in [Apps -> Clocks]
    /\ active \in Apps \cup {NoApp}
    /\ mako \in BOOLEAN
    /\ smbus \in BOOLEAN
    /\ clk \in [profile : Clocks \cup {"partial"}, by : Apps \cup {NoApp}, ready : BOOLEAN]
    /\ crashes \in 0 .. MaxCrashes

Init ==
    /\ pc = [a \in Apps |-> "idle"]
    /\ after = [a \in Apps |-> "return"]
    /\ args = [a \in Apps |-> NoCall]
    /\ told = [a \in Apps |-> "none"]
    /\ answer = [a \in Apps |-> "none"]
    /\ late = [a \in Apps |-> FALSE]
    /\ key = [a \in Apps |-> FALSE]
    /\ fields = [a \in Apps |-> FALSE]
    /\ regs = [a \in Apps |-> FALSE]
    /\ avail = {}
    /\ want = {}
    /\ state = [a \in Apps |-> "none"]
    /\ need = [a \in Apps |-> "default"]
    /\ active = NoApp
    /\ mako = FALSE
    /\ smbus = FALSE
    /\ clk = [profile |-> "default", by |-> NoApp, ready |-> TRUE]
    /\ crashes = 0

Goto(a, step) == pc' = [pc EXCEPT ![a] = step]

\* The call is over; its local state goes with it.
End(a, result) ==
    /\ told' = [told EXCEPT ![a] = result]
    /\ args' = [args EXCEPT ![a] = NoCall]
    /\ late' = [late EXCEPT ![a] = FALSE]
    /\ after' = [after EXCEPT ![a] = "return"]
    /\ Goto(a, "idle")
-----------------------------------------------------------------------------
(* profile_state(): the status of the first entry of profileConfig that    *)
(* _profile_config accepts.  The order of the collection is not specified, *)
(* so it is any of them.                                                   *)

Entries(a) == Match[a] \cap want

Seen(a) == IF Entries(a) = {} THEN {"none"} ELSE {state[b] : b \in Entries(a)}

\* mutant: profile_state() hides nothing
ReportedRaw(s) == s

\* "unknown" and "unavailable" are hidden from the caller (None).
Reported(s) == IF s \in {"unknown", "unavailable"} THEN "none" ELSE s

\* mutant: a profile that was cleaned up stays away
RecreateNever(a, s) == UNCHANGED <<avail, key>>

\* Reading "unavailable" creates the profile again, as a side effect.
Recreate(a, s) ==
    IF s = "unavailable"
    THEN /\ avail' = avail \cup {a}
         /\ key' = [key EXCEPT ![a] = TRUE]
    ELSE UNCHANGED <<avail, key>>
-----------------------------------------------------------------------------
(* The calls a daemon makes from its event handlers.                       *)

\* load_image(): the deadline is computed first, then unload_image() runs.
Load(a) ==
    /\ pc[a] = "idle"
    /\ \E c \in Calls : args' = [args EXCEPT ![a] = c]
    /\ after' = [after EXCEPT ![a] = "load"]
    /\ told' = [told EXCEPT ![a] = "none"]
    /\ answer' = [answer EXCEPT ![a] = "none"]
    /\ Goto(a, "withdraw")
    /\ UNCHANGED <<late, key, fields, regs, makoVars, clkVars, crashes>>

\* unload_image(), as on_agent_enabled(False) calls it.
Unload(a) ==
    /\ pc[a] = "idle"
    /\ after' = [after EXCEPT ![a] = "return"]
    /\ told' = [told EXCEPT ![a] = "none"]
    /\ answer' = [answer EXCEPT ![a] = "none"]
    /\ Goto(a, "withdraw")
    /\ UNCHANGED <<args, late, key, fields, regs, makoVars, clkVars, crashes>>

\* is_loaded().  _profile_create dereferences _ipcores and _bitstream, which
\* are None until this process has called load_image: it raises.
Query(a) ==
    /\ pc[a] = "idle"
    /\ \E s \in Seen(a) :
        IF s = "unavailable" /\ ~fields[a]
        THEN /\ answer' = [answer EXCEPT ![a] = "error"]
             /\ UNCHANGED <<avail, key>>
        ELSE /\ answer' = [answer EXCEPT ![a] = IF Reported(s) = "applied" THEN "yes" ELSE "no"]
             /\ Recreate(a, s)
    /\ UNCHANGED <<pc, after, args, told, late, fields, regs, want, state, need,
                   active, mako, clkVars, crashes>>
-----------------------------------------------------------------------------
(* unload_image()                                                          *)

\* mutant: only the profile is removed, not the request for it
WithdrawNothing(a) ==
    /\ pc[a] = "withdraw"
    /\ Goto(a, "sweep")
    /\ UNCHANGED <<after, args, told, answer, late, key, fields, regs, makoVars, clkVars,
                   crashes>>

\* profile_helper.unloadProfile: the request and its status go.
Withdraw(a) ==
    /\ pc[a] = "withdraw"
    /\ want' = want \ {a}
    /\ state' = [state EXCEPT ![a] = "none"]
    /\ need' = [need EXCEPT ![a] = "default"]
    /\ Goto(a, "sweep")
    /\ UNCHANGED <<after, args, told, answer, late, key, fields, regs, avail,
                   active, mako, clkVars, crashes>>

\* Remove the app's available profiles, but not one MakoProfile still has active.
Sweep(a) ==
    /\ pc[a] = "sweep"
    /\ avail' = IF active = a THEN avail ELSE avail \ {a}
    /\ key' = [key EXCEPT ![a] = FALSE]
    /\ Goto(a, "clkOpen")
    /\ UNCHANGED <<after, args, told, answer, late, fields, regs, want, state, need,
                   active, mako, clkVars, crashes>>

\* mutant: the register file handle survives unload_image()
RegistersKept(a) == regs

\* unload_image() ends with self.registers = None.
RegistersAfter(a) ==
    IF after[a] = "create" THEN regs ELSE [regs EXCEPT ![a] = FALSE]

\* The end of unload_image(), and on to what called it; or the end of the
\* clock step of load_image() itself.
ClockDone(a) ==
    /\ regs' = RegistersAfter(a)
    /\ \/ /\ after[a] = "load"
          /\ after' = [after EXCEPT ![a] = "create"]
          /\ Goto(a, "clkOpen")
          /\ UNCHANGED <<told, args, late>>
       \/ /\ after[a] = "create"
          /\ Goto(a, "create")
          /\ UNCHANGED <<after, told, args, late>>
       \/ /\ after[a] = "return"
          /\ End(a, "unloaded")
       \/ /\ after[a] = "raise"
          /\ End(a, told[a])
-----------------------------------------------------------------------------
(* ClockGenerator.load_profile(): neither wait has a deadline, because     *)
(* load_image and unload_image pass no timeout.                            *)

\* mutant: unload_image() programs the clock the image asked for
TargetOfCall(a) == args[a].clock

Target(a) == IF after[a] = "create" THEN args[a].clock ELSE "default"
Skipped(a) == ~HasClkGen \/ Target(a) = "keep"

ClkSkip(a) ==
    /\ pc[a] = "clkOpen"
    /\ Skipped(a)
    /\ ClockDone(a)
    /\ UNCHANGED <<answer, key, fields, makoVars, clkVars, crashes>>

\* check_profile() says "Null" once the device can be reached.
ClkMissing(a) ==
    /\ pc[a] = "clkOpen"
    /\ ~Skipped(a)
    /\ smbus
    /\ Target(a) = "missing"
    /\ End(a, "badClock")
    /\ UNCHANGED <<answer, key, fields, regs, makoVars, clkVars, crashes>>

\* load_config(): hundreds of register writes, from the first...
ClkBegin(a) ==
    /\ pc[a] = "clkOpen"
    /\ ~Skipped(a)
    /\ smbus
    /\ Target(a) # "missing"
    /\ clk' = [profile |-> "partial", by |-> a, ready |-> FALSE]
    /\ Goto(a, "clkWrite")
    /\ UNCHANGED <<after, args, told, answer, late, key, fields, regs, makoVars, smbus, crashes>>

\* ...to the last.  If another process wrote in between, the chip holds a mix.
ClkEnd(a) ==
    /\ pc[a] = "clkWrite"
    /\ clk' = IF clk.by = a THEN [clk EXCEPT !.profile = Target(a)] ELSE clk
    /\ Goto(a, "clkWait")
    /\ UNCHANGED <<after, args, told, answer, late, key, fields, regs, makoVars, smbus, crashes>>

\* mutant: written is taken for ready
DeviceWritten == clk.profile # "partial"

DeviceReady == clk.ready

ClkReady(a) ==
    /\ pc[a] = "clkWait"
    /\ DeviceReady
    /\ ClockDone(a)
    /\ UNCHANGED <<answer, key, fields, makoVars, clkVars, crashes>>

\* A transfer fails (a part number that cannot be read included, which makes
\* check_profile() say "Null"): load_profile() raises and the chip stays as it is.
\* Out of unload_image() the exception skips registers = None, and takes the place
\* of the one that load_image() was about to raise.
ClkFail(a) ==
    /\ pc[a] \in {"clkOpen", "clkWrite", "clkWait"}
    /\ ~Skipped(a)
    /\ smbus
    /\ End(a, IF after[a] = "create" THEN "badClock" ELSE "unloadFailed")
    /\ UNCHANGED <<answer, key, fields, regs, makoVars, clkVars, crashes>>
-----------------------------------------------------------------------------
(* The rest of load_image()                                                *)

Create(a) ==
    /\ pc[a] = "create"
    /\ fields' = [fields EXCEPT ![a] = TRUE]
    /\ key' = [key EXCEPT ![a] = TRUE]
    /\ avail' = avail \cup {a}
    /\ Goto(a, "request")
    /\ UNCHANGED <<after, args, told, answer, late, regs, want, state, need, active,
                   mako, clkVars, crashes>>

\* The last statement of load_image().
Finish(a, result) ==
    /\ regs' = IF args[a].regfile THEN [regs EXCEPT ![a] = TRUE] ELSE regs
    /\ End(a, result)

\* profile_helper.loadProfile(waitForLoad=False)
Request(a) ==
    /\ pc[a] = "request"
    /\ want' = want \cup {a}
    /\ need' = [need EXCEPT ![a] = args[a].clock]
    /\ IF args[a].blocking
       THEN Goto(a, "poll1") /\ UNCHANGED <<regs, after, args, told, late>>
       ELSE Finish(a, "started")
    /\ UNCHANGED <<answer, key, fields, avail, state, active, mako,
                   clkVars, crashes>>

\* loadProfile raises: it is outside the try block, so nothing is unloaded.
RequestRejected(a) ==
    /\ pc[a] = "request"
    /\ End(a, "rejected")
    /\ UNCHANGED <<answer, key, fields, regs, makoVars, clkVars, crashes>>

\* while self.profile_state() is None ...
Poll1(a) ==
    /\ pc[a] = "poll1"
    /\ \E s \in Seen(a) :
        /\ Recreate(a, s)
        /\ Goto(a, IF Reported(s) = "none" THEN "check" ELSE "poll2")
    /\ UNCHANGED <<after, args, told, answer, late, fields, regs, want, state, need,
                   active, mako, clkVars, crashes>>

\* ... or self.profile_state() == "applying": a second, separate read
Poll2(a) ==
    /\ pc[a] = "poll2"
    /\ \E s \in Seen(a) :
        /\ Recreate(a, s)
        /\ Goto(a, IF Reported(s) = "applying" THEN "check" ELSE "poll3")
    /\ UNCHANGED <<after, args, told, answer, late, fields, regs, want, state, need,
                   active, mako, clkVars, crashes>>

\* mutant: the exception leaves the image requested
RaiseAtOnce(a, result) ==
    /\ told' = [told EXCEPT ![a] = result]
    /\ after' = [after EXCEPT ![a] = "return"]
    /\ Goto(a, "idle")
    /\ UNCHANGED <<avail, key>>

\* An exception in the wait: except Exception: self.unload_image(); raise.  Its
\* message reads profile_state() once more.
Raise(a, result) ==
    /\ \E s \in Seen(a) : Recreate(a, s)
    /\ told' = [told EXCEPT ![a] = result]
    /\ after' = [after EXCEPT ![a] = "raise"]
    /\ Goto(a, "withdraw")

\* time.time() > timeout_time
Expired(a) == late[a]

\* The body of the loop.
Check(a) ==
    /\ pc[a] = "check"
    /\ IF Expired(a)
       THEN Raise(a, "timeout")
       ELSE Goto(a, "poll1") /\ UNCHANGED <<told, after, avail, key>>
    /\ UNCHANGED <<args, answer, late, fields, regs, want, state, need, active, mako,
                   clkVars, crashes>>

\* A third read decides.
Poll3(a) ==
    /\ pc[a] = "poll3"
    /\ \E s \in Seen(a) :
        IF Reported(s) = "applied"
        THEN Finish(a, "loaded") /\ UNCHANGED <<avail, key>>
        ELSE Raise(a, "failed") /\ UNCHANGED <<regs, args, late>>
    /\ UNCHANGED <<answer, fields, want, state, need, active, mako,
                   clkVars, crashes>>
-----------------------------------------------------------------------------
(* The environment                                                         *)

\* The deadline of a load_image call passes.
Tick(a) ==
    /\ pc[a] # "idle"
    /\ after[a] \in {"load", "create"}
    /\ args[a].timed
    /\ ~late[a]
    /\ late' = [late EXCEPT ![a] = TRUE]
    /\ UNCHANGED <<pc, after, args, told, answer, key, fields, regs, makoVars, clkVars,
                   crashes>>

\* ProcMgr kills a daemon (for one that does not yield to its event loop), and
\* starts it again with fresh Fpga objects.
Crash(a) ==
    /\ crashes < MaxCrashes
    /\ crashes' = crashes + 1
    /\ End(a, "none")
    /\ answer' = [answer EXCEPT ![a] = "none"]
    /\ key' = [key EXCEPT ![a] = FALSE]
    /\ fields' = [fields EXCEPT ![a] = FALSE]
    /\ regs' = [regs EXCEPT ![a] = FALSE]
    /\ UNCHANGED <<makoVars, clkVars>>

\* MakoProfile starts after the daemons did, and may clean up their profiles.
MakoStart ==
    /\ ~mako
    /\ mako' = TRUE
    /\ avail' \in {avail, {}}
    /\ UNCHANGED <<procVars, want, state, need, active, clkVars, crashes>>

Busy(b) == active \notin {NoApp, b} \/ \E c \in want \ {b} : state[c] = "applying"

\* MakoProfile takes up a request, or reports what it lacks.
MakoPick(b) ==
    /\ mako
    /\ b \in want
    /\ \/ /\ state[b] = "none"
          /\ state' = [state EXCEPT ![b] = "unknown"]
       \/ /\ state[b] = "unknown"
          /\ b \notin avail
          /\ state' = [state EXCEPT ![b] = "unavailable"]
       \/ /\ state[b] \in {"unknown", "unavailable"}
          /\ b \in avail
          /\ ~Busy(b)
          /\ state' = [state EXCEPT ![b] = "applying"]
    /\ UNCHANGED <<procVars, avail, want, need, active, mako, clkVars, crashes>>

MakoFinish(b) ==
    /\ mako
    /\ b \in want
    /\ state[b] = "applying"
    /\ \/ /\ state' = [state EXCEPT ![b] = "applied"]
          /\ active' = b
       \/ /\ state' = [state EXCEPT ![b] = "failed"]
          /\ active' = NoApp
    /\ UNCHANGED <<procVars, avail, want, need, mako, clkVars, crashes>>

\* MakoProfile clears the FPGA some time after the request was withdrawn.
MakoClear ==
    /\ mako
    /\ active # NoApp
    /\ active \notin want
    /\ active' = NoApp
    /\ UNCHANGED <<procVars, avail, want, state, need, mako, clkVars, crashes>>

SmbusUp ==
    /\ ~smbus
    /\ smbus' = TRUE
    /\ UNCHANGED <<procVars, makoVars, clk, crashes>>

\* The chip's PLL locks on the configuration it was given.
ClkLock ==
    /\ ~clk.ready
    /\ clk.profile # "partial"
    /\ clk' = [clk EXCEPT !.ready = TRUE]
    /\ UNCHANGED <<procVars, makoVars, smbus, crashes>>
-----------------------------------------------------------------------------
\* A process inside a library call runs on: the calls never yield.
Run(a) ==
    \/ Withdraw(a) \/ Sweep(a)
    \/ ClkSkip(a) \/ ClkMissing(a) \/ ClkBegin(a) \/ ClkEnd(a) \/ ClkReady(a)
    \/ Create(a) \/ Request(a) \/ RequestRejected(a)
    \/ Poll1(a) \/ Poll2(a) \/ Check(a) \/ Poll3(a)

\* ... and any of its transfers to the clock chip may fail.
Step(a) == Run(a) \/ ClkFail(a)

Mako == MakoStart \/ MakoClear \/ \E b \in Apps : MakoPick(b) \/ MakoFinish(b)

Next ==
    \/ \E a \in Apps : Load(a) \/ Unload(a) \/ Query(a) \/ Step(a) \/ Tick(a) \/ Crash(a)
    \/ Mako
    \/ SmbusUp
    \/ ClkLock

Spec == Init /\ [][Next]_vars

\* What the library's own code and the passing of time guarantee.
CodeFairness == \A a \in Apps : WF_vars(Run(a)) /\ WF_vars(Tick(a))
\* The clock chip answers and locks in the end.
ChipFairness == WF_vars(SmbusUp) /\ WF_vars(ClkLock)

\* MakoProfile starts, and serves what is asked of it.
MakoFairness == WF_vars(Mako)

CodeSpec == Spec /\ CodeFairness
-----------------------------------------------------------------------------
(* Safety                                                                  *)

Idle(a) == pc[a] = "idle"

\* A register file handle is usable only while the image it belongs to is asked
\* for: no sequence of loads, failures, unloads and restarts leaves
\* Fpga.registers pointing at an FPGA this daemon has given back, but for an
\* unload_image() whose clock load raised between giving it back and the end.
RegistersFollowImage ==
    TypeOK /\ \A a \in Apps :
        regs[a] /\ Idle(a) => a \in want \/ told[a] = "unloadFailed"

\* MakoProfile never holds a request for an image whose clock is not already
\* configured as load_image was told, and locked; also after the daemon that
\* asked was killed, and while its successor is in the middle of a call.
\* (One daemon on this FPGA: the library does not lock the clock chip.)
ClockBeforeImage ==
    HasClkGen => \A a \in want :
        need[a] # "keep" => clk.profile = need[a] /\ clk.ready

\* When a blocking load_image has raised for a timeout or a failed image,
\* nothing of it is left: no request, no profile key, no register file.  Nor does
\* an unload that failed at the clock leave a request or a key.
FailureUndone ==
    \A a \in Apps : Idle(a) /\ told[a] \in {"timeout", "failed", "unloadFailed"} =>
        a \notin want /\ ~key[a] /\ (regs[a] => told[a] = "unloadFailed")

\* A load that failed so, and an unload that ended, leave the clock generator at
\* its default, and locked.
ClockRestored ==
    HasClkGen => \A a \in Apps : Idle(a) /\ told[a] \in {"timeout", "failed", "unloaded"} =>
        clk.profile = "default" /\ clk.ready

\* load_image reports "Failed to program FPGA" only when MakoProfile said so:
\* the three separate reads of profile_state() do not together see a failure
\* that is not there.
FailureIsReal ==
    [][\A a \in Apps : told[a] # "failed" /\ told'[a] = "failed" => state[a] = "failed"]_vars

\* is_loaded() returns an answer, whatever state the daemon finds MakoProfile in.
QueryAnswers == \A a \in Apps : answer[a] # "error"
-----------------------------------------------------------------------------
(* Liveness                                                                *)

Timed(a) == ~Idle(a) /\ args[a].timed /\ after[a] # "return"

\* If the clock chip does its part, a load_image with a timeout ends, it returns or
\* raises TimeoutError, however MakoProfile behaves; and every load_image and
\* unload_image ends if MakoProfile does its part too, where a profile that it
\* cleaned up while booting is recreated.
CallReturns ==
    ChipFairness =>
        /\ \A a \in Apps : Timed(a) ~> Idle(a)
        /\ MakoFairness => \A a \in Apps : ~Idle(a) ~> Idle(a)
-----------------------------------------------------------------------------
(* What the caller may rely on: the abstract specification.                *)

Contract == INSTANCE ImageContract WITH
    slot <- [a \in Apps |->
                IF a \notin want THEN "free"
                ELSE IF state[a] = "applied" THEN "running" ELSE "asked"],
    verdict <- [a \in Apps |->
                IF ~Idle(a) THEN "none"
                ELSE IF told[a] = "loaded" THEN "good"
                ELSE IF told[a] \in {"timeout", "failed"} THEN "bad" ELSE "none"]

\* load_image and unload_image, with all their steps, restarts and MakoProfile's
\* own pace, implement the contract: a good verdict is given and stands only
\* while the image runs, a bad one only when nothing is asked for any more.
ImplementsContract == Contract!Spec
=============================================================================
