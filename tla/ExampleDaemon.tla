--------------------------- MODULE ExampleDaemon ---------------------------
(***************************************************************************)
(* The life of a daemon that runs an image: the example daemons helloworld,*)
(* nullverilog, tscore_nomac and telemexample, and the CLI commands beside *)
(* them.  A handler is the sequence of its steps, code is what is left of  *)
(* the one that runs.  An exception ends the handler and nothing else: the *)
(* event loop swallows it (eossdk_utils.py).                               *)
(*                                                                         *)
(* Loads and unloads of images are taken as ImageContract has them.        *)
(* External: EosSdk, which calls the handlers one at a time; ProcMgr, which*)
(* starts a daemon that is enabled, ends one that has reported the end of  *)
(* its shutdown, and may kill it, as for a handler of more than 30 s.      *)
(***************************************************************************)
EXTENDS Sequences

CONSTANTS
    Fpgas,  \* the FPGAs of the device
    First,  \* the one that get_fpga_devices() has first
    Times,  \* the timestamps there can be
    None    \* no timestamp

ASSUME FirstAssumption == First \in Fpgas

Apps      == {"helloworld", "nullverilog", "tscore", "telemexample"}
Standards == {"bvl", "lb2", "other"}

VARIABLES
    app, board,  \* which daemon this is, and the board standard of each FPGA
    enabled,     \* Sysdb: "no disabled"
    numbers,     \* Sysdb: the options of telemexample are numbers, or not set
    status,      \* Sysdb: the daemon's status, by key
    image,       \* the FPGAs where an image of the application is, or is asked for
    captured,    \* hardware: the timestamp in the registers
    life, code,  \* where the process is
    todo,        \* FPGAs the loop of the handler still has to visit
    loaded,      \* loaded_fpgas; for tscore what fpga refers to
    regs,        \* FPGAs there is a register file for
    timer,       \* EosSdk: a timeout is pending
    told,        \* EosSdk: the value of enabled the daemon knows
    complete,    \* agent_shutdown_complete
    raised,      \* history: a handler of this process has raised
    odd,         \* history: on_timeout() of this process has met an option that is no number
    show,        \* a show command
    calm, partly \* history: nothing is half cleared during it; the status is half cleared

world   == <<app, board, enabled>>
process == <<loaded, regs, timer, told, complete>>
options == <<numbers, odd>>
cli     == <<show, calm, partly>>
vars    == <<world, status, image, captured, life, code, todo, process, raised, options, cli>>

\* The board standards an application has an image for
Wanted == CASE app = "helloworld"   -> {f \in Fpgas : board[f] \in {"bvl", "lb2"}}
            [] app = "nullverilog"  -> {f \in Fpgas : board[f] = "lb2"}
            [] app = "tscore"       -> {f \in {First} : board[f] = "lb2"}
            [] app = "telemexample" -> {}

\* mutant: "running" before the FPGAs are loaded
HelloWorldEager == <<"clear", "fpgas", "running", "load", "names", "last_timeout", "rearm">>
\* mutant: "running" before the names are there
HelloWorldNamesLast == <<"clear", "fpgas", "load", "running", "names", "last_timeout", "rearm">>

\* on_initialized()
HelloWorldInit  == <<"clear", "fpgas", "load", "names", "running", "last_timeout", "rearm">>
NullVerilogInit == <<"clear", "fpgas", "load", "names", "running", "last_timeout", "rearm">>
TsCoreInit      == <<"clear", "pick", "load", "image", "probe", "running", "stamp", "readable",
                     "last_timeout", "rearm">>
TelemInit       == <<"rearm", "running", "period", "send">>

OnInitialized == CASE app = "helloworld"   -> HelloWorldInit
                   [] app = "nullverilog"  -> NullVerilogInit
                   [] app = "tscore"       -> TsCoreInit
                   [] app = "telemexample" -> TelemInit

\* mutant: the end of the shutdown is not reported
ShutDownSilent == <<"never", "unload", "clear">>

\* on_agent_enabled()
ShutDown      == <<"never", "unload", "clear", "complete">>
TelemShutDown == <<"never", "clear", "complete">>

\* on_timeout()
Tick      == <<"last_timeout", "rearm">>
TelemTick == <<"last_timeout", "options", "rearm", "send", "records_sent">>

\* on_agent_option(); on_agent_rpc(), where only the RPC "trigger" does so
Reflect == <<"period", "send">>
Rpc     == <<"trigger", "stamp", "readable">>

Flags == {"image", "running", "period", "last_timeout", "records_sent"}
Risky == {"pick", "names", "probe", "trigger", "stamp", "readable", "send"}

NoStatus == <<>>
Has(key) == key \in DOMAIN status

TypeOK ==
    /\ app \in Apps /\ board \in [Fpgas -> Standards] /\ enabled \in BOOLEAN
    /\ DOMAIN status \subseteq Flags \cup {"fpgas", "raw", "readable"}
    /\ image \subseteq Fpgas /\ captured \in Times \cup {None}
    /\ life \in {"down", "init", "up", "stopping"}
    /\ todo \subseteq Fpgas /\ loaded \subseteq Fpgas /\ regs \subseteq Fpgas
    /\ timer \in BOOLEAN /\ told \in BOOLEAN /\ complete \in BOOLEAN
    /\ raised \in BOOLEAN /\ numbers \in BOOLEAN /\ odd \in BOOLEAN
    /\ calm \in BOOLEAN /\ partly \in BOOLEAN
    /\ show \in [at : {"done", "running", "fpgas"}, running : BOOLEAN, fpgas : SUBSET Fpgas]

NotShown == [at |-> "done", running |-> FALSE, fpgas |-> {}]

Init ==
    /\ app \in Apps /\ board \in [Fpgas -> Standards] /\ enabled = FALSE
    /\ status = NoStatus
    /\ image = {} /\ captured = None
    /\ life = "down" /\ code = <<>> /\ todo = {}
    /\ loaded = {} /\ regs = {}
    /\ timer = FALSE /\ told = FALSE /\ complete = FALSE /\ raised = FALSE
    /\ numbers \in BOOLEAN /\ (app # "telemexample" => numbers) /\ odd = FALSE
    /\ show = NotShown /\ calm = TRUE /\ partly = FALSE
-----------------------------------------------------------------------------
(* The process and its event loop                                          *)

\* A daemon is started, or ends: its memory is gone, Sysdb and FPGAs stay.
Start ==
    /\ life = "down" /\ enabled
    /\ life' = "init" /\ code' = OnInitialized
    /\ told' = TRUE
    /\ UNCHANGED <<world, status, image, captured, todo, loaded, regs, timer, complete, raised,
                   options, cli>>

End ==
    /\ life' = "down" /\ code' = <<>> /\ todo' = {}
    /\ loaded' = {} /\ regs' = {}
    /\ timer' = FALSE /\ told' = FALSE /\ complete' = FALSE
    /\ raised' = FALSE /\ odd' = FALSE
    /\ UNCHANGED <<world, numbers, status, captured, show, partly>>

Doing(step) == code # <<>> /\ Head(code) = step

Stop == complete /\ calm' = FALSE /\ End /\ UNCHANGED image

\* In the middle of a load or unload, that FPGA may be left either way.
Kill ==
    /\ life # "down"
    /\ calm' = FALSE /\ End
    /\ \/ UNCHANGED image
       \/ \E f \in todo : (Doing("load") \/ Doing("unload")) /\ image' \in {image \cup {f}, image \ {f}}

Idle == life \in {"up", "stopping"} /\ code = <<>>

Handle(steps) ==
    /\ Idle
    /\ code' = steps
    /\ UNCHANGED <<world, status, image, captured, raised, odd, cli>>

OnTimeout ==
    /\ timer /\ timer' = FALSE
    /\ Handle(IF app = "telemexample" THEN TelemTick ELSE Tick)
    /\ UNCHANGED <<numbers, life, todo, loaded, regs, told, complete>>

\* telemexample does not look at the value.
OnAgentEnabled ==
    /\ told # enabled /\ ~complete
    /\ told' = enabled
    /\ IF app = "telemexample" THEN Handle(TelemShutDown) /\ life' = "stopping" /\ UNCHANGED todo
       ELSE IF ~enabled THEN Handle(ShutDown) /\ life' = "stopping" /\ todo' = loaded
       ELSE Handle(<<>>) /\ UNCHANGED <<life, todo>>
    /\ UNCHANGED <<numbers, loaded, regs, timer, complete>>

\* The option command of EOS takes any value.
OnAgentOption ==
    /\ app = "telemexample" /\ Handle(Reflect)
    /\ numbers' \in BOOLEAN
    /\ UNCHANGED <<life, todo, process>>

OnAgentRpc ==
    /\ app = "tscore" /\ \E steps \in {Rpc, Tail(Rpc)} : Handle(steps)
    /\ UNCHANGED <<numbers, life, todo, process>>
-----------------------------------------------------------------------------
(* The steps of the handlers                                               *)

\* The handler goes on with what is left of it.
GoOn(left) ==
    /\ code' = left
    /\ life' = IF life = "init" /\ left = <<>> THEN "up" ELSE life

Proceed == GoOn(Tail(code)) /\ UNCHANGED <<world, raised, options>>
Raise   == GoOn(<<>>) /\ todo' = {} /\ raised' = TRUE /\ UNCHANGED <<world, numbers, cli>>

Put(key, value) ==
    status' = [k \in DOMAIN status \cup {key} |-> IF k = key THEN value ELSE status[k]]

Write ==
    /\ \E key \in Flags : Doing(key) /\ Put(key, TRUE)
    /\ Proceed /\ UNCHANGED <<image, captured, todo, process, cli>>

\* status.clear() deletes key by key, in any order; so does telemexample.
Clear ==
    /\ Doing("clear")
    /\ \E key \in DOMAIN status : status' = [k \in DOMAIN status \ {key} |-> status[k]]
    /\ calm' = FALSE /\ partly' = TRUE
    /\ UNCHANGED <<world, raised, options, image, captured, life, code, todo, process, show>>

Cleared ==
    /\ Doing("clear") /\ status = NoStatus
    /\ partly' = FALSE
    /\ Proceed /\ UNCHANGED <<status, image, captured, todo, process, show, calm>>

SetTimer ==
    /\ \E step \in {"rearm", "never"} : Doing(step) /\ timer' = (step = "rearm")
    /\ Proceed /\ UNCHANGED <<status, image, captured, todo, loaded, regs, told, complete, cli>>

Complete ==
    /\ Doing("complete")
    /\ complete' = TRUE
    /\ Proceed /\ UNCHANGED <<status, image, captured, todo, loaded, regs, timer, told, cli>>

\* helloworld and nullverilog take what they have an image for, tscore the first.
Enumerate ==
    /\ Doing("fpgas")
    /\ Put("fpgas", {})
    /\ todo' = Wanted
    /\ Proceed /\ UNCHANGED <<image, captured, process, cli>>

Pick ==
    /\ Doing("pick") /\ First \in Wanted
    /\ todo' = {First} /\ loaded' = {First}
    /\ Proceed /\ UNCHANGED <<status, image, captured, regs, timer, told, complete, cli>>

\* mutant: the list is replaced, not added to
RememberLast(f) == {f}

Remember(f) == loaded \cup {f}

\* load_image(): f runs the image, or the load has been undone and raises.
Load(f) ==
    /\ Doing("load") /\ f \in todo
    /\ image' = image \cup {f}
    /\ loaded' = Remember(f) /\ regs' = regs \cup {f}
    /\ todo' = todo \ {f}
    /\ UNCHANGED <<world, raised, options, status, captured, life, code, timer, told, complete, cli>>

LoadFails(f) ==
    /\ Doing("load") /\ f \in todo
    /\ image' = image \ {f}
    /\ Raise /\ UNCHANGED <<odd, status, captured, process>>

\* RegisterFile() raises, for an FPGA that is in the list already.
NoRegisters(f) ==
    /\ Doing("load") /\ f \in todo
    /\ image' = image \cup {f}
    /\ loaded' = Remember(f)
    /\ Raise /\ UNCHANGED <<odd, status, captured, regs, timer, told, complete>>

\* unload_image(): it may also raise, before or after the image is withdrawn.
Unload(f) ==
    /\ Doing("unload") /\ f \in todo
    /\ image' = image \ {f}
    /\ todo' = todo \ {f}
    /\ UNCHANGED <<world, raised, options, status, captured, life, code, process, cli>>

UnloadFails(f) ==
    /\ Doing("unload") /\ f \in todo
    /\ image' \in {image, image \ {f}}
    /\ Raise /\ UNCHANGED <<odd, status, captured, process>>

\* A loop is over.  tscore has no loop to unload: with no FPGA it raises.
LoopEnds ==
    /\ Doing("load") \/ Doing("unload")
    /\ todo = {} /\ (app = "tscore" => loaded # {})
    /\ Proceed /\ UNCHANGED <<status, image, captured, todo, process, cli>>

NothingToUnload ==
    /\ Doing("unload") /\ app = "tscore" /\ loaded = {}
    /\ Raise /\ UNCHANGED <<odd, status, image, captured, process>>

\* The registers can be read while their image is there.
Answering == regs \subseteq image /\ (app = "tscore" => regs # {})

Names ==
    /\ Doing("names") /\ Answering
    /\ Put("fpgas", regs)
    /\ Proceed /\ UNCHANGED <<image, captured, todo, process, cli>>

Probe ==
    /\ Doing("probe") /\ Answering
    /\ Proceed /\ UNCHANGED <<status, image, captured, todo, process, cli>>

Trigger ==
    /\ Doing("trigger") /\ Answering
    /\ captured' \in Times
    /\ Proceed /\ UNCHANGED <<status, image, todo, process, cli>>

\* The timestamp is read for each of its two forms.
Stamped(step, key) ==
    /\ Doing(step) /\ Answering
    /\ Put(key, captured)
    /\ Proceed /\ UNCHANGED <<image, captured, todo, process, cli>>

ReadStamp == Stamped("stamp", "raw") \/ Stamped("readable", "readable")

\* float() of the options, which raises before the timeout is set again
Options ==
    /\ Doing("options") /\ numbers
    /\ Proceed /\ UNCHANGED <<status, image, captured, todo, process, cli>>

NoNumber ==
    /\ Doing("options") /\ ~numbers
    /\ odd' = TRUE
    /\ Raise /\ UNCHANGED <<status, image, captured, process>>

\* Telemetry.send_metrics(), when ready() says that the socket is there
Send ==
    /\ Doing("send")
    /\ Proceed /\ UNCHANGED <<status, image, captured, todo, process, cli>>

NotReady ==
    /\ Doing("send")
    /\ GoOn(<<>>)
    /\ UNCHANGED <<world, raised, options, status, image, captured, todo, process, cli>>

\* An access, an assertion or a connection fails.
Fails ==
    /\ \E step \in Risky : Doing(step) /\ (step = "pick" => First \notin Wanted)
    /\ Raise /\ UNCHANGED <<odd, status, image, captured, process>>
-----------------------------------------------------------------------------
(* The CLI                                                                 *)

SetEnabled(on) ==
    /\ enabled' = on
    /\ UNCHANGED <<app, board, status, image, captured, life, code, todo, process, raised, options, cli>>

\* While the daemon is down
SetOption ==
    /\ app = "telemexample" /\ life = "down"
    /\ numbers' \in BOOLEAN
    /\ UNCHANGED <<world, status, image, captured, life, code, todo, process, raised, odd, cli>>

Unseen == UNCHANGED <<world, status, image, captured, life, code, todo, process, raised, options, partly>>

\* The base class of the show commands, and the command of helloworld
ShowBegin ==
    /\ show.at = "done"
    /\ show' = [at |-> IF life = "down" THEN "done" ELSE "running", running |-> FALSE, fpgas |-> {}]
    /\ calm' = ~partly
    /\ Unseen

ShowRunning ==
    /\ show.at = "running"
    /\ show' = [at |-> "fpgas", running |-> Has("running"), fpgas |-> show.fpgas]
    /\ UNCHANGED calm /\ Unseen

ShowFpgas ==
    /\ show.at = "fpgas"
    /\ show' = [at |-> "done", running |-> show.running,
                fpgas |-> IF life # "down" /\ Has("fpgas") THEN status["fpgas"] ELSE {}]
    /\ UNCHANGED calm /\ Unseen
-----------------------------------------------------------------------------
Loop == \E f \in todo : Load(f) \/ LoadFails(f) \/ NoRegisters(f) \/ Unload(f) \/ UnloadFails(f)

Step ==
    \/ Start \/ Stop \/ OnTimeout \/ OnAgentEnabled
    \/ Write \/ Clear \/ Cleared \/ SetTimer \/ Complete \/ Enumerate \/ Pick
    \/ Loop \/ LoopEnds \/ NothingToUnload
    \/ Names \/ Probe \/ Trigger \/ ReadStamp \/ Options \/ NoNumber \/ Send \/ NotReady \/ Fails

Command == OnAgentOption \/ SetOption \/ OnAgentRpc \/ \E on \in BOOLEAN : SetEnabled(on)
Show    == ShowBegin \/ ShowRunning \/ ShowFpgas

Next == Step \/ Command \/ Show \/ Kill

\* The event loop and ProcMgr go on, and timeouts do not keep the loop from a notification
\* for ever; users, show commands and kills need not come.
Spec == Init /\ [][Next]_vars /\ WF_vars(Step) /\ SF_vars(OnAgentEnabled)
-----------------------------------------------------------------------------
(* Properties                                                              *)

\* A daemon that reports the end of its shutdown has cleared its status and its timeout,
\* and has given back every FPGA it loaded; if no handler of it has raised, also those
\* that an earlier process, killed at any point, had left with an image.
Released ==
    [][~complete /\ complete' =>
          /\ (status = NoStatus /\ ~timer /\ image \cap loaded = {})'
          /\ ~raised => image' = {}]_vars

\* "running" is in the status only when every FPGA the application has an image for runs
\* it and the daemon ticks.  It has stopped ticking only if tscore has raised after it said so,
\* or if a tick of telemexample has met an option that is no number, which setting the
\* option right does not mend.  The two forms of a timestamp are of one trigger.
Loaded == Wanted \subseteq image /\ Wanted \subseteq regs
Ticks  == timer \/ (app = "tscore" /\ raised) \/ (app = "telemexample" /\ odd)
Agrees == Has("raw") => Has("readable") /\ status["raw"] = status["readable"]

RunningIsReal ==
    /\ TypeOK
    /\ life = "init" /\ ~Doing("clear") /\ app # "telemexample" /\ Has("running") => Loaded
    /\ life = "up" /\ Has("running") => Loaded
    /\ life = "up" /\ Idle /\ Has("running") => Ticks
    /\ life = "up" /\ Idle /\ ~raised => Agrees

\* A show command that says "running" lists all FPGAs, although it reads the status in
\* two steps, unless the daemon ended or cleared an entry of its status meanwhile, or
\* began on a status that was half cleared: by a clear that goes on, or one that was killed.
RunningListsAll ==
    app \in {"helloworld", "nullverilog"} /\ show.at = "done" /\ show.running /\ calm
        => show.fpgas = Wanted

\* When nobody gives a command and the daemon is not killed, it comes to run if it is
\* enabled, and to its end if it is not; only a handler that raised keeps it from that.
Settled ==
    IF enabled THEN raised \/ (life = "up" /\ Has("running") /\ Loaded)
    ELSE life = "down" \/ raised

Settles == <>[][~Command /\ ~Kill]_vars => <>[]Settled
=============================================================================
