------------------------ MODULE ExampleDaemon_proofs ------------------------
(***************************************************************************)
(* For any number of FPGAs, of any board standard, and any commands, kills *)
(* and failures: "running" is real, a show that says it lists every FPGA,  *)
(* and a reported shutdown has given everything back.                      *)
(*                                                                         *)
(* The invariant DaemonInv says at which step of which handler the process *)
(* is, and what holds in front of each step.                               *)
(***************************************************************************)
EXTENDS ExampleDaemon, Integers, TLAPS

\* The step the handler is at, and the one after it
Now  == IF code = <<>> THEN "none" ELSE Head(code)
Then == IF Tail(code) = <<>> THEN "none" ELSE Head(Tail(code))

StepNames == Flags \cup Risky
                 \cup {"options", "clear", "fpgas", "load", "unload", "rearm", "never", "complete"}

\* left is what is left of the handler h when some of its steps have been done.
Rest(h, left) ==
    /\ left \in Seq(StepNames)
    /\ Len(left) <= Len(h)
    /\ \A i \in 1 .. Len(left) : left[i] = h[Len(h) - Len(left) + i]

\* The handlers of a daemon that is up, and the one that ends it
Served  == CASE app = "telemexample" -> {TelemTick, Reflect}
             [] app = "tscore"       -> {Tick, Rpc}
             [] OTHER                -> {Tick}
Closing == IF app = "telemexample" THEN TelemShutDown ELSE ShutDown

HandlerInv ==
    /\ life = "down" => code = <<>>
    /\ life = "init" => code # <<>> /\ Rest(OnInitialized, code)
    /\ life = "up" => \E h \in Served : Rest(h, code)
    /\ life = "stopping" => \E h \in Served \cup {Closing} : Rest(h, code)

\* Which step follows which, in the handlers that can run in the state of the process
HelloFlow(a, b) ==
    \/ a = "clear" /\ b = "fpgas"
    \/ a = "fpgas" /\ b = "load"
    \/ a = "load" /\ b = "names"
    \/ a = "names" /\ b = "running"
    \/ a = "running" /\ b = "last_timeout"
    \/ a = "last_timeout" /\ b = "rearm"
    \/ a = "rearm" /\ b = "none"

TsCoreFlow(a, b) ==
    \/ a = "clear" /\ b = "pick"
    \/ a = "pick" /\ b = "load"
    \/ a = "load" /\ b = "image"
    \/ a = "image" /\ b = "probe"
    \/ a = "probe" /\ b = "running"
    \/ a = "running" /\ b = "stamp"
    \/ a = "stamp" /\ b = "readable"
    \/ a = "readable" /\ b = "last_timeout"
    \/ a = "last_timeout" /\ b = "rearm"
    \/ a = "rearm" /\ b = "none"

TelemFlow(a, b) ==
    \/ a = "rearm" /\ b = "running"
    \/ a = "running" /\ b = "period"
    \/ a = "period" /\ b = "send"
    \/ a = "send" /\ b = "none"

InitFlow(a, b) ==
    /\ app \in {"helloworld", "nullverilog"} => HelloFlow(a, b)
    /\ app = "tscore" => TsCoreFlow(a, b)
    /\ app = "telemexample" => TelemFlow(a, b)

ServeFlow(a, b) ==
    \/ a = "last_timeout" /\ b = "rearm" /\ app # "telemexample"
    \/ a = "rearm" /\ b = "none" /\ app # "telemexample"
    \/ app = "tscore" /\ a = "trigger" /\ b = "stamp"
    \/ app = "tscore" /\ a = "stamp" /\ b = "readable"
    \/ app = "tscore" /\ a = "readable" /\ b = "none"
    \/ app = "telemexample" /\ a = "last_timeout" /\ b = "options"
    \/ app = "telemexample" /\ a = "options" /\ b = "rearm"
    \/ app = "telemexample" /\ a = "rearm" /\ b = "send"
    \/ app = "telemexample" /\ a = "send" /\ b \in {"none", "records_sent"}
    \/ app = "telemexample" /\ a = "records_sent" /\ b = "none"
    \/ app = "telemexample" /\ a = "period" /\ b = "send"

CloseFlow(a, b) ==
    \/ a = "never" /\ b = "unload" /\ app # "telemexample"
    \/ a = "unload" /\ b = "clear" /\ app # "telemexample"
    \/ a = "never" /\ b = "clear" /\ app = "telemexample"
    \/ a = "clear" /\ b = "complete"
    \/ a = "complete" /\ b = "none"

Flow(a, b) ==
    /\ life = "init" => InitFlow(a, b)
    /\ life = "up" => ServeFlow(a, b)
    /\ life = "stopping" => ServeFlow(a, b) \/ CloseFlow(a, b)
-----------------------------------------------------------------------------
(* The steps of a handler                                                  *)

\* What a handler does next is its next step, and the rest of a rest is a rest.
LEMMA RestGoesOn ==
    ASSUME NEW h \in Seq(StepNames), NEW left, Rest(h, left), left # <<>>
    PROVE  /\ Rest(h, Tail(left))
           /\ \E i \in 1 .. Len(h) :
                 /\ Head(left) = h[i]
                 /\ i = Len(h) => Tail(left) = <<>>
                 /\ i < Len(h) => Tail(left) # <<>> /\ Head(Tail(left)) = h[i + 1]
<1>1. left \in Seq(StepNames) /\ Len(left) \in Nat /\ Len(left) # 0 /\ Len(h) \in Nat
  BY DEF Rest
<1>2. Tail(left) \in Seq(StepNames) /\ Len(Tail(left)) = Len(left) - 1
  BY <1>1
<1>3. \A i \in 1 .. Len(left) - 1 : Tail(left)[i] = left[i + 1]
  BY <1>1
<1>4. Rest(h, Tail(left))
  BY <1>1, <1>2, <1>3 DEF Rest
<1>5. DEFINE i == Len(h) - Len(left) + 1
<1>6. i \in 1 .. Len(h) /\ Head(left) = h[i]
  BY <1>1 DEF Rest
<1>7. i = Len(h) => Tail(left) = <<>>
  BY <1>1, <1>2
<1>8. ASSUME i < Len(h) PROVE Tail(left) # <<>> /\ Head(Tail(left)) = h[i + 1]
  <2>1. Len(left) >= 2
    BY <1>1, <1>8
  <2>2. Tail(left) # <<>> /\ Head(Tail(left)) = left[2]
    BY <1>1, <1>2, <1>3, <2>1
  <2>3. left[2] = h[Len(h) - Len(left) + 2]
    BY <1>1, <2>1 DEF Rest
  <2> QED
    BY <1>1, <2>2, <2>3
<1> QED
  BY <1>4, <1>6, <1>7, <1>8

\* A handler that has not begun is the rest of itself; nothing is the rest of any.
LEMMA RestEnds ==
    ASSUME NEW h \in Seq(StepNames)
    PROVE  Rest(h, h) /\ Rest(h, <<>>)
  BY DEF Rest

\* The handlers are sequences of steps.
LEMMA HandlersAreSteps ==
    /\ HelloWorldInit \in Seq(StepNames) /\ NullVerilogInit \in Seq(StepNames)
    /\ TsCoreInit \in Seq(StepNames) /\ TelemInit \in Seq(StepNames)
    /\ ShutDown \in Seq(StepNames) /\ TelemShutDown \in Seq(StepNames)
    /\ Tick \in Seq(StepNames) /\ TelemTick \in Seq(StepNames)
    /\ Reflect \in Seq(StepNames) /\ Rpc \in Seq(StepNames)
<1> USE DEF StepNames, Flags, Risky
<1>1. HelloWorldInit \in Seq(StepNames)
  BY DEF HelloWorldInit
<1>2. NullVerilogInit \in Seq(StepNames)
  BY DEF NullVerilogInit
<1>3. TsCoreInit \in Seq(StepNames)
  BY DEF TsCoreInit
<1>4. TelemInit \in Seq(StepNames)
  BY DEF TelemInit
<1>5. ShutDown \in Seq(StepNames)
  BY DEF ShutDown
<1>6. TelemShutDown \in Seq(StepNames)
  BY DEF TelemShutDown
<1>7. Tick \in Seq(StepNames)
  BY DEF Tick
<1>8. TelemTick \in Seq(StepNames)
  BY DEF TelemTick
<1>9. Reflect \in Seq(StepNames)
  BY DEF Reflect
<1>10. Rpc \in Seq(StepNames)
  BY DEF Rpc
<1> QED
  BY <1>1, <1>2, <1>3, <1>4, <1>5, <1>6, <1>7, <1>8, <1>9, <1>10

\* on_initialized() of helloworld and of nullverilog, step by step
LEMMA HelloSteps ==
    ASSUME NEW h \in {HelloWorldInit, NullVerilogInit}, Rest(h, code), code # <<>>
    PROVE  HelloFlow(Now, Then)
<1>1. PICK i \in 1 .. Len(h) :
          /\ Head(code) = h[i]
          /\ i = Len(h) => Tail(code) = <<>>
          /\ i < Len(h) => Tail(code) # <<>> /\ Head(Tail(code)) = h[i + 1]
  BY RestGoesOn, HandlersAreSteps
<1>2. /\ Now = h[i]
      /\ i = Len(h) => Then = "none"
      /\ i < Len(h) => Then = h[i + 1]
  BY <1>1 DEF Now, Then
<1>3. h = <<"clear", "fpgas", "load", "names", "running", "last_timeout", "rearm">>
  BY DEF HelloWorldInit, NullVerilogInit
<1> HIDE DEF Now, Then
<1> QED
  BY <1>2, <1>3 DEF HelloFlow

\* on_initialized() of tscore_nomac
LEMMA TsCoreSteps ==
    ASSUME Rest(TsCoreInit, code), code # <<>>
    PROVE  TsCoreFlow(Now, Then)
<1>1. PICK i \in 1 .. Len(TsCoreInit) :
          /\ Head(code) = TsCoreInit[i]
          /\ i = Len(TsCoreInit) => Tail(code) = <<>>
          /\ i < Len(TsCoreInit) => Tail(code) # <<>> /\ Head(Tail(code)) = TsCoreInit[i + 1]
  BY RestGoesOn, HandlersAreSteps
<1>2. /\ Now = TsCoreInit[i]
      /\ i = Len(TsCoreInit) => Then = "none"
      /\ i < Len(TsCoreInit) => Then = TsCoreInit[i + 1]
  BY <1>1 DEF Now, Then
<1> QED
  BY <1>2 DEF TsCoreFlow, TsCoreInit

\* on_initialized() of telemexample
LEMMA TelemSteps ==
    ASSUME Rest(TelemInit, code), code # <<>>
    PROVE  TelemFlow(Now, Then)
<1>1. PICK i \in 1 .. Len(TelemInit) :
          /\ Head(code) = TelemInit[i]
          /\ i = Len(TelemInit) => Tail(code) = <<>>
          /\ i < Len(TelemInit) => Tail(code) # <<>> /\ Head(Tail(code)) = TelemInit[i + 1]
  BY RestGoesOn, HandlersAreSteps
<1>2. /\ Now = TelemInit[i]
      /\ i = Len(TelemInit) => Then = "none"
      /\ i < Len(TelemInit) => Then = TelemInit[i + 1]
  BY <1>1 DEF Now, Then
<1> QED
  BY <1>2 DEF TelemFlow, TelemInit

\* The handlers of timeouts, options and RPCs
LEMMA ServedSteps ==
    ASSUME NEW h \in Served, Rest(h, code), code # <<>>
    PROVE  ServeFlow(Now, Then) /\ Rest(h, Tail(code))
<1>1. h \in Seq(StepNames)
  BY HandlersAreSteps DEF Served
<1>2. PICK i \in 1 .. Len(h) :
          /\ Head(code) = h[i]
          /\ i = Len(h) => Tail(code) = <<>>
          /\ i < Len(h) => Tail(code) # <<>> /\ Head(Tail(code)) = h[i + 1]
  BY RestGoesOn, <1>1
<1>3. /\ Now = h[i]
      /\ i = Len(h) => Then = "none"
      /\ i < Len(h) => Then = h[i + 1]
  BY <1>2 DEF Now, Then
<1>4. Rest(h, Tail(code))
  BY RestGoesOn, <1>1
<1>5. CASE h = Tick /\ app # "telemexample"
  BY <1>3, <1>4, <1>5 DEF ServeFlow, Tick
<1>6. CASE h = Rpc /\ app = "tscore"
  BY <1>3, <1>4, <1>6 DEF ServeFlow, Rpc
<1>7. CASE h = TelemTick /\ app = "telemexample"
  BY <1>3, <1>4, <1>7 DEF ServeFlow, TelemTick
<1>8. CASE h = Reflect /\ app = "telemexample"
  BY <1>3, <1>4, <1>8 DEF ServeFlow, Reflect
<1>9. \/ h = Tick /\ app # "telemexample"
      \/ h = Rpc /\ app = "tscore"
      \/ h \in {TelemTick, Reflect} /\ app = "telemexample"
  BY DEF Served
<1> QED
  BY <1>5, <1>6, <1>7, <1>8, <1>9

\* on_agent_enabled()
LEMMA ClosingSteps ==
    ASSUME Rest(Closing, code), code # <<>>
    PROVE  CloseFlow(Now, Then) /\ Rest(Closing, Tail(code))
<1>1. Closing \in Seq(StepNames)
  BY HandlersAreSteps DEF Closing
<1>2. PICK i \in 1 .. Len(Closing) :
          /\ Head(code) = Closing[i]
          /\ i = Len(Closing) => Tail(code) = <<>>
          /\ i < Len(Closing) => Tail(code) # <<>> /\ Head(Tail(code)) = Closing[i + 1]
  BY RestGoesOn, <1>1
<1>3. /\ Now = Closing[i]
      /\ i = Len(Closing) => Then = "none"
      /\ i < Len(Closing) => Then = Closing[i + 1]
  BY <1>2 DEF Now, Then
<1>4. Rest(Closing, Tail(code))
  BY RestGoesOn, <1>1
<1>5. CASE app = "telemexample"
  <2>1. Closing = <<"never", "clear", "complete">>
    BY <1>5 DEF Closing, TelemShutDown
  <2> QED
    BY <1>3, <1>4, <1>5, <2>1 DEF CloseFlow
<1>6. CASE app # "telemexample"
  <2>1. Closing = <<"never", "unload", "clear", "complete">>
    BY <1>6 DEF Closing, ShutDown
  <2> QED
    BY <1>3, <1>4, <1>6, <2>1 DEF CloseFlow
<1> QED
  BY <1>5, <1>6

\* At each step the process is at, that step and the next one are of a handler that can run.
LEMMA Flows ==
    ASSUME HandlerInv, app \in Apps, code # <<>>
    PROVE  Flow(Now, Then)
<1>1. ASSUME life = "init" PROVE InitFlow(Now, Then)
  <2>1. Rest(OnInitialized, code)
    BY <1>1 DEF HandlerInv
  <2>2. CASE app = "helloworld"
    <3>1. Rest(HelloWorldInit, code)
      BY <2>1, <2>2 DEF OnInitialized
    <3> QED
      BY <2>2, <3>1, HelloSteps DEF InitFlow
  <2>3. CASE app = "nullverilog"
    <3>1. Rest(NullVerilogInit, code)
      BY <2>1, <2>3 DEF OnInitialized
    <3> QED
      BY <2>3, <3>1, HelloSteps DEF InitFlow
  <2>4. CASE app = "tscore"
    <3>1. Rest(TsCoreInit, code)
      BY <2>1, <2>4 DEF OnInitialized
    <3> QED
      BY <2>4, <3>1, TsCoreSteps DEF InitFlow
  <2>5. CASE app = "telemexample"
    <3>1. Rest(TelemInit, code)
      BY <2>1, <2>5 DEF OnInitialized
    <3> QED
      BY <2>5, <3>1, TelemSteps DEF InitFlow
  <2> QED
    BY <2>2, <2>3, <2>4, <2>5 DEF Apps
<1>2. ASSUME life = "up" PROVE ServeFlow(Now, Then)
  BY <1>2, ServedSteps DEF HandlerInv
<1>3. ASSUME life = "stopping" PROVE ServeFlow(Now, Then) \/ CloseFlow(Now, Then)
  BY <1>3, ServedSteps, ClosingSteps DEF HandlerInv
<1> QED
  BY <1>1, <1>2, <1>3 DEF Flow

\* A handler that goes on, or that ends before its end, is still at a step of its own.
LEMMA GoesOn ==
    ASSUME HandlerInv, app \in Apps, code # <<>>, life \in {"init", "up", "stopping"},
           UNCHANGED app, NEW left \in {Tail(code), <<>>}, GoOn(left)
    PROVE  /\ HandlerInv'
           /\ left = Tail(code) => Now' = Then
           /\ left = <<>> => Now' = "none"
           /\ life' = IF life = "init" /\ Now' = "none" THEN "up" ELSE life
<1>1. /\ code' = left /\ app' = app
      /\ life' = IF life = "init" /\ left = <<>> THEN "up" ELSE life
  BY DEF GoOn
<1>2. /\ left = Tail(code) => Now' = Then
      /\ left = <<>> => Now' = "none"
  BY <1>1 DEF Now, Then
<1>3. left \in Seq(StepNames) /\ (left # <<>> => Now' # "none")
  <2>1. code \in Seq(StepNames)
    BY DEF HandlerInv, Rest
  <2>2. left \in Seq(StepNames)
    <3>1. Tail(code) \in Seq(StepNames) /\ <<>> \in Seq(StepNames)
      BY <2>1
    <3> QED
      BY <3>1
  <2>3. left # <<>> => Head(left) \in StepNames
    BY <2>2
  <2> QED
    BY <1>1, <2>2, <2>3 DEF Now, StepNames, Flags, Risky
<1>4. life' = IF life = "init" /\ Now' = "none" THEN "up" ELSE life
  BY <1>1, <1>2, <1>3
<1>5. /\ Served' = Served /\ Closing' = Closing /\ OnInitialized' = OnInitialized
      /\ \A h : Rest(h, left) => Rest(h, code')
  BY <1>1 DEF Served, Closing, OnInitialized
<1>6. \A h \in Served \cup {Closing, OnInitialized} : h \in Seq(StepNames)
  BY HandlersAreSteps DEF Served, Closing, OnInitialized, Apps
<1>7. \A h \in Served \cup {Closing, OnInitialized} : Rest(h, code) => Rest(h, code')
  BY <1>5, <1>6, RestGoesOn, RestEnds
<1>8. HandlerInv'
  <2>1. CASE life = "init" /\ left # <<>>
    BY <1>1, <1>5, <1>7, <2>1 DEF HandlerInv
  <2>2. CASE life = "init" /\ left = <<>>
    <3>1. \E h \in Served : Rest(h, code')
      BY <1>1, <1>6, <2>2, RestEnds DEF Served
    <3> QED
      BY <1>1, <1>5, <2>2, <3>1 DEF HandlerInv
  <2>3. CASE life \in {"up", "stopping"}
    BY <1>1, <1>5, <1>7, <2>3 DEF HandlerInv
  <2> QED
    BY <2>1, <2>2, <2>3
<1> QED
  BY <1>2, <1>4, <1>8
-----------------------------------------------------------------------------
(* The invariant                                                           *)

\* "fpgas" in the status has every FPGA, and what is listed never more than there are.
Listed == Has("fpgas") /\ status["fpgas"] = Wanted

BoundsInv ==
    /\ image \subseteq Wanted /\ todo \subseteq Wanted
    /\ loaded \subseteq Wanted /\ regs \subseteq Wanted

StatusInv ==
    /\ Has("fpgas") => status["fpgas"] \subseteq Fpgas
    /\ app \in {"helloworld", "nullverilog"} /\ ~partly /\ Has("running") => Listed
    /\ app # "tscore" => ~Has("raw")

\* The steps of on_initialized() up to the one that says "running", and those that find
\* every FPGA loaded
Early == {"fpgas", "pick", "load", "image", "names", "probe", "running"}
Late  == {"image", "names", "probe", "running", "stamp", "readable", "last_timeout", "rearm"}

InitInv == life = "init" =>
    /\ app # "telemexample" /\ Now \in Early => ~Has("running")
    /\ app # "telemexample" /\ Now \in Late => Loaded /\ Wanted \subseteq loaded
    /\ app = "telemexample" /\ Now # "rearm" => timer
    /\ Now = "load" => Wanted \ todo \subseteq (image \cap regs) \cap loaded
    /\ Now = "running" /\ app \in {"helloworld", "nullverilog"} => Listed

\* Between the entries for the two forms of a timestamp the second is still to come.
StampInv == life \in {"init", "up"} /\ ~raised /\ Now # "clear" =>
    /\ Now = "readable" => Has("raw") /\ status["raw"] = captured
    /\ Now # "readable" => Agrees

UpInv == life = "up" =>
    /\ Has("running") => Loaded
    /\ Has("running") /\ Now \notin {"last_timeout", "options", "rearm"} => Ticks

StopInv ==
    /\ life \in {"up", "stopping"} /\ ~raised => Wanted \subseteq loaded
    /\ life = "stopping" =>
          /\ Now = "never" => todo = loaded
          /\ Now = "unload" => ~timer /\ (loaded \ todo) \cap image = {}
          /\ Now \in {"clear", "complete"} => ~timer /\ loaded \cap image = {}
          /\ Now = "complete" => status = NoStatus

ShowInv ==
    /\ show.at # "done" /\ calm => life # "down" /\ ~partly
    /\ show.at = "fpgas" /\ show.running /\ calm => Has("running")
    /\ RunningListsAll

DaemonInv ==
    /\ TypeOK /\ HandlerInv /\ BoundsInv /\ StatusInv
    /\ InitInv /\ StampInv /\ UpInv /\ StopInv /\ ShowInv

\* An entry of the status is put, and the others stay.
LEMMA PutFacts ==
    ASSUME NEW key, NEW value, Put(key, value)
    PROVE  /\ DOMAIN status' = DOMAIN status \cup {key}
           /\ status'[key] = value
           /\ \A k \in DOMAIN status : k # key => status'[k] = status[k]
  BY DEF Put

\* The FPGAs an application wants are FPGAs; telemexample wants none.
LEMMA WantedFacts ==
    /\ Wanted \subseteq Fpgas \/ app \notin Apps
    /\ app = "telemexample" => Wanted = {}
    /\ app = "tscore" => Wanted \subseteq {First}
  BY FirstAssumption DEF Wanted, Apps

\* The invariant holds before the daemon starts.
LEMMA InitDaemon == Init => DaemonInv
<1> SUFFICES ASSUME Init PROVE DaemonInv
  OBVIOUS
<1>1. TypeOK
  <2>1. show \in [at : {"done", "running", "fpgas"}, running : BOOLEAN, fpgas : SUBSET Fpgas]
    BY Zenon DEF Init, NotShown
  <2>2. DOMAIN status = {}
    BY DEF Init, NoStatus
  <2> QED
    BY <2>1, <2>2 DEF Init, TypeOK
<1>2. HandlerInv /\ BoundsInv
  BY DEF Init, HandlerInv, BoundsInv
<1>3. ~Has("running") /\ ~Has("raw") /\ ~Has("fpgas")
  BY DEF Init, Has, NoStatus
<1>4. StatusInv /\ InitInv /\ StampInv /\ UpInv /\ StopInv
  BY <1>3 DEF Init, StatusInv, InitInv, StampInv, UpInv, StopInv
<1>5. ShowInv
  BY DEF Init, NotShown, ShowInv, RunningListsAll
<1> QED
  BY <1>1, <1>2, <1>4, <1>5 DEF DaemonInv
-----------------------------------------------------------------------------
(* A step of a handler                                                     *)

\* When a handler goes on, it was at the step it did and is at one that may follow.
LEMMA Proceeds ==
    ASSUME DaemonInv, NEW step, Doing(step), Proceed
    PROVE  /\ Now = step /\ HandlerInv' /\ Flow(step, Now')
           /\ life \in {"init", "up", "stopping"}
           /\ life' = IF life = "init" /\ Now' = "none" THEN "up" ELSE life
           /\ app' = app /\ board' = board /\ enabled' = enabled /\ raised' = raised
      /\ numbers' = numbers /\ odd' = odd
           /\ Wanted' = Wanted /\ app \in Apps
<1>1. HandlerInv /\ app \in Apps /\ life \in {"down", "init", "up", "stopping"}
  BY DEF DaemonInv, TypeOK
<1>2. code # <<>> /\ Now = step /\ GoOn(Tail(code))
  BY DEF Doing, Now, Proceed
<1>3. life \in {"init", "up", "stopping"}
  BY <1>1, <1>2 DEF HandlerInv
<1>4. /\ app' = app /\ board' = board /\ enabled' = enabled /\ raised' = raised
      /\ numbers' = numbers /\ odd' = odd
  BY DEF Proceed, world, options
<1>5. Wanted' = Wanted
  BY <1>4 DEF Wanted
<1> QED
  BY <1>1, <1>2, <1>3, <1>4, <1>5, Flows, GoesOn

\* When a handler raises, it was at a step of its own, and the process is up if it was
\* coming up.
LEMMA Raises ==
    ASSUME DaemonInv, NEW step, Doing(step), Raise
    PROVE  /\ Now = step /\ HandlerInv' /\ Now' = "none"
           /\ \E b : Flow(step, b)
           /\ life \in {"init", "up", "stopping"}
           /\ life' = IF life = "init" THEN "up" ELSE life
           /\ app' = app /\ board' = board /\ enabled' = enabled /\ raised' = TRUE /\ numbers' = numbers
           /\ show' = show /\ calm' = calm /\ partly' = partly /\ todo' = {}
           /\ Wanted' = Wanted /\ app \in Apps
<1>1. HandlerInv /\ app \in Apps /\ life \in {"down", "init", "up", "stopping"}
  BY DEF DaemonInv, TypeOK
<1>2. code # <<>> /\ Now = step /\ GoOn(<<>>)
  BY DEF Doing, Now, Raise
<1>3. life \in {"init", "up", "stopping"}
  BY <1>1, <1>2 DEF HandlerInv
<1>4. /\ app' = app /\ board' = board /\ enabled' = enabled /\ raised' = TRUE /\ numbers' = numbers
      /\ show' = show /\ calm' = calm /\ partly' = partly /\ todo' = {}
  BY DEF Raise, world, cli
<1>5. Wanted' = Wanted
  BY <1>4 DEF Wanted
<1>6. Flow(step, Then)
  BY <1>1, <1>2, Flows
<1> QED
  BY <1>1, <1>2, <1>3, <1>4, <1>5, <1>6, GoesOn

\* Steps that change nothing but the place: the registers are read, the options, and metrics sent
LEMMA ProbeKeeps == DaemonInv /\ (Probe \/ Options \/ Send) => DaemonInv'
<1> SUFFICES ASSUME DaemonInv, NEW step \in {"probe", "options", "send"}, Doing(step), Proceed,
                    UNCHANGED <<status, image, captured, todo, process, cli>>
             PROVE  DaemonInv'
  BY DEF Probe, Options, Send
<1>1. /\ Now = step /\ HandlerInv' /\ Flow(step, Now')
      /\ life \in {"init", "up", "stopping"}
      /\ life' = IF life = "init" /\ Now' = "none" THEN "up" ELSE life
      /\ app' = app /\ board' = board /\ enabled' = enabled /\ raised' = raised
      /\ numbers' = numbers /\ odd' = odd
      /\ Wanted' = Wanted /\ app \in Apps
  BY Proceeds
<1>2. /\ status' = status /\ image' = image /\ captured' = captured /\ todo' = todo
      /\ loaded' = loaded /\ regs' = regs /\ timer' = timer /\ told' = told
      /\ complete' = complete /\ show' = show /\ calm' = calm /\ partly' = partly
  BY DEF process, cli
<1>3. TypeOK'
  BY <1>1, <1>2 DEF DaemonInv, TypeOK
<1>4. BoundsInv' /\ StatusInv'
  BY <1>1, <1>2 DEF DaemonInv, BoundsInv, StatusInv, Has, Listed
<1>5. ShowInv'
  BY <1>1, <1>2 DEF DaemonInv, ShowInv, Has, RunningListsAll
<1>6. \/ step = "probe" /\ life = "init" /\ app = "tscore" /\ Now' = "running"
      \/ step = "options" /\ life # "init" /\ app = "telemexample" /\ Now' = "rearm"
      \/ step = "send" /\ app = "telemexample" /\ Now' \in {"none", "records_sent"}
  BY <1>1 DEF Flow, InitFlow, HelloFlow, TsCoreFlow, TelemFlow, ServeFlow, CloseFlow, Apps
<1>7. InitInv'
  BY <1>1, <1>2, <1>6, WantedFacts DEF DaemonInv, InitInv, Early, Late, Loaded, Listed, Has
<1>8. StampInv'
  BY <1>1, <1>2, <1>6 DEF DaemonInv, StampInv, Agrees, Has
<1>9. UpInv'
  BY <1>1, <1>2, <1>6, WantedFacts DEF DaemonInv, InitInv, UpInv, Early, Late, Loaded, Ticks, Has
<1>10. StopInv'
  BY <1>1, <1>2, <1>6, WantedFacts DEF DaemonInv, InitInv, StopInv, Early, Late
<1> QED
  BY <1>1, <1>3, <1>4, <1>5, <1>6, <1>7, <1>7, <1>8, <1>9, <1>10 DEF DaemonInv

\* An entry of the status that says how the daemon does
LEMMA WriteKeeps == DaemonInv /\ Write => DaemonInv'
<1> SUFFICES ASSUME DaemonInv, NEW key \in Flags, Doing(key), Put(key, TRUE), Proceed,
                    UNCHANGED <<image, captured, todo, process, cli>>
             PROVE  DaemonInv'
  BY DEF Write
<1>1. /\ Now = key /\ HandlerInv' /\ Flow(key, Now')
      /\ life \in {"init", "up", "stopping"}
      /\ life' = IF life = "init" /\ Now' = "none" THEN "up" ELSE life
      /\ app' = app /\ board' = board /\ enabled' = enabled /\ raised' = raised
      /\ numbers' = numbers /\ odd' = odd
      /\ Wanted' = Wanted /\ app \in Apps
  BY Proceeds
<1>2. /\ image' = image /\ captured' = captured /\ todo' = todo /\ loaded' = loaded
      /\ regs' = regs /\ timer' = timer /\ told' = told /\ complete' = complete
      /\ show' = show /\ calm' = calm /\ partly' = partly
  BY DEF process, cli
<1>3. /\ key = "running" => life = "init" /\ Now' \in {"last_timeout", "stamp", "period"}
      /\ key = "last_timeout" => Now' \in {"options", "rearm"}
      /\ key = "image" => life = "init" /\ app = "tscore" /\ Now' = "probe"
      /\ key = "period" => Now' = "send" /\ app = "telemexample"
      /\ key = "records_sent" => Now' = "none" /\ app = "telemexample" /\ life # "init"
      /\ key = "running" /\ Now' = "last_timeout" => app \in {"helloworld", "nullverilog"}
      /\ key = "running" /\ Now' = "stamp" => app = "tscore"
      /\ key = "running" /\ Now' = "period" => app = "telemexample"
  BY <1>1 DEF Flow, InitFlow, HelloFlow, TsCoreFlow, TelemFlow, ServeFlow, CloseFlow, Apps, Flags
<1>4. /\ DOMAIN status' = DOMAIN status \cup {key} /\ status'[key] = TRUE
      /\ \A k : Has(k)' <=> Has(k) \/ k = key
      /\ \A k : Has(k) /\ k # key => status'[k] = status[k]
  BY PutFacts DEF Has
<1>5. key \in {"image", "running", "period", "last_timeout", "records_sent"}
  BY DEF Flags
<1>6. TypeOK'
  BY <1>1, <1>2, <1>3, <1>4, <1>5 DEF DaemonInv, TypeOK, Flags
<1>7. BoundsInv' /\ StatusInv'
  BY <1>1, <1>2, <1>3, <1>4, <1>5, WantedFacts DEF DaemonInv, TypeOK, BoundsInv, StatusInv, InitInv,
     Early, Has, Listed
<1>8. ShowInv'
  BY <1>1, <1>2, <1>3, <1>4, <1>5 DEF DaemonInv, ShowInv, Has, RunningListsAll
<1>9. InitInv'
  BY <1>1, <1>2, <1>3, <1>4, <1>5, WantedFacts DEF DaemonInv, InitInv, Early, Late, Loaded, Listed,
     Has
<1>10. StampInv'
  BY <1>1, <1>2, <1>3, <1>4, <1>5 DEF DaemonInv, StampInv, StatusInv, Agrees, Has
<1>11. UpInv'
  BY <1>1, <1>2, <1>3, <1>4, <1>5, WantedFacts DEF DaemonInv, InitInv, UpInv, Early, Late, Loaded,
     Ticks, Has
<1>12. StopInv'
  BY <1>1, <1>2, <1>3, <1>4, <1>5, WantedFacts DEF DaemonInv, InitInv, StopInv, Early, Late
<1> QED
  BY <1>1, <1>6, <1>7, <1>8, <1>9, <1>10, <1>11, <1>12 DEF DaemonInv

\* One entry of the status is deleted.
LEMMA ClearKeeps == DaemonInv /\ Clear => DaemonInv'
<1> SUFFICES ASSUME DaemonInv, Clear PROVE DaemonInv'
  OBVIOUS
<1> USE DEF Clear
<1>1. /\ image' = image /\ captured' = captured /\ todo' = todo /\ loaded' = loaded
      /\ regs' = regs /\ timer' = timer /\ told' = told /\ complete' = complete
      /\ show' = show /\ calm' = FALSE /\ partly' = TRUE
      /\ app' = app /\ board' = board /\ enabled' = enabled /\ raised' = raised
      /\ numbers' = numbers /\ odd' = odd /\ life' = life /\ code' = code
      /\ Wanted' = Wanted /\ Now' = Now /\ app \in Apps
  BY DEF process, world, options, Wanted, Now, DaemonInv, TypeOK
<1>2. Now = "clear" /\ code # <<>> /\ HandlerInv
  BY DEF Doing, Now, DaemonInv
<1>3. HandlerInv'
  BY <1>1, <1>2 DEF HandlerInv, Served, Closing, OnInitialized
<1>4. life \in {"init", "stopping"}
  <2>1. life \in {"init", "up", "stopping"} /\ Flow("clear", Then)
    BY <1>1, <1>2, Flows DEF DaemonInv, TypeOK, HandlerInv
  <2> QED
    BY <2>1 DEF Flow, ServeFlow
<1>5. /\ DOMAIN status' \subseteq DOMAIN status
      /\ \A k : Has(k)' => Has(k) /\ status'[k] = status[k]
  <2>1. PICK key \in DOMAIN status : status' = [k \in DOMAIN status \ {key} |-> status[k]]
    OBVIOUS
  <2> QED
    BY <2>1 DEF Has
<1>6. TypeOK'
  BY <1>1, <1>5 DEF DaemonInv, TypeOK
<1>7. BoundsInv' /\ StatusInv'
  BY <1>1, <1>5 DEF DaemonInv, BoundsInv, StatusInv
<1>8. ShowInv'
  BY <1>1 DEF DaemonInv, ShowInv, RunningListsAll
<1>9. InitInv' /\ StampInv' /\ UpInv' /\ StopInv'
  BY <1>1, <1>2, <1>4 DEF DaemonInv, InitInv, StampInv, UpInv, StopInv, Early, Late
<1> QED
  BY <1>3, <1>6, <1>7, <1>8, <1>9 DEF DaemonInv

\* The status has been cleared, at the start of a life or at its end.
LEMMA ClearedKeeps == DaemonInv /\ Cleared => DaemonInv'
<1> SUFFICES ASSUME DaemonInv, Cleared PROVE DaemonInv'
  OBVIOUS
<1> USE DEF Cleared
<1>1. /\ Now = "clear" /\ HandlerInv' /\ Flow("clear", Now')
      /\ life \in {"init", "up", "stopping"}
      /\ life' = IF life = "init" /\ Now' = "none" THEN "up" ELSE life
      /\ app' = app /\ board' = board /\ enabled' = enabled /\ raised' = raised
      /\ numbers' = numbers /\ odd' = odd
      /\ Wanted' = Wanted /\ app \in Apps
  BY Proceeds
<1>2. /\ image' = image /\ captured' = captured /\ todo' = todo /\ loaded' = loaded
      /\ regs' = regs /\ timer' = timer /\ told' = told /\ complete' = complete
      /\ show' = show /\ calm' = calm /\ partly' = FALSE
  BY DEF process
<1>3. \/ life = "init" /\ app # "telemexample" /\ Now' \in {"fpgas", "pick"}
      \/ life = "stopping" /\ Now' = "complete"
  BY <1>1 DEF Flow, InitFlow, HelloFlow, TsCoreFlow, TelemFlow, ServeFlow, CloseFlow, Apps, Flags
<1>4. status = NoStatus /\ status' = NoStatus /\ DOMAIN status' = {} /\ \A k : ~Has(k)' /\ ~Has(k)
  BY DEF NoStatus, Has
<1>5. TypeOK'
  BY <1>1, <1>2, <1>3, <1>4 DEF DaemonInv, TypeOK
<1>6. BoundsInv' /\ StatusInv'
  BY <1>1, <1>2, <1>3, <1>4, WantedFacts DEF DaemonInv, TypeOK, BoundsInv, StatusInv, InitInv,
     Early, Has, Listed
<1>7. ShowInv'
  BY <1>1, <1>2, <1>3, <1>4 DEF DaemonInv, ShowInv, Has, RunningListsAll
<1>8. InitInv'
  BY <1>1, <1>2, <1>3, <1>4, WantedFacts DEF DaemonInv, InitInv, Early, Late, Loaded, Listed, Has
<1>9. StampInv'
  BY <1>1, <1>2, <1>3, <1>4 DEF DaemonInv, StampInv, StatusInv, Agrees, Has
<1>10. UpInv'
  BY <1>1, <1>2, <1>3, <1>4, WantedFacts DEF DaemonInv, InitInv, UpInv, Early, Late, Loaded, Ticks,
     Has
<1>11. StopInv'
  BY <1>1, <1>2, <1>3, <1>4, WantedFacts DEF DaemonInv, InitInv, StopInv, Early, Late
<1> QED
  BY <1>1, <1>5, <1>6, <1>7, <1>8, <1>9, <1>10, <1>11 DEF DaemonInv

\* timeout_time_is(), to come again or never
LEMMA SetTimerKeeps == DaemonInv /\ SetTimer => DaemonInv'
<1> SUFFICES ASSUME DaemonInv, NEW step \in {"rearm", "never"}, Doing(step), Proceed,
                    timer' = (step = "rearm"),
                    UNCHANGED <<status, image, captured, todo, loaded, regs, told, complete, cli>>
             PROVE  DaemonInv'
  BY DEF SetTimer
<1>1. /\ Now = step /\ HandlerInv' /\ Flow(step, Now')
      /\ life \in {"init", "up", "stopping"}
      /\ life' = IF life = "init" /\ Now' = "none" THEN "up" ELSE life
      /\ app' = app /\ board' = board /\ enabled' = enabled /\ raised' = raised
      /\ numbers' = numbers /\ odd' = odd
      /\ Wanted' = Wanted /\ app \in Apps
  BY Proceeds
<1>2. /\ status' = status /\ image' = image /\ captured' = captured /\ todo' = todo
      /\ loaded' = loaded /\ regs' = regs /\ told' = told /\ complete' = complete
      /\ show' = show /\ calm' = calm /\ partly' = partly
  BY DEF cli
<1>3. \/ step = "rearm" /\ life = "init" /\ app # "telemexample" /\ Now' = "none"
      \/ step = "rearm" /\ life = "init" /\ app = "telemexample" /\ Now' = "running"
      \/ step = "rearm" /\ life \in {"up", "stopping"} /\ Now' \in {"none", "send"}
      \/ step = "never" /\ life = "stopping" /\ app # "telemexample" /\ Now' = "unload"
      \/ step = "never" /\ life = "stopping" /\ app = "telemexample" /\ Now' = "clear"
  BY <1>1 DEF Flow, InitFlow, HelloFlow, TsCoreFlow, TelemFlow, ServeFlow, CloseFlow, Apps, Flags
<1>4. timer' \in BOOLEAN /\ (timer' <=> step = "rearm")
  OBVIOUS
<1>5. TypeOK'
  BY <1>1, <1>2, <1>3, <1>4 DEF DaemonInv, TypeOK
<1>6. BoundsInv' /\ StatusInv'
  BY <1>1, <1>2, <1>3, <1>4, WantedFacts DEF DaemonInv, TypeOK, BoundsInv, StatusInv, InitInv,
     Early, Has, Listed
<1>7. ShowInv'
  BY <1>1, <1>2, <1>3, <1>4 DEF DaemonInv, ShowInv, Has, RunningListsAll
<1>8. InitInv'
  BY <1>1, <1>2, <1>3, <1>4, WantedFacts DEF DaemonInv, InitInv, Early, Late, Loaded, Listed, Has
<1>9. StampInv'
  BY <1>1, <1>2, <1>3, <1>4 DEF DaemonInv, StampInv, StatusInv, Agrees, Has
<1>10. UpInv'
  BY <1>1, <1>2, <1>3, <1>4, WantedFacts DEF DaemonInv, InitInv, UpInv, Early, Late, Loaded, Ticks,
     Has
<1>11. ~raised' => (life' \in {"up", "stopping"} => Wanted' \subseteq loaded')
  BY <1>1, <1>2, <1>3 DEF DaemonInv, InitInv, StopInv, Late
<1>12. step = "never" => ~timer' /\ loaded' \ todo' = {} /\ (Now' = "clear" => loaded' = {})
  BY <1>1, <1>2, <1>3, <1>4, WantedFacts DEF DaemonInv, StopInv, BoundsInv
<1>13. StopInv'
  BY <1>1, <1>2, <1>3, <1>11, <1>12 DEF StopInv
<1> QED
  BY <1>1, <1>5, <1>6, <1>7, <1>8, <1>9, <1>10, <1>13 DEF DaemonInv

\* agent_shutdown_complete_is()
LEMMA CompleteKeeps == DaemonInv /\ Complete => DaemonInv'
<1> SUFFICES ASSUME DaemonInv, Complete PROVE DaemonInv'
  OBVIOUS
<1> USE DEF Complete
<1>1. /\ Now = "complete" /\ HandlerInv' /\ Flow("complete", Now')
      /\ life \in {"init", "up", "stopping"}
      /\ life' = IF life = "init" /\ Now' = "none" THEN "up" ELSE life
      /\ app' = app /\ board' = board /\ enabled' = enabled /\ raised' = raised
      /\ numbers' = numbers /\ odd' = odd
      /\ Wanted' = Wanted /\ app \in Apps
  BY Proceeds
<1>2. /\ status' = status /\ image' = image /\ captured' = captured /\ todo' = todo
      /\ loaded' = loaded /\ regs' = regs /\ timer' = timer /\ told' = told
      /\ show' = show /\ calm' = calm /\ partly' = partly /\ complete' = TRUE
  BY DEF cli
<1>3. life = "stopping" /\ Now' = "none"
  BY <1>1 DEF Flow, InitFlow, HelloFlow, TsCoreFlow, TelemFlow, ServeFlow, CloseFlow, Apps, Flags
<1>4. TypeOK'
  BY <1>1, <1>2, <1>3 DEF DaemonInv, TypeOK
<1>5. BoundsInv' /\ StatusInv'
  BY <1>1, <1>2, <1>3, WantedFacts DEF DaemonInv, TypeOK, BoundsInv, StatusInv, InitInv, Early, Has,
     Listed
<1>6. ShowInv'
  BY <1>1, <1>2, <1>3 DEF DaemonInv, ShowInv, Has, RunningListsAll
<1>7. InitInv'
  BY <1>1, <1>2, <1>3, WantedFacts DEF DaemonInv, InitInv, Early, Late, Loaded, Listed, Has
<1>8. StampInv'
  BY <1>1, <1>2, <1>3 DEF DaemonInv, StampInv, StatusInv, Agrees, Has
<1>9. UpInv'
  BY <1>1, <1>2, <1>3, WantedFacts DEF DaemonInv, InitInv, UpInv, Early, Late, Loaded, Ticks, Has
<1>10. StopInv'
  BY <1>1, <1>2, <1>3, WantedFacts DEF DaemonInv, InitInv, StopInv, Early, Late
<1> QED
  BY <1>1, <1>4, <1>5, <1>6, <1>7, <1>8, <1>9, <1>10 DEF DaemonInv

\* The loop over get_fpga_devices() in helloworld and nullverilog begins.
LEMMA EnumerateKeeps == DaemonInv /\ Enumerate => DaemonInv'
<1> SUFFICES ASSUME DaemonInv, Enumerate PROVE DaemonInv'
  OBVIOUS
<1> USE DEF Enumerate
<1>1. /\ Now = "fpgas" /\ HandlerInv' /\ Flow("fpgas", Now')
      /\ life \in {"init", "up", "stopping"}
      /\ life' = IF life = "init" /\ Now' = "none" THEN "up" ELSE life
      /\ app' = app /\ board' = board /\ enabled' = enabled /\ raised' = raised
      /\ numbers' = numbers /\ odd' = odd
      /\ Wanted' = Wanted /\ app \in Apps
  BY Proceeds
<1>2. /\ image' = image /\ captured' = captured /\ loaded' = loaded /\ regs' = regs
      /\ timer' = timer /\ told' = told /\ complete' = complete /\ show' = show
      /\ calm' = calm /\ partly' = partly /\ todo' = Wanted
  BY DEF process, cli
<1>3. life = "init" /\ app \in {"helloworld", "nullverilog"} /\ Now' = "load"
  BY <1>1 DEF Flow, InitFlow, HelloFlow, TsCoreFlow, TelemFlow, ServeFlow, CloseFlow, Apps, Flags
<1>4. /\ DOMAIN status' = DOMAIN status \cup {"fpgas"} /\ status'["fpgas"] = {}
      /\ \A k : Has(k)' <=> Has(k) \/ k = "fpgas"
      /\ \A k : Has(k) /\ k # "fpgas" => status'[k] = status[k]
  BY PutFacts DEF Has
<1>5. TypeOK'
  BY <1>1, <1>2, <1>3, <1>4, WantedFacts DEF DaemonInv, TypeOK
<1>6. BoundsInv' /\ StatusInv'
  BY <1>1, <1>2, <1>3, <1>4, WantedFacts DEF DaemonInv, TypeOK, BoundsInv, StatusInv, InitInv,
     Early, Has, Listed
<1>7. ShowInv'
  BY <1>1, <1>2, <1>3, <1>4 DEF DaemonInv, ShowInv, Has, RunningListsAll
<1>8. InitInv'
  BY <1>1, <1>2, <1>3, <1>4, WantedFacts DEF DaemonInv, InitInv, Early, Late, Loaded, Listed, Has
<1>9. StampInv'
  BY <1>1, <1>2, <1>3, <1>4 DEF DaemonInv, StampInv, StatusInv, Agrees, Has
<1>10. UpInv'
  BY <1>1, <1>2, <1>3, <1>4, WantedFacts DEF DaemonInv, InitInv, UpInv, Early, Late, Loaded, Ticks,
     Has
<1>11. StopInv'
  BY <1>1, <1>2, <1>3, <1>4, WantedFacts DEF DaemonInv, InitInv, StopInv, Early, Late
<1> QED
  BY <1>1, <1>5, <1>6, <1>7, <1>8, <1>9, <1>10, <1>11 DEF DaemonInv

\* tscore_nomac takes the first FPGA.
LEMMA PickKeeps == DaemonInv /\ Pick => DaemonInv'
<1> SUFFICES ASSUME DaemonInv, Pick PROVE DaemonInv'
  OBVIOUS
<1> USE DEF Pick
<1>1. /\ Now = "pick" /\ HandlerInv' /\ Flow("pick", Now')
      /\ life \in {"init", "up", "stopping"}
      /\ life' = IF life = "init" /\ Now' = "none" THEN "up" ELSE life
      /\ app' = app /\ board' = board /\ enabled' = enabled /\ raised' = raised
      /\ numbers' = numbers /\ odd' = odd
      /\ Wanted' = Wanted /\ app \in Apps
  BY Proceeds
<1>2. /\ status' = status /\ image' = image /\ captured' = captured /\ regs' = regs
      /\ timer' = timer /\ told' = told /\ complete' = complete /\ show' = show
      /\ calm' = calm /\ partly' = partly
      /\ First \in Wanted /\ todo' = {First} /\ loaded' = {First}
  BY DEF cli
<1>3. life = "init" /\ app = "tscore" /\ Now' = "load"
  BY <1>1 DEF Flow, InitFlow, HelloFlow, TsCoreFlow, TelemFlow, ServeFlow, CloseFlow, Apps, Flags
<1>4. First \in Fpgas
  BY FirstAssumption
<1>5. TypeOK'
  BY <1>1, <1>2, <1>3, <1>4 DEF DaemonInv, TypeOK
<1>6. BoundsInv' /\ StatusInv'
  BY <1>1, <1>2, <1>3, <1>4, WantedFacts DEF DaemonInv, TypeOK, BoundsInv, StatusInv, InitInv,
     Early, Has, Listed
<1>7. ShowInv'
  BY <1>1, <1>2, <1>3, <1>4 DEF DaemonInv, ShowInv, Has, RunningListsAll
<1>8. InitInv'
  BY <1>1, <1>2, <1>3, <1>4, WantedFacts DEF DaemonInv, InitInv, Early, Late, Loaded, Listed, Has
<1>9. StampInv'
  BY <1>1, <1>2, <1>3, <1>4 DEF DaemonInv, StampInv, StatusInv, Agrees, Has
<1>10. UpInv'
  BY <1>1, <1>2, <1>3, <1>4, WantedFacts DEF DaemonInv, InitInv, UpInv, Early, Late, Loaded, Ticks,
     Has
<1>11. StopInv'
  BY <1>1, <1>2, <1>3, <1>4, WantedFacts DEF DaemonInv, InitInv, StopInv, Early, Late
<1> QED
  BY <1>1, <1>5, <1>6, <1>7, <1>8, <1>9, <1>10, <1>11 DEF DaemonInv

\* A loop that loads or unloads has visited every FPGA.
LEMMA LoopEndsKeeps == DaemonInv /\ LoopEnds => DaemonInv'
<1> SUFFICES ASSUME DaemonInv, NEW step \in {"load", "unload"}, Doing(step), todo = {}, Proceed,
                    UNCHANGED <<status, image, captured, todo, process, cli>>
             PROVE  DaemonInv'
  BY DEF LoopEnds
<1>1. /\ Now = step /\ HandlerInv' /\ Flow(step, Now')
      /\ life \in {"init", "up", "stopping"}
      /\ life' = IF life = "init" /\ Now' = "none" THEN "up" ELSE life
      /\ app' = app /\ board' = board /\ enabled' = enabled /\ raised' = raised
      /\ numbers' = numbers /\ odd' = odd
      /\ Wanted' = Wanted /\ app \in Apps
  BY Proceeds
<1>2. /\ status' = status /\ image' = image /\ captured' = captured /\ todo' = todo
      /\ loaded' = loaded /\ regs' = regs /\ timer' = timer /\ told' = told
      /\ complete' = complete /\ show' = show /\ calm' = calm /\ partly' = partly
  BY DEF process, cli
<1>3. \/ step = "load" /\ life = "init" /\ app # "telemexample" /\ Now' \in {"names", "image"}
      \/ step = "unload" /\ life = "stopping" /\ Now' = "clear"
  BY <1>1 DEF Flow, InitFlow, HelloFlow, TsCoreFlow, TelemFlow, ServeFlow, CloseFlow, Apps, Flags
<1>4. TypeOK'
  BY <1>1, <1>2, <1>3 DEF DaemonInv, TypeOK
<1>5. BoundsInv' /\ StatusInv'
  BY <1>1, <1>2, <1>3, WantedFacts DEF DaemonInv, TypeOK, BoundsInv, StatusInv, InitInv, Early, Has,
     Listed
<1>6. ShowInv'
  BY <1>1, <1>2, <1>3 DEF DaemonInv, ShowInv, Has, RunningListsAll
<1>7. InitInv'
  BY <1>1, <1>2, <1>3, WantedFacts DEF DaemonInv, InitInv, Early, Late, Loaded, Listed, Has
<1>8. StampInv'
  BY <1>1, <1>2, <1>3 DEF DaemonInv, StampInv, StatusInv, Agrees, Has
<1>9. UpInv'
  BY <1>1, <1>2, <1>3, WantedFacts DEF DaemonInv, InitInv, UpInv, Early, Late, Loaded, Ticks, Has
<1>10. StopInv'
  BY <1>1, <1>2, <1>3, WantedFacts DEF DaemonInv, InitInv, StopInv, Early, Late
<1> QED
  BY <1>1, <1>4, <1>5, <1>6, <1>7, <1>8, <1>9, <1>10 DEF DaemonInv

\* The names of the FPGAs go into the status.
LEMMA NamesKeeps == DaemonInv /\ Names => DaemonInv'
<1> SUFFICES ASSUME DaemonInv, Names PROVE DaemonInv'
  OBVIOUS
<1> USE DEF Names
<1>1. /\ Now = "names" /\ HandlerInv' /\ Flow("names", Now')
      /\ life \in {"init", "up", "stopping"}
      /\ life' = IF life = "init" /\ Now' = "none" THEN "up" ELSE life
      /\ app' = app /\ board' = board /\ enabled' = enabled /\ raised' = raised
      /\ numbers' = numbers /\ odd' = odd
      /\ Wanted' = Wanted /\ app \in Apps
  BY Proceeds
<1>2. /\ image' = image /\ captured' = captured /\ todo' = todo /\ loaded' = loaded
      /\ regs' = regs /\ timer' = timer /\ told' = told /\ complete' = complete
      /\ show' = show /\ calm' = calm /\ partly' = partly
  BY DEF process, cli
<1>3. life = "init" /\ app \in {"helloworld", "nullverilog"} /\ Now' = "running"
  BY <1>1 DEF Flow, InitFlow, HelloFlow, TsCoreFlow, TelemFlow, ServeFlow, CloseFlow, Apps, Flags
<1>4. /\ DOMAIN status' = DOMAIN status \cup {"fpgas"} /\ status'["fpgas"] = regs
      /\ \A k : Has(k)' <=> Has(k) \/ k = "fpgas"
      /\ \A k : Has(k) /\ k # "fpgas" => status'[k] = status[k]
  BY PutFacts DEF Has
<1>5. regs = Wanted
  BY <1>1, <1>3 DEF DaemonInv, InitInv, BoundsInv, Late, Loaded
<1>6. TypeOK'
  BY <1>1, <1>2, <1>3, <1>4, <1>5 DEF DaemonInv, TypeOK
<1>7. BoundsInv' /\ StatusInv'
  BY <1>1, <1>2, <1>3, <1>4, <1>5, WantedFacts DEF DaemonInv, TypeOK, BoundsInv, StatusInv, InitInv,
     Early, Has, Listed
<1>8. ShowInv'
  BY <1>1, <1>2, <1>3, <1>4, <1>5 DEF DaemonInv, ShowInv, Has, RunningListsAll
<1>9. InitInv'
  BY <1>1, <1>2, <1>3, <1>4, <1>5, WantedFacts DEF DaemonInv, InitInv, Early, Late, Loaded, Listed,
     Has
<1>10. StampInv'
  BY <1>1, <1>2, <1>3, <1>4, <1>5 DEF DaemonInv, StampInv, StatusInv, Agrees, Has
<1>11. UpInv'
  BY <1>1, <1>2, <1>3, <1>4, <1>5, WantedFacts DEF DaemonInv, InitInv, UpInv, Early, Late, Loaded,
     Ticks, Has
<1>12. StopInv'
  BY <1>1, <1>2, <1>3, <1>4, <1>5, WantedFacts DEF DaemonInv, InitInv, StopInv, Early, Late
<1> QED
  BY <1>1, <1>6, <1>7, <1>8, <1>9, <1>10, <1>11, <1>12 DEF DaemonInv

\* An RPC of tscore_nomac captures a timestamp.
LEMMA TriggerKeeps == DaemonInv /\ Trigger => DaemonInv'
<1> SUFFICES ASSUME DaemonInv, Trigger PROVE DaemonInv'
  OBVIOUS
<1> USE DEF Trigger
<1>1. /\ Now = "trigger" /\ HandlerInv' /\ Flow("trigger", Now')
      /\ life \in {"init", "up", "stopping"}
      /\ life' = IF life = "init" /\ Now' = "none" THEN "up" ELSE life
      /\ app' = app /\ board' = board /\ enabled' = enabled /\ raised' = raised
      /\ numbers' = numbers /\ odd' = odd
      /\ Wanted' = Wanted /\ app \in Apps
  BY Proceeds
<1>2. /\ status' = status /\ image' = image /\ todo' = todo /\ loaded' = loaded
      /\ regs' = regs /\ timer' = timer /\ told' = told /\ complete' = complete
      /\ show' = show /\ calm' = calm /\ partly' = partly /\ captured' \in Times
  BY DEF process, cli
<1>3. life # "init" /\ app = "tscore" /\ Now' = "stamp"
  BY <1>1 DEF Flow, InitFlow, HelloFlow, TsCoreFlow, TelemFlow, ServeFlow, CloseFlow, Apps, Flags
<1>4. TypeOK'
  BY <1>1, <1>2, <1>3 DEF DaemonInv, TypeOK
<1>5. BoundsInv' /\ StatusInv'
  BY <1>1, <1>2, <1>3, WantedFacts DEF DaemonInv, TypeOK, BoundsInv, StatusInv, InitInv, Early, Has,
     Listed
<1>6. ShowInv'
  BY <1>1, <1>2, <1>3 DEF DaemonInv, ShowInv, Has, RunningListsAll
<1>7. InitInv'
  BY <1>1, <1>2, <1>3, WantedFacts DEF DaemonInv, InitInv, Early, Late, Loaded, Listed, Has
<1>8. StampInv'
  BY <1>1, <1>2, <1>3 DEF DaemonInv, StampInv, StatusInv, Agrees, Has
<1>9. UpInv'
  BY <1>1, <1>2, <1>3, WantedFacts DEF DaemonInv, InitInv, UpInv, Early, Late, Loaded, Ticks, Has
<1>10. StopInv'
  BY <1>1, <1>2, <1>3, WantedFacts DEF DaemonInv, InitInv, StopInv, Early, Late
<1> QED
  BY <1>1, <1>4, <1>5, <1>6, <1>7, <1>8, <1>9, <1>10 DEF DaemonInv

\* The timestamp is read in one of its forms.
LEMMA ReadStampKeeps == DaemonInv /\ ReadStamp => DaemonInv'
<1> SUFFICES ASSUME DaemonInv, NEW step \in {"stamp", "readable"}, NEW key \in {"raw", "readable"},
                    (step = "stamp") <=> (key = "raw"),
                    Doing(step), Put(key, captured), Proceed,
                    UNCHANGED <<image, captured, todo, process, cli>>
             PROVE  DaemonInv'
  BY DEF ReadStamp, Stamped
<1>1. /\ Now = step /\ HandlerInv' /\ Flow(step, Now')
      /\ life \in {"init", "up", "stopping"}
      /\ life' = IF life = "init" /\ Now' = "none" THEN "up" ELSE life
      /\ app' = app /\ board' = board /\ enabled' = enabled /\ raised' = raised
      /\ numbers' = numbers /\ odd' = odd
      /\ Wanted' = Wanted /\ app \in Apps
  BY Proceeds
<1>2. /\ image' = image /\ captured' = captured /\ todo' = todo /\ loaded' = loaded
      /\ regs' = regs /\ timer' = timer /\ told' = told /\ complete' = complete
      /\ show' = show /\ calm' = calm /\ partly' = partly
  BY DEF process, cli
<1>3. \/ step = "stamp" /\ app = "tscore" /\ Now' = "readable"
      \/ step = "readable" /\ app = "tscore" /\ life = "init" /\ Now' = "last_timeout"
      \/ step = "readable" /\ app = "tscore" /\ life # "init" /\ Now' = "none"
  BY <1>1 DEF Flow, InitFlow, HelloFlow, TsCoreFlow, TelemFlow, ServeFlow, CloseFlow, Apps, Flags
<1>4. /\ DOMAIN status' = DOMAIN status \cup {key} /\ status'[key] = captured
      /\ \A k : Has(k)' <=> Has(k) \/ k = key
      /\ \A k : Has(k) /\ k # key => status'[k] = status[k]
  BY PutFacts DEF Has
<1>5. TypeOK'
  BY <1>1, <1>2, <1>3, <1>4 DEF DaemonInv, TypeOK
<1>6. BoundsInv' /\ StatusInv'
  BY <1>1, <1>2, <1>3, <1>4, WantedFacts DEF DaemonInv, TypeOK, BoundsInv, StatusInv, InitInv,
     Early, Has, Listed
<1>7. ShowInv'
  BY <1>1, <1>2, <1>3, <1>4 DEF DaemonInv, ShowInv, Has, RunningListsAll
<1>8. InitInv'
  BY <1>1, <1>2, <1>3, <1>4, WantedFacts DEF DaemonInv, InitInv, Early, Late, Loaded, Listed, Has
<1>9. StampInv'
  BY <1>1, <1>2, <1>3, <1>4 DEF DaemonInv, StampInv, StatusInv, Agrees, Has
<1>10. UpInv'
  BY <1>1, <1>2, <1>3, <1>4, WantedFacts DEF DaemonInv, InitInv, UpInv, Early, Late, Loaded, Ticks,
     Has
<1>11. StopInv'
  BY <1>1, <1>2, <1>3, <1>4, WantedFacts DEF DaemonInv, InitInv, StopInv, Early, Late
<1> QED
  BY <1>1, <1>5, <1>6, <1>7, <1>8, <1>9, <1>10, <1>11 DEF DaemonInv


\* A load, an unload, an access or a tick that fails: in front of "running", or the daemon has
\* loaded every FPGA and ticks, or is tscore_nomac and has raised, or has met no number.
LEMMA RaisesKeep ==
    DaemonInv /\ (\/ NothingToUnload \/ Fails \/ NoNumber
                  \/ \E f \in todo : LoadFails(f) \/ NoRegisters(f) \/ UnloadFails(f))
        => DaemonInv'
<1> SUFFICES ASSUME DaemonInv, NEW step \in Risky \cup {"load", "unload", "options"}, Doing(step), Raise,
                    image' \subseteq image \cup todo, loaded' \subseteq loaded \cup todo,
                    image' = image \/ step \in {"load", "unload"},
                    step # "load" => image' \subseteq image /\ loaded' = loaded,
                    step = "options" => odd' = TRUE, step # "options" => odd' = odd,
                    UNCHANGED <<status, captured, regs, timer, told, complete>>
             PROVE  DaemonInv'
  <2>0. DaemonInv => odd \in BOOLEAN
    BY DEF DaemonInv, TypeOK
  <2>1. ASSUME DaemonInv, NothingToUnload PROVE DaemonInv'
    BY <2>0, <2>1 DEF NothingToUnload, process
  <2>2. ASSUME DaemonInv, Fails PROVE DaemonInv'
    BY <2>0, <2>2 DEF Fails, process, Risky
  <2>3. ASSUME DaemonInv, NEW f \in todo, LoadFails(f) PROVE DaemonInv'
    BY <2>0, <2>3 DEF LoadFails, process
  <2>4. ASSUME DaemonInv, NEW f \in todo, UnloadFails(f) PROVE DaemonInv'
    BY <2>0, <2>4 DEF UnloadFails, process
  <2>5. ASSUME DaemonInv, NEW f \in todo, NoRegisters(f) PROVE DaemonInv'
    BY <2>0, <2>5 DEF NoRegisters, Remember
  <2>6. ASSUME DaemonInv, NoNumber PROVE DaemonInv'
    BY <2>0, <2>6 DEF NoNumber, process
  <2> QED
    BY <2>1, <2>2, <2>3, <2>4, <2>5, <2>6
<1>1. /\ Now = step /\ HandlerInv' /\ Now' = "none"
      /\ \E b : Flow(step, b)
      /\ life \in {"init", "up", "stopping"}
      /\ life' = IF life = "init" THEN "up" ELSE life
      /\ app' = app /\ board' = board /\ enabled' = enabled /\ raised' = TRUE /\ numbers' = numbers
      /\ show' = show /\ calm' = calm /\ partly' = partly /\ todo' = {}
      /\ Wanted' = Wanted /\ app \in Apps
  BY Raises
<1>2. /\ status' = status /\ captured' = captured /\ regs' = regs
      /\ timer' = timer /\ told' = told /\ complete' = complete
      /\ image' \subseteq image \cup todo /\ loaded' \subseteq loaded \cup todo
      /\ image' = image \/ step \in {"load", "unload"}
      /\ step # "load" => image' \subseteq image /\ loaded' = loaded
      /\ step = "options" => odd' = TRUE
      /\ step # "options" => odd' = odd
  OBVIOUS
<1>3. \/ life = "init" /\ app # "telemexample" /\ step \in {"pick", "load", "names", "probe"}
      \/ life = "init" /\ app = "tscore" /\ step \in {"stamp", "readable"}
      \/ life = "init" /\ app = "telemexample" /\ step = "send"
      \/ life # "init" /\ step \in {"trigger", "stamp", "readable", "send"}
      \/ life # "init" /\ app = "telemexample" /\ step = "options"
      \/ life = "stopping" /\ step = "unload"
  BY <1>1 DEF Flow, InitFlow, HelloFlow, TsCoreFlow, TelemFlow, ServeFlow, CloseFlow, Apps, Risky
<1>4. TypeOK'
  <2>1. odd \in BOOLEAN /\ image \subseteq Fpgas /\ loaded \subseteq Fpgas /\ todo \subseteq Fpgas
    BY DEF DaemonInv, TypeOK
  <2>2. odd' \in BOOLEAN
    BY <1>2, <2>1, Zenon
  <2>3. image' \subseteq Fpgas /\ loaded' \subseteq Fpgas /\ todo' \subseteq Fpgas
    BY <1>1, <1>2, <2>1
  <2> QED
    BY <1>1, <1>2, <2>2, <2>3 DEF DaemonInv, TypeOK
<1>5. BoundsInv' /\ StatusInv'
  BY <1>1, <1>2, <1>3, WantedFacts DEF DaemonInv, TypeOK, BoundsInv, StatusInv, InitInv, Early, Has,
     Listed
<1>6. ShowInv'
  BY <1>1, <1>2, <1>3 DEF DaemonInv, ShowInv, Has, RunningListsAll
<1>7. InitInv'
  BY <1>1, <1>2, <1>3, WantedFacts DEF DaemonInv, InitInv, Early, Late, Loaded, Listed, Has
<1>8. StampInv'
  BY <1>1, <1>2, <1>3 DEF DaemonInv, StampInv, StatusInv, Agrees, Has
<1>9. UpInv'
  BY <1>1, <1>2, <1>3, WantedFacts DEF DaemonInv, InitInv, UpInv, Early, Late, Loaded, Ticks, Has
<1>10. StopInv'
  BY <1>1, <1>2, <1>3, WantedFacts DEF DaemonInv, InitInv, StopInv, Early, Late
<1> QED
  BY <1>1, <1>4, <1>5, <1>6, <1>7, <1>8, <1>9, <1>10 DEF DaemonInv

\* Telemetry has no socket: the handler of telemexample ends.
LEMMA NotReadyKeeps == DaemonInv /\ NotReady => DaemonInv'
<1> SUFFICES ASSUME DaemonInv, NotReady PROVE DaemonInv'
  OBVIOUS
<1> USE DEF NotReady
<1>1. /\ HandlerInv /\ app \in Apps /\ life \in {"down", "init", "up", "stopping"}
      /\ code # <<>> /\ Now = "send"
  BY DEF DaemonInv, TypeOK, Doing, Now
<1>2. /\ status' = status /\ image' = image /\ captured' = captured /\ todo' = todo
      /\ loaded' = loaded /\ regs' = regs /\ timer' = timer /\ told' = told
      /\ complete' = complete /\ show' = show /\ calm' = calm /\ partly' = partly /\ app' = app
      /\ board' = board /\ enabled' = enabled /\ raised' = raised
      /\ numbers' = numbers /\ odd' = odd
      /\ Wanted' = Wanted
  BY DEF process, cli, world, options, Wanted
<1>3. /\ life \in {"init", "up", "stopping"} /\ HandlerInv' /\ Now' = "none"
      /\ life' = IF life = "init" THEN "up" ELSE life
  BY <1>1, <1>2, GoesOn DEF HandlerInv
<1>4. app = "telemexample"
  BY <1>1, <1>3, Flows DEF Flow, InitFlow, HelloFlow, TsCoreFlow, TelemFlow, ServeFlow, CloseFlow,
     Apps
<1>5. TypeOK'
  BY <1>1, <1>3, <1>2, <1>4 DEF DaemonInv, TypeOK
<1>6. BoundsInv' /\ StatusInv'
  BY <1>1, <1>3, <1>2, <1>4, WantedFacts DEF DaemonInv, TypeOK, BoundsInv, StatusInv, InitInv,
     Early, Has, Listed
<1>7. ShowInv'
  BY <1>1, <1>3, <1>2, <1>4 DEF DaemonInv, ShowInv, Has, RunningListsAll
<1>8. InitInv'
  BY <1>1, <1>3, <1>2, <1>4, WantedFacts DEF DaemonInv, InitInv, Early, Late, Loaded, Listed, Has
<1>9. StampInv'
  BY <1>1, <1>3, <1>2, <1>4 DEF DaemonInv, StampInv, StatusInv, Agrees, Has
<1>10. UpInv'
  BY <1>1, <1>3, <1>2, <1>4, WantedFacts DEF DaemonInv, InitInv, UpInv, Early, Late, Loaded, Ticks,
     Has
<1>11. StopInv'
  BY <1>1, <1>3, <1>2, <1>4, WantedFacts DEF DaemonInv, InitInv, StopInv, Early, Late
<1> QED
  BY <1>3, <1>5, <1>6, <1>7, <1>8, <1>9, <1>10, <1>11 DEF DaemonInv

\* load_image() of one FPGA has succeeded.
LEMMA LoadKeeps == ASSUME DaemonInv, NEW f \in todo, Load(f) PROVE DaemonInv'
<1> USE DEF Load
<1>1. HandlerInv /\ app \in Apps /\ code # <<>> /\ Now = "load"
  BY DEF DaemonInv, TypeOK, Doing, Now
<1>2. /\ life \in {"init", "up", "stopping"} /\ Flow("load", Then)
  BY <1>1, Flows DEF DaemonInv, TypeOK, HandlerInv
<1>3. /\ status' = status /\ captured' = captured /\ timer' = timer /\ told' = told
      /\ complete' = complete /\ show' = show /\ calm' = calm /\ partly' = partly /\ app' = app
      /\ board' = board /\ enabled' = enabled /\ raised' = raised
      /\ numbers' = numbers /\ odd' = odd /\ life' = life
      /\ code' = code
      /\ image' = image \cup {f} /\ loaded' = loaded \cup {f} /\ regs' = regs \cup {f}
      /\ todo' = todo \ {f} /\ Wanted' = Wanted /\ Now' = "load"
  BY <1>1 DEF cli, world, options, Wanted, Remember, Now
<1>4. life = "init" /\ HandlerInv' /\ f \in Wanted /\ f \in Fpgas
  <2>1. life = "init"
    BY <1>2 DEF Flow, ServeFlow, CloseFlow
  <2>2. HandlerInv'
    BY <1>1, <1>3 DEF HandlerInv, Served, Closing, OnInitialized
  <2> QED
    BY <2>1, <2>2 DEF DaemonInv, BoundsInv, TypeOK
<1>5. TypeOK'
  BY <1>1, <1>2, <1>3, <1>4 DEF DaemonInv, TypeOK
<1>6. BoundsInv' /\ StatusInv'
  BY <1>1, <1>2, <1>3, <1>4, WantedFacts DEF DaemonInv, TypeOK, BoundsInv, StatusInv, InitInv,
     Early, Has, Listed
<1>7. ShowInv'
  BY <1>1, <1>2, <1>3, <1>4 DEF DaemonInv, ShowInv, Has, RunningListsAll
<1>8. InitInv'
  BY <1>1, <1>2, <1>3, <1>4, WantedFacts DEF DaemonInv, InitInv, Early, Late, Loaded, Listed, Has
<1>9. StampInv'
  BY <1>1, <1>2, <1>3, <1>4 DEF DaemonInv, StampInv, StatusInv, Agrees, Has
<1>10. UpInv'
  BY <1>1, <1>2, <1>3, <1>4, WantedFacts DEF DaemonInv, InitInv, UpInv, Early, Late, Loaded, Ticks,
     Has
<1>11. StopInv'
  BY <1>1, <1>2, <1>3, <1>4, WantedFacts DEF DaemonInv, InitInv, StopInv, Early, Late
<1> QED
  BY <1>4, <1>5, <1>6, <1>7, <1>8, <1>9, <1>10, <1>11 DEF DaemonInv

\* unload_image() of one FPGA has succeeded.
LEMMA UnloadKeeps == ASSUME DaemonInv, NEW f \in todo, Unload(f) PROVE DaemonInv'
<1> USE DEF Unload
<1>1. HandlerInv /\ app \in Apps /\ code # <<>> /\ Now = "unload"
  BY DEF DaemonInv, TypeOK, Doing, Now
<1>2. /\ life \in {"init", "up", "stopping"} /\ Flow("unload", Then)
  BY <1>1, Flows DEF DaemonInv, TypeOK, HandlerInv
<1>3. /\ status' = status /\ captured' = captured /\ timer' = timer /\ told' = told
      /\ complete' = complete /\ show' = show /\ calm' = calm /\ partly' = partly /\ app' = app
      /\ board' = board /\ enabled' = enabled /\ raised' = raised
      /\ numbers' = numbers /\ odd' = odd /\ life' = life
      /\ code' = code /\ loaded' = loaded /\ regs' = regs
      /\ image' = image \ {f} /\ todo' = todo \ {f} /\ Wanted' = Wanted /\ Now' = "unload"
  BY <1>1 DEF cli, world, options, process, Wanted, Now
<1>4. life = "stopping" /\ HandlerInv'
  <2>1. life = "stopping"
    BY <1>1, <1>2 DEF Flow, InitFlow, HelloFlow, TsCoreFlow, TelemFlow, ServeFlow, Apps
  <2>2. HandlerInv'
    BY <1>1, <1>3 DEF HandlerInv, Served, Closing, OnInitialized
  <2> QED
    BY <2>1, <2>2
<1>5. TypeOK'
  BY <1>1, <1>2, <1>3, <1>4 DEF DaemonInv, TypeOK
<1>6. BoundsInv' /\ StatusInv'
  BY <1>1, <1>2, <1>3, <1>4, WantedFacts DEF DaemonInv, TypeOK, BoundsInv, StatusInv, InitInv,
     Early, Has, Listed
<1>7. ShowInv'
  BY <1>1, <1>2, <1>3, <1>4 DEF DaemonInv, ShowInv, Has, RunningListsAll
<1>8. InitInv'
  BY <1>1, <1>2, <1>3, <1>4, WantedFacts DEF DaemonInv, InitInv, Early, Late, Loaded, Listed, Has
<1>9. StampInv'
  BY <1>1, <1>2, <1>3, <1>4 DEF DaemonInv, StampInv, StatusInv, Agrees, Has
<1>10. UpInv'
  BY <1>1, <1>2, <1>3, <1>4, WantedFacts DEF DaemonInv, InitInv, UpInv, Early, Late, Loaded, Ticks,
     Has
<1>11. StopInv'
  BY <1>1, <1>2, <1>3, <1>4, WantedFacts DEF DaemonInv, InitInv, StopInv, Early, Late
<1> QED
  BY <1>4, <1>5, <1>6, <1>7, <1>8, <1>9, <1>10, <1>11 DEF DaemonInv

-----------------------------------------------------------------------------
(* Between handlers                                                        *)

\* ProcMgr starts the daemon: the first step of on_initialized() is to come.
LEMMA StartKeeps == DaemonInv /\ Start => DaemonInv'
<1> SUFFICES ASSUME DaemonInv, Start PROVE DaemonInv'
  OBVIOUS
<1>1. /\ life = "down" /\ life' = "init" /\ code' = OnInitialized /\ told' = TRUE
      /\ app' = app /\ board' = board /\ enabled' = enabled /\ status' = status
      /\ image' = image /\ captured' = captured /\ todo' = todo /\ loaded' = loaded
      /\ regs' = regs /\ timer' = timer /\ complete' = complete /\ raised' = raised
      /\ numbers' = numbers /\ odd' = odd
      /\ show' = show /\ calm' = calm /\ partly' = partly /\ Wanted' = Wanted /\ app \in Apps
  BY DEF Start, world, options, cli, Wanted, DaemonInv, TypeOK
<1>2. /\ app = "telemexample" => Now' = "rearm"
      /\ app # "telemexample" => Now' = "clear"
      /\ OnInitialized' = OnInitialized /\ OnInitialized # <<>>
      /\ OnInitialized \in Seq(StepNames)
  <2>1. OnInitialized' = OnInitialized /\ OnInitialized \in Seq(StepNames)
    BY <1>1, HandlersAreSteps DEF OnInitialized, Apps
  <2>2. ASSUME app = "helloworld" PROVE OnInitialized # <<>> /\ Now' = "clear"
    <3>1. code' = HelloWorldInit /\ OnInitialized = HelloWorldInit
      BY <1>1, <2>2 DEF OnInitialized
    <3> QED
      BY <3>1 DEF Now, HelloWorldInit
  <2>3. ASSUME app = "nullverilog" PROVE OnInitialized # <<>> /\ Now' = "clear"
    <3>1. code' = NullVerilogInit /\ OnInitialized = NullVerilogInit
      BY <1>1, <2>3 DEF OnInitialized
    <3> QED
      BY <3>1 DEF Now, NullVerilogInit
  <2>4. ASSUME app = "tscore" PROVE OnInitialized # <<>> /\ Now' = "clear"
    <3>1. code' = TsCoreInit /\ OnInitialized = TsCoreInit
      BY <1>1, <2>4 DEF OnInitialized
    <3> QED
      BY <3>1 DEF Now, TsCoreInit
  <2>5. ASSUME app = "telemexample" PROVE OnInitialized # <<>> /\ Now' = "rearm"
    <3>1. code' = TelemInit /\ OnInitialized = TelemInit
      BY <1>1, <2>5 DEF OnInitialized
    <3> QED
      BY <3>1 DEF Now, TelemInit
  <2> QED
    BY <1>1, <2>1, <2>2, <2>3, <2>4, <2>5 DEF Apps
<1>3. HandlerInv'
  BY <1>1, <1>2, RestEnds DEF HandlerInv
<1>4. TypeOK'
  BY <1>1, <1>2 DEF DaemonInv, TypeOK
<1>5. BoundsInv' /\ StatusInv'
  BY <1>1, <1>2, WantedFacts DEF DaemonInv, BoundsInv, StatusInv, Has, Listed
<1>6. ShowInv'
  BY <1>1, <1>2 DEF DaemonInv, ShowInv, Has, RunningListsAll
<1>7. InitInv'
  BY <1>1, <1>2, WantedFacts DEF DaemonInv, InitInv, Early, Late, Loaded, Listed, Has
<1>8. StampInv'
  BY <1>1, <1>2 DEF DaemonInv, StampInv, StatusInv, Agrees, Has
<1>9. UpInv'
  BY <1>1, <1>2 DEF DaemonInv, UpInv, Loaded, Ticks, Has
<1>10. StopInv'
  BY <1>1, <1>2, WantedFacts DEF DaemonInv, StopInv, BoundsInv
<1> QED
  BY <1>3, <1>4, <1>5, <1>6, <1>7, <1>8, <1>9, <1>10 DEF DaemonInv

\* A process ends: its memory is gone, and no show command goes on undisturbed.
LEMMA EndKeeps == DaemonInv /\ (Stop \/ Kill) => DaemonInv'
<1> SUFFICES ASSUME DaemonInv, End, calm' = FALSE,
                    image' = image \/ \E f \in todo : image' \in {image \cup {f}, image \ {f}}
             PROVE  DaemonInv'
  BY DEF Stop, Kill
<1>1. /\ life' = "down" /\ code' = <<>> /\ todo' = {} /\ loaded' = {} /\ regs' = {}
      /\ timer' = FALSE /\ told' = FALSE /\ complete' = FALSE /\ raised' = FALSE
      /\ odd' = FALSE /\ numbers' = numbers /\ partly' = partly
      /\ app' = app /\ board' = board /\ enabled' = enabled /\ status' = status
      /\ captured' = captured /\ show' = show /\ Wanted' = Wanted /\ calm' = FALSE
      /\ image' = image \/ \E f \in todo : image' \in {image \cup {f}, image \ {f}}
  BY DEF End, world, Wanted
<1>2. Now' = "none" /\ app \in Apps
  BY <1>1 DEF Now, DaemonInv, TypeOK
<1>3. HandlerInv'
  BY <1>1 DEF HandlerInv
<1>4. TypeOK'
  BY <1>1, <1>2 DEF DaemonInv, TypeOK
<1>5. BoundsInv' /\ StatusInv'
  BY <1>1, <1>2 DEF DaemonInv, BoundsInv, StatusInv, Has, Listed
<1>6. ShowInv'
  BY <1>1 DEF DaemonInv, ShowInv, RunningListsAll
<1>7. InitInv' /\ StampInv' /\ UpInv' /\ StopInv'
  BY <1>1 DEF InitInv, StampInv, UpInv, StopInv
<1> QED
  BY <1>3, <1>4, <1>5, <1>6, <1>7 DEF DaemonInv

\* A command or a show command: nothing of the daemon changes but what is asked of it.
LEMMA ShowKeeps ==
    DaemonInv /\ (Show \/ SetOption \/ (\E on \in BOOLEAN : SetEnabled(on)) \/ UNCHANGED vars)
        => DaemonInv'
<1> SUFFICES ASSUME DaemonInv,
                    UNCHANGED <<app, board, status, image, captured, life, code, todo, process>>,
                    raised' = raised, odd' = odd, partly' = partly,
                    enabled' \in BOOLEAN, numbers' \in BOOLEAN,
                    ShowBegin \/ ShowRunning \/ ShowFpgas \/ UNCHANGED cli
             PROVE  DaemonInv'
  BY DEF Show, SetEnabled, SetOption, ShowBegin, ShowRunning, ShowFpgas, Unseen, vars, world, options,
         cli, DaemonInv, TypeOK
<1>1. /\ app' = app /\ board' = board /\ status' = status /\ image' = image
      /\ captured' = captured /\ life' = life /\ code' = code /\ todo' = todo
      /\ loaded' = loaded /\ regs' = regs /\ timer' = timer /\ told' = told
      /\ complete' = complete /\ raised' = raised
      /\ odd' = odd /\ partly' = partly /\ Wanted' = Wanted /\ Now' = Now
      /\ enabled' \in BOOLEAN /\ numbers' \in BOOLEAN
  BY DEF process, Wanted, Now
<1>2. /\ calm' \in BOOLEAN
      /\ show' \in [at : {"done", "running", "fpgas"}, running : BOOLEAN, fpgas : SUBSET Fpgas]
      /\ ShowInv'
  <2>0. /\ calm \in BOOLEAN /\ partly \in BOOLEAN /\ ShowInv
        /\ show \in [at : {"done", "running", "fpgas"}, running : BOOLEAN, fpgas : SUBSET Fpgas]
    BY DEF DaemonInv, TypeOK
  <2>1. CASE UNCHANGED cli
    BY <1>1, <2>0, <2>1 DEF ShowInv, RunningListsAll, Has, cli
  <2>2. CASE ShowBegin
    <3>1. DEFINE at == IF life = "down" THEN "done" ELSE "running"
    <3>2. /\ show' = [at |-> at, running |-> FALSE, fpgas |-> {}]
          /\ calm' \in BOOLEAN /\ (calm' => ~partly)
      BY <2>2, <2>0, Zenon DEF ShowBegin
    <3>3. at \in {"done", "running"} /\ (at # "done" => life # "down")
      OBVIOUS
    <3> HIDE DEF at
    <3>4. show'.at = at /\ show'.running = FALSE
      BY <3>2
    <3>5. show' \in [at : {"done", "running", "fpgas"}, running : BOOLEAN, fpgas : SUBSET Fpgas]
      BY <3>2, <3>3
    <3> QED
      BY <1>1, <2>0, <3>2, <3>3, <3>4, <3>5 DEF ShowInv, RunningListsAll
  <2>3. CASE ShowRunning
    <3>1. /\ show' = [at |-> "fpgas", running |-> Has("running"), fpgas |-> show.fpgas]
          /\ calm' = calm /\ partly' = partly /\ show.at = "running"
      BY <2>3 DEF ShowRunning
    <3>2. show'.at = "fpgas" /\ show'.running = Has("running")
      BY <3>1, Zenon
    <3>3. show.fpgas \in SUBSET Fpgas /\ Has("running") \in BOOLEAN
      BY <2>0 DEF Has
    <3>4. show' \in [at : {"done", "running", "fpgas"}, running : BOOLEAN, fpgas : SUBSET Fpgas]
      BY <3>1, <3>3, Zenon
    <3>5. show'.running => Has("running")'
      BY <1>1, <3>2 DEF Has
    <3> QED
      BY <1>1, <2>0, <3>1, <3>2, <3>4, <3>5 DEF ShowInv, RunningListsAll
  <2>4. CASE ShowFpgas
    <3>1. PICK listed : listed = IF life # "down" /\ Has("fpgas") THEN status["fpgas"] ELSE {}
      OBVIOUS
    <3>2. /\ show' = [at |-> "done", running |-> show.running, fpgas |-> listed]
          /\ calm' = calm /\ partly' = partly /\ show.at = "fpgas"
      BY <2>4, <3>1 DEF ShowFpgas
    <3>3. show'.at = "done" /\ show'.running = show.running /\ show'.fpgas = listed
      BY <3>2, Zenon
    <3>4. listed \in SUBSET Fpgas /\ show.running \in BOOLEAN
      BY <2>0, <3>1 DEF DaemonInv, StatusInv
    <3>5. show' \in [at : {"done", "running", "fpgas"}, running : BOOLEAN, fpgas : SUBSET Fpgas]
      BY <3>2, <3>4, Zenon
    <3>6. ASSUME app \in {"helloworld", "nullverilog"}, show.running, calm PROVE listed = Wanted
      BY <2>0, <3>1, <3>2, <3>6 DEF DaemonInv, StatusInv, Listed, ShowInv
    <3> QED
      BY <1>1, <2>0, <3>2, <3>3, <3>5, <3>6 DEF ShowInv, RunningListsAll
  <2> QED
    BY <2>1, <2>2, <2>3, <2>4
<1>3. TypeOK'
  BY <1>1, <1>2 DEF DaemonInv, TypeOK
<1>4. HandlerInv'
  BY <1>1 DEF DaemonInv, HandlerInv, Served, Closing, OnInitialized
<1>5. BoundsInv' /\ StatusInv'
  BY <1>1 DEF DaemonInv, BoundsInv, StatusInv, Has, Listed
<1>6. InitInv' /\ StampInv'
  BY <1>1 DEF DaemonInv, InitInv, StampInv, Loaded, Listed, Has, Agrees
<1>7. UpInv' /\ StopInv'
  BY <1>1 DEF DaemonInv, UpInv, StopInv, Loaded, Has, Ticks
<1> QED
  BY <1>2, <1>3, <1>4, <1>5, <1>6, <1>7 DEF DaemonInv

\* EosSdk calls a handler of a daemon that waits: on_timeout(), on_agent_option(),
\* on_agent_rpc().
LEMMA ServeKeeps == DaemonInv /\ (OnTimeout \/ OnAgentOption \/ OnAgentRpc) => DaemonInv'
<1> SUFFICES ASSUME DaemonInv, NEW g \in Served, NEW h, Rest(g, h), h # <<>>, Handle(h),
                    Head(h) # "last_timeout" => timer' = timer, numbers' \in BOOLEAN,
                    Head(h) \in {"last_timeout", "period", "trigger", "stamp"}, timer' \in BOOLEAN,
                    UNCHANGED <<life, todo, loaded, regs, told, complete>>
             PROVE  DaemonInv'
  <2>0. DaemonInv => numbers \in BOOLEAN /\ timer \in BOOLEAN
    BY DEF DaemonInv, TypeOK
  <2>1. ASSUME DaemonInv, OnTimeout PROVE DaemonInv'
    <3>1. CASE app = "telemexample"
      <4>1. TelemTick \in Served /\ Handle(TelemTick) /\ Rest(TelemTick, TelemTick)
        BY <2>1, <3>1, HandlersAreSteps, RestEnds DEF OnTimeout, Served
      <4>2. TelemTick # <<>> /\ Head(TelemTick) = "last_timeout"
        BY DEF TelemTick
      <4> QED
        BY <2>0, <2>1, <4>1, <4>2 DEF OnTimeout
    <3>2. CASE app # "telemexample"
      <4>1. Tick \in Served /\ Handle(Tick) /\ Rest(Tick, Tick)
        BY <2>1, <3>2, HandlersAreSteps, RestEnds DEF OnTimeout, Served
      <4>2. Tick # <<>> /\ Head(Tick) = "last_timeout"
        BY DEF Tick
      <4> QED
        BY <2>0, <2>1, <4>1, <4>2 DEF OnTimeout
    <3> QED
      BY <3>1, <3>2
  <2>2. ASSUME DaemonInv, OnAgentOption PROVE DaemonInv'
    <3>1. /\ Reflect \in Served /\ Handle(Reflect) /\ UNCHANGED <<life, todo, process>>
          /\ Rest(Reflect, Reflect) /\ numbers' \in BOOLEAN
      BY <2>2, HandlersAreSteps, RestEnds DEF OnAgentOption, Served
    <3>2. Reflect # <<>> /\ Head(Reflect) = "period"
      BY DEF Reflect
    <3> QED
      BY <2>0, <2>2, <3>1, <3>2 DEF process
  <2>3. ASSUME DaemonInv, OnAgentRpc PROVE DaemonInv'
    <3>1. PICK h \in {Rpc, Tail(Rpc)} : Handle(h)
      BY <2>3 DEF OnAgentRpc
    <3>2. Rpc \in Served /\ UNCHANGED <<numbers, life, todo, process>>
      BY <2>3 DEF OnAgentRpc, Served
    <3>3. Rest(Rpc, h)
      BY HandlersAreSteps, RestEnds, RestGoesOn DEF Rpc
    <3>4. h # <<>> /\ Head(h) \in {"trigger", "stamp"}
      BY DEF Rpc
    <3> QED
      BY <2>0, <2>3, <3>1, <3>2, <3>3, <3>4 DEF process
  <2> QED
    BY <2>1, <2>2, <2>3
<1>1. /\ life' = life /\ code' = h /\ timer' \in BOOLEAN
      /\ app' = app /\ board' = board /\ enabled' = enabled /\ status' = status
      /\ image' = image /\ captured' = captured /\ todo' = todo /\ loaded' = loaded
      /\ regs' = regs /\ told' = told /\ complete' = complete /\ raised' = raised
      /\ numbers' \in BOOLEAN /\ odd' = odd
      /\ show' = show /\ calm' = calm /\ partly' = partly /\ Wanted' = Wanted /\ app \in Apps
      /\ code = <<>> /\ life \in {"up", "stopping"}
  BY DEF Handle, Idle, world, cli, Wanted, DaemonInv, TypeOK
<1>2. /\ Now = "none" /\ Now' \in {"last_timeout", "period", "trigger", "stamp"}
      /\ Now' # "last_timeout" => timer' = timer
  BY <1>1 DEF Now
<1>3. HandlerInv'
  <2>1. Served' = Served
    BY <1>1 DEF Served
  <2> QED
    BY <1>1, <2>1 DEF HandlerInv
<1>4. TypeOK'
  BY <1>1, <1>2 DEF DaemonInv, TypeOK
<1>5. BoundsInv' /\ StatusInv'
  BY <1>1, <1>2, WantedFacts DEF DaemonInv, BoundsInv, StatusInv, Has, Listed
<1>6. ShowInv'
  BY <1>1, <1>2 DEF DaemonInv, ShowInv, Has, RunningListsAll
<1>7. InitInv'
  BY <1>1, <1>2, WantedFacts DEF DaemonInv, InitInv, Early, Late, Loaded, Listed, Has
<1>8. StampInv'
  BY <1>1, <1>2 DEF DaemonInv, StampInv, StatusInv, Agrees, Has
<1>9. UpInv'
  BY <1>1, <1>2 DEF DaemonInv, UpInv, Loaded, Ticks, Has
<1>10. StopInv'
  BY <1>1, <1>2, WantedFacts DEF DaemonInv, StopInv, BoundsInv
<1> QED
  BY <1>3, <1>4, <1>5, <1>6, <1>7, <1>8, <1>9, <1>10 DEF DaemonInv

\* EosSdk tells the daemon whether it is enabled: a daemon that ends goes on to its shutdown.
LEMMA AgentEnabledKeeps == DaemonInv /\ OnAgentEnabled => DaemonInv'
<1> SUFFICES ASSUME DaemonInv, NEW h \in {Closing, <<>>}, Handle(h),
                    h = Closing => life' = "stopping" /\ (todo' = loaded \/ Wanted = {}),
                    h = <<>> => life' = life,
                    todo' \in {todo, loaded}, told' \in BOOLEAN,
                    UNCHANGED <<numbers, loaded, regs, timer, complete>>
             PROVE  DaemonInv'
  <2> SUFFICES ASSUME DaemonInv, OnAgentEnabled PROVE DaemonInv'
    OBVIOUS
  <2> USE DEF OnAgentEnabled
  <2>0. enabled \in BOOLEAN
    BY DEF DaemonInv, TypeOK
  <2>1. CASE app = "telemexample"
    <3>1. Closing = TelemShutDown /\ TelemShutDown # <<>>
      BY <2>1 DEF Closing, TelemShutDown
    <3> QED
      BY <2>0, <2>1, <3>1, WantedFacts
  <2>2. CASE app # "telemexample" /\ ~enabled
    <3>1. Closing = ShutDown /\ ShutDown # <<>>
      BY <2>2 DEF Closing, ShutDown
    <3> QED
      BY <2>0, <2>2, <3>1
  <2>3. CASE app # "telemexample" /\ enabled
    <3>1. Closing = ShutDown /\ ShutDown # <<>>
      BY <2>3 DEF Closing, ShutDown
    <3> QED
      BY <2>0, <2>3, <3>1
  <2> QED
    BY <2>1, <2>2, <2>3
<1>1. /\ code' = h /\ timer' = timer /\ told' \in BOOLEAN
      /\ app' = app /\ board' = board /\ enabled' = enabled /\ status' = status
      /\ image' = image /\ captured' = captured /\ loaded' = loaded
      /\ regs' = regs /\ complete' = complete /\ raised' = raised
      /\ numbers' = numbers /\ odd' = odd
      /\ show' = show /\ calm' = calm /\ partly' = partly /\ Wanted' = Wanted /\ app \in Apps
      /\ code = <<>> /\ life \in {"up", "stopping"} /\ todo' \in {todo, loaded}
      /\ h = Closing => life' = "stopping" /\ (todo' = loaded \/ Wanted = {})
      /\ h = <<>> => life' = life
  BY DEF Handle, Idle, world, cli, Wanted, DaemonInv, TypeOK
<1>2. /\ Now = "none"
      /\ h = Closing => Now' = "never"
      /\ h = <<>> => Now' = "none"
      /\ life' \in {"up", "stopping"} /\ (life' = "up" => life = "up" /\ Now' = "none")
  <2>1. Now = "none" /\ (h = <<>> => Now' = "none")
    BY <1>1 DEF Now
  <2>2. Closing # <<>> /\ Head(Closing) = "never"
    <3>1. CASE app = "telemexample"
      BY <3>1 DEF Closing, TelemShutDown
    <3>2. CASE app # "telemexample"
      BY <3>2 DEF Closing, ShutDown
    <3> QED
      BY <3>1, <3>2
  <2>3. h = Closing => Now' = "never"
    BY <1>1, <2>2 DEF Now
  <2> QED
    BY <1>1, <2>1, <2>2, <2>3
<1>3. HandlerInv'
  <2>1. Served' = Served /\ Closing' = Closing /\ Closing \in Seq(StepNames)
    BY <1>1, HandlersAreSteps DEF Served, Closing
  <2>2. \A g \in Served : g \in Seq(StepNames)
    BY HandlersAreSteps DEF Served
  <2>3. \E g \in Served : g \in Seq(StepNames)
    BY HandlersAreSteps DEF Served
  <2> QED
    BY <1>1, <1>2, <2>1, <2>2, <2>3, RestEnds DEF HandlerInv
<1>4. TypeOK'
  BY <1>1, <1>2 DEF DaemonInv, TypeOK
<1>5. BoundsInv' /\ StatusInv'
  BY <1>1, <1>2, WantedFacts DEF DaemonInv, BoundsInv, StatusInv, Has, Listed
<1>6. ShowInv'
  BY <1>1, <1>2 DEF DaemonInv, ShowInv, Has, RunningListsAll
<1>7. InitInv'
  BY <1>1, <1>2, WantedFacts DEF DaemonInv, InitInv, Early, Late, Loaded, Listed, Has
<1>8. StampInv'
  BY <1>1, <1>2 DEF DaemonInv, StampInv, StatusInv, Agrees, Has
<1>9. UpInv'
  BY <1>1, <1>2 DEF DaemonInv, UpInv, Loaded, Ticks, Has
<1>10. StopInv'
  BY <1>1, <1>2, WantedFacts DEF DaemonInv, StopInv, BoundsInv
<1> QED
  BY <1>3, <1>4, <1>5, <1>6, <1>7, <1>8, <1>9, <1>10 DEF DaemonInv

\* A step of anyone keeps the invariant.
LEMMA NextDaemon == DaemonInv /\ [Next]_vars => DaemonInv'
<1> SUFFICES ASSUME DaemonInv, [Next]_vars PROVE DaemonInv'
  OBVIOUS
<1>1. ASSUME Loop PROVE DaemonInv'
  BY <1>1, LoadKeeps, UnloadKeeps, RaisesKeep DEF Loop
<1>2. ASSUME Step PROVE DaemonInv'
  BY <1>1, <1>2, StartKeeps, EndKeeps, ServeKeeps, AgentEnabledKeeps, WriteKeeps, ClearKeeps, ClearedKeeps,
     SetTimerKeeps, CompleteKeeps, EnumerateKeeps, PickKeeps, LoopEndsKeeps, RaisesKeep, NamesKeeps,
     ProbeKeeps, TriggerKeeps, ReadStampKeeps, NotReadyKeeps DEF Step
<1>3. ASSUME Command PROVE DaemonInv'
  BY <1>3, ServeKeeps, ShowKeeps DEF Command
<1>4. ASSUME Show \/ Kill \/ UNCHANGED vars PROVE DaemonInv'
  BY <1>4, ShowKeeps, EndKeeps
<1> QED
  BY <1>2, <1>3, <1>4 DEF Next

\* For any number of FPGAs, whatever raises, is killed or commanded, and wherever:
\* the process is at a step of a handler of its state, with what holds in front of it.
THEOREM DaemonInvariant == Spec => []DaemonInv
<1>1. Init => DaemonInv
  BY InitDaemon
<1>2. DaemonInv /\ [Next]_vars => DaemonInv'
  BY NextDaemon
<1> QED
  BY <1>1, <1>2, PTL DEF Spec
-----------------------------------------------------------------------------
(* The properties                                                          *)

\* "running" is in the status only while every FPGA the application has an image for
\* runs it and the daemon ticks, unless tscore has raised after it said so or a tick of
\* telemexample has met an option that is no number; and two forms of a timestamp are of
\* one trigger.
THEOREM RunningIsRealHolds == Spec => []RunningIsReal
<1>1. DaemonInv => RunningIsReal
  <2> SUFFICES ASSUME DaemonInv PROVE RunningIsReal
    OBVIOUS
  <2>1. TypeOK
    BY DEF DaemonInv
  <2>2. ASSUME life = "init", ~Doing("clear"), app # "telemexample", Has("running") PROVE Loaded
    <3>1. code # <<>> /\ app \in Apps /\ HandlerInv
      BY <2>2 DEF DaemonInv, TypeOK, HandlerInv
    <3>2. Now # "clear" /\ InitFlow(Now, Then)
      BY <2>2, <3>1, Flows DEF Now, Doing, Flow
    <3>3. Now \in Early \cup Late
      BY <2>2, <3>1, <3>2 DEF InitFlow, HelloFlow, TsCoreFlow, Early, Late, Apps
    <3> QED
      BY <2>2, <3>3 DEF DaemonInv, InitInv
  <2>3. life = "up" /\ Has("running") => Loaded
    BY DEF DaemonInv, UpInv
  <2>4. life = "up" /\ Idle /\ Has("running") => Ticks
    BY DEF DaemonInv, UpInv, Idle, Now
  <2>5. life = "up" /\ Idle /\ ~raised => Agrees
    BY DEF DaemonInv, StampInv, Idle, Now
  <2> QED
    BY <2>1, <2>2, <2>3, <2>4, <2>5 DEF RunningIsReal
<1> QED
  BY <1>1, DaemonInvariant, PTL

\* A show command that says "running" lists all FPGAs, unless the daemon ended or cleared
\* an entry of its status meanwhile, or the status was half cleared when it began.
THEOREM RunningListsAllHolds == Spec => []RunningListsAll
<1>1. DaemonInv => RunningListsAll
  BY DEF DaemonInv, ShowInv
<1> QED
  BY <1>1, DaemonInvariant, PTL

\* Only a handler that is at its last step reports the end of the shutdown.
LEMMA CompleteOnly == ASSUME [Next]_vars, ~complete, complete' PROVE Complete
<1>1. ~Stop /\ ~Kill
  BY DEF Stop, Kill, End
<1>2. ~Start /\ ~OnTimeout /\ ~OnAgentEnabled /\ ~Command
  BY DEF Start, OnTimeout, OnAgentEnabled, Command, OnAgentOption, OnAgentRpc, SetEnabled, SetOption,
         process
<1>3. ~Write /\ ~Clear /\ ~Cleared /\ ~SetTimer /\ ~Enumerate /\ ~Pick /\ ~LoopEnds /\ ~NothingToUnload
  BY DEF Write, Clear, Cleared, SetTimer, Enumerate, Pick, LoopEnds, NothingToUnload, process
<1>4. ~Loop
  BY DEF Loop, Load, LoadFails, NoRegisters, Unload, UnloadFails, process
<1>5. ~Names /\ ~Probe /\ ~Trigger /\ ~ReadStamp /\ ~Options /\ ~NoNumber /\ ~Send /\ ~NotReady /\ ~Fails
  BY DEF Names, Probe, Trigger, ReadStamp, Stamped, Options, NoNumber, Send, NotReady, Fails, process
<1>6. ~Show /\ ~UNCHANGED vars
  BY DEF Show, ShowBegin, ShowRunning, ShowFpgas, Unseen, process, vars
<1> QED
  BY <1>1, <1>2, <1>3, <1>4, <1>5, <1>6 DEF Next, Step

\* A daemon that reports the end of its shutdown has cleared its status and its timeout
\* and has given back every FPGA it loaded; if none of its handlers has raised, also
\* those that an earlier process left.
THEOREM ReleasedHolds == Spec => Released
<1>1. ASSUME DaemonInv, [Next]_vars, ~complete, complete'
      PROVE  /\ (status = NoStatus /\ ~timer /\ image \cap loaded = {})'
             /\ ~raised => image' = {}
  <2>1. Complete
    BY <1>1, CompleteOnly
  <2>2. Now = "complete" /\ code # <<>> /\ HandlerInv /\ app \in Apps
    BY <1>1, <2>1 DEF Complete, Doing, Now, DaemonInv, TypeOK
  <2>3. life = "stopping"
    <3>1. life \in {"init", "up", "stopping"} /\ Flow("complete", Then)
      BY <1>1, <2>2, Flows DEF DaemonInv, TypeOK, HandlerInv
    <3> QED
      BY <2>2, <3>1 DEF Flow, InitFlow, HelloFlow, TsCoreFlow, TelemFlow, ServeFlow, Apps
  <2>4. status' = status /\ image' = image /\ loaded' = loaded /\ timer' = timer
    BY <2>1 DEF Complete
  <2>5. status = NoStatus /\ ~timer /\ image \cap loaded = {}
    BY <1>1, <2>2, <2>3 DEF DaemonInv, StopInv
  <2>6. ~raised => image = {}
    BY <1>1, <2>3, <2>5 DEF DaemonInv, StopInv, BoundsInv
  <2> QED
    BY <2>4, <2>5, <2>6
<1>2. DaemonInv /\ [Next]_vars =>
          [~complete /\ complete' =>
              /\ (status = NoStatus /\ ~timer /\ image \cap loaded = {})'
              /\ ~raised => image' = {}]_vars
  BY <1>1
<1> QED
  BY <1>2, DaemonInvariant, PTL DEF Spec, Released

=============================================================================
