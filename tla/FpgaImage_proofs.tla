-------------------------- MODULE FpgaImage_proofs --------------------------
(***************************************************************************)
(* Proofs about FpgaImage, for every set of daemons, every set of clock    *)
(* profiles and any number of restarts.                                    *)
(***************************************************************************)
EXTENDS FpgaImage, TLAPS

\* No call is a call, and its clock is one.
LEMMA CallFacts ==
    /\ NoCall \in Calls
    /\ \A c \in Calls : c.clock \in Clocks
    /\ "default" \in Clocks
    BY DEF NoCall, Calls, Clocks

\* What the shared tails of the actions do to the variables they assign.
LEMMA EndType ==
    ASSUME TypeOK, NEW a \in Apps, NEW r \in Results, End(a, r)
    PROVE  /\ pc' \in [Apps -> Steps]
           /\ after' \in [Apps -> {"return", "load", "raise", "create"}]
           /\ args' \in [Apps -> Calls]
           /\ told' \in [Apps -> Results]
           /\ late' \in [Apps -> BOOLEAN]
    BY CallFacts DEF TypeOK, End, Goto, Steps

\* Recreating a profile keeps the types.
LEMMA RecreateType ==
    ASSUME TypeOK, NEW a \in Apps, NEW s, Recreate(a, s)
    PROVE  avail' \in SUBSET Apps /\ key' \in [Apps -> BOOLEAN]
<1>1. CASE s = "unavailable"
    <2>1. avail' = avail \cup {a} /\ key' = [key EXCEPT ![a] = TRUE]
        BY <1>1 DEF Recreate
    <2>2. avail' \in SUBSET Apps
        BY <2>1 DEF TypeOK
    <2>3. key' \in [Apps -> BOOLEAN]
        BY <2>1 DEF TypeOK
    <2>4. QED
        BY <2>2, <2>3
<1>2. CASE s # "unavailable"
    BY <1>2 DEF TypeOK, Recreate
<1>3. QED
    BY <1>1, <1>2

\* ... and so does the exception that ends a wait,
LEMMA RaiseType ==
    ASSUME TypeOK, NEW a \in Apps, NEW r \in Results, Raise(a, r)
    PROVE  /\ pc' \in [Apps -> Steps]
           /\ after' \in [Apps -> {"return", "load", "raise", "create"}]
           /\ told' \in [Apps -> Results]
           /\ avail' \in SUBSET Apps
           /\ key' \in [Apps -> BOOLEAN]
<1>1. PICK s \in Seen(a) : Recreate(a, s)
    BY DEF Raise
<1>2. avail' \in SUBSET Apps /\ key' \in [Apps -> BOOLEAN]
    BY <1>1, RecreateType
<1>3. QED
    BY <1>2 DEF TypeOK, Raise, Goto, Steps

\* the end of load_image(),
LEMMA FinishType ==
    ASSUME TypeOK, NEW a \in Apps, NEW r \in Results, Finish(a, r)
    PROVE  /\ pc' \in [Apps -> Steps]
           /\ after' \in [Apps -> {"return", "load", "raise", "create"}]
           /\ args' \in [Apps -> Calls]
           /\ told' \in [Apps -> Results]
           /\ late' \in [Apps -> BOOLEAN]
           /\ regs' \in [Apps -> BOOLEAN]
<1>1. regs' \in [Apps -> BOOLEAN]
    BY DEF TypeOK, Finish
<1>2. QED
    BY <1>1, EndType DEF Finish

\* and the end of a step of the clock generator.
LEMMA ClockDoneType ==
    ASSUME TypeOK, NEW a \in Apps, ClockDone(a)
    PROVE  /\ pc' \in [Apps -> Steps]
           /\ after' \in [Apps -> {"return", "load", "raise", "create"}]
           /\ args' \in [Apps -> Calls]
           /\ told' \in [Apps -> Results]
           /\ late' \in [Apps -> BOOLEAN]
           /\ regs' \in [Apps -> BOOLEAN]
<1>1. regs' \in [Apps -> BOOLEAN]
    BY DEF TypeOK, ClockDone, RegistersAfter
<1>2. CASE after[a] = "load"
    BY <1>1, <1>2 DEF TypeOK, ClockDone, Goto, Steps
<1>3. CASE after[a] = "create"
    BY <1>1, <1>3 DEF TypeOK, ClockDone, Goto, Steps
<1>4. CASE after[a] = "return"
    <2>1. End(a, "unloaded") /\ "unloaded" \in Results
        BY <1>4 DEF ClockDone, Results
    <2>2. QED
        BY <1>1, <2>1, EndType
<1>5. CASE after[a] = "raise"
    <2>1. End(a, told[a]) /\ told[a] \in Results
        BY <1>5 DEF ClockDone, TypeOK
    <2>2. QED
        BY <1>1, <2>1, EndType
<1>6. QED
    BY <1>2, <1>3, <1>4, <1>5 DEF TypeOK

\* Every step of a process inside a library call keeps the types.
LEMMA RunType ==
    ASSUME TypeOK, NEW a \in Apps, Step(a)
    PROVE  TypeOK'
<1> USE DEF makoVars, clkVars, procVars
<1>1. CASE Withdraw(a)
    BY <1>1, CallFacts DEF TypeOK, Withdraw, Goto, Steps, States
<1>2. CASE Sweep(a)
    BY <1>2 DEF TypeOK, Sweep, Goto, Steps
<1>3. CASE ClkSkip(a)
    BY <1>3, ClockDoneType DEF TypeOK, ClkSkip
<1>4. CASE ClkMissing(a) \/ ClkFail(a)
    BY <1>4, EndType DEF TypeOK, ClkMissing, ClkFail, Results
<1>5. CASE ClkBegin(a)
    BY <1>5 DEF TypeOK, ClkBegin, Goto, Steps
<1>6. CASE ClkEnd(a)
    BY <1>6, CallFacts DEF TypeOK, ClkEnd, Target, Goto, Steps
<1>7. CASE ClkReady(a)
    BY <1>7, ClockDoneType DEF TypeOK, ClkReady
<1>8. CASE Create(a)
    BY <1>8 DEF TypeOK, Create, Goto, Steps
<1>9. CASE Request(a)
    <2>1. want' \in SUBSET Apps /\ need' \in [Apps -> Clocks]
        BY <1>9, CallFacts DEF TypeOK, Request
    <2>2. CASE args[a].blocking
        BY <1>9, <2>1, <2>2 DEF TypeOK, Request, Goto, Steps
    <2>3. CASE ~args[a].blocking
        BY <1>9, <2>1, <2>3, FinishType DEF TypeOK, Request, Results
    <2>4. QED
        BY <2>2, <2>3
<1>10. CASE RequestRejected(a)
    BY <1>10, EndType DEF TypeOK, RequestRejected, Results
<1>11. CASE Poll1(a)
    <2>1. avail' \in SUBSET Apps /\ key' \in [Apps -> BOOLEAN] /\ pc' \in [Apps -> Steps]
        BY <1>11, RecreateType DEF TypeOK, Poll1, Goto, Steps
    <2>2. QED
        BY <1>11, <2>1 DEF TypeOK, Poll1
<1>12. CASE Poll2(a)
    <2>1. avail' \in SUBSET Apps /\ key' \in [Apps -> BOOLEAN] /\ pc' \in [Apps -> Steps]
        BY <1>12, RecreateType DEF TypeOK, Poll2, Goto, Steps
    <2>2. QED
        BY <1>12, <2>1 DEF TypeOK, Poll2
<1>13. CASE Check(a)
    <2>1. CASE Expired(a)
        BY <1>13, <2>1, RaiseType DEF TypeOK, Check, Results
    <2>2. CASE ~Expired(a)
        BY <1>13, <2>2 DEF TypeOK, Check, Goto, Steps
    <2>3. QED
        BY <2>1, <2>2
<1>14. CASE Poll3(a)
    <2>1. CASE Finish(a, "loaded") /\ UNCHANGED <<avail, key>>
        BY <1>14, <2>1, FinishType DEF TypeOK, Poll3, Results
    <2>2. CASE Raise(a, "failed") /\ UNCHANGED <<regs, args, late>>
        BY <1>14, <2>2, RaiseType DEF TypeOK, Poll3, Results
    <2>3. QED
        BY <1>14, <2>1, <2>2 DEF Poll3
<1>15. QED
    BY <1>1, <1>2, <1>3, <1>4, <1>5, <1>6, <1>7, <1>8, <1>9, <1>10, <1>11, <1>12,
       <1>13, <1>14 DEF Step, Run

\* Type correctness, for all constants.
THEOREM TypeCorrect == Spec => []TypeOK
<1>1. Init => TypeOK
    <2> SUFFICES ASSUME Init PROVE TypeOK
        OBVIOUS
    <2>1. /\ pc \in [Apps -> Steps]
          /\ after \in [Apps -> {"return", "load", "raise", "create"}]
          /\ told \in [Apps -> Results]
          /\ answer \in [Apps -> {"none", "yes", "no", "error"}]
          /\ late \in [Apps -> BOOLEAN]
          /\ key \in [Apps -> BOOLEAN]
          /\ fields \in [Apps -> BOOLEAN]
          /\ regs \in [Apps -> BOOLEAN]
          /\ state \in [Apps -> States]
        BY DEF Init, Steps, Results, States
    <2>2. args \in [Apps -> Calls] /\ need \in [Apps -> Clocks]
        BY CallFacts DEF Init
    <2>3. clk \in [profile : Clocks \cup {"partial"}, by : Apps \cup {NoApp}, ready : BOOLEAN]
        BY CallFacts DEF Init
    <2>4. crashes \in 0 .. MaxCrashes
        BY ClockAssumption DEF Init
    <2>5. QED
        BY <2>1, <2>2, <2>3, <2>4 DEF Init, TypeOK
<1>2. TypeOK /\ [Next]_vars => TypeOK'
    <2> SUFFICES ASSUME TypeOK, [Next]_vars PROVE TypeOK'
        OBVIOUS
    <2> USE DEF TypeOK, makoVars, clkVars, procVars
    <2>1. ASSUME NEW a \in Apps, Load(a) PROVE TypeOK'
        BY <2>1, CallFacts DEF Load, Goto, Steps, Results
    <2>2. ASSUME NEW a \in Apps, Unload(a) PROVE TypeOK'
        BY <2>2 DEF Unload, Goto, Steps, Results
    <2>3. ASSUME NEW a \in Apps, Query(a) PROVE TypeOK'
        <3>1. PICK s \in Seen(a) :
                \/ answer' = [answer EXCEPT ![a] = "error"] /\ UNCHANGED <<avail, key>>
                \/ /\ answer' = [answer EXCEPT ![a] =
                                    IF Reported(s) = "applied" THEN "yes" ELSE "no"]
                   /\ Recreate(a, s)
            BY <2>3 DEF Query
        <3>2. avail' \in SUBSET Apps /\ key' \in [Apps -> BOOLEAN]
            BY <3>1, RecreateType
        <3>3. QED
            BY <2>3, <3>1, <3>2 DEF Query
    <2>4. ASSUME NEW a \in Apps, Step(a) PROVE TypeOK'
        BY <2>4, RunType
    <2>5. ASSUME NEW a \in Apps, Tick(a) PROVE TypeOK'
        BY <2>5 DEF Tick
    <2>6. ASSUME NEW a \in Apps, Crash(a) PROVE TypeOK'
        BY <2>6, ClockAssumption, EndType DEF Crash, Results
    <2>7. CASE MakoStart
        BY <2>7 DEF MakoStart
    <2>8. CASE MakoClear
        BY <2>8 DEF MakoClear
    <2>9. ASSUME NEW b \in Apps, MakoPick(b) PROVE TypeOK'
        BY <2>9 DEF MakoPick, States
    <2>10. ASSUME NEW b \in Apps, MakoFinish(b) PROVE TypeOK'
        BY <2>10 DEF MakoFinish, States
    <2>11. CASE SmbusUp
        BY <2>11 DEF SmbusUp
    <2>12. CASE ClkLock
        BY <2>12 DEF ClkLock
    <2>13. CASE UNCHANGED vars
        BY <2>13 DEF vars
    <2>14. QED
        BY <2>1, <2>2, <2>3, <2>4, <2>5, <2>6, <2>7, <2>8, <2>9, <2>10, <2>11, <2>12,
           <2>13 DEF Next, Mako
<1>3. QED
    BY <1>1, <1>2, PTL DEF Spec
-----------------------------------------------------------------------------
(* What a daemon's own state says about its request in MakoProfile.  The   *)
(* request outlives calls and daemons, so each clause ties it to the point *)
(* the call has reached.                                                   *)

ClkSteps == {"clkOpen", "clkWrite", "clkWait"}
PollSteps == {"poll1", "poll2", "check", "poll3"}
Failures == {"timeout", "failed"}

CallInv(b) ==
    /\ pc[b] \in {"sweep", "create", "request"} \cup ClkSteps => b \notin want
    /\ pc[b] \in PollSteps => b \in want
    /\ pc[b] \in {"withdraw", "sweep"} => after[b] # "create"
    /\ pc[b] \in {"create", "request"} \cup PollSteps => after[b] = "create"
    /\ pc[b] \in ClkSteps /\ after[b] # "create" => ~key[b]
    /\ regs[b] => \/ b \in want
                  \/ pc[b] \in {"withdraw", "sweep"} \cup ClkSteps /\ after[b] # "create"
                  \/ pc[b] = "idle" /\ told[b] = "unloadFailed"
    /\ told[b] \in Failures /\ pc[b] # "idle" => after[b] = "raise"
    /\ told[b] \in Failures /\ pc[b] = "idle" => b \notin want /\ ~key[b] /\ ~regs[b]
    /\ told[b] = "unloadFailed" => pc[b] = "idle" /\ b \notin want /\ ~key[b]

\* No script name is part of another's.
Distinct == \A a \in Apps : Match[a] = {a}

\* What CallInv(b) reads does not change.
Same(b) ==
    /\ pc'[b] = pc[b]
    /\ after'[b] = after[b]
    /\ told'[b] = told[b]
    /\ key'[b] = key[b]
    /\ regs'[b] = regs[b]
    /\ b \in want' <=> b \in want

\* CallInv(b) depends on nothing else.
LEMMA Frame ==
    ASSUME NEW b \in Apps, CallInv(b), Same(b)
    PROVE  CallInv(b)'
    BY DEF CallInv, Same

\* A step of one daemon leaves what CallInv says of another alone.
LEMMA RunOthers ==
    ASSUME TypeOK, NEW a \in Apps, Step(a), NEW b \in Apps, b # a
    PROVE  Same(b)
<1> USE DEF Same, TypeOK, Goto, End, makoVars, procVars
<1>1. CASE Withdraw(a)
    BY <1>1 DEF Withdraw
<1>2. CASE Sweep(a)
    BY <1>2 DEF Sweep
<1>3. CASE ClkSkip(a) \/ ClkReady(a)
    BY <1>3 DEF ClkSkip, ClkReady, ClockDone, RegistersAfter
<1>4. CASE ClkMissing(a) \/ ClkFail(a)
    BY <1>4 DEF ClkMissing, ClkFail
<1>5. CASE ClkBegin(a) \/ ClkEnd(a)
    BY <1>5 DEF ClkBegin, ClkEnd
<1>6. CASE Create(a)
    BY <1>6 DEF Create
<1>7. CASE Request(a)
    BY <1>7 DEF Request, Finish
<1>8. CASE RequestRejected(a)
    BY <1>8 DEF RequestRejected
<1>9. CASE Poll1(a) \/ Poll2(a)
    BY <1>9 DEF Poll1, Poll2, Recreate
<1>10. CASE Check(a)
    BY <1>10 DEF Check, Raise, Recreate
<1>11. CASE Poll3(a)
    BY <1>11 DEF Poll3, Finish, Raise, Recreate
<1>12. QED
    BY <1>1, <1>2, <1>3, <1>4, <1>5, <1>6, <1>7, <1>8, <1>9, <1>10, <1>11 DEF Step, Run

\* A step of a daemon inside a call keeps its own clause.
LEMMA RunOwn ==
    ASSUME TypeOK, NEW a \in Apps, Step(a), CallInv(a)
    PROVE  CallInv(a)'
<1> USE DEF CallInv, TypeOK, Goto, End, makoVars, procVars, ClkSteps, PollSteps, Failures
<1>1. CASE Withdraw(a)
    BY <1>1 DEF Withdraw
<1>2. CASE Sweep(a)
    BY <1>2 DEF Sweep
<1>3. CASE ClkSkip(a) \/ ClkReady(a)
    <2>1. pc[a] \in ClkSteps /\ ClockDone(a) /\ UNCHANGED <<key, want>>
        BY <1>3 DEF ClkSkip, ClkReady
    <2>2. CASE after[a] = "load"
        BY <2>1, <2>2 DEF ClockDone, RegistersAfter
    <2>3. CASE after[a] = "create"
        BY <2>1, <2>3 DEF ClockDone, RegistersAfter
    <2>4. CASE after[a] = "return"
        BY <2>1, <2>4 DEF ClockDone, RegistersAfter
    <2>5. CASE after[a] = "raise"
        BY <2>1, <2>5 DEF ClockDone, RegistersAfter
    <2>6. QED
        BY <2>2, <2>3, <2>4, <2>5
<1>4. CASE ClkMissing(a)
    <2>1. after[a] = "create"
        BY <1>4 DEF ClkMissing, Target
    <2>2. QED
        BY <1>4, <2>1 DEF ClkMissing
<1>13. CASE ClkFail(a)
    <2>1. pc[a] \in ClkSteps /\ pc'[a] = "idle" /\ UNCHANGED <<key, regs, want>>
        BY <1>13 DEF ClkFail
    <2>2. CASE after[a] = "create"
        BY <1>13, <2>1, <2>2 DEF ClkFail
    <2>3. CASE after[a] # "create"
        BY <1>13, <2>1, <2>3 DEF ClkFail
    <2>4. QED
        BY <2>2, <2>3
<1>5. CASE ClkBegin(a) \/ ClkEnd(a)
    BY <1>5 DEF ClkBegin, ClkEnd
<1>6. CASE Create(a)
    BY <1>6 DEF Create
<1>7. CASE Request(a)
    BY <1>7 DEF Request, Finish
<1>8. CASE RequestRejected(a)
    BY <1>8 DEF RequestRejected
<1>9. CASE Poll1(a) \/ Poll2(a)
    BY <1>9 DEF Poll1, Poll2, Recreate
<1>10. CASE Check(a)
    BY <1>10 DEF Check, Raise, Recreate
<1>11. CASE Poll3(a)
    BY <1>11 DEF Poll3, Finish, Raise, Recreate
<1>12. QED
    BY <1>1, <1>2, <1>3, <1>4, <1>5, <1>6, <1>7, <1>8, <1>9, <1>10, <1>11, <1>13 DEF Step, Run

\* Every daemon's clause holds in every reachable state.
THEOREM CallInvariant == Distinct => (Spec => []\A b \in Apps : CallInv(b))
<1> SUFFICES ASSUME Distinct PROVE Spec => []\A b \in Apps : CallInv(b)
    OBVIOUS
<1> DEFINE Inv == \A b \in Apps : CallInv(b)
<1>1. Init => Inv
    BY DEF Init, CallInv, ClkSteps, PollSteps, Failures
<1>2. TypeOK /\ Inv /\ [Next]_vars => Inv'
    <2> SUFFICES ASSUME TypeOK, Inv, [Next]_vars, NEW b \in Apps PROVE CallInv(b)'
        OBVIOUS
    <2>0. CallInv(b)
        OBVIOUS
    <2>1. ASSUME NEW a \in Apps, Load(a) \/ Unload(a) PROVE CallInv(b)'
        <3>1. CASE b = a
            BY <2>0, <2>1, <3>1 DEF Load, Unload, CallInv, TypeOK, Goto, makoVars, ClkSteps,
               PollSteps, Failures
        <3>2. CASE b # a
            BY <2>0, <2>1, <3>2, Frame DEF Load, Unload, Same, TypeOK, Goto, makoVars
        <3>3. QED
            BY <3>1, <3>2
    <2>2. ASSUME NEW a \in Apps, Query(a) PROVE CallInv(b)'
        <3>1. UNCHANGED <<pc, after, told, regs, want>> /\ pc[a] = "idle"
            BY <2>2 DEF Query
        <3>2. CASE UNCHANGED key
            BY <2>0, <3>1, <3>2, Frame DEF Same
        <3>3. CASE key' = [key EXCEPT ![a] = TRUE] /\ "unavailable" \in Seen(a)
            <4>1. a \in want
                BY <3>3 DEF Seen, Entries, Distinct
            <4>2. CASE b = a
                BY <2>0, <3>1, <4>1, <4>2 DEF CallInv, ClkSteps, PollSteps
            <4>3. CASE b # a
                BY <2>0, <3>1, <3>3, <4>3, Frame DEF Same, TypeOK
            <4>4. QED
                BY <4>2, <4>3
        <3>4. QED
            BY <2>2, <3>2, <3>3 DEF Query, Recreate
    <2>3. ASSUME NEW a \in Apps, Step(a) PROVE CallInv(b)'
        <3>1. CASE b = a
            BY <2>0, <2>3, <3>1, RunOwn
        <3>2. CASE b # a
            BY <2>0, <2>3, <3>2, RunOthers, Frame
        <3>3. QED
            BY <3>1, <3>2
    <2>4. ASSUME NEW a \in Apps, Tick(a) PROVE CallInv(b)'
        BY <2>0, <2>4, Frame DEF Tick, Same, makoVars
    <2>5. ASSUME NEW a \in Apps, Crash(a) PROVE CallInv(b)'
        <3>1. CASE b = a
            BY <2>0, <2>5, <3>1 DEF Crash, End, CallInv, TypeOK, Goto, makoVars, ClkSteps,
               PollSteps, Failures
        <3>2. CASE b # a
            BY <2>0, <2>5, <3>2, Frame DEF Crash, End, Same, TypeOK, Goto, makoVars
        <3>3. QED
            BY <3>1, <3>2
    <2>6. CASE Mako
        BY <2>0, <2>6, Frame DEF Mako, MakoStart, MakoClear, MakoPick, MakoFinish, Same, procVars
    <2>7. CASE SmbusUp \/ ClkLock
        BY <2>0, <2>7, Frame DEF SmbusUp, ClkLock, Same, procVars, makoVars
    <2>8. CASE UNCHANGED vars
        BY <2>0, <2>8, Frame DEF vars, Same, procVars, makoVars
    <2>9. QED
        BY <2>1, <2>2, <2>3, <2>4, <2>5, <2>6, <2>7, <2>8 DEF Next
<1>3. QED
    BY <1>1, <1>2, TypeCorrect, PTL DEF Spec

\* A failed load leaves nothing of it behind, whatever the other daemons,
\* MakoProfile and the supervisor do.
THEOREM FailureUndoneHolds == Distinct => (Spec => []FailureUndone)
<1>1. (\A b \in Apps : CallInv(b)) => FailureUndone
    BY DEF CallInv, FailureUndone, Failures, Idle
<1>2. QED
    BY <1>1, CallInvariant, PTL

\* Fpga.registers outlives the request for its image only where the clock load of an
\* unload_image() raised: whatever fails, times out or dies otherwise, and in any order.
THEOREM RegistersFollowImageHolds == Distinct => (Spec => []RegistersFollowImage)
<1>1. TypeOK /\ (\A b \in Apps : CallInv(b)) => RegistersFollowImage
    BY DEF CallInv, RegistersFollowImage, Idle, ClkSteps
<1>2. QED
    BY <1>1, CallInvariant, TypeCorrect, PTL
-----------------------------------------------------------------------------
(* The clock generator.  The library takes no lock on the chip, so what    *)
(* follows is about an FPGA that one daemon drives.                        *)

Restored == {"timeout", "failed", "unloaded"}

ClockInv(a) ==
    /\ pc[a] = "clkWrite" => clk.by = a
    /\ pc[a] = "clkWait" => clk.profile = Target(a)
    /\ pc[a] \in {"create", "request"} /\ args[a].clock # "keep" =>
            clk.profile = args[a].clock /\ clk.ready
    /\ a \in want /\ need[a] # "keep" => clk.profile = need[a] /\ clk.ready
    /\ pc[a] = "idle" /\ told[a] \in Restored => clk.profile = "default" /\ clk.ready

\* Each step of a library call keeps ClockInv: the chip is only written where
\* CallInv says that nothing is requested.
LEMMA RunClock ==
    ASSUME HasClkGen, TypeOK, NEW a \in Apps, CallInv(a), ClockInv(a), Step(a)
    PROVE  ClockInv(a)'
<1> USE DEF ClockInv, TypeOK, Goto, makoVars, clkVars, procVars
<1> USE DEF CallInv, ClkSteps, PollSteps
<1>1. CASE Withdraw(a)
    BY <1>1 DEF Withdraw
<1>2. CASE Sweep(a)
    BY <1>2 DEF Sweep
<1>3. CASE ClkSkip(a) \/ ClkReady(a)
    <2>1. /\ pc[a] \in ClkSteps
          /\ ClockDone(a)
          /\ UNCHANGED <<want, need, clk>>
        BY <1>3 DEF ClkSkip, ClkReady
    <2>2. \/ after[a] = "create" /\ args[a].clock = "keep"
          \/ clk.profile = Target(a) /\ clk.ready
        BY <1>3 DEF ClkSkip, ClkReady, Skipped, Target, DeviceReady
    <2>3. CASE after[a] = "load"
        BY <2>1, <2>3 DEF ClockDone
    <2>4. CASE after[a] = "create"
        BY <2>1, <2>2, <2>4 DEF ClockDone, Target
    <2>5. CASE after[a] = "return"
        BY <2>1, <2>2, <2>5 DEF ClockDone, End, Target
    <2>6. CASE after[a] = "raise"
        BY <2>1, <2>2, <2>6 DEF ClockDone, End, Target
    <2>7. QED
        BY <2>3, <2>4, <2>5, <2>6
<1>4. CASE ClkMissing(a) \/ ClkFail(a)
    BY <1>4 DEF ClkMissing, ClkFail, End, Restored
<1>5. CASE ClkBegin(a)
    BY <1>5 DEF ClkBegin
<1>6. CASE ClkEnd(a)
    <2>1. clk'.profile = Target(a)
        BY <1>6 DEF ClkEnd
    <2>2. Target(a)' = Target(a)
        BY <1>6 DEF ClkEnd, Target
    <2>3. QED
        BY <1>6, <2>1, <2>2 DEF ClkEnd
<1>7. CASE Create(a)
    BY <1>7 DEF Create
<1>8. CASE Request(a)
    <2>1. need'[a] = args[a].clock /\ clk' = clk
        BY <1>8 DEF Request
    <2>2. pc'[a] = "poll1" \/ told'[a] = "started"
        BY <1>8 DEF Request, Finish, End
    <2>3. pc'[a] \in {"poll1", "idle"}
        BY <1>8 DEF Request, Finish, End
    <2>4. QED
        BY <1>8, <2>1, <2>2, <2>3 DEF Request, Restored
<1>9. CASE RequestRejected(a)
    BY <1>9 DEF RequestRejected, End, Restored
<1>10. CASE Poll1(a) \/ Poll2(a)
    BY <1>10 DEF Poll1, Poll2
<1>11. CASE Check(a)
    BY <1>11 DEF Check, Raise
<1>12. CASE Poll3(a)
    BY <1>12 DEF Poll3, Finish, End, Raise, Restored
<1>13. QED
    BY <1>1, <1>2, <1>3, <1>4, <1>5, <1>6, <1>7, <1>8, <1>9, <1>10, <1>11, <1>12 DEF Step, Run

\* The state of the clock chip at every step of a daemon's calls, restarts included.
THEOREM ClockInvariant ==
    ASSUME NEW a, Apps = {a}, Match[a] = {a}, HasClkGen
    PROVE  Spec => []ClockInv(a)
<1>1. Init => ClockInv(a)
    BY DEF Init, ClockInv, Restored
<1>2. TypeOK /\ CallInv(a) /\ ClockInv(a) /\ [Next]_vars => ClockInv(a)'
    <2> SUFFICES ASSUME TypeOK, CallInv(a), ClockInv(a), [Next]_vars PROVE ClockInv(a)'
        OBVIOUS
    <2> USE DEF makoVars, clkVars, procVars
    <2>1. CASE Load(a) \/ Unload(a)
        BY <2>1 DEF Load, Unload, ClockInv, TypeOK, Goto
    <2>2. CASE Query(a)
        BY <2>2 DEF Query, ClockInv, Target
    <2>3. CASE Step(a)
        BY <2>3, RunClock
    <2>4. CASE Tick(a)
        BY <2>4 DEF Tick, ClockInv, Target
    <2>5. CASE Crash(a)
        BY <2>5 DEF Crash, End, ClockInv, TypeOK, Goto, Restored
    <2>6. CASE Mako
        BY <2>6 DEF Mako, MakoStart, MakoClear, MakoPick, MakoFinish, ClockInv, Target
    <2>7. CASE SmbusUp
        BY <2>7 DEF SmbusUp, ClockInv, Target
    <2>8. CASE ClkLock
        <3>1. /\ clk'.profile = clk.profile
              /\ clk'.by = clk.by
              /\ clk'.ready
            BY <2>8 DEF ClkLock, TypeOK
        <3>2. QED
            BY <2>8, <3>1 DEF ClkLock, ClockInv, Target
    <2>9. CASE UNCHANGED vars
        BY <2>9 DEF vars, ClockInv, Target
    <2>10. QED
        BY <2>1, <2>2, <2>3, <2>4, <2>5, <2>6, <2>7, <2>8, <2>9 DEF Next
<1>3. Distinct
    BY DEF Distinct
<1>4. (\A b \in Apps : CallInv(b)) => CallInv(a)
    OBVIOUS
<1>5. QED
    BY <1>1, <1>2, <1>3, <1>4, TypeCorrect, CallInvariant, PTL DEF Spec

\* With one daemon on the FPGA, MakoProfile never holds a request for an image
\* whose clock is not configured and locked, through every failure and restart.
THEOREM ClockBeforeImageHolds ==
    ASSUME NEW a, Apps = {a}, Match[a] = {a}, HasClkGen
    PROVE  Spec => []ClockBeforeImage
<1>1. TypeOK /\ ClockInv(a) => ClockBeforeImage
    BY DEF TypeOK, ClockInv, ClockBeforeImage
<1>2. QED
    BY <1>1, TypeCorrect, ClockInvariant, PTL

\* ... and every unload, and every failed load, leaves the default clock, locked.
THEOREM ClockRestoredHolds ==
    ASSUME NEW a, Apps = {a}, Match[a] = {a}, HasClkGen
    PROVE  Spec => []ClockRestored
<1>1. ClockInv(a) => ClockRestored
    BY DEF ClockInv, ClockRestored, Restored, Idle
<1>2. QED
    BY <1>1, ClockInvariant, PTL
-----------------------------------------------------------------------------
(* The three reads of profile_state() in one turn of the waiting loop.     *)

\* MakoProfile only moves a request forward, so a later read never says less.
PollInv(b) ==
    /\ b \notin want => state[b] = "none"
    /\ pc[b] = "poll2" => state[b] \in {"applying", "applied", "failed"}
    /\ pc[b] = "poll3" => state[b] \in {"applied", "failed"}
    /\ told[b] = "loaded" => pc[b] = "idle"

\* While a daemon waits, what it reads is the status of its own request.
LEMMA SeenIsOwn ==
    ASSUME Distinct, NEW a \in Apps, a \in want, NEW s \in Seen(a)
    PROVE  s = state[a]
<1>1. Entries(a) = {a}
    BY DEF Distinct, Entries
<1>2. QED
    BY <1>1 DEF Seen

\* A step inside a call keeps the daemon's own clause: the loop only goes on
\* to its next read when the read before saw something.
LEMMA RunPoll ==
    ASSUME TypeOK, Distinct, NEW a \in Apps, Step(a), CallInv(a), PollInv(a)
    PROVE  PollInv(a)'
<1> USE DEF PollInv, TypeOK, Goto, End, makoVars, procVars
<1>1. CASE Withdraw(a)
    BY <1>1 DEF Withdraw
<1>2. CASE Sweep(a)
    BY <1>2 DEF Sweep
<1>3. CASE ClkSkip(a) \/ ClkReady(a)
    BY <1>3 DEF ClkSkip, ClkReady, ClockDone
<1>4. CASE ClkMissing(a) \/ ClkFail(a)
    BY <1>4 DEF ClkMissing, ClkFail
<1>5. CASE ClkBegin(a) \/ ClkEnd(a)
    BY <1>5 DEF ClkBegin, ClkEnd
<1>6. CASE Create(a)
    BY <1>6 DEF Create
<1>7. CASE Request(a)
    BY <1>7 DEF Request, Finish
<1>8. CASE RequestRejected(a)
    BY <1>8 DEF RequestRejected
<1>9. CASE Poll1(a)
    <2>1. a \in want
        BY <1>9 DEF Poll1, CallInv, PollSteps
    <2>2. pc'[a] = "poll2" => Reported(state[a]) # "none"
        BY <1>9, <2>1, SeenIsOwn DEF Poll1
    <2>3. pc'[a] \in {"poll2", "check"}
        BY <1>9 DEF Poll1
    <2>4. QED
        BY <1>9, <2>2, <2>3 DEF Poll1, Reported, States
<1>10. CASE Poll2(a)
    <2>1. a \in want
        BY <1>10 DEF Poll2, CallInv, PollSteps
    <2>2. pc'[a] = "poll3" => Reported(state[a]) # "applying"
        BY <1>10, <2>1, SeenIsOwn DEF Poll2
    <2>3. pc'[a] \in {"poll3", "check"}
        BY <1>10 DEF Poll2
    <2>4. QED
        BY <1>10, <2>2, <2>3 DEF Poll2, Reported
<1>11. CASE Check(a)
    BY <1>11 DEF Check, Raise
<1>12. CASE Poll3(a)
    BY <1>12 DEF Poll3, Finish, Raise
<1>13. QED
    BY <1>1, <1>2, <1>3, <1>4, <1>5, <1>6, <1>7, <1>8, <1>9, <1>10, <1>11, <1>12 DEF Step, Run

\* A daemon only ever touches the status of its own request.
LEMMA RunStatus ==
    ASSUME TypeOK, NEW a \in Apps, Step(a), NEW b \in Apps, b # a
    PROVE  state'[b] = state[b]
    BY DEF Step, Run, TypeOK, Withdraw, Sweep, ClkSkip, ClkMissing, ClkFail, ClkBegin, ClkEnd, ClkReady,
       Create, Request, RequestRejected, Poll1, Poll2, Check, Poll3, makoVars

\* What PollInv(b) reads does not change, or MakoProfile moves b's request on.
LEMMA PollFrame ==
    ASSUME NEW b \in Apps, PollInv(b), Same(b), state'[b] = state[b]
    PROVE  PollInv(b)'
    BY DEF PollInv, Same

\* Every daemon's clause holds in every reachable state.
THEOREM PollInvariant == Distinct => (Spec => []\A b \in Apps : PollInv(b))
<1> SUFFICES ASSUME Distinct PROVE Spec => []\A b \in Apps : PollInv(b)
    OBVIOUS
<1> DEFINE Calm == \A b \in Apps : CallInv(b)
           Inv  == \A b \in Apps : PollInv(b)
<1>1. Init => Inv
    BY DEF Init, PollInv
<1>2. TypeOK /\ Calm /\ Inv /\ [Next]_vars => Inv'
    <2> SUFFICES ASSUME TypeOK, Calm, Inv, [Next]_vars, NEW b \in Apps PROVE PollInv(b)'
        OBVIOUS
    <2>0. PollInv(b) /\ CallInv(b)
        OBVIOUS
    <2>1. ASSUME NEW a \in Apps, Load(a) \/ Unload(a) PROVE PollInv(b)'
        BY <2>0, <2>1 DEF Load, Unload, PollInv, TypeOK, Goto, makoVars
    <2>2. ASSUME NEW a \in Apps, Query(a) PROVE PollInv(b)'
        BY <2>0, <2>2 DEF Query, PollInv
    <2>3. ASSUME NEW a \in Apps, Step(a) PROVE PollInv(b)'
        <3>1. CASE b = a
            BY <2>0, <2>3, <3>1, RunPoll
        <3>2. CASE b # a
            BY <2>0, <2>3, <3>2, RunOthers, RunStatus, PollFrame
        <3>3. QED
            BY <3>1, <3>2
    <2>4. ASSUME NEW a \in Apps, Tick(a) PROVE PollInv(b)'
        BY <2>0, <2>4 DEF Tick, PollInv, makoVars
    <2>5. ASSUME NEW a \in Apps, Crash(a) PROVE PollInv(b)'
        BY <2>0, <2>5 DEF Crash, End, PollInv, TypeOK, Goto, makoVars
    <2>6. CASE MakoStart \/ MakoClear
        BY <2>0, <2>6 DEF MakoStart, MakoClear, PollInv, procVars
    <2>7. ASSUME NEW c \in Apps, MakoPick(c) PROVE PollInv(b)'
        BY <2>0, <2>7 DEF MakoPick, PollInv, TypeOK, procVars
    <2>8. ASSUME NEW c \in Apps, MakoFinish(c) PROVE PollInv(b)'
        BY <2>0, <2>8 DEF MakoFinish, PollInv, TypeOK, procVars
    <2>9. CASE SmbusUp \/ ClkLock
        BY <2>0, <2>9 DEF SmbusUp, ClkLock, PollInv, procVars, makoVars
    <2>10. CASE UNCHANGED vars
        BY <2>0, <2>10 DEF vars, PollInv, procVars, makoVars
    <2>11. QED
        BY <2>1, <2>2, <2>3, <2>4, <2>5, <2>6, <2>7, <2>8, <2>9, <2>10 DEF Next, Mako
<1>3. QED
    BY <1>1, <1>2, TypeCorrect, CallInvariant, PTL DEF Spec
\* "Failed to program FPGA" is only reported of a request that MakoProfile has
\* failed: a daemon whose three reads straddle MakoProfile's steps is not misled.
THEOREM FailureIsRealHolds == Distinct => (Spec => FailureIsReal)
<1> SUFFICES ASSUME Distinct PROVE Spec => FailureIsReal
    OBVIOUS
<1> DEFINE Calm == \A b \in Apps : CallInv(b)
           Inv  == \A b \in Apps : PollInv(b)
           Real == \A a \in Apps : told[a] # "failed" /\ told'[a] = "failed" => state[a] = "failed"
<1>1. TypeOK /\ Calm /\ Inv /\ [Next]_vars => [Real]_vars
    <2> SUFFICES ASSUME TypeOK, Calm, Inv, Next, NEW b \in Apps,
                        told[b] # "failed", told'[b] = "failed"
                 PROVE  state[b] = "failed"
        OBVIOUS
    <2> USE DEF TypeOK, End, makoVars, procVars
    <2>1. ASSUME NEW a \in Apps, Load(a) \/ Unload(a) \/ Query(a) \/ Tick(a) \/ Crash(a)
          PROVE  FALSE
        BY <2>1 DEF Load, Unload, Query, Tick, Crash
    <2>2. ASSUME NEW a \in Apps, Step(a) PROVE state[b] = "failed"
        <3>1. b = a
            BY <2>2, RunOthers DEF Same
        <3>2. ASSUME ~Poll3(a) PROVE FALSE
            BY <2>2, <3>1, <3>2 DEF Step, Run, Withdraw, Sweep, ClkSkip, ClkMissing, ClkFail, ClkBegin, ClkEnd,
               ClkReady, ClockDone, Create, Request, RequestRejected, Finish, Poll1, Poll2,
               Check, Raise
        <3>3. a \in want /\ state[a] \in {"applied", "failed"}
            BY <3>1, <3>2 DEF Poll3, CallInv, PollInv, PollSteps
        <3>4. PICK s \in Seen(a) : Reported(s) # "applied"
            BY <3>1, <3>2 DEF Poll3, Finish
        <3>5. s = state[a]
            BY <3>3, SeenIsOwn
        <3>6. QED
            BY <3>1, <3>3, <3>4, <3>5 DEF Reported
    <2>3. CASE Mako \/ SmbusUp \/ ClkLock
        BY <2>3 DEF Mako, MakoStart, MakoClear, MakoPick, MakoFinish, SmbusUp, ClkLock
    <2>4. QED
        BY <2>1, <2>2, <2>3 DEF Next
<1>2. QED
    BY <1>1, TypeCorrect, CallInvariant, PollInvariant, PTL DEF Spec, FailureIsReal
-----------------------------------------------------------------------------
(* The refinement.  SlotOf and VerdictOf are the mapping, one application  *)
(* at a time.                                                              *)

SlotOf(a) ==
    IF a \notin want THEN "free" ELSE IF state[a] = "applied" THEN "running" ELSE "asked"

VerdictOf(a) ==
    IF ~Idle(a) THEN "none"
    ELSE IF told[a] = "loaded" THEN "good"
    ELSE IF told[a] \in Failures THEN "bad" ELSE "none"

\* Only a's part of the mapping changes.
OnlyOf(a) ==
    \A b \in Apps \ {a} : SlotOf(b)' = SlotOf(b) /\ VerdictOf(b)' = VerdictOf(b)

\* Nothing of the mapping changes for a.
Still(a) == SlotOf(a)' = SlotOf(a) /\ VerdictOf(a)' = VerdictOf(a)

\* A step that moves no part of the mapping stutters.
LEMMA StillStep ==
    ASSUME \A b \in Apps : Still(b)
    PROVE  UNCHANGED Contract!cvars
    BY DEF Still, SlotOf, VerdictOf, Contract!cvars, Failures

\* The abstract actions, in terms of the mapping.
LEMMA AskStep ==
    ASSUME NEW a \in Apps, OnlyOf(a), VerdictOf(a) = "none", VerdictOf(a)' = "none",
           SlotOf(a) = "free", SlotOf(a)' = "asked"
    PROVE  Contract!Ask(a)
    BY DEF OnlyOf, SlotOf, VerdictOf, Contract!Ask, Failures

\* An image that was asked for runs.
LEMMA RunStep ==
    ASSUME NEW a \in Apps, OnlyOf(a), VerdictOf(a)' = VerdictOf(a),
           SlotOf(a) = "asked", SlotOf(a)' = "running"
    PROVE  Contract!Run(a)
    BY DEF OnlyOf, SlotOf, VerdictOf, Contract!Run, Failures

\* An image is given back while no verdict is given.
LEMMA DropStep ==
    ASSUME NEW a \in Apps, OnlyOf(a), VerdictOf(a) = "none", VerdictOf(a)' = "none",
           SlotOf(a)' = "free"
    PROVE  Contract!Drop(a)
    BY DEF OnlyOf, SlotOf, VerdictOf, Contract!Drop, Failures

\* A load ends with its image.
LEMMA GoodStep ==
    ASSUME NEW a \in Apps, OnlyOf(a), VerdictOf(a)' = "good",
           SlotOf(a) = "running", SlotOf(a)' = "running"
    PROVE  Contract!Good(a)
<1>1. \A b \in Apps : SlotOf(b)' = SlotOf(b)
    BY DEF OnlyOf
<1>2. \A b \in Apps : VerdictOf(b)' = IF b = a THEN "good" ELSE VerdictOf(b)
    BY DEF OnlyOf
<1>3. QED
    BY <1>1, <1>2 DEF SlotOf, VerdictOf, Contract!Good, Failures

\* A load ends without, and asks for nothing any more.
LEMMA BadStep ==
    ASSUME NEW a \in Apps, OnlyOf(a), VerdictOf(a)' = "bad",
           SlotOf(a) = "free", SlotOf(a)' = "free"
    PROVE  Contract!Bad(a)
<1>1. \A b \in Apps : SlotOf(b)' = SlotOf(b)
    BY DEF OnlyOf
<1>2. \A b \in Apps : VerdictOf(b)' = IF b = a THEN "bad" ELSE VerdictOf(b)
    BY DEF OnlyOf
<1>3. QED
    BY <1>1, <1>2 DEF SlotOf, VerdictOf, Contract!Bad, Failures

\* A verdict is forgotten when the next call begins.
LEMMA ForgetStep ==
    ASSUME NEW a \in Apps, OnlyOf(a), VerdictOf(a)' = "none", SlotOf(a)' = SlotOf(a)
    PROVE  Contract!Forget(a)
<1>1. \A b \in Apps : SlotOf(b)' = SlotOf(b)
    BY DEF OnlyOf
<1>2. \A b \in Apps : VerdictOf(b)' = IF b = a THEN "none" ELSE VerdictOf(b)
    BY DEF OnlyOf
<1>3. QED
    BY <1>1, <1>2 DEF SlotOf, VerdictOf, Contract!Forget, Failures

\* A step inside a call moves nothing of another application.
LEMMA RunOnly ==
    ASSUME TypeOK, NEW a \in Apps, Step(a)
    PROVE  OnlyOf(a)
    BY RunOthers, RunStatus DEF OnlyOf, SlotOf, VerdictOf, Idle, Same

\* The steps inside a call: asking, withdrawing and the two verdicts are steps of
\* the contract, the others stutter.
LEMMA RunImplements ==
    ASSUME TypeOK, Distinct, NEW a \in Apps, Step(a), CallInv(a), PollInv(a)
    PROVE  Contract!Next \/ UNCHANGED Contract!cvars
<1> USE DEF TypeOK, Goto, End, Idle, makoVars, procVars
<1>0. /\ OnlyOf(a)
      /\ Still(a) => UNCHANGED Contract!cvars
    BY RunOnly, StillStep DEF OnlyOf, Still
<1>1. CASE Withdraw(a)
    <2>1. VerdictOf(a) = "none" /\ VerdictOf(a)' = "none" /\ SlotOf(a)' = "free"
        BY <1>1 DEF Withdraw, SlotOf, VerdictOf
    <2>2. QED
        BY <1>0, <2>1, DropStep DEF Contract!Next
<1>2. CASE Sweep(a) \/ ClkBegin(a) \/ ClkEnd(a) \/ Create(a) \/ Poll1(a) \/ Poll2(a) \/ Check(a)
    <2>1. Still(a)
        BY <1>2 DEF Sweep, ClkBegin, ClkEnd, Create, Poll1, Poll2, Check, Raise, Still,
           SlotOf, VerdictOf
    <2>2. QED
        BY <1>0, <2>1
<1>3. CASE ClkSkip(a) \/ ClkReady(a)
    <2>1. /\ ClockDone(a) /\ pc[a] \in ClkSteps
          /\ SlotOf(a)' = SlotOf(a)
        BY <1>3 DEF ClkSkip, ClkReady, SlotOf, ClkSteps
    <2>2. CASE after[a] = "raise" /\ told[a] \in Failures
        <3>1. SlotOf(a) = "free"
            BY <2>1, <2>2 DEF CallInv, SlotOf
        <3>2. VerdictOf(a)' = "bad"
            BY <2>1, <2>2 DEF ClockDone, VerdictOf, Failures
        <3>3. QED
            BY <1>0, <2>1, <3>1, <3>2, BadStep DEF Contract!Next
    <2>3. CASE ~(after[a] = "raise" /\ told[a] \in Failures)
        <3>1. told[a] # "loaded" /\ VerdictOf(a) = "none"
            BY <2>1 DEF PollInv, VerdictOf, ClkSteps
        <3>2. VerdictOf(a)' = "none"
            BY <2>1, <2>3, <3>1 DEF ClockDone, VerdictOf, Failures
        <3>3. QED
            BY <1>0, <2>1, <3>1, <3>2 DEF Still
    <2>4. QED
        BY <2>2, <2>3
<1>4. CASE ClkMissing(a) \/ ClkFail(a) \/ RequestRejected(a)
    <2>1. Still(a)
        BY <1>4 DEF ClkMissing, ClkFail, RequestRejected, Still, SlotOf, VerdictOf, Failures
    <2>2. QED
        BY <1>0, <2>1
<1>5. CASE Request(a)
    <2>1. a \notin want /\ state[a] = "none"
        BY <1>5 DEF Request, CallInv, PollInv
    <2>2. VerdictOf(a) = "none" /\ VerdictOf(a)' = "none"
        BY <1>5 DEF Request, Finish, VerdictOf, Failures
    <2>3. SlotOf(a) = "free" /\ SlotOf(a)' = "asked"
        BY <1>5, <2>1 DEF Request, SlotOf
    <2>4. QED
        BY <1>0, <2>2, <2>3, AskStep DEF Contract!Next
<1>6. CASE Poll3(a)
    <2>1. a \in want /\ state[a] \in {"applied", "failed"}
        BY <1>6 DEF Poll3, CallInv, PollInv, PollSteps
    <2>2. PICK s \in Seen(a) :
            IF Reported(s) = "applied" THEN Finish(a, "loaded") ELSE Raise(a, "failed")
        BY <1>6 DEF Poll3
    <2>3. s = state[a] /\ SlotOf(a)' = SlotOf(a)
        BY <1>6, <2>1, SeenIsOwn DEF Poll3, SlotOf
    <2>4. CASE state[a] = "applied"
        <3>1. VerdictOf(a)' = "good"
            BY <2>2, <2>3, <2>4 DEF Reported, Finish, VerdictOf
        <3>2. SlotOf(a) = "running"
            BY <2>1, <2>4 DEF SlotOf
        <3>3. QED
            BY <1>0, <2>3, <3>1, <3>2, GoodStep DEF Contract!Next
    <2>5. CASE state[a] = "failed"
        <3>1. Still(a)
            BY <1>6, <2>2, <2>3, <2>5 DEF Poll3, Reported, Raise, VerdictOf, Still
        <3>2. QED
            BY <1>0, <3>1
    <2>6. QED
        BY <2>1, <2>4, <2>5
<1>7. QED
    BY <1>1, <1>2, <1>3, <1>4, <1>5, <1>6 DEF Step, Run

\* load_image and unload_image implement ImageContract: every state is mapped, and
\* every step of a daemon, of MakoProfile and of the clock chip, a restart included,
\* is a step of the contract or none at all.
THEOREM ImplementsContractHolds == Distinct => (Spec => ImplementsContract)
<1> SUFFICES ASSUME Distinct PROVE Spec => ImplementsContract
    OBVIOUS
<1> DEFINE Calm == \A b \in Apps : CallInv(b)
           Inv  == \A b \in Apps : PollInv(b)
<1>1. Init => Contract!Init
    BY DEF Init, Contract!Init, Idle
<1>2. TypeOK /\ Calm /\ Inv /\ [Next]_vars => [Contract!Next]_(Contract!cvars)
    <2> SUFFICES ASSUME TypeOK, Calm, Inv, [Next]_vars
                 PROVE  Contract!Next \/ UNCHANGED Contract!cvars
        OBVIOUS
    <2> USE DEF TypeOK, Goto, Idle, makoVars, procVars
    <2>1. ASSUME NEW a \in Apps, Load(a) \/ Unload(a)
          PROVE  Contract!Next \/ UNCHANGED Contract!cvars
        <3>1. OnlyOf(a) /\ VerdictOf(a)' = "none" /\ SlotOf(a)' = SlotOf(a)
            BY <2>1 DEF Load, Unload, OnlyOf, SlotOf, VerdictOf
        <3>2. QED
            BY <3>1, ForgetStep DEF Contract!Next
    <2>2. ASSUME NEW a \in Apps, Query(a) \/ Tick(a)
          PROVE  Contract!Next \/ UNCHANGED Contract!cvars
        <3>1. \A b \in Apps : Still(b)
            BY <2>2 DEF Query, Tick, Still, SlotOf, VerdictOf
        <3>2. QED
            BY <3>1, StillStep
    <2>3. ASSUME NEW a \in Apps, Step(a)
          PROVE  Contract!Next \/ UNCHANGED Contract!cvars
        BY <2>3, RunImplements
    <2>4. ASSUME NEW a \in Apps, Crash(a)
          PROVE  Contract!Next \/ UNCHANGED Contract!cvars
        <3>1. OnlyOf(a) /\ VerdictOf(a)' = "none" /\ SlotOf(a)' = SlotOf(a)
            BY <2>4 DEF Crash, End, OnlyOf, SlotOf, VerdictOf, Failures
        <3>2. QED
            BY <3>1, ForgetStep DEF Contract!Next
    <2>5. CASE MakoStart \/ MakoClear \/ SmbusUp \/ ClkLock \/ UNCHANGED vars
        <3>1. \A b \in Apps : Still(b)
            BY <2>5 DEF MakoStart, MakoClear, SmbusUp, ClkLock, vars, Still, SlotOf, VerdictOf
        <3>2. QED
            BY <3>1, StillStep
    <2>6. ASSUME NEW a \in Apps, MakoPick(a)
          PROVE  Contract!Next \/ UNCHANGED Contract!cvars
        <3>1. \A b \in Apps : Still(b)
            BY <2>6 DEF MakoPick, Still, SlotOf, VerdictOf
        <3>2. QED
            BY <3>1, StillStep
    <2>7. ASSUME NEW a \in Apps, MakoFinish(a)
          PROVE  Contract!Next \/ UNCHANGED Contract!cvars
        <3>1. OnlyOf(a) /\ VerdictOf(a)' = VerdictOf(a) /\ SlotOf(a) = "asked"
            BY <2>7 DEF MakoFinish, OnlyOf, SlotOf, VerdictOf
        <3>2. SlotOf(a)' \in {"asked", "running"}
            BY <2>7 DEF MakoFinish, SlotOf
        <3>3. CASE SlotOf(a)' = "asked"
            BY <3>1, <3>3, StillStep DEF OnlyOf, Still
        <3>4. CASE SlotOf(a)' = "running"
            BY <3>1, <3>4, RunStep DEF Contract!Next
        <3>5. QED
            BY <3>2, <3>3, <3>4
    <2>8. QED
        BY <2>1, <2>2, <2>3, <2>4, <2>5, <2>6, <2>7 DEF Next, Mako
<1>3. QED
    BY <1>1, <1>2, TypeCorrect, CallInvariant, PollInvariant, PTL
       DEF Spec, ImplementsContract, Contract!Spec
=============================================================================
