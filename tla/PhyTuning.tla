------------------------------ MODULE PhyTuning ------------------------------
(***************************************************************************)
(* The tuning of an FPGA's transceivers: TuningMixin (resources/libapp/    *)
(* tuning.py) sets fields of a port's PHY record (PhyConfig) from the      *)
(* speed and the medium of the interface the port feeds (FPhy.set_speed of *)
(* fphy.py), next to a tool that sets a field of its own.                  *)
(*                                                                         *)
(* External: EosSdk, which tells the daemon of a new speed or transceiver  *)
(* some time later, once if there are several; eAPI, which answers what is *)
(* so when it is asked; ProcMgr.  This is the mixin on a DCS-7132LB; on    *)
(* the others every interface has a port and the medium is copper.         *)
(***************************************************************************)
EXTENDS PhyConfig

CONSTANTS
    Daemon, Tool,  \* the two processes
    Intfs,         \* the interfaces
    NoPort,        \* the source of an interface that no port feeds
    Speeds,
    Tuned,         \* the fields set_speed() assigns, in its order
    Other,         \* the field the tool assigns
    TuningData,    \* Fpga.tuning_data: by speed and medium, a value for each of them
    Unset,         \* not a value
    Starts,        \* bound: the speeds, media and sources there are at first
    Changes        \* bound: the changes, tool calls and deaths of the daemon in all

Media == {"copper", "fiber"}

\* A port feeds one interface.
Patches == {s \in [Intfs -> Ports \cup {NoPort}] :
               \A i, j \in Intfs : s[i] = s[j] => i = j \/ s[i] = NoPort}

Surroundings == [speed  : [Intfs -> Speeds],
                 medium : [Intfs -> Media \cup {"unknown"}],
                 source : Patches]

ASSUME TuningAssumption ==
    /\ Procs = {Daemon, Tool} /\ Daemon # Tool /\ Intfs # {}
    /\ NoPort \notin Ports /\ Unset \notin FieldValues /\ Changes \in Nat
    /\ Starts \subseteq Surroundings
    /\ Tuned \in Seq(Fields) /\ Tuned # <<>>
    /\ \A m, n \in 1 .. Len(Tuned) : Tuned[m] = Tuned[n] => m = n
    /\ Other \in Fields /\ \A n \in 1 .. Len(Tuned) : Tuned[n] # Other
    /\ DOMAIN TuningData \subseteq Speeds \X Media
    /\ \A d \in DOMAIN TuningData : TuningData[d] \in [1 .. Len(Tuned) -> FieldValues]

VARIABLES
    \* external
    speed,    \* of each interface
    medium,   \* of its transceiver, "unknown" until it is identified
    source,   \* the port that feeds it
    events,   \* the interfaces whose change the daemon is not told of yet
    \* the daemon
    dpc,      \* where it is
    initial,  \* in on_initialized(), and not in the handler of an event
    todo,     \* the interfaces on_initialized() has not set up
    cur,      \* the interface of _apply_tuning()
    dport,    \* ... its port
    dmedium,  \* ... and medium
    fphy,     \* TuningMixin.fphy is set
    told,     \* how the last _apply_tuning() of each interface ended
    \* history
    untold,   \* the interfaces that changed since in a way that is no event
    lastSet,  \* what the tool last set each port's field to
    changes   \* how much of Changes is used

envVars == <<speed, medium, source, events>>
ownVars == <<dpc, initial, todo, cur, dport, dmedium, fphy, told>>
tuningVars == <<phyVars, envVars, ownVars, untold, lastSet, changes>>

TuningType ==
    /\ PhyType
    /\ [speed |-> speed, medium |-> medium, source |-> source] \in Surroundings
    /\ events \subseteq Intfs /\ todo \subseteq Intfs /\ untold \subseteq Intfs
    /\ dpc \in {"down", "init", "idle", "source", "medium", "speed", "set"}
    /\ initial \in BOOLEAN /\ fphy \in BOOLEAN
    /\ cur \in Intfs
    /\ dport \in Ports
    /\ dmedium \in Media
    /\ told \in [Intfs -> {"none", "tuned", "failed", "off"}]
    /\ lastSet \in [Ports -> FieldValues \cup {Unset}]
    /\ changes \in 0 .. Changes

TuningInit ==
    /\ PhyInit
    /\ \E s \in Starts : speed = s.speed /\ medium = s.medium /\ source = s.source
    /\ events = {} /\ todo = {} /\ untold = {}
    /\ dpc = "down"
    /\ initial = FALSE /\ fphy = FALSE
    /\ cur = CHOOSE i \in Intfs : TRUE
    /\ dport = CHOOSE p \in Ports : TRUE
    /\ dmedium = "fiber"
    /\ told = [i \in Intfs |-> "none"]
    /\ lastSet = [p \in Ports |-> Unset]
    /\ changes = 0
-----------------------------------------------------------------------------
(* The daemon                                                              *)

\* on_initialized() begins: the mixin's path to the PHY records is set up.
Start ==
    /\ dpc = "down"
    /\ dpc' = "init"
    /\ initial' = TRUE
    /\ todo' = Intfs
    /\ fphy' = TRUE
    /\ UNCHANGED <<phyVars, envVars, cur, dport, dmedium, told, untold, lastSet, changes>>

\* mutant: nothing is watched before everything is set up
WatchedLast(i) == dpc # "down" /\ todo = {}

\* EosSdk tells the daemon of the changes of the interfaces on_initialized() reached.
Watched(i) == dpc # "down" /\ i \notin todo

\* _apply_tuning(intf_id) begins.
Apply(i) ==
    /\ cur' = i
    /\ dpc' = "source"
    /\ untold' = untold \ {i}
    /\ UNCHANGED <<phyVars, speed, medium, source, dport, dmedium, fphy, told, lastSet, changes>>

\* mutant: on_initialized() sets up one interface only
SetUpOne(i) ==
    /\ dpc = "init" /\ i \in todo
    /\ todo' = {}
    /\ Apply(i)
    /\ UNCHANGED <<events, initial>>

\* The loop of on_initialized(): the interface is watched before anything is read.
SetUp(i) ==
    /\ dpc = "init" /\ i \in todo
    /\ todo' = todo \ {i}
    /\ Apply(i)
    /\ UNCHANGED <<events, initial>>

InitDone ==
    /\ dpc = "init" /\ todo = {}
    /\ dpc' = "idle"
    /\ initial' = FALSE
    /\ UNCHANGED <<phyVars, envVars, todo, cur, dport, dmedium, fphy, told, untold, lastSet, changes>>

\* on_eth_phy_intf_link_speed(), on_eth_phy_intf_transceiver_present()
Event(i) ==
    /\ dpc = "idle" /\ i \in events
    /\ events' = events \ {i}
    /\ Apply(i)
    /\ UNCHANGED <<todo, initial>>

\* _apply_tuning() ends: on_initialized() goes on, a handler returns.
ApplyEnded(how) ==
    /\ told' = [told EXCEPT ![cur] = how]
    /\ dpc' = IF initial THEN "init" ELSE "idle"
    /\ UNCHANGED initial

\* An exception leaves the handler, or on_initialized() and with it its loop.
Raised ==
    /\ told' = [told EXCEPT ![cur] = "failed"]
    /\ dpc' = "idle"
    /\ initial' = FALSE

\* _l1_source(): a name that is no port's does not match.
ReadSource ==
    /\ dpc = "source"
    /\ IF source[cur] = NoPort THEN Raised /\ UNCHANGED dport
       ELSE /\ dport' = source[cur]
            /\ dpc' = "medium"
            /\ UNCHANGED <<told, initial>>
    /\ UNCHANGED <<phyVars, envVars, todo, cur, dmedium, fphy, untold, lastSet, changes>>

\* "CR" is in the name of every copper medium; what is not identified reads as "".
MediumOf(i) == IF medium[i] = "copper" THEN "copper" ELSE "fiber"

ReadMedium ==
    /\ dpc = "medium"
    /\ dmedium' = MediumOf(cur)
    /\ dpc' = "speed"
    /\ UNCHANGED <<phyVars, envVars, initial, todo, cur, dport, fphy, told, untold, lastSet, changes>>

\* _link_speed() and set_speed() up to its assignments; no tuning for the speed and
\* the medium is a KeyError.
ReadSpeed ==
    /\ dpc = "speed"
    /\ LET d == <<speed[cur], dmedium>> IN
          \/ /\ ~fphy
             /\ ApplyEnded("off")
             /\ UNCHANGED phyVars
          \/ /\ fphy /\ d \notin DOMAIN TuningData
             /\ Raised
             /\ UNCHANGED phyVars
          \/ /\ fphy /\ d \in DOMAIN TuningData
             /\ Assign(Daemon, dport, [n \in 1 .. Len(Tuned) |->
                          [field |-> Tuned[n], value |-> TuningData[d][n]]])
             /\ dpc' = "set"
             /\ UNCHANGED <<told, initial>>
    /\ UNCHANGED <<envVars, todo, cur, dport, dmedium, fphy, untold, lastSet, changes>>

\* A transaction of set_speed().
SetStep ==
    /\ dpc = "set"
    /\ Transaction(Daemon) \/ Fail(Daemon)
    /\ UNCHANGED <<envVars, ownVars, untold, lastSet, changes>>

\* set_speed() returns or raises.
SetDone ==
    /\ dpc = "set"
    /\ \/ step[Daemon] = "idle" /\ ApplyEnded("tuned") /\ UNCHANGED phyVars
       \/ step[Daemon] = "raised" /\ Raised /\ Leave(Daemon)
    /\ UNCHANGED <<envVars, todo, cur, dport, dmedium, fphy, untold, lastSet, changes>>

\* on_agent_enabled(False)
Disable ==
    /\ dpc = "idle" /\ fphy
    /\ fphy' = FALSE
    /\ UNCHANGED <<phyVars, envVars, dpc, initial, todo, cur, dport, dmedium, told, untold,
                   lastSet, changes>>

DaemonStep ==
    \/ Start \/ InitDone \/ ReadSource \/ ReadMedium \/ ReadSpeed \/ SetStep \/ SetDone
    \/ \E i \in Intfs : SetUp(i) \/ Event(i)
-----------------------------------------------------------------------------
(* The others.  Every step of them but the tool's transactions counts      *)

Change == changes < Changes /\ changes' = changes + 1

\* The daemon dies; Start is ProcMgr's.
Crash ==
    /\ dpc # "down"
    /\ Change
    /\ dpc' = "down"
    /\ initial' = FALSE /\ fphy' = FALSE
    /\ told' = [i \in Intfs |-> "none"]
    /\ events' = {} /\ todo' = {}
    /\ Leave(Daemon)
    /\ UNCHANGED <<speed, medium, source, cur, dport, dmedium, untold, lastSet>>

\* EosSdk has news of an interface for a daemon that watches it.
Notify(i) == events' = IF Watched(i) THEN events \cup {i} ELSE events

SetSpeed(i, s) ==
    /\ speed[i] # s
    /\ Change
    /\ speed' = [speed EXCEPT ![i] = s]
    /\ Notify(i)
    /\ UNCHANGED <<phyVars, medium, source, ownVars, untold, lastSet>>

\* A transceiver is put in; its medium may only be known later.
Insert(i, m) ==
    /\ medium[i] # m
    /\ Change
    /\ medium' = [medium EXCEPT ![i] = m]
    /\ Notify(i)
    /\ UNCHANGED <<phyVars, speed, source, ownVars, untold, lastSet>>

\* ... which is no event.
Identify(i, m) ==
    /\ medium[i] = "unknown" /\ m # "unknown"
    /\ Change
    /\ medium' = [medium EXCEPT ![i] = m]
    /\ untold' = untold \cup {i}
    /\ UNCHANGED <<phyVars, speed, source, events, ownVars, lastSet>>

\* The layer 1 sources are configured anew, which is no event either.
Repatch(s) ==
    /\ s # source
    /\ Change
    /\ source' = s
    /\ untold' = untold \cup {i \in Intfs : s[i] # source[i]}
    /\ UNCHANGED <<phyVars, speed, medium, events, ownVars, lastSet>>

\* The tool sets its field of a port.
ToolSet(p, v) ==
    /\ step[Tool] = "idle"
    /\ Change
    /\ Assign(Tool, p, <<[field |-> Other, value |-> v]>>)
    /\ lastSet' = [lastSet EXCEPT ![p] = v]
    /\ UNCHANGED <<envVars, ownVars, untold>>

ToolStep ==
    /\ Transaction(Tool) \/ Fail(Tool)
    /\ UNCHANGED <<envVars, ownVars, untold, lastSet, changes>>

\* The tool ends with an exception, or is killed.
ToolEnds ==
    /\ step[Tool] # "idle"
    /\ Leave(Tool)
    /\ lastSet' = [lastSet EXCEPT ![port[Tool]] = Unset]
    /\ UNCHANGED <<envVars, ownVars, untold, changes>>

EnvStep ==
    \/ Crash
    \/ \E i \in Intfs, s \in Speeds : SetSpeed(i, s)
    \/ \E i \in Intfs, m \in Media \cup {"unknown"} : Insert(i, m) \/ Identify(i, m)
    \/ \E s \in Patches : Repatch(s)

ToolNext == ToolStep \/ ToolEnds \/ \E p \in Ports, v \in FieldValues : ToolSet(p, v)

TuningNext == DaemonStep \/ Disable \/ EnvStep \/ ToolNext

\* The daemon's loop runs on, and ProcMgr starts it again.
TuningSpec == TuningInit /\ [][TuningNext]_tuningVars /\ WF_tuningVars(DaemonStep)
-----------------------------------------------------------------------------
\* The record of an interface's port holds what Fpga.tuning_data says.
AsTuned(i) ==
    LET d == <<speed[i], MediumOf(i)>> IN
    /\ source[i] \in Ports /\ d \in DOMAIN TuningData
    /\ \A n \in 1 .. Len(Tuned) : phy[source[i]][Tuned[n]] = TuningData[d][n]

\* Nobody the mixin cannot know of interfered.
Untroubled(i) == i \notin untold /\ source[i] \notin clash[Daemon]

(* Property.  A daemon that has no news to come and has tuned an interface *)
(* has tuned the port that feeds it, for the speed and the medium it has   *)
(* now: no change between the reads of _apply_tuning() (tuning.py:89-98),  *)
(* of the interface or of another that shared the port, and none between   *)
(* its watch and its reads is missed.  Not covered, because the mixin is   *)
(* not told: a transceiver identified later, a new layer 1 source; nor is  *)
(* what a tool overwrote while both changed the record.                    *)
TunedWhenQuiet ==
    /\ TuningType
    /\ \A i \in Intfs : dpc = "idle" /\ told[i] = "tuned" /\ i \notin events /\ Untroubled(i)
                            => AsTuned(i)

(* Property.  What the tool set stays, whatever the daemon tunes: setting  *)
(* a field keeps the others as the FPGA has them (sysctl.py:62-73), except *)
(* when both change a port's record at the same time.                      *)
ToolKept ==
    \A p \in Ports :
        ~Busy(Tool, p) /\ lastSet[p] # Unset /\ p \notin clash[Tool] => phy[p][Other] = lastSet[p]

Settled ==
    /\ dpc = "idle"
    /\ fphy => \A i \in Intfs \ todo :
                   Untroubled(i) => told[i] = "failed" \/ AsTuned(i)

(* Property.  When nothing changes any more, the daemon comes to rest with *)
(* every interface it set up tuned, unless that raised the last time: the  *)
(* wait and the retries of tuning.py:93 and register_file.py:34-60 end,    *)
(* and no event is forgotten.                                              *)
Converges == <>[]Settled
=============================================================================
