---------------------------- MODULE ConfigMirror ----------------------------
(***************************************************************************)
(* The way of a CLI configuration command to the status of a daemon: the   *)
(* commands write options into Sysdb (ConfigCommandClass, ConfigMutator    *)
(* and ConfigItem of resources/libapp/cli.py), the daemon is called back   *)
(* with them (ConfigMixin of daemon.py) and answers in its status, as      *)
(* CliExampleDaemon does.                                                  *)
(*                                                                         *)
(* External: Sysdb and EosSdk, which bring a changed option to the daemon  *)
(* some time later with the value it has by then, and in no order between  *)
(* options; ProcMgr, which runs the daemon while it is enabled and starts  *)
(* it again when it is gone.  CLI commands run one at a time.              *)
(***************************************************************************)
CONSTANTS
    Ips,  \* the addresses a command can name
    None  \* no such option, no such status, an argument left out

ASSUME NoneAssumption == None \notin Ips

\* key_syntax = "ip address [secondary]"
ItemKeys == {"primary", "secondary"}

VARIABLES
    config,       \* Sysdb: the options
    enabled,      \* Sysdb: "no disabled"
    agentStatus,  \* Sysdb: the daemon's status, and whether it has "running"
    running,
    discards,     \* the items a "no" command still has to discard
    proc,         \* where the daemon is
    mirror, told, \* the options, and the value of enabled, as the daemon has been told of them
    iter          \* the options on_initialized() still has to load

sysdb == <<config, enabled>>
configVars == <<config, enabled, agentStatus, running, discards, proc, mirror, told, iter>>

Options == [ItemKeys -> Ips \cup {None}]
Empty   == [k \in ItemKeys |-> None]

ConfigType ==
    /\ config \in Options /\ agentStatus \in Options /\ mirror \in Options
    /\ enabled \in BOOLEAN /\ running \in BOOLEAN /\ told \in BOOLEAN
    /\ discards \subseteq ItemKeys /\ iter \subseteq ItemKeys
    /\ proc \in {"down", "starting", "loading", "up", "ending", "stopping"}

ConfigInit ==
    /\ config = Empty /\ agentStatus = Empty /\ mirror = Empty
    /\ enabled = FALSE /\ running = FALSE /\ told = FALSE
    /\ discards = {} /\ iter = {}
    /\ proc = "down"
-----------------------------------------------------------------------------
(* The CLI                                                                 *)

CliIdle == discards = {}
DaemonUnchanged == UNCHANGED <<agentStatus, running, proc, mirror, told, iter>>

\* ip address <ip> [secondary]
IpAddress(k, ip) ==
    /\ CliIdle
    /\ config' = [config EXCEPT ![k] = ip]
    /\ UNCHANGED <<enabled, discards>> /\ DaemonUnchanged

\* ConfigItem.matches(): every argument is in the key or in the value, so that
\* without "secondary" an item with it matches too.
Matches(k, ip, secondary) ==
    /\ config[k] # None
    /\ secondary => k = "secondary"
    /\ ip # None => config[k] = ip

\* no ip address [<ip>] [secondary]
NoIpAddress(ip, secondary) ==
    /\ CliIdle
    /\ discards' = {k \in ItemKeys : Matches(k, ip, secondary)}
    /\ UNCHANGED sysdb /\ DaemonUnchanged

Discard(k) ==
    /\ k \in discards
    /\ config' = [config EXCEPT ![k] = None]
    /\ discards' = discards \ {k}
    /\ UNCHANGED enabled /\ DaemonUnchanged

\* disabled and no disabled
SetEnabled(on) ==
    /\ CliIdle
    /\ enabled' = on
    /\ UNCHANGED <<config, discards>> /\ DaemonUnchanged
-----------------------------------------------------------------------------
(* The daemon                                                              *)

\* It is started, and the managers are in step with Sysdb.
Start ==
    /\ proc = "down" /\ enabled
    /\ proc' = "starting"
    /\ mirror' = config /\ told' = TRUE
    /\ UNCHANGED <<sysdb, agentStatus, running, discards, iter>>

\* status.clear() deletes entry by entry, in any order.
ClearEntry ==
    /\ proc \in {"starting", "ending"}
    /\ \/ running /\ running' = FALSE /\ UNCHANGED agentStatus
       \/ /\ \E k \in ItemKeys : agentStatus[k] # None /\ agentStatus' = [agentStatus EXCEPT ![k] = None]
          /\ UNCHANGED running
    /\ UNCHANGED <<sysdb, discards, proc, mirror, told, iter>>

Cleared == agentStatus = Empty /\ ~running /\ UNCHANGED <<agentStatus, running>>

\* on_initialized(): a clean slate, the options there are, and "running".
InitClear ==
    /\ proc = "starting" /\ Cleared
    /\ proc' = "loading"
    /\ iter' = {k \in ItemKeys : mirror[k] # None}
    /\ UNCHANGED <<sysdb, discards, mirror, told>>

\* mutant: a deleted option, with its empty value, is passed over
OnSetOnly(k, value) ==
    agentStatus' = IF value # None THEN [agentStatus EXCEPT ![k] = value] ELSE agentStatus

\* on_agent_config(): an option that was deleted comes with an empty value.
OnAgentConfig(k, value) == agentStatus' = [agentStatus EXCEPT ![k] = value]

InitLoad(k) ==
    /\ proc = "loading" /\ k \in iter
    /\ OnAgentConfig(k, mirror[k])
    /\ iter' = iter \ {k}
    /\ UNCHANGED <<sysdb, running, discards, proc, mirror, told>>

\* mutant: "running" before the options are loaded
AtOnce == proc = "loading"

AllLoaded == proc = "loading" /\ iter = {}

InitDone ==
    /\ AllLoaded
    /\ running' = TRUE
    /\ proc' = "up"
    /\ iter' = {}
    /\ UNCHANGED <<sysdb, agentStatus, discards, mirror, told>>

\* on_agent_option(), also while the daemon waits for its end
OnAgentOption(k) ==
    /\ proc \in {"up", "stopping"} /\ mirror[k] # config[k]
    /\ mirror' = [mirror EXCEPT ![k] = config[k]]
    /\ OnAgentConfig(k, config[k])
    /\ UNCHANGED <<sysdb, running, discards, proc, told, iter>>

\* on_agent_enabled(), which does not look at the value, is called when it has changed.
OnAgentEnabled ==
    /\ proc \in {"up", "stopping"} /\ told # enabled
    /\ told' = enabled
    /\ proc' = "ending"
    /\ UNCHANGED <<sysdb, agentStatus, running, discards, mirror, iter>>

ShutDown ==
    /\ proc = "ending" /\ Cleared
    /\ proc' = "stopping"
    /\ UNCHANGED <<sysdb, discards, mirror, told, iter>>

\* The daemon has reported that its shutdown is complete, and is ended.
Stop ==
    /\ proc = "stopping"
    /\ proc' = "down"
    /\ mirror' = Empty /\ told' = FALSE
    /\ UNCHANGED <<sysdb, agentStatus, running, discards, iter>>

Crash ==
    /\ proc # "down"
    /\ proc' = "down"
    /\ mirror' = Empty /\ told' = FALSE
    /\ iter' = {}
    /\ UNCHANGED <<sysdb, agentStatus, running, discards>>
-----------------------------------------------------------------------------
DaemonStep ==
    \/ Start \/ ClearEntry \/ InitClear \/ InitDone \/ OnAgentEnabled \/ ShutDown \/ Stop
    \/ \E k \in ItemKeys : InitLoad(k) \/ OnAgentOption(k)

CliStep == \E k \in ItemKeys : Discard(k)

Command ==
    \/ \E k \in ItemKeys, ip \in Ips : IpAddress(k, ip)
    \/ \E ip \in Ips \cup {None}, secondary \in BOOLEAN : NoIpAddress(ip, secondary)
    \/ \E on \in BOOLEAN : SetEnabled(on)

ConfigNext == Command \/ CliStep \/ DaemonStep \/ Crash

\* A command that has begun goes on, Sysdb delivers, and ProcMgr starts the daemon.
ConfigSpec == ConfigInit /\ [][ConfigNext]_configVars /\ WF_configVars(DaemonStep) /\ WF_configVars(CliStep)
-----------------------------------------------------------------------------
(* Properties                                                              *)

\* A daemon that says it is running has answered every option it was told of, also
\* those that were set, changed or deleted while it was down or still loading; and what
\* an earlier process left, "running" too, is gone before any option is loaded.
RunningMeansLoaded ==
    /\ ConfigType
    /\ proc = "up" => running /\ agentStatus = mirror
    /\ proc = "loading" => ~running /\ \A k \in ItemKeys : agentStatus[k] \in {None, mirror[k]}

Mirrored == enabled => proc = "up" /\ running /\ agentStatus = config

\* Once nobody configures any more and the daemon no longer crashes, its status
\* becomes what is configured, and stays so.
Converges == <>[][~Command /\ ~Crash]_configVars => <>[]Mirrored
=============================================================================
