----------------------------- MODULE StatusTree -----------------------------
(***************************************************************************)
(* The status of a daemon as a nested mapping over the flat status table   *)
(* of Sysdb: StatusAccessor (resources/libapp/cli.py), StatusMutator and   *)
(* StatusMutatorNi (daemon.py).                                            *)
(*                                                                         *)
(* A path, "a/b" in Sysdb, is the sequence of its keys.  Each process has  *)
(* an index of the paths it knows: the daemon keeps its own up to date as  *)
(* it writes, a CLI command builds one when it starts.  _index[p] is the   *)
(* set of keys k such that the path p with k is listed here.  External:    *)
(* Sysdb, which outlives the daemon, and the daemon's supervisor.          *)
(***************************************************************************)
EXTENDS Naturals, Sequences

CONSTANTS
    Names,        \* the paths the daemon uses
    Updates,      \* the mappings given to deepupdate(), as their sets of paths
    Careful,      \* the daemon uses no node above, at or below a path with a value
    MaxRestarts   \* bound: how often the daemon is killed

Root  == <<>>
Paths == Names \cup {Root}

\* A name has a key more than the path of the mapping it is in.
Parent(p) == SubSeq(p, 1, Len(p) - 1)

\* p is q, or below it.
Under(p, q)   == Len(q) <= Len(p) /\ SubSeq(p, 1, Len(q)) = q
Upto(p)       == {q \in Names : Under(p, q)}
Comparable(p, q) == Under(p, q) \/ Under(q, p)

\* In a mapping, what has a value has nothing below it.
ASSUME StatusAssumption ==
    /\ Root \notin Names
    /\ \A p \in Names : p \in Seq(STRING) /\ Parent(p) \in Paths
    /\ Updates \subseteq SUBSET Seq(STRING)
    /\ \A u \in Updates : \A p, q \in u : Comparable(p, q) => p = q
    /\ Careful \in BOOLEAN
    /\ MaxRestarts \in Nat

VARIABLES
    status,    \* Sysdb: the paths with a value
    listed,    \* the daemon's index
    nodes,     \* the sub-mappings the daemon holds a reference to
    op,        \* what the daemon is doing
    target,    \* ... to which node or path
    at,        \* ... and where in the recursion it is
    todo,      \* the rest of a deepupdate()
    \* a CLI command that reads the status
    show,      \* what it is doing
    known,     \* its index
    pending,   \* the paths status_as_dict() has still to look up
    shown,     \* the values it found
    lasting,   \* history: the paths that had a value all through the command
    restarts   \* daemon restarts so far

daemonVars == <<listed, nodes, op, target, at, todo>>
showVars   == <<show, known, pending, shown>>
vars       == <<status, daemonVars, showVars, lasting, restarts>>

TypeOK ==
    /\ status \in SUBSET Names
    /\ listed \in SUBSET Names
    /\ nodes \in SUBSET Paths
    /\ op \in {"none", "clear", "delete", "update"}
    /\ target \in Paths
    /\ at \in Paths
    /\ todo \in SUBSET Names
    /\ show \in {"none", "reading", "done"}
    /\ known \in SUBSET Names
    /\ pending \in SUBSET Names
    /\ shown \in SUBSET Names
    /\ lasting \in SUBSET Names
    /\ restarts \in 0 .. MaxRestarts

Init ==
    /\ status = {}
    /\ listed = {}
    /\ nodes = {Root}
    /\ op = "none"
    /\ target = Root
    /\ at = Root
    /\ todo = {}
    /\ show = "none"
    /\ known = {}
    /\ pending = {}
    /\ shown = {}
    /\ lasting = {}
    /\ restarts = 0
-----------------------------------------------------------------------------
(* The index                                                               *)

\* The keys of a mapping: _index[p], as paths.
Below(index, p) == {q \in index : Len(q) = Len(p) + 1 /\ Under(q, p)}

\* mutant: only the path itself is added
AddLeaf(index, p) == index \cup {p}

\* _add_path: the path and every mapping above it.
AddPath(index, p) == index \cup Upto(p)

\* mutant: the index is not touched
DelNothing(index, p) == index

\* mutant: the mappings above stay
DelLeaf(index, p) == index \ {p}

\* _del_path: the path, then every mapping above it that has become empty.
DelPath(index, p) ==
    index \ {q \in Upto(p) : \A r \in index :
                q # p /\ r # q /\ Under(r, q) => Under(p, r)}

\* A path gets a value, or loses it; the command that is running takes note.
Write(p)  == status' = status \cup {p} /\ UNCHANGED lasting
Remove(p) == status' = status \ {p} /\ lasting' = lasting \ {p}
-----------------------------------------------------------------------------
(* StatusMutator                                                           *)

Return == op' = "none" /\ target' = Root /\ at' = Root /\ todo' = {}

\* A node under, or at, a path with a value is not used by a careful daemon, and
\* no value is put at a node.
Usable(n)  == Careful => \A q \in status : ~Under(n, q)
Settable(p) == Careful => \A q \in status : q = p \/ ~Comparable(q, p)

\* node = mapping[key]: a value is returned as it is, anything else as a node.
GetNode(p) ==
    /\ op = "none"
    /\ Parent(p) \in nodes
    /\ \E q \in Names : Parent(q) = p
    /\ p \notin status
    /\ nodes' = nodes \cup {p}
    /\ UNCHANGED <<status, listed, op, target, at, todo, showVars, lasting, restarts>>

\* mapping[key] = value: __setitem__
SetItem(p) ==
    /\ op = "none"
    /\ Parent(p) \in nodes
    /\ Settable(p)
    /\ listed' = AddPath(listed, p)
    /\ Write(p)
    /\ UNCHANGED <<nodes, op, target, at, todo, showVars, restarts>>

\* del mapping[key]: __delitem__ clears the node of that path first.
DelItem(p) ==
    /\ op = "none"
    /\ Parent(p) \in nodes
    /\ Usable(Parent(p))
    /\ op' = "delete"
    /\ target' = p
    /\ at' = p
    /\ UNCHANGED <<status, listed, nodes, todo, showVars, lasting, restarts>>

\* mapping.clear(): popitem() until the mapping is empty.
Clear(n) ==
    /\ op = "none"
    /\ n \in nodes
    /\ Usable(n)
    /\ op' = "clear"
    /\ target' = n
    /\ at' = n
    /\ UNCHANGED <<status, listed, nodes, todo, showVars, lasting, restarts>>

\* popitem() takes any key of the mapping, and __delitem__ clears below it first.
Descend ==
    /\ op \in {"clear", "delete"}
    /\ at' \in Below(listed, at)
    /\ UNCHANGED <<status, listed, nodes, op, target, todo, showVars, lasting, restarts>>

\* The mapping has become empty: __delitem__ removes it, and the clear() above
\* goes on; a clear() that was called by the daemon returns.
Ascend ==
    /\ op \in {"clear", "delete"}
    /\ Below(listed, at) = {}
    /\ IF op = "clear" /\ at = target
       THEN UNCHANGED <<status, listed, lasting>>
       ELSE listed' = DelPath(listed, at) /\ Remove(at)
    /\ IF at = target
       THEN Return
       ELSE at' = Parent(at) /\ UNCHANGED <<op, target, todo>>
    /\ UNCHANGED <<nodes, showVars, restarts>>

\* mapping.deepupdate(other), and mapping[key] = {...} with StatusMutatorNi.
DeepUpdate(n, u) ==
    /\ op = "none"
    /\ n \in nodes
    /\ \A p \in u : n \o p \in Names /\ Settable(n \o p)
    /\ op' = "update"
    /\ todo' = {n \o p : p \in u}
    /\ target' = n
    /\ UNCHANGED <<status, listed, nodes, at, showVars, lasting, restarts>>

\* One value after the other; a value in the place of a mapping is an error
\* (AttributeError: it has no deepupdate), and the rest is left undone.
UpdateOne ==
    /\ op = "update"
    /\ \/ todo = {} /\ Return /\ UNCHANGED <<status, listed, lasting>>
       \/ \E p \in todo :
            IF \E q \in status : q # p /\ Under(p, q) /\ Len(q) > Len(target)
            THEN Return /\ UNCHANGED <<status, listed, lasting>>
            ELSE /\ listed' = AddPath(listed, p)
                 /\ Write(p)
                 /\ todo' = todo \ {p}
                 /\ UNCHANGED <<op, target, at>>
    /\ UNCHANGED <<nodes, showVars, restarts>>

\* The daemon is killed at any point; its successor builds its index anew.
Restart ==
    /\ restarts < MaxRestarts
    /\ restarts' = restarts + 1
    /\ listed' = UNION {Upto(p) : p \in status}
    /\ nodes' = {Root}
    /\ Return
    /\ UNCHANGED <<status, showVars, lasting>>
-----------------------------------------------------------------------------
(* status_as_dict() in a CLI command: StatusAccessor                       *)

ShowBegin ==
    /\ show = "none"
    /\ show' = "reading"
    /\ known' = UNION {AddPath({}, p) : p \in status}
    /\ pending' = Below(known', Root)
    /\ shown' = {}
    /\ lasting' = status
    /\ UNCHANGED <<status, daemonVars, restarts>>

\* mutant: a mapping is not entered
Skipped(p) == {}

\* A path without a value is a mapping if it has paths below it.
Entered(p) == Below(known, p)

\* __getitem__ and _create: what is at the path now.
ShowItem ==
    /\ show = "reading"
    /\ \E p \in pending :
        IF p \in status
        THEN shown' = shown \cup {p} /\ pending' = pending \ {p}
        ELSE pending' = (pending \ {p}) \cup Entered(p) /\ UNCHANGED shown
    /\ UNCHANGED <<status, daemonVars, show, known, lasting, restarts>>

ShowEnd ==
    /\ show = "reading"
    /\ pending = {}
    /\ show' = "done"
    /\ UNCHANGED <<status, daemonVars, known, pending, shown, lasting, restarts>>

ShowPrinted ==
    /\ show = "done"
    /\ show' = "none"
    /\ known' = {}
    /\ shown' = {}
    /\ lasting' = {}
    /\ UNCHANGED <<status, daemonVars, pending, restarts>>
-----------------------------------------------------------------------------
Progress == Descend \/ Ascend \/ UpdateOne

Next ==
    \/ \E p \in Names : GetNode(p) \/ SetItem(p) \/ DelItem(p)
    \/ \E n \in nodes : Clear(n) \/ \E u \in Updates : DeepUpdate(n, u)
    \/ Progress
    \/ Restart
    \/ ShowBegin \/ ShowItem \/ ShowEnd \/ ShowPrinted

Spec == Init /\ [][Next]_vars

\* The daemon's code runs.
FairSpec == Spec /\ WF_vars(Progress)
-----------------------------------------------------------------------------
(* Properties                                                              *)

\* The index says what Sysdb holds, at every step of a recursive delete and after
\* every restart: a mapping is listed exactly as long as a value is below it.
IndexMatches == TypeOK /\ listed = UNION {Upto(p) : p \in status}

\* clear() and del leave nothing of what they were to remove ("Remove all
\* status, giving us a clean slate", as the example daemons call it), and never
\* touch a value outside of it.
CleanSlate ==
    [][/\ restarts' = restarts /\ op \in {"clear", "delete"} /\ op' = "none"
           => \A p \in status' : Under(p, target) => op = "clear" /\ p = target
       /\ \A p \in status \ status' : op \in {"clear", "delete"} /\ Under(p, target)]_vars

\* Every clear(), del and deepupdate() ends.
OperationEnds == op # "none" ~> op = "none"

\* A CLI command shows every value that was there all the time, however the
\* daemon writes, deletes, clears and restarts meanwhile.
ShowComplete == show = "done" => lasting \subseteq shown
=============================================================================
