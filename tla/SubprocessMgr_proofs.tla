------------------------ MODULE SubprocessMgr_proofs ------------------------
(***************************************************************************)
(* Proofs about SubprocessMgr, for any number of children, handlers and    *)
(* descriptors, and every behaviour of the children.                       *)
(***************************************************************************)
EXTENDS SubprocessMgr, FiniteSetTheorems, WellFoundedInduction, TLAPS

\* Every non-empty set of natural numbers has a least element.
LEMMA Least ==
    ASSUME NEW T \in SUBSET Nat, T # {}
    PROVE  \E x \in T : \A y \in T : x <= y
<1> DEFINE R == OpToRel(<, Nat)
<1>1. IsWellFoundedOn(R, Nat)
    BY NatLessThanWellFounded
<1>2. PICK x \in T : \A y \in T : ~ (<<y, x>> \in R)
    <2> HIDE DEF R
    <2> QED
        BY <1>1, WFMin
<1>3. \A y \in T : y < x => <<y, x>> \in R
    BY DEF OpToRel
<1> HIDE DEF R
<1>4. \A y \in T : ~(y < x)
    BY <1>2, <1>3, Zenon
<1>5. QED
    BY <1>4

\* The kernel hands out a descriptor that is free.
LEMMA LowestIsFree ==
    ASSUME NEW S \in SUBSET Fds, S # {}
    PROVE  Lowest(S) \in S
<1>1. S \in SUBSET Nat
    BY DEF Fds
<1>2. \E f \in S : \A g \in S : f <= g
    BY <1>1, Least
<1>3. QED
    BY <1>2 DEF Lowest

\* Two free descriptors are enough for the two ends of a pipe.
LEMMA PipeEnds ==
    ASSUME Cardinality(Free) >= 2
    PROVE  ReadEnd \in Free /\ WriteEnd \in Free
<1>1. IsFiniteSet(Free)
    <2>1. IsFiniteSet(Fds)
        BY FS_Interval, SetAssumption DEF Fds
    <2>2. QED
        BY <2>1, FS_Subset DEF Free
<1>2. Free # {}
    BY <1>1, FS_EmptySet
<1>3. ReadEnd \in Free
    BY <1>2, LowestIsFree DEF ReadEnd, Free
<1>4. Free \ {ReadEnd} # {}
    <2>1. SUFFICES ASSUME Free \ {ReadEnd} = {} PROVE FALSE
        OBVIOUS
    <2>2. Cardinality(Free \ {ReadEnd}) = Cardinality(Free) - 1
        BY <1>1, <1>3, FS_RemoveElement
    <2>3. Cardinality(Free \ {ReadEnd}) = 0
        BY <2>1, FS_EmptySet
    <2>4. Cardinality(Free) \in Nat
        BY <1>1, FS_CardinalityType
    <2>5. QED
        BY <2>2, <2>3, <2>4
<1>5. WriteEnd \in Free \ {ReadEnd}
    BY <1>4, LowestIsFree DEF WriteEnd, Free
<1>6. QED
    BY <1>3, <1>5
-----------------------------------------------------------------------------
(* MapIsLive is not inductive: run() could give a child that is waited for *)
(* a second pipe.  What rules that out is that only an unborn child is     *)
(* run, and that an unborn one has no pipe and is nowhere in the reactor.  *)

ReactorInv ==
    /\ MapIsLive
    /\ \A f \in Waiting : status[map[f]] # "unborn"
    /\ loop = "dispatch" => cur \in Children /\ status[cur] # "unborn"
    /\ \A c \in Children : status[c] = "unborn" => pipe[c] = 0

\* The child the handlers are told of is the one on_readable popped, or none.
Popping == IF loop = "dispatch" THEN {pipe[cur]} ELSE {}

\* run(): the new descriptor is neither in the map nor the one being closed.
LEMMA SpawnKeeps ==
    ASSUME ReactorInv, NEW c \in Children, Spawn(c)
    PROVE  ReactorInv'
<1> USE DEF MapIsLive, TypeOK
<1>1. PICK p \in Programs :
        /\ prog' = [prog EXCEPT ![c] = p]
        /\ stdin' = [stdin EXCEPT ![c] = StdinAfterRun(p)]
        /\ \/ p.input # "large" /\ UNCHANGED <<loop, cur>>
           \/ p.input = "large" /\ loop = "idle" /\ loop' = "write" /\ cur' = c
    BY DEF Spawn
<1>2. /\ mgr /\ status[c] = "unborn"
      /\ status' = [status EXCEPT ![c] = "running"]
      /\ holders' = [holders EXCEPT ![c] = {"child"}]
      /\ UNCHANGED <<todo, mgr, notified>>
    BY DEF Spawn
<1>3. /\ pipe' = [pipe EXCEPT ![c] = ReadEnd]
      /\ open' = open \cup {ReadEnd}
      /\ map' = [map EXCEPT ![ReadEnd] = c]
      /\ watched' = watched \cup {ReadEnd}
    BY DEF Spawn, Register
<1>4. ReadEnd \in Fds /\ ReadEnd \notin open
    BY PipeEnds DEF Spawn, Free
<1> HIDE DEF ReadEnd
<1>5. loop' = "dispatch" => loop = "dispatch" /\ cur' = cur /\ cur # c
    BY <1>1, <1>2 DEF ReactorInv
<1>6. TypeOK'
    <2>1. prog' \in [Children -> ProgramType]
        BY <1>1, ProgramAssumption DEF ReactorInv
    <2>2. stdin' \in [Children -> {"eof", "data", "empty"}]
        BY <1>1 DEF ReactorInv, StdinAfterRun
    <2>3. loop' \in {"idle", "write", "dispatch"} /\ cur' \in Children \cup {NoChild}
        BY <1>1 DEF ReactorInv
    <2>4. QED
        BY <1>2, <1>3, <1>4, <2>1, <2>2, <2>3 DEF ReactorInv
<1>7. /\ Waiting' = Waiting \cup {ReadEnd}
      /\ \A f \in Waiting : f # ReadEnd /\ map'[f] = map[f] /\ map[f] # c
      /\ map'[ReadEnd] = c
    BY <1>2, <1>3, <1>4, SetAssumption DEF ReactorInv, Waiting
<1>8. /\ Waiting' = watched' /\ Waiting' \subseteq open'
      /\ \A f \in Waiting' : pipe'[map'[f]] = f /\ status'[map'[f]] # "unborn"
    BY <1>2, <1>3, <1>7 DEF ReactorInv, Waiting
<1>9. loop' = "dispatch" => /\ pipe'[cur'] = pipe[cur]
                            /\ pipe'[cur'] \in open' \ Waiting'
                            /\ cur' \in Children /\ status'[cur'] # "unborn"
    BY <1>2, <1>3, <1>4, <1>5, <1>7 DEF ReactorInv
<1>10. \A b \in Children : notified'[b] # {} => status'[b] = "reaped"
    BY <1>2 DEF ReactorInv
<1>11. \A b \in Children : status'[b] = "unborn" => pipe'[b] = 0
    BY <1>2, <1>3 DEF ReactorInv
<1>12. Smooth' => open' = Waiting' \cup (IF loop' = "dispatch" THEN {pipe'[cur']} ELSE {})
    <2>1. Smooth' => Smooth
        BY <1>2, <1>3 DEF ReactorInv, Smooth
    <2>2. (loop' = "dispatch") <=> (loop = "dispatch")
        BY <1>1
    <2>3. QED
        BY <1>3, <1>7, <1>9, <2>1, <2>2 DEF ReactorInv
<1>13. QED
    BY <1>6, <1>8, <1>9, <1>10, <1>11, <1>12 DEF ReactorInv

\* Popen raised: both ends stay open, and nothing is smooth any more.
LEMMA SpawnRaisesKeeps ==
    ASSUME ReactorInv, NEW c \in Children, SpawnRaises(c)
    PROVE  ReactorInv'
<1> USE DEF MapIsLive, TypeOK, loopVars
<1>1. ReadEnd \in Fds /\ WriteEnd \in Fds
    BY PipeEnds DEF SpawnRaises, Free
<1>2. /\ open' = open \cup {ReadEnd, WriteEnd}
      /\ status[c] = "unborn"
      /\ status' = [status EXCEPT ![c] = "reaped"]
      /\ UNCHANGED <<loopVars, mgr, map, watched, pipe, prog, holders, stdin, notified>>
    BY DEF SpawnRaises
<1> HIDE DEF ReadEnd, WriteEnd
<1>3. TypeOK'
    BY <1>1, <1>2 DEF ReactorInv
<1>4. ~Smooth'
    BY <1>2 DEF ReactorInv, Smooth
<1>5. QED
    BY <1>2, <1>3, <1>4 DEF ReactorInv, Waiting

\* on_readable(): the descriptor leaves the map and is the one to be closed.
LEMMA OnReadableKeeps ==
    ASSUME ReactorInv, NEW f \in Fds, OnReadable(f)
    PROVE  ReactorInv'
<1> USE DEF MapIsLive, TypeOK, childVars, loopVars
<1>1. /\ loop = "idle" /\ map[f] \in Children
      /\ map' = [map EXCEPT ![f] = NoChild]
      /\ watched' = watched \ {f}
      /\ UNCHANGED <<mgr, open, pipe, childVars, notified>>
    BY DEF ReactorInv, OnReadable, Readable, Popped
<1>2. \/ mgr /\ loop' = "dispatch" /\ cur' = map[f] /\ todo' = Handlers
      \/ ~mgr /\ UNCHANGED loopVars
    BY DEF OnReadable
<1>3. f \in Waiting /\ Waiting' = Waiting \ {f}
    BY <1>1, SetAssumption DEF ReactorInv, Waiting
<1>4. \A g \in Waiting' : map'[g] = map[g]
    BY <1>1, <1>3 DEF ReactorInv, Waiting
<1>5. TypeOK'
    BY <1>1, <1>2 DEF ReactorInv
<1>6. pipe[map[f]] = f /\ status[map[f]] # "unborn"
    BY <1>3 DEF ReactorInv
<1>7. Smooth' <=> Smooth
    BY <1>1 DEF Smooth
<1>8. CASE mgr
    BY <1>1, <1>2, <1>3, <1>4, <1>5, <1>6, <1>7, <1>8 DEF ReactorInv
<1>9. CASE ~mgr
    <2>1. ~Smooth'
        BY <1>7, <1>9 DEF Smooth
    <2>2. QED
        BY <1>1, <1>2, <1>3, <1>4, <1>5, <1>9, <2>1 DEF ReactorInv
<1>10. QED
    BY <1>8, <1>9

\* A handler is called: its child is reaped, or it raises and the descriptor leaks.
LEMMA NotifyKeeps ==
    ASSUME ReactorInv, NEW h \in Handlers, Notify(h)
    PROVE  ReactorInv'
<1> USE DEF MapIsLive, TypeOK, fdVars
<1>1. /\ loop = "dispatch" /\ cur \in Children
      /\ status' = [status EXCEPT ![cur] = "reaped"]
      /\ notified' = [notified EXCEPT ![cur] = notified[cur] \cup {h}]
      /\ UNCHANGED <<mgr, fdVars, prog, holders, stdin>>
    BY DEF ReactorInv, Notify, WaitFor
<1>2. \/ /\ h \in Raising[cur]
         /\ loop' = "idle" /\ cur' = NoChild /\ todo' = {}
      \/ todo' = todo \ {h} /\ UNCHANGED <<loop, cur>>
    BY DEF Notify
<1>3. TypeOK'
    BY <1>1, <1>2 DEF ReactorInv
<1>4. Waiting' = Waiting
    BY <1>1 DEF Waiting
<1>5. Smooth' => Smooth /\ h \notin Raising[cur]
    BY <1>1 DEF ReactorInv, Smooth
<1>6. QED
    BY <1>1, <1>2, <1>3, <1>4, <1>5 DEF ReactorInv, Waiting

\* The last handler was called: the descriptor is closed, and was in no map.
LEMMA DispatchedKeeps ==
    ASSUME ReactorInv, Dispatched
    PROVE  ReactorInv'
<1> USE DEF MapIsLive, TypeOK, childVars
<1>1. /\ loop = "dispatch" /\ cur \in Children
      /\ open' = open \ {pipe[cur]}
      /\ loop' = "idle" /\ cur' = NoChild
      /\ UNCHANGED <<todo, mgr, map, watched, pipe, childVars, notified>>
    BY DEF ReactorInv, Dispatched, CloseOf
<1>2. Waiting' = Waiting /\ (Smooth' <=> Smooth)
    BY <1>1 DEF Waiting, Smooth
<1>3. QED
    BY <1>1, <1>2 DEF ReactorInv

\* The children's own steps touch neither the reactor nor the descriptors.
LEMMA ChildKeeps ==
    ASSUME ReactorInv, NEW c \in Children, ChildStep(c) \/ CloseEarly(c)
    PROVE  ReactorInv'
<1> USE DEF MapIsLive, TypeOK, loopVars, fdVars
<1>1. /\ UNCHANGED <<loopVars, mgr, fdVars, prog, stdin, notified>>
      /\ \/ status[c] = "running" /\ status' = [status EXCEPT ![c] = "exited"]
         \/ UNCHANGED status
      /\ holders' \in [Children -> SUBSET {"child", "heir"}]
    BY DEF ReactorInv, ChildStep, CloseEarly, Exit, HeirExit
<1>2. TypeOK'
    BY <1>1 DEF ReactorInv
<1>3. /\ \A b \in Children : status'[b] = "unborn" <=> status[b] = "unborn"
      /\ \A b \in Children : notified[b] # {} => status'[b] = "reaped"
    BY <1>1 DEF ReactorInv
<1>4. Waiting' = Waiting /\ (Smooth' <=> Smooth)
    BY <1>1, <1>3 DEF Waiting, Smooth
<1>5. QED
    BY <1>1, <1>2, <1>3, <1>4 DEF ReactorInv, Waiting

\* The reactor's invariant holds in every reachable state.
THEOREM ReactorInvariant == Spec => []ReactorInv
<1>1. Init => ReactorInv
    BY SetAssumption DEF Init, ReactorInv, MapIsLive, TypeOK, Waiting, Idle, ProgramType
<1>2. ReactorInv /\ [Next]_vars => ReactorInv'
    <2> SUFFICES ASSUME ReactorInv, [Next]_vars PROVE ReactorInv'
        OBVIOUS
    <2>1. ASSUME NEW c \in Children, Spawn(c) PROVE ReactorInv'
        BY <2>1, SpawnKeeps
    <2>2. ASSUME NEW c \in Children, SpawnRaises(c) PROVE ReactorInv'
        BY <2>2, SpawnRaisesKeeps
    <2>3. ASSUME NEW c \in Children, ChildStep(c) \/ CloseEarly(c) PROVE ReactorInv'
        BY <2>3, ChildKeeps
    <2>4. CASE DropManager
        <3>1. ~Smooth'
            BY <2>4 DEF DropManager, Smooth
        <3>2. QED
            BY <2>4, <3>1 DEF DropManager, ReactorInv, MapIsLive, TypeOK, Waiting,
               loopVars, fdVars, childVars
    <2>5. CASE WriteEnds
        BY <2>5 DEF WriteEnds, ReactorInv, MapIsLive, TypeOK, Waiting, Smooth, fdVars, childVars
    <2>6. ASSUME NEW f \in Fds, OnReadable(f) PROVE ReactorInv'
        BY <2>6, OnReadableKeeps
    <2>7. ASSUME NEW h \in Handlers, Notify(h) PROVE ReactorInv'
        BY <2>7, NotifyKeeps
    <2>8. CASE Dispatched
        BY <2>8, DispatchedKeeps
    <2>9. CASE UNCHANGED vars
        BY <2>9 DEF vars, ReactorInv, MapIsLive, TypeOK, Waiting, Smooth, loopVars, fdVars,
           childVars
    <2>10. QED
        BY <2>1, <2>2, <2>3, <2>4, <2>5, <2>6, <2>7, <2>8, <2>9 DEF Next, EventLoop
<1>3. QED
    BY <1>1, <1>2, PTL DEF Spec

\* What the reactor waits for is real, for any number of children and whatever they
\* do with their pipes: _fd_map is the watched descriptors, each child under its
\* own, open one, no exit is reported of a child that was not reaped, and without
\* an exception no descriptor leaks.
THEOREM MapIsLiveHolds == Spec => []MapIsLive
<1>1. ReactorInv => MapIsLive
    BY DEF ReactorInv
<1>2. QED
    BY <1>1, ReactorInvariant, PTL
=============================================================================
