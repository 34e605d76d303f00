--------------------------- MODULE SubprocessMgr ---------------------------
(***************************************************************************)
(* Asynchronous child processes: SubprocessMgr, its reactor and            *)
(* ChildProcess (resources/libapp/subprocess.py) in one daemon.            *)
(*                                                                         *)
(* A child inherits the write end of a pipe; the read end becomes readable *)
(* when every holder of the write end is gone, and the EosSdk event loop   *)
(* then calls on_readable.  External: the children, the kernel's pipes and *)
(* file descriptors, Popen, and the event loop, which runs one handler at  *)
(* a time and swallows an exception that escapes it (eossdk_utils.py).     *)
(***************************************************************************)
EXTENDS Naturals, FiniteSets

CONSTANTS
    Children,    \* the child processes, one for each call of run()
    NoChild,     \* no child
    Handlers,    \* the live members of SubprocessMgr._handlers
    Raising,     \* Raising[c]: the handlers whose on_process_exit(c) raises
    Programs,    \* what the commands do, and the arguments of run()
    MaxFd,       \* bound: file descriptors are 1 .. MaxFd
    SpawnFails,  \* whether Popen may raise (no such command, no memory)
    MayDrop      \* whether the daemon may drop its SubprocessMgr

ASSUME SetAssumption ==
    /\ NoChild \notin Children
    /\ Raising \in [Children -> SUBSET Handlers]
    /\ MaxFd \in Nat
    /\ SpawnFails \in BOOLEAN
    /\ MayDrop \in BOOLEAN

\* input: the argument of run(): absent, b"", less than a stdio buffer, more
\*        than a pipe holds;    reads: how much of its stdin the child reads
\* floods: stdout=PIPE and the child writes more than a pipe holds
\* heir:  a descendant outlives the child, holding the inherited write end
\* early: the child closes the inherited write end before it exits
ProgramType == [input : {"absent", "empty", "small", "large"},
                reads : {"nothing", "some", "all"},
                floods : BOOLEAN, heir : BOOLEAN, early : BOOLEAN]

ASSUME ProgramAssumption == Programs \subseteq ProgramType

VARIABLES
    loop,      \* the event loop: idle, in run()'s write, or in on_readable
    cur,       \* the child on_readable, or run()'s write, is about
    todo,      \* the handlers still to be called for it
    mgr,       \* the SubprocessMgr is alive (the reactor's weak reference)
    map,       \* SubprocessReactor._fd_map
    watched,   \* the descriptors watch_readable() is on for
    open,      \* the daemon's open descriptors
    pipe,      \* ChildProcess._fd
    prog,      \* the program of each child
    status,    \* unborn, running, exited (a zombie), reaped
    holders,   \* who holds the write end of the child's pipe
    stdin,     \* what the child can read: "eof", "data", or "empty" (it blocks)
    notified   \* the handlers that were told of the child's exit

loopVars  == <<loop, cur, todo>>
fdVars    == <<map, watched, open, pipe>>
childVars == <<prog, status, holders, stdin>>
vars      == <<loopVars, mgr, fdVars, childVars, notified>>

Fds == 1 .. MaxFd

TypeOK ==
    /\ loop \in {"idle", "write", "dispatch"}
    /\ cur \in Children \cup {NoChild}
    /\ todo \in SUBSET Handlers
    /\ mgr \in BOOLEAN
    /\ map \in [Fds -> Children \cup {NoChild}]
    /\ watched \in SUBSET Fds
    /\ open \in SUBSET Fds
    /\ pipe \in [Children -> Fds \cup {0}]
    /\ prog \in [Children -> ProgramType]
    /\ status \in [Children -> {"unborn", "running", "exited", "reaped"}]
    /\ holders \in [Children -> SUBSET {"child", "heir"}]
    /\ stdin \in [Children -> {"eof", "data", "empty"}]
    /\ notified \in [Children -> SUBSET Handlers]

Idle == [input |-> "absent", reads |-> "nothing", floods |-> FALSE, heir |-> FALSE,
         early |-> FALSE]

Init ==
    /\ loop = "idle"
    /\ cur = NoChild
    /\ todo = {}
    /\ mgr = TRUE
    /\ map = [f \in Fds |-> NoChild]
    /\ watched = {}
    /\ open = {}
    /\ pipe = [c \in Children |-> 0]
    /\ prog = [c \in Children |-> Idle]
    /\ status = [c \in Children |-> "unborn"]
    /\ holders = [c \in Children |-> {}]
    /\ stdin = [c \in Children |-> "eof"]
    /\ notified = [c \in Children |-> {}]
-----------------------------------------------------------------------------
(* run()                                                                   *)

\* The kernel hands out the lowest free descriptor.
Lowest(S) == CHOOSE f \in S : \A g \in S : f <= g
Free      == Fds \ open
ReadEnd   == Lowest(Free)
WriteEnd  == Lowest(Free \ {ReadEnd})

\* The daemon may call run() from any handler, on_process_exit included.
InDaemonCode ==
    \/ loop = "idle"
    \/ loop = "dispatch" /\ notified[cur] # {}

\* mutant: the read end is stored but not watched when a handler is running
RegisterUnwatched(c) ==
    /\ map' = [map EXCEPT ![ReadEnd] = c]
    /\ watched' = IF loop = "idle" THEN watched \cup {ReadEnd} ELSE watched

\* SubprocessReactor.add_child
Register(c) ==
    /\ map' = [map EXCEPT ![ReadEnd] = c]
    /\ watched' = watched \cup {ReadEnd}

\* What the child finds on its stdin (the daemon's own, at its end, without an
\* input): not the data that is still in the daemon's stdio buffer, and never
\* the end of file, for run() does not close the pipe.
StdinAfterRun(p) ==
    CASE p.input = "absent" -> "eof"
      [] p.input = "large"  -> "data"
      [] OTHER              -> "empty"

\* ChildProcess(...), add_child and stdin.write(input), which fills the pipe and
\* blocks if the input is large.  (Large inputs are given outside on_process_exit.)
Spawn(c) ==
    /\ mgr
    /\ InDaemonCode
    /\ status[c] = "unborn"
    /\ Cardinality(Free) >= 2
    /\ \E p \in Programs :
        /\ prog' = [prog EXCEPT ![c] = p]
        /\ stdin' = [stdin EXCEPT ![c] = StdinAfterRun(p)]
        /\ \/ p.input # "large" /\ UNCHANGED <<loop, cur>>
           \/ p.input = "large" /\ loop = "idle" /\ loop' = "write" /\ cur' = c
    /\ status' = [status EXCEPT ![c] = "running"]
    /\ holders' = [holders EXCEPT ![c] = {"child"}]
    /\ pipe' = [pipe EXCEPT ![c] = ReadEnd]
    /\ open' = open \cup {ReadEnd}
    /\ Register(c)
    /\ UNCHANGED <<todo, mgr, notified>>

\* Popen raises after os.pipe(): neither end is closed again.
SpawnRaises(c) ==
    /\ SpawnFails
    /\ mgr
    /\ InDaemonCode
    /\ status[c] = "unborn"
    /\ Cardinality(Free) >= 2
    /\ open' = open \cup {ReadEnd, WriteEnd}
    /\ status' = [status EXCEPT ![c] = "reaped"]
    /\ UNCHANGED <<loopVars, mgr, map, watched, pipe, prog, holders, stdin, notified>>

\* The write returns when the child has read the input, or raises (EPIPE) when
\* the child is gone; run() ends either way.
WriteEnds ==
    /\ loop = "write"
    /\ prog[cur].reads = "all" \/ status[cur] # "running"
    /\ loop' = "idle"
    /\ cur' = NoChild
    /\ UNCHANGED <<todo, mgr, fdVars, childVars, notified>>

\* The daemon forgets its manager.
DropManager ==
    /\ MayDrop
    /\ mgr
    /\ loop = "idle"
    /\ mgr' = FALSE
    /\ UNCHANGED <<loopVars, fdVars, childVars, notified>>
-----------------------------------------------------------------------------
(* on_readable()                                                           *)

Readable(f) == f \in watched /\ map[f] # NoChild /\ holders[map[f]] = {}

\* mutant: get() in the place of pop()
Got(f) == map

Popped(f) == [map EXCEPT ![f] = NoChild]

\* The child is taken from the map and its descriptor is not watched any more;
\* nothing else happens if the manager is gone.
OnReadable(f) ==
    /\ loop = "idle"
    /\ Readable(f)
    /\ map' = Popped(f)
    /\ watched' = watched \ {f}
    /\ IF mgr
       THEN loop' = "dispatch" /\ cur' = map[f] /\ todo' = Handlers
       ELSE UNCHANGED loopVars
    /\ UNCHANGED <<mgr, open, pipe, childVars, notified>>

\* child.wait(): blocks the daemon until the child has exited, and reaps it.
WaitFor(c) ==
    /\ status[c] \in {"exited", "reaped"}
    /\ status' = [status EXCEPT ![c] = "reaped"]

\* handler.on_process_exit(child, child.wait()).  An exception ends on_readable.
Notify(h) ==
    /\ loop = "dispatch"
    /\ h \in todo
    /\ WaitFor(cur)
    /\ notified' = [notified EXCEPT ![cur] = @ \cup {h}]
    /\ IF h \in Raising[cur]
       THEN loop' = "idle" /\ cur' = NoChild /\ todo' = {}
       ELSE todo' = todo \ {h} /\ UNCHANGED <<loop, cur>>
    /\ UNCHANGED <<mgr, fdVars, prog, holders, stdin>>

\* os.close(fd)
CloseOf(c) == open' = open \ {pipe[c]}

Dispatched ==
    /\ loop = "dispatch"
    /\ todo = {}
    /\ CloseOf(cur)
    /\ loop' = "idle"
    /\ cur' = NoChild
    /\ UNCHANGED <<todo, mgr, map, watched, pipe, childVars, notified>>
-----------------------------------------------------------------------------
(* The children                                                            *)

\* The child has all of its stdin that it reads before it exits.
HasRead(c) ==
    \/ prog[c].reads = "nothing"
    \/ prog[c].reads = "some" /\ stdin[c] # "empty"
    \/ prog[c].reads = "all" /\ stdin[c] = "eof"

\* It exits; a descendant may stay behind with the write end.
Exit(c) ==
    /\ status[c] = "running"
    /\ HasRead(c)
    /\ ~prog[c].floods
    /\ status' = [status EXCEPT ![c] = "exited"]
    /\ holders' = [holders EXCEPT ![c] = IF prog[c].heir THEN {"heir"} ELSE {}]
    /\ UNCHANGED <<loopVars, mgr, fdVars, prog, stdin, notified>>

CloseEarly(c) ==
    /\ status[c] = "running"
    /\ prog[c].early
    /\ holders[c] # {}
    /\ holders' = [holders EXCEPT ![c] = {}]
    /\ UNCHANGED <<loopVars, mgr, fdVars, prog, status, stdin, notified>>

HeirExit(c) ==
    /\ status[c] # "running"
    /\ holders[c] = {"heir"}
    /\ holders' = [holders EXCEPT ![c] = {}]
    /\ UNCHANGED <<loopVars, mgr, fdVars, prog, status, stdin, notified>>
-----------------------------------------------------------------------------
EventLoop ==
    \/ WriteEnds
    \/ \E f \in Fds : OnReadable(f)
    \/ \E h \in Handlers : Notify(h)
    \/ Dispatched

ChildStep(c) == Exit(c) \/ HeirExit(c)

Next ==
    \/ \E c \in Children : Spawn(c) \/ SpawnRaises(c) \/ CloseEarly(c) \/ ChildStep(c)
    \/ DropManager
    \/ EventLoop

Spec == Init /\ [][Next]_vars

\* The daemon's event loop runs, and a child that can make progress does.
FairSpec ==
    /\ Spec
    /\ \A f \in Fds : SF_vars(OnReadable(f))
    /\ WF_vars(EventLoop)
    /\ \A c \in Children : WF_vars(ChildStep(c))
-----------------------------------------------------------------------------
(* Properties                                                              *)

Waiting == {f \in Fds : map[f] # NoChild}

\* Nothing went wrong in the daemon's own code so far: no spawn raised (pipe stays
\* 0), no handler raised, and the manager was kept.
Smooth ==
    /\ mgr
    /\ \A c \in Children : notified[c] \cap Raising[c] = {}
    /\ \A c \in Children : status[c] # "unborn" => pipe[c] # 0

\* What the reactor waits for is real: every child in _fd_map is there under its
\* own read end, open and watched, and a descriptor that is in the middle of
\* on_readable is not reused for a child that a handler starts meanwhile.  Handlers
\* are given an exit code, so only of a child that is reaped, also when it closed the
\* pipe long before it exited; and while nothing goes wrong, every descriptor the
\* daemon holds is one the reactor will still close.
MapIsLive ==
    /\ TypeOK
    /\ Waiting = watched
    /\ Waiting \subseteq open
    /\ \A f \in Waiting : pipe[map[f]] = f
    /\ loop = "dispatch" => pipe[cur] \in open \ Waiting
    /\ \A c \in Children : notified[c] # {} => status[c] = "reaped"
    /\ Smooth => open = Waiting \cup (IF loop = "dispatch" THEN {pipe[cur]} ELSE {})

\* wait() blocks the daemon: the child closed the pipe but waits for its stdin.
Stuck == loop = "dispatch" /\ status[cur] = "running" /\ ~HasRead(cur)

\* Every handler is told of every child's exit, unless something goes wrong in
\* the daemon before.
ExitNotified ==
    \A c \in Children :
        status[c] = "exited" ~> notified[c] = Handlers \/ ~Smooth \/ Stuck
=============================================================================
