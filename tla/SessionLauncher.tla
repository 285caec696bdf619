--------------------------- MODULE SessionLauncher ---------------------------
(***************************************************************************)
(* glasswyrm-session (session/launcher.cpp, process_supervisor.cpp): the   *)
(* process that prepares the runtime directory, starts gwm, gwcomp,        *)
(* glasswyrmd and an initial client one after the other, each only after   *)
(* the one before has published its sockets, watches them, and takes them  *)
(* down in the reverse order.                                              *)
(*                                                                         *)
(* The children are modelled by what they do to the file system and by how *)
(* they end: the sockets they publish (x11_listener.cpp, ipc/endpoint.cpp) *)
(* are files with an inode; the number of a file that was removed may be   *)
(* given to the next one.  A child may crash, may exit, may ignore the signal it is    *)
(* sent, and never survives SIGKILL.  Time is a choice: a deadline may     *)
(* pass at any poll.                                                       *)
(***************************************************************************)
EXTENDS Naturals, FiniteSets

CONSTANTS
    Signals,         \* the signals the launcher catches: SIGINT, SIGTERM
    MaxSignals       \* bound on the signals sent to the launcher

ASSUME LauncherAssumption ==
    /\ 15 \in Signals /\ Signals \subseteq Nat \ {0}
    /\ MaxSignals \in Nat

VARIABLES
    options,         \* which optional parts the command line asks for
    directory,       \* the runtime directory, and whether the launcher made it
    file,            \* inode of every socket path, 0 when there is no file
    maker,           \* history: who made the file
    phase,           \* where the launcher is in run_launcher and run
    index,           \* the child that is waited for or taken down
    running,         \* ProcessSupervisor::Child::running
    before,          \* inode at each path before its child was spawned
    process,         \* the children as the kernel sees them
    status,          \* the status the initial client has exited with
    pending,         \* pending_signal
    signal,          \* the signal shutdown_reverse sends
    result,          \* exit status of the launcher
    sent             \* number of signals sent to the launcher

files == <<directory, file, maker>>
launcher == <<phase, index, running, before, signal, result>>
children == <<process, status>>
outside == <<options, pending, sent>>
vars == <<files, launcher, children, outside>>

-----------------------------------------------------------------------------
(* The plan *)

Gwm == 1
Gwcomp == 2
Glasswyrmd == 3
Client == 4
Children == Gwm..Client

\* Makers of a file that is not of this session: a dead server, a live one.
Stale == 0
Stranger == 5

SIGTERM == 15

\* Not an exit status: run has not decided on one yet.
Undecided == 256

Inodes == {1, 2}
Paths == {"wm", "compositor", "x11", "control"}

\* make_runtime_paths: the socket paths of the session ...
InUse == IF options.control THEN Paths ELSE Paths \ {"control"}

\* ... and those run_launcher checks before and unlinks after the session.
RuntimeSockets == InUse \ {"x11"}

\* build_command_plan: the children in the order they start ...
Plan == Gwm..(IF options.client THEN Client ELSE Glasswyrmd)

\* ... and the paths each has to publish before the next one starts.
Readiness(c) ==
    InUse \cap CASE c = Gwm -> {"wm"}
                 [] c = Gwcomp -> {"compositor"}
                 [] c = Glasswyrmd -> {"x11", "control"}
                 [] c = Client -> {}

Required(c) == c # Client

Alive(c) == process[c] \in {"up", "asked"}

-----------------------------------------------------------------------------
(* The command line *)

\* What parse_options makes of the words it knows: the choices that may exclude
\* each other.  drm says whether none, some or all of the options are there that
\* name the DRM device, its terminal, connector, mode and input devices.
CommandLines ==
    [backend : {"drm", "headless"}, drm : {"none", "some", "all"}, headless_outputs : BOOLEAN,
     output_model : BOOLEAN, control_socket : BOOLEAN, scale_protocol : BOOLEAN,
     game_compat : BOOLEAN, disabled_extensions : BOOLEAN, client : BOOLEAN]

\* validate, in a build with the experimental parts and in one without.
validate(o, experimental) ==
    /\ o.backend = "drm" => o.drm = "all" /\ ~o.headless_outputs
    /\ o.backend = "headless" => o.drm = "none"
    /\ o.control_socket \/ o.scale_protocol => o.output_model
    /\ o.disabled_extensions => o.game_compat
    /\ o.scale_protocol \/ o.game_compat => experimental

\* The parts of the session that a command line asks for.
Wanted(o) ==
    [control |-> o.output_model, client |-> o.client, frames |-> o.backend = "headless"]

-----------------------------------------------------------------------------
(* The launcher *)

\* The control socket may be named outside of the runtime directory.
Init ==
    /\ directory \in [state : {"none", "mine", "foreign"}, created : {FALSE}]
    /\ file \in [Paths -> {0, 1}]
    /\ Cardinality({p \in Paths : file[p] # 0}) <= 1
    /\ \E o \in CommandLines :
          /\ \E experimental \in BOOLEAN : validate(o, experimental)
          /\ options = Wanted(o)
          /\ \A p \in RuntimeSockets :
                file[p] # 0 => directory.state # "none" \/ (p = "control" /\ o.control_socket)
    /\ maker \in {[p \in Paths |-> m] : m \in {Stale, Stranger}}
    /\ phase = "Prepare"
    /\ index = 0
    /\ running = [c \in Children |-> FALSE]
    /\ before = [p \in Paths |-> 0]
    /\ process = [c \in Children |-> "none"]
    /\ status = 0
    /\ pending = 0
    /\ signal = 0
    /\ result = Undecided
    /\ sent = 0

\* secure_runtime_directory, and run_launcher's look at the runtime sockets:
\* the directory is made if need be, refused when it is not a private one, and
\* removed again when a socket is there already.
PrepareDirectory ==
    /\ phase = "Prepare"
    /\ LET refused == \/ directory.state = "foreign"
                      \/ \E p \in RuntimeSockets : file[p] # 0
       IN  IF refused
           THEN /\ phase' = "Done"
                /\ result' = 2
                /\ UNCHANGED <<directory, index>>
           ELSE /\ phase' = "Spawn"
                /\ index' = Gwm
                /\ directory' = [state |-> "mine", created |-> directory.state = "none"]
                /\ UNCHANGED result
    /\ UNCHANGED <<file, maker, running, before, signal, children, outside>>

\* run, when a child did not start or did not become ready.
GiveUp ==
    /\ signal' = IF pending # 0 THEN pending ELSE SIGTERM
    /\ phase' = "Signal"
    /\ index' = Client
    /\ UNCHANGED result

\* ProcessSupervisor::spawn: the paths are looked at before the child exists.
Spawn ==
    /\ phase = "Spawn"
    /\ before' = [p \in Paths |-> IF p \in Readiness(index) THEN file[p] ELSE before[p]]
    /\ running' = [running EXCEPT ![index] = TRUE]
    /\ process' = [process EXCEPT ![index] = "up"]
    /\ phase' = "Wait"
    /\ UNCHANGED <<files, index, signal, result, status, outside>>

\* posix_spawnp fails.
SpawnFails ==
    /\ phase = "Spawn"
    /\ GiveUp
    /\ UNCHANGED <<files, running, before, children, outside>>

\* Mutant of PathReady: any file at the path will do.
PathReadyAnyFile(p) == file[p] # 0

\* path_ready: there is a file and it is not the one from before the spawn.
PathReady(p) == file[p] # 0 /\ file[p] # before[p]

\* The child reap_nonblocking finds: the first one that has ended.
Exited == {c \in Children : running[c] /\ ~Alive(c)}
FirstExited == CHOOSE c \in Exited : \A d \in Exited : c <= d

\* wait_until_ready returns true, and run goes on.
Ready ==
    /\ phase = "Wait"
    /\ Readiness(index) # {} => pending = 0
    /\ \A p \in Readiness(index) : PathReady(p)
    /\ IF index + 1 \in Plan
       THEN phase' = "Spawn" /\ index' = index + 1
       ELSE phase' = "Watch" /\ index' = 0
    /\ UNCHANGED <<files, running, before, signal, result, children, outside>>

\* wait_until_ready returns false: a child has ended ...
ExitBeforeReady ==
    /\ phase = "Wait"
    /\ pending = 0
    /\ \E p \in Readiness(index) : ~PathReady(p)
    /\ Exited # {}
    /\ running' = [running EXCEPT ![FirstExited] = FALSE]
    /\ GiveUp
    /\ UNCHANGED <<files, before, children, outside>>

\* ... or a signal is pending, or the deadline has passed.
GiveUpWaiting ==
    /\ phase = "Wait"
    /\ Readiness(index) # {}
    /\ GiveUp
    /\ UNCHANGED <<files, running, before, children, outside>>

\* The main loop of run: a signal ...
Interrupted ==
    /\ phase = "Watch"
    /\ pending # 0
    /\ signal' = pending
    /\ result' = 128 + pending
    /\ phase' = "Signal"
    /\ index' = Client
    /\ UNCHANGED <<files, running, before, children, outside>>

\* ... or the end of a child.
ChildEnded ==
    /\ phase = "Watch"
    /\ pending = 0
    /\ Exited # {}
    /\ running' = [running EXCEPT ![FirstExited] = FALSE]
    /\ result' = IF Required(FirstExited) THEN 1 ELSE status
    /\ signal' = SIGTERM
    /\ phase' = "Signal"
    /\ index' = Client
    /\ UNCHANGED <<files, before, children, outside>>

\* Mutant of SignalChild: all are signalled at once and nobody is waited for.
SignalWithoutWaiting ==
    /\ phase = "Signal"
    /\ index > 0
    /\ process' = [process EXCEPT ![index] = IF @ = "up" THEN "asked" ELSE @]
    /\ index' = index - 1
    /\ UNCHANGED <<files, phase, running, before, signal, result, status, outside>>

\* shutdown_reverse comes to child index: it is signalled if it was not reaped.
SignalChild ==
    /\ phase = "Signal"
    /\ index > 0
    /\ IF running[index]
       THEN /\ process' = [process EXCEPT ![index] = IF @ = "up" THEN "asked" ELSE @]
            /\ phase' = "Grace"
            /\ UNCHANGED index
       ELSE /\ index' = index - 1
            /\ UNCHANGED <<process, phase>>
    /\ UNCHANGED <<files, running, before, signal, result, status, outside>>

\* Mutant of ReapOrKill: no SIGKILL after the shutdown timeout.
ReapOnly ==
    /\ phase = "Grace"
    /\ ~Alive(index)
    /\ running' = [running EXCEPT ![index] = FALSE]
    /\ phase' = "Signal"
    /\ index' = index - 1
    /\ UNCHANGED <<files, before, signal, result, children, outside>>

\* The child has ended within the shutdown timeout, or it is killed; either way
\* it is waited for before the next one is looked at.
ReapOrKill ==
    /\ phase = "Grace"
    /\ process' = [process EXCEPT ![index] = "dead"]
    /\ running' = [running EXCEPT ![index] = FALSE]
    /\ phase' = "Signal"
    /\ index' = index - 1
    /\ UNCHANGED <<files, before, signal, result, status, outside>>

\* reap_all finds nobody, run returns, and run_launcher clears the runtime
\* directory; rmdir fails when gwcomp has left its frames there.
CleanUp ==
    /\ phase = "Signal"
    /\ index = 0
    /\ file' = [p \in Paths |-> IF p \in RuntimeSockets THEN 0 ELSE file[p]]
    /\ directory' =
          IF directory.created /\ ~(options.frames /\ process[Gwcomp] # "none")
          THEN [directory EXCEPT !.state = "none"] ELSE directory
    /\ result' = IF result # Undecided THEN result
                 ELSE IF pending # 0 THEN 128 + pending ELSE 1
    /\ phase' = "Done"
    /\ UNCHANGED <<maker, index, running, before, signal, children, outside>>

-----------------------------------------------------------------------------
(* The children and the outside *)

\* remove_stale_socket: a child that finds a live server at its path ends, a
\* dead one's socket it removes.
ClearPath(c, p) ==
    /\ Alive(c) /\ p \in Readiness(c) /\ maker[p] # c
    /\ file[p] # 0
    /\ IF maker[p] = Stranger
       THEN process' = [process EXCEPT ![c] = "dead"] /\ UNCHANGED file
       ELSE file' = [file EXCEPT ![p] = 0] /\ UNCHANGED process
    /\ UNCHANGED <<directory, maker, launcher, status, outside>>

\* open_listener.  Inodes are compared per path and only with the
\* one from before the spawn: the new file has that number again or another.
BindPath(c, p) ==
    /\ Alive(c) /\ p \in Readiness(c) /\ maker[p] # c
    /\ file[p] = 0
    /\ \E i \in IF before[p] = 0 THEN {1} ELSE Inodes : file' = [file EXCEPT ![p] = i]
    /\ maker' = [maker EXCEPT ![p] = c]
    /\ UNCHANGED <<directory, launcher, children, outside>>

\* A gwipc listener: prepare_endpoint_path finds nothing to remove, because
\* run_launcher has refused to start where a runtime socket was there already.
Endpoints == Paths \ {"x11"}

BindEndpoint(c, p) == p \in Endpoints /\ BindPath(c, p)

\* cleanup_endpoint, unlink_owned_socket: the file is removed if it is the one
\* the listener was bound to.
Unlinked(c) == [p \in Paths |-> IF maker[p] = c THEN 0 ELSE file[p]]

\* A child ends by itself or because it was asked to.
Exit(c) ==
    /\ Alive(c)
    /\ process' = [process EXCEPT ![c] = "dead"]
    /\ file' = Unlinked(c)
    /\ IF c = Client THEN status' \in {0, 1} ELSE UNCHANGED status
    /\ UNCHANGED <<directory, maker, launcher, outside>>

\* A child crashes: its sockets stay behind.
Crash(c) ==
    /\ Alive(c)
    /\ process' = [process EXCEPT ![c] = "dead"]
    /\ status' = IF c = Client THEN 1 ELSE status
    /\ UNCHANGED <<files, launcher, outside>>

\* handle_signal: the last signal is the one that counts.
Signal(s) ==
    /\ sent < MaxSignals
    /\ phase # "Done"
    /\ pending' = s
    /\ sent' = sent + 1
    /\ UNCHANGED <<files, launcher, children, options>>

Launch ==
    \/ PrepareDirectory \/ Spawn \/ SpawnFails
    \/ Ready \/ ExitBeforeReady \/ GiveUpWaiting
    \/ Interrupted \/ ChildEnded
    \/ SignalChild \/ ReapOrKill \/ CleanUp

Next ==
    \/ PrepareDirectory \/ Spawn \/ SpawnFails
    \/ Ready \/ ExitBeforeReady \/ GiveUpWaiting
    \/ Interrupted \/ ChildEnded
    \/ SignalChild \/ ReapOrKill \/ CleanUp
    \/ \E c \in Children : ClearPath(c, "x11") \/ BindPath(c, "x11")
    \/ \E c \in Children, p \in Paths : BindEndpoint(c, p)
    \/ \E c \in Children : Exit(c) \/ Crash(c)
    \/ \E s \in Signals : Signal(s)

Spec == Init /\ [][Next]_vars

\* The launcher polls with timeouts, so it never stops taking steps.  Nothing is
\* assumed of the children: they may never publish, end or heed a signal.
FairSpec == Spec /\ WF_vars(Launch)

-----------------------------------------------------------------------------
(* Properties *)

\* The variables have their types.
TypeOK ==
    /\ options \in [control : BOOLEAN, client : BOOLEAN, frames : BOOLEAN]
    /\ directory \in [state : {"none", "mine", "foreign"}, created : BOOLEAN]
    /\ file \in [Paths -> Inodes \cup {0}]
    /\ maker \in [Paths -> Children \cup {Stale, Stranger}]
    /\ phase \in {"Prepare", "Spawn", "Wait", "Watch", "Signal", "Grace", "Done"}
    /\ index \in Children \cup {0}
    /\ running \in [Children -> BOOLEAN]
    /\ before \in [Paths -> Inodes \cup {0}]
    /\ process \in [Children -> {"none", "up", "asked", "dead"}]
    /\ status \in {0, 1}
    /\ pending \in Signals \cup {0}
    /\ signal \in Signals \cup {0}
    /\ result \in Nat
    /\ sent \in 0..MaxSignals

\* A child is started only when every child before it that is still alive has
\* published its own sockets: a socket that an interrupted session left behind,
\* or that is there before the child, is not taken for its readiness
\* (path_ready and the identities spawn records).
StartsAfterItsServers ==
    [][\A c \in Children : process[c] = "none" /\ process'[c] = "up" =>
          \A d \in 1..(c - 1) : Alive(d) =>
              \A p \in Readiness(d) : maker[p] = d /\ file[p] # 0]_vars

\* A child is signalled or killed by the launcher only when every child that
\* was started after it, and so may depend on it, has ended and is reaped
\* (shutdown_reverse).
TakenDownInReverse ==
    [][\A c \in Children :
          running[c] /\ (running'[c] # running[c] \/ process'[c] = "asked")
             /\ phase \in {"Signal", "Grace"} =>
          \A d \in (c + 1)..Client : ~running[d] /\ ~Alive(d)]_vars

Troubled == pending # 0 \/ \E c \in Children : Required(c) /\ process[c] = "dead"

Over ==
    /\ phase = "Done"
    /\ \A c \in Children : ~Alive(c)
    /\ result # 2 =>
          /\ \A p \in RuntimeSockets : file[p] = 0
          /\ directory.created /\ ~options.frames => directory.state = "none"

\* After a signal, or after the end of a process the session cannot do without,
\* the session is over: every process is gone, with the sockets of its runtime
\* directory, and so is that directory if the launcher made it, whatever the
\* children do about the signal.  (The X11 socket and the directory of the
\* frames are not the launcher's to remove.)
SessionEnds == Troubled ~> Over
=============================================================================
