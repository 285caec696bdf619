------------------------ MODULE SessionLauncherProofs ------------------------
(***************************************************************************)
(* Proofs about the session launcher: whatever the children do, and however *)
(* many signals arrive, a child is started only on top of servers that have *)
(* published their own sockets, children are taken down in the reverse      *)
(* order, and when the launcher returns nobody is left.                     *)
(***************************************************************************)
EXTENDS SessionLauncher, TLAPS

\* What the supervisor's table says of the processes.
Supervised ==
    /\ \A c \in Children : /\ Alive(c) => running[c]
                           /\ running[c] => process[c] # "none"
    /\ \A c \in Children : process[c] = "asked" => phase = "Grace" /\ index = c
    /\ phase \in {"Prepare", "Signal", "Watch", "Done"} \/ index # 0

\* The children not reached yet do not exist; those that shutdown_reverse has
\* passed are reaped.
Ordered ==
    /\ phase = "Prepare" => \A c \in Children : process[c] = "none"
    /\ phase = "Spawn" => \A c \in Children : c >= index => process[c] = "none"
    /\ phase = "Wait" => \A c \in Children : c > index => process[c] = "none"
    /\ phase = "Wait" => process[index] # "none"
    /\ phase = "Grace" => process[index] # "none"
    /\ phase \in {"Signal", "Grace"} => \A c \in Children : c > index => ~running[c]
    /\ phase = "Done" => \A c \in Children : ~Alive(c)

\* A file at a child's path that is not the one from before the child was
\* spawned is the child's own.
Fresh ==
    \A d \in Children : process[d] # "none" =>
        \A p \in Readiness(d) : file[p] = 0 \/ file[p] = before[p] \/ maker[p] = d

\* The children that the next one is started on.
Serving(d) == phase \in {"Spawn", "Wait"} /\ d < index

Published ==
    \A d \in Children : Serving(d) /\ Alive(d) =>
        \A p \in Readiness(d) : maker[p] = d /\ file[p] # 0

\* What the launcher leaves behind.
Cleared ==
    phase = "Done" /\ result # 2 =>
        /\ \A p \in RuntimeSockets : file[p] = 0
        /\ directory.created /\ ~options.frames => directory.state = "none"

Orderly == TypeOK /\ Supervised /\ Ordered /\ Fresh /\ Published /\ Cleared

-----------------------------------------------------------------------------
(* The plan *)

USE DEF Children, Gwm, Gwcomp, Glasswyrmd, Client

\* Every path is of one child.
LEMMA OwnPaths ==
    /\ \A c \in Children : Readiness(c) \subseteq Paths
    /\ \A c \in Children, d \in Children : \A p \in Readiness(c) : p \in Readiness(d) => c = d
  <1>1. /\ Readiness(1) = InUse \cap {"wm"} /\ Readiness(2) = InUse \cap {"compositor"}
        /\ Readiness(3) = InUse \cap {"x11", "control"} /\ Readiness(4) = InUse \cap {}
    BY DEF Readiness
  <1>2. \A c \in Children : c \in {1, 2, 3, 4}
    OBVIOUS
  <1>3. InUse \subseteq Paths
    BY DEF InUse
  <1>4. QED
    BY <1>1, <1>2, <1>3

\* The child that is reaped first is one that has ended.
LEMMA FirstExitedHasExited ==
    ASSUME Exited # {}
    PROVE  FirstExited \in Exited
  <1>1. \A c \in Exited : c \in {1, 2, 3, 4}
    BY DEF Exited
  <1>2. \E c \in Exited : \A d \in Exited : c <= d
    <2>1. CASE 1 \in Exited
      BY <1>1, <2>1
    <2>2. CASE 1 \notin Exited /\ 2 \in Exited
      BY <1>1, <2>2
    <2>3. CASE 1 \notin Exited /\ 2 \notin Exited /\ 3 \in Exited
      BY <1>1, <2>3
    <2>4. CASE 1 \notin Exited /\ 2 \notin Exited /\ 3 \notin Exited
      BY <1>1, <2>4
    <2>5. QED
      BY <2>1, <2>2, <2>3, <2>4
  <1>3. QED
    BY <1>2 DEF FirstExited

-----------------------------------------------------------------------------
(* Orderly is inductive *)

LEMMA InitOrderly ==
    ASSUME Init
    PROVE  Orderly
  <1>1. TypeOK
    <2>1. file \in [Paths -> Inodes \cup {0}] /\ before \in [Paths -> Inodes \cup {0}]
      BY DEF Init, Inodes
    <2>7. options \in [control : BOOLEAN, client : BOOLEAN, frames : BOOLEAN]
      <3>1. PICK o \in CommandLines : options = Wanted(o)
        BY DEF Init
      <3>2. o.output_model \in BOOLEAN /\ o.client \in BOOLEAN
        BY DEF CommandLines
      <3>3. QED
        BY <3>1, <3>2 DEF Wanted
    <2>2. maker \in [Paths -> Children \cup {Stale, Stranger}]
      BY DEF Init
    <2>3. directory \in [state : {"none", "mine", "foreign"}, created : BOOLEAN]
      BY DEF Init
    <2>4. /\ running \in [Children -> BOOLEAN]
          /\ process \in [Children -> {"none", "up", "asked", "dead"}]
      BY DEF Init
    <2>5. sent \in 0..MaxSignals /\ result \in Nat
      BY LauncherAssumption DEF Init, Undecided
    <2>6. QED
      BY <2>1, <2>2, <2>3, <2>4, <2>5, <2>7 DEF Init, TypeOK
  <1>2. Supervised /\ Ordered /\ Published /\ Cleared
    BY DEF Init, Supervised, Ordered, Published, Serving, Cleared, Alive
  <1>3. Fresh
    BY DEF Init, Fresh
  <1>4. QED
    BY <1>1, <1>2, <1>3 DEF Orderly

\* What a child's own paths look like when nothing touches them.
LEMMA PathsStay ==
    ASSUME UNCHANGED options
    PROVE  \A c \in Children : Readiness(c)' = Readiness(c)
  BY DEF Readiness, InUse

LEMMA PrepareOrderly ==
    ASSUME Orderly, PrepareDirectory
    PROVE  Orderly'
  <1>1. /\ TypeOK /\ Supervised /\ Ordered /\ Fresh /\ phase = "Prepare"
        /\ UNCHANGED <<file, maker, running, before, signal, process, status, options,
                       pending, sent>>
    BY DEF Orderly, PrepareDirectory, children, outside
  <1>2. \/ phase' = "Done" /\ result' = 2 /\ directory' = directory /\ index' = index
        \/ /\ phase' = "Spawn" /\ index' = 1 /\ result' = result
           /\ directory' = [state |-> "mine", created |-> directory.state = "none"]
    BY DEF PrepareDirectory
  <1>3. TypeOK'
    <2>1. directory' \in [state : {"none", "mine", "foreign"}, created : BOOLEAN]
      <3>1. CASE directory' = directory
        BY <1>1, <3>1 DEF TypeOK
      <3>2. ASSUME NEW b \in BOOLEAN, directory' = [state |-> "mine", created |-> b]
            PROVE  directory' \in [state : {"none", "mine", "foreign"}, created : BOOLEAN]
        BY <3>2
      <3>3. QED
        BY <1>2, <3>1, <3>2, Zenon
    <2>2. index' \in Children \cup {0} /\ result' \in Nat
      BY <1>1, <1>2 DEF TypeOK
    <2>3. QED
      BY <1>1, <1>2, <2>1, <2>2 DEF TypeOK
  <1>4. \A c \in Children : process[c] = "none" /\ process'[c] = "none"
    BY <1>1 DEF Ordered
  <1>5. Supervised' /\ Ordered' /\ Fresh' /\ Published' /\ Cleared'
    BY <1>1, <1>2, <1>4
       DEF Supervised, Ordered, Fresh, Published, Serving, Cleared, Alive
  <1>6. QED
    BY <1>3, <1>5 DEF Orderly

LEMMA SpawnOrderly ==
    ASSUME Orderly, Spawn
    PROVE  Orderly'
  <1>1. /\ TypeOK /\ Supervised /\ Ordered /\ Fresh /\ Published /\ phase = "Spawn"
        /\ index \in Children
        /\ before' = [p \in Paths |-> IF p \in Readiness(index) THEN file[p] ELSE before[p]]
        /\ running' = [running EXCEPT ![index] = TRUE]
        /\ process' = [process EXCEPT ![index] = "up"]
        /\ phase' = "Wait"
        /\ UNCHANGED <<directory, file, maker, index, signal, result, status, options,
                       pending, sent>>
    BY DEF Orderly, Spawn, files, outside, TypeOK, Supervised
  <1>2. TypeOK'
    BY <1>1 DEF TypeOK
  <1>3. Supervised' /\ Ordered' /\ Cleared'
    BY <1>1 DEF Supervised, Ordered, Cleared, Alive, TypeOK
  <1>4. \A c \in Children : Readiness(c)' = Readiness(c)
    BY <1>1, PathsStay
  <1>5. Fresh'
    <2>1. SUFFICES ASSUME NEW d \in Children, process'[d] # "none", NEW p \in Readiness(d)
                   PROVE  file'[p] = 0 \/ file'[p] = before'[p] \/ maker'[p] = d
      BY <1>4 DEF Fresh
    <2>2. p \in Paths /\ (p \in Readiness(index) => d = index)
      BY <1>1, OwnPaths
    <2>3. CASE d = index
      BY <1>1, <2>1, <2>2, <2>3
    <2>4. CASE d # index
      BY <1>1, <2>1, <2>2, <2>4 DEF Fresh, TypeOK
    <2>5. QED
      BY <2>3, <2>4
  <1>6. Published'
    BY <1>1, <1>4 DEF Published, Serving, Alive, TypeOK
  <1>7. QED
    BY <1>2, <1>3, <1>5, <1>6 DEF Orderly

\* run gives up: everything is taken down.
LEMMA GiveUpOrderly ==
    ASSUME Orderly, phase \in {"Spawn", "Wait", "Watch"},
           phase' = "Signal", index' = Client, signal' \in Signals, result' \in Nat,
           \/ running' = running
           \/ \E c \in Exited : running' = [running EXCEPT ![c] = FALSE],
           UNCHANGED <<files, before, children, outside>>
    PROVE  Orderly'
  <1>1. /\ TypeOK /\ Supervised /\ Fresh
        /\ UNCHANGED <<directory, file, maker, before, process, status, options,
                       pending, sent>>
    BY DEF Orderly, files, children, outside
  <1>2. running' \in [Children -> BOOLEAN]
    BY <1>1 DEF TypeOK
  <1>3. TypeOK'
    BY <1>1, <1>2 DEF TypeOK
  <1>4. \A c \in Children : Alive(c) => running'[c]
    BY <1>1 DEF Exited, Supervised, TypeOK
  <1>5. Supervised' /\ Ordered' /\ Published' /\ Cleared'
    BY <1>1, <1>2, <1>4
       DEF Supervised, Ordered, Published, Serving, Cleared, Alive
  <1>6. Fresh'
    BY <1>1, PathsStay DEF Fresh
  <1>7. QED
    BY <1>3, <1>5, <1>6 DEF Orderly

LEMMA StopsOrderly ==
    ASSUME Orderly,
           \/ SpawnFails \/ ExitBeforeReady \/ GiveUpWaiting \/ Interrupted \/ ChildEnded
    PROVE  Orderly'
  <1>1. /\ pending \in Signals \cup {0} /\ 15 \in Signals /\ result \in Nat /\ status \in Nat
        /\ pending \in Nat
    BY LauncherAssumption DEF Orderly, TypeOK
  <1>2. phase \in {"Spawn", "Wait", "Watch"} /\ phase' = "Signal" /\ index' = Client
    BY DEF SpawnFails, ExitBeforeReady, GiveUpWaiting, Interrupted, ChildEnded, GiveUp
  <1>3. signal' \in Signals
    BY <1>1
       DEF SpawnFails, ExitBeforeReady, GiveUpWaiting, Interrupted, ChildEnded, GiveUp, SIGTERM
  <1>4. result' \in Nat
    BY <1>1
       DEF SpawnFails, ExitBeforeReady, GiveUpWaiting, Interrupted, ChildEnded, GiveUp
  <1>5. \/ running' = running
        \/ \E c \in Exited : running' = [running EXCEPT ![c] = FALSE]
    BY FirstExitedHasExited
       DEF SpawnFails, ExitBeforeReady, GiveUpWaiting, Interrupted, ChildEnded
  <1>6. UNCHANGED <<files, before, children, outside>>
    BY DEF SpawnFails, ExitBeforeReady, GiveUpWaiting, Interrupted, ChildEnded
  <1>7. QED
    BY <1>2, <1>3, <1>4, <1>5, <1>6, GiveUpOrderly

\* A child that is ready has published its own sockets.
LEMMA ReadyOrderly ==
    ASSUME Orderly, Ready
    PROVE  Orderly'
  <1>1. /\ TypeOK /\ Supervised /\ Ordered /\ Fresh /\ Published /\ phase = "Wait"
        /\ index \in Children
        /\ \A p \in Readiness(index) : PathReady(p)
        /\ \/ phase' = "Spawn" /\ index' = index + 1 /\ index + 1 \in Plan
           \/ phase' = "Watch" /\ index' = 0
        /\ UNCHANGED <<directory, file, maker, running, before, signal, result, process,
                       status, options, pending, sent>>
    BY DEF Orderly, Ready, files, children, outside, TypeOK, Supervised
  <1>2. index + 1 \in Plan => index + 1 \in Children
    BY <1>1 DEF Plan
  <1>3. TypeOK'
    BY <1>1, <1>2 DEF TypeOK
  <1>4. Supervised' /\ Ordered' /\ Cleared'
    BY <1>1, <1>2 DEF Supervised, Ordered, Cleared, Alive, TypeOK
  <1>5. \A c \in Children : Readiness(c)' = Readiness(c)
    BY <1>1, PathsStay
  <1>6. Fresh'
    BY <1>1, <1>5 DEF Fresh
  <1>7. Published'
    <2>1. SUFFICES ASSUME NEW d \in Children, Serving(d)', Alive(d)', NEW p \in Readiness(d)
                   PROVE  maker'[p] = d /\ file'[p] # 0
      BY <1>5 DEF Published
    <2>2. Alive(d) /\ d <= index
      BY <1>1, <2>1 DEF Serving, Alive
    <2>3. CASE d = index
      BY <1>1, <2>1, <2>3 DEF PathReady, Fresh, Ordered
    <2>4. CASE d < index
      BY <1>1, <2>1, <2>2, <2>4 DEF Published, Serving
    <2>5. QED
      BY <1>1, <2>2, <2>3, <2>4
  <1>8. QED
    BY <1>3, <1>4, <1>6, <1>7 DEF Orderly

\* shutdown_reverse.
LEMMA ShutdownOrderly ==
    ASSUME Orderly, SignalChild \/ ReapOrKill \/ CleanUp
    PROVE  Orderly'
  <1>1. /\ TypeOK /\ Supervised /\ Ordered /\ Fresh
    BY DEF Orderly
  <1>2. CASE SignalChild
    <2>1. /\ phase = "Signal" /\ index \in Children
          /\ \/ /\ running[index] /\ phase' = "Grace" /\ index' = index
                /\ process' = [process EXCEPT ![index] = IF @ = "up" THEN "asked" ELSE @]
             \/ /\ ~running[index] /\ phase' = "Signal" /\ index' = index - 1
                /\ process' = process
          /\ UNCHANGED <<directory, file, maker, running, before, signal, result, status,
                         options, pending, sent>>
      BY <1>1, <1>2 DEF SignalChild, TypeOK, files, outside
    <2>2. TypeOK'
      BY <1>1, <2>1 DEF TypeOK
    <2>3. \A c \in Children : /\ Alive(c)' => Alive(c)
                              /\ process'[c] = "none" <=> process[c] = "none"
                              /\ process'[c] = "asked" => c = index /\ phase' = "Grace"
      BY <1>1, <2>1 DEF Alive, TypeOK, Supervised
    <2>4. Supervised' /\ Ordered'
      BY <1>1, <2>1, <2>3 DEF Supervised, Ordered, TypeOK
    <2>5. Fresh'
      BY <1>1, <2>1, <2>3, PathsStay DEF Fresh
    <2>6. Published' /\ Cleared'
      BY <2>1 DEF Published, Serving, Cleared
    <2>7. QED
      BY <2>2, <2>4, <2>5, <2>6 DEF Orderly
  <1>3. CASE ReapOrKill
    <2>1. /\ phase = "Grace" /\ index \in Children /\ phase' = "Signal" /\ index' = index - 1
          /\ process' = [process EXCEPT ![index] = "dead"]
          /\ running' = [running EXCEPT ![index] = FALSE]
          /\ UNCHANGED <<directory, file, maker, before, signal, result, status,
                         options, pending, sent>>
      BY <1>1, <1>3 DEF ReapOrKill, TypeOK, Supervised, files, outside
    <2>2. TypeOK'
      BY <1>1, <2>1 DEF TypeOK
    <2>3. process[index] # "none"
      BY <1>1, <2>1 DEF Ordered
    <2>4. Supervised' /\ Ordered'
      BY <1>1, <2>1 DEF Supervised, Ordered, TypeOK, Alive
    <2>5. Fresh'
      BY <1>1, <2>1, <2>3, PathsStay DEF Fresh, TypeOK
    <2>6. Published' /\ Cleared'
      BY <2>1 DEF Published, Serving, Cleared
    <2>7. QED
      BY <2>2, <2>4, <2>5, <2>6 DEF Orderly
  <1>4. CASE CleanUp
    <2>1. /\ phase = "Signal" /\ index = 0 /\ phase' = "Done"
          /\ file' = [p \in Paths |-> IF p \in RuntimeSockets THEN 0 ELSE file[p]]
          /\ directory' =
                IF directory.created /\ ~(options.frames /\ process[Gwcomp] # "none")
                THEN [directory EXCEPT !.state = "none"] ELSE directory
          /\ result' = IF result # Undecided THEN result
                       ELSE IF pending # 0 THEN 128 + pending ELSE 1
          /\ UNCHANGED <<maker, index, running, before, signal, process, status,
                         options, pending, sent>>
      BY <1>4 DEF CleanUp, children, outside
    <2>2. TypeOK'
      <3>1. result' \in Nat
        BY <1>1, <2>1, LauncherAssumption DEF TypeOK
      <3>2. file' \in [Paths -> Inodes \cup {0}]
        BY <1>1, <2>1 DEF TypeOK
      <3>3. directory' \in [state : {"none", "mine", "foreign"}, created : BOOLEAN]
        BY <1>1, <2>1 DEF TypeOK
      <3>4. QED
        BY <1>1, <2>1, <3>1, <3>2, <3>3 DEF TypeOK
    <2>3. Supervised' /\ Ordered'
      BY <1>1, <2>1 DEF Supervised, Ordered, Alive
    <2>4. \A c \in Children : Readiness(c)' = Readiness(c)
      BY <2>1, PathsStay
    <2>5. Fresh'
      BY <1>1, <2>1, <2>4, OwnPaths DEF Fresh
    <2>6. Published'
      BY <2>1 DEF Published, Serving
    <2>7. Cleared'
      <3>1. RuntimeSockets' = RuntimeSockets /\ RuntimeSockets \subseteq Paths
        BY <2>1 DEF RuntimeSockets, InUse
      <3>2. \A p \in RuntimeSockets : file'[p] = 0
        BY <2>1, <3>1
      <3>3. directory'.created /\ ~options.frames => directory'.state = "none"
        BY <1>1, <2>1 DEF TypeOK
      <3>4. QED
        BY <2>1, <3>1, <3>2, <3>3 DEF Cleared
    <2>8. QED
      BY <2>2, <2>3, <2>5, <2>6, <2>7 DEF Orderly
  <1>5. QED
    BY <1>2, <1>3, <1>4


\* A step of child c: it touches its own paths only, and never one it has
\* published itself, until it is gone.
LEMMA ChildStepOrderly ==
    ASSUME Orderly, NEW c \in Children, Alive(c),
           process' \in {process, [process EXCEPT ![c] = "dead"]},
           file' \in [Paths -> Inodes \cup {0}],
           maker' \in [Paths -> Children \cup {Stale, Stranger}],
           \A p \in Paths : \/ file'[p] = file[p] /\ maker'[p] = maker[p]
                            \/ file'[p] = 0 /\ maker'[p] = maker[p]
                               /\ p \in Readiness(c) /\ maker[p] # c
                            \/ file'[p] = 0 /\ maker'[p] = maker[p]
                               /\ maker[p] = c /\ process' = [process EXCEPT ![c] = "dead"]
                            \/ file'[p] # 0 /\ maker'[p] = c
                               /\ p \in Readiness(c) /\ maker[p] # c,
           status' \in {0, 1},
           UNCHANGED <<directory, launcher, outside>>
    PROVE  Orderly'
  <1>1. /\ TypeOK /\ Supervised /\ Ordered /\ Fresh /\ Published /\ Cleared
        /\ UNCHANGED <<directory, phase, index, running, before, signal, result, options,
                       pending, sent>>
    BY DEF Orderly, launcher, outside
  <1>2. phase \notin {"Prepare", "Done"}
    BY <1>1 DEF Ordered, Alive
  <1>3. process' \in [Children -> {"none", "up", "asked", "dead"}]
    BY <1>1 DEF TypeOK
  <1>4. TypeOK'
    BY <1>1, <1>3 DEF TypeOK
  <1>5. \A d \in Children : /\ Alive(d)' => Alive(d)
                            /\ process'[d] = "none" <=> process[d] = "none"
                            /\ process'[d] = "asked" => process[d] = "asked"
                            /\ process' = [process EXCEPT ![c] = "dead"] /\ d = c => ~Alive(d)'
    BY <1>1 DEF Alive, TypeOK
  <1>6. Supervised' /\ Ordered' /\ Cleared'
    BY <1>1, <1>2, <1>5 DEF Supervised, Ordered, Cleared, TypeOK
  <1>7. \A d \in Children : Readiness(d)' = Readiness(d) /\ Readiness(d) \subseteq Paths
    BY <1>1, PathsStay, OwnPaths
  <1>8. Fresh'
    <2>1. SUFFICES ASSUME NEW d \in Children, process'[d] # "none", NEW p \in Readiness(d)
                   PROVE  file'[p] = 0 \/ file'[p] = before'[p] \/ maker'[p] = d
      BY <1>7 DEF Fresh
    <2>2. file[p] = 0 \/ file[p] = before[p] \/ maker[p] = d
      BY <1>1, <1>5, <2>1 DEF Fresh
    <2>3. p \in Paths /\ (p \in Readiness(c) => c = d)
      BY <1>7, OwnPaths
    <2>4. QED
      BY <1>1, <2>2, <2>3
  <1>9. Published'
    <2>1. SUFFICES ASSUME NEW d \in Children, Serving(d)', Alive(d)', NEW p \in Readiness(d)
                   PROVE  maker'[p] = d /\ file'[p] # 0
      BY <1>7 DEF Published
    <2>2. maker[p] = d /\ file[p] # 0
      BY <1>1, <1>5, <2>1 DEF Published, Serving
    <2>3. p \in Paths /\ (p \in Readiness(c) => c = d)
      BY <1>7, OwnPaths
    <2>4. maker[p] = c => process' # [process EXCEPT ![c] = "dead"]
      BY <1>5, <2>1, <2>2
    <2>5. QED
      BY <2>2, <2>3, <2>4
  <1>10. QED
    BY <1>4, <1>6, <1>8, <1>9 DEF Orderly

LEMMA ChildrenOrderly ==
    ASSUME Orderly,
           \/ \E c \in Children, p \in Paths : ClearPath(c, p) \/ BindPath(c, p)
           \/ \E c \in Children : Exit(c) \/ Crash(c)
    PROVE  Orderly'
  <1>1. TypeOK
    BY DEF Orderly
  <1>2. ASSUME NEW c \in Children, NEW p \in Paths, ClearPath(c, p)
        PROVE  Orderly'
    <2>1. /\ Alive(c) /\ p \in Readiness(c) /\ maker[p] # c
          /\ \/ process' = [process EXCEPT ![c] = "dead"] /\ file' = file
             \/ process' = process /\ file' = [file EXCEPT ![p] = 0]
          /\ UNCHANGED <<directory, maker, launcher, status, outside>>
      BY <1>2 DEF ClearPath
    <2>2. /\ file' \in [Paths -> Inodes \cup {0}] /\ maker' = maker
          /\ maker \in [Paths -> Children \cup {Stale, Stranger}] /\ status' \in {0, 1}
          /\ \A q \in Paths : file'[q] = IF q = p /\ file' # file THEN 0 ELSE file[q]
      BY <1>1, <2>1 DEF TypeOK
    <2>3. QED
      BY <2>1, <2>2, ChildStepOrderly
  <1>3. ASSUME NEW c \in Children, NEW p \in Paths, BindPath(c, p)
        PROVE  Orderly'
    <2>1. PICK i \in Inodes : file' = [file EXCEPT ![p] = i]
      BY <1>3 DEF BindPath, Inodes
    <2>2. /\ Alive(c) /\ p \in Readiness(c) /\ maker[p] # c
          /\ process' = process /\ status' = status
          /\ maker' = [maker EXCEPT ![p] = c]
          /\ UNCHANGED <<directory, launcher, outside>>
      BY <1>3 DEF BindPath, children
    <2>3. /\ file' \in [Paths -> Inodes \cup {0}] /\ status' \in {0, 1}
          /\ maker' \in [Paths -> Children \cup {Stale, Stranger}]
          /\ \A q \in Paths : IF q = p THEN file'[q] # 0 /\ maker'[q] = c
                              ELSE file'[q] = file[q] /\ maker'[q] = maker[q]
      BY <1>1, <2>1, <2>2 DEF TypeOK, Inodes
    <2>4. QED
      BY <2>2, <2>3, ChildStepOrderly
  <1>4. ASSUME NEW c \in Children, Exit(c)
        PROVE  Orderly'
    <2>1. /\ Alive(c) /\ process' = [process EXCEPT ![c] = "dead"] /\ maker' = maker
          /\ file' = [p \in Paths |-> IF maker[p] = c THEN 0 ELSE file[p]]
          /\ UNCHANGED <<directory, launcher, outside>>
          /\ status' \in {0, 1}
      BY <1>1, <1>4 DEF Exit, Unlinked, TypeOK
    <2>2. /\ file' \in [Paths -> Inodes \cup {0}]
          /\ maker' \in [Paths -> Children \cup {Stale, Stranger}]
          /\ \A q \in Paths : file'[q] = IF maker[q] = c THEN 0 ELSE file[q]
      BY <1>1, <2>1 DEF TypeOK
    <2>3. QED
      BY <2>1, <2>2, ChildStepOrderly
  <1>5. ASSUME NEW c \in Children, Crash(c)
        PROVE  Orderly'
    <2>1. /\ Alive(c) /\ process' = [process EXCEPT ![c] = "dead"]
          /\ maker' = maker /\ file' = file
          /\ UNCHANGED <<directory, launcher, outside>>
          /\ status' \in {0, 1}
      BY <1>1, <1>5 DEF Crash, TypeOK, files
    <2>2. QED
      BY <1>1, <2>1, ChildStepOrderly DEF TypeOK
  <1>6. QED
    BY <1>2, <1>3, <1>4, <1>5

\* Every step on a path of a socket is one of ClearPath and BindPath.
LEMMA PathSteps ==
    ASSUME \/ \E c \in Children : ClearPath(c, "x11") \/ BindPath(c, "x11")
           \/ \E c \in Children, p \in Paths : BindEndpoint(c, p)
    PROVE  \E c \in Children, p \in Paths : ClearPath(c, p) \/ BindPath(c, p)
  BY DEF BindEndpoint, Paths

LEMMA SignalOrderly ==
    ASSUME Orderly, NEW s \in Signals, Signal(s)
    PROVE  Orderly'
  <1>1. /\ TypeOK /\ Supervised /\ Ordered /\ Fresh /\ Published /\ Cleared
        /\ UNCHANGED <<directory, file, maker, phase, index, running, before, signal, result,
                       process, status, options>>
        /\ pending' = s /\ sent < MaxSignals /\ sent' = sent + 1
    BY DEF Orderly, Signal, files, launcher, children
  <1>2. TypeOK'
    BY <1>1, LauncherAssumption DEF TypeOK
  <1>3. Supervised' /\ Ordered'
    BY <1>1 DEF Supervised, Ordered, Alive
  <1>4. Fresh' /\ Published'
    BY <1>1, PathsStay DEF Fresh, Published, Serving, Alive
  <1>5. Cleared'
    BY <1>1 DEF Cleared, RuntimeSockets, InUse
  <1>6. QED
    BY <1>2, <1>3, <1>4, <1>5 DEF Orderly

\* Orderly is an invariant of the launcher.
THEOREM OrderlyHolds == Spec => []Orderly
  <1>1. Init => Orderly
    BY InitOrderly
  <1>2. Orderly /\ [Next]_vars => Orderly'
    <2>1. ASSUME Orderly, UNCHANGED vars
          PROVE  Orderly'
      <3>1. UNCHANGED <<directory, file, maker, phase, index, running, before, signal, result,
                        process, status, options, pending, sent>>
        BY <2>1 DEF vars, files, launcher, children, outside
      <3>2. TypeOK' /\ Supervised' /\ Ordered'
        BY <2>1, <3>1 DEF Orderly, TypeOK, Supervised, Ordered, Alive
      <3>3. Fresh' /\ Published'
        BY <2>1, <3>1, PathsStay DEF Orderly, Fresh, Published, Serving, Alive
      <3>4. Cleared'
        BY <2>1, <3>1 DEF Orderly, Cleared, RuntimeSockets, InUse
      <3>5. QED
        BY <3>2, <3>3, <3>4 DEF Orderly
    <2>2. QED
      BY <2>1, PrepareOrderly, SpawnOrderly, StopsOrderly, ReadyOrderly, ShutdownOrderly,
         ChildrenOrderly, PathSteps, SignalOrderly DEF Next
  <1>3. QED
    BY <1>1, <1>2, PTL DEF Spec

-----------------------------------------------------------------------------
(* What the launcher promises *)

\* Only the launcher's own steps start, signal or reap a child.
LEMMA WhoTouchesChildren ==
    ASSUME Orderly, [Next]_vars, NEW c \in Children
    PROVE  /\ process[c] = "none" /\ process'[c] = "up" => phase = "Spawn" /\ c = index
           /\ running'[c] # running[c] /\ phase \in {"Signal", "Grace"} =>
                 phase = "Grace" /\ c = index
           /\ process'[c] = "asked" /\ phase \in {"Signal", "Grace"} => c = index
  <1>1. TypeOK /\ Supervised
    BY DEF Orderly
  <1>2. CASE Spawn
    BY <1>1, <1>2 DEF Spawn, TypeOK
  <1>3. CASE SignalChild
    BY <1>1, <1>3 DEF SignalChild, TypeOK, Supervised
  <1>4. CASE ReapOrKill
    BY <1>1, <1>4 DEF ReapOrKill, TypeOK, Supervised
  <1>5. CASE \/ UNCHANGED vars \/ PrepareDirectory \/ SpawnFails \/ Ready \/ GiveUpWaiting
             \/ Interrupted \/ CleanUp \/ \E s \in Signals : Signal(s)
             \/ ExitBeforeReady \/ ChildEnded
    <2>1. process' = process /\ (phase \in {"Signal", "Grace"} => running' = running)
      BY <1>5 DEF vars, PrepareDirectory, SpawnFails, Ready, GiveUpWaiting, Interrupted,
                  CleanUp, Signal, ExitBeforeReady, ChildEnded, children, launcher
    <2>2. QED
      BY <1>1, <2>1 DEF Supervised
  <1>6. CASE \/ \E d \in Children, p \in Paths : ClearPath(d, p) \/ BindPath(d, p)
             \/ \E d \in Children : Exit(d) \/ Crash(d)
    <2>1. /\ running' = running
          /\ \/ process' = process
             \/ \E d \in Children : process' = [process EXCEPT ![d] = "dead"]
      BY <1>6 DEF ClearPath, BindPath, Exit, Crash, children, launcher
    <2>2. QED
      BY <1>1, <2>1 DEF Supervised, TypeOK
  <1>7. QED
    BY <1>2, <1>3, <1>4, <1>5, <1>6, PathSteps DEF Next

\* A child is started only when every child before it that is still alive has
\* published its own sockets, whatever files were there before.
THEOREM StartedOnServers == Spec => StartsAfterItsServers
  <1>1. Orderly /\ [Next]_vars =>
          [\A c \in Children : process[c] = "none" /\ process'[c] = "up" =>
             \A d \in 1..(c - 1) : Alive(d) =>
                 \A p \in Readiness(d) : maker[p] = d /\ file[p] # 0]_vars
    <2>1. SUFFICES ASSUME Orderly, [Next]_vars, NEW c \in Children,
                          process[c] = "none", process'[c] = "up",
                          NEW d \in 1..(c - 1), Alive(d), NEW p \in Readiness(d)
                   PROVE  maker[p] = d /\ file[p] # 0
      OBVIOUS
    <2>2. phase = "Spawn" /\ c = index
      BY <2>1, WhoTouchesChildren
    <2>3. d \in Children /\ Serving(d)
      BY <2>1, <2>2 DEF Serving
    <2>4. QED
      BY <2>1, <2>3 DEF Orderly, Published
  <1>2. QED
    BY <1>1, OrderlyHolds, PTL DEF Spec, StartsAfterItsServers

\* A child is signalled or killed only when every child started after it has
\* ended and is reaped.
THEOREM ShutDownInReverse == Spec => TakenDownInReverse
  <1>1. Orderly /\ [Next]_vars =>
          [\A c \in Children :
             running[c] /\ (running'[c] # running[c] \/ process'[c] = "asked")
                /\ phase \in {"Signal", "Grace"} =>
             \A d \in (c + 1)..Client : ~running[d] /\ ~Alive(d)]_vars
    <2>1. SUFFICES ASSUME Orderly, [Next]_vars, NEW c \in Children, running[c],
                          running'[c] # running[c] \/ process'[c] = "asked",
                          phase \in {"Signal", "Grace"},
                          NEW d \in (c + 1)..Client
                   PROVE  ~running[d] /\ ~Alive(d)
      OBVIOUS
    <2>2. c = index
      BY <2>1, WhoTouchesChildren, Zenon
    <2>3. d \in Children /\ d > c
      OBVIOUS
    <2>4. QED
      BY <2>1, <2>2, <2>3 DEF Orderly, Ordered, Supervised
  <1>2. QED
    BY <1>1, OrderlyHolds, PTL DEF Spec, TakenDownInReverse

\* The safety half of SessionEnds: a launcher that has returned leaves no
\* process and, unless it refused to start, no socket and no directory of its
\* own behind.
THEOREM NobodyIsLeft == Spec => [](phase = "Done" => Over)
  <1>1. Orderly => (phase = "Done" => Over)
    BY DEF Orderly, Ordered, Cleared, Over
  <1>2. QED
    BY <1>1, OrderlyHolds, PTL

=============================================================================
