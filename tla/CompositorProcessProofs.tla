---------------------- MODULE CompositorProcessProofs ----------------------
(***************************************************************************)
(* Proofs about the compositor process: for any number of frames, producers *)
(* and terminal switches, the screen shows what the compositor has          *)
(* committed, nothing is drawn into a buffer that is scanned out, the       *)
(* terminal is handed over clean, and an exit status of 0 means that        *)
(* everything was given back.                                              *)
(***************************************************************************)
EXTENDS CompositorProcess, TLAPS

-----------------------------------------------------------------------------
(* The inductive invariant *)

Running == phase \in {"Acquire", "Run"}

\* Answers to the request that the producer was last sent.
Answers == {i \in DOMAIN inbox : inbox[i].type \in {"ack", "nack"}}

\* The producer's connection and the coordination of its input devices: there
\* is one request at a time and at most one answer on its way, and a producer
\* that is not waited for has let go of its devices when the state machine says
\* so.
Linked == Running =>
    /\ producer.state # "valid" => inbox = << >> /\ asked = None /\ ~Waiting
    /\ \A i, j \in Answers : i = j
    /\ Answers # {} => Waiting /\ asked = None
    /\ asked = "Inactive" => session = "AwaitingInactive"
    /\ asked = "Active" => session = "AwaitingActive"
    /\ Len(inbox) > MaxInbox => Waiting /\ asked = None
    /\ producer.state \in {"listening", "fresh"} /\ producer.input => producer.coordinated
    /\ producer.state = "valid" /\ session \in {"Disabled", "Inactive"} => ~producer.input
    /\ \A i \in DOMAIN inbox :
          /\ inbox[i].type = "ack" /\ session = "AwaitingInactive" => ~producer.input
          /\ inbox[i].type = "commit" => inbox[i].frame # 0

\* A flip from its submission to the event that is taken, and what the two
\* buffers hold meanwhile.
Flipping == Running =>
    /\ pending.kind # None => pending.frame # 0
    /\ presenter.cookie = "armed" <=> pending.kind = "flip"
    /\ presenter.cookie = None => kernel.flight = NoFlip /\ ~kernel.event
    /\ presenter.cookie = "armed" =>
          /\ kernel.contents[Back] = pending.frame
          /\ \/ kernel.event /\ kernel.flight = NoFlip /\ kernel.scanout = Back
             \/ ~kernel.event /\ kernel.flight = Back /\ kernel.scanout = presenter.front
    /\ presenter.committed # 0 /\ presenter.cookie # "abandoned" =>
          /\ kernel.contents[presenter.front] = presenter.committed
          /\ presenter.cookie = None => kernel.scanout = presenter.front
    /\ presenter.committed = 0 =>
          kernel.scanout = Original /\ kernel.flight = NoFlip /\ presenter.cookie = None
    /\ output # 0 => output = presenter.committed
    /\ suspended => pending.kind = None /\ ~Waiting

\* Whose the display is.
Displayed ==
    /\ kernel.scanout \in Buffers \/ kernel.flight \in Buffers => presenter.taken
    /\ presenter.taken => presenter.live
    /\ phase = "Run" => presenter.live
    /\ Running /\ presenter.committed # 0 => presenter.taken

\* What the direct session holds is what the terminal says, but for an acquire
\* that is taken back.  A session that is handed its device never lets it go.
Owned ==
    /\ ~presenter.direct =>
          /\ held = {} /\ tty.master /\ phase # "Unwind"
          /\ "release" \notin signals /\ ~request.release /\ ~suspended
    /\ presenter.direct /\ phase \in {"Acquire", "Run", "Restore"} =>
          (tty.master <=> "master" \in held)
    /\ phase = "Acquire" =>
          /\ step \in 1..6 /\ ~suspended
          /\ presenter.direct => \A i \in 1..5 : i < step => Holding(i) \in held
          /\ ~presenter.direct => step = 6
    /\ phase = "Run" =>
          /\ presenter.direct => Holdings \ {"master"} \subseteq held
          /\ ~suspended => tty.master

\* How far an orderly restore has come.
GivenBack ==
    /\ phase = "Unwind" => exit = 1
    /\ phase = "Restore" /\ exit = 0 =>
          /\ step >= 3 => kernel.scanout = Original /\ kernel.flight = NoFlip
          /\ presenter.direct =>
               /\ step \in 2..4 => "master" \in held
               /\ step <= 5 => "graphics" \in held
               /\ step <= 6 => "process" \in held
               /\ step <= 7 => "keyboard" \in held
               /\ step <= 8 => "activated" \in held
               /\ step >= 5 => ~tty.master
               /\ step >= 6 => tty.kd = "text"
               /\ step >= 7 => tty.mode = "auto"
               /\ step >= 8 => tty.keyboard = "on"
               /\ step >= 9 => tty.active = tty.saved
    /\ phase = "Done" /\ exit = 0 =>
          /\ kernel.scanout = Original /\ kernel.flight = NoFlip
          /\ presenter.direct =>
               /\ tty.active = tty.saved /\ ~tty.master
               /\ tty.kd = "text" /\ tty.mode = "auto" /\ tty.keyboard = "on"

Inductive == TypeOK /\ Linked /\ Flipping /\ Displayed /\ Owned /\ GivenBack

-----------------------------------------------------------------------------
(* The records of TypeOK *)

Producers == [state : {None, "listening", "fresh", "valid"}, open : BOOLEAN, hup : BOOLEAN,
              coordinated : BOOLEAN, input : BOOLEAN]

Presentations == [kind : {None, "readiness", "flip"}, frame : Frames]

Presenters == [direct : BOOLEAN, front : Buffers, committed : Frames, taken : BOOLEAN,
               cookie : {None, "armed", "abandoned"}, live : BOOLEAN]

Kernels == [scanout : Buffers \cup {Original}, flight : Buffers \cup {NoFlip},
            event : BOOLEAN, contents : [Buffers -> Frames]]

Terminals == [active : {"ours", "other"}, saved : {"ours", "other"}, wait : {None, "release"},
              keyboard : {"on", "off"}, mode : {"auto", "process"}, kd : {"text", "graphics"},
              master : BOOLEAN]

Requests == [release : BOOLEAN, acquire : BOOLEAN]

LEMMA Records ==
    ASSUME TypeOK
    PROVE  /\ producer \in Producers /\ pending \in Presentations /\ request \in Requests
           /\ presenter \in Presenters /\ kernel \in Kernels /\ tty \in Terminals
  BY DEF TypeOK, Producers, Presentations, Presenters, Kernels, Terminals, Requests

\* A step of the loop, or its end.
Turned ==
    /\ phase = "Run"
    /\ \/ phase' = "Run" /\ UNCHANGED <<step, exit>>
       \/ phase' = "Restore" /\ step' = 0
    /\ turn' \in {"Poll", "Presentation", "Release", "Resume", "Producer", "Session", "Contract"}
    /\ exit' \in {0, 1}

LEMMA TypeStays ==
    ASSUME TypeOK, Turned,
           signals' \subseteq {"stop", "release", "acquire"},
           inbox' \in Seq(Messages) /\ Len(inbox') <= MaxInbox + 1,
           asked' \in {None, "Inactive", "Active"},
           session' \in {"Disabled", "Active", "AwaitingInactive", "Inactive",
                         "AwaitingActive", "Failed"},
           expired' \subseteq {"presentation", "session"}, output' \in Frames,
           suspended' \in BOOLEAN, refused' \in BOOLEAN, held' \subseteq Holdings,
           producer' \in Producers, pending' \in Presentations, request' \in Requests,
           presenter' \in Presenters, kernel' \in Kernels, tty' \in Terminals,
           UNCHANGED <<frames, switches, producers>>
    PROVE  TypeOK'
  BY DEF TypeOK, Turned, Producers, Presentations, Presenters, Kernels, Terminals, Requests

USE DEF Producers, Presentations, Presenters, Kernels, Terminals, Requests

-----------------------------------------------------------------------------
(* Messages in flight *)

LEMMA MessageTypes ==
    /\ \A f \in Frames : Commit(f) \in Messages
    /\ Query \in Messages
    /\ \A b \in BOOLEAN : Ack(b) \in Messages
  <1>1. 0 \in Frames
    BY CompositorAssumption DEF Frames
  <1>2. QED
    BY <1>1 DEF Commit, Query, Ack, Messages

\* A message is taken.
LEMMA TailOf ==
    ASSUME NEW q \in Seq(Messages), q # << >>
    PROVE  /\ Head(q) = q[1] /\ 1 \in DOMAIN q /\ Head(q) \in Messages
           /\ Tail(q) \in Seq(Messages) /\ Len(Tail(q)) = Len(q) - 1
           /\ \A i \in DOMAIN Tail(q) : i + 1 \in DOMAIN q /\ Tail(q)[i] = q[i + 1]
  <1>1. Len(q) # 0 /\ Len(q) \in Nat
    OBVIOUS
  <1>2. QED
    BY <1>1

\* A message is sent.
LEMMA AppendOf ==
    ASSUME NEW q \in Seq(Messages), NEW m \in Messages
    PROVE  /\ Append(q, m) \in Seq(Messages) /\ Len(Append(q, m)) = Len(q) + 1
           /\ \A i \in DOMAIN Append(q, m) :
                 \/ i \in DOMAIN q /\ Append(q, m)[i] = q[i]
                 \/ i = Len(q) + 1 /\ Append(q, m)[i] = m
  OBVIOUS

-----------------------------------------------------------------------------
(* What an action leaves alone *)

LEMMA LinkStays ==
    ASSUME Linked, Running' => Running, UNCHANGED link
    PROVE  Linked'
  BY DEF Linked, Running, link, Answers, Waiting

LEMMA FlipStays ==
    ASSUME Flipping, Running' => Running, UNCHANGED <<pending, presenter, kernel, output>>,
           suspended' => suspended, Waiting' => Waiting
    PROVE  Flipping'
  BY DEF Flipping, Running, Back

LEMMA DisplayStays ==
    ASSUME Displayed, Running' => Running, phase' = "Run" => phase = "Run",
           UNCHANGED <<presenter, kernel>>
    PROVE  Displayed'
  BY DEF Displayed, Running

LEMMA OwnerStays ==
    ASSUME Owned, Turned, presenter'.direct = presenter.direct, UNCHANGED held,
           tty'.master = tty.master, suspended' = suspended,
           "release" \in signals' => "release" \in signals \/ presenter.direct,
           request'.release => request.release
    PROVE  Owned'
  BY DEF Owned, Turned, Holding

\* Everything but master is held when the loop ends.
LEMMA BackStays ==
    ASSUME Owned, Turned, presenter'.direct = presenter.direct,
           held \ {"master"} \subseteq held'
    PROVE  GivenBack'
  BY DEF GivenBack, Owned, Turned, Holdings

-----------------------------------------------------------------------------
(* The start *)

LEMMA InitInductive ==
    ASSUME Init
    PROVE  Inductive
  <1>1. PICK direct \in BOOLEAN, saved \in {"ours", "other"} :
           /\ presenter = [direct |-> direct, front |-> 0, committed |-> 0,
                           taken |-> FALSE, cookie |-> None, live |-> FALSE]
           /\ tty = [active |-> saved, saved |-> saved, wait |-> None,
                     keyboard |-> "on", mode |-> "auto", kd |-> "text",
                     master |-> ~direct]
           /\ step = IF direct THEN 1 ELSE 6
    BY DEF Init
  <1>2. TypeOK
    <2>1. 0 \in Frames /\ 0 \in 0..MaxSwitches /\ 0 \in 0..MaxProducers
      BY CompositorAssumption DEF Frames
    <2>2. presenter \in Presenters
      BY <1>1, <2>1 DEF Buffers
    <2>3. tty \in Terminals
      BY <1>1
    <2>4. /\ inbox = << >> /\ inbox \in Seq(Messages) /\ Len(inbox) <= MaxInbox + 1
          /\ producer = NoProducer /\ pending = NoFrame
          /\ step \in 0..9
      BY <1>1, CompositorAssumption DEF Init
    <2>5. kernel \in Kernels
      BY <2>1 DEF Init, Buffers
    <2>6. /\ phase = "Acquire" /\ turn = "Poll" /\ exit = 0
          /\ request \in [release : BOOLEAN, acquire : BOOLEAN]
          /\ signals = {} /\ asked = None /\ session = "Disabled"
          /\ expired = {} /\ output = 0 /\ suspended = FALSE /\ held = {}
          /\ frames = 0 /\ switches = 0 /\ producers = 0 /\ refused = FALSE
      BY DEF Init
    <2>7. /\ producer \in Producers
          /\ pending \in Presentations
      BY <2>1, <2>4 DEF NoProducer, NoFrame
    <2>8. QED
      BY <2>1, <2>2, <2>3, <2>4, <2>5, <2>6, <2>7 DEF TypeOK
  <1>3. /\ inbox = << >> /\ producer = NoProducer /\ pending = NoFrame /\ phase = "Acquire"
        /\ asked = None /\ session = "Disabled" /\ output = 0 /\ suspended = FALSE
        /\ held = {} /\ signals = {} /\ request.release = FALSE
        /\ kernel.scanout = Original /\ kernel.flight = NoFlip /\ kernel.event = FALSE
    BY DEF Init
  <1>4. Linked
    BY <1>3, CompositorAssumption DEF Linked, Answers, Waiting, NoProducer, None
  <1>5. Flipping
    BY <1>1, <1>3 DEF Flipping, NoFrame, None
  <1>6. Displayed
    BY <1>1, <1>3 DEF Displayed, Original, NoFlip, Buffers
  <1>7. Owned
    <2>1. CASE direct
      <3>1. presenter.direct /\ ~tty.master /\ step = 1
        BY <1>1, <2>1
      <3>2. QED
        BY <1>3, <3>1 DEF Owned
    <2>2. CASE ~direct
      <3>1. ~presenter.direct /\ tty.master /\ step = 6
        BY <1>1, <2>2
      <3>2. QED
        BY <1>3, <3>1 DEF Owned
    <2>3. QED
      BY <2>1, <2>2
  <1>8. GivenBack
    BY <1>3 DEF GivenBack
  <1>9. QED
    BY <1>2, <1>4, <1>5, <1>6, <1>7, <1>8 DEF Inductive

\* The system call that takes or gives back a holding.
LEMMA TerminalTyped ==
    ASSUME TypeOK, NEW h \in Holdings
    PROVE  Take(h) \/ Give(h) =>
             /\ tty' \in Terminals
             /\ tty'.saved = tty.saved
  <1>1. tty \in Terminals
    BY DEF TypeOK
  <1>2. CASE Take(h)
    BY <1>1, <1>2 DEF Take, Holdings
  <1>3. CASE Give(h)
    BY <1>1, <1>3 DEF Give, Holdings
  <1>4. QED
    BY <1>2, <1>3

LEMMA HoldingsInOrder == \A n \in 1..5 : Holding(n) \in Holdings
  <1>1. \A n \in 1..5 : n = 1 \/ n = 2 \/ n = 3 \/ n = 4 \/ n = 5
    OBVIOUS
  <1>2. QED
    BY <1>1 DEF Holding, Holdings

LEMMA AcquireStepInductive ==
    ASSUME Inductive, AcquireStep
    PROVE  Inductive'
  <1>1. /\ TypeOK /\ Linked /\ Flipping /\ Displayed /\ Owned /\ GivenBack
        /\ phase = "Acquire" /\ step \in 1..5 /\ step' = step + 1
        /\ held' = held \cup {Holding(step)} /\ Take(Holding(step))
        /\ UNCHANGED <<phase, turn, exit, request, signals, link, comp, presenter, kernel,
                       history>>
    BY DEF AcquireStep, Inductive
  <1>2. Holding(step) \in Holdings
    BY <1>1, HoldingsInOrder
  <1>3. TypeOK'
    BY <1>1, <1>2, TerminalTyped DEF TypeOK, link, comp, history
  <1>4. Linked' /\ Flipping' /\ Displayed' /\ GivenBack'
    <2>1. UNCHANGED <<phase, pending, presenter, kernel, output, suspended, session>>
      BY <1>1 DEF link, comp
    <2>2. GivenBack'
      BY <1>1, <2>1 DEF GivenBack
    <2>3. QED
      BY <1>1, <2>1, <2>2, LinkStays, FlipStays, DisplayStays DEF Waiting, Running
  <1>5. presenter.direct
    BY <1>1 DEF Owned
  <1>6. (tty'.master <=> "master" \in held')
    <2>1. tty.master <=> "master" \in held
      BY <1>1, <1>5 DEF Owned
    <2>2. step = 1 \/ step = 2 \/ step = 3 \/ step = 4 \/ step = 5
      BY <1>1
    <2>3. tty \in Terminals
      BY <1>1 DEF TypeOK
    <2>4. QED
      BY <1>1, <2>1, <2>2, <2>3 DEF Take, Holding
  <1>7. Owned'
    BY <1>1, <1>5, <1>6 DEF Owned, comp
  <1>8. QED
    BY <1>3, <1>4, <1>7 DEF Inductive

LEMMA AcquireFailsInductive ==
    ASSUME Inductive, AcquireFails
    PROVE  Inductive'
  <1>1. /\ TypeOK /\ Displayed /\ Owned
        /\ phase = "Acquire" /\ step \in 1..5 /\ phase' = "Unwind" /\ step' = 5 /\ exit' = 1
        /\ held' = held \/ held' = {"activated"}
        /\ UNCHANGED <<turn, request, signals, link, comp, presenter, kernel, history>>
    BY DEF AcquireFails, Inductive
  <1>2. tty' = tty \/ Take("activated")
    BY DEF AcquireFails
  <1>3. TypeOK'
    <2>1. "activated" \in Holdings
      BY DEF Holdings
    <2>2. tty' \in Terminals
      <3>1. CASE tty' = tty
        BY <1>1, <3>1 DEF TypeOK
      <3>2. CASE Take("activated")
        BY <1>1, <2>1, <3>2, TerminalTyped
      <3>3. QED
        BY <1>2, <3>1, <3>2
    <2>3. held' \subseteq Holdings
      BY <1>1, <2>1 DEF TypeOK
    <2>4. QED
      BY <1>1, <2>2, <2>3 DEF TypeOK, link, comp, history
  <1>4. Linked' /\ Flipping' /\ Displayed'
    BY <1>1, DisplayStays DEF Linked, Flipping, Running
  <1>5. Owned' /\ GivenBack'
    BY <1>1 DEF Owned, GivenBack
  <1>6. QED
    BY <1>3, <1>4, <1>5 DEF Inductive

LEMMA UnwindStepInductive ==
    ASSUME Inductive, UnwindStep
    PROVE  Inductive'
  <1>1. /\ TypeOK /\ Displayed /\ Owned /\ GivenBack
        /\ phase = "Unwind" /\ step \in 1..5 /\ step' = step - 1
        /\ phase' \in {"Unwind", "Done"} /\ held' = held \ {Holding(step)}
        /\ Give(Holding(step)) \/ tty' = tty
        /\ UNCHANGED <<turn, exit, request, signals, link, comp, presenter, kernel, history>>
    BY DEF UnwindStep, Inductive
  <1>2. Holding(step) \in Holdings
    BY <1>1, HoldingsInOrder
  <1>3. TypeOK'
    BY <1>1, <1>2, TerminalTyped DEF TypeOK, link, comp, history
  <1>4. Linked' /\ Flipping' /\ Displayed'
    BY <1>1, DisplayStays DEF Linked, Flipping, Running
  <1>5. Owned' /\ GivenBack'
    BY <1>1 DEF Owned, GivenBack
  <1>6. QED
    BY <1>3, <1>4, <1>5 DEF Inductive

LEMMA InitializePipelineInductive ==
    ASSUME Inductive, InitializePipeline
    PROVE  Inductive'
  <1>1. /\ TypeOK /\ Linked /\ Flipping /\ Displayed /\ Owned /\ GivenBack
        /\ phase = "Acquire" /\ step = 6 /\ step' = 0
        /\ UNCHANGED <<turn, request, signals, link, comp, held, machine, history>>
    BY DEF InitializePipeline, Inductive
  <1>2. \/ phase' = "Run" /\ exit' = exit /\ presenter' = [presenter EXCEPT !.live = TRUE]
        \/ phase' = "Restore" /\ exit' = 1 /\ presenter' = presenter
    BY DEF InitializePipeline
  <1>3. presenter \in Presenters
    BY <1>1 DEF TypeOK
  <1>4. TypeOK'
    <2>1. presenter' \in Presenters
      BY <1>2, <1>3
    <2>2. phase' \in {"Run", "Restore"} /\ exit' \in {0, 1} /\ step' \in 0..9
      BY <1>1, <1>2 DEF TypeOK
    <2>3. QED
      BY <1>1, <2>1, <2>2 DEF TypeOK, link, comp, machine, history
  <1>5. Linked'
    BY <1>1, <1>2, LinkStays DEF Running
  <1>6. Flipping'
    BY <1>1, <1>2, <1>3 DEF Flipping, Running, Back, link, comp, machine, Waiting
  <1>7. Displayed'
    BY <1>1, <1>2, <1>3 DEF Displayed, Running, machine
  <1>8. Owned'
    <2>1. presenter.direct => {"activated", "keyboard", "process", "graphics", "master"} \subseteq held
      BY <1>1 DEF Owned, Holding
    <2>2. presenter'.direct = presenter.direct
      BY <1>2, <1>3
    <2>3. QED
      BY <1>1, <1>2, <2>1, <2>2 DEF Owned, Holdings, machine, comp
  <1>9. GivenBack'
    BY <1>1, <1>2 DEF GivenBack
  <1>10. QED
    BY <1>4, <1>5, <1>6, <1>7, <1>8, <1>9 DEF Inductive

-----------------------------------------------------------------------------
(* Steps that only pass the turn on *)

Passes ==
    /\ Turned /\ phase' = "Run"
    /\ UNCHANGED <<request, signals, link, comp, drm, machine, history>>

LEMMA PassesInductive ==
    ASSUME Inductive, Passes
    PROVE  Inductive'
  <1>1. /\ TypeOK /\ Linked /\ Flipping /\ Displayed /\ Owned /\ Turned /\ phase = "Run"
        /\ UNCHANGED <<phase, request, signals, producer, inbox, asked, session, pending,
                       expired, output, suspended, presenter, held, kernel, tty, frames,
                       switches, producers, refused>>
    BY DEF Passes, Turned, Inductive, link, comp, drm, machine, history
  <1>2. TypeOK'
    BY <1>1, TypeStays DEF TypeOK
  <1>3. Linked' /\ Flipping' /\ Displayed'
    BY <1>1, LinkStays, FlipStays, DisplayStays DEF link, Running, Waiting
  <1>4. Owned' /\ GivenBack'
    BY <1>1, OwnerStays, BackStays
  <1>5. QED
    BY <1>2, <1>3, <1>4 DEF Inductive

LEMMA IdleStepsInductive ==
    ASSUME Inductive,
           \/ PresentationIdle \/ NothingToRelease \/ NothingToResume \/ NoNewProducer
           \/ TurnEnds
    PROVE  Inductive'
  <1>1. Passes
    BY DEF PresentationIdle, NothingToRelease, NothingToResume, NoNewProducer, TurnEnds,
           Passes, Turned, Goto, Inductive, TypeOK
  <1>2. QED
    BY <1>1, PassesInductive

-----------------------------------------------------------------------------
(* poll and the signals *)

LEMMA PollInductive ==
    ASSUME Inductive, Poll
    PROVE  Inductive'
  <1>1. /\ TypeOK /\ Linked /\ Flipping /\ Displayed /\ Owned /\ Turned /\ phase = "Run"
        /\ signals' = {}
        /\ producer' = [producer EXCEPT !.hup = ~producer.open
                                              /\ producer.state \in {"fresh", "valid"}]
        /\ UNCHANGED <<inbox, asked, session, pending, expired, output, suspended, presenter,
                       held, kernel, tty, frames, switches, producers, refused>>
    BY DEF Poll, Stop, Goto, Turned, Inductive, TypeOK, comp, drm, machine, history
  <1>2. \/ request' = request
        \/ request' = [release |-> request.release \/ "release" \in signals,
                       acquire |-> request.acquire \/ "acquire" \in signals]
    BY DEF Poll
  <1>3. /\ request \in Requests /\ producer \in Producers
        /\ request' \in Requests /\ producer' \in Producers
        /\ request'.release => request.release \/ "release" \in signals
    <2>1. request \in Requests /\ producer \in Producers
      BY <1>1, Records
    <2>2. producer' \in Producers
      BY <1>1, <2>1
    <2>3. ASSUME NEW a \in BOOLEAN, NEW b \in BOOLEAN
          PROVE  /\ [release |-> a, acquire |-> b] \in Requests
                 /\ [release |-> a, acquire |-> b].release = a
      OBVIOUS
    <2>4. /\ (request.release \/ "release" \in signals) \in BOOLEAN
          /\ (request.acquire \/ "acquire" \in signals) \in BOOLEAN
      OBVIOUS
    <2>5. request' \in Requests /\ (request'.release => request.release \/ "release" \in signals)
      <3>1. CASE request' = request
        BY <2>1, <3>1
      <3>2. CASE request' = [release |-> request.release \/ "release" \in signals,
                             acquire |-> request.acquire \/ "acquire" \in signals]
        BY <2>3, <2>4, <3>2, Zenon
      <3>3. QED
        BY <1>2, <3>1, <3>2
    <2>6. QED
      BY <2>1, <2>2, <2>5
  <1>4. TypeOK'
    BY <1>1, <1>3, TypeStays DEF TypeOK
  <1>5. Linked'
    <2>1. /\ producer'.state = producer.state /\ producer'.input = producer.input
          /\ producer'.coordinated = producer.coordinated
      BY <1>1, <1>3
    <2>2. QED
      BY <1>1, <2>1 DEF Linked, Running, Answers, Waiting
  <1>6. Flipping' /\ Displayed'
    BY <1>1, FlipStays, DisplayStays DEF Running, Waiting, Turned
  <1>7. Owned'
    BY <1>1, <1>3 DEF Owned, Turned
  <1>8. GivenBack'
    BY <1>1, BackStays
  <1>9. QED
    BY <1>4, <1>5, <1>6, <1>7, <1>8 DEF Inductive

HIDE DEF Producers, Presentations, Presenters, Kernels, Terminals, Requests

-----------------------------------------------------------------------------
(* A frame commit *)

\* What a copy into a buffer changes.
LEMMA Copied ==
    ASSUME kernel \in Kernels, NEW b \in Buffers, NEW f \in Frames
    PROVE  /\ CopyTo(b, f) \in Kernels
           /\ CopyTo(b, f).scanout = kernel.scanout /\ CopyTo(b, f).flight = kernel.flight
           /\ CopyTo(b, f).event = kernel.event
           /\ CopyTo(b, f).contents[b] = f
           /\ \A c \in Buffers : c # b => CopyTo(b, f).contents[c] = kernel.contents[c]
  BY DEF CopyTo, Kernels

LEMMA TwoBuffers ==
    ASSUME presenter \in Presenters
    PROVE  /\ presenter.front \in Buffers /\ Back \in Buffers /\ Back # presenter.front
           /\ \A b \in Buffers : b = Back \/ b = presenter.front
           /\ Original \notin Buffers /\ NoFlip \notin Buffers
  <1>1. presenter.front \in Buffers
    BY DEF Presenters
  <1>2. QED
    BY <1>1 DEF Back, Buffers, Original, NoFlip

\* What a transaction makes of the flip and of the screen, from a compositor
\* that presents and waits for no flip.
LEMMA TransactionEffect ==
    ASSUME Inductive, phase = "Run", ~suspended, UNCHANGED suspended,
           pending.kind \in {None, "readiness"},
           NEW f \in Frames, f # 0,
           NEW next \in {"Release", "Session", "Contract"}, Transaction(f, next)
    PROVE  /\ Turned /\ pending' \in Presentations /\ presenter' \in Presenters
           /\ kernel' \in Kernels /\ output' \in Frames
           /\ expired' \subseteq {"presentation", "session"}
           /\ presenter'.direct = presenter.direct
           /\ Flipping' /\ Displayed'
  <1>1. /\ presenter \in Presenters /\ kernel \in Kernels /\ output \in Frames
        /\ Flipping /\ Displayed /\ 0 \in Frames
    BY Records, CompositorAssumption DEF Inductive, TypeOK, Frames
  <1>2. Turned
    BY DEF Transaction, Goto, Stop, Turned, Inductive, TypeOK
  <1>3. expired' \subseteq {"presentation", "session"}
    BY DEF Transaction, Inductive, TypeOK
  <1>4. /\ presenter.cookie # "armed" /\ Running
        /\ presenter.cookie = None => kernel.flight = NoFlip /\ ~kernel.event
        /\ presenter.committed = 0 =>
              kernel.scanout = Original /\ kernel.flight = NoFlip /\ presenter.cookie = None
        /\ presenter.committed # 0 /\ presenter.cookie # "abandoned" =>
              /\ kernel.contents[presenter.front] = presenter.committed
              /\ presenter.cookie = None => kernel.scanout = presenter.front
        /\ output # 0 => output = presenter.committed
    BY <1>1 DEF Flipping, Running, None
  <1>5. /\ presenter.live /\ (presenter.committed # 0 => presenter.taken)
        /\ kernel.scanout \in Buffers \/ kernel.flight \in Buffers => presenter.taken
    BY <1>1 DEF Displayed, Running
  <1>6. CASE PresentInitial(f)
    <2> DEFINE k == CopyTo(presenter.front, f)
    <2>1. /\ k \in Kernels /\ k.flight = kernel.flight /\ k.event = kernel.event
          /\ k.contents[presenter.front] = f
      BY <1>1, Copied, TwoBuffers
    <2>2. /\ presenter.committed = 0 /\ presenter.cookie = None /\ kernel.flight = NoFlip
          /\ ~kernel.event
      BY <1>4, <1>6 DEF PresentInitial
    <2>3. /\ kernel' = [k EXCEPT !.scanout = presenter.front]
          /\ presenter' = [presenter EXCEPT !.committed = f, !.taken = TRUE]
          /\ output' = f /\ pending' = NoFrame
      BY <1>6 DEF PresentInitial
    <2> HIDE DEF k
    <2>4. /\ kernel' \in Kernels /\ kernel'.scanout = presenter.front
          /\ kernel'.flight = NoFlip /\ kernel'.event = kernel.event
          /\ kernel'.contents[presenter.front] = f
      BY <1>1, <2>1, <2>2, <2>3, TwoBuffers DEF Kernels
    <2>5. /\ presenter' \in Presenters /\ presenter'.direct = presenter.direct
          /\ presenter'.front = presenter.front /\ presenter'.committed = f
          /\ presenter'.cookie = None /\ presenter'.taken = TRUE
          /\ presenter'.live = presenter.live
      BY <1>1, <2>2, <2>3 DEF Presenters
    <2>6. pending' \in Presentations /\ pending'.kind = None
      BY <1>1, <2>3 DEF NoFrame, Presentations
    <2>7. Flipping'
      BY <1>1, <2>2, <2>3, <2>4, <2>5, <2>6 DEF Flipping, None
    <2>8. Displayed'
      BY <1>5, <2>5 DEF Displayed
    <2>9. QED
      BY <1>2, <1>3, <2>3, <2>4, <2>5, <2>6, <2>7, <2>8
  <1>7. CASE PresentFlip(f)
    <2> DEFINE k == CopyTo(Back, f)
    <2>1. /\ k \in Kernels /\ k.scanout = kernel.scanout /\ k.event = kernel.event
          /\ k.contents[Back] = f
          /\ k.contents[presenter.front] = kernel.contents[presenter.front]
      BY <1>1, Copied, TwoBuffers
    <2>2. presenter.committed # 0 /\ presenter.cookie = None /\ ~kernel.event
      BY <1>4, <1>7 DEF PresentFlip
    <2>3. /\ kernel' = [k EXCEPT !.flight = Back]
          /\ presenter' = [presenter EXCEPT !.cookie = "armed"]
          /\ output' = output /\ pending' = [kind |-> "flip", frame |-> f]
      BY <1>7 DEF PresentFlip
    <2> HIDE DEF k
    <2>4. /\ kernel' \in Kernels /\ kernel'.scanout = kernel.scanout
          /\ kernel'.flight = Back /\ kernel'.event = kernel.event
          /\ kernel'.contents[Back] = f
          /\ kernel'.contents[presenter.front] = kernel.contents[presenter.front]
      BY <1>1, <2>1, <2>3, TwoBuffers DEF Kernels
    <2>5. /\ presenter' \in Presenters /\ presenter'.direct = presenter.direct
          /\ presenter'.front = presenter.front /\ Back' = Back
          /\ presenter'.committed = presenter.committed
          /\ presenter'.cookie = "armed" /\ presenter'.taken = presenter.taken
          /\ presenter'.live = presenter.live
      BY <1>1, <2>3 DEF Back, Presenters
    <2>6. pending' \in Presentations /\ pending'.kind = "flip" /\ pending'.frame = f
      BY <1>1, <2>3 DEF Presentations
    <2>7. Flipping'
      BY <1>4, <2>2, <2>3, <2>4, <2>5, <2>6 DEF Flipping, None
    <2>8. Displayed'
      BY <1>4, <1>5, <2>2, <2>5 DEF Displayed, Running
    <2>9. QED
      BY <1>1, <1>2, <1>3, <2>3, <2>4, <2>5, <2>6, <2>7, <2>8
  <1>8. CASE PresentRejected(f)
    <2>1. /\ presenter' = presenter /\ output' = output /\ pending' = NoFrame
          /\ \/ kernel' = kernel
             \/ presenter.committed = 0 /\ kernel' = CopyTo(presenter.front, f)
             \/ presenter.committed # 0 /\ kernel' = CopyTo(Back, f)
      BY <1>8 DEF PresentRejected
    <2>2. /\ kernel' \in Kernels /\ kernel'.scanout = kernel.scanout
          /\ kernel'.flight = kernel.flight /\ kernel'.event = kernel.event
          /\ presenter.committed # 0 =>
                kernel'.contents[presenter.front] = kernel.contents[presenter.front]
      BY <1>1, <2>1, Copied, TwoBuffers
    <2>3. pending' \in Presentations /\ pending'.kind = None
      BY <1>1, <2>1 DEF NoFrame, Presentations
    <2>4. Flipping'
      BY <1>4, <2>1, <2>2, <2>3 DEF Flipping, None
    <2>5. Displayed'
      BY <1>5, <2>1, <2>2 DEF Displayed, Running
    <2>6. QED
      BY <1>1, <1>2, <1>3, <2>1, <2>2, <2>3, <2>4, <2>5
  <1>9. CASE PromoteWithoutFrame
    <2>1. UNCHANGED <<kernel, presenter>> /\ output' = 0 /\ pending' = NoFrame
      BY <1>9 DEF PromoteWithoutFrame
    <2>2. pending' \in Presentations /\ pending'.kind = None
      BY <1>1, <2>1 DEF NoFrame, Presentations
    <2>3. Flipping' /\ Displayed'
      BY <1>4, <1>5, <2>1, <2>2 DEF Flipping, Displayed, Running, None
    <2>4. QED
      BY <1>1, <1>2, <1>3, <2>1, <2>2, <2>3
  <1>10. CASE PresentFatal(f) /\ Stop(1)
    <2> DEFINE k == CopyTo(presenter.front, f)
    <2>1. k \in Kernels /\ k.flight = kernel.flight
      BY <1>1, Copied, TwoBuffers
    <2>2. /\ phase' = "Restore" /\ output' = output /\ pending' = NoFrame
          /\ \/ UNCHANGED <<kernel, presenter>>
             \/ /\ kernel' = [k EXCEPT !.scanout = presenter.front]
                /\ presenter' = [presenter EXCEPT !.taken = TRUE]
      BY <1>10 DEF PresentFatal, Stop
    <2> HIDE DEF k
    <2>3. /\ kernel' \in Kernels /\ presenter' \in Presenters
          /\ presenter'.direct = presenter.direct /\ presenter'.live = presenter.live
          /\ presenter'.taken \/ UNCHANGED <<kernel, presenter>>
      BY <1>1, <2>1, <2>2, TwoBuffers DEF Kernels, Presenters
    <2>4. Flipping' /\ Displayed'
      BY <1>5, <2>2, <2>3 DEF Flipping, Displayed, Running
    <2>5. QED
      BY <1>1, <1>2, <1>3, <2>2, <2>3, <2>4 DEF NoFrame, Presentations
  <1>11. QED
    BY <1>6, <1>7, <1>8, <1>9, <1>10 DEF Transaction

-----------------------------------------------------------------------------
(* service_presentation *)

LEMMA BufferReadyInductive ==
    ASSUME Inductive, BufferReady
    PROVE  Inductive'
  <1>1. /\ TypeOK /\ Linked /\ Flipping /\ Owned /\ phase = "Run"
        /\ pending.kind = "readiness" /\ Transaction(pending.frame, "Release")
        /\ UNCHANGED <<request, signals, producer, inbox, asked, session, suspended, held, tty,
                       frames, switches, producers, refused>>
    BY DEF BufferReady, Inductive, link, history
  <1>2. pending.frame \in Frames /\ pending.frame # 0 /\ ~suspended
    BY <1>1, Records DEF Presentations, Flipping, Running, None
  <1>3. /\ Turned /\ pending' \in Presentations /\ presenter' \in Presenters
        /\ kernel' \in Kernels /\ output' \in Frames
        /\ expired' \subseteq {"presentation", "session"}
        /\ presenter'.direct = presenter.direct /\ Flipping' /\ Displayed'
    BY <1>1, <1>2, TransactionEffect
  <1>4. TypeOK'
    <2>1. producer \in Producers /\ request \in Requests /\ tty \in Terminals
      BY <1>1, Records
    <2>2. QED
      BY <1>1, <1>3, <2>1, TypeStays DEF TypeOK
  <1>5. Linked' /\ Owned' /\ GivenBack'
    BY <1>1, <1>3, LinkStays, OwnerStays, BackStays DEF link, Running, Turned
  <1>6. QED
    BY <1>3, <1>4, <1>5 DEF Inductive

LEMMA FlipCompletesInductive ==
    ASSUME Inductive, FlipCompletes
    PROVE  Inductive'
  <1>1. /\ TypeOK /\ Linked /\ Flipping /\ Displayed /\ Owned /\ Turned /\ phase = "Run"
        /\ phase' = "Run" /\ pending.kind = "flip" /\ presenter.cookie = "armed" /\ kernel.event
        /\ kernel' = [kernel EXCEPT !.event = FALSE]
        /\ presenter' = [presenter EXCEPT !.front = Back, !.cookie = None,
                                          !.committed = pending.frame]
        /\ output' = pending.frame /\ pending' = NoFrame
        /\ UNCHANGED <<request, signals, producer, inbox, asked, session, expired, suspended,
                       held, tty, frames, switches, producers, refused>>
    BY DEF FlipCompletes, FlipEvent, FinalizePending, Promote, Goto, Turned, Inductive, TypeOK,
           link, history
  <1>2. /\ presenter \in Presenters /\ kernel \in Kernels /\ pending \in Presentations
        /\ producer \in Producers /\ request \in Requests /\ tty \in Terminals
        /\ pending.frame \in Frames /\ 0 \in Frames
    BY <1>1, Records, CompositorAssumption DEF Presentations, Frames
  <1>3. /\ kernel' \in Kernels /\ kernel'.scanout = kernel.scanout
        /\ kernel'.flight = kernel.flight /\ kernel'.event = FALSE
        /\ kernel'.contents = kernel.contents
    BY <1>1, <1>2 DEF Kernels
  <1>4. /\ presenter' \in Presenters /\ presenter'.direct = presenter.direct
        /\ presenter'.front = Back /\ presenter'.cookie = None
        /\ presenter'.committed = pending.frame /\ presenter'.taken = presenter.taken
        /\ presenter'.live = presenter.live
    BY <1>1, <1>2, TwoBuffers DEF Presenters
  <1>5. pending' \in Presentations /\ pending'.kind = None
    BY <1>1, <1>2 DEF NoFrame, Presentations
  <1>6. /\ pending.frame # 0 /\ kernel.contents[Back] = pending.frame
        /\ kernel.flight = NoFlip /\ kernel.scanout = Back
        /\ presenter.committed # 0 /\ ~suspended
    BY <1>1 DEF Flipping, Running, None
  <1>7. TypeOK'
    BY <1>1, <1>2, <1>3, <1>4, <1>5, TypeStays DEF TypeOK
  <1>8. Flipping'
    BY <1>1, <1>3, <1>4, <1>5, <1>6 DEF Flipping, None
  <1>9. Displayed'
    BY <1>1, <1>3, <1>4, <1>6 DEF Displayed, Running
  <1>10. Linked' /\ Owned' /\ GivenBack'
    BY <1>1, <1>4, LinkStays, OwnerStays, BackStays DEF link, Running
  <1>11. QED
    BY <1>7, <1>8, <1>9, <1>10 DEF Inductive

\* A flip that is given up leaves the rest of the presenter alone.
LEMMA Abandoned ==
    ASSUME presenter \in Presenters, presenter' = Abandon(presenter)
    PROVE  /\ presenter' \in Presenters /\ presenter'.direct = presenter.direct
           /\ presenter'.front = presenter.front /\ presenter'.committed = presenter.committed
           /\ presenter'.taken = presenter.taken /\ presenter'.live = presenter.live
           /\ presenter'.cookie # "armed"
           /\ presenter'.cookie = None <=> presenter.cookie = None
           /\ presenter'.cookie # "abandoned" => presenter'.cookie = presenter.cookie
  BY DEF Abandon, Presenters, None

LEMMA PresentationFailsInductive ==
    ASSUME Inductive, PresentationFails
    PROVE  Inductive'
  <1>1. /\ TypeOK /\ Displayed /\ Owned /\ Turned /\ phase' = "Restore" /\ phase = "Run"
        /\ presenter' = Abandon(presenter) /\ pending' = NoFrame
        /\ UNCHANGED <<request, signals, producer, inbox, asked, session, expired, output,
                       suspended, held, kernel, tty, frames, switches, producers, refused>>
    BY DEF PresentationFails, Stop, Turned, Inductive, TypeOK, link, machine, history
  <1>2. /\ presenter \in Presenters /\ kernel \in Kernels /\ producer \in Producers
        /\ request \in Requests /\ tty \in Terminals /\ 0 \in Frames
    BY <1>1, Records, CompositorAssumption DEF Frames
  <1>3. pending' \in Presentations
    BY <1>1, <1>2 DEF NoFrame, Presentations
  <1>4. TypeOK'
    BY <1>1, <1>2, <1>3, Abandoned, TypeStays DEF TypeOK
  <1>5. Linked' /\ Flipping' /\ Displayed'
    BY <1>1, <1>2, Abandoned DEF Linked, Flipping, Displayed, Running
  <1>6. Owned' /\ GivenBack'
    BY <1>1, <1>2, Abandoned, OwnerStays, BackStays
  <1>7. QED
    BY <1>4, <1>5, <1>6 DEF Inductive

-----------------------------------------------------------------------------
(* The end of a connection *)

\* The states of the session in which no answer is waited for.
Settled == {"Disabled", "Active", "Inactive", "Failed"}

\* What the end of the connection leaves of it and of a flip.
LEMMA DisconnectEffect ==
    ASSUME Inductive, GiveUp, session' \in Settled, Turned, UNCHANGED <<kernel, suspended>>
    PROVE  /\ producer' \in Producers /\ presenter' \in Presenters /\ pending' \in Presentations
           /\ inbox' \in Seq(Messages) /\ Len(inbox') <= MaxInbox + 1
           /\ asked' = None /\ output' = 0
           /\ presenter'.direct = presenter.direct
           /\ Linked' /\ Flipping' /\ Displayed'
  <1>1. /\ presenter \in Presenters /\ Flipping /\ Displayed /\ 0 \in Frames /\ Running
        /\ phase = "Run"
    BY Records, CompositorAssumption DEF Inductive, Frames, Turned, Running
  <1>2. /\ presenter' = Abandon(presenter) /\ pending' = NoFrame /\ output' = 0
        /\ producer' = NoProducer /\ inbox' = << >> /\ asked' = None
        /\ session' \in Settled
    BY DEF GiveUp
  <1>3. producer' \in Producers /\ producer'.state = None /\ producer'.input = FALSE
    BY <1>2 DEF NoProducer, Producers
  <1>4. pending' \in Presentations /\ pending'.kind = None
    BY <1>1, <1>2 DEF NoFrame, Presentations
  <1>5. inbox' \in Seq(Messages) /\ Len(inbox') = 0 /\ DOMAIN inbox' = {}
    BY <1>2
  <1>6. Linked'
    BY <1>2, <1>3, <1>5, CompositorAssumption DEF Linked, Answers, Waiting, Settled, None
  <1>7. Flipping'
    BY <1>1, <1>2, <1>4, Abandoned DEF Flipping, Waiting, Settled, None
  <1>8. Displayed'
    BY <1>1, <1>2, Abandoned DEF Displayed, Running
  <1>9. QED
    BY <1>1, <1>2, <1>3, <1>4, <1>5, <1>6, <1>7, <1>8, Abandoned, CompositorAssumption

\* A step that ends the connection and does nothing else.
LEMMA DisconnectsInductive ==
    ASSUME Inductive, GiveUp, session' \in Settled, Turned, refused' \in BOOLEAN,
           UNCHANGED <<request, signals, expired, suspended, held, kernel, tty, frames,
                       switches, producers>>
    PROVE  Inductive'
  <1>1. TypeOK /\ Owned /\ phase = "Run"
    BY DEF Inductive, Turned
  <1>2. /\ kernel \in Kernels /\ request \in Requests /\ tty \in Terminals /\ 0 \in Frames
    BY <1>1, Records, CompositorAssumption DEF Frames
  <1>3. /\ producer' \in Producers /\ presenter' \in Presenters /\ pending' \in Presentations
        /\ inbox' \in Seq(Messages) /\ Len(inbox') <= MaxInbox + 1
        /\ asked' = None /\ output' = 0
        /\ presenter'.direct = presenter.direct
        /\ Linked' /\ Flipping' /\ Displayed'
    BY DisconnectEffect
  <1>4. TypeOK'
    BY <1>1, <1>2, <1>3, TypeStays DEF TypeOK, Settled
  <1>5. Owned' /\ GivenBack'
    BY <1>1, <1>3, OwnerStays, BackStays
  <1>6. QED
    BY <1>3, <1>4, <1>5 DEF Inductive

-----------------------------------------------------------------------------
(* service_virtual_terminal *)

\* A producer that is not waited for is sent a request: no answer is on its way.
LEMMA AskedEffect ==
    ASSUME Linked, Turned, phase' = "Run", ~Waiting, producer.state = "valid",
           UNCHANGED <<producer, inbox>>,
           \/ asked' = "Inactive" /\ session' = "AwaitingInactive"
           \/ asked' = "Active" /\ session' = "AwaitingActive"
    PROVE  Linked'
  <1>1. Running /\ Running'
    BY DEF Running, Turned
  <1>2. Answers = {} /\ ~(Len(inbox) > MaxInbox) /\ Answers' = Answers
    BY <1>1 DEF Linked, Answers
  <1>3. \A i \in DOMAIN inbox : inbox[i].type # "ack"
    BY <1>2 DEF Answers
  <1>4. QED
    BY <1>1, <1>2, <1>3 DEF Linked, Waiting

LEMMA RequestInactiveInductive ==
    ASSUME Inductive, RequestInactive
    PROVE  Inductive'
  <1>1. /\ TypeOK /\ Linked /\ Flipping /\ Displayed /\ Owned /\ Turned /\ phase = "Run"
        /\ ~suspended /\ ~Waiting
        /\ UNCHANGED <<request, signals, producer, inbox, pending, output, suspended, presenter,
                       held, kernel, tty, frames, switches, producers, refused>>
    BY DEF RequestInactive, MayRelease, Waiting, Stop, Goto, Turned, Inductive, TypeOK, drm,
           machine, history
  <1>2. \/ /\ producer.state = "valid" /\ asked' = "Inactive" /\ session' = "AwaitingInactive"
           /\ expired' = expired \ {"session"} /\ phase' = "Run"
        \/ phase' = "Restore" /\ session' = "Failed" /\ UNCHANGED <<asked, expired>>
    BY <1>1 DEF RequestInactive, Stop, Goto
  <1>3. TypeOK'
    <2>1. /\ producer \in Producers /\ pending \in Presentations /\ request \in Requests
          /\ presenter \in Presenters /\ kernel \in Kernels /\ tty \in Terminals
      BY <1>1, Records
    <2>2. QED
      BY <1>1, <1>2, <2>1, TypeStays DEF TypeOK
  <1>4. Linked'
    BY <1>1, <1>2, AskedEffect DEF Linked, Running
  <1>5. Flipping' /\ Displayed'
    BY <1>1, DisplayStays DEF Flipping, Running, Back, Turned
  <1>6. Owned' /\ GivenBack'
    BY <1>1, OwnerStays, BackStays
  <1>7. QED
    BY <1>3, <1>4, <1>5, <1>6 DEF Inductive

\* The terminal when master goes or comes.
LEMMA MasterChanges ==
    ASSUME tty \in Terminals, NEW m \in BOOLEAN, NEW w \in {None, "release"},
           NEW a \in {"ours", "other"},
           tty' = [tty EXCEPT !.master = m, !.wait = w, !.active = a]
    PROVE  tty' \in Terminals /\ tty'.master = m
  BY DEF Terminals

LEMMA SuspendInductive ==
    ASSUME Inductive, Suspend
    PROVE  Inductive'
  <1>1. /\ TypeOK /\ Linked /\ Flipping /\ Displayed /\ Owned /\ Turned
        /\ phase = "Run" /\ phase' = "Run" /\ request.release /\ ~suspended /\ ~Waiting
        /\ pending.kind = None /\ suspended' = TRUE
        /\ request' = [request EXCEPT !.release = FALSE]
        /\ held' = held \ {"master"}
        /\ UNCHANGED <<signals, producer, inbox, asked, session, pending, expired, output,
                       presenter, kernel, frames, switches, producers, refused>>
    BY DEF Suspend, MayRelease, MaySuspend, Pending, ReleaseTerminal, Goto, Turned, Inductive,
           TypeOK, link, history
  <1>2. /\ producer \in Producers /\ pending \in Presentations /\ request \in Requests
        /\ presenter \in Presenters /\ kernel \in Kernels /\ tty \in Terminals
    BY <1>1, Records
  <1>3. tty' \in Terminals /\ tty'.master = FALSE
    <2>1. /\ tty.wait \in {None, "release"} /\ tty.active \in {"ours", "other"}
          /\ tty' = [tty EXCEPT !.master = FALSE, !.wait = None,
                                !.active = IF tty.wait = "release" THEN "other" ELSE tty.active]
      BY <1>2 DEF Terminals, Suspend, ReleaseTerminal
    <2>2. QED
      BY <1>2, <2>1, MasterChanges
  <1>4. request' \in Requests /\ request'.release = FALSE
    BY <1>1, <1>2 DEF Requests
  <1>5. TypeOK'
    BY <1>1, <1>2, <1>3, <1>4, TypeStays DEF TypeOK
  <1>6. Linked' /\ Flipping' /\ Displayed'
    BY <1>1, LinkStays, DisplayStays DEF link, Flipping, Running, Back, Waiting
  <1>7. Owned'
    BY <1>1, <1>3, <1>4 DEF Owned, Turned
  <1>8. GivenBack'
    BY <1>1, BackStays
  <1>9. QED
    BY <1>5, <1>6, <1>7, <1>8 DEF Inductive

\* A step that ends the loop with master taken or dropped, or neither.
LEMMA MasterLost ==
    ASSUME Inductive, Turned, phase' = "Restore",
           \/ UNCHANGED <<tty, held>>
           \/ presenter.direct /\ tty' = [tty EXCEPT !.master = FALSE] /\ held' = held \ {"master"}
           \/ presenter.direct /\ tty' = [tty EXCEPT !.master = TRUE] /\ held' = held \cup {"master"},
           UNCHANGED <<request, signals, link, comp, presenter, kernel, history>>
    PROVE  Inductive'
  <1>1. /\ TypeOK /\ Displayed /\ Owned /\ phase = "Run"
        /\ UNCHANGED <<request, signals, producer, inbox, asked, session, pending, expired,
                       output, suspended, presenter, kernel, frames, switches, producers, refused>>
    BY DEF Turned, Inductive, link, comp, history
  <1>2. /\ producer \in Producers /\ pending \in Presentations /\ request \in Requests
        /\ presenter \in Presenters /\ kernel \in Kernels /\ tty \in Terminals
    BY <1>1, Records
  <1>3. /\ tty' \in Terminals /\ held' \subseteq Holdings /\ held \ {"master"} \subseteq held'
        /\ \/ UNCHANGED <<tty, held>>
           \/ presenter.direct /\ ~tty'.master /\ "master" \notin held'
           \/ presenter.direct /\ tty'.master /\ "master" \in held'
    <2>1. held \subseteq Holdings /\ "master" \in Holdings
      BY <1>1 DEF TypeOK, Holdings
    <2>2. CASE UNCHANGED <<tty, held>>
      BY <1>2, <2>1, <2>2
    <2>3. CASE presenter.direct /\ tty' = [tty EXCEPT !.master = FALSE] /\ held' = held \ {"master"}
      BY <1>2, <2>1, <2>3 DEF Terminals
    <2>4. CASE presenter.direct /\ tty' = [tty EXCEPT !.master = TRUE] /\ held' = held \cup {"master"}
      BY <1>2, <2>1, <2>4 DEF Terminals
    <2>5. QED
      BY <2>2, <2>3, <2>4
  <1>4. TypeOK'
    BY <1>1, <1>2, <1>3, TypeStays DEF TypeOK
  <1>5. Linked' /\ Flipping' /\ Displayed'
    BY <1>1, DisplayStays DEF Linked, Flipping, Running
  <1>6. Owned' /\ GivenBack'
    BY <1>1, <1>3, BackStays DEF Owned
  <1>7. QED
    BY <1>4, <1>5, <1>6 DEF Inductive

LEMMA TerminalFailsInductive ==
    ASSUME Inductive, SuspendFails \/ ResumeFails
    PROVE  Inductive'
  <1>1. Owned /\ Turned /\ phase' = "Restore" /\ phase = "Run"
    BY DEF SuspendFails, ResumeFails, Stop, Turned, Inductive, TypeOK
  <1>2. presenter.direct
    BY <1>1 DEF SuspendFails, ResumeFails, MayRelease, MayResume, Owned
  <1>3. QED
    BY <1>1, <1>2, MasterLost DEF SuspendFails, ResumeFails

LEMMA ResumePresentationInductive ==
    ASSUME Inductive, ResumePresentation
    PROVE  Inductive'
  <1>1. /\ TypeOK /\ Linked /\ Flipping /\ Displayed /\ Owned /\ Turned /\ phase = "Run"
        /\ suspended /\ suspended' = FALSE /\ presenter.committed # 0
        /\ held' = held \cup {"master"} /\ tty' = [tty EXCEPT !.master = TRUE]
        /\ kernel' = [CopyTo(Back, presenter.committed) EXCEPT !.scanout = Back]
        /\ presenter' = [presenter EXCEPT !.front = Back, !.taken = TRUE]
        /\ UNCHANGED <<signals, producer, inbox, pending, output, frames, switches, producers,
                       refused>>
    BY DEF ResumePresentation, MayResume, Resumable, Reacquire, ShowCommitted, Stop, Goto,
           Turned, Inductive, TypeOK, history
  <1>2. \/ /\ producer.state = "valid" /\ phase' = "Run" /\ session = "Inactive"
           /\ session' = "AwaitingActive" /\ asked' = "Active"
           /\ expired' = expired \ {"session"} /\ request' = request
        \/ /\ phase' = "Restore" /\ session' = "Failed" /\ UNCHANGED <<request, asked, expired>>
        \/ /\ phase' = "Run" /\ UNCHANGED <<session, asked, expired>>
           /\ request' = [request EXCEPT !.acquire = FALSE]
    BY <1>1 DEF ResumePresentation, Stop, Goto
  <1>3. /\ producer \in Producers /\ pending \in Presentations /\ request \in Requests
        /\ presenter \in Presenters /\ kernel \in Kernels /\ tty \in Terminals
        /\ presenter.committed \in Frames
    BY <1>1, Records DEF Presenters
  <1>4. /\ kernel' \in Kernels /\ kernel'.scanout = Back /\ kernel'.flight = kernel.flight
        /\ kernel'.event = kernel.event /\ kernel'.contents[Back] = presenter.committed
    <2> DEFINE k == CopyTo(Back, presenter.committed)
    <2>1. /\ k \in Kernels /\ k.flight = kernel.flight /\ k.event = kernel.event
          /\ k.contents[Back] = presenter.committed
      BY <1>3, Copied, TwoBuffers
    <2>2. kernel' = [k EXCEPT !.scanout = Back]
      BY <1>1
    <2> HIDE DEF k
    <2>3. QED
      BY <1>3, <2>1, <2>2, TwoBuffers DEF Kernels
  <1>5. /\ presenter' \in Presenters /\ presenter'.direct = presenter.direct
        /\ presenter'.front = Back /\ presenter'.taken = TRUE
        /\ presenter'.cookie = presenter.cookie /\ presenter'.live = presenter.live
        /\ presenter'.committed = presenter.committed
    BY <1>1, <1>3, TwoBuffers DEF Presenters
  <1>6. /\ tty' \in Terminals /\ tty'.master = TRUE /\ held' \subseteq Holdings
    BY <1>1, <1>3 DEF Terminals, TypeOK, Holdings
  <1>7. request' \in Requests /\ request'.release = request.release
    BY <1>2, <1>3 DEF Requests
  <1>8. TypeOK'
    BY <1>1, <1>2, <1>3, <1>4, <1>5, <1>6, <1>7, TypeStays DEF TypeOK
  <1>9. Linked'
    <2>1. ~Waiting
      BY <1>1 DEF Flipping, Running
    <2>2. QED
      BY <1>1, <1>2, <2>1, AskedEffect, LinkStays DEF link, Linked, Running
  <1>10. Flipping'
    <2>1. pending.kind = None /\ presenter.cookie # "armed"
      BY <1>1 DEF Flipping, Running, None
    <2>2. /\ presenter.cookie = None => kernel.flight = NoFlip /\ ~kernel.event
          /\ output # 0 => output = presenter.committed
      BY <1>1 DEF Flipping, Running
    <2>3. QED
      BY <1>1, <1>4, <1>5, <2>1, <2>2 DEF Flipping, None
  <1>11. Displayed'
    BY <1>1, <1>5 DEF Displayed
  <1>12. Owned' /\ GivenBack'
    BY <1>1, <1>5, <1>6, <1>7, BackStays DEF Owned, Turned
  <1>13. QED
    BY <1>8, <1>9, <1>10, <1>11, <1>12 DEF Inductive

-----------------------------------------------------------------------------
(* The producer's connection *)

LEMMA AcceptInductive ==
    ASSUME Inductive, Accept \/ Validate
    PROVE  Inductive'
  <1>1. /\ TypeOK /\ Linked /\ Flipping /\ Displayed /\ Owned /\ Turned
        /\ phase = "Run" /\ phase' = "Run" /\ producer.state \in {"listening", "fresh"}
        /\ UNCHANGED <<request, signals, inbox, asked, pending, expired, output, suspended,
                       presenter, held, kernel, tty, frames, switches, producers, refused>>
    BY DEF Accept, Validate, Goto, Turned, Inductive, TypeOK, comp, drm, machine, history
  <1>2. \/ producer' = [producer EXCEPT !.state = "fresh"] /\ session' = session
        \/ /\ producer' = [producer EXCEPT !.state = "valid"]
           /\ session' = IF producer.coordinated THEN "Active" ELSE "Disabled"
    BY DEF Accept, Validate
  <1>3. /\ producer \in Producers /\ pending \in Presentations /\ request \in Requests
        /\ presenter \in Presenters /\ kernel \in Kernels /\ tty \in Terminals
    BY <1>1, Records
  <1>4. /\ producer' \in Producers /\ producer'.state \in {"fresh", "valid"}
        /\ producer'.input = producer.input /\ producer'.coordinated = producer.coordinated
        /\ producer'.state = "valid" =>
              session' = IF producer.coordinated THEN "Active" ELSE "Disabled"
        /\ producer'.state = "fresh" => session' = session
    BY <1>2, <1>3 DEF Producers
  <1>5. TypeOK'
    BY <1>1, <1>2, <1>3, <1>4, TypeStays DEF TypeOK
  <1>6. /\ inbox = << >> /\ asked = None /\ ~Waiting
        /\ producer.input => producer.coordinated
    BY <1>1 DEF Linked, Running
  <1>7. ~Waiting'
    BY <1>4, <1>6 DEF Waiting
  <1>8. Linked'
    <2>1. inbox' = << >> /\ DOMAIN inbox' = {} /\ Len(inbox') = 0 /\ asked' = None
      BY <1>1, <1>6
    <2>2. QED
      BY <1>4, <1>6, <1>7, <2>1, CompositorAssumption DEF Linked, Answers, None
  <1>9. Flipping' /\ Displayed'
    BY <1>1, <1>7, FlipStays, DisplayStays DEF Running
  <1>10. Owned' /\ GivenBack'
    BY <1>1, OwnerStays, BackStays
  <1>11. QED
    BY <1>5, <1>8, <1>9, <1>10 DEF Inductive

LEMMA GiveUpInductive ==
    ASSUME Inductive,
           RejectProducer \/ (\E t \in {"Session", "Contract"} : RefuseQuery(t) \/ FailQuery(t))
    PROVE  Inductive'
  <1> DEFINE GivesUp ==
        /\ GiveUp /\ session' \in Settled /\ Turned /\ refused' \in BOOLEAN
        /\ UNCHANGED <<request, signals, expired, suspended, held, kernel, tty, frames,
                       switches, producers>>
  <1>1. TypeOK
    BY DEF Inductive
  <1>2. CASE RejectProducer
    <2>1. GivesUp
      BY <1>1, <1>2 DEF RejectProducer, Goto, Turned, Inductive, Linked, Running, Waiting,
                        Settled, TypeOK, machine, history
    <2>2. QED
      BY <2>1, DisconnectsInductive
  <1>3. ASSUME NEW t \in {"Session", "Contract"}, RefuseQuery(t)
        PROVE  Inductive'
    <2>1. GivesUp
      BY <1>1, <1>3 DEF RefuseQuery, Receiving, Disconnect, Settled, Goto, Turned, TypeOK, machine
    <2>2. QED
      BY <2>1, DisconnectsInductive
  <1>4. ASSUME NEW t \in {"Session", "Contract"}, FailQuery(t)
        PROVE  Inductive'
    <2>1. GivesUp
      BY <1>1, <1>4 DEF FailQuery, Receiving, Disconnect, Settled, Stop, Turned, TypeOK, machine, history
    <2>2. QED
      BY <2>1, DisconnectsInductive
  <1>5. QED
    BY <1>2, <1>3, <1>4

\* A message is taken from the connection.
LEMMA TakenEffect ==
    ASSUME Inductive, Turned, inbox # << >>, inbox' = Tail(inbox),
           UNCHANGED <<producer, asked, session>>
    PROVE  inbox' \in Seq(Messages) /\ Len(inbox') <= MaxInbox + 1 /\ Linked'
  <1>1. /\ inbox \in Seq(Messages) /\ Len(inbox) <= MaxInbox + 1 /\ Linked /\ Running
        /\ MaxInbox \in Nat /\ Len(inbox) \in Nat
    BY CompositorAssumption DEF Inductive, TypeOK, Turned, Running
  <1>2. /\ inbox' \in Seq(Messages) /\ Len(inbox') = Len(inbox) - 1
        /\ \A i \in DOMAIN inbox' : i + 1 \in DOMAIN inbox /\ inbox'[i] = inbox[i + 1]
    BY <1>1, TailOf
  <1>3. /\ Answers' # {} => Answers # {}
        /\ \A i, j \in Answers' : i = j
    <2>1. \A i \in Answers' : i + 1 \in Answers /\ i \in Nat
      BY <1>2 DEF Answers
    <2>2. \A i, j \in Answers : i = j
      BY <1>1 DEF Linked
    <2>3. QED
      BY <2>1, <2>2
  <1>4. producer.state = "valid"
    BY <1>1 DEF Linked
  <1>5. QED
    BY <1>1, <1>2, <1>3, <1>4 DEF Linked, Waiting

LEMMA AnswerQueryInductive ==
    ASSUME Inductive, NEW t \in {"Session", "Contract"}, AnswerQuery(t)
    PROVE  Inductive'
  <1>1. /\ TypeOK /\ Flipping /\ Displayed /\ Owned /\ Turned /\ phase = "Run"
        /\ inbox # << >> /\ inbox' = Tail(inbox)
        /\ UNCHANGED <<phase, request, signals, producer, asked, session, pending, expired,
                       output, suspended, presenter, held, kernel, tty, frames, switches,
                       producers, refused>>
    BY DEF AnswerQuery, Receiving, Goto, Turned, Inductive, TypeOK, comp, drm, machine, history
  <1>2. inbox' \in Seq(Messages) /\ Len(inbox') <= MaxInbox + 1 /\ Linked'
    BY <1>1, TakenEffect
  <1>3. TypeOK'
    <2>1. /\ producer \in Producers /\ pending \in Presentations /\ request \in Requests
          /\ presenter \in Presenters /\ kernel \in Kernels /\ tty \in Terminals
      BY <1>1, Records
    <2>2. QED
      BY <1>1, <1>2, <2>1, TypeStays DEF TypeOK
  <1>4. Flipping' /\ Displayed' /\ Owned' /\ GivenBack'
    BY <1>1, FlipStays, DisplayStays, OwnerStays, BackStays DEF Running, Waiting
  <1>5. QED
    BY <1>2, <1>3, <1>4 DEF Inductive

\* A commit is overtaken by none, waits for its buffers, or is carried out.
LEMMA CommitEffect ==
    ASSUME Inductive, phase = "Run", ~suspended, UNCHANGED <<suspended, session>>,
           NEW f \in Frames, f # 0,
           NEW next \in {"Release", "Session", "Contract"}, CommitFrame(f, next)
    PROVE  /\ Turned /\ pending' \in Presentations /\ presenter' \in Presenters
           /\ kernel' \in Kernels /\ output' \in Frames
           /\ expired' \subseteq {"presentation", "session"}
           /\ presenter'.direct = presenter.direct
           /\ Flipping' /\ Displayed'
  <1>1. /\ pending \in Presentations /\ presenter \in Presenters /\ kernel \in Kernels
        /\ output \in Frames /\ expired \subseteq {"presentation", "session"}
        /\ Flipping /\ Displayed
    BY Records DEF Inductive, TypeOK
  <1>2. CASE Pending /\ Goto(next) /\ UNCHANGED <<presenter, kernel, pending, expired, output>>
    <2>1. Turned /\ phase' = "Run"
      BY <1>2 DEF Goto, Turned, Inductive, TypeOK
    <2>2. Flipping' /\ Displayed'
      BY <1>1, <1>2, <2>1, FlipStays, DisplayStays DEF Running, Waiting
    <2>3. QED
      BY <1>1, <1>2, <2>1, <2>2
  <1>3. CASE /\ ~Pending /\ pending' = [kind |-> "readiness", frame |-> f]
             /\ expired' = expired \ {"presentation"} /\ Goto(next)
             /\ UNCHANGED <<presenter, kernel, output>>
    <2>1. Turned /\ phase' = "Run"
      BY <1>3 DEF Goto, Turned, Inductive, TypeOK
    <2>2. pending' \in Presentations /\ pending'.kind = "readiness" /\ pending'.frame = f
      BY <1>3 DEF Presentations
    <2>3. pending.kind = None /\ presenter.cookie # "armed"
      BY <1>1, <1>3 DEF Pending, Flipping, Running, None
    <2>4. Flipping'
      BY <1>1, <1>3, <2>1, <2>2, <2>3 DEF Flipping, Running, None
    <2>5. Displayed'
      BY <1>1, <1>3, <2>1, DisplayStays DEF Running
    <2>6. QED
      BY <1>1, <1>3, <2>1, <2>2, <2>4, <2>5
  <1>4. CASE ~Pending /\ Transaction(f, next)
    BY <1>4, TransactionEffect DEF Pending
  <1>5. QED
    BY <1>2, <1>3, <1>4 DEF CommitFrame

LEMMA DispatchCommitInductive ==
    ASSUME Inductive, NEW t \in {"Session", "Contract"}, DispatchCommit(t)
    PROVE  Inductive'
  <1>1. /\ TypeOK /\ Linked /\ Flipping /\ Owned /\ phase = "Run"
        /\ inbox # << >> /\ inbox' = Tail(inbox) /\ Head(inbox).type = "commit"
        /\ CommitFrame(Head(inbox).frame, t)
        /\ UNCHANGED <<request, signals, producer, asked, session, suspended, held, tty, frames,
                       switches, producers, refused>>
    BY DEF DispatchCommit, Receiving, Inductive, history
  <1>2. ~suspended
    BY <1>1 DEF DispatchCommit, Receiving, Flipping, Running
  <1>3. Head(inbox).frame \in Frames /\ Head(inbox).frame # 0
    <2>1. inbox \in Seq(Messages)
      BY <1>1 DEF TypeOK
    <2>2. Head(inbox) = inbox[1] /\ 1 \in DOMAIN inbox /\ Head(inbox) \in Messages
      BY <1>1, <2>1, TailOf
    <2>3. QED
      BY <1>1, <2>2 DEF Linked, Running, Messages
  <1>4. /\ Turned /\ pending' \in Presentations /\ presenter' \in Presenters
        /\ kernel' \in Kernels /\ output' \in Frames
        /\ expired' \subseteq {"presentation", "session"}
        /\ presenter'.direct = presenter.direct
        /\ Flipping' /\ Displayed'
    BY <1>1, <1>2, <1>3, CommitEffect
  <1>5. inbox' \in Seq(Messages) /\ Len(inbox') <= MaxInbox + 1 /\ Linked'
    BY <1>1, <1>4, TakenEffect
  <1>6. TypeOK'
    <2>1. producer \in Producers /\ request \in Requests /\ tty \in Terminals
      BY <1>1, Records
    <2>2. QED
      BY <1>1, <1>4, <1>5, <2>1, TypeStays DEF TypeOK
  <1>7. Owned' /\ GivenBack'
    BY <1>1, <1>4, OwnerStays, BackStays
  <1>8. QED
    BY <1>4, <1>5, <1>6, <1>7 DEF Inductive

LEMMA SessionAnsweredInductive ==
    ASSUME Inductive, SessionAnswered
    PROVE  Inductive'
  <1>1. /\ TypeOK /\ Linked /\ Flipping /\ Displayed /\ Owned /\ Turned
        /\ phase = "Run" /\ inbox # << >> /\ inbox' = Tail(inbox) /\ Waiting
        /\ producer.state = "valid"
        /\ \/ /\ Head(inbox).type = "ack" /\ phase' = "Run"
              /\ session' = IF session = "AwaitingInactive" THEN "Inactive" ELSE "Active"
              /\ request' = [request EXCEPT !.acquire = request.acquire
                                                        /\ session # "AwaitingActive"]
           \/ session' = "Failed" /\ phase' = "Restore" /\ request' = request
        /\ Head(inbox).type \in {"ack", "nack"}
        /\ UNCHANGED <<signals, producer, asked, pending, expired, output, suspended, presenter,
                       held, kernel, tty, frames, switches, producers, refused>>
    BY DEF SessionAnswered, Receiving, Goto, Stop, Turned, Inductive, TypeOK, comp, drm, machine,
           history
  <1>2. /\ producer \in Producers /\ pending \in Presentations /\ request \in Requests
        /\ presenter \in Presenters /\ kernel \in Kernels /\ tty \in Terminals
        /\ inbox \in Seq(Messages) /\ Len(inbox) <= MaxInbox + 1 /\ Running
        /\ Len(inbox) \in Nat /\ MaxInbox \in Nat
    BY <1>1, Records, CompositorAssumption DEF TypeOK, Running
  <1>3. /\ inbox' \in Seq(Messages) /\ Len(inbox') = Len(inbox) - 1
        /\ Head(inbox) = inbox[1] /\ 1 \in DOMAIN inbox
        /\ \A i \in DOMAIN inbox' : i + 1 \in DOMAIN inbox /\ inbox'[i] = inbox[i + 1]
    BY <1>1, <1>2, TailOf
  <1>4. request' \in Requests /\ request'.release = request.release
    <2>1. ASSUME NEW b \in BOOLEAN
          PROVE  /\ [request EXCEPT !.acquire = b] \in Requests
                 /\ [request EXCEPT !.acquire = b].release = request.release
      BY <1>2 DEF Requests
    <2>2. (request.acquire /\ session # "AwaitingActive") \in BOOLEAN
      OBVIOUS
    <2>3. CASE request' = request
      BY <1>2, <2>3
    <2>4. CASE request' = [request EXCEPT !.acquire = request.acquire
                                                      /\ session # "AwaitingActive"]
      BY <2>1, <2>2, <2>4, Zenon
    <2>5. QED
      BY <1>1, <2>3, <2>4
  <1>5. session' \in {"Inactive", "Active", "Failed"} /\ ~Waiting'
    BY <1>1 DEF Waiting
  <1>6. TypeOK'
    BY <1>1, <1>2, <1>3, <1>4, <1>5, TypeStays DEF TypeOK
  <1>7. Linked'
    <2>1. 1 \in Answers /\ asked = None
      BY <1>1, <1>2, <1>3 DEF Answers, Linked
    <2>2. Answers' = {}
      <3>1. \A i \in Answers' : i + 1 \in Answers /\ i \in Nat \ {0}
        BY <1>3 DEF Answers
      <3>2. \A i, j \in Answers : i = j
        BY <1>1, <1>2 DEF Linked
      <3>3. QED
        BY <2>1, <3>1, <3>2
    <2>3. phase' = "Run" /\ session' = "Inactive" => ~producer.input
      BY <1>1, <1>2, <1>3 DEF Linked
    <2>4. \A i \in DOMAIN inbox' : inbox'[i].type = "commit" => inbox'[i].frame # 0
      BY <1>1, <1>2, <1>3 DEF Linked
    <2>5. ~(Len(inbox') > MaxInbox)
      BY <1>2, <1>3
    <2>6. \A i \in DOMAIN inbox' : inbox'[i].type # "ack"
      BY <2>2 DEF Answers
    <2>7. phase' = "Run" => session' \in {"Inactive", "Active"}
      BY <1>1
    <2>8. QED
      BY <1>1, <1>5, <2>1, <2>2, <2>3, <2>4, <2>5, <2>6, <2>7 DEF Linked, Running, None
  <1>8. Flipping' /\ Displayed'
    BY <1>1, <1>2, <1>5, FlipStays, DisplayStays DEF Running
  <1>9. Owned' /\ GivenBack'
    BY <1>1, <1>4, OwnerStays, BackStays
  <1>10. QED
    BY <1>6, <1>7, <1>8, <1>9 DEF Inductive

\* The turn passes on or the loop ends; the session may have failed.
LEMMA SessionCheckedInductive ==
    ASSUME Inductive, SessionChecked
    PROVE  Inductive'
  <1>1. /\ TypeOK /\ Linked /\ Flipping /\ Displayed /\ Owned /\ Turned /\ phase = "Run"
        /\ \/ phase' = "Restore" /\ session' = "Failed"
           \/ phase' = "Run" /\ session' = session
        /\ UNCHANGED <<request, signals, producer, inbox, asked, pending, expired, output,
                       suspended, presenter, held, kernel, tty, frames, switches, producers,
                       refused>>
    BY DEF SessionChecked, Goto, Stop, Turned, Inductive, TypeOK, comp, drm, machine, history
  <1>2. TypeOK'
    <2>1. /\ producer \in Producers /\ pending \in Presentations /\ request \in Requests
          /\ presenter \in Presenters /\ kernel \in Kernels /\ tty \in Terminals
      BY <1>1, Records
    <2>2. QED
      BY <1>1, <2>1, TypeStays DEF TypeOK
  <1>3. Linked' /\ Flipping' /\ Displayed'
    BY <1>1, LinkStays, FlipStays, DisplayStays DEF link, Running, Waiting, Linked
  <1>4. Owned' /\ GivenBack'
    BY <1>1, OwnerStays, BackStays
  <1>5. QED
    BY <1>2, <1>3, <1>4 DEF Inductive

LEMMA ProducerGoneInductive ==
    ASSUME Inductive, ProducerGone
    PROVE  Inductive'
  <1>1. /\ TypeOK /\ Linked /\ Flipping /\ Displayed /\ Owned /\ Turned /\ phase = "Run"
        /\ \/ phase' = "Restore" /\ UNCHANGED <<presenter, pending, output, link>>
           \/ Disconnect
        /\ UNCHANGED <<request, signals, expired, suspended, held, kernel, tty, frames,
                       switches, producers, refused>>
    BY DEF ProducerGone, Goto, Stop, Turned, Inductive, TypeOK, machine, history
  <1>2. CASE Disconnect
    BY <1>1, <1>2, DisconnectsInductive DEF Disconnect, Settled, TypeOK
  <1>3. CASE phase' = "Restore" /\ UNCHANGED <<presenter, pending, output, link>>
    <2>1. UNCHANGED <<producer, inbox, asked, session>>
      BY <1>3 DEF link
    <2>2. TypeOK'
      <3>1. /\ producer \in Producers /\ pending \in Presentations /\ request \in Requests
            /\ presenter \in Presenters /\ kernel \in Kernels /\ tty \in Terminals
        BY <1>1, Records
      <3>2. QED
        BY <1>1, <1>3, <2>1, <3>1, TypeStays DEF TypeOK
    <2>3. Linked' /\ Flipping' /\ Displayed'
      BY <1>1, <1>3, DisplayStays DEF Linked, Flipping, Running
    <2>4. Owned' /\ GivenBack'
      BY <1>1, <1>3, OwnerStays, BackStays
    <2>5. QED
      BY <2>2, <2>3, <2>4 DEF Inductive
  <1>4. QED
    BY <1>1, <1>2, <1>3

-----------------------------------------------------------------------------
(* The restore *)

\* What the restore does not touch, and what it keeps the types of.
LEMMA RestoreStays ==
    ASSUME Inductive, phase = "Restore", NEW n \in 1..8, step' = n + 1,
           exit' = exit \/ exit' = 1,
           UNCHANGED <<phase, turn, request, signals, link, comp, history>>,
           held' \subseteq Holdings, presenter' \in Presenters, kernel' \in Kernels,
           tty' \in Terminals
    PROVE  TypeOK' /\ Linked' /\ Flipping'
  <1>1. /\ TypeOK
        /\ UNCHANGED <<phase, turn, request, signals, producer, inbox, asked, session, pending,
                       expired, output, suspended, frames, switches, producers, refused>>
    BY DEF Inductive, link, comp, history
  <1>2. TypeOK'
    BY <1>1 DEF TypeOK, Presenters, Kernels, Terminals
  <1>3. Linked' /\ Flipping'
    BY <1>1 DEF Linked, Flipping, Running
  <1>4. QED
    BY <1>2, <1>3

LEMMA BeginShutdownInductive ==
    ASSUME Inductive, BeginShutdown
    PROVE  Inductive'
  <1>1. /\ TypeOK /\ Displayed /\ Owned /\ GivenBack
        /\ phase = "Restore" /\ phase' = "Restore" /\ step = 0 /\ step' = 1
        /\ presenter' = Abandon(presenter)
        /\ producer' = NoProducer /\ inbox' = << >> /\ asked' = None
        /\ session' = "Disabled" /\ pending' = NoFrame /\ expired' = {} /\ output' = 0
        /\ suspended' = FALSE /\ request' = [release |-> FALSE, acquire |-> FALSE]
        /\ signals' = {}
        /\ UNCHANGED <<turn, exit, held, kernel, tty, frames, switches, producers, refused>>
    BY DEF BeginShutdown, Inductive, machine, history
  <1>2. /\ presenter \in Presenters /\ 0 \in Frames /\ MaxInbox \in Nat
    BY <1>1, Records, CompositorAssumption DEF Frames
  <1>3. /\ producer' \in Producers /\ pending' \in Presentations
        /\ request' \in Requests /\ request'.release = FALSE
    BY <1>1, <1>2 DEF NoProducer, Producers, NoFrame, Presentations, Requests
  <1>4. inbox' \in Seq(Messages) /\ Len(inbox') <= MaxInbox + 1
    <2>1. inbox' = << >>
      BY <1>1
    <2>2. inbox' \in Seq(Messages) /\ Len(inbox') = 0
      BY <2>1
    <2>3. QED
      BY <1>2, <2>2
  <1>5. presenter' \in Presenters
    BY <1>1, <1>2, Abandoned
  <1>6. TypeOK'
    <2>1. /\ asked' \in {None, "Inactive", "Active"} /\ output' \in Frames
          /\ suspended' \in BOOLEAN /\ expired' \subseteq {"presentation", "session"}
          /\ signals' \subseteq {"stop", "release", "acquire"} /\ step' \in 0..9
          /\ session' \in {"Disabled", "Active", "AwaitingInactive", "Inactive",
                           "AwaitingActive", "Failed"}
      <3>1. /\ asked' = None /\ output' = 0 /\ suspended' = FALSE /\ expired' = {}
            /\ signals' = {} /\ step' = 1 /\ session' = "Disabled"
        BY <1>1
      <3>2. step' \in 0..9
        BY <3>1
      <3>3. QED
        BY <1>2, <3>1, <3>2, Zenon
    <2>2. /\ phase' = phase /\ turn' = turn /\ exit' = exit /\ held' = held
          /\ kernel' = kernel /\ tty' = tty /\ frames' = frames /\ switches' = switches
          /\ producers' = producers /\ refused' = refused
      BY <1>1
    <2>3. TypeOK
      BY <1>1
    <2>4. QED
      BY <2>1, <2>2, <2>3, <1>3, <1>4, <1>5
         DEF TypeOK, Producers, Presentations, Requests, Presenters
  <1>7. Linked' /\ Flipping' /\ Displayed'
    BY <1>1, <1>2, Abandoned DEF Linked, Flipping, Displayed, Running
  <1>8. Owned' /\ GivenBack'
    BY <1>1, <1>2, <1>3, Abandoned DEF Owned, GivenBack
  <1>9. QED
    BY <1>6, <1>7, <1>8 DEF Inductive

LEMMA RegainInductive ==
    ASSUME Inductive, Regain
    PROVE  Inductive'
  <1>1. /\ TypeOK /\ Displayed /\ Owned /\ GivenBack /\ phase = "Restore"
        /\ step = 1 /\ step' = 1 + 1
        /\ UNCHANGED <<phase, turn, request, signals, link, comp, history>>
        /\ UNCHANGED <<kernel, presenter>>
    BY DEF Regain, RestoreCall, RestoreSkip, Inductive, drm, machine
  <1>2. \/ /\ MustRegain /\ exit' = exit /\ held' = held \cup {"master"}
           /\ tty' = [tty EXCEPT !.active = "ours", !.master = TRUE]
        \/ MustRegain /\ exit' = 1 /\ UNCHANGED <<held, tty>>
        \/ ~MustRegain /\ UNCHANGED <<exit, held, tty>>
    BY DEF Regain, RestoreCall, RestoreSkip, drm, machine
  <1>3. /\ presenter' \in Presenters /\ kernel' \in Kernels /\ tty \in Terminals
        /\ held \subseteq Holdings /\ "master" \in Holdings
    BY <1>1, Records DEF TypeOK, Holdings
  <1>4. /\ tty' \in Terminals /\ held' \subseteq Holdings
        /\ \/ UNCHANGED <<held, tty>>
           \/ presenter.direct /\ tty'.master /\ held' = held \cup {"master"}
    <2>1. CASE UNCHANGED <<held, tty>>
      BY <1>3, <2>1
    <2>2. CASE /\ MustRegain /\ held' = held \cup {"master"}
               /\ tty' = [tty EXCEPT !.active = "ours", !.master = TRUE]
      BY <1>3, <2>2 DEF MustRegain, Terminals
    <2>3. QED
      BY <1>2, <2>1, <2>2
  <1>5. TypeOK' /\ Linked' /\ Flipping'
    BY <1>1, <1>2, <1>3, <1>4, RestoreStays
  <1>6. Displayed' /\ Owned'
    BY <1>1, <1>4, DisplayStays DEF Owned, Running, comp
  <1>7. GivenBack'
    <2>1. exit' = 0 /\ presenter.direct => exit = 0 /\ "master" \in held' /\ held \subseteq held'
      BY <1>1, <1>2 DEF MustRegain, GivenBack
    <2>2. step' = 2
      BY <1>1
    <2>3. QED
      BY <1>1, <2>1, <2>2 DEF GivenBack
  <1>8. QED
    BY <1>5, <1>6, <1>7 DEF Inductive

LEMMA RestoreDisplayInductive ==
    ASSUME Inductive, RestoreDisplay
    PROVE  Inductive'
  <1>1. /\ TypeOK /\ Displayed /\ Owned /\ GivenBack /\ phase = "Restore"
        /\ step = 2 /\ step' = 2 + 1
        /\ UNCHANGED <<phase, turn, request, signals, link, comp, history>>
        /\ UNCHANGED <<held, tty>>
    BY DEF RestoreDisplay, RestoreCall, RestoreSkip, Inductive, drm, machine
  <1>2. \/ /\ exit' = exit
           /\ kernel' = [kernel EXCEPT !.scanout = Original, !.flight = NoFlip]
           /\ presenter' = [presenter EXCEPT !.taken = FALSE]
        \/ exit' = 1 /\ UNCHANGED <<kernel, presenter>>
        \/ ~(MayRestore /\ presenter.taken) /\ UNCHANGED <<exit, kernel, presenter>>
    BY DEF RestoreDisplay, RestoreCall, RestoreSkip, drm, machine
  <1>3. /\ presenter \in Presenters /\ kernel \in Kernels /\ tty \in Terminals
        /\ held \subseteq Holdings
    BY <1>1, Records DEF TypeOK
  <1>4. /\ kernel' \in Kernels /\ presenter' \in Presenters
        /\ presenter'.direct = presenter.direct
        /\ \/ UNCHANGED <<kernel, presenter>>
           \/ /\ kernel'.scanout = Original /\ kernel'.flight = NoFlip
              /\ presenter'.taken = FALSE
    <2>1. CASE UNCHANGED <<kernel, presenter>>
      BY <1>3, <2>1
    <2>2. CASE /\ kernel' = [kernel EXCEPT !.scanout = Original, !.flight = NoFlip]
               /\ presenter' = [presenter EXCEPT !.taken = FALSE]
      BY <1>3, <2>2 DEF Kernels, Presenters
    <2>3. QED
      BY <1>2, <2>1, <2>2
  <1>5. TypeOK' /\ Linked' /\ Flipping'
    BY <1>1, <1>2, <1>3, <1>4, RestoreStays
  <1>6. Displayed' /\ Owned'
    BY <1>1, <1>4, DisplayStays
       DEF Displayed, Owned, Running, comp, Original, NoFlip, Buffers
  <1>7. GivenBack'
    <2>1. step' = 3 /\ (exit' = 0 => exit = 0)
      BY <1>1, <1>2
    <2>2. exit' = 0 => kernel'.scanout = Original /\ kernel'.flight = NoFlip
      <3>1. CASE UNCHANGED <<kernel, presenter>> /\ exit' = 0
        <4>1. \/ exit = 0 /\ ~(MayRestore /\ presenter.taken)
              \/ presenter.taken = FALSE
          BY <1>2, <1>3, <3>1 DEF Presenters
        <4>2. presenter.direct /\ exit = 0 => "master" \in held
          BY <1>1 DEF GivenBack
        <4>3. ~presenter.taken
          BY <4>1, <4>2 DEF MayRestore
        <4>4. kernel.scanout \notin Buffers /\ kernel.flight \notin Buffers
          BY <1>1, <4>3 DEF Displayed
        <4>5. QED
          BY <1>3, <3>1, <4>4 DEF Kernels
      <3>2. QED
        BY <1>4, <3>1
    <2>3. QED
      BY <1>1, <1>4, <2>1, <2>2 DEF GivenBack
  <1>8. QED
    BY <1>5, <1>6, <1>7 DEF Inductive

LEMMA ReleaseScanoutInductive ==
    ASSUME Inductive, ReleaseScanout
    PROVE  Inductive'
  <1>1. /\ TypeOK /\ Displayed /\ Owned /\ GivenBack /\ phase = "Restore"
        /\ step = 3 /\ step' = 3 + 1
        /\ UNCHANGED <<phase, turn, request, signals, link, comp, history>>
        /\ UNCHANGED <<held, kernel, tty>>
    BY DEF ReleaseScanout, RestoreCall, RestoreSkip, Inductive, drm, machine
  <1>2. /\ exit' = exit \/ exit' = 1
        /\ \/ presenter' = presenter
           \/ ~presenter.taken /\ presenter' = [presenter EXCEPT !.live = FALSE]
    BY DEF ReleaseScanout, RestoreCall, RestoreSkip, MayReleaseBuffers, drm
  <1>3. /\ presenter \in Presenters /\ kernel \in Kernels /\ tty \in Terminals
        /\ held \subseteq Holdings
    BY <1>1, Records DEF TypeOK
  <1>4. /\ presenter' \in Presenters /\ presenter'.direct = presenter.direct
        /\ presenter'.taken = presenter.taken
        /\ presenter.taken => presenter' = presenter
    BY <1>2, <1>3 DEF Presenters
  <1>5. TypeOK' /\ Linked' /\ Flipping'
    BY <1>1, <1>2, <1>3, <1>4, RestoreStays
  <1>6. Displayed' /\ Owned'
    BY <1>1, <1>4 DEF Displayed, Owned, Running, comp
  <1>7. GivenBack'
    BY <1>1, <1>2, <1>4 DEF GivenBack
  <1>8. QED
    BY <1>5, <1>6, <1>7 DEF Inductive

\* What a call that gives something back leaves of the terminal.
LEMMA GiveEffect ==
    ASSUME tty \in Terminals, NEW h \in Holdings, Give(h)
    PROVE  /\ tty' \in Terminals /\ tty'.saved = tty.saved
           /\ h = "master" => ~tty'.master
           /\ h # "master" => tty'.master = tty.master
           /\ tty'.kd = IF h = "graphics" THEN "text" ELSE tty.kd
           /\ tty'.mode = IF h = "process" THEN "auto" ELSE tty.mode
           /\ tty'.keyboard = IF h = "keyboard" THEN "on" ELSE tty.keyboard
           /\ tty'.active = IF h = "activated" THEN tty.saved ELSE tty.active
  BY DEF Terminals, Give, Holdings

LEMMA GiveBackInductive ==
    ASSUME Inductive, NEW n \in 4..8, GiveBack(n)
    PROVE  Inductive'
  <1> DEFINE h == <<"master", "graphics", "process", "keyboard", "activated">>[n - 3]
  <1>1. /\ TypeOK /\ Displayed /\ Owned /\ GivenBack /\ phase = "Restore"
        /\ step = n /\ step' = n + 1
        /\ UNCHANGED <<phase, turn, request, signals, link, comp, history>>
        /\ UNCHANGED <<kernel, presenter>>
    BY DEF GiveBack, RestoreCall, RestoreSkip, Inductive, drm, machine
  <1>2. \/ h \in held /\ exit' = exit /\ Give(h) /\ held' = held \ {h}
        \/ exit' = 1 /\ UNCHANGED <<held, tty>>
        \/ h \notin held /\ UNCHANGED <<exit, held, tty>>
    BY DEF GiveBack, RestoreCall, RestoreSkip, drm, machine
  <1>3. /\ n = 4 => h = "master"
        /\ n = 5 => h = "graphics"
        /\ n = 6 => h = "process"
        /\ n = 7 => h = "keyboard"
        /\ n = 8 => h = "activated"
    OBVIOUS
  <1>4. n = 4 \/ n = 5 \/ n = 6 \/ n = 7 \/ n = 8
    OBVIOUS
  <1> HIDE DEF h
  <1>5. /\ presenter' \in Presenters /\ kernel' \in Kernels /\ tty \in Terminals
        /\ held \subseteq Holdings /\ h \in Holdings
    BY <1>1, <1>3, <1>4, Records DEF TypeOK, Holdings
  <1>6. tty' \in Terminals /\ held' \subseteq Holdings
    BY <1>2, <1>5, GiveEffect
  <1>7. TypeOK' /\ Linked' /\ Flipping'
    BY <1>1, <1>2, <1>5, <1>6, RestoreStays
  <1>8. Displayed'
    BY <1>1, DisplayStays DEF Running
  <1>9. Owned'
    <2>1. CASE UNCHANGED <<held, tty>>
      BY <1>1, <2>1 DEF Owned, comp
    <2>2. CASE h \in held /\ Give(h) /\ held' = held \ {h}
      <3>1. presenter.direct
        BY <1>1, <2>2 DEF Owned
      <3>2. tty'.master <=> "master" \in held'
        BY <1>1, <1>5, <2>2, <3>1, GiveEffect DEF Owned
      <3>3. QED
        BY <1>1, <3>1, <3>2 DEF Owned
    <2>3. QED
      BY <1>2, <2>1, <2>2
  <1>10. GivenBack'
    <2>1. CASE exit' = 1
      BY <1>1, <2>1 DEF GivenBack
    <2>2. CASE UNCHANGED <<exit, held, tty>> /\ h \notin held
      BY <1>1, <1>3, <1>4, <2>2 DEF GivenBack
    <2>3. CASE exit' = exit /\ Give(h) /\ held' = held \ {h}
      <3>1. /\ tty'.saved = tty.saved
            /\ h = "master" => ~tty'.master
            /\ h # "master" => tty'.master = tty.master
            /\ tty'.kd = IF h = "graphics" THEN "text" ELSE tty.kd
            /\ tty'.mode = IF h = "process" THEN "auto" ELSE tty.mode
            /\ tty'.keyboard = IF h = "keyboard" THEN "on" ELSE tty.keyboard
            /\ tty'.active = IF h = "activated" THEN tty.saved ELSE tty.active
        BY <1>5, <2>3, GiveEffect
      <3>2. QED
        BY <1>1, <1>3, <1>4, <2>3, <3>1 DEF GivenBack
    <2>4. QED
      BY <1>2, <2>1, <2>2, <2>3
  <1>11. QED
    BY <1>7, <1>8, <1>9, <1>10 DEF Inductive

LEMMA RestoredInductive ==
    ASSUME Inductive, Restored
    PROVE  Inductive'
  <1>1. /\ TypeOK /\ Displayed /\ Owned /\ GivenBack
        /\ phase = "Restore" /\ step = 9 /\ phase' = "Done" /\ step' = 0
        /\ UNCHANGED <<turn, exit, request, signals, producer, inbox, asked, session, pending,
                       expired, output, suspended, presenter, held, kernel, tty, frames,
                       switches, producers, refused>>
    BY DEF Restored, Inductive, link, comp, drm, machine, history
  <1>2. TypeOK'
    BY <1>1 DEF TypeOK
  <1>3. Linked' /\ Flipping' /\ Displayed'
    BY <1>1, DisplayStays DEF Linked, Flipping, Running
  <1>4. Owned' /\ GivenBack'
    BY <1>1 DEF Owned, GivenBack
  <1>5. QED
    BY <1>2, <1>3, <1>4 DEF Inductive

-----------------------------------------------------------------------------
(* The kernel, the clock, the producer and the user *)

LEMMA OwnerKept ==
    ASSUME Owned, UNCHANGED <<phase, step, request, suspended, held, presenter>>,
           tty'.master = tty.master,
           "release" \in signals' => "release" \in signals \/ presenter.direct
    PROVE  Owned'
  BY DEF Owned, Holding

LEMMA BackKept ==
    ASSUME GivenBack, UNCHANGED <<phase, exit, step, presenter, held, kernel, tty>>
    PROVE  GivenBack'
  BY DEF GivenBack

LEMMA VblankInductive ==
    ASSUME Inductive, Vblank
    PROVE  Inductive'
  <1>1. /\ TypeOK /\ Linked /\ Flipping /\ Displayed /\ Owned /\ GivenBack
        /\ kernel.flight # NoFlip
        /\ kernel' = [kernel EXCEPT !.scanout = kernel.flight, !.flight = NoFlip,
                                    !.event = TRUE]
        /\ UNCHANGED <<phase, turn, step, exit, request, signals, producer, inbox, asked,
                       session, pending, expired, output, suspended, presenter, held, tty,
                       frames, switches, producers, refused>>
    BY DEF Vblank, Inductive, reactor, link, comp, drm, history
  <1>2. /\ kernel \in Kernels
    BY <1>1, Records
  <1>3. /\ kernel' \in Kernels /\ kernel.flight \in Buffers
        /\ kernel'.scanout = kernel.flight /\ kernel'.flight = NoFlip /\ kernel'.event = TRUE
        /\ kernel'.contents = kernel.contents
    BY <1>1, <1>2 DEF Kernels, Original, NoFlip, Buffers
  <1>4. TypeOK'
    BY <1>1, <1>3 DEF TypeOK, Kernels
  <1>5. Linked' /\ Owned'
    BY <1>1, LinkStays, OwnerKept DEF link, Running
  <1>6. Flipping'
    BY <1>1, <1>3 DEF Flipping, Running, Back, Waiting
  <1>7. Displayed' /\ GivenBack'
    BY <1>1, <1>3 DEF Displayed, GivenBack, Running
  <1>8. QED
    BY <1>4, <1>5, <1>6, <1>7 DEF Inductive

LEMMA DeadlinePassesInductive ==
    ASSUME Inductive, DeadlinePasses
    PROVE  Inductive'
  <1>1. /\ TypeOK /\ Linked /\ Flipping /\ Displayed /\ Owned /\ GivenBack
        /\ expired' \subseteq expired \cup {"presentation", "session"}
        /\ UNCHANGED <<phase, turn, step, exit, request, signals, producer, inbox, asked,
                       session, pending, output, suspended, presenter, held, kernel, tty,
                       frames, switches, producers, refused>>
    BY DEF DeadlinePasses, Inductive, reactor, link, drm, machine, history
  <1>2. TypeOK'
    BY <1>1 DEF TypeOK
  <1>3. Linked' /\ Flipping' /\ Displayed' /\ Owned' /\ GivenBack'
    BY <1>1, LinkStays, FlipStays, DisplayStays, OwnerKept, BackKept
       DEF link, Running, Waiting
  <1>4. QED
    BY <1>2, <1>3 DEF Inductive

\* The producer's own steps: it connects, sends, answers, leaves.
ProducerSteps == Connect \/ SendCommit \/ SendQuery \/ Obey \/ Refuse \/ Leave

\* None of them touches the display or the terminal.
LEMMA ProducerEffect ==
    ASSUME Inductive, ProducerSteps,
           producer' \in Producers, inbox' \in Seq(Messages), Len(inbox') <= MaxInbox + 1,
           asked' \in {None, "Inactive", "Active"}, frames' \in Frames,
           producers' \in 0..MaxProducers, Linked'
    PROVE  Inductive'
  <1>1. /\ TypeOK /\ Flipping /\ Displayed /\ Owned /\ GivenBack
        /\ UNCHANGED <<phase, turn, step, exit, request, signals, session, pending, expired,
                       output, suspended, presenter, held, kernel, tty, switches, refused>>
    BY DEF ProducerSteps, Connect, SendCommit, SendQuery, Obey, Refuse, Leave, Inductive,
           reactor, comp, drm, machine, history
  <1>2. TypeOK'
    BY <1>1 DEF TypeOK, Producers
  <1>3. Flipping' /\ Displayed' /\ Owned' /\ GivenBack'
    BY <1>1, FlipStays, DisplayStays, OwnerKept, BackKept DEF Running, Waiting
  <1>4. QED
    BY <1>2, <1>3 DEF Inductive

LEMMA ConnectInductive ==
    ASSUME Inductive, Connect
    PROVE  Inductive'
  <1>1. /\ TypeOK /\ Linked /\ Polling /\ producer.state = None
        /\ producers < MaxProducers /\ producers' = producers + 1
        /\ UNCHANGED <<phase, turn, inbox, asked, session, frames>>
    BY DEF Connect, Inductive, reactor
  <1>2. PICK coordinated \in BOOLEAN :
           producer' = [NoProducer EXCEPT !.state = "listening", !.open = TRUE,
                                          !.coordinated = coordinated, !.input = coordinated]
    BY DEF Connect
  <1>3. /\ producer' \in Producers /\ producer'.state = "listening"
        /\ producer'.input = coordinated /\ producer'.coordinated = coordinated
    BY <1>2 DEF Producers, NoProducer
  <1>4. inbox = << >> /\ asked = None /\ ~Waiting
    BY <1>1 DEF Linked, Running, Polling, None
  <1>5. Linked'
    BY <1>1, <1>3, <1>4, CompositorAssumption DEF Linked, Answers, Waiting, None
  <1>6. /\ inbox' \in Seq(Messages) /\ Len(inbox') <= MaxInbox + 1
        /\ asked' \in {None, "Inactive", "Active"} /\ frames' \in Frames
        /\ producers' \in 0..MaxProducers
    BY <1>1, CompositorAssumption DEF TypeOK
  <1>7. QED
    BY <1>3, <1>5, <1>6, ProducerEffect DEF ProducerSteps

\* A message that is no answer joins the queue.
LEMMA SentEffect ==
    ASSUME TypeOK, Linked, phase = "Run", producer.state = "valid",
           NEW m \in Messages, m.type \in {"commit", "query"},
           m.type = "commit" => m.frame # 0,
           Len(inbox) < MaxInbox, inbox' = Append(inbox, m),
           UNCHANGED <<phase, producer, asked, session>>
    PROVE  Linked' /\ inbox' \in Seq(Messages) /\ Len(inbox') <= MaxInbox + 1
  <1>1. inbox \in Seq(Messages) /\ MaxInbox \in Nat /\ Len(inbox) \in Nat
    BY CompositorAssumption DEF TypeOK
  <1>2. /\ inbox' \in Seq(Messages) /\ Len(inbox') = Len(inbox) + 1
        /\ \A i \in DOMAIN inbox' : \/ i \in DOMAIN inbox /\ inbox'[i] = inbox[i]
                                    \/ inbox'[i] = m
    BY <1>1, AppendOf
  <1>3. Running
    BY DEF Running
  <1>4. Answers' \subseteq Answers
    BY <1>2 DEF Answers
  <1>5. \A i \in DOMAIN inbox' :
          /\ inbox'[i].type = "ack" /\ session = "AwaitingInactive" => ~producer.input
          /\ inbox'[i].type = "commit" => inbox'[i].frame # 0
    BY <1>2, <1>3 DEF Linked
  <1>6. Len(inbox') <= MaxInbox
    BY <1>1, <1>2
  <1>7. Linked'
    BY <1>1, <1>2, <1>3, <1>4, <1>5, <1>6 DEF Linked, Waiting
  <1>8. QED
    BY <1>1, <1>2, <1>6, <1>7

LEMMA SendCommitInductive ==
    ASSUME Inductive, SendCommit
    PROVE  Inductive'
  <1>1. /\ TypeOK /\ Linked /\ phase = "Run" /\ producer.state = "valid"
        /\ Len(inbox) < MaxInbox /\ frames < MaxFrames /\ frames' = frames + 1
        /\ inbox' = Append(inbox, Commit(frames'))
        /\ UNCHANGED <<phase, turn, producer, asked, session, producers>>
    BY DEF SendCommit, Inductive, reactor, Polling
  <1>2. frames' \in Frames /\ frames' # 0
    BY <1>1, CompositorAssumption DEF TypeOK, Frames
  <1>3. /\ Commit(frames') \in Messages /\ Commit(frames').type = "commit"
        /\ Commit(frames').frame = frames'
    BY <1>2, MessageTypes DEF Commit
  <1>4. Linked' /\ inbox' \in Seq(Messages) /\ Len(inbox') <= MaxInbox + 1
    BY <1>1, <1>2, <1>3, SentEffect
  <1>5. /\ producer' \in Producers /\ asked' \in {None, "Inactive", "Active"}
        /\ producers' \in 0..MaxProducers
    BY <1>1, Records DEF TypeOK
  <1>6. QED
    BY <1>2, <1>4, <1>5, ProducerEffect DEF ProducerSteps

LEMMA SendQueryInductive ==
    ASSUME Inductive, SendQuery
    PROVE  Inductive'
  <1>1. /\ TypeOK /\ Linked /\ phase = "Run" /\ producer.state = "valid"
        /\ inbox = << >> /\ inbox' = Append(inbox, Query)
        /\ UNCHANGED <<phase, turn, producer, asked, session, frames, producers>>
    BY DEF SendQuery, Inductive, reactor, Polling, history
  <1>2. Query \in Messages /\ Query.type = "query"
    BY MessageTypes DEF Query
  <1>3. Len(inbox) < MaxInbox
    BY <1>1, CompositorAssumption
  <1>4. Linked' /\ inbox' \in Seq(Messages) /\ Len(inbox') <= MaxInbox + 1
    BY <1>1, <1>2, <1>3, SentEffect
  <1>5. /\ producer' \in Producers /\ asked' \in {None, "Inactive", "Active"}
        /\ frames' \in Frames /\ producers' \in 0..MaxProducers
    BY <1>1, Records DEF TypeOK
  <1>6. QED
    BY <1>4, <1>5, ProducerEffect DEF ProducerSteps

\* The answer to the request: there is no other on its way, and a producer
\* that agrees to become inactive has let go of its input devices.
LEMMA AnsweredEffect ==
    ASSUME TypeOK, Linked, phase = "Run", asked # None,
           NEW ok \in BOOLEAN, inbox' = Append(inbox, Ack(ok)), asked' = None,
           producer' \in Producers, producer'.state = producer.state,
           ok /\ session = "AwaitingInactive" => ~producer'.input,
           UNCHANGED <<phase, session>>
    PROVE  Linked' /\ inbox' \in Seq(Messages) /\ Len(inbox') <= MaxInbox + 1
  <1>1. inbox \in Seq(Messages) /\ MaxInbox \in Nat /\ Len(inbox) \in Nat
    BY CompositorAssumption DEF TypeOK
  <1>2. /\ Ack(ok) \in Messages /\ Ack(ok).type = IF ok THEN "ack" ELSE "nack"
    BY MessageTypes DEF Ack
  <1>3. /\ inbox' \in Seq(Messages) /\ Len(inbox') = Len(inbox) + 1
        /\ \A i \in DOMAIN inbox' : \/ i \in DOMAIN inbox /\ inbox'[i] = inbox[i]
                                    \/ i = Len(inbox) + 1 /\ inbox'[i] = Ack(ok)
    BY <1>1, <1>2, AppendOf
  <1>4. /\ Running /\ producer.state = "valid" /\ Waiting /\ Answers = {}
        /\ Len(inbox) <= MaxInbox
    BY <1>1 DEF Linked, Running, TypeOK, Waiting
  <1>5. Answers' \subseteq {Len(inbox) + 1}
    BY <1>3, <1>4 DEF Answers
  <1>6. \A i \in DOMAIN inbox' :
          /\ inbox'[i].type = "ack" /\ session = "AwaitingInactive" => ~producer'.input
          /\ inbox'[i].type = "commit" => inbox'[i].frame # 0
    <2>1. SUFFICES ASSUME NEW i \in DOMAIN inbox'
                   PROVE  /\ inbox'[i].type = "ack" /\ session = "AwaitingInactive"
                             => ~producer'.input
                          /\ inbox'[i].type = "commit" => inbox'[i].frame # 0
      OBVIOUS
    <2>2. CASE i \in DOMAIN inbox /\ inbox'[i] = inbox[i]
      <3>1. inbox[i].type # "ack"
        BY <1>4, <2>2 DEF Answers
      <3>2. QED
        BY <1>4, <2>2, <3>1 DEF Linked
    <2>3. CASE inbox'[i] = Ack(ok)
      BY <1>2, <2>3
    <2>4. QED
      BY <1>3, <2>2, <2>3
  <1>7. Linked'
    BY <1>1, <1>3, <1>4, <1>5, <1>6 DEF Linked, Waiting, None
  <1>8. QED
    BY <1>1, <1>3, <1>4, <1>7

LEMMA ObeyInductive ==
    ASSUME Inductive, Obey
    PROVE  Inductive'
  <1>1. /\ TypeOK /\ Linked /\ phase = "Run" /\ asked # None
        /\ producer' = [producer EXCEPT !.input = asked = "Active"]
        /\ inbox' = Append(inbox, Ack(TRUE)) /\ asked' = None
        /\ UNCHANGED <<phase, turn, session, frames, producers>>
    BY DEF Obey, Inductive, reactor, Polling, history
  <1>2. producer \in Producers /\ (asked = "Active") \in BOOLEAN
    BY <1>1, Records
  <1>3. /\ producer' \in Producers /\ producer'.state = producer.state
        /\ producer'.input = (asked = "Active")
    BY <1>1, <1>2 DEF Producers
  <1>4. session = "AwaitingInactive" => ~producer'.input
    BY <1>1, <1>3 DEF Linked, Running
  <1>5. Linked' /\ inbox' \in Seq(Messages) /\ Len(inbox') <= MaxInbox + 1
    BY <1>1, <1>3, <1>4, AnsweredEffect
  <1>6. /\ asked' \in {None, "Inactive", "Active"} /\ frames' \in Frames
        /\ producers' \in 0..MaxProducers
    BY <1>1 DEF TypeOK
  <1>7. QED
    BY <1>3, <1>5, <1>6, ProducerEffect DEF ProducerSteps

LEMMA RefuseInductive ==
    ASSUME Inductive, Refuse
    PROVE  Inductive'
  <1>1. /\ TypeOK /\ Linked /\ phase = "Run" /\ asked # None
        /\ inbox' = Append(inbox, Ack(FALSE)) /\ asked' = None
        /\ UNCHANGED <<phase, turn, session, producer, frames, producers>>
    BY DEF Refuse, Inductive, reactor, Polling, history
  <1>2. producer' \in Producers /\ producer'.state = producer.state
    BY <1>1, Records
  <1>3. Linked' /\ inbox' \in Seq(Messages) /\ Len(inbox') <= MaxInbox + 1
    BY <1>1, <1>2, AnsweredEffect
  <1>4. /\ asked' \in {None, "Inactive", "Active"} /\ frames' \in Frames
        /\ producers' \in 0..MaxProducers
    BY <1>1 DEF TypeOK
  <1>5. QED
    BY <1>2, <1>3, <1>4, ProducerEffect DEF ProducerSteps

LEMMA LeaveInductive ==
    ASSUME Inductive, Leave
    PROVE  Inductive'
  <1>1. /\ TypeOK /\ Linked
        /\ producer' = [producer EXCEPT !.open = FALSE, !.input = FALSE]
        /\ UNCHANGED <<phase, turn, inbox, session, asked, frames, producers>>
    BY DEF Leave, Inductive, reactor, Polling, history
  <1>2. producer \in Producers
    BY <1>1, Records
  <1>3. /\ producer' \in Producers /\ producer'.state = producer.state
        /\ producer'.input = FALSE
    BY <1>1, <1>2 DEF Producers
  <1>4. Linked'
    BY <1>1, <1>3 DEF Linked, Running, Answers, Waiting
  <1>5. /\ inbox' \in Seq(Messages) /\ Len(inbox') <= MaxInbox + 1
        /\ asked' \in {None, "Inactive", "Active"} /\ frames' \in Frames
        /\ producers' \in 0..MaxProducers
    BY <1>1 DEF TypeOK
  <1>6. QED
    BY <1>3, <1>4, <1>5, ProducerEffect DEF ProducerSteps

\* Only a direct session is asked to let the terminal go.
LEMMA UserInductive ==
    ASSUME Inductive, SwitchAway \/ SwitchBack \/ Terminate
    PROVE  Inductive'
  <1>1. /\ TypeOK /\ Linked /\ Flipping /\ Displayed /\ Owned /\ GivenBack /\ phase = "Run"
        /\ \/ tty' = [tty EXCEPT !.wait = "release"]
           \/ tty' = [tty EXCEPT !.active = "ours"]
           \/ tty' = tty
        /\ signals' \subseteq signals \cup {"release", "acquire", "stop"}
        /\ "release" \in signals' => "release" \in signals \/ presenter.direct
        /\ switches' \in 0..MaxSwitches
        /\ UNCHANGED <<phase, turn, step, exit, request, producer, inbox, asked, session,
                       pending, expired, output, suspended, presenter, held, kernel, frames,
                       producers, refused>>
    BY CompositorAssumption
       DEF SwitchAway, SwitchBack, Terminate, Polling, Inductive, TypeOK, reactor, link, comp,
           drm, machine, history
  <1>2. tty \in Terminals
    BY <1>1, Records
  <1>3. tty' \in Terminals /\ tty'.master = tty.master
    BY <1>1, <1>2 DEF Terminals
  <1>4. TypeOK'
    BY <1>1, <1>3 DEF TypeOK, Terminals
  <1>5. Linked' /\ Flipping' /\ Displayed' /\ Owned'
    BY <1>1, <1>3, LinkStays, FlipStays, DisplayStays, OwnerKept DEF link, Running, Waiting
  <1>6. GivenBack'
    BY <1>1 DEF GivenBack
  <1>7. QED
    BY <1>4, <1>5, <1>6 DEF Inductive

-----------------------------------------------------------------------------
(* Every step *)

LEMMA NextInductive ==
    ASSUME Inductive, [Next]_vars
    PROVE  Inductive'
  <1>1. CASE AcquireStep
    BY <1>1, AcquireStepInductive
  <1>2. CASE AcquireFails
    BY <1>2, AcquireFailsInductive
  <1>3. CASE UnwindStep
    BY <1>3, UnwindStepInductive
  <1>4. CASE InitializePipeline
    BY <1>4, InitializePipelineInductive
  <1>5. CASE Poll
    BY <1>5, PollInductive
  <1>6. CASE \/ PresentationIdle \/ NothingToRelease \/ NothingToResume \/ NoNewProducer
             \/ TurnEnds
    BY <1>6, IdleStepsInductive
  <1>7. CASE BufferReady
    BY <1>7, BufferReadyInductive
  <1>8. CASE FlipCompletes
    BY <1>8, FlipCompletesInductive
  <1>9. CASE PresentationFails
    BY <1>9, PresentationFailsInductive
  <1>10. CASE RequestInactive
    BY <1>10, RequestInactiveInductive
  <1>11. CASE Suspend
    BY <1>11, SuspendInductive
  <1>12. CASE SuspendFails \/ ResumeFails
    BY <1>12, TerminalFailsInductive
  <1>13. CASE ResumePresentation
    BY <1>13, ResumePresentationInductive
  <1>14. CASE Accept \/ Validate
    BY <1>14, AcceptInductive
  <1>15. CASE RejectProducer \/ (\E t \in {"Session", "Contract"} : RefuseQuery(t) \/ FailQuery(t))
    BY <1>15, GiveUpInductive
  <1>16. CASE \E t \in {"Session", "Contract"} : AnswerQuery(t) \/ DispatchCommit(t)
    BY <1>16, AnswerQueryInductive, DispatchCommitInductive
  <1>17. CASE SessionAnswered
    BY <1>17, SessionAnsweredInductive
  <1>18. CASE SessionChecked
    BY <1>18, SessionCheckedInductive
  <1>19. CASE ProducerGone
    BY <1>19, ProducerGoneInductive
  <1>20. CASE BeginShutdown
    BY <1>20, BeginShutdownInductive
  <1>21. CASE Regain
    BY <1>21, RegainInductive
  <1>22. CASE RestoreDisplay
    BY <1>22, RestoreDisplayInductive
  <1>23. CASE ReleaseScanout
    BY <1>23, ReleaseScanoutInductive
  <1>24. CASE \E n \in 4..8 : GiveBack(n)
    BY <1>24, GiveBackInductive
  <1>25. CASE Restored
    BY <1>25, RestoredInductive
  <1>26. CASE Vblank
    BY <1>26, VblankInductive
  <1>27. CASE DeadlinePasses
    BY <1>27, DeadlinePassesInductive
  <1>28. CASE Connect \/ SendCommit \/ SendQuery
    BY <1>28, ConnectInductive, SendCommitInductive, SendQueryInductive
  <1>29. CASE Obey \/ Refuse \/ Leave
    BY <1>29, ObeyInductive, RefuseInductive, LeaveInductive
  <1>30. CASE SwitchAway \/ SwitchBack \/ Terminate
    BY <1>30, UserInductive
  <1>31. CASE UNCHANGED vars
    BY <1>31 DEF Inductive, TypeOK, Linked, Flipping, Displayed, Owned, GivenBack, Running,
       Answers, Waiting, Back, vars, reactor, link, comp, drm, machine, history
  <1>32. QED
    BY <1>1, <1>2, <1>3, <1>4, <1>5, <1>6, <1>7, <1>8, <1>9, <1>10, <1>11, <1>12, <1>13,
       <1>14, <1>15, <1>16, <1>17, <1>18, <1>19, <1>20, <1>21, <1>22, <1>23, <1>24, <1>25,
       <1>26, <1>27, <1>28, <1>29, <1>30, <1>31 DEF Next, Process

-----------------------------------------------------------------------------
(* The theorems *)

\* The connection, the flip, the display, the terminal and the restore are
\* always as the parts of Inductive say.
THEOREM InductiveHolds == Spec => []Inductive
  <1>1. Init => Inductive
    BY InitInductive
  <1>2. Inductive /\ [Next]_vars => Inductive'
    BY NextInductive
  <1>3. QED
    BY <1>1, <1>2, PTL DEF Spec

\* The display scans out the frame the compositor has committed, or the one of
\* a flip that is done and not seen yet, through every suspend, resume,
\* disconnect and refused frame (presenter.cpp:320, presentation_completion.cpp:60).
THEOREM ScreenIsCommittedHolds == Spec => []ScreenIsCommitted
  <1>1. Inductive => ScreenIsCommitted
    <2>1. SUFFICES ASSUME Inductive, phase = "Run", output # 0,
                          presenter.cookie # "abandoned"
                   PROVE  /\ kernel.scanout \in Buffers
                          /\ kernel.contents[kernel.scanout] =
                                IF kernel.event THEN pending.frame ELSE output
                          /\ output = presenter.committed
      BY DEF ScreenIsCommitted, Inductive
    <2>2. /\ presenter \in Presenters /\ Flipping
      BY <2>1, Records DEF Inductive
    <2>3. /\ output = presenter.committed /\ presenter.committed # 0
          /\ kernel.contents[presenter.front] = presenter.committed
          /\ presenter.cookie = None => kernel.scanout = presenter.front /\ ~kernel.event
      BY <2>1, <2>2 DEF Flipping, Running
    <2>4. CASE presenter.cookie = None
      BY <2>2, <2>3, <2>4, TwoBuffers
    <2>5. CASE presenter.cookie = "armed"
      <3>1. /\ kernel.contents[Back] = pending.frame
            /\ \/ kernel.event /\ kernel.scanout = Back
               \/ ~kernel.event /\ kernel.scanout = presenter.front
        BY <2>1, <2>2, <2>5 DEF Flipping, Running
      <3>2. QED
        BY <2>2, <2>3, <3>1, TwoBuffers
    <2>6. QED
      BY <2>1, <2>2, <2>4, <2>5 DEF Presenters
  <1>2. QED
    BY <1>1, InductiveHolds, PTL

\* A process that ends with exit status 0 has given back the display, the
\* terminal, its modes and master; buffers are destroyed only when the display
\* no longer shows them (presenter.cpp:533, vt_session.cpp:195).
THEOREM RestoredAtExitHolds == Spec => []RestoredAtExit
  <1>1. Inductive => RestoredAtExit
    BY DEF Inductive, GivenBack, Displayed, RestoredAtExit
  <1>2. QED
    BY <1>1, InductiveHolds, PTL

-----------------------------------------------------------------------------
(* What is drawn, and who drives the display *)

LEMMA DrawnAt ==
    ASSUME kernel \in Kernels, NEW b \in Buffers, NEW f \in Frames,
           kernel'.contents = CopyTo(b, f).contents,
           b \notin {kernel.scanout, kernel.flight} \/ presenter.cookie = "abandoned"
    PROVE  DrawsOnIdleBuffers
  BY Copied DEF DrawsOnIdleBuffers

\* A frame goes to a buffer that is not scanned out: the front one before the
\* first modeset, the back one while no flip is armed.
LEMMA TransactionDraws ==
    ASSUME Inductive, phase = "Run", pending.kind # "flip",
           NEW f \in Frames, NEW next, Transaction(f, next)
    PROVE  DrawsOnIdleBuffers
  <1>1. presenter \in Presenters /\ kernel \in Kernels
    BY Records DEF Inductive
  <1>2. /\ presenter.cookie = None \/ presenter.cookie = "abandoned"
        /\ presenter.committed = 0 => kernel.scanout = Original /\ kernel.flight = NoFlip
        /\ presenter.committed # 0 /\ presenter.cookie = None =>
              kernel.scanout = presenter.front /\ kernel.flight = NoFlip
    BY <1>1 DEF Inductive, Flipping, Running, Presenters, None
  <1>3. /\ presenter.committed = 0 => presenter.front \notin {kernel.scanout, kernel.flight}
        /\ presenter.committed # 0 =>
              Back \notin {kernel.scanout, kernel.flight} \/ presenter.cookie = "abandoned"
    BY <1>1, <1>2, TwoBuffers
  <1>4. ASSUME NEW b \in Buffers, kernel' = [CopyTo(b, f) EXCEPT !.scanout = b]
        PROVE  kernel'.contents = CopyTo(b, f).contents
    <2>1. CopyTo(b, f) \in Kernels
      BY <1>1, Copied
    <2>2. QED
      BY <1>4, <2>1 DEF Kernels
  <1>5. CASE UNCHANGED kernel
    BY <1>5 DEF DrawsOnIdleBuffers
  <1>6. CASE PresentInitial(f)
    BY <1>1, <1>3, <1>4, <1>6, DrawnAt, TwoBuffers DEF PresentInitial
  <1>7. CASE PresentFlip(f)
    <2>1. CopyTo(Back, f) \in Kernels
      BY <1>1, Copied, TwoBuffers
    <2>2. kernel'.contents = CopyTo(Back, f).contents
      BY <1>7, <2>1 DEF PresentFlip, Kernels
    <2>3. QED
      BY <1>1, <1>3, <1>7, <2>2, DrawnAt, TwoBuffers DEF PresentFlip
  <1>8. CASE PresentRejected(f)
    BY <1>1, <1>3, <1>5, <1>8, DrawnAt, TwoBuffers DEF PresentRejected
  <1>9. CASE PromoteWithoutFrame
    BY <1>5, <1>9 DEF PromoteWithoutFrame
  <1>10. CASE PresentFatal(f)
    BY <1>1, <1>3, <1>4, <1>5, <1>10, DrawnAt, TwoBuffers DEF PresentFatal
  <1>11. QED
    BY <1>6, <1>7, <1>8, <1>9, <1>10 DEF Transaction

\* A transaction leaves the terminal alone and runs as master.
LEMMA TransactionSafe ==
    ASSUME Inductive, phase = "Run", ~suspended, pending.kind # "flip",
           NEW f \in Frames, NEW next, Transaction(f, next), UNCHANGED tty
    PROVE  DrawsOnIdleBuffers /\ HandsOverClean
  <1>1. tty.master
    BY DEF Inductive, Owned
  <1>2. QED
    BY <1>1, TransactionDraws DEF HandsOverClean

LEMMA ResumeSafe ==
    ASSUME Inductive, ResumePresentation
    PROVE  DrawsOnIdleBuffers /\ HandsOverClean
  <1>1. /\ presenter \in Presenters /\ kernel \in Kernels /\ tty \in Terminals
    BY Records DEF Inductive
  <1>2. /\ phase = "Run" /\ suspended /\ presenter.committed # 0
        /\ tty' = [tty EXCEPT !.master = TRUE]
        /\ kernel' = [CopyTo(Back, presenter.committed) EXCEPT !.scanout = Back]
    BY DEF ResumePresentation, MayResume, Resumable, Reacquire, ShowCommitted
  <1>3. tty'.active = tty.active /\ tty'.master = TRUE
    BY <1>1, <1>2 DEF Terminals
  <1>4. presenter.committed \in Frames /\ CopyTo(Back, presenter.committed) \in Kernels
    BY <1>1, Copied, TwoBuffers DEF Presenters
  <1>5. kernel'.contents = CopyTo(Back, presenter.committed).contents
    BY <1>2, <1>4 DEF Kernels
  <1>6. presenter.cookie = None =>
           kernel.scanout = presenter.front /\ kernel.flight = NoFlip
    BY <1>2 DEF Inductive, Flipping, Running, None
  <1>7. presenter.cookie # "armed"
    BY <1>2 DEF Inductive, Flipping, Running, None
  <1>8. DrawsOnIdleBuffers
    BY <1>1, <1>4, <1>5, <1>6, <1>7, DrawnAt, TwoBuffers DEF Presenters
  <1>9. QED
    BY <1>3, <1>8 DEF HandsOverClean

\* The one step that hands the terminal over.
LEMMA SuspendSafe ==
    ASSUME Inductive, Suspend
    PROVE  DrawsOnIdleBuffers /\ HandsOverClean
  <1>1. /\ tty \in Terminals /\ Linked /\ kernel' = kernel /\ producer' = producer
        /\ phase = "Run" /\ session \in {"Disabled", "Inactive"}
        /\ tty' = [tty EXCEPT !.master = FALSE, !.wait = None,
                              !.active = IF tty.wait = "release" THEN "other" ELSE tty.active]
    BY Records DEF Suspend, MaySuspend, Enabled, ReleaseTerminal, Inductive, link
  <1>2. ~(producer.state = "valid" /\ producer.input)
    BY <1>1 DEF Linked, Running
  <1>3. tty'.master = FALSE
    BY <1>1 DEF Terminals
  <1>4. QED
    BY <1>1, <1>2, <1>3 DEF DrawsOnIdleBuffers, HandsOverClean

\* The display is given back by its master.
LEMMA RestoreDisplaySafe ==
    ASSUME Inductive, RestoreDisplay
    PROVE  DrawsOnIdleBuffers /\ HandsOverClean
  <1>1. /\ kernel \in Kernels /\ Owned /\ tty' = tty /\ phase = "Restore"
        /\ \/ kernel' = kernel
           \/ /\ MayRestore
              /\ kernel' = [kernel EXCEPT !.scanout = Original, !.flight = NoFlip]
    BY Records DEF RestoreDisplay, RestoreCall, RestoreSkip, Inductive, drm, machine
  <1>2. kernel'.contents = kernel.contents
    BY <1>1 DEF Kernels
  <1>3. MayRestore => tty.master
    BY <1>1 DEF MayRestore, Owned
  <1>4. QED
    BY <1>1, <1>2, <1>3 DEF DrawsOnIdleBuffers, HandsOverClean

\* No other step draws, drives the display or lets the terminal go while the
\* process runs.
Quiet ==
    /\ kernel'.contents = kernel.contents
    /\ \/ kernel'.scanout = kernel.scanout /\ kernel'.flight = kernel.flight
       \/ kernel.flight # NoFlip /\ kernel'.flight = NoFlip
    /\ phase = "Run" => tty'.active = tty.active \/ tty'.active = "ours"

LEMMA QuietSafe ==
    ASSUME Quiet
    PROVE  DrawsOnIdleBuffers /\ HandsOverClean
  BY DEF Quiet, DrawsOnIdleBuffers, HandsOverClean

LEMMA StepsAreSafe ==
    ASSUME Inductive, [Next]_vars
    PROVE  [DrawsOnIdleBuffers /\ HandsOverClean]_vars
  <1>1. kernel \in Kernels /\ tty \in Terminals
    BY Records DEF Inductive
  <1>2. ASSUME phase # "Run", UNCHANGED kernel
        PROVE  Quiet
    BY <1>2 DEF Quiet
  <1>3. CASE \/ AcquireStep \/ AcquireFails \/ UnwindStep \/ InitializePipeline
             \/ BeginShutdown \/ Regain \/ ReleaseScanout \/ (\E n \in 4..8 : GiveBack(n))
             \/ Restored
    BY <1>2, <1>3, QuietSafe
       DEF AcquireStep, AcquireFails, UnwindStep, InitializePipeline, BeginShutdown, Regain,
           ReleaseScanout, GiveBack, Restored, RestoreCall, RestoreSkip, drm, machine
  <1>4. ASSUME UNCHANGED <<kernel, tty>>
        PROVE  Quiet
    BY <1>4 DEF Quiet
  <1>5. CASE \/ Poll \/ PresentationIdle \/ PresentationFails \/ RequestInactive
             \/ NothingToRelease \/ NothingToResume \/ Accept \/ Validate \/ RejectProducer
             \/ NoNewProducer \/ SessionAnswered \/ SessionChecked \/ ProducerGone \/ TurnEnds
             \/ (\E t \in {"Session", "Contract"} :
                    AnswerQuery(t) \/ RefuseQuery(t) \/ FailQuery(t))
    BY <1>4, <1>5, QuietSafe
       DEF Poll, PresentationIdle, PresentationFails, RequestInactive, NothingToRelease,
           NothingToResume, Accept, Validate, RejectProducer, NoNewProducer, SessionAnswered,
           SessionChecked, ProducerGone, TurnEnds, AnswerQuery, RefuseQuery, FailQuery, machine
  <1>6. CASE \/ DeadlinePasses \/ Connect \/ SendCommit \/ SendQuery \/ Obey \/ Refuse \/ Leave
             \/ Terminate
    BY <1>4, <1>6, QuietSafe
       DEF DeadlinePasses, Connect, SendCommit, SendQuery, Obey, Refuse, Leave, Terminate, machine
  <1>7. CASE BufferReady
    <2>1. pending.frame \in Frames /\ ~suspended
      BY <1>7, Records DEF BufferReady, Inductive, Presentations, Flipping, Running, None
    <2>2. QED
      BY <1>7, <2>1, TransactionSafe DEF BufferReady
  <1>8. CASE \E t \in {"Session", "Contract"} : DispatchCommit(t)
    <2>1. PICK t \in {"Session", "Contract"} : DispatchCommit(t)
      BY <1>8
    <2>2. /\ inbox \in Seq(Messages) /\ inbox # << >> /\ phase = "Run" /\ ~suspended
          /\ tty' = tty /\ CommitFrame(Head(inbox).frame, t)
      BY <2>1 DEF DispatchCommit, Receiving, Inductive, TypeOK, Flipping, Running
    <2>3. Head(inbox) \in Messages
      BY <2>2, TailOf
    <2>4. Head(inbox).frame \in Frames
      BY <2>3 DEF Messages
    <2>5. CASE UNCHANGED kernel
      BY <1>4, <2>2, <2>5, QuietSafe
    <2>6. CASE ~Pending /\ Transaction(Head(inbox).frame, t)
      BY <2>2, <2>4, <2>6, TransactionSafe DEF Pending, None
    <2>7. QED
      BY <2>2, <2>5, <2>6 DEF CommitFrame
  <1>9. CASE FlipCompletes
    BY <1>1, <1>9, QuietSafe DEF FlipCompletes, FlipEvent, Kernels, Quiet
  <1>10. CASE SuspendFails \/ ResumeFails
    <2>1. UNCHANGED kernel /\ tty'.active = tty.active
      BY <1>1, <1>10 DEF SuspendFails, ResumeFails, Terminals
    <2>2. QED
      BY <2>1, QuietSafe DEF Quiet
  <1>11. CASE Vblank
    BY <1>1, <1>11, QuietSafe DEF Vblank, Kernels, Quiet
  <1>12. CASE SwitchAway \/ SwitchBack
    <2>1. UNCHANGED kernel /\ (tty'.active = tty.active \/ tty'.active = "ours")
      BY <1>1, <1>12 DEF SwitchAway, SwitchBack, Terminals
    <2>2. QED
      BY <2>1, QuietSafe DEF Quiet
  <1>13. QED
    BY <1>3, <1>5, <1>6, <1>7, <1>8, <1>9, <1>10, <1>11, <1>12, SuspendSafe, ResumeSafe,
       RestoreDisplaySafe DEF Next, Process

\* No frame is drawn into a buffer the display scans out or is about to, unless
\* a flip was abandoned; the terminal is handed over with master dropped and
\* the coordinated input devices suspended; only the master drives the display
\* (presenter.cpp:210, 478, runtime_reactor.cpp:167, vt_session.cpp:139).
THEOREM NeverTearsOrTrespassesHolds == Spec => NeverTearsOrTrespasses
  <1>1. Inductive /\ [Next]_vars => [DrawsOnIdleBuffers /\ HandsOverClean]_vars
    BY StepsAreSafe
  <1>2. QED
    BY <1>1, InductiveHolds, PTL DEF Spec, NeverTearsOrTrespasses
=============================================================================
