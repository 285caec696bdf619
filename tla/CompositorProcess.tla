------------------------- MODULE CompositorProcess -------------------------
(***************************************************************************)
(* gwcomp on a DRM device: the reactor (gwcomp/runtime_reactor.cpp), the   *)
(* presentation transaction (presentation_*.cpp, buffer_readiness.cpp),    *)
(* the DRM presenter (backends/drm) and the virtual terminal session       *)
(* (backends/session/vt_session.cpp), with the kernel's display and        *)
(* virtual terminal, a producer and a user who switches terminals.         *)
(*                                                                         *)
(* One reactor turn is a chain of services, each one action or one action  *)
(* per message.  The services look only at what poll has reported, so the  *)
(* kernel, the producer and the user move while the reactor is in poll:    *)
(* what they do later in the turn is seen in the next one.                 *)
(* Pixels are frame numbers, 0 for none.  What a frame holds and how its   *)
(* buffers are attached and released is the matter of ContentPublication.  *)
(* A system call may fail at any step; a deadline may pass at any time.    *)
(***************************************************************************)
EXTENDS Naturals, Sequences, FiniteSets

CONSTANTS
    MaxFrames,       \* bound on the frames the producers commit
    MaxSwitches,     \* bound on the user's switches away from the terminal
    MaxProducers,    \* bound on the producers that connect
    MaxInbox         \* bound on the messages a producer has in flight

ASSUME CompositorAssumption ==
    /\ MaxFrames \in Nat /\ MaxSwitches \in Nat
    /\ MaxProducers \in Nat /\ MaxInbox \in Nat \ {0}

VARIABLES
    phase,           \* Acquire, Unwind, Run, Restore, Done
    turn,            \* the service the reactor is at
    step,            \* the step of the other phases
    exit,            \* exit status
    request,         \* vt_release_requested_, vt_acquire_requested_
    signals,         \* tags in the signal pipe
    \* the producer and its connection
    producer, inbox, asked, session,
    \* gw::compositor::Compositor
    pending, expired, output, suspended,
    \* DrmPresenter and DirectVirtualTerminalSession
    presenter, held,
    \* the kernel
    kernel, tty,
    \* bounds and history
    frames, switches, producers, refused

reactor == <<phase, turn, step, exit, request>>
link == <<producer, inbox, asked, session>>
comp == <<pending, expired, output, suspended>>
drm == <<presenter, held>>
machine == <<kernel, tty>>
history == <<frames, switches, producers, refused>>
vars == <<reactor, signals, link, comp, drm, machine, history>>

-----------------------------------------------------------------------------
(* States *)

None == "none"
Frames == 0..MaxFrames
Buffers == {0, 1}

\* The display scans out what was there before; no flip is in flight.
Original == 2
NoFlip == 2

Commit(f) == [type |-> "commit", frame |-> f]
Query == [type |-> "query", frame |-> 0]
Ack(ok) == [type |-> IF ok THEN "ack" ELSE "nack", frame |-> 0]
Messages == [type : {"commit", "query", "ack", "nack"}, frame : Frames]

\* What the direct session takes, in the order of acquire.
Holdings == {"activated", "keyboard", "process", "graphics", "master"}

NoProducer == [state |-> None, open |-> FALSE, hup |-> FALSE,
               coordinated |-> FALSE, input |-> FALSE]
NoFrame == [kind |-> None, frame |-> 0]

\* presentation_pending, SessionStateCoordinator::waiting and enabled
Pending == pending.kind # None
Waiting == session \in {"AwaitingInactive", "AwaitingActive"}
Enabled == session # "Disabled"

Back == 1 - presenter.front

TypeOK ==
    /\ phase \in {"Acquire", "Unwind", "Run", "Restore", "Done"}
    /\ step \in 0..9
    /\ turn \in {"Poll", "Presentation", "Release", "Resume",
                "Producer", "Session", "Contract"}
    /\ exit \in {0, 1}
    /\ request \in [release : BOOLEAN, acquire : BOOLEAN]
    /\ signals \subseteq {"stop", "release", "acquire"}
    /\ producer \in [state : {None, "listening", "fresh", "valid"},
                     open : BOOLEAN, hup : BOOLEAN,
                     coordinated : BOOLEAN, input : BOOLEAN]
    /\ inbox \in Seq(Messages) /\ Len(inbox) <= MaxInbox + 1
    /\ asked \in {None, "Inactive", "Active"}
    /\ session \in {"Disabled", "Active", "AwaitingInactive", "Inactive",
                    "AwaitingActive", "Failed"}
    /\ pending \in [kind : {None, "readiness", "flip"}, frame : Frames]
    /\ expired \subseteq {"presentation", "session"}
    /\ output \in Frames
    /\ suspended \in BOOLEAN
    /\ presenter \in [direct : BOOLEAN, front : Buffers, committed : Frames,
                      taken : BOOLEAN, cookie : {None, "armed", "abandoned"},
                      live : BOOLEAN]
    /\ held \subseteq Holdings
    /\ kernel \in [scanout : Buffers \cup {Original},
                   flight : Buffers \cup {NoFlip}, event : BOOLEAN,
                   contents : [Buffers -> Frames]]
    /\ tty \in [active : {"ours", "other"}, saved : {"ours", "other"},
                wait : {None, "release"}, keyboard : {"on", "off"},
                mode : {"auto", "process"}, kd : {"text", "graphics"},
                master : BOOLEAN]
    /\ frames \in Frames /\ switches \in 0..MaxSwitches
    /\ producers \in 0..MaxProducers
    /\ refused \in BOOLEAN

\* An external session hands over a device that is master already, and no tty.
Init ==
    /\ \E direct \in BOOLEAN, saved \in {"ours", "other"} :
         /\ presenter = [direct |-> direct, front |-> 0, committed |-> 0,
                         taken |-> FALSE, cookie |-> None, live |-> FALSE]
         /\ tty = [active |-> saved, saved |-> saved, wait |-> None,
                   keyboard |-> "on", mode |-> "auto", kd |-> "text",
                   master |-> ~direct]
         /\ direct \/ saved = "ours"
         /\ step = IF direct THEN 1 ELSE 6
    /\ phase = "Acquire" /\ turn = "Poll" /\ exit = 0
    /\ request = [release |-> FALSE, acquire |-> FALSE]
    /\ signals = {}
    /\ producer = NoProducer /\ inbox = << >> /\ asked = None
    /\ session = "Disabled"
    /\ pending = NoFrame /\ expired = {} /\ output = 0 /\ suspended = FALSE
    /\ held = {}
    /\ kernel = [scanout |-> Original, flight |-> NoFlip, event |-> FALSE,
                 contents |-> [b \in Buffers |-> 0]]
    /\ frames = 0 /\ switches = 0 /\ producers = 0 /\ refused = FALSE

-----------------------------------------------------------------------------
(* DirectVirtualTerminalSession::acquire and DrmPresenter::initialize *)

Holding(n) == <<"activated", "keyboard", "process", "graphics", "master">>[n]

\* The system call that takes or gives back one holding.
Take(h) ==
    tty' = CASE h = "activated" -> [tty EXCEPT !.active = "ours"]
             [] h = "keyboard" -> [tty EXCEPT !.keyboard = "off"]
             [] h = "process" -> [tty EXCEPT !.mode = "process"]
             [] h = "graphics" -> [tty EXCEPT !.kd = "graphics"]
             [] h = "master" -> [tty EXCEPT !.master = TRUE]

\* VT_SETMODE also drops a switch the kernel is waiting to be allowed.
Give(h) ==
    tty' = CASE h = "activated" -> [tty EXCEPT !.active = tty.saved]
             [] h = "keyboard" -> [tty EXCEPT !.keyboard = "on"]
             [] h = "process" -> [tty EXCEPT !.mode = "auto", !.wait = None]
             [] h = "graphics" -> [tty EXCEPT !.kd = "text"]
             [] h = "master" -> [tty EXCEPT !.master = FALSE]

\* One step of acquire: every later failure gives back what is held.
AcquireStep ==
    /\ phase = "Acquire" /\ step \in 1..5
    /\ Take(Holding(step))
    /\ held' = held \cup {Holding(step)}
    /\ step' = step + 1
    /\ UNCHANGED <<phase, turn, exit, request, signals, link, comp, presenter,
                   kernel, history>>

\* The terminal may have been activated although waiting for it failed.
AcquireFails ==
    /\ phase = "Acquire" /\ step \in 1..5
    /\ phase' = "Unwind" /\ step' = 5 /\ exit' = 1
    /\ \/ UNCHANGED <<tty, held>>
       \/ step = 1 /\ Take("activated") /\ held' = {"activated"}
    /\ UNCHANGED <<turn, request, signals, link, comp, presenter, kernel, history>>

\* unwind_failed_acquire: the flag is cleared whether or not the call worked,
\* and presenter shutdown then finds nothing more to restore.
UnwindStep ==
    /\ phase = "Unwind" /\ step \in 1..5
    /\ \/ Holding(step) \in held /\ Give(Holding(step))
       \/ UNCHANGED tty
    /\ held' = held \ {Holding(step)}
    /\ step' = step - 1
    /\ phase' = IF step = 1 THEN "Done" ELSE phase
    /\ UNCHANGED <<turn, exit, request, signals, link, comp, presenter, kernel,
                   history>>

\* The buffer pair and the pipeline; a failure ends in shutdown.
InitializePipeline ==
    /\ phase = "Acquire" /\ step = 6
    /\ \/ /\ phase' = "Run" /\ step' = 0
          /\ presenter' = [presenter EXCEPT !.live = TRUE]
          /\ UNCHANGED exit
       \/ /\ phase' = "Restore" /\ step' = 0 /\ exit' = 1
          /\ UNCHANGED presenter
    /\ UNCHANGED <<turn, request, signals, link, comp, held, machine, history>>

-----------------------------------------------------------------------------
(* The end of the reactor *)

\* stopping_: the loop ends and shutdown_presentation begins.
Stop(status) ==
    /\ phase' = "Restore" /\ step' = 0 /\ turn' = "Poll"
    /\ exit' = status

Goto(t) == turn' = t /\ UNCHANGED <<phase, step, exit>>

\* DrmPresenter::clear_pending keeps the callback for the late event.
Abandon(p) == [p EXCEPT !.cookie = IF @ = "armed" THEN "abandoned" ELSE @]

\* Compositor::disconnect, and the connection given up.
GiveUp ==
    /\ presenter' = Abandon(presenter)
    /\ pending' = NoFrame
    /\ output' = 0
    /\ producer' = NoProducer
    /\ inbox' = << >>
    /\ asked' = None

\* The session coordinator hears of it, unless the producer was never
\* validated (SessionStateCoordinator::peer_disconnected).
Disconnect ==
    /\ GiveUp
    /\ session' = IF Waiting THEN "Failed" ELSE "Disabled"

-----------------------------------------------------------------------------
(* poll and the signals *)

Poll ==
    /\ phase = "Run" /\ turn = "Poll"
    /\ signals' = {}
    /\ producer' = [producer EXCEPT !.hup = ~producer.open /\ producer.state \in {"fresh", "valid"}]
    /\ IF "stop" \in signals
       THEN Stop(exit) /\ UNCHANGED request
       ELSE /\ Goto("Presentation")
            /\ request' = [release |-> request.release \/ "release" \in signals,
                           acquire |-> request.acquire \/ "acquire" \in signals]
    /\ UNCHANGED <<inbox, asked, session, comp, drm, machine, history>>
-----------------------------------------------------------------------------
(* A frame commit: PresentationTransaction::commit down to the device *)

\* copy_frame_to: whatever the damage history lets it copy, the hash of the
\* target is compared and a full copy made when it differs.
CopyTo(b, f) == [kernel EXCEPT !.contents[b] = f]

\* present_initial: the front buffer and a blocking modeset.
PresentInitial(f) ==
    /\ presenter.committed = 0
    /\ kernel' = [CopyTo(presenter.front, f) EXCEPT !.scanout = presenter.front]
    /\ presenter' = [presenter EXCEPT !.committed = f, !.taken = TRUE]
    /\ output' = f
    /\ pending' = NoFrame

\* Mutant of PresentFlip: the frame is copied into the front buffer.
PresentFlipFront(f) ==
    /\ presenter.committed # 0 /\ presenter.cookie = None
    /\ kernel' = [CopyTo(presenter.front, f) EXCEPT !.flight = Back]
    /\ presenter' = [presenter EXCEPT !.cookie = "armed"]
    /\ pending' = [kind |-> "flip", frame |-> f]
    /\ UNCHANGED output

\* present_flip: the back buffer, a page flip and its event.
PresentFlip(f) ==
    /\ presenter.committed # 0 /\ presenter.cookie = None
    /\ kernel' = [CopyTo(Back, f) EXCEPT !.flight = Back]
    /\ presenter' = [presenter EXCEPT !.cookie = "armed"]
    /\ pending' = [kind |-> "flip", frame |-> f]
    /\ UNCHANGED output

\* The scene, its attachments or the renderer refuse the frame, or the device
\* does, by then with the frame in the buffer: evidence that cannot be staged,
\* a flip that is still armed, a submission that fails.
PresentRejected(f) ==
    /\ \/ UNCHANGED kernel
       \/ kernel' = CopyTo(IF presenter.committed = 0 THEN presenter.front
                           ELSE Back, f)
    /\ pending' = NoFrame
    /\ UNCHANGED <<presenter, output>>

\* promote_disabled_output and promote_metadata_only: accepted without a
\* frame; the device is not told.
PromoteWithoutFrame ==
    /\ output' = 0
    /\ pending' = NoFrame
    /\ UNCHANGED <<kernel, presenter>>

\* The modeset or what has to be recorded of it fails.
PresentFatal(f) ==
    /\ \/ UNCHANGED <<kernel, presenter>>
       \/ /\ presenter.committed = 0
          /\ kernel' = [CopyTo(presenter.front, f)
                          EXCEPT !.scanout = presenter.front]
          /\ presenter' = [presenter EXCEPT !.taken = TRUE]
    /\ pending' = NoFrame
    /\ UNCHANGED output

\* The producer is answered, or the reply left to the completion; next is the
\* service that follows.
Transaction(f, next) ==
    /\ \/ /\ \/ PresentInitial(f)
             \/ PresentFlip(f)
             \/ PresentRejected(f)
             \/ PromoteWithoutFrame
          /\ Goto(next)
       \/ PresentFatal(f) /\ Stop(1)
    /\ expired' = expired \ {"presentation"}

\* Compositor::commit: a pending presentation is not overtaken; a buffer
\* whose eventfd is not signalled yet makes the commit wait.
CommitFrame(f, next) ==
    \/ /\ Pending
       /\ Goto(next)
       /\ UNCHANGED <<presenter, kernel, pending, expired, output>>
    \/ /\ ~Pending
       /\ pending' = [kind |-> "readiness", frame |-> f]
       /\ expired' = expired \ {"presentation"}
       /\ Goto(next)
       /\ UNCHANGED <<presenter, kernel, output>>
    \/ ~Pending /\ Transaction(f, next)

-----------------------------------------------------------------------------
(* service_presentation *)

PresentationIdle ==
    /\ phase = "Run" /\ turn = "Presentation"
    /\ \/ pending.kind = None
       \/ pending.kind = "readiness" /\ "presentation" \notin expired
       \/ pending.kind = "flip" /\ ~kernel.event /\ "presentation" \notin expired
    /\ Goto("Release")
    /\ UNCHANGED <<request, signals, link, comp, drm, machine, history>>

\* The last eventfd is signalled and the deferred commit is carried out.
BufferReady ==
    /\ phase = "Run" /\ turn = "Presentation"
    /\ pending.kind = "readiness" /\ "presentation" \notin expired
    /\ Transaction(pending.frame, "Release")
    /\ UNCHANGED <<request, signals, link, suspended, held, tty, history>>

\* RealDrmApi::service_events and DrmPresenter::service: the event belongs to
\* the armed flip.
FlipEvent ==
    /\ pending.kind = "flip" /\ presenter.cookie = "armed"
    /\ kernel.event
    /\ kernel' = [kernel EXCEPT !.event = FALSE]

\* finalize_pending exchanges the buffers ...
FinalizePending ==
    presenter' = [presenter EXCEPT !.front = Back, !.cookie = None,
                                   !.committed = pending.frame]

\* ... and promote makes the frame the compositor's.
Promote(f) == output' = f

\* Mutant of FlipCompletes: the reply does not wait for the event.
FlipCompletesEarly ==
    /\ phase = "Run" /\ turn = "Presentation"
    /\ pending.kind = "flip"
    /\ kernel' = [kernel EXCEPT !.event = FALSE]
    /\ FinalizePending
    /\ Promote(pending.frame)
    /\ pending' = NoFrame
    /\ Goto("Release")
    /\ UNCHANGED <<request, signals, link, expired, suspended, held, tty, history>>

\* The page flip event completes the transaction; the producer is answered.
FlipCompletes ==
    /\ phase = "Run" /\ turn = "Presentation"
    /\ FlipEvent
    /\ FinalizePending
    /\ Promote(pending.frame)
    /\ pending' = NoFrame
    /\ Goto("Release")
    /\ UNCHANGED <<request, signals, link, expired, suspended, held, tty, history>>

\* The deadline has passed, the descriptor is unusable, the event does not
\* match or what it completes cannot be recorded.
PresentationFails ==
    /\ phase = "Run" /\ turn = "Presentation" /\ Pending
    /\ presenter' = Abandon(presenter)
    /\ pending' = NoFrame
    /\ Stop(1)
    /\ UNCHANGED <<request, signals, link, expired, output, suspended, held,
                   machine, history>>

-----------------------------------------------------------------------------
(* service_virtual_terminal *)

MayRelease == request.release /\ ~Pending /\ ~suspended

\* The protocol server is asked to let go of its input devices first.
RequestInactive ==
    /\ phase = "Run" /\ turn = "Release"
    /\ MayRelease /\ session = "Active"
    /\ \/ /\ producer.state = "valid"
          /\ asked' = "Inactive"
          /\ session' = "AwaitingInactive"
          /\ expired' = expired \ {"session"}
          /\ Goto("Resume")
       \/ /\ session' = "Failed" /\ Stop(1)
          /\ UNCHANGED <<asked, expired>>
    /\ UNCHANGED <<request, signals, producer, inbox, pending, output,
                   suspended, drm, machine, history>>

MaySuspend == ~Waiting /\ (~Enabled \/ session = "Inactive")

\* DirectVirtualTerminalSession::release: master is dropped, then the kernel
\* is told that it may switch.
ReleaseTerminal ==
    /\ held' = held \ {"master"}
    /\ tty' = [tty EXCEPT !.master = FALSE, !.wait = None,
                          !.active = IF tty.wait = "release" THEN "other" ELSE @]

\* DrmPresenter::suspend and Compositor::suspend_presentation
Suspend ==
    /\ phase = "Run" /\ turn = "Release"
    /\ MayRelease /\ MaySuspend
    /\ ReleaseTerminal
    /\ suspended' = TRUE
    /\ request' = [request EXCEPT !.release = FALSE]
    /\ Goto("Resume")
    /\ UNCHANGED <<signals, link, pending, expired, output, presenter, kernel,
                   history>>

\* Master cannot be dropped, or the release not be acknowledged.
SuspendFails ==
    /\ phase = "Run" /\ turn = "Release"
    /\ MayRelease /\ MaySuspend
    /\ \/ UNCHANGED <<tty, held>>
       \/ tty' = [tty EXCEPT !.master = FALSE] /\ held' = held \ {"master"}
    /\ Stop(1)
    /\ UNCHANGED <<request, signals, link, comp, presenter, kernel, history>>

NothingToRelease ==
    /\ phase = "Run" /\ turn = "Release"
    /\ ~(MayRelease /\ (session = "Active" \/ MaySuspend))
    /\ Goto("Resume")
    /\ UNCHANGED <<request, signals, link, comp, drm, machine, history>>

\* present_committed_frame: into the back buffer, and shown by a modeset.
ShowCommitted ==
    /\ kernel' = [CopyTo(Back, presenter.committed) EXCEPT !.scanout = Back]
    /\ presenter' = [presenter EXCEPT !.front = Back, !.taken = TRUE]

\* DirectVirtualTerminalSession::reacquire
Reacquire ==
    /\ held' = held \cup {"master"}
    /\ tty' = [tty EXCEPT !.master = TRUE]
    /\ ShowCommitted

\* DrmPresenter::resume shows only a frame that is the compositor's as well.
Resumable == presenter.committed # 0 /\ output = presenter.committed

MayResume == request.acquire /\ suspended

ResumePresentation ==
    /\ phase = "Run" /\ turn = "Resume"
    /\ MayResume /\ session \in {"Disabled", "Active", "Inactive"}
    /\ Resumable /\ Reacquire
    /\ suspended' = FALSE
    /\ \/ /\ session = "Inactive" /\ producer.state = "valid"
          /\ session' = "AwaitingActive" /\ asked' = "Active"
          /\ expired' = expired \ {"session"}
          /\ Goto("Producer")
          /\ UNCHANGED request
       \/ /\ session = "Inactive"
          /\ session' = "Failed" /\ Stop(1)
          /\ UNCHANGED <<request, asked, expired>>
       \/ /\ session # "Inactive"
          /\ request' = [request EXCEPT !.acquire = FALSE]
          /\ Goto("Producer")
          /\ UNCHANGED <<session, asked, expired>>
    /\ UNCHANGED <<signals, producer, inbox, pending, output, history>>

\* The frame is not there any more, or a call fails with master taken or not.
ResumeFails ==
    /\ phase = "Run" /\ turn = "Resume"
    /\ MayResume /\ session \in {"Disabled", "Active", "Inactive"}
    /\ \/ UNCHANGED <<tty, held>>
       \/ /\ Resumable
          /\ tty' = [tty EXCEPT !.master = TRUE]
          /\ held' = held \cup {"master"}
    /\ Stop(1)
    /\ UNCHANGED <<request, signals, link, comp, presenter, kernel, history>>

NothingToResume ==
    /\ phase = "Run" /\ turn = "Resume"
    /\ ~(MayResume /\ session \in {"Disabled", "Active", "Inactive"})
    /\ Goto("Producer")
    /\ UNCHANGED <<request, signals, link, comp, drm, machine, history>>
-----------------------------------------------------------------------------
(* The producer's connection *)

\* accept_producer: one producer at a time.
Accept ==
    /\ phase = "Run" /\ turn = "Producer"
    /\ producer.state = "listening"
    /\ producer' = [producer EXCEPT !.state = "fresh"]
    /\ Goto("Session")
    /\ UNCHANGED <<request, signals, inbox, asked, session, comp, drm, machine,
                   history>>

\* validate_producer: the role and the capabilities decide on the profile; a
\* protocol server may have negotiated session coordination.
Validate ==
    /\ phase = "Run" /\ turn = "Producer"
    /\ producer.state = "fresh" /\ producer.open
    /\ producer' = [producer EXCEPT !.state = "valid"]
    /\ session' = IF producer.coordinated THEN "Active" ELSE "Disabled"
    /\ Goto("Session")
    /\ UNCHANGED <<request, signals, inbox, asked, comp, drm, machine, history>>

\* A role without a profile, or a scene profile that cannot be configured.
RejectProducer ==
    /\ phase = "Run" /\ turn = "Producer"
    /\ producer.state = "fresh" /\ producer.open
    /\ GiveUp
    /\ Goto("Session")
    /\ UNCHANGED <<request, signals, session, expired, suspended, held, machine, history>>

NoNewProducer ==
    /\ phase = "Run" /\ turn = "Producer"
    /\ \/ producer.state \in {None, "valid"}
       \/ producer.state = "fresh"
    /\ Goto("Session")
    /\ UNCHANGED <<request, signals, link, comp, drm, machine, history>>

\* The messages are read up to the one that stops the loop.
Receiving(t) ==
    /\ phase = "Run" /\ turn = t
    /\ producer.state = "valid" /\ inbox # << >>
    /\ IF t = "Session" THEN Waiting
       ELSE ~Pending /\ ~suspended /\ ~request.release /\ ~Waiting

\* service_output_inventory_query: the layout is published ...
AnswerQuery(t) ==
    /\ Receiving(t) /\ Head(inbox).type = "query"
    /\ inbox' = Tail(inbox)
    /\ Goto(t)
    /\ UNCHANGED <<request, signals, producer, asked, session, comp, drm,
                   machine, history>>

\* ... or the peer given up, whatever is pending: an invalid query, or a
\* connection that does not take all of the publication.
RefuseQuery(t) ==
    /\ Receiving(t) /\ Head(inbox).type = "query"
    /\ Disconnect
    /\ refused' = TRUE
    /\ Goto(t)
    /\ UNCHANGED <<request, signals, expired, suspended, held, machine, frames,
                   switches, producers>>

\* fail_output_inventory: no publication can be built.
FailQuery(t) ==
    /\ Receiving(t) /\ Head(inbox).type = "query"
    /\ Disconnect
    /\ Stop(1)
    /\ UNCHANGED <<request, signals, expired, suspended, held, machine, history>>

\* A frame commit; the session loop dispatches it while it waits, too.
DispatchCommit(t) ==
    /\ Receiving(t) /\ Head(inbox).type = "commit"
    /\ inbox' = Tail(inbox)
    /\ CommitFrame(Head(inbox).frame, t)
    /\ UNCHANGED <<request, signals, producer, asked, session, suspended, held,
                   tty, history>>

\* SessionStateCoordinator::acknowledge
SessionAnswered ==
    /\ Receiving("Session") /\ Head(inbox).type \in {"ack", "nack"}
    /\ inbox' = Tail(inbox)
    /\ IF Head(inbox).type = "ack"
       THEN /\ session' = IF session = "AwaitingInactive" THEN "Inactive" ELSE "Active"
            /\ request' = [request EXCEPT !.acquire = @ /\ session # "AwaitingActive"]
            /\ Goto("Session")
       ELSE session' = "Failed" /\ Stop(1) /\ UNCHANGED request
    /\ UNCHANGED <<signals, producer, asked, comp, drm, machine, history>>

\* Mutant of SessionChecked: the deadline of the request is not looked at.
SessionUnchecked ==
    /\ phase = "Run" /\ turn = "Session"
    /\ ~Receiving("Session")
    /\ Goto("Contract")
    /\ UNCHANGED <<request, signals, link, comp, drm, machine, history>>

\* check_timeout ends the session loop.
SessionChecked ==
    /\ phase = "Run" /\ turn = "Session"
    /\ ~Receiving("Session")
    /\ IF Waiting /\ "session" \in expired
       THEN session' = "Failed" /\ Stop(1)
       ELSE Goto("Contract") /\ UNCHANGED session
    /\ UNCHANGED <<request, signals, producer, inbox, asked, comp, drm, machine,
                   history>>

\* service_disconnect ends the turn; with --once or --max-frames it may be
\* the last one.
ProducerGone ==
    /\ phase = "Run" /\ turn = "Contract"
    /\ ~Receiving("Contract") /\ producer.hup
    /\ IF Pending
       THEN Stop(1) /\ UNCHANGED <<presenter, pending, output, link>>
       ELSE /\ Disconnect
            /\ IF Waiting THEN Stop(1) ELSE Goto("Poll") \/ Stop(exit)
    /\ UNCHANGED <<request, signals, expired, suspended, held, machine, history>>

TurnEnds ==
    /\ phase = "Run" /\ turn = "Contract"
    /\ ~Receiving("Contract") /\ ~producer.hup
    /\ Goto("Poll")
    /\ UNCHANGED <<request, signals, link, comp, drm, machine, history>>
-----------------------------------------------------------------------------
(* DrmPresenter::shutdown and DirectVirtualTerminalSession::restore *)

\* Every step is tried whatever became of the others; a failure shows in the
\* exit status.
RestoreCall(n, done) ==
    /\ phase = "Restore" /\ step = n
    /\ step' = n + 1
    /\ \/ done /\ UNCHANGED exit
       \/ exit' = 1 /\ UNCHANGED <<kernel, presenter, held, tty>>
    /\ UNCHANGED <<phase, turn, request, signals, link, comp, history>>

RestoreSkip(n) ==
    /\ phase = "Restore" /\ step = n
    /\ step' = n + 1
    /\ UNCHANGED <<phase, turn, exit, request, signals, link, comp, drm, machine,
                   history>>

\* clear_pending; the connection, the scene and the requests are not looked at
\* any more.
BeginShutdown ==
    /\ phase = "Restore" /\ step = 0
    /\ step' = 1
    /\ presenter' = Abandon(presenter)
    /\ producer' = NoProducer /\ inbox' = << >> /\ asked' = None
    /\ session' = "Disabled"
    /\ pending' = NoFrame /\ expired' = {} /\ output' = 0 /\ suspended' = FALSE
    /\ request' = [release |-> FALSE, acquire |-> FALSE]
    /\ signals' = {}
    /\ UNCHANGED <<phase, turn, exit, held, machine, history>>

\* The terminal and master, when shutdown begins suspended.
MustRegain == presenter.direct /\ "master" \notin held /\ "graphics" \in held

Regain ==
    IF MustRegain
    THEN RestoreCall(1, /\ tty' = [tty EXCEPT !.active = "ours", !.master = TRUE]
                        /\ held' = held \cup {"master"}
                        /\ UNCHANGED <<kernel, presenter>>)
    ELSE RestoreSkip(1)

MayRestore == ~presenter.direct \/ "master" \in held

\* restore_saved_state; the modeset waits for a flip that is in flight.
RestoreDisplay ==
    IF MayRestore /\ presenter.taken
    THEN RestoreCall(2, /\ kernel' = [kernel EXCEPT !.scanout = Original,
                                                   !.flight = NoFlip]
                        /\ presenter' = [presenter EXCEPT !.taken = FALSE]
                        /\ UNCHANGED <<held, tty>>)
    ELSE RestoreSkip(2)

\* Mutant of MayReleaseBuffers: the buffers go whatever is on the screen.
MayReleaseBuffersAlways == MayRestore

\* The buffers of a display that could not be restored are left to the kernel.
MayReleaseBuffers == MayRestore /\ ~presenter.taken

ReleaseScanout ==
    IF MayReleaseBuffers /\ presenter.live
    THEN RestoreCall(3, /\ presenter' = [presenter EXCEPT !.live = FALSE]
                        /\ UNCHANGED <<kernel, held, tty>>)
    ELSE RestoreSkip(3)

\* Master, KD mode, VT mode, keyboard mode and the previous terminal.
GiveBack(n) ==
    LET h == <<"master", "graphics", "process", "keyboard", "activated">>[n - 3]
    IN  IF h \in held
        THEN RestoreCall(n, Give(h) /\ held' = held \ {h}
                            /\ UNCHANGED <<kernel, presenter>>)
        ELSE RestoreSkip(n)

Restored ==
    /\ phase = "Restore" /\ step = 9
    /\ phase' = "Done" /\ step' = 0
    /\ UNCHANGED <<turn, exit, request, signals, link, comp, drm, machine, history>>

-----------------------------------------------------------------------------
(* The kernel, the clock, the producer and the user *)

Polling == phase = "Run" /\ turn = "Poll"

Vblank ==
    /\ phase # "Run" \/ Polling
    /\ kernel.flight # NoFlip
    /\ kernel' = [kernel EXCEPT !.scanout = kernel.flight, !.flight = NoFlip,
                                !.event = TRUE]
    /\ UNCHANGED <<reactor, signals, link, comp, drm, tty, history>>

DeadlinePasses ==
    /\ phase = "Run"
    /\ \/ Pending /\ expired' = expired \cup {"presentation"}
       \/ Waiting /\ expired' = expired \cup {"session"}
    /\ expired' # expired
    /\ UNCHANGED <<reactor, signals, link, pending, output, suspended, drm,
                   machine, history>>

Connect ==
    /\ Polling /\ producer.state = None /\ producers < MaxProducers
    /\ \E coordinated \in BOOLEAN :
         producer' = [NoProducer EXCEPT !.state = "listening", !.open = TRUE,
                                        !.coordinated = coordinated,
                                        !.input = coordinated]
    /\ producers' = producers + 1
    /\ UNCHANGED <<reactor, signals, inbox, asked, session, comp, drm, machine,
                   frames, switches, refused>>

SendCommit ==
    /\ Polling
    /\ producer.state = "valid" /\ producer.open
    /\ Len(inbox) < MaxInbox /\ frames < MaxFrames
    /\ frames' = frames + 1
    /\ inbox' = Append(inbox, Commit(frames'))
    /\ UNCHANGED <<reactor, signals, producer, asked, session, comp, drm,
                   machine, switches, producers, refused>>

SendQuery ==
    /\ Polling
    /\ producer.state = "valid" /\ producer.open /\ inbox = << >>
    /\ inbox' = Append(inbox, Query)
    /\ UNCHANGED <<reactor, signals, producer, asked, session, comp, drm,
                   machine, history>>

\* RealInputController: the input devices are suspended or resumed, then the
\* change acknowledged.
Obey ==
    /\ Polling /\ asked # None /\ producer.open
    /\ producer' = [producer EXCEPT !.input = asked = "Active"]
    /\ inbox' = Append(inbox, Ack(TRUE))
    /\ asked' = None
    /\ UNCHANGED <<reactor, signals, session, comp, drm, machine, history>>

Refuse ==
    /\ Polling /\ asked # None /\ producer.open
    /\ inbox' = Append(inbox, Ack(FALSE))
    /\ asked' = None
    /\ UNCHANGED <<reactor, signals, producer, session, comp, drm, machine,
                   history>>

Leave ==
    /\ Polling
    /\ producer.open /\ producer.state \in {"fresh", "valid"}
    /\ producer' = [producer EXCEPT !.open = FALSE, !.input = FALSE]
    /\ UNCHANGED <<reactor, signals, inbox, asked, session, comp, drm, machine,
                   history>>

\* The kernel asks before it switches away and tells when it has come back.
SwitchAway ==
    /\ Polling /\ presenter.direct
    /\ tty.active = "ours" /\ tty.wait = None /\ switches < MaxSwitches
    /\ tty' = [tty EXCEPT !.wait = "release"]
    /\ signals' = signals \cup {"release"}
    /\ switches' = switches + 1
    /\ UNCHANGED <<reactor, link, comp, drm, kernel, frames, producers, refused>>

SwitchBack ==
    /\ Polling /\ tty.active = "other"
    /\ tty' = [tty EXCEPT !.active = "ours"]
    /\ signals' = signals \cup {"acquire"}
    /\ UNCHANGED <<reactor, link, comp, drm, kernel, history>>

Terminate ==
    /\ Polling /\ "stop" \notin signals
    /\ signals' = signals \cup {"stop"}
    /\ UNCHANGED <<reactor, link, comp, drm, machine, history>>

-----------------------------------------------------------------------------
(* The specification *)

Process ==
    \/ AcquireStep \/ AcquireFails \/ UnwindStep \/ InitializePipeline
    \/ Poll
    \/ PresentationIdle \/ BufferReady \/ FlipCompletes \/ PresentationFails
    \/ RequestInactive \/ Suspend \/ SuspendFails \/ NothingToRelease
    \/ ResumePresentation \/ ResumeFails \/ NothingToResume
    \/ Accept \/ Validate \/ RejectProducer \/ NoNewProducer
    \/ \E t \in {"Session", "Contract"} :
         \/ AnswerQuery(t) \/ RefuseQuery(t) \/ FailQuery(t)
         \/ DispatchCommit(t)
    \/ SessionAnswered \/ SessionChecked
    \/ ProducerGone \/ TurnEnds
    \/ BeginShutdown \/ Regain \/ RestoreDisplay \/ ReleaseScanout
    \/ \E n \in 4..8 : GiveBack(n)
    \/ Restored

Next ==
    \/ Process
    \/ Vblank \/ DeadlinePasses
    \/ Connect \/ SendCommit \/ SendQuery \/ Obey \/ Refuse \/ Leave
    \/ SwitchAway \/ SwitchBack \/ Terminate

Spec == Init /\ [][Next]_vars

\* The process runs and its deadlines pass; nothing is assumed of the
\* producer, of the display or of the user.
FairSpec == Spec /\ WF_vars(Process) /\ WF_vars(DeadlinePasses)

-----------------------------------------------------------------------------
(* Properties *)

\* What the compositor believes it shows is what the display scans out: while
\* it presents, the scanned out buffer holds the committed frame, or the frame
\* of a flip the kernel has done and the compositor has not seen yet
\* (presenter.cpp:320, presentation_completion.cpp:60).  An abandoned flip
\* breaks this until the next one.
ScreenIsCommitted ==
    /\ TypeOK
    /\ phase = "Run" /\ ~suspended /\ output # 0 /\ presenter.cookie # "abandoned"
       => /\ kernel.scanout \in Buffers
          /\ kernel.contents[kernel.scanout] =
                IF kernel.event THEN pending.frame ELSE output
          /\ output = presenter.committed

\* No frame is drawn into a buffer the display is scanning out or is about to
\* (presenter.cpp:210, 478), as long as no flip has been abandoned.
DrawsOnIdleBuffers ==
    \A b \in Buffers :
        kernel'.contents[b] # kernel.contents[b]
        => b \notin {kernel.scanout, kernel.flight} \/ presenter.cookie = "abandoned"

\* The terminal is handed over only when master has been dropped and, with a
\* protocol server that coordinates, its input devices are suspended
\* (runtime_reactor.cpp:167, vt_session.cpp:139); and only the
\* master of the device sets a mode or submits a flip.
HandsOverClean ==
    /\ tty.active = "ours" /\ tty'.active = "other" /\ phase = "Run"
       => ~tty'.master /\ ~(producer.state = "valid" /\ producer.input)
    /\ (kernel'.scanout # kernel.scanout /\ kernel.flight = NoFlip)
         \/ (kernel'.flight # NoFlip /\ kernel.flight = NoFlip)
       => tty.master \/ tty'.master

\* No step of the compositor tears what another reader of the hardware sees:
\* neither the scanout of its own frames nor the session the terminal goes to.
NeverTearsOrTrespasses == [][DrawsOnIdleBuffers /\ HandsOverClean]_vars

\* Exit status 0 means the display, the terminal and the keyboard are as they
\* were; in no case are buffers destroyed under the display
\* (presenter.cpp:533, vt_session.cpp:195).
RestoredAtExit ==
    /\ phase = "Done" /\ exit = 0
       => /\ kernel.scanout = Original
          /\ presenter.direct =>
               /\ tty.active = tty.saved /\ ~tty.master
               /\ tty.kd = "text" /\ tty.mode = "auto" /\ tty.keyboard = "on"
    /\ kernel.scanout \in Buffers => presenter.live

\* A switch the user asks for is made, or gwcomp gives the terminal back and
\* ends (runtime_reactor.cpp:167), unless a peer was given up in the middle of
\* it (runtime_reactor.cpp:112).
ReleaseIsAnswered ==
    tty.wait = "release" ~> (tty.wait = None \/ phase = "Done" \/ refused)

\* docs/output/M10_VT_LIFECYCLE.md: producer processing resumes only after
\* real input acknowledges a successful resume.
ResumesAfterAcknowledgement ==
    [][session = "AwaitingActive" /\ phase = "Run" /\ phase' = "Run"
       => output' = output /\ (pending' = pending \/ pending' = NoFrame)]_vars
=============================================================================
