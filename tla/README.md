# Verification of the Glasswyrm display stack

TLA+ models of Glasswyrm, TLC runs that check them on small instances, and
TLAPS proofs of the properties that matter most. Paths below are relative to
the repository (`src/`).

## 1. The system

Glasswyrm is an X11 display stack of three single-threaded `poll()` processes
and a launcher:

- **glasswyrmd** (`src/glasswyrmd`) is the X11 server. It owns the clients, the
  resources, the input devices and the *committed* state of every top-level
  window.
- **gwm** (`src/gwm`, `src/wm`) is the window policy: it is given a snapshot of
  all windows and answers with their placement, stacking and focus.
- **gwcomp** (`src/gwcomp`, `src/compositor`, `src/render`, `src/backends`) is
  the compositor: it is given a scene and the buffers of the windows, and
  presents frames on DRM or headless outputs.
- **glasswyrm-session** (`src/session`) starts and supervises the three.

They talk over libgwipc (`src/ipc`), a message protocol on `SOCK_SEQPACKET`
sockets. glasswyrmd is the client of both peers; diagnostic tools are clients of
glasswyrmd. Nothing is persisted: a peer that restarts has lost everything, and
glasswyrmd replays it.

### Components

| component | state | operations | what makes it correct |
|---|---|---|---|
| lifecycle coordinator, lifecycle runtime | committed and evaluated snapshot, queue, active operation, phase; pending mutations, blocked clients | enqueue, resume, four answers, cancel client, replacement of the committed snapshot; propose, commit, cleanup | one operation takes effect as a whole or not at all, everywhere; every one ends |
| runtime bridge, peers | stage, transaction stage, remembered transaction, pending submissions | service, five submissions, take result | one transaction at a time; none lost or repeated over reconnects; peers hold what they acknowledged |
| content presenter, published buffers | damage, two buffers per window, frame in flight | damage, prepare, accept, reject, release, peer loss | no damage is lost; every release is expected |
| cursor presenter, input, event routing, grabs, interactive window management | held keys and buttons, focus, grabs, the drag, the cursor frame | raw input, synthetic input, requests, transactions, VT switch | everybody agrees on what is held; nothing waits for ever |
| output configuration | tools' snapshots, the transaction, its stage | snapshot, commit, four answers, installation, rollback | layout, policy and scene change together |
| X11 clients, resource table, stores, selections, redirections, properties | windows, pixmaps, cursors, pictures, ... and who owns them | requests, deferred commits, client loss | no reference dangles; nothing survives its client under an identifier that is given again |
| gwm, window policy | staged snapshot, committed policy | snapshot items, commit, evaluation | answers that the server can use; a sound stack; windows stay reachable |
| gwcomp, DRM, VT | presentation transaction, flip, buffers, session state, terminal | frames, flips, suspend, resume, shutdown | the screen shows committed frames, untorn; the display is given back |
| scene, output model, software renderer | outputs, mapping, damage | validate, map, repaint | both validators agree; a partial repaint equals a full one |
| libgwipc | handshake, queues, correlation | connect, send, receive, close | both ends agree; records arrive in order; nobody waits for ever |
| wire codecs | none (pure) | encode, decode, validate | inverse of each other; only canonical usable records are accepted |
| launcher | children, sockets, directory | start, wait, terminate, clean up | start order, no orphan |

How they interact: X11 requests that concern a top-level window become lifecycle
operations; the coordinator sends them through the bridge, first to gwm, then,
with the content presenter's buffers, to gwcomp; only then the resource table
changes. Content frames, cursor frames and output transactions use the same
bridge in between and hold the coordinator's queue back. Input is delivered
through focus and grabs, and itself starts lifecycle operations (focus, moves).

### What is hard

The processes run concurrently and fail separately, and glasswyrmd works on
requests of many clients while one transaction crosses both peers. The hazards,
each at its line, are in `PROJECT.json`: operations proposed from a snapshot
that is no longer current; a refusal by the second peer after the first
accepted; a client or a tool that leaves in any phase; a peer that restarts in
the middle of a transaction, of a rollback or of a recovery; late replies that
meet a replay; work that is parked behind a frame and must be woken up; a
terminal switch during a page flip; a press whose release is consumed by
somebody else; identifiers that are used again; rounding at the edges of outputs.

## 2. The modules

| module | models |
|---|---|
| `LifecycleSnapshot` | snapshot, operation, proposal and rebase (`lifecycle_types.hpp`, `rebase_lifecycle_operation`, `defer_lifecycle`) |
| `LifecycleCoordinator` | the coordinator with the callbacks of the runtime, its clients and both peers |
| `AtomicLifecycle` | the abstract specification of window state: operations take effect atomically |
| `RuntimeBridge` | the bridge, both peer objects, their connections and the processes at the other ends |
| `ContentPublication` | the content presenter, its published buffers, the frames in flight, and gwcomp's attachments, mappings, releases and screen |
| `OutputConfiguration` | a tool's layout transaction: control peer, coordinator, runtime, with the turn of the integrated loop, the bridge and lifecycle work |
| `ServerResources` | the resource table with all its stores, selections, grabs, redirections, RandR selections; requests, deferred operations, arriving and leaving clients |
| `InputRouting` | libinput controller, keymap, repeat, synthetic provider, event router, grabs, focus, interactive moves, cursor presenter |
| `WindowPolicy` | `PolicyPeer`, gwm's dispatch and transaction, the policy algorithms on one or several outputs, and the projections of the answer |
| `CompositorProcess` | gwcomp's reactor, presentation transaction, DRM presenter and VT session with the kernel's display and terminals |
| `OutputLayout` | scales, transforms, mappings, layout validation, the backends' inventories, their publication by gwcomp and the reader in glasswyrmd, candidates |
| `OutputFrames` | the server's surfaces (cursor placement included), the records of a snapshot, scene validation, output damage, the software repaint |
| `IpcConnection` | the two ends of a libgwipc connection and the socket between them |
| `WireCodec` | the GWIPC encoders, decoders and the checks on a record |
| `SessionLauncher` | the launcher, its supervisor, the children and their sockets |
| `LifecycleCoordinatorProofs` | theorems about the coordinator, and its refinement of `AtomicLifecycle` |
| `RuntimeBridgeProofs`, `ContentPublicationProofs`, `OutputConfigurationProofs`, `CompositorProcessProofs`, `SessionLauncherProofs`, `IpcConnectionProofs`, `ServerResourcesProofs` | theorems about the module they are named after |
| `MC_*` | instances for TLC |

What overlaps is a deliberate reduction: `LifecycleCoordinator` sees frames and
output transactions as `foreign`, and the recovery of a peer as `ready`;
`OutputConfiguration`, `InputRouting` and
`ServerResources` see the coordinator as a queue whose head ends one way or the
other; `OutputConfiguration` keeps of the bridge what `RuntimeBridge` shows of it.

## 3. State and actions, and how they correspond to the code

**LifecycleCoordinator.** `committed`, `evaluated`, `queue`, `active` and
`phase` are the fields of the class. `wire` is the request the
awaited peer has not answered, `policyView` and `compositorView` what each peer
accepted last, `resources` and `children` the part of the resource table that
commits change, `blocked` the clients' dispatch barriers, `outcome` a history of
every token. One action is one handler with everything it calls: `Finish`
completes the active operation, skips what cannot be rebased or was canceled,
and starts the next one in the same step, as the code does by mutual recursion
of `finish` and `start_next`. A field group of a window is represented by the
serial of the operation that wrote it, so that "which request does this value
come from" can be asked; positions and sizes are not. The policy's decision is
any focus (`Evaluations`); an answer that `apply_policy_result` cannot use is
`PolicyUnusable`, after which the policy keeps the proposal (`unapplied`).
Handing a request to a peer may fail when `FaultySends` is set, and fails while
the bridge is reconnecting or has another transaction (`Handed`).

The runtime beside the coordinator is there as far as it decides what runs:
`foreign` is the content, cursor or output transaction that has the peers,
`configuring` is `output_configuration_active`, and `Parked` the test by which a
request is queued paused. Each way in which such a transaction ends is an action
with the code's own consequence: an accepted frame resumes the queue
(`FrameAccepted`), a refused cursor frame does not (`CursorRefused`) and neither
does one that is forgotten with its peer (`PeerLost`), a tool that leaves resumes
an idle coordinator whatever has the peers (`LeaveTool`), and a refused replay
stops the server (`ForeignFails`). `dropped` is a history variable: how the
cursor frame ended that left operations behind. A peer that is lost is the
bridge's business: nothing but the unit test calls the coordinator's
`peer_disconnected` and `peer_synchronized`, so they are not modelled. A request
in flight simply waits until the bridge is ready again or fails at its deadline.

**RuntimeBridge.** A snapshot is represented by the number of its submission.
`peer[p]` is a record: bootstrap state, connection, the request or reply under
way, what the process holds and what it acknowledged last. `Service` is one
call of `service()`: all of the ready branch (`ServiceReady`, `Recover`,
`Answered`) or one bootstrap turn (`PolicyTurn`, then `CompositorTurn`, as the
code falls through). `forget_cursor_replay` is part of `Recover`, because the
runtime calls it in the same turn. `owed` is a history variable: the submission
whose result the runtime waits for. Retry delays are abstracted to "a connect
may fail or not be due"; the deadline is counted in ticks.

**ContentPublication** (`--software-content`). A window is a row of pixels, a
pixel the number of the drawing that wrote it, so "is this drawing on the
screen" is an equation. `content[w]` is the presenter's entry of a window
(pending and in-flight damage, staged storage, staged buffer), `current`,
`retired` and `discarded` its buffers, `memory` the shared memory of every
buffer ever allocated (the identifier is the index, as `next_buffer_id` never
repeats one). `frame` is the bridge's transaction with the compositor; `replay`
the scene that `CompositorPeer` retains for a restart. On the other side
`gwcomp` has committed and pending attachments and the mapped buffers, and
`screen` what was drawn from them. `Publish` is the part `prepare_lifecycle`,
`prepare_replay` and `prepare_content` share. A request stands for its whole
policy round trip, which does not touch the presenter. Releases are taken in any
order, before or after later answers, because one poll turn handles answers
before the releases it read with them. `forgotten` is a history variable: the
places outside a narrower frame that was refused (`MC_LostDamage.cfg`).

`child[w]` is a subwindow over the places `Covered[w]`, mapped or not, with
pixels of its own, and `Composed` what `compose_top_level_subtree` makes of
window and subwindow. `Source` is what a frame takes for a window: the composed
subtree if it has the size of the staged storage, otherwise the staged storage
alone, as `prepare_lifecycle` chooses. It is composed from the committed map
states, so besides a frame that resizes a window one that shows or hides it is
drawn with the subwindow as it was before. `bare` is a history variable: the
places of a subwindow that such a commit has published wrongly and cleared the
damage of (`MC_BareSubwindow.cfg`).

Left out: deeper trees, subwindows that are created, moved or destroyed while
their window lives, `ClipByChildren` and `IncludeInferiors`, scaled windows (to
which the composition does not apply), eventfd synchronization, the byte limit
of the buffer store.

**OutputConfiguration.** `tool`, `coord`, `owner`, `run` and `peerReset` are the
control peers, the coordinator, `pending_reply_`, the stage of the runtime and
its reset flag; `installed[p]` is the layout in force in the bridge, the
lifecycle coordinator, the server state and the input bounds; `acked[p]` what
each peer acknowledged. `turn` keeps the order of `IntegratedRuntime::service`,
and `woken` whether the loop polls again at once, so a work item that is left
for a later turn really waits. A layout is its generation, its primary and its enabled
outputs; what else a candidate is checked for is in `OutputLayout`.

**ServerResources.** `res` is `ResourceTable`: the records, the list of each
owner, the byte totals, the selected events. A resource identifier is a pair of
base and index, so that a base given again yields the same identifiers. Every
request that creates, frees or refers to a resource is an action of its own
(more than forty), with the checks of its handler; drawing requests are what they
read, write and damage. In the integrated mode, requests on top-level windows
are queued and committed (`CommitDeferred`), refused (`RejectDeferred`) or fatal
(`CommitFails`) later. A tree of windows goes in one step, `DestroyWindows`: what
`destroy_leaf` does in post-order leaves the same table, because nothing hangs
on a destroyed window but another of them. What the code does one after the
other to things that may depend on each other (`MapSubwindows`, the resources a
leaving client still has) is a function over the list. Pixels and error codes
are left out.

**InputRouting.** The server is one thread, so `s` is its state and each handler
a function of it; an action composes the handlers a turn calls
(`EndOfTurn`: cursor, focus, drag). The screen has one dimension. `s.mask` and
`s.held` are the controller's and the keymap's view, `s.buttons` and `s.keys`
the server's; `s.owes` is a history variable: who was told of a press and not of
its release. `s.ops` is the coordinator's queue. Bindings are a constant; event
masks are sets of the kinds that are told apart.

**WindowPolicy.** The records of a snapshot travel one by one (`up`, `down`) and
are staged, committed and answered as `contract_dispatch.cpp` does; `Evaluate`
is the whole policy: validation, geometry, visibility, focus, stacking,
assignment. The server side checks the answer as `valid_policy_result` and
`apply_policy_result` do and derives the surfaces. A behaviour follows a plan of
requests (`Plan`), each drawn from a set. The FNV hash is the value it is
computed from.

**CompositorProcess.** One reactor turn is a chain of services (`turn`), each an
action; kernel, producer and user move while the reactor is in `poll`. `kernel`
is the display (scan-out buffer, pending flip, contents of the buffers), `tty`
the terminal. Acquisition, unwinding and restoration are sequences of steps each
of which may fail. A producer that is refused on validation (`RejectProducer`) is
given up without the session coordinator hearing of it, unlike one that
disconnects. A frame is a number. `NeverTearsOrTrespasses` joins the two
things no step may do: draw on a buffer that is scanned out or about to be, and
give up the display with a flip or a session question open.

**OutputLayout, OutputFrames.** Pure operators named as in `src/output/model`,
then a small state machine: a tool configures (`ConfigureAny`), clients redraw
and the pointer moves (`RedrawAny`), or the compositor starts again
(`Reconnect`); server and compositor validate, and the software renderer
repaints what the damage names. The inventory crosses the processes as messages:
`build_output_inventory_publication` makes the items of `published`, the layout
gwcomp's backend starts with, and `consume` reads them one by one into
`inventory`, with the order, the counts and the identities the reader insists
on; after a reconnect the outputs must be those of the first inventory. A scene
is sent as records (surfaces, outputs, memberships) and put together again
before it is validated. The cursor is a surface whose output and scale
`cursor_primary` chooses. A pixel is the list of the samples blended into it, so
two frames are equal only when the same source pixels went into each.

**IpcConnection.** `conn[e]` is `gwipc_connection` of one end; `wire[e]` the
kernel's records; `turn[e]` the events of the `poll` call being handled.
Requests, replies, snapshots, errors, limits, half-done sends and closing are
the library's functions; what a handshake settles and whom it refuses
(`RefuseConnect`) follow from the configurations of both ends (`ValidConfig`,
`AfterConnect`). Payloads are reduced to what validation looks at.

**WireCodec.** Each encoder and each decoder is a table of its own, the fields
in the order of that function, so that a disagreement of the two shows; one
interpreter stands for `ByteWriter` and one for `ByteReader`. `Radix` scales the
bytes (the code has 256); text is made of real bytes.

**SessionLauncher.** A socket is a file with an inode; the number of a removed
file may be given again. Deadlines may pass at any poll. Children publish,
crash, exit, or ignore signals. What the launcher passes to a child follows from
its own command line, which it checks first.

## 4. The runs

`CHECK_DEADLOCK FALSE` everywhere: the requests, frames, losses or messages of a
behaviour are bounded, and the program may stop.

| run | bounds | shows |
|---|---|---|
| `MC_LifecycleSafety` | Create and Destroy; two clients, two windows, three operations, a queue of two, one lost peer, failing sends, one subwindow, content, cursor and output transactions | server and peers agree when idle; policy before presentation; nothing is stranded; refinement of `AtomicLifecycle` |
| `MC_LifecycleProgress` | ScaleChange and Focus; three operations, a queue of two, one lost peer, content, cursor and output transactions | every operation completes; a rebased operation keeps its request |
| `MC_BridgeSafety` | both start-up orders (historical and output model), three submissions, three losses, deadline two | nothing is lost or repeated; results are acknowledged; peers hold what they acknowledged; the bridge recovers or fails |
| `MC_ContentSafety` | two windows (one resized and with a subwindow), two drawings or changes of the subwindow, three requests, one refusal, one loss | releases match; no damage is lost; drawings reach the screen |
| `MC_SessionLauncher` | all options, stale and foreign files, one signal (INT or TERM) | start order; reverse shutdown; the session ends |
| `MC_CompositorProcess` | three frames, two switches of terminal, one producer that may leave, two messages under way | the screen shows what was committed; untorn, nothing given up early; releases are answered; everything is restored at a clean exit |
| `MC_OutputConfiguration` | two tools, one output, three generations, two resets, one lifecycle request, two snapshots | authorities agree; Accepted means applied; every commit is finished |
| `MC_IpcConnection` | two client configurations (one that is refused), three messages one way and one the other, a socket of two records | both ends agree; delivery in order without gaps; connections settle |
| `MC_ServerResources` | 14 workloads of up to four requests, two or three clients over two bases, both modes, every limit one or two | the table is consistent; bases are clean; a client leaves no trace |
| `MC_WindowPolicy` | three windows built up over seven requests, then any two of twenty others; no or two outputs, one relayout, one restart of gwm | answers are usable; the stack is sound; windows stay reachable |
| `MC_InputRouting` | three windows of two clients, two buttons, two keys, four inputs, one other request, real or synthetic provider | everybody agrees on what is held; presses are released; nothing is stuck |
| `MC_Conversions` | codecs: every type plain, each field at its edges, every byte changed; outputs: three inventories, all scales and transforms of one output, every arrangement of two, a cursor, restarts of the compositor (28203 states) | codecs invert each other and accept only canonical usable records; validators agree, and so do the publisher and the reader of an inventory; partial repaint equals full; pixels show their place |

Why the bounds are enough. Three operations let one be active, one be queued
behind it and one (a cleanup) overtake; a queue of two is full in some
behaviours and not in others. Three losses allow a loss in flight, a second one
during the recovery and a third after it. Three requests create, show and
resize a window; the second drawing falls into the flight of the first. Three
frames are one shown, one pending and one arriving; two switches lead away and
back. Three generations allow an accepted layout, a stale commit and a second
change. Two bases for three clients force a base to be given again. In
`MC_IpcConnection` the third message overflows a queue of two. Two restacked
windows in a band, one transient and one fullscreen window already order every
pair of rules. Four inputs are press, motion, release and one key or a switch.
Identities differ in ownership or role, so no symmetry is used.

`MC_Conversions` checks two parts of the system in one run because both are pure
conversions checked over enumerated inputs: a behaviour either takes one message
through the codecs or one session through layout, scene and frames. Its module
joins `WireCodec` and `OutputFrames` as alternatives that share no variable.

Every property of a run has a mutant: a definition changed the way a plausible
bug would change the code, under which TLC finds the property violated. The
mutants stand next to the definitions they change. Type invariants are conjuncts
of the main safety invariant of a module where they are not trivial
(`ScreenIsCommitted`, `AuthoritiesAgree`, `PeersUnderstandEachOther`), and are
theorems for the modules of section 6.

## 5. Fairness

- `EveryOperationCompletes`: a connected peer answers, a lost peer comes back
  or the bridge's deadline stops the server, a frame ends, and a waiting output
  configuration is submitted or its tool has left; each is serviced on every turn
  of the poll loop. A cursor frame that was lost with its peer is sent again
  (`peer_disconnected` makes `needs_update` true); one that was refused need not
  be, so the property excepts `[](dropped = "refused")`. Clients are never forced
  to do anything.
- `RecoversOrFails`: `service()` is called again and time passes; nothing of the
  peers.
- `ScreenCatchesUp`: a connected peer answers, a lost gwcomp is started again
  and the loop submits what is pending; drawing, requests, releases and losses
  are not fair.
- `SessionEnds`: the launcher polls with timeouts and takes steps; nothing is
  assumed of the children, which may ignore every signal but SIGKILL.
- `ReleaseIsAnswered`: the reactor runs and its deadlines pass; nothing is
  assumed of the producer, the display or the user.
- `EveryCommitIsFinished`: the loop runs, and an asked peer answers (strongly,
  since `poll` is level triggered and each turn disables and re-enables it). It
  is the bound of one lifecycle request that keeps other work from coming first
  without end: with unbounded requests the code lets a configuration starve
  (section 8).
- `ConnectionsSettle`: both programs poll for what the library wants and take
  what it received.

`NothingIsStuck` needs no fairness: it describes the states in which nobody is
left to move.

## 6. The proofs

For every value of the constants: any number of clients, windows, outputs,
tools, drawings, frames, operations, losses and switches, either start-up order, and
whatever the peers, children, kernel and user do. Each proof rests on an
inductive invariant; no property below is inductive by itself. TLC checked each
invariant on the instance of section 4 before it was proved (that of the
compositor process also with two producers, 2575407 states; that of a
connection, 357265 states; that of the resources, 217848 states).

**Coordinator** (`LifecycleCoordinatorProofs`). `TypeCorrect`, `PeersAlwaysAgree`,
`PolicyComesFirst` and `NothingStranded` rest on `Agreement`: that both peers
hold the committed state *when idle* needs to know what each peer holds in every
other phase (in `AwaitingCompositor` the policy already holds the proposal, in a
rollback it holds the committed state again when the compositor is asked).
`PeersAgree` excepts the policy while `unapplied`, since the code takes an answer
it cannot use for a refusal and asks for no rollback. `NothingStranded` names the
cases in which nothing would start the queue: an output configuration that is
still waiting, and a cursor frame that was refused or lost. That the wait of the
first one ends is `EveryOperationCompletes`; the second is `MC_StrandedOperation`.

**Refinement** (`LifecycleCoordinatorProofs`). `Refinement` shows that the
coordinator implements `AtomicLifecycle`: each action is one atomic step or a
stutter under the mapping of `LifecycleCoordinator`. It needs `Accounting`: an
issued token is in exactly one place, in the queue, active, or settled; otherwise
the completions that `finish()` makes on its way to the next operation could
settle the token of a commit in the same step. `RebaseKeepsRequests` shows
`RebaseKeepsOwnRequest` from `Proposals`: all serials were issued, and of a
queued proposal everything that carries its own serial is in a field that its
rebase copies. It holds for every kind of operation. The property itself names the one
field group for which it is false: the raise of an interactive press, a stack
change of a Focus operation, which `rebase_lifecycle_operation` does not copy
(section 8); the run enables Focus.

**Bridge** (`RuntimeBridgeProofs`). `BridgeTypeCorrect`,
`OneTransactionPerReply`, `TransactionsSurvive` and `SuccessIsAcknowledged` rest
on `Coherent`, which adds what is on each wire in each stage (a bootstrapping
peer is asked for what it acknowledged last, the peer of the transaction in
flight for that very submission) and that the remembered transaction is the
interrupted one. `RestartsKeepState` shows `PeersHoldAcknowledgedState` from
`Retained`: an established, synchronized process holds its replay, an accepting
one what it was sent, an asked or refusing one what it held. Whether the output
model is used is chosen in the initial state, so all of them hold for both
start-up orders. The property excepts one state, which `sceneMissed` records: a
compositor of the output model whose connection was closed while
`output_scene_submitted_` stayed set (together with the policy's, or by a failed
bootstrap) is not sent its scene again; it then holds nothing. `MC_LostScene`
shows the code getting there.

**Content publication** (`ContentPublicationProofs`). `ReleasesAreRecognised`
and `DrawingsReachTheScreen` rest on `Inductive`. For the releases (`Matching`):
every buffer gwcomp maps is current, discarded, or its release is under way, and
what is retired or discarded is exactly what gwcomp will give back; the buffers
of a frame in flight are new (`Fitting`), and what gwcomp holds is what the
server would replay (`Shared`). For the drawings, three copies of a window are
compared place by place with what it looks like, its pixels under its viewable
subwindow (`Composed`): the buffer it has (`Copied`), the
buffer a frame in flight leads to (`Sent`), and the staged storage that
`accept_lifecycle` makes the window's (`Stored`); each may differ only where
damage is pending, in flight, forgotten or `bare`. `Drawn` says the same of the screen
and the buffer it was drawn from. The hard case is `Undone`: gwcomp shows a frame
whose client has left while the presenter still has it in flight; the invariant
claims little there, and the only ways on are a stop of the server or a loss of
gwcomp, after which everything has to hold again. `NoDamageIsLost` and
`ReleasesMatchRetirements` exclude that state, and `LeavingIsHarmless` is its
counterexample (section 7).

**Output configuration** (`OutputConfigurationProofs`). `NoAuthorityIsLeftBehind`
and `AcceptanceIsHonest` rest on `Consistent`: unless the server has stopped,
the waiting tool owns the transaction and has seen the generation it follows
(`Waits`); for each stage of the runtime, which layout is in the bridge and which
each peer has acknowledged, the stages of a rollback included (`Stages`); and
all parts of the server have the committed layout (`InForce`). The hard case is
a lost peer or a tool that has gone: from then on a peer's agreement, too, leads
into a rollback, which asks both peers again for the committed layout, and
either of them may refuse or be lost once more.

**Compositor process** (`CompositorProcessProofs`). `ScreenIsCommittedHolds`,
`NeverTearsOrTrespassesHolds` and `RestoredAtExitHolds` rest on `Inductive`: at
most one question to the producer and one answer under way (`Linked`); from a
flip's submission to its event, what each of the two buffers holds, which one is
scanned out, and which one may be drawn on (`Flipping`); the display is only used
while it is taken (`Displayed`); which of terminal, modes and master are held in
each step of acquiring, releasing and unwinding (`Owned`); and what the
restoration has undone (`GivenBack`). An exit status of 0 says something
only because every step that fails on the way out sets it to 1.

**Launcher** (`SessionLauncherProofs`). `StartedOnServers`,
`ShutDownInReverse` and `NobodyIsLeft` rest on `Orderly`: who may exist and run
in each phase, and that a file at a child's path is the stale one, none, or the
child's own. `NobodyIsLeft` is the safety half of `SessionEnds`: *if* the
launcher returns, nobody it started is alive, and its sockets are gone unless it
returned 2, having refused the directory before it started anybody.

**Connection** (`IpcConnectionProofs`). `PeersAlwaysUnderstandEachOther` says that
no record of one end ever breaks a rule of the other. The difficulty is that the
receiver checks a record against *its* tables after the sender checked it against
its own, with any number of records, an answer, a loss or a half-done write
between the two. `Inductive` therefore relates the tables of both ends to the
records under way, in the library's queue and in the kernel: they are numbered
from what was read to what was sent without gaps (`Order`), so that each is
identified by its number; each is one its receiver may be sent under what the
configurations agree on (`Legal`); a request under way is in the sender's tables,
a request that may still be answered is known to both and no answer to it is
under way, and an answer under way names what its receiver waits for, once
(`Correlated`); session states under way grow from what was accepted to what was
sent (`Generations`); and the views that sender and receiver have of a snapshot
are the two ends of one chain of views that the records under way lead along,
each fitting where it stands (`Chained`). What an end has to know about its peer
ends where one of the two is rejecting, closing or closed (`Hearing`). A step is
reading at most one record and queueing at most one (`Exchange`), writing a front
part of the queue (`Sending`), or closing (`Finishing`); each handler is shown to
be one of them.

`MessagesArriveInOrder` shows `DeliveredInOrder` from the same step facts and one
more conjunct, `InOrder`: what the application of one end has posted is what the
other end has delivered, then what the kernel holds, then what is left in the
sender's queue, each reduced to the messages an application sees (`Shown`,
`Visible`). From the moment an end no longer reads, or its peer has closed, what
was delivered is a prefix. `Shown` is a recursive function over a history, so its
lemmas (`ShownDefinition`, `ShownFacts`) are proved by induction on the length:
the library's induction theorems take an operator as a parameter, but its `WFMin`
and `NatLessThanWellFounded` do not, and from these two `SetInduction` follows,
which is instantiated with the set of the lengths the lemma holds for.

**Resources** (`ServerResourcesProofs`). `TableStaysConsistent`,
`BasesStayClean` and `LeaversLeaveNoTrace` rest on `TableInv`. `TableIsConsistent`
is not inductive: it allows a cycle of windows beside the tree, which no
destruction would reach, and it says nothing of what an operation that is queued
now will find when it commits. `Whole` is the table by itself: the root is above
every window (`Rooted`), a window lists exactly the windows that name it as
parent, an owner's list is exactly what it owns and nothing twice, what hangs on
a drawable finds it, totals are exact and within the limits, and map states
follow from the tree (`Derived`). `Queued` is what a deferred operation keeps
until it commits: its client is in service and the identifier it creates is its
own and still free (`Standing`); the client of a cleanup has gone, its base is
reserved, and the trees captured for it still hold every window it owns
(`Cleaning`). `Based` gives a base to one client at most and to none while it is
reserved, `Held` says that a resource belongs to the client that has its base or
waits for that client's queued cleanup, and `Alone` is the stand-alone server.
The proof has three layers. Each operation of the table keeps it whole: those
that change resources in place (`Harmless`) and those that make some come or go
(`Becomes`), with the recursion over lists of children and of owned resources.
`Evolves` bounds what any of them does to the resources of others, and with it
the queue and the bases survive. Last, each of the forty-odd requests is shown to
be within `Requests`, which keeps `TableInv` (`RequestKeeps`); arrival, departure
and the three ends of a deferred operation have proofs of their own. `Ancestors`
is defined as a least set, not by recursion, so induction over the tree
(`TreeInduction`) follows from its definition.

The assumptions are `ConstantsAssumption`, `CoordinatorAssumption`,
`BridgeAssumption`, `ContentAssumption`, `OutputAssumption`,
`CompositorAssumption`, `LauncherAssumption`, `IpcAssumption` and
`ResourcesAssumption`, which only type and bound the constants (the windows of `ContentAssumption` are finitely many, as
XIDs have 32 bits: the new buffers of a frame are numbered one by one; the limits
of `IpcAssumption` are above zero, as `defaulted` and `validate_config` make
them); TLC evaluates them in the runs.

Only model-checked:

- liveness, whose fairness and ENABLED are beyond the prover;
- the conversions (`WireCodec`, `OutputLayout`, `OutputFrames`) and the policy
  (`WindowPolicy`), whose properties say what recursive operators compute over
  whole data structures;
- the invariants of `InputRouting`. They relate what the server holds now to what
  the events still queued will make of it, through all handlers of a turn, the
  resets among them; TLC checks them, no proof was attempted.

## 7. Counterexamples kept

Configurations of disagreements between the code and what the repository says
of it. They are not among the runs; each is reproduced with
`tlc -config <name>.cfg <module>`, which finds the named property violated.

| configuration (module) | property | what happens | what it contradicts |
|---|---|---|---|
| `MC_CleanupCollision` (`MC_Lifecycle`) | `AcceptedCanBeCommitted` | client A leaves; B creates a window before A's cleanup starts; the cleanup's rebase (`lifecycle_coordinator.cpp:25`) erases B's window; what both peers accept then cannot be committed, and the server stops | `docs/decisions/0008-three-process-window-lifecycle.md:21` "other clients may continue safe work" |
| `MC_StalePolicyChange` (`MC_Lifecycle`) | `IntentNeverReverts` | a PolicyChange queued behind a Map writes the old map request back (`lifecycle_coordinator.cpp:70`) | `tests/unit/lifecycle_coordinator_test.cpp:277` "Configure rebase preserves a preceding Map intent" |
| `MC_StrandedOperation` (`MC_Lifecycle`) | `EveryFrameResumes` | an operation is queued paused behind a cursor frame; the frame is refused (`integrated_runtime_work.cpp:56`), which resumes nothing; if the pointer has meanwhile come back to what was published, no frame is sent again (`cursor_runtime.cpp:58`) and the client stays blocked until another one comes | `docs/protocols/x11-milestone-6.md:20` "Lifecycle operations are deferred behind a per-client barrier until policy and compositor metadata are accepted." |
| `MC_LostScene` (`RuntimeBridge`) | `AcknowledgedStateReplayed` | output model: gwm is lost with a compositor transaction in flight; the compositor is reconnected too, but `output_scene_submitted_` is not reset (`runtime_bridge.cpp:181`) and its scene is not replayed | `src/glasswyrmd/compositor_peer.cpp:200` "so bootstrap replays it into the fresh compositor" |
| `MC_LostDamage` (`MC_ContentPublication`) | `RefusalKeepsDamage` | a drawing is pending, a ConfigureWindow makes the window narrower, gwcomp refuses: the drawing outside the narrower window is forgotten (`content_presenter.cpp:54`) | `docs/rendering/M7_CONTENT_PUBLICATION.md:87` "Canonical pixels remain protocol truth after presentation failure" |
| `MC_BareSubwindow` (`MC_ContentPublication`) | `SubwindowsAreShown` | a subwindow is mapped before its window: the frame that shows the window composes it with the map states before the commit, and its damage is cleared; a resize of a shown window publishes the bare storage in the same way, since the composed subtree has the old size (`content_presenter.cpp:128`). The subwindow stays unseen until it is damaged again (the server sends Expose events, and paints nothing itself) | `docs/rendering/M9_CHILD_WINDOW_COMPOSITION.md:11` "Its viewable InputOutput descendants are walked recursively in X11 child stacking order." |
| `MC_LeavingClient` (`MC_ContentPublication`) | `LeavingIsHarmless` | a client disconnects while gwcomp has its operation; the rollback starts with the presenter's frame in flight (`lifecycle_coordinator.cpp:197`) and cannot be sent; the server stops | `tests/unit/lifecycle_coordinator_test.cpp:161` "canceled operation completes only after rollback" |
| `MC_CompositorRestart` (`MC_ContentPublication`) | `RestartIsSurvived` | gwcomp is lost and a lifecycle request comes before it is back: it is not parked (`lifecycle_runtime.cpp:447`), the bridge refuses it, the server stops | `docs/rendering/M7_CONTENT_PUBLICATION.md:93` "without disconnecting X11 clients" |
| `MC_EarlyResume` (`CompositorProcess`) | `ResumesAfterAcknowledgement` | commits are dispatched while the resume of the session is still unanswered (`gwcomp/runtime_reactor.cpp:343`) | `docs/output/M10_VT_LIFECYCLE.md:29` "Producer processing resumes only after real input acknowledges a successful resume." |
| `MC_LeavingTool` (`OutputConfiguration`) | `LeavingToolIsHarmless` | a tool disconnects after its commit was submitted; the end of the transaction cannot resume the lifecycle work that waits (`output_configuration_runtime.cpp:214`), and the server stops with both peers there | `docs/output/M13_LAYOUT_TRANSACTIONS.md:42` "Disconnecting the submitting tool does not corrupt an already submitted transaction." |
| `MC_UnreportedAbort` (`MC_IpcConnection`) | `DisconnectReportsSnapshot` | a receive queue overflows in the middle of a snapshot; the connection closes without reporting the abort (`ipc/connection_transport.cpp:342`) | `docs/ipc/GWIPC_WIRE_V1.md:175` "Disconnect reports an active incoming snapshot as aborted." |
| `MC_StrandedCursor` (`MC_Conversions`) | `CursorGoesAnywhere` | the pointer is in a gap of the desktop and the cursor's image reaches an output that is not primary: `cursor_primary` falls back to the layout's primary output (`output_scene_projection.cpp:33`), which is not among the surface's memberships, so the wire's check (`ipc/wire/output_contract.cpp:119`) refuses the record, the cursor frame cannot be sent, and the server stops | `docs/decisions/0015-output-model-and-scaling.md:37` "Enabled output rectangles may have gaps" |
| `MC_DanglingSibling` (`MC_WindowPolicy`) | `DestructionIsCarriedOut` | a window that others name as sibling or transient parent is destroyed; the name stays (`server_state.hpp:194`) and gwm refuses the snapshot, so the DestroyWindow or cleanup is rejected | `docs/protocols/x11-milestone-2.md:23` "Recursively destroys a non-root window tree." |

`MC_StalePolicyChange` has a relative: a ConfigureWindow without a stack mode
writes back the stack fields it did not ask for. `RebaseKeepsOwnRequest` and the
runs therefore ask what an operation keeps, not what it overwrites.

## 8. Met while modelling

Observations about the code without a configuration of their own.

- **Lifecycle.** A subwindow that is created while the Destroy of its top-level
  is under way makes `commit_destroy_plan` refuse, which is fatal
  (`lifecycle_runtime.cpp:370`; `CommitFails` in `ServerResources`). The rebase
  of a Focus operation does not copy the raise of an interactive press
  (`RebaseKeepsOwnRequest` excepts it). When gwm has accepted a proposal whose
  answer `apply_policy_result` cannot use, the operation fails without a rollback
  and gwm keeps the proposal (`integrated_runtime_work.cpp:168`, `PolicyUnusable`);
  `AnswersAreUsable` finds no such answer. While the bridge is ready no deadline bounds the wait for an answer, although
  `docs/architecture/M6_RUNTIME_TOPOLOGY.md:54` speaks of one.
- **Output configuration.** A second commit is not answered `Busy`
  (`M13_LAYOUT_TRANSACTIONS.md:41`): `consume_commit` disconnects the tool. A
  commit while a peer reconnects ends the server. Lifecycle requests can starve
  a configuration. A reset of the compositor rejects a commit that could still
  succeed. A headless mode outside the inventory can never be installed
  (`randr_state.cpp:11`, `docs/extensions/M13_RANDR.md:18`).
- **Compositor.** Switching away and back before the first frame, with the
  output disabled, or after the producer left makes the resume fatal. Rejecting
  an inventory peer during a flip abandons the flip (`ScreenIsCommitted`
  excludes that state), and while waiting leaves the session failed and the
  switch unanswered (`refused` in `ReleaseIsAnswered`). A producer that is
  validated while suspended is taken for active.
- **Connections.** FRAME_COMMIT and FRAME_ACKNOWLEDGEMENT differ in the
  capability they need. A full per-kind table refuses, a full shared table
  closes. There is no flow control. A reply that is a ProtocolError leaves the
  pending entry of its kind. Unread records at a close reset the peer.
- **Resources.** A deferred property change over the limit is fatal, a deferred
  append is lost. A window may name a cursor that is gone. In the integrated
  server a departed client's grabs, RandR selections and redirections are not
  cleaned up (`M12_RANDR.md:84`, `M12_RENDER_COMPOSITE.md:105`), so
  `LeavesNoTrace` speaks of the stand-alone server. The destroy paths differ in
  what they take with them; the delete of GetProperty is not deferred.
- **Window policy.** 253 and more top-level windows overflow the queue of 256
  records (`peer_transport.cpp:23`).
- **Input.** A focus change remembers the old focus from the request
  (`M8_FOCUS_POLICY.md:12`); a key is converted before the focus it is delivered
  to; a release consumed by an interactive move leaves the automatic grab;
  motion during an interaction produces no crossing events; an explicit grab may
  be left to a client that has gone; a rejected cursor frame that need not be
  sent again does not resume paused lifecycle work (`s.replay` in `Quiet`); more
  than `kMaximumQueuedEvents` end the server; synthetic input ignores grabs.
- **Frames.** `DamageRegion` holds 4096 rectangles, the renderers accept 1024. A
  root of one logical pixel passes `validate_layout` and fails later because it
  is 0 mm wide; it is taken back. The layout validation ignores colour, the
  scene requires sRGB.
- **Codecs.** Enumerations wider than their wire field wrap; some boolean bytes
  are normalised and others refused.
- **Launcher.** A socket that gets the inode of the stale one is never
  recognised, so the start times out.

## 9. Not modelled

- Pixel arithmetic: drawing, RENDER compositing, blending and GLES rendering.
  Sequential, and compared with golden images by the tests.
- The X11 request and reply codecs, error codes, atoms and queries: the models
  start behind the decoded request.
- The option parsing of all programs but the launcher, reports, dumps, probing tools, the diagnostic clients.
- DRM property plumbing: the kernel's answer to a commit is a choice.
- Key repeat beyond its reset; scaled windows, more than one subwindow of a
  window and the byte limit in the content presenter; the conversion of
  selections between clients.
- Composition of all modules in one: their interfaces are checked separately, as
  section 2 says.

## 10. What could follow

The byte limit of the buffer store in `ContentPublication`; the integrated turn
composed of coordinator, bridge and presenters in place of `foreign`; and proofs
for `InputRouting`, which would first need its handlers' effects on the held
keys and buttons stated as lemmas, one handler at a time.
