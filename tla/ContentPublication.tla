------------------------- MODULE ContentPublication -------------------------
(***************************************************************************)
(* How the pixels of the windows reach the screen (--software-content):    *)
(* the content presenter of glasswyrmd and its published buffers           *)
(* (content_presenter.cpp, published_buffer.cpp), the part of the server   *)
(* that submits frames (integrated_runtime_work.cpp, lifecycle_runtime.cpp)*)
(* and the buffers and the screen of gwcomp (compositor.cpp,               *)
(* presentation_transaction.cpp).                                          *)
(*                                                                         *)
(* A pixel is the number of the drawing that wrote it and a window is a    *)
(* row of pixels, so damage is a set of places and a width a number of     *)
(* places.  A window has one subwindow, over fixed places of its row: what *)
(* is published is the composition of the two.  The bridge is reduced to   *)
(* the compositor frame in flight; the policy round trip before a lifecycle*)
(* frame does not touch the presenter and belongs to the request.  Profile:*)
(* no cursor, no scaled windows, synchronization None, and less than       *)
(* kMaximumBytes of buffers.                                               *)
(***************************************************************************)
EXTENDS Naturals, SequencesExt

CONSTANTS
    Windows,         \* the XIDs, finitely many
    Widths,          \* Widths[w]: the widths clients give window w
    Covered,         \* Covered[w]: the places of its subwindow, none without one
    MaxDraws,        \* bound on the drawing requests of a behaviour
    MaxRequests,     \* bound on the lifecycle requests
    MaxRejections,   \* bound on the frames gwcomp refuses
    MaxLosses        \* bound on the losses of gwcomp

ASSUME ContentAssumption ==
    /\ IsFiniteSet(Windows)
    /\ Widths \in [Windows -> SUBSET (Nat \ {0})]
    /\ Covered \in [Windows -> SUBSET (Nat \ {0})]
    /\ {MaxDraws, MaxRequests, MaxRejections, MaxLosses} \subseteq Nat

VARIABLES
    committed,       \* LifecycleCoordinator::committed_
    phase,           \* LifecycleCoordinator::phase_
    canceled,        \* canceled flag of the active operation
    pixels,          \* storage of the windows in the resource table
    child,           \* the subwindow of each window: map_requested and storage
    content,         \* ContentPresenter::windows_
    current,         \* PublishedBufferStore::current_
    retired,         \* PublishedBufferStore::retired_, a set of [id, reason]
    discarded,       \* ContentPresenter::discarded_buffers_
    memory,          \* the shared memory of buffer i is memory[i]
    inFlight,        \* ContentPresenter::in_flight_
    attempted,       \* content_replay_attempted_
    frame,           \* the bridge's transaction with the compositor
    replay,          \* CompositorPeer::replay_input_
    link,            \* is gwcomp connected and bootstrapped
    releases,        \* BufferRelease messages on their way to the server
    gwcomp,          \* the compositor's scene, attachments and mappings
    screen,          \* what the compositor has drawn of each window
    fatal,           \* why the server stops, "no" while it runs
    forgotten,       \* history: places a refused frame was too narrow for
    bare,            \* history: places a commit left composed as before it
    count            \* the bounded counters

server == <<committed, phase, canceled, pixels, child>>
presenter == <<content, current, retired, discarded, memory, inFlight, bare>>
bridge == <<frame, replay, link, attempted>>
peer == <<releases, gwcomp, screen>>
outcome == <<fatal, forgotten>>
vars == <<server, presenter, bridge, peer, outcome, count>>

-----------------------------------------------------------------------------
(* Snapshots and pixels *)

\* A window of a lifecycle snapshot: width 0 is a window that does not exist.
Absent == [width |-> 0, shown |-> FALSE]
WindowStates(w) == {Absent} \cup [width : Widths[w], shown : BOOLEAN]
Present(s) == {w \in Windows : s[w].width > 0}
Places(n) == 1..n

\* PixelStorage::resize_preserving_overlap, and create for a new window.
Resize(p, n) == [i \in Places(n) |-> IF i <= Len(p) THEN p[i] ELSE 0]

\* PublishedWindowBuffer::copy_from.
Copy(to, from, places) == [i \in DOMAIN to |-> IF i \in places THEN from[i] ELSE to[i]]

NoBuffers == [w \in Windows |-> 0]
NoFrame == [kind |-> "None", snapshot |-> [w \in Windows |-> Absent],
            buffers |-> NoBuffers, damage |-> [w \in Windows |-> {}]]
NoChild(w) == [mapped |-> FALSE, pixels |-> [i \in Covered[w] |-> 0]]
NoContent == [pending |-> {}, inflight |-> {}, storage |-> <<>>, buffer |-> 0]
EmptyPeer == [scene |-> [w \in Windows |-> Absent], attached |-> NoBuffers,
              pending |-> NoBuffers, mapped |-> {}]

Init ==
    /\ committed = [w \in Windows |-> Absent] /\ phase = "Idle" /\ canceled = FALSE
    /\ pixels = [w \in Windows |-> <<>>] /\ child = [w \in Windows |-> NoChild(w)]
    /\ content = [w \in Windows |-> NoContent]
    /\ current = NoBuffers /\ retired = {} /\ discarded = {} /\ memory = <<>>
    /\ inFlight = FALSE /\ attempted = FALSE
    /\ frame = NoFrame
    /\ replay = [snapshot |-> [w \in Windows |-> Absent], buffers |-> NoBuffers]
    /\ link = TRUE /\ releases = {} /\ gwcomp = EmptyPeer
    /\ screen = [w \in Windows |-> <<>>]
    /\ fatal = "no" /\ forgotten = [w \in Windows |-> {}]
    /\ bare = [w \in Windows |-> {}]
    /\ count = [draws |-> 0, requests |-> 0, rejections |-> 0, losses |-> 0]

Running == fatal = "no"
Bounded(c, max) == count[c] < max /\ count' = [count EXCEPT ![c] = @ + 1]

\* SignalRuntime::request_stop, or a service that returns false.
Stop(why) == fatal' = why /\ UNCHANGED <<server, presenter, bridge, peer, forgotten>>

-----------------------------------------------------------------------------
(* The presenter *)

\* A subwindow is seen when it is mapped and the committed window is shown
\* (recompute_map_states_from).
Viewable(w) == child[w].mapped /\ committed[w].shown

\* compose_top_level_subtree: the window with its viewable subwindow over it.
Composed(w) ==
    [i \in DOMAIN pixels[w] |->
        IF Viewable(w) /\ i \in Covered[w] THEN child[w].pixels[i] ELSE pixels[w][i]]

\* stage_storage: the pixels window w will have with width n.
StagedStorage(w, n) ==
    IF Len(content[w].storage) = n THEN content[w].storage ELSE Resize(pixels[w], n)

\* What a frame shows of window w with width n: the composed subtree, which has
\* the committed width, or with another width the staged storage alone.
Source(w, n) == IF n = Len(pixels[w]) THEN Composed(w) ELSE StagedStorage(w, n)

\* ensure_buffer keeps the current buffer if it fits and is not to be replaced.
Fresh(targets, s, force) ==
    {w \in targets : \/ current[w] = 0
                     \/ Len(memory[current[w]]) # s[w].width
                     \/ force}

\* prepare_lifecycle, prepare_replay (force) and prepare_content: copy the
\* pending damage of the targets of snapshot s into their buffers, into fresh
\* ones completely, and hand the frame to the bridge.  The damage is taken from
\* the entries `from', which a rejection handled in the same turn has changed.
Publish(kind, targets, s, force, from) ==
    LET fresh == Fresh(targets, s, force)
        order == SetToSeq(fresh)
        id(w) == IF w \in fresh
                 THEN Len(memory) + (CHOOSE i \in DOMAIN order : order[i] = w) ELSE 0
        dirty(w) == IF w \in fresh THEN Places(s[w].width)
                    ELSE from[w].pending \cap Places(s[w].width)
        source(w) == Source(w, s[w].width)
    IN  /\ memory' =
              [i \in 1..(Len(memory) + Len(order)) |->
                  IF i > Len(memory) THEN source(order[i - Len(memory)])
                  ELSE IF \E w \in targets \ fresh : current[w] = i
                  THEN LET w == CHOOSE w \in targets \ fresh : current[w] = i
                       IN  Copy(memory[i], source(w), dirty(w))
                  ELSE memory[i]]
        /\ content' =
              [w \in Windows |->
                  IF w \in targets
                  THEN [pending |-> {}, inflight |-> dirty(w), buffer |-> id(w),
                        storage |-> IF kind = "Content" THEN from[w].storage
                                    ELSE StagedStorage(w, s[w].width)]
                  ELSE from[w]]
        /\ bare' = [w \in Windows |-> IF w \in targets THEN bare[w] \ dirty(w) ELSE bare[w]]
        /\ frame' = [kind |-> kind, snapshot |-> s,
                     buffers |-> [w \in Windows |-> IF w \in targets THEN id(w) ELSE 0],
                     damage |-> [w \in Windows |->
                                    IF w \in targets /\ s[w].shown THEN dirty(w) ELSE {}]]
        /\ inFlight' = TRUE

\* The windows whose staged buffer the accepted frame makes current: the old
\* buffer is retired until gwcomp releases it (retire, install).
Replacing == {w \in Windows : content[w].buffer # 0}
Retire(ws, reason) == {[id |-> current[w], reason |-> reason] :
                           w \in {v \in ws : current[v] # 0}}

\* Mutant: the presenter does not notice that its frame has been answered.
AcceptContentInFlight ==
    /\ content' = [w \in Windows |-> [content[w] EXCEPT !.inflight = {}, !.buffer = 0]]
    /\ UNCHANGED <<current, retired, discarded, memory, inFlight, bare>>

\* accept_content.
AcceptContent ==
    /\ current' = [w \in Windows |-> IF w \in Replacing THEN content[w].buffer ELSE current[w]]
    /\ retired' = retired \cup Retire(Replacing, "Replaced")
    /\ content' = [w \in Windows |->
                      [pending |-> content[w].pending, inflight |-> {},
                       storage |-> content[w].storage, buffer |-> 0]]
    /\ inFlight' = FALSE
    /\ UNCHANGED <<discarded, memory, bare>>

\* The storage an accepted frame gives a window: the staged one, with what was
\* drawn since.
LatestStorage(w) ==
    IF pixels[w] # <<>> /\ content[w].pending # {}
    THEN Resize(pixels[w], Len(content[w].storage))
    ELSE content[w].storage

\* accept_lifecycle: staged storages and buffers become the windows'; buffers of
\* removed windows are retired, their entries erased.  The commit makes a mapped
\* subwindow viewable, or unviewable, and damages nothing.
AcceptLifecycle(s) ==
    LET kept == Present(s)
    IN  /\ pixels' = [w \in Windows |-> IF w \in kept THEN LatestStorage(w) ELSE <<>>]
        /\ current' = [w \in Windows |->
                          IF w \notin kept THEN 0
                          ELSE IF w \in Replacing THEN content[w].buffer ELSE current[w]]
        /\ retired' = retired \cup Retire(Replacing \cap kept, "Replaced")
                              \cup Retire(Windows \ kept, "SurfaceRemoved")
        /\ content' = [w \in Windows |->
                          IF w \in kept
                          THEN [pending |-> content[w].pending, inflight |-> {},
                                storage |-> <<>>, buffer |-> 0]
                          ELSE NoContent]
        /\ child' = [w \in Windows |-> IF w \in kept THEN child[w] ELSE NoChild(w)]
        /\ bare' = [w \in Windows |->
                       IF w \notin kept THEN {}
                       ELSE IF child[w].mapped /\ s[w] # committed[w]
                       THEN bare[w] \cup Covered[w] ELSE bare[w]]
        /\ inFlight' = FALSE
        /\ UNCHANGED <<discarded, memory>>

\* Mutant: the damage of a refused frame is forgotten.
RejectedWithoutDamage(keepStorage) ==
    [w \in Windows |-> [content[w] EXCEPT !.inflight = {}, !.buffer = 0,
                           !.storage = IF keepStorage THEN @ ELSE <<>>]]

\* reject_content and reject_lifecycle: the damage is pending again and staged
\* buffers are closed; reject_lifecycle drops the staged storage too.
Rejected(keepStorage) ==
    [w \in Windows |->
        [pending |-> content[w].pending \cup content[w].inflight, inflight |-> {},
         storage |-> IF keepStorage THEN content[w].storage ELSE <<>>, buffer |-> 0]]
StagedBuffers == {content[w].buffer : w \in Replacing}

\* Mutant: the buffers of a refused frame are not remembered.
RejectLifecycleUnrecorded ==
    /\ content' = Rejected(FALSE)
    /\ inFlight' = FALSE
    /\ UNCHANGED <<current, retired, discarded, memory, bare>>

RejectLifecycle ==
    /\ content' = Rejected(FALSE)
    /\ discarded' = discarded \cup StagedBuffers
    /\ inFlight' = FALSE
    /\ UNCHANGED <<current, retired, memory, bare>>

\* peer_disconnected.
PeerDisconnected ==
    /\ content' = Rejected(TRUE)
    /\ retired' = {} /\ discarded' = {} /\ inFlight' = FALSE
    /\ UNCHANGED <<current, memory, bare>>

\* release: CONSUMER_DONE closes a discarded buffer, else a retired one with
\* the reason it was retired for.
Recognised(r) == \/ r.reason = "ConsumerDone" /\ r.id \in discarded
                 \/ r \in retired

\* The descriptors of these buffers are open.
Open == {current[w] : w \in Windows} \cup StagedBuffers \cup {r.id : r \in retired}
Sendable(buffers) == {buffers[w] : w \in Windows} \ {0} \subseteq Open

-----------------------------------------------------------------------------
(* The compositor *)

\* The scene and the attachments a frame leads to: a snapshot starts from the
\* committed attachments and loses those of omitted surfaces (begin_snapshot,
\* end_snapshot), an incremental frame adds to the pending ones.
SceneOf(f) == IF f.kind = "Content" THEN gwcomp.scene ELSE f.snapshot
AttachmentsOf(f) ==
    [w \in Windows |->
        IF f.kind # "Content" /\ w \notin Present(f.snapshot) THEN 0
        ELSE IF f.buffers[w] # 0 THEN f.buffers[w]
        ELSE IF f.kind = "Content" THEN gwcomp.pending[w] ELSE gwcomp.attached[w]]
Mapped(f) == gwcomp.mapped \cup ({f.buffers[w] : w \in Windows} \ {0})

\* validate_surface_attachment, prepare_output_frame.
Valid(f) ==
    LET scene == SceneOf(f)
        attached == AttachmentsOf(f)
    IN  /\ \A w \in Present(scene) :
              /\ scene[w].shown \/ gwcomp.scene[w] = Absent => attached[w] # 0
              /\ attached[w] # 0 => /\ attached[w] \in Mapped(f)
                                    /\ Len(memory[attached[w]]) = scene[w].width
        /\ \A w \in Windows \ Present(scene) : attached[w] = 0

\* calculate_retired_buffers.
Retirements(f) ==
    LET attached == AttachmentsOf(f)
        old == {w \in Windows : gwcomp.attached[w] \notin {0, attached[w]}}
        reason(w) == IF attached[w] # 0 THEN "Replaced"
                     ELSE IF w \in Present(SceneOf(f)) THEN "ConsumerDone"
                     ELSE "SurfaceRemoved"
        used == {attached[w] : w \in Windows} \cup {gwcomp.attached[w] : w \in old}
    IN  {[id |-> gwcomp.attached[w], reason |-> reason(w)] : w \in old}
        \cup {[id |-> b, reason |-> "ConsumerDone"] : b \in Mapped(f) \ used}

\* The compositor draws the damage, and all of a surface that has changed or
\* has another buffer (SceneModel::commit, prepare_output_frame).
Render(f) ==
    LET scene == SceneOf(f)
        attached == AttachmentsOf(f)
        whole(w) == scene[w] # gwcomp.scene[w] \/ attached[w] # gwcomp.attached[w]
    IN  [w \in Windows |->
            IF ~scene[w].shown THEN <<>>
            ELSE IF whole(w) THEN memory[attached[w]]
            ELSE Copy(screen[w], memory[attached[w]], f.damage[w])]

\* An accepted frame (promote); the acknowledgement precedes the releases.
Presented(f) ==
    LET out == Retirements(f)
    IN  /\ Valid(f)
        /\ gwcomp' = [scene |-> SceneOf(f), attached |-> AttachmentsOf(f),
                      pending |-> AttachmentsOf(f),
                      mapped |-> Mapped(f) \ {r.id : r \in out}]
        /\ screen' = Render(f)
        /\ releases' = releases \cup out

\* A frame that is not valid is refused; a valid one may be (the output fails).
\* It promotes nothing but stays mapped.
Refuse(f) ==
    /\ Valid(f) => count.rejections < MaxRejections
    /\ count' = [count EXCEPT !.rejections = @ + 1]
    /\ gwcomp' = [gwcomp EXCEPT !.pending = AttachmentsOf(f), !.mapped = Mapped(f)]
    /\ UNCHANGED <<screen, releases>>

\* compositor_buffer_replay::promote and promote_content.
Promote(f) ==
    replay' = [snapshot |-> IF f.kind = "Content" THEN replay.snapshot ELSE f.snapshot,
               buffers |->
                   [w \in Windows |->
                       IF f.kind # "Content" /\ w \notin Present(f.snapshot) THEN 0
                       ELSE IF f.buffers[w] # 0 THEN f.buffers[w] ELSE replay.buffers[w]]]

-----------------------------------------------------------------------------
(* The actions *)

\* A drawing request changes the window's pixels at once and is remembered as
\* damage; a staged storage of the same width is the same object.
Draw(w, places) ==
    /\ Running /\ Bounded("draws", MaxDraws)
    /\ w \in Present(committed) /\ places # {}
    /\ LET new == [i \in Places(Len(pixels[w])) |-> count.draws + 1]
       IN  /\ pixels' = [pixels EXCEPT ![w] = Copy(@, new, places)]
           /\ content' = [content EXCEPT
                 ![w].pending = @ \cup places,
                 ![w].storage = IF Len(@) = Len(pixels[w]) THEN Copy(@, new, places) ELSE @]
    /\ bare' = [bare EXCEPT ![w] = @ \ places]
    /\ UNCHANGED <<committed, phase, canceled, child, current, retired, discarded, memory,
                   inFlight, bridge, peer, outcome>>

\* The damage of a subwindow is damage of the part of its window it lies in
\* (translate_window_damage); it reaches the presenter whether or not it is seen.
DamageParent(w, places) ==
    LET damage == places \cap Places(Len(pixels[w]))
    IN  /\ content' = [content EXCEPT ![w].pending = @ \cup damage]
        /\ bare' = [bare EXCEPT ![w] = @ \ damage]
        /\ UNCHANGED <<committed, phase, canceled, pixels, current, retired, discarded,
                       memory, inFlight, bridge, peer, outcome>>

\* A drawing request to the subwindow.
DrawChild(w, places) ==
    /\ Running /\ Bounded("draws", MaxDraws)
    /\ w \in Present(committed) /\ places # {}
    /\ child' = [child EXCEPT ![w].pixels =
                    [i \in Covered[w] |-> IF i \in places THEN count.draws + 1 ELSE @[i]]]
    /\ DamageParent(w, places)

\* The subwindow is mapped or unmapped, at once: no lifecycle operation, and
\* damage only if it appears or disappears (add_local_lifecycle_effects).
MapChild(w) ==
    /\ Running /\ Bounded("draws", MaxDraws)
    /\ w \in Present(committed) /\ Covered[w] # {}
    /\ child' = [child EXCEPT ![w].mapped = ~@]
    /\ DamageParent(w, IF committed[w].shown THEN Covered[w] ELSE {})

\* A lifecycle request of a client that gives window w another state.  While a
\* frame is in flight it waits in the queue; otherwise it starts at once, and
\* the server stops if the bridge does not take the policy submission.  With
\* the policy's result send_compositor publishes the evaluated snapshot.
Request(w, state) ==
    LET s == [committed EXCEPT ![w] = state]
    IN  /\ Running /\ phase = "Idle" /\ ~inFlight
        /\ Bounded("requests", MaxRequests)
        /\ state # committed[w]
        /\ committed[w] = Absent => ~state.shown
        /\ \/ /\ link /\ frame = NoFrame
              /\ Publish("Lifecycle", Present(s), s, FALSE, content)
              /\ phase' = "AwaitingCompositor" /\ canceled' = FALSE
              /\ UNCHANGED <<committed, pixels, child, current, retired, discarded, replay,
                             link, attempted, peer, outcome>>
           \/ ~(link /\ frame = NoFrame) /\ Stop("bridge busy")

\* The requesting client disconnects (cancel_client); the cleanup of its windows
\* is a later request that makes them absent.
Leave ==
    /\ Running /\ phase = "AwaitingCompositor" /\ ~canceled
    /\ canceled' = TRUE
    /\ UNCHANGED <<committed, phase, pixels, child, presenter, bridge, peer, outcome, count>>

\* The visible windows with damage.
Damaged == {w \in Present(committed) :
               committed[w].shown /\ content[w].pending \cap Places(committed[w].width) # {}}

\* submit_pending_content.
SubmitContent ==
    /\ Running /\ phase = "Idle" /\ link /\ frame = NoFrame /\ ~inFlight /\ Damaged # {}
    /\ Publish("Content", Damaged, committed, FALSE, content)
    /\ UNCHANGED <<server, current, retired, discarded, replay, link, attempted, peer,
                   outcome, count>>

\* An incremental frame is shown (service_peer_replay).
ContentAccepted ==
    /\ Running /\ link /\ frame.kind = "Content"
    /\ Presented(frame) /\ Promote(frame)
    /\ AcceptContent
    /\ frame' = NoFrame /\ attempted' = FALSE
    /\ UNCHANGED <<server, link, outcome, count>>

\* It is refused: everything is published again in fresh buffers, once.
ContentRejected ==
    /\ Running /\ link /\ frame.kind = "Content"
    /\ Refuse(frame)
    /\ discarded' = discarded \cup StagedBuffers
    /\ IF attempted
       THEN /\ fatal' = "content rejected"
            /\ UNCHANGED <<attempted, content, memory, frame, inFlight, bare>>
       ELSE /\ attempted' = TRUE /\ fatal' = fatal
            /\ Publish("Replay", Present(committed), committed, TRUE, Rejected(TRUE))
    /\ UNCHANGED <<server, current, retired, replay, link, forgotten>>

\* The complete replay is shown, or refused and the server stops.
ReplayAccepted ==
    /\ Running /\ link /\ frame.kind = "Replay"
    /\ Presented(frame) /\ Promote(frame)
    /\ AcceptLifecycle(committed)
    /\ frame' = NoFrame /\ attempted' = FALSE
    /\ UNCHANGED <<committed, phase, canceled, link, outcome, count>>
ReplayRejected ==
    /\ Running /\ link /\ frame.kind = "Replay"
    /\ Stop("replay rejected") /\ UNCHANGED count

\* compositor_accepted with the frame of an operation: commit_lifecycle, or the
\* rollback of an operation whose client has left.
OperationAccepted ==
    /\ Running /\ link /\ frame.kind = "Lifecycle" /\ phase = "AwaitingCompositor"
    /\ Presented(frame) /\ Promote(frame)
    /\ frame' = NoFrame
    /\ \/ /\ ~canceled
          /\ AcceptLifecycle(frame.snapshot)
          /\ committed' = frame.snapshot /\ phase' = "Idle"
       \/ /\ canceled
          /\ phase' = "RollingBackPolicy"
          /\ UNCHANGED <<committed, pixels, child, presenter>>
    /\ UNCHANGED <<canceled, link, attempted, outcome, count>>

\* compositor_rejected: the operation is rolled back.
OperationRejected ==
    /\ Running /\ link /\ frame.kind = "Lifecycle" /\ phase = "AwaitingCompositor"
    /\ Refuse(frame)
    /\ RejectLifecycle
    /\ frame' = NoFrame /\ phase' = "RollingBackPolicy"
    /\ forgotten' = [w \in Windows |-> forgotten[w] \cup
                        (IF w \in Present(frame.snapshot)
                         THEN Places(committed[w].width) \ Places(frame.snapshot[w].width)
                         ELSE {})]
    /\ UNCHANGED <<committed, canceled, pixels, child, replay, link, attempted, fatal>>

\* The policy has returned to the committed snapshot: send_compositor, which
\* fails while the presenter still has a frame in flight.
PolicyRolledBack ==
    /\ Running /\ link /\ phase = "RollingBackPolicy"
    /\ \/ /\ ~inFlight
          /\ Publish("Lifecycle", Present(committed), committed, FALSE, content)
          /\ phase' = "RollingBackCompositor"
          /\ UNCHANGED <<committed, canceled, pixels, child, current, retired, discarded,
                         replay, link, attempted, peer, outcome>>
       \/ inFlight /\ Stop("frame in flight")
    /\ UNCHANGED count

\* The end of the rollback, or its refusal, which stops the server.
RollbackAccepted ==
    /\ Running /\ link /\ frame.kind = "Lifecycle" /\ phase = "RollingBackCompositor"
    /\ Presented(frame) /\ Promote(frame)
    /\ AcceptLifecycle(committed)
    /\ frame' = NoFrame /\ phase' = "Idle" /\ canceled' = FALSE
    /\ UNCHANGED <<committed, link, attempted, outcome, count>>
RollbackRejected ==
    /\ Running /\ link /\ frame.kind = "Lifecycle" /\ phase = "RollingBackCompositor"
    /\ Stop("rollback rejected") /\ UNCHANGED count

\* The server takes a BufferRelease (service_lifecycle_work).
TakeRelease(r) ==
    /\ Running /\ link /\ r \in releases
    /\ IF Recognised(r)
       THEN /\ releases' = releases \ {r}
            /\ IF r.reason = "ConsumerDone" /\ r.id \in discarded
               THEN discarded' = discarded \ {r.id} /\ retired' = retired
               ELSE retired' = retired \ {r} /\ discarded' = discarded
            /\ UNCHANGED <<server, content, current, memory, inFlight, bare, bridge, gwcomp,
                           screen, outcome>>
       ELSE Stop("invalid release")
    /\ UNCHANGED count

\* gwcomp is lost; the presenter hears of it in the same turn.
Lose ==
    /\ Running /\ link /\ Bounded("losses", MaxLosses)
    /\ link' = FALSE
    /\ PeerDisconnected
    /\ releases' = {} /\ gwcomp' = EmptyPeer /\ screen' = [w \in Windows |-> <<>>]
    /\ UNCHANGED <<server, frame, replay, attempted, outcome>>

\* A fresh gwcomp is bootstrapped with the retained scene and the frame that
\* was in flight is submitted again; either needs open descriptors.
Bootstrapped ==
    /\ gwcomp' = [scene |-> replay.snapshot, attached |-> replay.buffers,
                  pending |-> replay.buffers,
                  mapped |-> {replay.buffers[w] : w \in Windows} \ {0}]
    /\ screen' = [w \in Windows |-> IF replay.snapshot[w].shown
                                    THEN memory[replay.buffers[w]] ELSE <<>>]
Reconnect ==
    /\ Running /\ ~link
    /\ \/ /\ Sendable(replay.buffers) /\ Sendable(frame.buffers)
          /\ Bootstrapped /\ link' = TRUE
          /\ UNCHANGED <<server, presenter, frame, replay, attempted, releases, outcome>>
       \/ ~(Sendable(replay.buffers) /\ Sendable(frame.buffers)) /\ Stop("closed descriptor")
    /\ UNCHANGED count

Next ==
    \/ \E w \in Windows : \E places \in SUBSET Places(Len(pixels[w])) : Draw(w, places)
    \/ \E w \in Windows : \E places \in SUBSET Covered[w] : DrawChild(w, places)
    \/ \E w \in Windows : MapChild(w)
    \/ \E w \in Windows : \E state \in WindowStates(w) : Request(w, state)
    \/ Leave
    \/ SubmitContent \/ ContentAccepted \/ ContentRejected
    \/ ReplayAccepted \/ ReplayRejected
    \/ OperationAccepted \/ OperationRejected
    \/ PolicyRolledBack \/ RollbackAccepted \/ RollbackRejected
    \/ \E r \in releases : TakeRelease(r)
    \/ Lose \/ Reconnect

Answer == \/ ContentAccepted \/ ContentRejected \/ ReplayAccepted \/ ReplayRejected
          \/ OperationAccepted \/ OperationRejected \/ RollbackAccepted \/ RollbackRejected

Spec == Init /\ [][Next]_vars

\* A connected gwm or gwcomp answers, a lost one is started again and the
\* server's loop submits what is pending.
FairSpec == Spec /\ WF_vars(Answer) /\ WF_vars(PolicyRolledBack)
                 /\ WF_vars(SubmitContent) /\ WF_vars(Reconnect)

-----------------------------------------------------------------------------
(* Properties *)

AnyWidth == {0} \cup UNION {Widths[w] : w \in Windows}
AnyPlaces == UNION {Places(n) : n \in AnyWidth}
Pixels == UNION {[Places(n) -> 0..MaxDraws] : n \in AnyWidth}
BufferIds == 0..Len(memory)
Reasons == {"Replaced", "SurfaceRemoved", "ConsumerDone"}
Release == [id : BufferIds, reason : Reasons]

\* The variables have their types: buffer ids denote allocated buffers, a
\* window of the resource table has storage of its committed width.
TypeOK ==
    /\ \A w \in Windows : committed[w] \in WindowStates(w)
    /\ phase \in {"Idle", "AwaitingCompositor", "RollingBackPolicy", "RollingBackCompositor"}
    /\ pixels \in [Windows -> Pixels]
    /\ \A w \in Windows : /\ Len(pixels[w]) = committed[w].width
                         /\ child[w] \in [mapped : BOOLEAN, pixels : [Covered[w] -> 0..MaxDraws]]
                         /\ bare[w] \subseteq Covered[w]
    /\ content \in [Windows -> [pending : SUBSET AnyPlaces,
                                inflight : SUBSET AnyPlaces,
                                storage : Pixels, buffer : BufferIds]]
    /\ current \in [Windows -> BufferIds] /\ discarded \subseteq BufferIds
    /\ retired \subseteq Release /\ releases \subseteq Release
    /\ frame.kind \in {"None", "Lifecycle", "Content", "Replay"}
    /\ gwcomp.mapped \subseteq BufferIds
    /\ {canceled, inFlight, attempted, link} \subseteq BOOLEAN

\* gwcomp has shown an operation whose client had left (LeavingIsHarmless).
Orphaned == canceled /\ replay.snapshot # committed
Settled == Running /\ link /\ frame = NoFrame /\ phase = "Idle"

\* Every BufferRelease under way is one the presenter recognises, and every
\* buffer it keeps for gwcomp is released by one or still mapped there: the
\* server neither stops over a release nor keeps a buffer for ever.
ReleasesMatchRetirements ==
    Running /\ link /\ ~Orphaned =>
        /\ \A r \in releases : Recognised(r)
        /\ retired \subseteq releases
        /\ discarded \subseteq gwcomp.mapped \cup {r.id : r \in releases}

\* The places of a visible window where the screen is not as the client drew
\* it: the window's own pixels, under its subwindow if that is viewable.
Stale(w) == {i \in Places(committed[w].width) : screen[w][i] # Composed(w)[i]}

\* Between frames a place of a visible window that differs from the client's
\* drawing is pending damage: a resize, a restart or a refusal loses none, but
\* for the places a refused frame was too narrow for, and for those of a mapped
\* subwindow that a commit resized, showed or hid the window of, until they are
\* next damaged.
NoDamageIsLost ==
    Settled => \A w \in Windows : committed[w].shown =>
        Stale(w) \subseteq content[w].pending \cup forgotten[w] \cup bare[w]

\* With the first exception only: viewable descendants are part of what a window
\* publishes, after a resize as before it.
SubwindowsAreShown ==
    Settled => \A w \in Windows : committed[w].shown =>
        Stale(w) \subseteq content[w].pending \cup forgotten[w]

\* With the second exception only: canonical pixels stay the truth after a frame
\* was refused, so what is not on the screen yet is still pending.
RefusalKeepsDamage ==
    Settled => \A w \in Windows : committed[w].shown =>
        Stale(w) \subseteq content[w].pending \cup bare[w]

OutOfDate(w) == /\ Running /\ committed[w].shown
                /\ \/ Len(screen[w]) # Len(pixels[w])
                   \/ ~(Stale(w) \subseteq forgotten[w] \cup bare[w])

\* What a client draws into a visible window or its subwindow reaches the
\* screen, with the same exceptions, unless the window goes or the server stops.
ScreenCatchesUp == \A w \in Windows : OutOfDate(w) ~> ~OutOfDate(w)

\* A client that disconnects in the middle of an operation harms nobody.
LeavingIsHarmless == fatal \notin {"frame in flight", "invalid release"}

\* The loss of the compositor does not end the server.
RestartIsSurvived == fatal \notin {"bridge busy", "closed descriptor"}
=============================================================================
