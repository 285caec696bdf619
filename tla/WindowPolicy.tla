---------------------------- MODULE WindowPolicy ----------------------------
(***************************************************************************)
(* How glasswyrmd and the window manager gwm agree where every top-level   *)
(* window is, which are visible, how they are stacked and which has the    *)
(* focus.                                                                  *)
(*                                                                         *)
(* A client's request makes glasswyrmd propose a new set of windows        *)
(* (glasswyrmd/lifecycle_runtime.cpp); PolicyPeer sends the whole of it as *)
(* one snapshot and a commit (glasswyrmd/policy_peer.cpp); gwm collects    *)
(* the snapshot (gwm/contract_dispatch.cpp, wm/transaction.cpp), evaluates *)
(* the policy (wm/policy_*.cpp, wm/multi_output_*.cpp) and answers with    *)
(* one state per window and an acknowledgement, or only with a rejection;  *)
(* glasswyrmd checks the answer (valid_policy_result, apply_policy_result) *)
(* and derives the compositor's scene from it (lifecycle_projection.cpp,   *)
(* output_scene_projection.cpp).  gwm may be restarted at any time; it     *)
(* then knows nothing and the peer replays its last accepted snapshot.     *)
(*                                                                         *)
(* Abstracted: the compositor accepts every scene (its refusals are in     *)
(* LifecycleCoordinator); the FNV hash of a policy is the value it is      *)
(* computed from; attention, borders and bindings are only copied and left *)
(* out; which of its error codes a rejection carries is left out, since    *)
(* the server treats all of them alike.                                    *)
(***************************************************************************)
EXTENDS Integers, Sequences, FiniteSets, SequencesExt, FiniteSetsExt

CONSTANTS
  Screen,       \* [w, h] of the root window without an output model
  Layouts,      \* the output layouts to start from; NoLayout: no output model
  Relayouts,    \* the layouts an output configuration may change to
  Plan,         \* Plan[k]: the client requests offered as the k-th one
  TurnLimit,    \* kMaximumMessagesPerTurn of gwm
  QueueLimit,   \* records glasswyrmd's transport queues for gwm
  MaxRestarts   \* restarts of gwm

VARIABLES
  committed,  \* glasswyrmd: the LifecycleSnapshot of the last commit
  scene,      \* glasswyrmd: the surfaces sent to the compositor for it
  waiting,    \* glasswyrmd: the request being decided, or NoRequest
  peer,       \* glasswyrmd: PolicyPeer
  up, down,   \* records on their way to gwm, and back
  manager,    \* gwm: PeerState and its Transaction
  step,       \* requests made so far
  serial,     \* LifecycleSerialSource, and the commit counter
  restarts,   \* restarts of gwm so far
  refused     \* the requests gwm rejected

vars == <<committed, scene, waiting, peer, up, down, manager, step, serial,
          restarts, refused>>

-----------------------------------------------------------------------------
(* Arithmetic of the C++ code                                              *)

Int16 == -32768 .. 32767
MaxExtent == 16384     \* maximum_window_extent, maximum_work_extent
MaxRoot == 32767       \* maximum_root_extent

\* Integer division by two as C++ does it: towards zero.
Half(n) == IF n >= 0 THEN n \div 2 ELSE -((-n) \div 2)

Clamp(v, low, high) == IF v < low THEN low ELSE IF high < v THEN high ELSE v

Least(a, b) == IF a < b THEN a ELSE b

\* std::tuple's order.
LexLess(a, b) ==
  \E i \in DOMAIN a : a[i] < b[i] /\ \A j \in 1 .. i - 1 : a[j] = b[j]

Bit(b) == IF b THEN 1 ELSE 0

-----------------------------------------------------------------------------
(* Layouts and rectangles                                                  *)

Rect(x, y, w, h) == [x |-> x, y |-> y, w |-> w, h |-> h]
NoRect == Rect(0, 0, 0, 0)

NoLayout == [order |-> <<>>, state |-> <<>>]

Outputs(layout) == ToSet(layout.order)
Enabled(outputs, o) == o \in DOMAIN outputs /\ outputs[o].enabled

ExtentFits(origin, extent) ==
  extent # 0 /\ origin + extent - 1 <= 2147483647

IntersectionWidth(a, b) ==
  Max({0, Least(a.x + a.w, b.x + b.w) - Max({a.x, b.x})})
IntersectionHeight(a, b) ==
  Max({0, Least(a.y + a.h, b.y + b.h) - Max({a.y, b.y})})
IntersectionArea(a, b) == IntersectionWidth(a, b) * IntersectionHeight(a, b)

Overlaps(a, b) ==
  /\ a.x < b.x + b.w /\ b.x < a.x + a.w
  /\ a.y < b.y + b.h /\ b.y < a.y + a.h

ValidRectangle(r) ==
  /\ r.x >= 0 /\ r.y >= 0 /\ r.w \in 1 .. MaxExtent /\ r.h \in 1 .. MaxExtent
  /\ ExtentFits(r.x, r.w) /\ ExtentFits(r.y, r.h)

Encloses(outer, inner) ==
  /\ inner.x >= outer.x /\ inner.y >= outer.y
  /\ inner.x + inner.w <= outer.x + outer.w
  /\ inner.y + inner.h <= outer.y + outer.h

ValidScale(s) ==
  /\ s[1] # 0 /\ s[2] \in 1 .. 120
  /\ \A d \in 2 .. s[2] : ~(s[1] % d = 0 /\ s[2] % d = 0)
  /\ s[1] >= s[2] /\ s[1] <= 4 * s[2]

-----------------------------------------------------------------------------
(* gwm: is a raw state acceptable?                                         *)

EnabledOutputs(raw) == {o \in DOMAIN raw.outputs : raw.outputs[o].enabled}

ValidOutputs(raw) ==
  LET on == EnabledOutputs(raw)
      O(o) == raw.outputs[o]
  IN /\ Cardinality(DOMAIN raw.outputs) <= 8
     /\ \A o \in DOMAIN raw.outputs :
          /\ o # 0 /\ ValidScale(O(o).scale)
          /\ O(o).enabled =>
               /\ ValidRectangle(O(o).logical) /\ ValidRectangle(O(o).work)
               /\ Encloses(O(o).logical, O(o).work)
          /\ ~O(o).enabled =>
               ~O(o).primary /\ O(o).logical = NoRect /\ O(o).work = NoRect
     /\ \A o, p \in on : o # p => ~Overlaps(O(o).logical, O(p).logical)
     /\ on # {}
     /\ Cardinality({o \in on : O(o).primary}) = 1
     /\ raw.context.output \in DOMAIN raw.outputs
     /\ O(raw.context.output).primary
     /\ raw.context.work =
          Rect(0, 0, Max({O(o).logical.x + O(o).logical.w : o \in on}),
                     Max({O(o).logical.y + O(o).logical.h : o \in on}))

ValidHints(raw) == DOMAIN raw.hints \subseteq DOMAIN raw.windows \ {0}

\* known_metadata and validate_window; requested extents are never zero in
\* what the server sends, and are checked all the same.
ValidWindow(raw, id) ==
  LET w == raw.windows[id] IN
  /\ id # 0 /\ w.creation # 0
  /\ w.w \in 1 .. MaxExtent /\ w.h \in 1 .. MaxExtent
  /\ w.stackSerial = 0 => w.sibling = 0 /\ w.mode = "None"
  /\ w.stackSerial # 0 => w.mode # "None"
  /\ w.sibling # id
  /\ w.mapped => w.mapSerial # 0
  /\ ExtentFits(w.x, w.w) /\ ExtentFits(w.y, w.h)
  /\ \A other \in DOMAIN raw.windows \ {id} :
       raw.windows[other].creation # w.creation
  /\ w.transient # id
  /\ w.transient # 0 =>
       /\ w.transient \in DOMAIN raw.windows
       /\ ~raw.windows[w.transient].override
  /\ w.stackSerial # 0 =>
       /\ w.transient = 0
       /\ w.sibling # 0 =>
            /\ w.sibling \in DOMAIN raw.windows
            /\ raw.windows[w.sibling].transient = 0
            /\ raw.windows[w.sibling].override = w.override

\* The window reached from id by n steps along transient_for; 0 past the end.
TransientChain(raw, id) ==
  LET chain[n \in 0 .. Cardinality(DOMAIN raw.windows)] ==
        IF n = 0 THEN id
        ELSE IF chain[n - 1] \in DOMAIN raw.windows
             THEN raw.windows[chain[n - 1]].transient ELSE 0
  IN chain

TransientCycle(raw, id) ==
  LET n == Cardinality(DOMAIN raw.windows)
  IN TransientChain(raw, id)[n] \in DOMAIN raw.windows

\* validate: has_context and complete, the context, the outputs and hints of
\* the multi-output profile, and then every window.
Valid(raw) ==
  LET c == raw.context
      limit == IF DOMAIN raw.outputs = {} THEN MaxExtent ELSE MaxRoot
  IN /\ raw.complete /\ raw.hasContext
     /\ c.output # 0
     /\ c.work.w \in 1 .. limit /\ c.work.h \in 1 .. limit
     /\ ExtentFits(c.work.x, c.work.w) /\ ExtentFits(c.work.y, c.work.h)
     /\ IF DOMAIN raw.outputs = {}
        THEN DOMAIN raw.hints = {}
        ELSE ValidOutputs(raw) /\ ValidHints(raw)
     /\ \A id \in DOMAIN raw.windows : ValidWindow(raw, id)
     /\ \A id \in DOMAIN raw.windows : ~TransientCycle(raw, id)

-----------------------------------------------------------------------------
(* gwm: geometry                                                           *)

AppliedState(w) ==
  CASE w.override   -> "Normal"
    [] ~w.override /\ w.minimized -> "Minimized"
    [] ~w.override /\ ~w.minimized /\ w.fullscreen -> "Fullscreen"
    [] ~w.override /\ ~w.minimized /\ ~w.fullscreen /\ w.maximized -> "Maximized"
    [] OTHER -> "Normal"

Decorated(w) ==
  /\ ~w.override /\ AppliedState(w) # "Fullscreen" /\ w.decoration # "False"
  /\ w.type \in {"Utility", "Unknown"} => w.decoration = "True"

CascadeType(w) == w.type \in {"Normal", "Utility", "Unknown"}

CreationKey(raw, id) == <<raw.windows[id].creation, id>>

\* cascade_slots: the windows placed before this one.
CascadeSlot(raw, id) ==
  LET candidate(i) ==
        LET w == raw.windows[i] IN
        /\ ~w.override /\ w.transient = 0 /\ w.mapped
        /\ ~w.fullscreen /\ ~w.maximized /\ CascadeType(w)
  IN IF ~candidate(id) THEN 0
     ELSE Cardinality({i \in DOMAIN raw.windows :
            candidate(i) /\ LexLess(CreationKey(raw, i), CreationKey(raw, id))})

Cascade(slot, span) == IF span = 0 THEN 0 ELSE (slot * 32) % (span + 1)

\* place_root, with the extents clamped by its caller.
PlaceRoot(raw, id) ==
  LET w    == raw.windows[id]
      work == raw.context.work
      fw   == IF w.override THEN w.w ELSE Least(w.w, work.w)
      fh   == IF w.override THEN w.h ELSE Least(w.h, work.h)
      slot == CascadeSlot(raw, id)
  IN CASE w.override -> Rect(w.x, w.y, fw, fh)
       [] ~w.override /\ AppliedState(w) \in {"Fullscreen", "Maximized"} -> work
       [] ~w.override /\ AppliedState(w) \notin {"Fullscreen", "Maximized"}
            /\ w.transient = 0 /\ w.geometry # 0 ->
            Rect(Clamp(w.x, work.x, work.x + work.w - fw),
                 Clamp(w.y, work.y, work.y + work.h - fh), fw, fh)
       [] ~w.override /\ AppliedState(w) \notin {"Fullscreen", "Maximized"}
            /\ w.transient = 0 /\ w.geometry = 0 ->
            Rect(work.x + Cascade(slot, work.w - fw),
                 work.y + Cascade(slot, work.h - fh), fw, fh)
       [] OTHER -> Rect(0, 0, fw, fh)

Centred(parent, w, h) ==
  Rect(parent.x + Half(parent.w - w), parent.y + Half(parent.h - h), w, h)

\* place_transient: parents before children.
PlaceTransient(raw, id, parent) ==
  LET own  == PlaceRoot(raw, id)
      work == raw.context.work
      mid  == Centred(parent, own.w, own.h)
  IN Rect(Clamp(mid.x, work.x, work.x + work.w - own.w),
          Clamp(mid.y, work.y, work.y + work.h - own.h), own.w, own.h)

ManagedTransient(raw, id) ==
  ~raw.windows[id].override /\ raw.windows[id].transient # 0

SingleOutputGeometry(raw) ==
  LET place[id \in DOMAIN raw.windows] ==
        IF ManagedTransient(raw, id)
        THEN PlaceTransient(raw, id, place[raw.windows[id].transient])
        ELSE PlaceRoot(raw, id)
  IN [id \in DOMAIN raw.windows |->
        [output |-> raw.context.output, rect |-> place[id]]]

(* The multi-output profile                                                *)

Requested(w) == Rect(w.x, w.y, w.w, w.h)

HintFor(raw, id) ==
  IF id \in DOMAIN raw.hints THEN raw.hints[id] ELSE [previous |-> 0, preferred |-> 0]

InitialOutput(raw, hint) ==
  IF Enabled(raw.outputs, hint.preferred) THEN hint.preferred
  ELSE IF Enabled(raw.outputs, raw.context.output) THEN raw.context.output
  ELSE Min(EnabledOutputs(raw))

\* select_output; inherited_output_id is never given.
SelectOutput(raw, geometry, hint, retain) ==
  LET area(o) == IntersectionArea(geometry, raw.outputs[o].logical)
      on      == EnabledOutputs(raw)
      tied    == {o \in on : \A p \in on : area(p) <= area(o)}
  IN CASE retain /\ Enabled(raw.outputs, hint.previous) -> hint.previous
       [] ~(retain /\ Enabled(raw.outputs, hint.previous)) ->
            IF hint.previous \in tied THEN hint.previous
            ELSE IF hint.preferred \in tied THEN hint.preferred
            ELSE IF raw.context.output \in tied THEN raw.context.output
            ELSE Min(tied)

CascadeCandidate(w) ==
  /\ ~w.override /\ w.transient = 0 /\ w.geometry = 0
  /\ AppliedState(w) = "Normal" /\ CascadeType(w)

AssignRoot(raw, id) ==
  LET w == raw.windows[id] IN
  IF CascadeCandidate(w) THEN InitialOutput(raw, HintFor(raw, id))
  ELSE SelectOutput(raw, Requested(w), HintFor(raw, id),
                    AppliedState(w) \in {"Fullscreen", "Maximized"})

\* A slip of one: the window ends where the output begins.
VisibleCoordinateOffByOne(at, origin, extent, size) ==
  Clamp(at, origin - size, origin + extent)

\* visible_coordinate: one pixel of the window is left on the output.
VisibleCoordinate(at, origin, extent, size) ==
  Clamp(at, origin - size + 1, origin + extent - 1)

VisiblePosition(r, logical) ==
  Rect(VisibleCoordinate(r.x, logical.x, logical.w, r.w),
       VisibleCoordinate(r.y, logical.y, logical.h, r.h), r.w, r.h)

RetainVisiblePixel(raw, output, r) ==
  IF \E o \in EnabledOutputs(raw) : IntersectionArea(raw.outputs[o].logical, r) # 0
  THEN r ELSE VisiblePosition(r, raw.outputs[output].logical)

InitialPlacement(work, w, h, slot) ==
  LET fw == Least(w, work.w)
      fh == Least(h, work.h)
  IN Rect(work.x + Cascade(slot, work.w - fw), work.y + Cascade(slot, work.h - fh), fw, fh)

\* The slots of one output are counted in the order of creation.
OutputSlot(raw, id, output) ==
  LET counted(i) == CascadeCandidate(raw.windows[i]) /\ raw.windows[i].mapped IN
  IF ~counted(id) THEN 0
  ELSE Cardinality({i \in DOMAIN raw.windows :
         /\ counted(i) /\ AssignRoot(raw, i) = output
         /\ LexLess(CreationKey(raw, i), CreationKey(raw, id))})

RootGeometry(raw, id, output) ==
  LET w    == raw.windows[id]
      work == raw.outputs[output].work
  IN IF AppliedState(w) \in {"Fullscreen", "Maximized"} THEN work
     ELSE IF w.override THEN Requested(w)
     ELSE IF w.geometry = 0
          THEN InitialPlacement(work, w.w, w.h, OutputSlot(raw, id, output))
     ELSE RetainVisiblePixel(raw, output, Requested(w))

\* place_transient of the multi-output engine: on its parent's output.
TransientGeometry(raw, id, parent) ==
  LET w    == raw.windows[id]
      work == raw.outputs[parent.output].work
  IN IF AppliedState(w) \in {"Fullscreen", "Maximized"} THEN work
     ELSE RetainVisiblePixel(raw, parent.output,
            Centred(parent.rect, Least(w.w, work.w), Least(w.h, work.h)))

MultiOutputGeometry(raw) ==
  LET place[id \in DOMAIN raw.windows] ==
        IF ManagedTransient(raw, id)
        THEN LET parent == place[raw.windows[id].transient]
             IN [output |-> parent.output, rect |-> TransientGeometry(raw, id, parent)]
        ELSE LET output == AssignRoot(raw, id)
             IN [output |-> output, rect |-> RootGeometry(raw, id, output)]
  IN [id \in DOMAIN raw.windows |-> place[id]]

-----------------------------------------------------------------------------
(* gwm: visibility, focus and stacking                                     *)

WantsVisible(w) == w.mapped /\ (w.override \/ AppliedState(w) # "Minimized")

\* A plausible slip: every transient is shown for itself.
VisibilityAlone(raw) == [id \in DOMAIN raw.windows |-> WantsVisible(raw.windows[id])]

\* apply_visibility: a transient is hidden with its parent.
Visibility(raw) ==
  LET visible[id \in DOMAIN raw.windows] ==
        /\ WantsVisible(raw.windows[id])
        /\ ManagedTransient(raw, id) => visible[raw.windows[id].transient]
  IN [id \in DOMAIN raw.windows |-> visible[id]]

\* apply_focus; 0 when nothing can have the focus.
Focus(raw, visible) ==
  LET W(id) == raw.windows[id]
      candidates == {id \in DOMAIN raw.windows :
                       visible[id] /\ ~W(id).override /\ W(id).input}
      explicit   == \E id \in candidates : W(id).focusSerial # 0
      fullscreen == \E id \in candidates : AppliedState(W(id)) = "Fullscreen"
      rank(id)   == IF fullscreen /\ W(id).transient # 0 THEN 2
                    ELSE Bit(AppliedState(W(id)) = "Fullscreen")
      key(id)    == <<rank(id), IF explicit THEN W(id).focusSerial ELSE 0,
                      W(id).mapSerial, W(id).creation, id>>
  IN IF candidates = {} THEN 0
     ELSE CHOOSE id \in candidates :
            \A other \in candidates \ {id} : LexLess(key(other), key(id))

StackKey(raw, id) ==
  LET w == raw.windows[id] IN <<Bit(w.above), w.mapSerial, w.creation, id>>

Sorted(raw, ids) ==
  SetToSortSeq(ids, LAMBDA a, b : LexLess(StackKey(raw, a), StackKey(raw, b)))

Restacked(raw, band, id) ==
  LET w    == raw.windows[id]
      rest == SelectSeq(band, LAMBDA other : other # id)
      at   == CHOOSE i \in DOMAIN rest : rest[i] = w.sibling
  IN IF w.sibling = 0
     THEN IF w.mode = "Above" THEN Append(rest, id) ELSE <<id>> \o rest
     ELSE InsertAt(rest, IF w.mode = "Above" THEN at + 1 ELSE at, id)

\* A plausible slip: the newest request is applied first.
ApplyRestackNewestFirst(raw, band) ==
  LET asked == {id \in ToSet(band) : raw.windows[id].stackSerial # 0}
      key(id) == <<raw.windows[id].stackSerial, raw.windows[id].creation, id>>
  IN FoldLeft(LAMBDA b, id : Restacked(raw, b, id), band,
              SetToSortSeq(asked, LAMBDA a, b : LexLess(key(b), key(a))))

\* apply_restack: every window's last restack request, oldest first.
ApplyRestack(raw, band) ==
  LET asked == {id \in ToSet(band) : raw.windows[id].stackSerial # 0}
      key(id) == <<raw.windows[id].stackSerial, raw.windows[id].creation, id>>
  IN FoldLeft(LAMBDA b, id : Restacked(raw, b, id), band,
              SetToSortSeq(asked, LAMBDA a, b : LexLess(key(a), key(b))))

\* emit_transient_tree: a window, then its visible transients, depth first.
TransientTree(raw, visible, root) ==
  LET tree[id \in DOMAIN raw.windows] ==
        LET children == Sorted(raw, {c \in DOMAIN raw.windows :
                          /\ ~raw.windows[c].override
                          /\ raw.windows[c].transient = id /\ visible[c]})
        IN <<id>> \o FlattenSeq([i \in DOMAIN children |-> tree[children[i]]])
  IN tree[root]

\* apply_stacking_and_transient_ordering, bottom to top.
Stacking(raw, visible) ==
  LET all == DOMAIN raw.windows
      overrides == ApplyRestack(raw,
                     Sorted(raw, {id \in all : raw.windows[id].override}))
      roots == ApplyRestack(raw,
                 Sorted(raw, {id \in all : ~raw.windows[id].override
                                           /\ raw.windows[id].transient = 0}))
      full(id) == AppliedState(raw.windows[id]) = "Fullscreen"
      banded == SelectSeq(roots, LAMBDA id : ~full(id))
                \o SelectSeq(roots, full)
      shown(s) == SelectSeq(s, LAMBDA id : visible[id])
      managed == shown(banded)
  IN FlattenSeq([i \in DOMAIN managed |-> TransientTree(raw, visible, managed[i])])
     \o shown(overrides)

Position(order, id) ==
  IF id \in ToSet(order) THEN (CHOOSE i \in DOMAIN order : order[i] = id) - 1 ELSE -1

\* evaluate: the policy of a valid raw state, as the records gwm returns.
Evaluate(raw, generation) ==
  LET geometry == IF DOMAIN raw.outputs = {} THEN SingleOutputGeometry(raw)
                  ELSE MultiOutputGeometry(raw)
      visible  == Visibility(raw)
      focus    == Focus(raw, visible)
      order    == Stacking(raw, visible)
      hidden   == SetToSortSeq({id \in DOMAIN raw.windows : ~visible[id]}, <)
      state(id) ==
        LET w == raw.windows[id]
            full == ~w.override /\ visible[id] /\ AppliedState(w) = "Fullscreen"
        IN [id |-> id, transient |-> w.transient, output |-> geometry[id].output,
            rect |-> geometry[id].rect, stacking |-> Position(order, id),
            state |-> AppliedState(w), visible |-> visible[id],
            focused |-> id = focus, managed |-> ~w.override,
            override |-> w.override, decorated |-> Decorated(w),
            fullscreen |-> IF w.override THEN "Unknown" ELSE IF full THEN "True" ELSE "False",
            scanout |-> IF full /\ id # focus THEN "False" ELSE "Unknown"]
      records == order \o hidden
  IN [generation |-> generation, context |-> raw.context,
      outputs |-> raw.outputs, hints |-> raw.hints,
      windows |-> [i \in DOMAIN records |-> state(records[i])]]

NoPolicy == [generation |-> 0, context |-> [output |-> 0, work |-> NoRect],
             outputs |-> <<>>, hints |-> <<>>, windows |-> <<>>]

\* policy_hash: what the hash is computed over.
PolicyHash(policy) ==
  <<policy.generation, policy.context, policy.outputs,
    IF DOMAIN policy.outputs = {} THEN <<>> ELSE policy.hints, policy.windows>>

-----------------------------------------------------------------------------
(* gwm: collecting a snapshot                                              *)

NoContext == [output |-> 0, work |-> NoRect]
EmptyRaw == [complete |-> FALSE, hasContext |-> FALSE, generation |-> 0,
             context |-> NoContext, outputs |-> <<>>, hints |-> <<>>, windows |-> <<>>]

FreshManager ==
  [pending |-> EmptyRaw, raw |-> EmptyRaw, policy |-> NoPolicy, before |-> EmptyRaw,
   active |-> FALSE, snapshot |-> <<0, 0>>, lastCommit |-> 0, lastGeneration |-> 0]

\* Transaction::begin_snapshot, end_snapshot.
BeginSnapshot(m, r) ==
  IF m.active THEN m
  ELSE [m EXCEPT !.before = m.pending, !.pending = EmptyRaw, !.active = TRUE,
                 !.snapshot = <<r.id, r.generation>>]

EndSnapshot(m, r) ==
  IF m.active /\ m.snapshot = <<r.id, r.generation>> /\ m.pending.hasContext
  THEN [m EXCEPT !.pending.complete = TRUE, !.active = FALSE, !.before = EmptyRaw,
                 !.snapshot = <<0, 0>>]
  ELSE m

\* Transaction::upsert of a context, an output, a window and a hint.  A record
\* that is refused is only logged.
MayUpsert(m) == m.active \/ m.raw.complete

Put(f, k, v) == [i \in DOMAIN f \cup {k} |-> IF i = k THEN v ELSE f[i]]

Upsert(m, r) ==
  CASE ~MayUpsert(m) -> m
    [] MayUpsert(m) /\ r.type = "Context" ->
         IF m.active /\ m.pending.hasContext THEN m
         ELSE [m EXCEPT !.pending.context = r.value, !.pending.hasContext = TRUE]
    [] MayUpsert(m) /\ r.type = "Output" ->
         [m EXCEPT !.pending.outputs = Put(@, r.id, r.value)]
    [] MayUpsert(m) /\ r.type = "Window" ->
         [m EXCEPT !.pending.windows = Put(@, r.id, r.value)]
    [] MayUpsert(m) /\ r.type = "Hint" ->
         [m EXCEPT !.pending.hints = Put(@, r.id, r.value)]

\* Transaction::commit
Commits(m, r) ==
  LET raw == m.pending
  IN /\ ~m.active
     /\ r.generation # 0 /\ r.generation >= m.raw.generation
     /\ Valid(raw)

Acknowledged(r, policy, accepted) ==
  [type |-> "Acknowledged", id |-> r.id, generation |-> r.generation,
   applied |-> policy.generation, hash |-> PolicyHash(policy),
   count |-> Len(policy.windows), accepted |-> accepted]

\* enqueue_policy: the answer to an accepted commit.
PolicyRecords(r, policy) ==
  LET frame(type) == [type |-> type, id |-> r.id, generation |-> policy.generation,
                      count |-> Len(policy.windows)]
  IN <<frame("Begin")>>
     \o [i \in DOMAIN policy.windows |->
           [type |-> "State", value |-> policy.windows[i]]]
     \o <<frame("End"), Acknowledged(r, policy, TRUE)>>

\* dispatch_contract's POLICY_COMMIT; multi: the profile both negotiated.
HandleCommit(s, r, multi) ==
  LET m == s.manager
      reject(n) == [manager |-> n, out |-> Append(s.out, Acknowledged(r, m.policy, FALSE))]
      seen == [m EXCEPT !.lastCommit = r.id, !.lastGeneration = r.generation]
      raw  == [m.pending EXCEPT !.generation = r.generation]
      policy == Evaluate(raw, r.generation)
  IN IF r.id <= m.lastCommit \/ r.generation < m.lastGeneration THEN reject(m)
     ELSE IF (multi /\ DOMAIN m.pending.outputs = {}) \/ ~Commits(m, r)
          THEN reject(seen)
     ELSE [manager |-> [seen EXCEPT !.raw = raw, !.pending = raw, !.policy = policy],
           out |-> s.out \o PolicyRecords(r, policy)]

Handle(s, r, multi) ==
  CASE r.type = "Begin"  -> [s EXCEPT !.manager = BeginSnapshot(@, r)]
    [] r.type = "End"    -> [s EXCEPT !.manager = EndSnapshot(@, r)]
    [] r.type = "Commit" -> HandleCommit(s, r, multi)
    [] r.type \in {"Output", "Hint"} /\ ~multi -> s
    [] r.type \in {"Context", "Window"} \/ (multi /\ r.type \in {"Output", "Hint"}) ->
         [s EXCEPT !.manager = Upsert(@, r)]

-----------------------------------------------------------------------------
(* glasswyrmd: what it sends                                               *)

BoundedExtent(requested, minimum, maximum) ==
  LET raised == IF minimum # 0 THEN Max({requested, minimum}) ELSE requested
  IN IF maximum # 0 THEN Least(raised, maximum) ELSE raised

\* project_policy for one window; minimized_requested is never set.
RawWindow(w) ==
  [transient |-> w.transient, x |-> w.x, y |-> w.y,
   w |-> BoundedExtent(w.w, w.min, w.max), h |-> BoundedExtent(w.h, w.min, w.max),
   type |-> w.type, mapped |-> w.mapped, override |-> w.override,
   decoration |-> w.decoration, fullscreen |-> w.fullscreen,
   maximized |-> w.maximized, minimized |-> FALSE, above |-> w.above, input |-> w.input,
   creation |-> w.creation, mapSerial |-> w.mapSerial, focusSerial |-> w.focusSerial,
   geometry |-> w.geometry, stackSerial |-> w.stackSerial, sibling |-> w.sibling,
   mode |-> w.mode]

\* append_policy_outputs for one output: the work area is the whole output.
PolicyOutput(state) ==
  [logical |-> state.logical, work |-> state.logical, scale |-> state.scale,
   enabled |-> state.enabled, primary |-> state.primary]

ProjectPolicy(snapshot, commit) ==
  LET ids == SetToSortSeq(DOMAIN snapshot.windows, <)
      W(i) == snapshot.windows[i]
      hinted == SelectSeq(ids, LAMBDA i : snapshot.layout.order # <<>> /\ W(i).output # 0)
  IN [commit |-> commit,
      windows |-> [n \in DOMAIN ids |->
        [type |-> "Window", id |-> ids[n], value |-> RawWindow(W(ids[n]))]],
      hints |-> [n \in DOMAIN hinted |->
        [type |-> "Hint", id |-> hinted[n],
         value |-> [previous |-> W(hinted[n]).output, preferred |-> 0]]],
      outputs |-> [n \in DOMAIN snapshot.layout.order |->
        [type |-> "Output", id |-> snapshot.layout.order[n],
         value |-> PolicyOutput(snapshot.layout.state[snapshot.layout.order[n]])]]]

\* The snapshot an integrated server without an output model starts with.
Bootstrap == [commit |-> 1, windows |-> <<>>, hints |-> <<>>, outputs |-> <<>>]
NoSubmission == [commit |-> 0, windows |-> <<>>, hints |-> <<>>, outputs |-> <<>>]

\* policy_context
PolicyContext(sub) ==
  LET on == {n \in DOMAIN sub.outputs : sub.outputs[n].value.enabled}
      L(n) == sub.outputs[n].value.logical
      primary == {n \in on : sub.outputs[n].value.primary}
  IN IF sub.outputs = <<>> THEN [output |-> 1, work |-> Rect(0, 0, Screen.w, Screen.h)]
     ELSE [output |-> IF primary = {} THEN 1 ELSE sub.outputs[Max(primary)].id,
           work |-> Rect(0, 0, Max({0} \cup {L(n).x + L(n).w : n \in on}),
                               Max({0} \cup {L(n).y + L(n).h : n \in on}))]

\* valid_submission_profile
ValidProfile(sub, multi) ==
  LET ids == {sub.outputs[n].id : n \in DOMAIN sub.outputs} IN
  IF ~multi THEN sub.outputs = <<>> /\ sub.hints = <<>>
  ELSE /\ Len(sub.outputs) \in 1 .. 8 /\ Len(sub.hints) <= Len(sub.windows)
       /\ Cardinality(ids) = Len(sub.outputs) /\ 0 \notin ids
       /\ Cardinality({n \in DOMAIN sub.outputs :
            sub.outputs[n].value.enabled /\ sub.outputs[n].value.primary}) = 1
       /\ \A n \in DOMAIN sub.hints :
            {sub.hints[n].value.previous, sub.hints[n].value.preferred} \subseteq ids \cup {0}

SnapshotRecords(sub) ==
  LET frame(type) == [type |-> type, id |-> sub.commit, generation |-> sub.commit]
  IN <<frame("Begin"), [type |-> "Context", value |-> PolicyContext(sub)]>>
     \o sub.outputs \o sub.windows \o sub.hints
     \o <<frame("End"), frame("Commit")>>

FreshPeer(p) ==
  [p EXCEPT !.state = "Disconnected", !.active = FALSE, !.complete = FALSE,
            !.replaying = FALSE]

Multi == committed.layout.order # <<>>

\* PolicyPeer::submit; a record that finds the queue full makes it fail, and
\* the server stops.
Submit(p, sub, replay) ==
  LET records == SnapshotRecords(sub) IN
  IF ~ValidProfile(sub, Multi) \/ Len(up) + Len(records) > QueueLimit
  THEN peer' = [p EXCEPT !.state = "Stopped"] /\ UNCHANGED up
  ELSE /\ up' = up \o records
       /\ peer' = [p EXCEPT !.pending = sub, !.result = <<>>, !.active = FALSE,
                            !.complete = FALSE, !.replaying = replay,
                            !.state = "AwaitingReply"]

-----------------------------------------------------------------------------
(* glasswyrmd: what it makes of the answer                                 *)

States(p) == ToSet(p.result)

\* valid_policy_result
ValidResult(sub, result, multi) ==
  LET expected == {sub.windows[n].id : n \in DOMAIN sub.windows}
      enabled  == {sub.outputs[n].id : n \in
                     {m \in DOMAIN sub.outputs : sub.outputs[m].value.enabled}}
      shown    == {i \in DOMAIN result : result[i].visible}
  IN /\ {result[i].id : i \in DOMAIN result} = expected
     /\ Len(result) = Cardinality(expected)
     /\ \A i \in DOMAIN result :
          /\ IF multi THEN result[i].output \in enabled ELSE result[i].output = 1
          /\ result[i].rect.w # 0 /\ result[i].rect.h # 0
          /\ ~result[i].visible => result[i].stacking = -1
          /\ result[i].focused => result[i].visible
     /\ Cardinality({i \in DOMAIN result : result[i].focused}) <= 1
     /\ {result[i].stacking : i \in shown} = 0 .. Cardinality(shown) - 1

\* canonical_policy_hash: over the records as they arrived and the server's
\* own submission.
CanonicalHash(result, sub) ==
  LET value(s) == [id \in {s[n].id : n \in DOMAIN s} |->
                     s[CHOOSE n \in DOMAIN s : s[n].id = id].value]
  IN <<sub.commit, PolicyContext(sub), value(sub.outputs), value(sub.hints), result>>

\* PolicyPeer::drain for one record; p.state is "Failed" when it is Fatal.
Receive(p, r, multi) ==
  LET failed == [p EXCEPT !.state = "Failed"]
      matches == r.id = p.pending.commit /\ r.generation = p.pending.commit
      whole == [p EXCEPT !.state = "Synchronized", !.hash = r.hash, !.replay = p.pending,
                         !.outcome = "Accepted"]
  IN CASE p.state # "AwaitingReply" -> p
       [] p.state = "AwaitingReply" /\ r.type = "Begin" ->
            IF ~p.active /\ matches /\ r.count = Len(p.pending.windows)
            THEN [p EXCEPT !.active = TRUE] ELSE failed
       [] p.state = "AwaitingReply" /\ r.type = "State" ->
            IF p.active THEN [p EXCEPT !.result = Append(@, r.value)] ELSE failed
       [] p.state = "AwaitingReply" /\ r.type = "End" ->
            IF p.active /\ matches /\ r.count = Len(p.pending.windows)
               /\ Len(p.result) = Len(p.pending.windows)
            THEN [p EXCEPT !.active = FALSE, !.complete = TRUE] ELSE failed
       [] p.state = "AwaitingReply" /\ r.type = "Acknowledged" /\ ~r.accepted ->
            IF matches THEN [p EXCEPT !.state = "Synchronized", !.outcome = "Rejected"]
            ELSE failed
       [] p.state = "AwaitingReply" /\ r.type = "Acknowledged" /\ r.accepted ->
            IF /\ p.complete /\ matches /\ r.applied = p.pending.commit
               /\ r.count = Len(p.pending.windows)
               /\ ValidResult(p.pending, p.result, multi)
               /\ CanonicalHash(p.result, p.pending) = r.hash
               /\ p.replaying => r.hash = p.hash
            THEN whole ELSE failed

\* project_surface_outputs: the outputs a visible surface is on, in order.
Membership(layout, rect, visible) ==
  IF ~visible THEN <<>>
  ELSE SelectSeq(layout.order, LAMBDA o :
         layout.state[o].enabled /\ Overlaps(rect, layout.state[o].logical))

PreferredScale(layout, output) == layout.state[output].scale

\* apply_policy_result for one window.
AppliedWindow(w, s, layout) ==
  [w EXCEPT !.rect = s.rect, !.stacking = s.stacking, !.visible = s.visible,
            !.focused = s.focused, !.state = s.state, !.override = s.override,
            !.output = IF layout.order = <<>> THEN @ ELSE s.output]

AppliesTo(snapshot, s) ==
  LET layout == snapshot.layout IN
  /\ s.id \in DOMAIN snapshot.windows
  /\ IF layout.order = <<>> THEN s.output = 1 ELSE Enabled(layout.state, s.output)
  /\ s.rect.w \in 1 .. 65535 /\ s.rect.h \in 1 .. 65535
  /\ s.rect.x \in Int16 /\ s.rect.y \in Int16
  /\ s.focused => s.visible /\ s.managed

\* apply_policy_result succeeds: the checks that are not valid_policy_result's.
Applicable(snapshot, result) ==
  /\ Len(result) = Cardinality(DOMAIN snapshot.windows)
  /\ \A i \in DOMAIN result : AppliesTo(snapshot, result[i])

ApplyPolicyResult(snapshot, result) ==
  [snapshot EXCEPT !.windows = [id \in DOMAIN @ |->
     LET i == CHOOSE n \in DOMAIN result : result[n].id = id
     IN AppliedWindow(@[id], result[i], snapshot.layout)]]

\* project_compositor, with populate_output_scene_records: the primary output
\* first.
ProjectCompositor(snapshot) ==
  LET layout == snapshot.layout
      primary == {o \in Outputs(layout) : layout.state[o].primary}
      surface(w) ==
        [rect |-> w.rect, stacking |-> w.stacking, visible |-> w.visible,
         output |-> IF layout.order = <<>> THEN 1 ELSE w.output,
         members |-> Membership(layout, w.rect, w.visible),
         scale |-> IF layout.order = <<>> THEN <<1, 1>>
                   ELSE PreferredScale(layout, w.output)]
  IN [surfaces |-> [id \in DOMAIN snapshot.windows |-> surface(snapshot.windows[id])],
      outputs |-> SelectSeq(layout.order, LAMBDA o : o \in primary)
                  \o SelectSeq(layout.order, LAMBDA o : o \notin primary)]

-----------------------------------------------------------------------------
(* Client requests, as defer_lifecycle turns them into proposals           *)

NewWindow(r, n) ==
  [transient |-> 0, x |-> r.rect.x, y |-> r.rect.y, w |-> r.rect.w, h |-> r.rect.h,
   min |-> 0, max |-> 0, type |-> "Normal", mapped |-> FALSE, override |-> r.override,
   decoration |-> "Unknown", fullscreen |-> FALSE, maximized |-> FALSE,
   above |-> FALSE, input |-> TRUE, creation |-> n, mapSerial |-> 0,
   focusSerial |-> 0, geometry |-> 0, stackSerial |-> 0, sibling |-> 0,
   mode |-> "None", output |-> 0, rect |-> r.rect, stacking |-> -1,
   visible |-> FALSE, focused |-> FALSE, state |-> "Normal"]

\* The request can be made: its window exists, or does not yet.
Possible(r) ==
  CASE r.kind = "Create" -> r.id \notin DOMAIN committed.windows
    [] r.kind = "Relayout" -> Multi /\ r.layout # committed.layout
    [] r.kind = "Cleanup" -> r.ids \cap DOMAIN committed.windows # {}
    [] r.kind = "Restack" ->
         {r.id, r.sibling} \ {0} \subseteq DOMAIN committed.windows /\ r.id # r.sibling
    [] r.kind \in {"Map", "Unmap"} ->
         r.id \in DOMAIN committed.windows /\ committed.windows[r.id].mapped = (r.kind = "Unmap")
    [] OTHER -> r.id \in DOMAIN committed.windows

Without(f, gone) == [i \in DOMAIN f \ gone |-> f[i]]

\* The proposal; n is the request's lifecycle serial.  Nothing that names a
\* destroyed window is changed.
Proposal(r, n) ==
  CASE r.kind = "Create" -> [committed EXCEPT !.windows = Put(@, r.id, NewWindow(r, n))]
    [] r.kind = "Destroy" -> [committed EXCEPT !.windows = Without(@, {r.id})]
    [] r.kind = "Cleanup" -> [committed EXCEPT !.windows = Without(@, r.ids)]
    [] r.kind = "Relayout" -> [committed EXCEPT !.layout = r.layout]
    [] r.kind \in {"Map", "Unmap"} ->
         [committed EXCEPT !.windows[r.id].mapped = (r.kind = "Map"),
                           !.windows[r.id].mapSerial = n]
    [] r.kind = "Focus" -> [committed EXCEPT !.windows[r.id].focusSerial = n]
    [] r.kind = "Configure" ->
         [committed EXCEPT !.windows[r.id].x = r.rect.x, !.windows[r.id].y = r.rect.y,
                           !.windows[r.id].w = r.rect.w, !.windows[r.id].h = r.rect.h,
                           !.windows[r.id].geometry = n]
    [] r.kind = "Restack" ->
         [committed EXCEPT !.windows[r.id].geometry = n,
                           !.windows[r.id].stackSerial = n,
                           !.windows[r.id].sibling = r.sibling,
                           !.windows[r.id].mode = r.mode]
    [] r.kind = "Transient" -> [committed EXCEPT !.windows[r.id].transient = r.to]
    [] r.kind = "State" -> [committed EXCEPT !.windows[r.id].fullscreen = r.fullscreen,
                                             !.windows[r.id].maximized = r.maximized]
    [] r.kind = "Hints" -> [committed EXCEPT !.windows[r.id].min = r.min,
                                             !.windows[r.id].max = r.max]

-----------------------------------------------------------------------------
(* The system                                                              *)

NoRequest == [commit |-> 0]
NoScene == [surfaces |-> <<>>, outputs |-> <<>>]

Init ==
  /\ \E layout \in Layouts : committed = [layout |-> layout, windows |-> <<>>]
  /\ scene = NoScene /\ waiting = NoRequest
  /\ peer = [state |-> "Disconnected", pending |-> NoSubmission, result |-> <<>>,
             active |-> FALSE, complete |-> FALSE, replaying |-> FALSE,
             replay |-> NoSubmission, hash |-> <<>>, outcome |-> "None"]
  /\ up = <<>> /\ down = <<>> /\ manager = FreshManager
  /\ step = 0 /\ serial = 1 /\ restarts = 0 /\ refused = {}

\* PolicyPeer::connect and send_bootstrap; with an output model there is
\* nothing to send before the first submission.
Connect ==
  /\ peer.state = "Disconnected"
  /\ LET p == [FreshPeer(peer) EXCEPT !.state = "Connecting"]
         replay == peer.replay.commit # 0
     IN IF Multi /\ ~replay THEN peer' = p /\ UNCHANGED up
        ELSE Submit(p, IF replay THEN peer.replay ELSE Bootstrap, replay)
  /\ UNCHANGED <<committed, scene, waiting, down, manager, step, serial, restarts, refused>>

Ready == peer.state = "Synchronized" \/ (peer.state = "Connecting" /\ Multi)

\* A request reaches the coordinator while nothing else is decided.
MakeRequest ==
  /\ Ready /\ waiting = NoRequest /\ step < Len(Plan)
  /\ \E r \in Plan[step + 1] :
       /\ Possible(r)
       /\ LET sub == ProjectPolicy(Proposal(r, serial + 1), serial + 1) IN
          /\ waiting' = [commit |-> serial + 1, request |-> r,
                         proposed |-> Proposal(r, serial + 1), submission |-> sub]
          /\ Submit(peer, sub, FALSE)
  /\ serial' = serial + 1 /\ step' = step + 1
  /\ UNCHANGED <<committed, scene, down, manager, restarts, refused>>

\* The plan's step offers nothing that can be done.
SkipStep ==
  /\ Ready /\ waiting = NoRequest /\ step < Len(Plan)
  /\ \A r \in Plan[step + 1] : ~Possible(r)
  /\ step' = step + 1
  /\ UNCHANGED <<committed, scene, waiting, peer, up, down, manager, serial, restarts, refused>>

\* RuntimeBridge submits the request again to a gwm that came back.
Resubmit ==
  /\ Ready /\ waiting # NoRequest
  /\ Submit(peer, waiting.submission, FALSE)
  /\ UNCHANGED <<committed, scene, waiting, down, manager, step, serial, restarts, refused>>

\* One turn of gwm's loop.
ManagerTurn ==
  /\ up # <<>>
  /\ LET n == Least(Len(up), TurnLimit)
         s == FoldLeft(LAMBDA a, r : Handle(a, r, Multi),
                       [manager |-> manager, out |-> down], SubSeq(up, 1, n))
     IN /\ manager' = s.manager /\ down' = s.out
        /\ up' = SubSeq(up, n + 1, Len(up))
  /\ UNCHANGED <<committed, scene, waiting, peer, step, serial, restarts, refused>>

\* PolicyPeer::process, and what the coordinator does with its outcome: a
\* request is carried out, or given up silently.
ServerTurn ==
  /\ down # <<>> /\ peer.state = "AwaitingReply"
  /\ LET p == FoldLeft(LAMBDA a, r : Receive(a, r, Multi),
                       [peer EXCEPT !.outcome = "None"], down)
         mine == waiting # NoRequest /\ p.pending.commit = waiting.commit
         decided == mine /\ p.state = "Synchronized"
         applies == Applicable(waiting.proposed, p.result)
         result == ApplyPolicyResult(waiting.proposed, p.result)
     IN /\ down' = <<>>
        /\ peer' = IF decided /\ p.outcome = "Accepted" /\ ~applies
                   THEN [p EXCEPT !.state = "Failed"] ELSE p
        /\ IF decided /\ p.outcome = "Accepted" /\ applies
           THEN committed' = result /\ scene' = ProjectCompositor(result)
           ELSE UNCHANGED <<committed, scene>>
        /\ waiting' = IF decided THEN NoRequest ELSE waiting
        /\ refused' = IF decided /\ p.outcome = "Rejected"
                      THEN refused \cup {waiting.request} ELSE refused
  /\ UNCHANGED <<up, manager, step, serial, restarts>>

\* gwm is restarted: what it knew and what was on the wire is gone.
RestartManager ==
  /\ restarts < MaxRestarts
  /\ peer.state \in {"Connecting", "AwaitingReply", "Synchronized"}
  /\ manager' = FreshManager /\ up' = <<>> /\ down' = <<>>
  /\ peer' = FreshPeer(peer)
  /\ restarts' = restarts + 1
  /\ UNCHANGED <<committed, scene, waiting, step, serial, refused>>

Next ==
  \/ Connect \/ MakeRequest \/ SkipStep \/ Resubmit
  \/ ManagerTurn \/ ServerTurn \/ RestartManager

Spec == Init /\ [][Next]_vars

-----------------------------------------------------------------------------
(* Properties                                                              *)

\* What gwm answers is always something glasswyrmd accepts: no answer, to a
\* request or to a replay after a restart, makes PolicyPeer or
\* apply_policy_result give up, which would stop the server.  gwm's checks
\* and algorithm and the server's checks were written apart.
AnswersAreUsable == peer.state # "Failed"

W(id) == committed.windows[id]
Shown == {id \in DOMAIN committed.windows : W(id).visible}
Roots == {id \in Shown : ~W(id).override /\ W(id).transient = 0}
Transients == {id \in Shown : ~W(id).override /\ W(id).transient # 0}
Band(id) == {r \in IF W(id).override THEN {o \in Shown : W(o).override} ELSE Roots :
               (W(r).state = "Fullscreen") = (W(id).state = "Fullscreen")}
RECURSIVE RootOf(_)
RootOf(id) == IF W(id).override \/ W(id).transient = 0 THEN id ELSE RootOf(W(id).transient)

\* The stack obeys every rule at once: transients above and never separated
\* from their root, fullscreen roots above the others, override-redirect
\* windows on top, and the newest restack request of each band honoured.
StackIsSound ==
  /\ \A t \in Transients : W(t).transient \in Shown /\ W(W(t).transient).stacking < W(t).stacking
  /\ \A a, b \in Shown : \A c \in Shown :
       (RootOf(a) = RootOf(b) /\ W(a).stacking < W(c).stacking /\ W(c).stacking < W(b).stacking)
         => RootOf(c) = RootOf(a)
  /\ \A a, b \in Roots : W(a).state # "Fullscreen" /\ W(b).state = "Fullscreen"
                            => W(a).stacking < W(b).stacking
  /\ \A o \in Shown, m \in Shown : W(o).override /\ ~W(m).override
                            => W(m).stacking < W(o).stacking
  /\ \A id \in Shown :
       (/\ W(id).stackSerial # 0 /\ id \in Band(id)
        /\ \A other \in DOMAIN committed.windows \ {id} :
             W(other).stackSerial < W(id).stackSerial)
       => LET below == {r \in Band(id) \ {id} : W(r).stacking < W(id).stacking}
              above == Band(id) \ (below \cup {id})
          IN CASE W(id).sibling = 0 /\ W(id).mode = "Above" -> above = {}
               [] W(id).sibling = 0 /\ W(id).mode = "Below" -> below = {}
               [] W(id).sibling # 0 /\ W(id).mode = "Above" ->
                    W(id).sibling \in Band(id) =>
                      /\ W(id).sibling \in below
                      /\ \A r \in below : W(r).stacking <= W(W(id).sibling).stacking
               [] W(id).sibling # 0 /\ W(id).mode = "Below" ->
                    W(id).sibling \in Band(id) =>
                      /\ W(id).sibling \in above
                      /\ \A r \in above : W(r).stacking >= W(W(id).sibling).stacking

\* No managed window is lost: what is shown of it is at least a pixel of an
\* enabled output, its surface is a member of the outputs it is drawn on and
\* its own output is an enabled one, whatever layout it was moved to.
WindowsStayReachable ==
  \A id \in Shown :
    LET s == scene.surfaces[id] IN
    /\ ~W(id).override =>
         IF Multi THEN s.members # <<>>
         ELSE Encloses(Rect(0, 0, Screen.w, Screen.h), s.rect)
    /\ Multi => Enabled(committed.layout.state, s.output)

\* A window that its client destroys, or whose client is gone, goes away.
DestructionIsCarriedOut == \A r \in refused : r.kind \notin {"Destroy", "Cleanup"}

=============================================================================
