---------------------------- MODULE InputRouting ----------------------------
(***************************************************************************)
(* Input in glasswyrmd: the libinput backend, the keymap and the key       *)
(* repeat behind RealInputController, the synthetic input provider, the    *)
(* delivery of events through grabs and propagation (event_router.cpp,     *)
(* grab_state.cpp, input_router.cpp), click focus, GWM's interactive move  *)
(* and resize (wm/interactive_policy.cpp) and the cursor that follows the  *)
(* pointer (cursor_presenter.cpp).                                         *)
(*                                                                         *)
(* The server is one thread: `s` is its state and every handler a function *)
(* on it.  Around it move the user, the provider, the clients, the         *)
(* compositor and the lifecycle transactions, which answer later: ops is   *)
(* the queue of LifecycleCoordinator, of which only the outcome matters.   *)
(* The screen has one dimension (y is treated like x) and masks are sets   *)
(* of names.  Timestamps only tell a stale request from a current one.     *)
(***************************************************************************)
EXTENDS Naturals, Integers, Sequences, FiniteSets, SequencesExt

CONSTANTS
    Tree,           \* [window -> its parent], the top-levels hang on "root"
    Owner,          \* [window -> client]
    Selects,        \* [window -> [event name -> set of clients]]
    Extent,         \* [window -> width], relative to the parent for a child
    Place,          \* [window -> first position]
    RootWidth,
    Bindings,       \* [move, resize |-> buttons, modifier, close |-> keys, least |-> width]
    Polite,         \* the windows that take part in WM_DELETE_WINDOW
    Keys, Buttons,
    Moves,          \* the positions the user moves the pointer to
    Wishes,         \* the requests clients may make: [kind, client, window, arg]
    Providers,      \* "real" (libinput) or "synthetic": options.cpp allows one
    QueueLimit,     \* kMaximumQueuedEvents
    MaxInputs,      \* bound on what the user or the provider does
    MaxOthers       \* bound on what others do meanwhile: requests of clients,
                    \* suspensions, compositor restarts, refusals

ASSUME InputAssumption ==
    /\ RootWidth \in Nat \ {0} /\ QueueLimit \in Nat \ {0}
    /\ MaxInputs \in Nat /\ MaxOthers \in Nat
    /\ Keys \subseteq Nat \ {0} /\ Buttons \subseteq Nat \ {0} /\ Keys \cap Buttons = {}
    /\ {Bindings.modifier, Bindings.close} \subseteq Keys /\ {Bindings.move, Bindings.resize} \subseteq Buttons

VARIABLES
    s,              \* the server
    user,           \* what the user holds and has plugged in; raw events not read
    tool,           \* the synthetic provider
    budget          \* what is left of the bounds

vars == <<s, user, tool, budget>>

None == "none"
Windows == DOMAIN Tree
Top == {w \in Windows : Tree[w] = "root"}
Clients == {Owner[w] : w \in Windows}
-----------------------------------------------------------------------------
(* Windows: input/input_router.cpp *)

Exists(t, w) == IF w = "root" THEN TRUE ELSE t.shown[w] # "gone"
Viewable(t, w) ==
    IF w = "root" THEN TRUE
    ELSE /\ t.shown[w] = "viewable"
         /\ IF Tree[w] = "root" THEN TRUE ELSE t.shown[Tree[w]] = "viewable"

clamp_pointer(p) == IF p < 0 THEN 0 ELSE IF p >= RootWidth THEN RootWidth - 1 ELSE p

window_root_origin(t, w) ==
    IF w = "root" THEN 0
    ELSE IF Tree[w] = "root" THEN t.x[w] ELSE t.x[Tree[w]] + t.x[w]

managed_top_level_ancestor(w) ==
    IF w = "root" \/ Tree[w] = "root" THEN w ELSE Tree[w]

window_ancestry(t, w) ==
    IF w # "root" /\ t.shown[w] = "gone" THEN <<>>
    ELSE IF w = "root" THEN <<w>>
    ELSE IF Tree[w] = "root" THEN <<w, "root">> ELSE <<w, Tree[w], "root">>

Covers(t, w, p) ==
    LET x == window_root_origin(t, w) IN x <= p /\ p < x + t.width[w]

\* The uppermost viewable top-level under the point.
hit_test_top_level(t, p) ==
    LET under == SelectSeq(t.stack, LAMBDA w : Viewable(t, w) /\ Covers(t, w, p))
    IN IF under = <<>> THEN "root" ELSE Last(under)

\* Then down to the deepest viewable child (the model has one level of them).
hit_test_deepest_viewable(t, p) ==
    LET top == hit_test_top_level(t, p)
        below == {w \in Windows : Tree[w] = top /\ Viewable(t, w) /\ Covers(t, w, p)}
    IN IF top = "root" \/ below = {} THEN top ELSE CHOOSE w \in below : TRUE

Selecting(t, w, mask) ==
    IF w = "root" \/ t.shown[w] = "gone" THEN {} ELSE Selects[w][mask]

\* The first window on the way to the root where a client selected the event.
propagate_event(t, source, mask) ==
    LET path == window_ancestry(t, source)
        found == {i \in DOMAIN path : Selecting(t, path[i], mask) # {}}
    IN IF found = {} THEN [window |-> None, clients |-> {}]
       ELSE LET i == CHOOSE i \in found : \A j \in found : i <= j
            IN [window |-> path[i], clients |-> Selecting(t, path[i], mask)]

-----------------------------------------------------------------------------
(* Grabs: grab_state.cpp *)

NoGrab == [origin |-> None]
\* Mutant: the automatic grab does not ask for the release.
kAutomaticGrabMaskMotionOnly == {"Motion"}
kAutomaticGrabMask == {"Release", "Motion"}

grab_pointer(t, client, w, owner_events) ==
    IF ~Viewable(t, w) \/ t.grab # NoGrab THEN t
    ELSE [t EXCEPT !.grab = [origin |-> "Explicit", client |-> client, window |-> w,
                             owner_events |-> owner_events,
                             mask |-> {"Press", "Release", "Motion"}, held |-> {},
                             cursor |-> "cross"],
                   !.owes = {}]

ungrab_pointer(t, client) ==
    IF t.grab = NoGrab \/ t.grab.client # client THEN t
    ELSE [t EXCEPT !.grab = NoGrab, !.owes = {}]

grab_keyboard(t, client, w) ==
    IF ~Viewable(t, w) \/ t.keyGrab # NoGrab THEN t
    ELSE [t EXCEPT !.keyGrab = [origin |-> "Explicit", client |-> client, window |-> w,
                                owner_events |-> FALSE, mask |-> {"KeyPress", "KeyRelease"}]]

ungrab_keyboard(t, client) ==
    IF t.keyGrab = NoGrab \/ t.keyGrab.client # client THEN t
    ELSE [t EXCEPT !.keyGrab = NoGrab]

begin_automatic_button_grab(t, client, w, b) ==
    [t EXCEPT !.grab = [origin |-> "AutomaticButton", client |-> client, window |-> w,
                        owner_events |-> TRUE, mask |-> kAutomaticGrabMask, held |-> {b},
                        cursor |-> None]]

\* GrabButton: a grab of another client for the same button and window keeps it.
grab_button(t, client, w, b) ==
    IF \E g \in t.passive : g.window = w /\ g.button = b /\ g.client # client THEN t
    ELSE [t EXCEPT !.passive = {g \in @ : g.window # w \/ g.button # b}
                                \cup {[client |-> client, window |-> w, button |-> b]}]

\* The passive grab nearest to the pointer on its ancestry, if there is one.
activate_passive_button(t, b) ==
    LET path == window_ancestry(t, t.target)
        near == {i \in DOMAIN path : \E g \in t.passive : g.window = path[i] /\ g.button = b}
    IN IF near = {} THEN NoGrab
       ELSE LET i == CHOOSE i \in near : \A j \in near : i <= j
                g == CHOOSE g \in t.passive : g.window = path[i] /\ g.button = b
            IN [origin |-> "PassiveButton", client |-> g.client, window |-> g.window,
                owner_events |-> FALSE, mask |-> {"Press", "Release"}, held |-> {b},
                cursor |-> None]

note_button_press(t, b) ==
    IF t.grab = NoGrab \/ t.grab.origin = "Explicit" THEN t
    ELSE [t EXCEPT !.grab.held = @ \cup {b}]

note_button_release(t, b) ==
    IF t.grab = NoGrab \/ t.grab.origin = "Explicit" THEN t
    ELSE IF t.grab.held \subseteq {b} THEN [t EXCEPT !.grab = NoGrab]
    ELSE [t EXCEPT !.grab.held = @ \ {b}]

cleanup_window(t, gone) ==
    [t EXCEPT !.grab = IF @ # NoGrab /\ @.window \in gone THEN NoGrab ELSE @,
              !.keyGrab = IF @ # NoGrab /\ @.window \in gone THEN NoGrab ELSE @,
              !.passive = {g \in @ : g.window \notin gone}]

suspend_grabs(t) == [t EXCEPT !.grab = NoGrab, !.keyGrab = NoGrab, !.owes = {}]

\* The client and window an event goes to without a grab.
input_recipient(t, source, mask) ==
    LET found == propagate_event(t, source, mask)
    IN IF found.clients = {} THEN NoGrab
       ELSE [origin |-> "natural", window |-> found.window,
             client |-> CHOOSE c \in found.clients : TRUE]

\* route_input_grabbed with route_pointer and route_keyboard: who gets the event.
Recipients(t, grab, mask, source) ==
    LET natural == input_recipient(t, source, mask)
        own == propagate_event(t, source, mask)
        whole == [c \in t.clients \cap own.clients |-> own.window]
    IN IF grab = NoGrab THEN whole
       ELSE IF grab.owner_events /\ natural # NoGrab /\ natural.client = grab.client THEN whole
       ELSE [c \in {c \in t.clients : c = grab.client /\ mask \in grab.mask
                                      /\ t.shown[grab.window] # "gone"} |-> grab.window]

-----------------------------------------------------------------------------
(* The interactive move and resize: wm/interactive_policy.cpp *)

NoDrag == [kind |-> None]
Geometry(t, w) == [x |-> t.x[w], width |-> t.width[w]]

begin(kind, w, b, p, t) ==
    [kind |-> kind, target |-> w, button |-> b, initial |-> p, latest |-> p,
     dispatched |-> -1, geometry |-> Geometry(t, w), inFlight |-> FALSE,
     ending |-> FALSE, published |-> FALSE]

Settled(d) == d.latest = d.initial \/ d.dispatched = d.latest
finish_ready(d) == d.ending /\ ~d.inFlight /\ d.published /\ Settled(d)

\* Where the window shall be for the pointer's position.
Requested(d) ==
    LET delta == d.latest - d.initial
        wide == d.geometry.width + delta
    IN IF d.kind = "Move" THEN [d.geometry EXCEPT !.x = @ + delta]
       ELSE [d.geometry EXCEPT !.width = IF wide < Bindings.least THEN Bindings.least ELSE wide]

\* Aborting also forgets the geometry token: the operation no longer matters.
abort_interactive(t) ==
    [t EXCEPT !.drag = NoDrag, !.dirty = TRUE,
              !.ops = [i \in DOMAIN @ |-> [@[i] EXCEPT !.mine = FALSE]]]

finish(t) == IF t.drag # NoDrag /\ finish_ready(t.drag) THEN [t EXCEPT !.drag = NoDrag] ELSE t

-----------------------------------------------------------------------------
(* Lifecycle operations: what the coordinator is asked, in order.  One that  *)
(* arrives while a cursor frame is at the compositor waits for its end.     *)

NoCursor == [image |-> None]
OpLimit == 3
Op(kind, w, geometry, mine) == [kind |-> kind, w |-> w, geometry |-> geometry, mine |-> mine]

enqueue(t, op) ==
    [t EXCEPT !.ops = Append(@, op), !.busy = @ \/ (t.staged = NoCursor /\ t.ready)]

update_interactive_geometry(t) ==
    LET d == t.drag
    IN IF d = NoDrag \/ d.inFlight \/ Settled(d) THEN t
       ELSE IF t.shown[d.target] = "gone" \/ Len(t.ops) >= OpLimit THEN abort_interactive(t)
       ELSE enqueue([t EXCEPT !.drag.inFlight = TRUE, !.drag.dispatched = d.latest],
                    Op("Configure", d.target, Requested(d), TRUE))

\* A click on a managed window that has not the focus asks for it; delivery
\* waits for the answer.
NoWait == [old |-> None]
RequestFocus(t, w, id) ==
    IF Len(t.ops) >= OpLimit THEN t
    ELSE enqueue([t EXCEPT !.wait = [old |-> t.focus, id |-> id, live |-> TRUE]],
                 Op("Focus", w, Geometry(t, w), FALSE))

Managed(t, w) == w # "root" /\ t.shown[w] = "viewable"

\* begin_interactive_pointer: the press the bindings match, and what it begins.
Interaction(e) ==
    IF e.mods # {Bindings.modifier} THEN None
    ELSE IF e.code = Bindings.move THEN "Move"
    ELSE IF e.code = Bindings.resize THEN "Resize" ELSE None

begins_interactive(t, e) ==
    e.down /\ Interaction(e) # None /\ Managed(t, managed_top_level_ancestor(t.target))

begin_interactive_pointer(t, e) ==
    LET w == managed_top_level_ancestor(t.target)
        begun == [t EXCEPT !.drag = begin(Interaction(e), w, e.code, e.x, t), !.owes = {}]
    IN IF Len(t.ops) >= OpLimit THEN abort_interactive(begun) ELSE RequestFocus(begun, w, 0)

-----------------------------------------------------------------------------
(* The libinput backend and RealInputController *)

NoRepeat == [key |-> 0, focus |-> None]

Event(kind, x, code, down, mods, focus) ==
    [kind |-> kind, x |-> x, code |-> code, down |-> down, mods |-> mods, focus |-> focus]
Modifiers(t) == t.held \cap {Bindings.modifier}
Transition(set, code, down) == IF down THEN set \cup {code} ELSE set \ {code}

\* LibinputBackend::convert and RealInputController::convert for one raw event.
\* A key that is already where the event puts it is left out; the focus and the
\* modifiers are those of this moment.
convert(t, r) ==
    LET x == IF r.kind = "Motion" THEN clamp_pointer(r.x) ELSE t.px
    IN CASE r.kind = "Added" -> [t EXCEPT !.devices = @ \cup {r.device}]
         [] r.kind = "Removed" -> [t EXCEPT !.devices = @ \ {r.device}]
         [] r.device \notin t.devices -> t
         [] r.kind = "Motion" ->
              [t EXCEPT !.px = x, !.events = Append(@, Event("Motion", x, 0, FALSE, Modifiers(t), None))]
         [] r.kind = "Button" ->
              [t EXCEPT !.mask = Transition(@, r.code, r.down),
                        !.events = Append(@, Event("Button", x, r.code, r.down, Modifiers(t), None))]
         [] r.kind = "Key" /\ (r.code \in t.held) = r.down -> t
         [] OTHER ->
              [t EXCEPT !.held = Transition(@, r.code, r.down),
                        !.repeat = IF r.down
                                   THEN IF r.code # Bindings.modifier /\ t.auto
                                        THEN [key |-> r.code, focus |-> t.focus] ELSE @
                                   ELSE IF @.key = r.code THEN NoRepeat ELSE @,
                        !.events = Append(@, Event("Key", x, r.code, r.down, Modifiers(t), t.focus))]

\* reset_provider_state(publish_reset, clear_events)
reset_provider_state(t, publish, clear) ==
    LET kept == IF clear THEN <<>> ELSE t.events
    IN [t EXCEPT !.mask = {}, !.held = {}, !.repeat = NoRepeat,
                 !.events = IF publish THEN Append(kept, Event("StateReset", 0, 0, FALSE, {}, None))
                            ELSE kept]

\* Everything libinput has is converted; a device that left resets the provider
\* after that.  A full queue ends the server.
service_backend(t, raw) ==
    LET read == FoldLeft(convert, t, raw)
        lost == \E i \in DOMAIN raw : raw[i].kind = "Removed"
    IN IF Len(read.events) > QueueLimit THEN [t EXCEPT !.running = FALSE]
       ELSE IF lost THEN reset_provider_state(read, TRUE, FALSE) ELSE read

\* Mutant of dispatch: the press comes first.
PressFirst(t) ==
    LET Again(down) == Event("Key", t.px, t.repeat.key, down, Modifiers(t), t.repeat.focus)
    IN <<Again(TRUE), Again(FALSE)>>

\* RepeatState::dispatch: each expiration releases and presses the key.
dispatch(t) ==
    LET Again(down) == Event("Key", t.px, t.repeat.key, down, Modifiers(t), t.repeat.focus)
    IN <<Again(FALSE), Again(TRUE)>>

service_repeat(t) ==
    IF Len(t.events) + 2 > QueueLimit THEN [t EXCEPT !.running = FALSE]
    ELSE [t EXCEPT !.events = @ \o dispatch(t)]

\* input_state_.reset_provider_state with the grabs and the interaction.
reset_server_state(t) ==
    abort_interactive(suspend_grabs([t EXCEPT !.buttons = {}, !.keys = {}]))

suspend(t) ==
    IF ~t.active THEN t
    ELSE reset_server_state([reset_provider_state(t, FALSE, TRUE) EXCEPT !.active = FALSE])

\* Resuming needs the keyboard and the pointer; without them the server ends.
resume(t, plugged) ==
    IF t.active THEN t
    ELSE IF plugged # {"keyboard", "pointer"} THEN [t EXCEPT !.running = FALSE]
    ELSE reset_server_state([t EXCEPT !.active = TRUE, !.devices = plugged])

-----------------------------------------------------------------------------
(* Delivery: deliver_real_input *)

\* Who was told of a press and not of the release (a history).
Note(t, e, got) ==
    IF e.down
    THEN [t EXCEPT !.owes = @ \cup {[client |-> c, button |-> e.code, window |-> got[c]] : c \in DOMAIN got}]
    ELSE [t EXCEPT !.owes = {o \in @ : o.button # e.code \/ o.client \notin DOMAIN got}]

deliver_motion(t, e) ==
    LET moved == [t EXCEPT !.ptr = e.x, !.target = hit_test_deepest_viewable(t, e.x)]
    IN IF t.drag = NoDrag THEN moved
       ELSE update_interactive_geometry([moved EXCEPT !.drag.latest = e.x])

\* A button during an interaction is the interaction's, and its own ends it.
consume_button(t, e) ==
    IF e.down \/ e.code # t.drag.button THEN t
    ELSE finish(update_interactive_geometry([t EXCEPT !.drag.latest = e.x, !.drag.ending = TRUE]))

\* The grab a press begins where there is none.
GrabForPress(t, e) ==
    LET passive == activate_passive_button(t, e.code)
        natural == input_recipient(t, t.target, "Press")
    IN IF ~e.down \/ t.grab # NoGrab THEN t
       ELSE IF passive # NoGrab THEN [t EXCEPT !.grab = passive]
       ELSE IF natural # NoGrab
       THEN begin_automatic_button_grab(t, natural.client, natural.window, e.code)
       ELSE t

\* Told, noted, and a click of the first button on another window asks for focus.
route_button(t, e) ==
    LET grabbed == GrabForPress(t, e)
        mask == IF e.down THEN "Press" ELSE "Release"
        \* An automatic grab has no Press in its mask, but the press that began
        \* it goes to its client all the same: the natural one.
        told == Note(grabbed, e, Recipients(grabbed, grabbed.grab, mask, t.target))
        state == [told EXCEPT !.buttons = Transition(@, e.code, e.down)]
        noted == IF e.down THEN note_button_press(state, e.code)
                 ELSE note_button_release(state, e.code)
        w == managed_top_level_ancestor(t.target)
    IN IF e.down /\ e.code = 1 /\ Managed(noted, w) /\ noted.focus # w
       THEN RequestFocus(noted, w, 0) ELSE noted

deliver_button(t, e) ==
    IF (e.code \in t.buttons) = e.down THEN t
    ELSE IF t.drag # NoDrag
    THEN [consume_button(t, e) EXCEPT !.buttons = Transition(@, e.code, e.down)]
    ELSE IF begins_interactive(t, e)
    THEN [begin_interactive_pointer(t, e) EXCEPT !.buttons = Transition(@, e.code, e.down)]
    ELSE route_button(t, e)

\* handle_interactive_close: asks the focused window to go or destroys it.
handle_interactive_close(t, e) ==
    IF e.down /\ e.code = Bindings.close /\ e.mods = {Bindings.modifier}
       /\ Managed(t, t.focus) /\ t.focus \notin Polite /\ Len(t.ops) < OpLimit
    THEN enqueue(t, Op("Destroy", t.focus, Geometry(t, t.focus), FALSE))
    ELSE t

\* Keys go to the focus the event was converted with (no property is about who
\* gets them: only the state they leave is kept).
deliver_key(t, e) ==
    IF (e.code \in t.keys) = e.down THEN t
    ELSE [handle_interactive_close(t, e) EXCEPT !.keys = Transition(@, e.code, e.down)]

deliver(t) ==
    LET e == Head(t.events)
        u == [t EXCEPT !.events = Tail(@), !.dirty = TRUE]
    IN CASE e.kind = "StateReset" -> reset_server_state(u)
         [] e.kind = "Motion" -> deliver_motion(u, e)
         [] e.kind = "Button" -> deliver_button(u, e)
         [] OTHER -> deliver_key(u, e)

-----------------------------------------------------------------------------
(* The synthetic provider: input_runtime.cpp, synthetic_input_peer.cpp *)

\* One record.  A number out of order ends the connection; a click that asks for
\* focus is answered with the outcome, everything else at once.  No grab is
\* begun or consulted here.
serve_record(t, r) ==
    LET u == [t EXCEPT !.expected = @ + 1]
        done == [u EXCEPT !.acked = @ \cup {r.id}]
        w == managed_top_level_ancestor(t.target)
        pressed == [u EXCEPT !.buttons = Transition(@, r.code, r.down)]
        asked == RequestFocus(pressed, w, r.id)
    IN CASE r.id # t.expected -> [t EXCEPT !.lost = TRUE]
         [] r.kind = "Barrier" -> done
         [] r.kind = "Motion" ->
              LET x == clamp_pointer(r.x)
              IN [done EXCEPT !.ptr = x, !.target = hit_test_deepest_viewable(t, x), !.dirty = TRUE]
         [] r.kind = "Key" -> [done EXCEPT !.keys = Transition(@, r.code, r.down)]
         [] (r.code \in t.buttons) = r.down -> done
         [] r.down /\ r.code = 1 /\ Managed(t, w) /\ t.focus # w /\ asked # pressed -> asked
         [] OTHER -> [pressed EXCEPT !.acked = @ \cup {r.id}]

\* consume_disconnect: what the provider held is forgotten, numbering restarts.
provider_gone(t) ==
    [t EXCEPT !.buttons = {}, !.keys = {}, !.expected = 1, !.acked = {}, !.lost = FALSE,
              !.dirty = TRUE,
              !.wait = IF @ = NoWait THEN @ ELSE [@ EXCEPT !.live = FALSE]]

-----------------------------------------------------------------------------
(* The cursor: cursor_runtime.cpp, cursor_presenter.cpp *)

\* The window's cursor, or its nearest ancestor's.
effective_cursor(t, w) ==
    LET path == window_ancestry(t, w)
        own == {i \in DOMAIN path : path[i] # "root" /\ t.cursor[path[i]] # None}
    IN IF own = {} THEN "arrow" ELSE t.cursor[path[CHOOSE i \in own : \A j \in own : i <= j]]

current_cursor_image(t) ==
    IF t.drag # NoDrag THEN t.drag.kind
    ELSE IF t.grab # NoGrab /\ t.grab.cursor # None THEN t.grab.cursor
    ELSE effective_cursor(t, hit_test_deepest_viewable(t, t.ptr))

CursorVisible(t) == IF t.provider = "real" THEN t.active ELSE t.connected
Cursor(t) ==
    [image |-> current_cursor_image(t), x |-> t.ptr, visible |-> CursorVisible(t)]
needs_update(t) == t.staged = NoCursor /\ t.accepted # Cursor(t)

confirm_cursor_published(t) ==
    IF t.drag = NoDrag THEN t
    ELSE LET u == [t EXCEPT !.drag.published = TRUE]
         IN IF finish_ready(u.drag) THEN [u EXCEPT !.drag = NoDrag, !.dirty = TRUE] ELSE u

\* service_cursor where nothing else is under way.
service_cursor(t) ==
    LET c == Cursor(t)
        interactive == c.visible /\ t.drag # NoDrag
        clean == [t EXCEPT !.dirty = FALSE]
    IN IF needs_update(t) THEN [clean EXCEPT !.staged = c, !.forDrag = interactive]
       ELSE IF interactive THEN confirm_cursor_published(clean) ELSE clean

\* Mutant of accept: the lifecycle work is not resumed.
accept_only(t) ==
    [t EXCEPT !.accepted = t.staged, !.staged = NoCursor, !.replay = FALSE, !.forDrag = FALSE]

\* Lifecycle work put off by the frame begins after it.
accept(t) ==
    LET u == [t EXCEPT !.accepted = t.staged, !.staged = NoCursor, !.replay = FALSE, !.forDrag = FALSE]
        v == IF t.forDrag THEN confirm_cursor_published(u) ELSE u
    IN [v EXCEPT !.busy = v.ops # <<>>]

reject(t) ==
    IF t.replay THEN [t EXCEPT !.running = FALSE]
    ELSE [t EXCEPT !.staged = NoCursor, !.forDrag = FALSE, !.replay = TRUE, !.dirty = TRUE]

peer_disconnected(t) ==
    [t EXCEPT !.staged = NoCursor, !.accepted = NoCursor, !.forDrag = FALSE, !.dirty = TRUE]

-----------------------------------------------------------------------------
(* The outcome of lifecycle operations: complete_lifecycle *)

OnTop(stack, w) == Append(SelectSeq(stack, LAMBDA v : v # w), w)
Under(w) == {v \in Windows : v = w \/ Tree[v] = w}
Uppermost(t) ==
    LET seen == SelectSeq(t.stack, LAMBDA v : t.shown[v] = "viewable")
    IN IF seen = <<>> THEN "root" ELSE Last(seen)
Refocus(t) == IF Managed(t, t.focus) THEN t ELSE [t EXCEPT !.focus = Uppermost(t)]
Vanish(t, gone) ==
    Refocus([t EXCEPT !.shown = [w \in Windows |-> IF w \in gone THEN "gone" ELSE @[w]],
                      !.stack = SelectSeq(@, LAMBDA v : v \notin gone)])

\* What the transaction commits.  A window that went meanwhile stays gone.  Only
\* DestroyWindow takes the grabs on its windows with it: cleanup does not.
commit(t, op) ==
    CASE op.kind = "Cleanup" -> Vanish(t, UNION {Under(w) : w \in {v \in Windows : Owner[v] = op.w}})
      [] t.shown[op.w] = "gone" -> t
      [] op.kind = "Map" -> [t EXCEPT !.shown[op.w] = "viewable", !.stack = OnTop(@, op.w), !.focus = op.w]
      [] op.kind = "Unmap" -> Refocus([t EXCEPT !.shown[op.w] = "hidden"])
      [] op.kind = "Configure" -> [t EXCEPT !.x[op.w] = op.geometry.x, !.width[op.w] = op.geometry.width]
      [] op.kind = "Destroy" -> cleanup_window(Vanish(t, Under(op.w)), Under(op.w))
      [] OTHER -> IF t.shown[op.w] = "viewable"
                  THEN [t EXCEPT !.focus = op.w, !.stack = OnTop(@, op.w)] ELSE t

\* The pointer may be over another window now; key repeat follows the focus.
Transitioned(t, u, op) ==
    LET v == IF op.kind = "Focus" THEN u
             ELSE [u EXCEPT !.target = hit_test_deepest_viewable(u, u.ptr)]
    IN IF v.focus = t.focus \/ v.repeat = NoRepeat THEN v
       ELSE [v EXCEPT !.repeat.focus = v.focus]

\* The click that waited is answered, whatever the outcome, and input goes on.
complete_focus(t, op, success) ==
    IF op.kind # "Focus" \/ t.wait = NoWait THEN t
    ELSE [t EXCEPT !.wait = NoWait,
                   !.acked = IF t.wait.id # 0 /\ t.connected /\ t.wait.live
                             THEN @ \cup {t.wait.id} ELSE @]

complete_interactive_lifecycle(t, op, success) ==
    LET d == t.drag
        settled == [t EXCEPT !.drag.inFlight = FALSE]
    IN IF d # NoDrag /\ op.w = d.target /\ op.kind \in {"Destroy", "Unmap"}
       THEN abort_interactive(t)
       ELSE IF ~op.mine THEN t
       ELSE IF ~success \/ t.shown[op.w] = "gone" THEN abort_interactive(t)
       ELSE IF finish_ready(settled.drag) THEN [settled EXCEPT !.drag = NoDrag]
       ELSE update_interactive_geometry(settled)

complete_lifecycle(t, success) ==
    LET op == Head(t.ops)
        u == [t EXCEPT !.ops = Tail(@), !.dirty = @ \/ success]
        v == IF success THEN Transitioned(u, commit(u, op), op) ELSE u
        w == complete_interactive_lifecycle(complete_focus(v, op, success), op, success)
    IN [w EXCEPT !.busy = w.ops # <<>>]

-----------------------------------------------------------------------------
(* The steps *)

\* What every turn of the reactor ends with, or the next begins with: while the
\* compositor is away the interaction and the grabs go, and a dirty cursor is
\* looked after as soon as nothing else is under way.
Present(t) == IF t.ready THEN t ELSE abort_interactive(suspend_grabs(t))
Cursored(t) ==
    IF t.running /\ t.ready /\ t.dirty /\ ~t.busy /\ t.staged = NoCursor THEN service_cursor(t) ELSE t
Living(t) ==
    [t EXCEPT !.owes = {o \in @ : o.client \in t.clients /\ t.shown[o.window] # "gone"}]

EndOfTurn(t) ==
    \E here \in {Present(t)} : \E shown \in {Cursored(here)} : \E again \in {Cursored(shown)} :
        s' = Living(again)

\* deliver_real_input empties the queue up to an event whose focus is not settled:
\* nothing else happens while it does.
Delivering(t) == t.running /\ t.wait = NoWait /\ t.events # <<>>
Server(t) ==
    /\ ~Delivering(s)
    /\ \E done \in {t} : IF Delivering(done) THEN s' = done ELSE EndOfTurn(done)
Spend(what) == budget[what] > 0 /\ budget' = [budget EXCEPT ![what] = @ - 1]
Raw(kind, device, x, code, down) ==
    [kind |-> kind, device |-> device, x |-> x, code |-> code, down |-> down]
RawLimit == 2

Init ==
    /\ \E provider \in Providers :
         s = [provider |-> provider, running |-> TRUE, ready |-> TRUE,
              clients |-> Clients, shown |-> [w \in Windows |-> "viewable"],
              x |-> Place, width |-> Extent, stack |-> SetToSeq(Top), focus |-> "root",
              cursor |-> [w \in Windows |-> None], ops |-> <<>>, busy |-> FALSE,
              ptr |-> 0, target |-> "root", buttons |-> {}, keys |-> {}, wait |-> NoWait,
              grab |-> NoGrab, keyGrab |-> NoGrab, passive |-> {}, drag |-> NoDrag,
              dirty |-> FALSE, accepted |-> NoCursor,
              staged |-> IF provider = "synthetic" THEN NoCursor
                         ELSE [image |-> "arrow", x |-> 0, visible |-> TRUE],
              forDrag |-> FALSE, replay |-> FALSE,
              active |-> provider = "real", devices |-> {"keyboard", "pointer"},
              px |-> 0, mask |-> {}, held |-> {}, repeat |-> NoRepeat, auto |-> TRUE,
              events |-> <<>>, suspended |-> FALSE,
              connected |-> FALSE, lost |-> FALSE, expected |-> 1, acked |-> {}, owes |-> {}]
    /\ user = [plugged |-> {"keyboard", "pointer"}, down |-> {}, raw |-> <<>>]
    /\ tool = [open |-> FALSE, sent |-> <<>>, next |-> 1]
    /\ budget = [inputs |-> MaxInputs, others |-> MaxOthers]

\* The user: libinput reports what happens on plugged devices while it is active.
Report ==
    /\ s.provider = "real" /\ s.running /\ s.active /\ ~Delivering(s)
    /\ Len(user.raw) < RawLimit
    /\ Spend("inputs")
    /\ UNCHANGED <<s, tool>>

UserMoves(x) ==
    /\ "pointer" \in user.plugged
    /\ user' = [user EXCEPT !.raw = Append(@, Raw("Motion", "pointer", x, 0, FALSE))]
    /\ Report

UserToggles(kind, device, code) ==
    LET down == code \notin user.down
    IN /\ device \in user.plugged
       /\ user' = [user EXCEPT !.raw = Append(@, Raw(kind, device, 0, code, down)),
                               !.down = Transition(@, code, down)]
       /\ Report

UserPlugs(device) ==
    LET here == device \in user.plugged
    IN /\ user' = [plugged |-> IF here THEN user.plugged \ {device} ELSE user.plugged \cup {device},
                   down |-> user.down \ (IF device = "keyboard" THEN Keys ELSE Buttons),
                   raw |-> Append(user.raw, Raw(IF here THEN "Removed" ELSE "Added", device, 0, 0, FALSE))]
       /\ Report

\* service_real_input: what libinput has, or the repeat timer; then delivery.
ServiceBackend ==
    /\ s.running /\ s.active /\ user.raw # <<>>
    /\ Server(service_backend(s, user.raw))
    /\ user' = [user EXCEPT !.raw = <<>>]
    /\ UNCHANGED <<tool, budget>>

ServiceRepeat ==
    /\ s.running /\ s.repeat # NoRepeat
    /\ Server(service_repeat(s))
    /\ Spend("inputs")
    /\ UNCHANGED <<user, tool>>

DeliverInput ==
    /\ Delivering(s)
    /\ \E t \in {deliver(s)} : IF Delivering(t) THEN s' = t ELSE EndOfTurn(t)
    /\ UNCHANGED <<user, tool, budget>>

\* The compositor answers the cursor frame.
CursorAccepted ==
    /\ s.running /\ s.staged # NoCursor
    /\ Server(accept(s))
    /\ UNCHANGED <<user, tool, budget>>

CursorRejected ==
    /\ s.running /\ s.staged # NoCursor
    /\ Server(reject(s))
    /\ Spend("others")
    /\ UNCHANGED <<user, tool>>

\* A lifecycle transaction ends.
Committed ==
    /\ s.running /\ s.ready /\ s.busy
    /\ Server(complete_lifecycle(s, TRUE))
    /\ UNCHANGED <<user, tool, budget>>

Refused ==
    /\ s.running /\ s.ready /\ s.busy /\ Head(s.ops).kind # "Cleanup"
    /\ Server(complete_lifecycle(s, FALSE))
    /\ Spend("others")
    /\ UNCHANGED <<user, tool>>

\* What libinput had not reported by then is never reported.
SessionInactive ==
    /\ s.provider = "real" /\ s.running /\ s.ready /\ s.active
    /\ Server(suspend(s))
    /\ user' = [user EXCEPT !.down = {}, !.raw = <<>>]
    /\ Spend("others")
    /\ UNCHANGED tool

SessionActive ==
    /\ s.provider = "real" /\ s.running /\ s.ready /\ ~s.active
    /\ Server([resume(s, user.plugged) EXCEPT !.dirty = TRUE])
    /\ UNCHANGED <<user, tool, budget>>

CompositorLost ==
    /\ s.running /\ s.ready
    /\ Server([peer_disconnected(suspend(s)) EXCEPT !.ready = FALSE, !.busy = FALSE,
                                                    !.suspended = s.provider = "real"])
    /\ user' = [user EXCEPT !.down = {}, !.raw = <<>>]
    /\ Spend("others")
    /\ UNCHANGED tool

\* The bridge replays the scene and the lifecycle work goes on.
CompositorBack ==
    /\ s.running /\ ~s.ready
    /\ LET t == [s EXCEPT !.ready = TRUE, !.busy = s.ops # <<>>, !.suspended = FALSE]
       IN Server(IF s.suspended THEN [resume(t, user.plugged) EXCEPT !.dirty = TRUE] ELSE t)
    /\ UNCHANGED <<user, tool, budget>>

\* The synthetic provider.
ToolConnects ==
    /\ s.provider = "synthetic" /\ s.running /\ ~s.connected /\ ~s.lost
    /\ Server([s EXCEPT !.connected = TRUE, !.dirty = TRUE])
    /\ tool' = [open |-> TRUE, sent |-> <<>>, next |-> 1]
    /\ Spend("inputs")
    /\ UNCHANGED user

ToolSends(kind, x, code, down) ==
    /\ s.running /\ tool.open /\ Len(tool.sent) < RawLimit
    /\ tool' = [tool EXCEPT !.sent = Append(@, [id |-> tool.next, kind |-> kind, x |-> x,
                                                code |-> code, down |-> down]),
                            !.next = @ + 1]
    /\ Spend("inputs")
    /\ UNCHANGED <<s, user>>

ToolLeaves ==
    /\ s.running /\ tool.open
    /\ tool' = [tool EXCEPT !.open = FALSE]
    /\ Spend("others")
    /\ UNCHANGED <<s, user>>

\* The peer notices that the provider went; what was queued is dropped.
ProviderGone ==
    /\ s.running /\ s.connected /\ (~tool.open \/ s.lost)
    /\ Server([provider_gone(s) EXCEPT !.connected = FALSE])
    /\ tool' = [tool EXCEPT !.open = FALSE, !.sent = <<>>]
    /\ UNCHANGED <<user, budget>>

ServeRecord ==
    /\ s.running /\ s.connected /\ ~s.lost /\ s.wait = NoWait /\ tool.sent # <<>>
    /\ Server(serve_record(s, Head(tool.sent)))
    /\ tool' = [tool EXCEPT !.sent = Tail(@)]
    /\ UNCHANGED <<user, budget>>

\* Requests of the clients: every one makes the cursor dirty.
Request(c, t) ==
    /\ s.running /\ c \in s.clients
    /\ Server([t EXCEPT !.dirty = TRUE])
    /\ Spend("others")
    /\ UNCHANGED <<user, tool>>

\* MapWindow, UnmapWindow, ConfigureWindow and DestroyWindow of a top-level.
AskOp(r) ==
    /\ Len(s.ops) < OpLimit /\ s.shown[r.window] # "gone"
    /\ r.kind = "Map" => s.shown[r.window] = "hidden"
    /\ r.kind = "Unmap" => s.shown[r.window] = "viewable"
    /\ Request(r.client, enqueue(s, Op(r.kind, r.window,
                                        [Geometry(s, r.window) EXCEPT !.x = r.arg], FALSE)))

GrabRequest(r) ==
    /\ s.grab = NoGrab /\ Viewable(s, r.window)
    /\ Request(r.client, grab_pointer(s, r.client, r.window, r.arg = 1))
UngrabRequest(r) == s.grab # NoGrab /\ Request(r.client, ungrab_pointer(s, r.client))
PassiveRequest(r) == Exists(s, r.window) /\ Request(r.client, grab_button(s, r.client, r.window, r.arg))
KeyboardRequest(r) ==
    Request(r.client, IF s.keyGrab = NoGrab THEN grab_keyboard(s, r.client, r.window)
                      ELSE ungrab_keyboard(s, r.client))
CursorRequest(r) ==
    /\ Exists(s, r.window)
    /\ Request(r.client, [s EXCEPT !.cursor[r.window] = IF @ = None THEN "hand" ELSE None])

\* WarpPointer moves the pointer of the backend along.
WarpRequest(r) ==
    Request(r.client, [s EXCEPT !.ptr = r.arg, !.px = r.arg,
                                !.target = hit_test_deepest_viewable(s, r.arg)])

\* ChangeKeyboardControl; turning repeat off ends the one under way.
RepeatRequest(r) ==
    Request(r.client, [s EXCEPT !.auto = ~@, !.repeat = IF s.auto THEN NoRepeat ELSE @])

\* A client goes: its windows go in a transaction of their own, ahead of the
\* others that wait; its grabs stay.
ClientLeaves(r) ==
    LET c == r.client
        began == IF s.busy THEN SubSeq(s.ops, 1, 1) ELSE <<>>
        rest == SelectSeq(IF s.busy THEN Tail(s.ops) ELSE s.ops,
                          LAMBDA op : op.kind = "Focus" \/ op.mine \/ Owner[op.w] # c)
    IN /\ Len(s.ops) < OpLimit /\ \A i \in DOMAIN s.ops : s.ops[i].kind # "Cleanup"
       /\ Request(c, [s EXCEPT !.clients = @ \ {c}, !.repeat = NoRepeat,
                               !.ops = began \o <<Op("Cleanup", c, [x |-> 0, width |-> 0], FALSE)>> \o rest,
                               !.busy = @ \/ (s.staged = NoCursor /\ s.ready)])

Wish(kinds) == {r \in Wishes : r.kind \in kinds}

Next ==
    \/ \E x \in Moves : UserMoves(x)
    \/ \E b \in Buttons : UserToggles("Button", "pointer", b)
    \/ \E k \in Keys : UserToggles("Key", "keyboard", k)
    \/ \E d \in {"keyboard", "pointer"} : UserPlugs(d)
    \/ ServiceBackend \/ ServiceRepeat \/ DeliverInput
    \/ CursorAccepted \/ CursorRejected \/ Committed \/ Refused
    \/ SessionInactive \/ SessionActive \/ CompositorLost \/ CompositorBack
    \/ ToolConnects \/ ToolLeaves \/ ProviderGone \/ ServeRecord
    \/ \E x \in Moves : ToolSends("Motion", x, 0, FALSE)
    \/ \E b \in Buttons, down \in BOOLEAN : ToolSends("Button", 0, b, down)
    \/ ToolSends("Barrier", 0, 0, FALSE) \/ ToolSends("Key", 0, Bindings.close, TRUE)
    \/ \E r \in Wish({"Map", "Unmap", "Configure", "Destroy"}) : AskOp(r)
    \/ \E r \in Wish({"Grab"}) : GrabRequest(r)
    \/ \E r \in Wish({"Ungrab"}) : UngrabRequest(r)
    \/ \E r \in Wish({"GrabButton"}) : PassiveRequest(r)
    \/ \E r \in Wish({"GrabKeyboard"}) : KeyboardRequest(r)
    \/ \E r \in Wish({"Cursor"}) : CursorRequest(r)
    \/ \E r \in Wish({"Warp"}) : WarpRequest(r)
    \/ \E r \in Wish({"Repeat"}) : RepeatRequest(r)
    \/ \E r \in Wish({"Leave"}) : ClientLeaves(r)

Spec == Init /\ [][Next]_vars

-----------------------------------------------------------------------------
(* Properties *)

\* What the events still queued make of the server's buttons and keys.
Replay(t) ==
    LET Apply(h, e) ==
          CASE e.kind = "StateReset" -> [buttons |-> {}, keys |-> {}]
            [] e.kind = "Button" -> [h EXCEPT !.buttons = Transition(@, e.code, e.down)]
            [] e.kind = "Key" -> [h EXCEPT !.keys = IF (e.code \in @) = e.down THEN @
                                                    ELSE Transition(@, e.code, e.down)]
            [] OTHER -> h
    IN FoldLeft(Apply, [buttons |-> t.buttons, keys |-> t.keys], t.events)

\* The buttons and keys the server believes held are, once the queue is
\* delivered, those the controller's mask and keymap hold: through key repeat,
\* devices that leave, suspension and the consumed events of an interaction.
\* Without the seat nothing is held, queued or repeating.
HeldStateAgrees ==
    s.provider = "real" /\ s.running =>
      /\ Replay(s) = [buttons |-> s.mask, keys |-> s.held]
      /\ s.repeat # NoRepeat => s.repeat.key \in s.held
      /\ ~s.active => s.events = <<>> /\ s.held = {} /\ s.buttons = {} /\ s.keys = {}

\* Once a button is up, every client that was told of the press was told of the
\* release, wherever the pointer went and whatever became visible below it
\* (unless its window or connection went, the seat was lost, or an interaction
\* or a grab of its own took the button over).
EveryPressIsReleased ==
    s.running => \A o \in s.owes : o.button \in s.buttons

\* The server has nothing left to do until somebody else moves.
Quiet ==
    /\ s.running /\ s.ready /\ ~s.replay /\ user.raw = <<>>
    /\ s.wait = NoWait => s.events = <<>> /\ tool.sent = <<>>
    /\ ~s.busy /\ s.staged = NoCursor

\* Nothing waits for something that is not going to happen: lifecycle work put
\* off by a cursor frame has that frame (or the compositor's return) to start it,
\* and when the server has nothing left to do, no click waits for its focus, no
\* interaction whose button is up goes on, no synthetic record is unanswered and
\* the cursor shows what it should.  (A rejected cursor frame that need not be
\* sent again strands the work behind it: replay is set then.)
NothingIsStuck ==
    Quiet => /\ s.ops = <<>> /\ s.wait = NoWait
             /\ s.drag = NoDrag \/ ~s.drag.ending
             /\ s.accepted = Cursor(s) \/ (s.accepted = NoCursor /\ ~CursorVisible(s))
             /\ tool.open => 1..(tool.next - 1) \subseteq s.acked
=============================================================================
