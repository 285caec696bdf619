---------------------------- MODULE OutputFrames ----------------------------
(***************************************************************************)
(* From a tool's layout request to the pixels of the outputs: the server   *)
(* validates the layout (OutputLayout) and sends the scene as a snapshot   *)
(* of records (compositor_peer_submission.cpp); the compositor puts them   *)
(* together again (scene.cpp), validates the scene that carries the layout *)
(* (scene_validation.cpp), computes what of each output's last frame is    *)
(* out of date (output_damage.cpp, damage_region.cpp) and repaints only    *)
(* that (render/software/multi_output_scene_renderer.cpp); the server then *)
(* installs the layout, or takes everything back.                          *)
(*                                                                         *)
(* A pixel is the list of the samples blended into it since it was last    *)
(* cleared, so that two frames are equal only when the same source pixels  *)
(* with the same weights went into every pixel.  Buffers have the size     *)
(* that the surface's client scale asks for.                               *)
(***************************************************************************)
EXTENDS OutputLayout

CONSTANTS
    maximum_rectangles,     \* of a damage region before it gives up
    DamageLimit,            \* GWIPC_MAXIMUM_DAMAGE_RECTANGLES
    Inventories,            \* the layouts the backends may publish
    Requests(_),            \* the requests of the tools, for an inventory
    Redraws(_, _),          \* the surfaces a client may change its own into
    InitialSurfaces(_),     \* the surfaces a run may start with
    MaxGeneration           \* bound on the layouts committed

VARIABLES
    published,      \* compositor: the layout its backend starts with
    inventory,      \* coordinator: inventory_, as the server read it first
    layout,         \* coordinator: committed_layout_, and RANDR's layout_
    scene,          \* compositor: the committed scene; server: replay_input_
    frames,         \* compositor: output_set_, the pixels of every output
    outcome         \* what became of the last commit

vars == <<published, inventory, layout, scene, frames, outcome>>

-----------------------------------------------------------------------------
(* rectangle.cpp                                                           *)

Empty(r) == r.w = 0 \/ r.h = 0

intersection(a, b) ==
    LET x1 == Max({a.x, b.x})  x2 == Min({a.x + a.w, b.x + b.w})
        y1 == Max({a.y, b.y})  y2 == Min({a.y + a.h, b.y + b.h})
    IN  IF Empty(a) \/ Empty(b) \/ x1 >= x2 \/ y1 >= y2
        THEN None ELSE Rect(x1, y1, x2 - x1, y2 - y1)

translate(r, dx, dy) == [r EXCEPT !.x = @ + dx, !.y = @ + dy]

overlaps_or_is_compatibly_adjacent(a, b) ==
    /\ ~Empty(a) /\ ~Empty(b)
    /\ \/ intersection(a, b) # None
       \/ a.y = b.y /\ a.h = b.h /\ a.x + a.w >= b.x /\ b.x + b.w >= a.x
       \/ a.x = b.x /\ a.w = b.w /\ a.y + a.h >= b.y /\ b.y + b.h >= a.y

bounding_union(a, b) ==
    LET x1 == Min({a.x, b.x})  x2 == Max({a.x + a.w, b.x + b.w})
        y1 == Min({a.y, b.y})  y2 == Max({a.y + a.h, b.y + b.h})
    IN  Rect(x1, y1, x2 - x1, y2 - y1)

-----------------------------------------------------------------------------
(* damage_region.cpp                                                       *)

normalize(rectangles) ==
    SortSeq(rectangles, LAMBDA a, b :
        IF a.y # b.y THEN a.y < b.y ELSE IF a.x # b.x THEN a.x < b.x
        ELSE IF a.h # b.h THEN a.h < b.h ELSE a.w < b.w)

\* Unite the candidate with the first rectangle it touches and start over.
Absorb(rectangle, present) ==
    LET RECURSIVE absorb(_, _)
        absorb(candidate, rest) ==
            LET touching == {i \in DOMAIN rest :
                                overlaps_or_is_compatibly_adjacent(candidate, rest[i])}
            IN  IF touching = {} THEN Append(rest, candidate)
                ELSE absorb(bounding_union(candidate, rest[Min(touching)]),
                            RemoveAt(rest, Min(touching)))
    IN  absorb(rectangle, present)

\* A region is [full, rectangles]; r is None when there is nothing to add.
add(region, r, bounds) ==
    LET clipped == IF r = None THEN None ELSE intersection(r, bounds)
        united  == Absorb(clipped, region.rectangles)
    IN  IF region.full \/ clipped = None THEN region
        ELSE IF Len(united) > maximum_rectangles
        THEN [full |-> TRUE, rectangles |-> <<bounds>>]
        ELSE [full |-> FALSE, rectangles |-> normalize(united)]

-----------------------------------------------------------------------------
(* scene_validation.cpp, the output model profile.  A scene is [outputs,   *)
(* surfaces, primary, generation]; a surface carries its placement, its    *)
(* memberships and the content of its buffer, 0 while it has none.         *)

output_rectangle(o) == Rect(o.x, o.y, o.width, o.height)

valid_scene_output(o) ==
    LET extent == transformed_physical_extent(o.pw, o.ph, o.transform) IN
    /\ o.id # 0 /\ o.transform \in Transforms
    /\ o.scale[2] \in 1 .. kMaximumScaleDenominator
    /\ is_reduced(o.scale) /\ o.scale[1] >= o.scale[2] /\ o.scale[1] <= 4 * o.scale[2]
    /\ IF ~o.enabled
       THEN {o.x, o.y, o.width, o.height, o.pw, o.ph, o.refresh} = {0}
       ELSE /\ o.x >= 0 /\ o.y >= 0 /\ o.refresh # 0
            /\ o.pw \in 1 .. kMaximumPhysicalExtent /\ o.ph \in 1 .. kMaximumPhysicalExtent
            /\ o.pw * o.ph <= kMaximumPhysicalPixels
            /\ o.x + o.width <= kMaximumRootLogicalWidth
            /\ o.y + o.height <= kMaximumRootLogicalHeight
            /\ o.width = CeilDiv(extent.w * o.scale[2], o.scale[1])
            /\ o.height = CeilDiv(extent.h * o.scale[2], o.scale[1])

valid_scene_surface(s) ==
    /\ s.w # 0 /\ s.h # 0 /\ s.client_scale \in 1 .. 4
    /\ s.kind = "Cursor" => s.clip = None /\ s.opacity = "one"
    /\ s.clip # None => ~Empty(s.clip)

\* Enabled outputs the surface reaches, by row, column and identity.
geometric_memberships(outputs, s) ==
    LET reached == {id \in DOMAIN outputs :
            /\ outputs[id].enabled
            /\ intersection(Rect(s.x, s.y, s.w, s.h), output_rectangle(outputs[id])) # None}
    IN  IF s.visible
        THEN SelectSeq(expected_output_order(outputs), LAMBDA id : id \in reached)
        ELSE <<>>

overlapping_outputs(outputs) ==
    \E a, b \in {id \in DOMAIN outputs : outputs[id].enabled} :
        a # b /\ intersection(output_rectangle(outputs[a]), output_rectangle(outputs[b])) # None

validate_output_model_scene(s) ==
    LET on == {id \in DOMAIN s.outputs : s.outputs[id].enabled} IN
    /\ Cardinality(DOMAIN s.outputs) \in 1 .. kMaximumOutputs
    /\ s.generation # 0 /\ ~overlapping_outputs(s.outputs)
    /\ \A id \in DOMAIN s.outputs : s.outputs[id].id = id /\ valid_scene_output(s.outputs[id])
    /\ MapThenSumSet(LAMBDA id : s.outputs[id].pw * s.outputs[id].ph, on)
          <= kMaximumTotalOutputPixels
    /\ s.primary \in on
    /\ \A id \in DOMAIN s.surfaces :
          LET f == s.surfaces[id] IN
          /\ valid_scene_surface(f) /\ f.output \in on
          /\ f.kind # "Metadata" =>
                /\ f.memberships = geometric_memberships(s.outputs, f)
                /\ f.memberships # <<>> => f.output \in ToSet(f.memberships)

-----------------------------------------------------------------------------
(* output_damage.cpp                                                       *)

\* A mutant: an output that only moved keeps its pixels.
SameExtent(a, b) ==
    LET shape(o) == <<o.enabled, o.width, o.height, o.pw, o.ph, o.scale, o.transform>>
    IN  shape(a) = shape(b)

same_shape(a, b) ==
    LET shape(o) == <<o.enabled, o.x, o.y, o.width, o.height, o.pw, o.ph, o.scale, o.transform>>
    IN  shape(a) = shape(b)

same_surface(a, b) ==
    LET facts(s) == <<s.x, s.y, s.w, s.h, s.stacking, s.visible, s.clip, s.opacity,
                      s.client_scale, s.kind>>
    IN  facts(a) = facts(b)

surface_bounds(s) ==
    LET local   == Rect(0, 0, s.w, s.h)
        clipped == IF s.clip = None THEN local ELSE intersection(local, s.clip)
    IN  IF clipped = None THEN None ELSE translate(clipped, s.x, s.y)

select_sampling_filter(scale, client_scale) ==
    LET client == scale[2] * client_scale IN
    CASE scale[1] = client                          -> "Direct"
      [] scale[1] > client /\ scale[1] % client = 0 -> "Nearest"
      [] OTHER                                      -> "Bilinear"

\* The native rectangle a surface of the scene can have touched.
add_surface(surfaces, id, output) ==
    IF id \notin DOMAIN surfaces THEN None
    ELSE LET s == surfaces[id] IN
         IF ~s.visible \/ output.id \notin ToSet(s.memberships) \/ surface_bounds(s) = None
         THEN None
         ELSE map_logical_damage_to_native(output, surface_bounds(s),
                select_sampling_filter(output.scale, s.client_scale) = "Bilinear")

\* Damage of one output between two scenes: a sequence of rectangles.
calculate_output_damage(before, after, id, content_changed) ==
    LET output == after.outputs[id]
        bounds == Rect(0, 0, output.pw, output.ph)
        surface_ids == ById(DOMAIN before.surfaces \cup DOMAIN after.surfaces
                            \cup content_changed)
        changed(s) ==
            \/ s \in content_changed
            \/ s \notin DOMAIN before.surfaces \/ s \notin DOMAIN after.surfaces
            \/ ~same_surface(before.surfaces[s], after.surfaces[s])
            \/ before.surfaces[s].memberships # after.surfaces[s].memberships
        step(region, s) ==
            IF ~changed(s) THEN region
            ELSE add(add(region, add_surface(before.surfaces, s, before.outputs[id]), bounds),
                     add_surface(after.surfaces, s, output), bounds)
    IN  IF id \notin DOMAIN before.outputs \/ ~same_shape(before.outputs[id], output)
        THEN <<bounds>>
        ELSE FoldLeft(step, [full |-> FALSE, rectangles |-> <<>>], surface_ids).rectangles

-----------------------------------------------------------------------------
(* multi_output_scene_renderer.cpp                                         *)

Pixels(o) == (0 .. o.pw - 1) \X (0 .. o.ph - 1)

Within(p, r) == p[1] \in r.x .. r.x + r.w - 1 /\ p[2] \in r.y .. r.y + r.h - 1

stacking_order(surfaces) ==
    SortSeq(SetToSeq(DOMAIN surfaces), LAMBDA a, b :
        LET cursor(id) == surfaces[id].kind = "Cursor" IN
        IF cursor(a) # cursor(b) THEN ~cursor(a)
        ELSE \/ surfaces[a].stacking < surfaces[b].stacking
             \/ surfaces[a].stacking = surfaces[b].stacking /\ a < b)

\* The sampling point is in the rectangle.
inside(point, r) ==
    /\ point.x >= r.x * point.denominator /\ point.x < (r.x + r.w) * point.denominator
    /\ point.y >= r.y * point.denominator /\ point.y < (r.y + r.h) * point.denominator

Clamp(n, size) == Max({0, Min({n, size - 1})})

\* Source pixels and weights along one axis.
sample(filter, local, denominator, client_scale, size) ==
    LET fixed == denominator * 2
        twice == local * client_scale * 2 - denominator
        whole == twice \div fixed
    IN  IF filter # "Bilinear"
        THEN <<Clamp((local * client_scale) \div denominator, size)>>
        ELSE <<Clamp(whole, size), Clamp(whole + 1, size), twice % fixed, fixed>>

\* What a surface contributes to a native pixel, nothing when it does not
\* reach it.
Sampled(surfaces, id, output, p) ==
    LET s      == surfaces[id]
        bounds == surface_bounds(s)
        native == map_logical_rectangle_to_native(output, bounds)
        point  == map_native_pixel_center_to_logical(output, p)
        filter == select_sampling_filter(output.scale, s.client_scale)
        at(local, size) == sample(filter, local, point.denominator, s.client_scale,
                                  size * s.client_scale)
    IN  IF \/ ~s.visible \/ s.opacity = "zero" \/ s.kind = "Metadata"
           \/ output.id \notin ToSet(s.memberships) \/ bounds = None
        THEN <<>>
        ELSE IF native = None THEN <<>>
        ELSE IF ~Within(p, native) \/ point = None THEN <<>>
        ELSE IF ~inside(point, bounds) THEN <<>>
        ELSE << [surface |-> id, content |-> s.content, opacity |-> s.opacity,
                 x |-> at(point.x - s.x * point.denominator, s.w),
                 y |-> at(point.y - s.y * point.denominator, s.h)] >>

\* A pixel cleared and painted from the bottom to the top.
Painted(surfaces, output, p) ==
    LET order == stacking_order(surfaces) IN
    FlattenSeq([i \in 1 .. Len(order) |-> Sampled(surfaces, order[i], output, p)])

\* Surfaces that are painted without a buffer, which fails the frame.
Bufferless(surfaces, output, damage) ==
    {id \in DOMAIN surfaces :
        /\ surfaces[id].content = 0 /\ surfaces[id].visible /\ surfaces[id].opacity # "zero"
        /\ surfaces[id].kind # "Metadata" /\ output.id \in ToSet(surfaces[id].memberships)
        /\ surface_bounds(surfaces[id]) # None
        /\ LET native == map_logical_rectangle_to_native(output, surface_bounds(surfaces[id]))
           IN  native # None /\ \E i \in DOMAIN damage : intersection(damage[i], native) # None}

\* The last frame of the output can be repainted in part.
compatible_previous(previous, output) ==
    /\ output.id \in DOMAIN previous
    /\ LET f == previous[output.id] IN
       <<f.pw, f.ph, f.scale, f.transform>>
       = <<output.pw, output.ph, output.scale, output.transform>>

RepaintAll(output) == <<Rect(0, 0, output.pw, output.ph)>>

\* The next frame of one output.
render_output(previous, surfaces, output, damage) ==
    [pw |-> output.pw, ph |-> output.ph, scale |-> output.scale,
     transform |-> output.transform,
     pixels |-> [p \in Pixels(output) |->
        IF \E i \in DOMAIN damage : Within(p, damage[i])
        THEN Painted(surfaces, output, p)
        ELSE previous[output.id].pixels[p]] @@ <<>>]

\* A scene commit: [result, scene, frames].  Surfaces whose buffer is another
\* one, or whose content was reported as changed, are repainted.
Present(before, previous, after) ==
    LET on == {id \in DOMAIN after.outputs : after.outputs[id].enabled}
        content_changed == {id \in DOMAIN after.surfaces :
            id \in DOMAIN before.surfaces =>
                after.surfaces[id].content # before.surfaces[id].content}
        damage == [id \in on |->
            IF compatible_previous(previous, after.outputs[id])
            THEN calculate_output_damage(before, after, id, content_changed)
            ELSE RepaintAll(after.outputs[id])] @@ <<>>
        refused(why) == [result |-> why, scene |-> before, frames |-> previous]
    IN  IF ~validate_output_model_scene(after) THEN refused("RejectedScene")
        ELSE IF \/ \E id \in on : ~valid_output_mapping(after.outputs[id])
                \/ \E id \in on : Len(damage[id]) > DamageLimit
        THEN refused("RejectedFrame")
        ELSE IF \E id \in on : Bufferless(after.surfaces, after.outputs[id], damage[id]) # {}
        THEN refused("RejectedBuffer")
        ELSE [result |-> "Accepted", scene |-> after,
              frames |-> [id \in on |-> render_output(previous, after.surfaces,
                                            after.outputs[id], damage[id])] @@ <<>>]

-----------------------------------------------------------------------------
(* The server's side: output_scene_projection.cpp.  A cursor is placed by  *)
(* its pointer and hotspot; its surface follows from them.                 *)

NoScene == [outputs |-> <<>>, surfaces |-> <<>>, primary |-> 0, generation |-> 0]

Cursors(surfaces) == {id \in DOMAIN surfaces : surfaces[id].kind = "Cursor"}
WindowsOf(surfaces) == Restrict(surfaces, DOMAIN surfaces \ Cursors(surfaces))

\* The output under the pointer, or the primary one in a gap of the desktop.
cursor_primary(candidate, p) ==
    LET under == SelectSeq(candidate.order, LAMBDA id :
            candidate.states[id].enabled /\ Within(p, output_rectangle(candidate.states[id])))
    IN  IF under = <<>> THEN candidate.primary ELSE under[1]

cursor_buffer_scale(candidate, p) ==
    LET scale == candidate.states[cursor_primary(candidate, p)].scale
    IN  Max({1, Min({4, CeilDiv(scale[1], scale[2])})})

\* project_surface with populate_cursor_output_state.
PlaceCursor(c, candidate) ==
    LET p == <<Clamp(c.pointer[1], candidate.root_width),
               Clamp(c.pointer[2], candidate.root_height)>>
        placed == [c EXCEPT !.pointer = p, !.x = p[1] - c.hotspot[1], !.y = p[2] - c.hotspot[2],
                            !.client_scale = cursor_buffer_scale(candidate, p),
                            !.output = cursor_primary(candidate, p)]
    IN  [placed EXCEPT !.memberships = geometric_memberships(candidate.states, placed)]

\* The window manager's placement: memberships from the geometry, assigned to
\* the first of them, or to the primary output.
Place(surfaces, candidate) ==
    [id \in DOMAIN surfaces |->
        LET reached == geometric_memberships(candidate.states, surfaces[id])
            members == IF surfaces[id].kind = "Metadata" THEN <<>> ELSE reached
        IN  IF id \in Cursors(surfaces) THEN PlaceCursor(surfaces[id], candidate)
            ELSE [surfaces[id] EXCEPT !.memberships = members,
                    !.output = IF members = <<>> THEN candidate.primary ELSE members[1]]] @@ <<>>

SceneOf(surfaces, candidate) ==
    [outputs |-> candidate.states, surfaces |-> Place(surfaces, candidate),
     primary |-> candidate.primary, generation |-> candidate.generation]

-----------------------------------------------------------------------------
(* The snapshot a scene is sent in: compositor_peer_submission.cpp.        *)

\* A frame of windows keeps the cursor of the last accepted one, unless the
\* cursor's membership is of another layout.
retain_cursor_records(replay, s) ==
    IF Cursors(s.surfaces) # {} \/ replay.generation # s.generation THEN s
    ELSE [s EXCEPT !.surfaces = @ @@ Restrict(replay.surfaces, Cursors(replay.surfaces))]

membership_record(s, id) ==
    LET f == s.surfaces[id] IN
    [output |-> f.output, outputs |-> f.memberships, preferred |-> s.outputs[f.output].scale,
     client_scale |-> f.client_scale, generation |-> s.generation]

\* The wire's valid_surface_state, which the server asks before it sends.
encodable_membership(m) ==
    /\ m.output # 0 /\ m.generation # 0 /\ m.client_scale \in 1 .. 4
    /\ m.outputs = <<>> \/ m.output \in ToSet(m.outputs)

validate_surface_membership_records(s) ==
    /\ Cardinality(Cursors(s.surfaces)) <= 1
    /\ \A id \in Cursors(s.surfaces) :
          /\ s.surfaces[id].w \in 1 .. 64 /\ s.surfaces[id].h \in 1 .. 64
          /\ s.surfaces[id].opacity = "one" /\ s.surfaces[id].client_scale \in 1 .. 4
    /\ \A id \in DOMAIN s.surfaces :
          s.surfaces[id].kind # "Metadata" => encodable_membership(membership_record(s, id))

\* submit: the layout's map of the outputs is complete and the records valid.
submittable(s, known) ==
    /\ s.primary # 0 /\ s.generation # 0 /\ DOMAIN s.outputs = known
    /\ validate_surface_membership_records(s)

Records(type, ids, record(_)) ==
    [i \in DOMAIN ids |-> [type |-> type, id |-> ids[i], value |-> record(ids[i])]]

\* The primary output is the first of the outputs; a surface's output and
\* memberships come in a record of their own.
output_records(s) ==
    Records("Output",
            <<s.primary>> \o SelectSeq(expected_output_order(s.outputs), LAMBDA id : id # s.primary),
            LAMBDA id : s.outputs[id])
surface_membership_records(s) ==
    LET ids == ById(DOMAIN s.surfaces) IN
    Records("Surface", ids, LAMBDA id : [s.surfaces[id] EXCEPT !.memberships = <<>>])
    \o Records("Policy", SelectSeq(ids, LAMBDA id : id \notin Cursors(s.surfaces)), LAMBDA id : id)
    \o Records("Membership", SelectSeq(ids, LAMBDA id : s.surfaces[id].kind # "Metadata"),
               LAMBDA id : membership_record(s, id))

-----------------------------------------------------------------------------
(* The compositor puts the scene together: SceneModel of scene.cpp and the *)
(* checks for duplicates of gwcomp/compositor.cpp.                         *)

begin_complete_snapshot(generation) ==
    [scene |-> [NoScene EXCEPT !.generation = generation], memberships |-> <<>>,
     policies |-> {}, listed |-> {}, invalid |-> FALSE]

apply_output(p, id, o) ==
    LET first == \A r \in p.listed : r[1] # "Output"
        full == id \notin DOMAIN p.scene.outputs
                /\ Cardinality(DOMAIN p.scene.outputs) = kMaximumOutputs
        seen == IF first THEN [p EXCEPT !.scene.primary = id] ELSE p
    IN  IF ~valid_scene_output(o) \/ full THEN seen
        ELSE [seen EXCEPT !.scene.outputs = (id :> o) @@ @]

apply_surface(p, id, f) ==
    LET rival == \E c \in Cursors(p.scene.surfaces) \ {id} :
                    f.kind = "Cursor" /\ p.scene.surfaces[c].output = f.output
    IN  IF ~valid_scene_surface(f) \/ rival THEN p
        ELSE [p EXCEPT !.scene.surfaces = (id :> f) @@ @]

apply_policy(p, id) ==
    IF id \in Cursors(p.scene.surfaces) THEN p ELSE [p EXCEPT !.policies = @ \cup {id}]

apply_membership(p, id, m) ==
    IF ~(m.output # 0 /\ m.generation # 0 /\ m.client_scale \in 1 .. 4) THEN p
    ELSE [p EXCEPT !.memberships = (id :> m) @@ @]

\* A second record for the same thing spoils the snapshot.
apply(p, r) ==
    LET seen == [p EXCEPT !.listed = @ \cup {<<r.type, r.id>>}] IN
    IF <<r.type, r.id>> \in p.listed THEN [p EXCEPT !.invalid = TRUE]
    ELSE CASE r.type = "Output"     -> [apply_output(p, r.id, r.value) EXCEPT !.listed = seen.listed]
           [] r.type = "Surface"    -> apply_surface(seen, r.id, r.value)
           [] r.type = "Policy"     -> apply_policy(seen, r.id)
           [] r.type = "Membership" -> apply_membership(seen, r.id, r.value)

\* The scene with the memberships it was given.
assembled(p) ==
    [p.scene EXCEPT !.surfaces = [id \in DOMAIN @ |->
        IF id \in DOMAIN p.memberships
        THEN [@[id] EXCEPT !.memberships = p.memberships[id].outputs] ELSE @[id]] @@ <<>>]

\* What validate_output_model_scene and validate_scene_surface ask of the
\* records beyond the scene itself.
records_complete(p) ==
    LET surfaces == p.scene.surfaces IN
    /\ ~p.invalid
    /\ p.policies = DOMAIN surfaces \ Cursors(surfaces)
    /\ DOMAIN p.memberships = {id \in DOMAIN surfaces : surfaces[id].kind # "Metadata"}
    /\ \A id \in DOMAIN p.memberships :
          /\ surfaces[id].output \in DOMAIN p.scene.outputs
          /\ p.memberships[id] = [membership_record(p.scene, id) EXCEPT !.outputs = p.memberships[id].outputs]

\* A frame from the server's submission to the compositor's answer.  One that
\* the server cannot submit ends it.
Frame(before, previous, s, known) ==
    LET complete == retain_cursor_records(before, s)
        received == FoldLeft(apply, begin_complete_snapshot(complete.generation),
                             output_records(complete) \o surface_membership_records(complete))
        refused(why) == [result |-> why, scene |-> before, frames |-> previous]
    IN  IF ~submittable(complete, known) THEN refused("Fatal")
        ELSE IF ~records_complete(received) THEN refused("RejectedScene")
        ELSE Present(before, previous, assembled(received))

\* install_output_configuration: the screen and RANDR accept the layout.
installs(committed, candidate) ==
    /\ can_adopt_output_layout(committed, candidate)
    /\ derive_output_screen_model(candidate) # None
    /\ same_inventory_identity(committed, candidate)

\* The first frame of a session.
Init ==
    /\ published \in Inventories
    /\ inventory = begin_output_inventory(published)
    /\ layout = inventory
    /\ \E surfaces \in InitialSurfaces(published) :
          \E first \in {Frame(NoScene, <<>>, SceneOf(surfaces, inventory), DOMAIN inventory.states)} :
             /\ first.result = "Accepted"
             /\ scene = first.scene
             /\ frames = first.frames
    /\ outcome = "Accepted"

\* A tool's request, decided by the coordinator, the compositor and the
\* install; a layout that cannot be installed is taken back with a second
\* scene.  Both carry the windows alone: the cursor of another layout goes,
\* until the cursor presenter hears that its buffer is released and publishes
\* it again (Redraw).
Configure(request) ==
    \E built \in {build_candidate(request, layout, inventory)} :
       IF built.result # "Accepted"
       THEN outcome' = built.result /\ UNCHANGED <<layout, scene, frames>>
       ELSE \E shown \in {Frame(scene, frames, SceneOf(WindowsOf(scene.surfaces), built.layout),
                               DOMAIN layout.states)} :
            IF shown.result # "Accepted"
            THEN outcome' = shown.result /\ UNCHANGED <<layout, scene, frames>>
            ELSE IF installs(layout, built.layout)
            THEN /\ layout' = built.layout
                 /\ scene' = shown.scene /\ frames' = shown.frames
                 /\ outcome' = "Accepted"
            ELSE \E back \in {Frame(shown.scene, shown.frames,
                                   SceneOf(WindowsOf(scene.surfaces), layout),
                                   DOMAIN layout.states)} :
                 /\ scene' = back.scene /\ frames' = back.frames
                 /\ outcome' = IF back.result = "Accepted" THEN "PresenterRejected" ELSE "Fatal"
                 /\ UNCHANGED layout

\* The pointer is in a gap of the desktop and the cursor reaches an output
\* that is not the primary one.
Stranded(s) ==
    \E id \in Cursors(s.surfaces) :
        /\ s.surfaces[id].memberships # <<>>
        /\ s.surfaces[id].output \notin ToSet(s.surfaces[id].memberships)

\* A client moves, restacks, shows, hides or redraws its windows, or the
\* pointer moves.
Redraw(surfaces) ==
    \E shown \in {Frame(scene, frames, SceneOf(surfaces, layout), DOMAIN layout.states)} :
       /\ scene' = shown.scene /\ frames' = shown.frames
       /\ outcome' = IF shown.result = "Fatal" /\ Stranded(SceneOf(surfaces, layout))
                     THEN "Stranded" ELSE shown.result
       /\ UNCHANGED layout

Running == outcome \notin {"Fatal", "Stranded"}

ConfigureAny ==
    /\ Running /\ layout.generation < MaxGeneration
    /\ \E request \in Requests(published) : Configure(request)
    /\ UNCHANGED <<published, inventory>>

RedrawAny ==
    /\ Running
    /\ \E surfaces \in Redraws(published, scene.surfaces) : Redraw(surfaces)
    /\ UNCHANGED <<published, inventory>>

\* The compositor starts again with its backend's layout.  The server reads
\* it, finds the outputs it knows and replays the windows in the layout it
\* committed (forget_cursor_replay); other outputs are fatal.
Reconnect ==
    /\ Running
    /\ IF accept_output_inventory(inventory, begin_output_inventory(published))
       THEN \E shown \in {Frame(NoScene, <<>>, SceneOf(WindowsOf(scene.surfaces), layout),
                               DOMAIN layout.states)} :
               /\ scene' = shown.scene /\ frames' = shown.frames
               /\ outcome' = shown.result
       ELSE outcome' = "Fatal" /\ UNCHANGED <<scene, frames>>
    /\ UNCHANGED <<published, inventory, layout>>

Next == ConfigureAny \/ RedrawAny \/ Reconnect

Spec == Init /\ [][Next]_vars

-----------------------------------------------------------------------------
(* Properties.                                                             *)

\* A layout the server accepts is one the compositor can show: the checks of
\* the submission, those of the records the compositor puts together again
\* (scene_validation.cpp) and the renderer's of the mapping agree with
\* validate_layout, a layout the server cannot install after all can be taken
\* back, and a compositor that starts again is given the layout again: what it
\* shows is the layout in force.  The exception is a cursor in a gap of the
\* desktop (CursorGoesAnywhere).  The publisher and the reader of an inventory
\* agree too: of a committed layout enough is published, in the order the
\* reader wants, to rebuild all of it but the order of the modes.
ValidatorsAgree ==
    /\ outcome \notin {"RejectedScene", "RejectedFrame", "Fatal"}
    /\ published \in Inventories =>
          /\ scene.outputs = layout.states /\ scene.primary = layout.primary
          /\ begin_output_inventory(layout)
             = [layout EXCEPT !.descriptors = [id \in DOMAIN layout.descriptors |->
                   [layout.descriptors[id] EXCEPT !.modes = ModesById(@)]]]

\* The pointer may go wherever the desktop extends: "enabled output rectangles
\* may have gaps" (docs/decisions/0015-output-model-and-scaling.md:37).
CursorGoesAnywhere == outcome # "Stranded"

\* Repainting only the damage gives the frame a full repaint would give: the
\* damage of calculate_output_damage covers every pixel that another layout,
\* placement, stacking, visibility, clip or content changes, whatever the
\* output's scale and transform, through every sequence of frames.
FramesShowTheScene ==
    \A id \in DOMAIN frames :
        frames[id].pixels = [p \in Pixels(scene.outputs[id]) |->
                                Painted(scene.surfaces, scene.outputs[id], p)]

\* Every native pixel of an enabled output shows a point of that output's
\* part of the desktop, and is among the pixels that damage of that point
\* repaints: the two directions of the mapping agree for every scale and
\* transform, and at the edge where the logical extent was rounded up.
EveryPixelShowsItsPlace ==
    \A id \in Enabled(layout) :
        LET o == layout.states[id] IN
        \A p \in Pixels(o) :
            LET c == map_native_pixel_center_to_logical(o, p)
                r == map_logical_rectangle_to_native(o,
                        Rect(c.x \div c.denominator, c.y \div c.denominator, 1, 1))
            IN  /\ c # None /\ inside(c, output_rectangle(o))
                /\ r # None /\ Within(p, r)
=============================================================================
