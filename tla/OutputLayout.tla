---------------------------- MODULE OutputLayout ----------------------------
(***************************************************************************)
(* The shared output model (src/output/model): rational scales, output     *)
(* transforms, the mapping between the logical desktop and an output's     *)
(* native pixels, and the validation of a layout; the inventories the two  *)
(* backends publish; the candidate layout the server builds from a tool's  *)
(* request (OutputConfigurationCoordinator::build_candidate) and what the  *)
(* screen and RANDR demand of it.                                          *)
(*                                                                         *)
(* An optional that holds nothing is None.  A scale is a pair, a transform *)
(* its number, a rectangle a record [x, y, w, h].  A mode's identity is    *)
(* the tuple it is hashed from: the inventories refuse collisions.  Colour *)
(* and the lengths of names are left out.  A layout goes from process to   *)
(* process as a snapshot of records, published and read back here.         *)
(***************************************************************************)
EXTENDS Integers, Sequences, FiniteSets, FiniteSetsExt, SequencesExt, TLC

CONSTANTS
    kMaximumOutputs,
    kMaximumPhysicalExtent,
    kMaximumPhysicalPixels,
    kMaximumTotalOutputPixels,
    kMaximumRootLogicalWidth,
    kMaximumRootLogicalHeight,
    kMaximumScaleDenominator,
    kMaximumModesPerOutput

ASSUME LimitsAssumption ==
    {kMaximumOutputs, kMaximumPhysicalExtent, kMaximumPhysicalPixels,
     kMaximumTotalOutputPixels, kMaximumRootLogicalWidth,
     kMaximumRootLogicalHeight, kMaximumScaleDenominator,
     kMaximumModesPerOutput} \subseteq Nat \ {0}

None == [none |-> TRUE]

Rect(x, y, w, h) == [x |-> x, y |-> y, w |-> w, h |-> h]

-----------------------------------------------------------------------------
(* scale.cpp                                                               *)

CeilDiv(a, b) == (a + b - 1) \div b

Coprime(a, b) == \A k \in 2 .. b : ~(a % k = 0 /\ b % k = 0)

is_reduced(s) == s[1] # 0 /\ s[2] # 0 /\ Coprime(s[1], s[2])

scale_in_range(s, low, high) ==
    /\ \A e \in {s, low, high} : e[1] # 0 /\ e[2] # 0
    /\ s[1] * low[2] >= low[1] * s[2]
    /\ s[1] * high[2] <= high[1] * s[2]

valid_output_scale(s, limit) ==
    /\ limit # 0 /\ s[2] <= limit /\ s[2] <= kMaximumScaleDenominator
    /\ is_reduced(s)
    /\ scale_in_range(s, <<1, 1>>, <<4, 1>>)

\* A mutant: the logical extent rounds down.
DerivedDown(n, s) == (n * s[2]) \div s[1]

\* The logical extent rounds up, so the last logical pixel may reach past the
\* output's edge.
derive_logical_dimension(n, s) == CeilDiv(n * s[2], s[1])

derive_logical_extent(w, h, s) ==
    IF is_reduced(s)
    THEN [w |-> derive_logical_dimension(w, s), h |-> derive_logical_dimension(h, s)]
    ELSE None

-----------------------------------------------------------------------------
(* transform.cpp                                                           *)

Transforms == 0 .. 7     \* Normal, Rotate90 .. 270, Flipped, Flipped90 .. 270

transform_swaps_axes(t) == t \in {1, 3, 5, 7}

transformed_physical_extent(w, h, t) ==
    IF transform_swaps_axes(t) THEN [w |-> h, h |-> w] ELSE [w |-> w, h |-> h]

\* The native boundary of a boundary of the transformed image; w and h are
\* the native extents.
transform_boundary(p, w, h, t) ==
    LET u == p[1]  v == p[2] IN
    CASE t = 0 -> <<u, v>>
      [] t = 1 -> <<w - v, u>>
      [] t = 2 -> <<w - u, h - v>>
      [] t = 3 -> <<v, h - u>>
      [] t = 4 -> <<w - u, v>>
      [] t = 5 -> <<w - v, h - u>>
      [] t = 6 -> <<u, h - v>>
      [] t = 7 -> <<v, u>>

inverse_transform_boundary(p, w, h, t) ==
    LET x == p[1]  y == p[2] IN
    CASE t = 0 -> <<x, y>>
      [] t = 1 -> <<y, w - x>>
      [] t = 2 -> <<w - x, h - y>>
      [] t = 3 -> <<h - y, x>>
      [] t = 4 -> <<w - x, y>>
      [] t = 5 -> <<h - y, w - x>>
      [] t = 6 -> <<x, h - y>>
      [] t = 7 -> <<y, x>>

contains_rectangle(w, h, r) == r.x + r.w <= w /\ r.y + r.h <= h

\* The rectangle the four mapped corners span.
map_rectangle_corners(r, Mapper(_)) ==
    LET corners == {Mapper(<<x, y>>) : x \in {r.x, r.x + r.w}, y \in {r.y, r.y + r.h}}
        xs == {c[1] : c \in corners}
        ys == {c[2] : c \in corners}
    IN  Rect(Min(xs), Min(ys), Max(xs) - Min(xs), Max(ys) - Min(ys))

transform_rectangle(r, w, h, t) ==
    LET extent == transformed_physical_extent(w, h, t)
        mapper(p) == transform_boundary(p, w, h, t)
    IN  IF t \in Transforms /\ contains_rectangle(extent.w, extent.h, r)
        THEN map_rectangle_corners(r, mapper) ELSE None

inverse_transform_rectangle(r, w, h, t) ==
    LET mapper(p) == inverse_transform_boundary(p, w, h, t) IN
    IF t \in Transforms /\ contains_rectangle(w, h, r)
    THEN map_rectangle_corners(r, mapper) ELSE None

-----------------------------------------------------------------------------
(* mapping.cpp.  A mapping is an output's state: its logical rectangle x,  *)
(* y, width, height, its native extent pw, ph, its scale and transform.    *)

valid_output_mapping(m) ==
    LET extent == transformed_physical_extent(m.pw, m.ph, m.transform) IN
    /\ m.width # 0 /\ m.height # 0 /\ m.pw # 0 /\ m.ph # 0
    /\ valid_output_scale(m.scale, kMaximumScaleDenominator)
    /\ m.transform \in Transforms
    /\ m.x >= 0 /\ m.y >= 0
    /\ derive_logical_extent(extent.w, extent.h, m.scale) = [w |-> m.width, h |-> m.height]

scaled_floor(n, s) == (n * s[1]) \div s[2]

\* A mutant: the upper bound is floored like the lower one.
ScaledDown(n, s) == (n * s[1]) \div s[2]

scaled_ceil(n, s) == CeilDiv(n * s[1], s[2])

\* Clip to the output, floor the lower and ceil the upper bounds, transform.
map_logical_rectangle_to_native(m, r) ==
    LET left == Max({r.x, m.x})   right  == Min({r.x + r.w, m.x + m.width})
        top  == Max({r.y, m.y})   bottom == Min({r.y + r.h, m.y + m.height})
        extent == transformed_physical_extent(m.pw, m.ph, m.transform)
        x0 == Min({scaled_floor(left - m.x, m.scale), extent.w})
        y0 == Min({scaled_floor(top - m.y, m.scale), extent.h})
        x1 == Min({scaled_ceil(right - m.x, m.scale), extent.w})
        y1 == Min({scaled_ceil(bottom - m.y, m.scale), extent.h})
    IN  IF \/ ~valid_output_mapping(m) \/ r.w = 0 \/ r.h = 0
           \/ left >= right \/ top >= bottom
        THEN None
        ELSE IF x0 >= x1 \/ y0 >= y1 THEN None
        ELSE transform_rectangle(Rect(x0, y0, x1 - x0, y1 - y0), m.pw, m.ph, m.transform)

\* The desktop position of a native pixel's centre, exact: the numerators
\* over a common denominator.
map_native_pixel_center_to_logical(m, p) ==
    LET t == inverse_transform_rectangle(Rect(p[1], p[2], 1, 1), m.pw, m.ph, m.transform)
        denominator == m.scale[1] * 2
    IN  IF ~valid_output_mapping(m) \/ p[1] >= m.pw \/ p[2] >= m.ph \/ t = None
        THEN None
        ELSE [x |-> m.x * denominator + (t.x * 2 + 1) * m.scale[2],
              y |-> m.y * denominator + (t.y * 2 + 1) * m.scale[2],
              denominator |-> denominator]

\* One native pixel more on every side, within the output.
expand_bilinear(r, w, h) ==
    LET left == Max({r.x - 1, 0})  right  == Min({r.x + r.w + 1, w})
        top  == Max({r.y - 1, 0})  bottom == Min({r.y + r.h + 1, h})
    IN  IF r.w = 0 \/ r.h = 0 \/ ~contains_rectangle(w, h, r)
        THEN None ELSE Rect(left, top, right - left, bottom - top)

map_logical_damage_to_native(m, r, bilinear) ==
    LET mapped == map_logical_rectangle_to_native(m, r) IN
    IF mapped = None \/ ~bilinear THEN mapped ELSE expand_bilinear(mapped, m.pw, m.ph)

-----------------------------------------------------------------------------
(* layout.cpp.  A check is a pair: what must hold, and the error returned  *)
(* when it does not.                                                       *)

FirstError(checks) ==
    LET failed == SelectSeq(checks, LAMBDA c : ~c[1]) IN
    IF failed = <<>> THEN "None" ELSE failed[1][2]

Sorted(ids, Before(_, _)) == SortSeq(SetToSeq(ids), Before)

ById(ids) == Sorted(ids, LAMBDA a, b : a < b)

\* The checks of one loop over the outputs, in the order of their identities.
ForEach(layout, Checks(_)) ==
    FlattenSeq([i \in 1 .. Cardinality(DOMAIN layout.states) |->
                   Checks(ById(DOMAIN layout.states)[i])])

Enabled(layout) == {id \in DOMAIN layout.states : layout.states[id].enabled}

output_rectangles_overlap(a, b) ==
    /\ a.x < b.x + b.width  /\ b.x < a.x + a.width
    /\ a.y < b.y + b.height /\ b.y < a.y + a.height

descriptor_limits_are_valid(d) ==
    /\ d.maximum_width \in 1 .. kMaximumPhysicalExtent
    /\ d.maximum_height \in 1 .. kMaximumPhysicalExtent
    /\ d.maximum_pixels \in 1 .. kMaximumPhysicalPixels
    /\ d.maximum_denominator \in 1 .. kMaximumScaleDenominator
    /\ valid_output_scale(d.minimum_scale, d.maximum_denominator)
    /\ valid_output_scale(d.maximum_scale, d.maximum_denominator)
    /\ scale_in_range(d.minimum_scale, <<1, 1>>, d.maximum_scale)
    /\ scale_in_range(d.maximum_scale, d.minimum_scale, <<4, 1>>)

descriptor_metadata_is_valid(d) ==
    /\ (d.width_mm = 0) = (d.height_mm = 0)
    /\ d.transforms # {} /\ d.transforms \subseteq Transforms
    /\ d.arbitrary_headless_mode => d.kind = "Headless" /\ d.mode_configurable

valid_descriptor_modes(d) ==
    /\ Len(d.modes) <= kMaximumModesPerOutput
    /\ \A i \in DOMAIN d.modes :
          LET mode == d.modes[i] IN
          /\ mode.id # <<>> /\ mode.output = d.id
          /\ mode.w \in 1 .. d.maximum_width /\ mode.h \in 1 .. d.maximum_height
          /\ mode.refresh # 0 /\ mode.w * mode.h <= d.maximum_pixels
          /\ \A j \in DOMAIN d.modes : d.modes[j].id = mode.id => j = i
    /\ Cardinality({i \in DOMAIN d.modes : d.modes[i].current}) <= 1

state_matches_mode(d, s) ==
    LET matching == {i \in DOMAIN d.modes : d.modes[i].id = s.mode} IN
    IF matching # {}
    THEN \E i \in matching : /\ d.modes[i].current
                             /\ <<s.pw, s.ph, s.refresh>>
                                = <<d.modes[i].w, d.modes[i].h, d.modes[i].refresh>>
    ELSE /\ d.kind = "Headless" /\ d.arbitrary_headless_mode /\ s.mode # <<>>
         /\ s.pw # 0 /\ s.ph # 0 /\ s.refresh # 0

\* Enabled outputs first, by row, column and identity.
expected_output_order(states) ==
    Sorted(DOMAIN states, LAMBDA a, b :
        IF states[a].enabled # states[b].enabled THEN states[a].enabled
        ELSE IF ~states[a].enabled THEN a < b
        ELSE \/ states[a].y < states[b].y
             \/ states[a].y = states[b].y /\ states[a].x < states[b].x
             \/ states[a].y = states[b].y /\ states[a].x = states[b].x /\ a < b)

RootWidth(states) ==
    Max({0} \cup {states[id].x + states[id].width : id \in {i \in DOMAIN states : states[i].enabled}})

RootHeight(states) ==
    Max({0} \cup {states[id].y + states[id].height : id \in {i \in DOMAIN states : states[i].enabled}})

validate_inventory_geometry(layout) ==
    LET on == Enabled(layout)
        primaries == {id \in on : layout.states[id].primary}
        inventory(id) ==
            LET d == layout.descriptors[id]  s == layout.states[id] IN
            << <<id # 0 /\ d.id = id /\ s.id = id, "InvalidIdentity">>,
               <<d.name # "" /\ \A o \in DOMAIN layout.descriptors :
                    layout.descriptors[o].name = d.name => o = id, "InvalidName">>,
               <<descriptor_metadata_is_valid(d), "InvalidDescriptor">>,
               <<s.enabled => s.x >= 0 /\ s.y >= 0, "InvalidPosition">> >>
    IN  IF Cardinality(DOMAIN layout.descriptors) > kMaximumOutputs THEN "TooManyOutputs"
        ELSE IF DOMAIN layout.descriptors # DOMAIN layout.states THEN "IncompleteInventory"
        ELSE FirstError(
            << <<on # {}, "NoEnabledOutput">>,
               <<primaries = {layout.primary}
                 /\ \A id \in primaries : layout.descriptors[id].primary_eligible,
                 "InvalidPrimaryOutput">> >>
            \o ForEach(layout, inventory) \o
            << <<\A a, b \in on : a # b =>
                    ~output_rectangles_overlap(layout.states[a], layout.states[b]),
                 "OverlappingOutputs">>,
               <<layout.root_width = RootWidth(layout.states)
                 /\ layout.root_height = RootHeight(layout.states)
                 /\ layout.root_width \in 1 .. kMaximumRootLogicalWidth
                 /\ layout.root_height \in 1 .. kMaximumRootLogicalHeight,
                 "InvalidRootExtent">> >>)

\* The pixels of the enabled outputs up to id, in the order of identities.
PixelsUpTo(layout, id) ==
    MapThenSumSet(LAMBDA o : layout.states[o].pw * layout.states[o].ph,
                  {o \in Enabled(layout) : o <= id})

validate_scale_mode_state(layout) ==
    LET d(id) == layout.descriptors[id]
        s(id) == layout.states[id]
        scale(id) ==
            << <<descriptor_limits_are_valid(d(id))
                 /\ valid_output_scale(s(id).scale, d(id).maximum_denominator)
                 /\ scale_in_range(s(id).scale, d(id).minimum_scale, d(id).maximum_scale),
                 "InvalidScale">> >>
        transform(id) ==
            << <<s(id).transform \in Transforms \cap d(id).transforms, "UnsupportedTransform">> >>
        ModeIds(id) == {d(id).modes[i].id : i \in DOMAIN d(id).modes}
        mode(id) ==
            << <<\A o \in DOMAIN layout.states : o < id => ModeIds(o) \cap ModeIds(id) = {},
                 "InvalidMode">>,
               <<valid_descriptor_modes(d(id))
                 /\ s(id).pw <= d(id).maximum_width /\ s(id).ph <= d(id).maximum_height
                 /\ s(id).pw * s(id).ph <= d(id).maximum_pixels
                 /\ (s(id).enabled => d(id).connected /\ state_matches_mode(d(id), s(id))),
                 "InvalidMode">>,
               <<s(id).enabled => PixelsUpTo(layout, id) <= kMaximumTotalOutputPixels,
                 "PhysicalLimitExceeded">> >>
        logical(id) ==
            LET extent == transformed_physical_extent(s(id).pw, s(id).ph, s(id).transform) IN
            << <<s(id).enabled => derive_logical_extent(extent.w, extent.h, s(id).scale)
                                  = [w |-> s(id).width, h |-> s(id).height],
                 "InvalidLogicalExtent">> >>
        disabled(id) ==
            << <<~s(id).enabled =>
                    /\ ~s(id).primary
                    /\ {s(id).x, s(id).y, s(id).width, s(id).height, s(id).pw,
                        s(id).ph, s(id).refresh} = {0},
                 "InvalidDisabledState">> >>
    IN  FirstError(ForEach(layout, scale) \o ForEach(layout, transform) \o
                   ForEach(layout, mode) \o ForEach(layout, logical) \o
                   ForEach(layout, disabled))

validate_metadata(layout) ==
    FirstError(
        << <<layout.generation # 0
             /\ \A id \in DOMAIN layout.states : layout.states[id].generation = layout.generation,
             "InvalidGeneration">>,
           <<layout.enabled_count = Cardinality(Enabled(layout))
             /\ layout.order = expected_output_order(layout.states), "InvalidOutputOrder">> >>)

validate_layout(layout) ==
    LET geometry == validate_inventory_geometry(layout) IN
    IF geometry # "None" THEN geometry
    ELSE LET state == validate_scale_mode_state(layout) IN
         IF state # "None" THEN state ELSE validate_metadata(layout)

-----------------------------------------------------------------------------
(* The inventories of the backends.  The identity of an output is hashed   *)
(* from its name or connector, so that the order of identities is not the  *)
(* order of the outputs.                                                   *)

derive_output_mode_id(output, w, h, refresh) ==
    IF output = 0 \/ w = 0 \/ h = 0 \/ refresh = 0 THEN <<>> ELSE <<output, w, h, refresh>>

OutputMode(output, w, h, refresh, current) ==
    [id |-> derive_output_mode_id(output, w, h, refresh), output |-> output,
     w |-> w, h |-> h, refresh |-> refresh, current |-> current]

\* What both backends say of an output.
OutputDescriptor(id, name, modes) ==
    [id |-> id, name |-> name, kind |-> "Headless", connected |-> TRUE,
     width_mm |-> 0, height_mm |-> 0, transforms |-> Transforms,
     minimum_scale |-> <<1, 1>>, maximum_scale |-> <<4, 1>>,
     maximum_denominator |-> kMaximumScaleDenominator,
     mode_configurable |-> TRUE, scale_configurable |-> TRUE,
     transform_configurable |-> TRUE, primary_eligible |-> TRUE,
     arbitrary_headless_mode |-> TRUE, maximum_width |-> kMaximumPhysicalExtent,
     maximum_height |-> kMaximumPhysicalExtent, maximum_pixels |-> kMaximumPhysicalPixels,
     modes |-> modes]

OutputState(id, mode, x, primary) ==
    [id |-> id, enabled |-> TRUE, mode |-> mode.id, x |-> x, y |-> 0,
     width |-> mode.w, height |-> mode.h, pw |-> mode.w, ph |-> mode.h,
     refresh |-> mode.refresh, scale |-> <<1, 1>>, transform |-> 0,
     primary |-> primary, generation |-> 1]

valid_request(r) ==
    /\ r.name # "" /\ r.refresh # 0
    /\ r.w \in 1 .. kMaximumPhysicalExtent /\ r.h \in 1 .. kMaximumPhysicalExtent
    /\ r.w * r.h <= kMaximumPhysicalPixels

\* OutputInventory::build: the requested outputs side by side, the first one
\* primary.
headless_inventory(requests) ==
    LET n == Len(requests)
        index(id) == CHOOSE i \in 1 .. n : requests[i].id = id
        left(i) == MapThenSumSet(LAMBDA j : requests[j].w, 1 .. i - 1)
        ids == {requests[i].id : i \in 1 .. n}
        mode(i) == OutputMode(requests[i].id, requests[i].w, requests[i].h,
                              requests[i].refresh, TRUE)
        layout ==
            [descriptors |-> [id \in ids |->
                OutputDescriptor(id, requests[index(id)].name, <<mode(index(id))>>)],
             states |-> [id \in ids |->
                OutputState(id, mode(index(id)), left(index(id)), index(id) = 1)],
             primary |-> requests[1].id, root_width |-> left(n + 1),
             root_height |-> Max({requests[i].h : i \in 1 .. n}),
             generation |-> 1, enabled_count |-> n,
             order |-> [i \in 1 .. n |-> requests[i].id]]
    IN  IF /\ n \in 1 .. kMaximumOutputs
           /\ \A i \in 1 .. n : valid_request(requests[i])
           /\ Cardinality(ids) = n
           /\ Cardinality({requests[i].name : i \in 1 .. n}) = n
           /\ validate_layout(layout) = "None"
        THEN layout ELSE None

\* build_drm_output_inventory: one connector, its mode fixed.
drm_inventory(id, name, connector_modes, selected) ==
    LET modes == [i \in DOMAIN connector_modes |->
                     OutputMode(id, connector_modes[i].w, connector_modes[i].h,
                                connector_modes[i].refresh, i = selected)]
        layout ==
            [descriptors |-> (id :> [OutputDescriptor(id, name, modes) EXCEPT
                !.kind = "Drm", !.mode_configurable = FALSE,
                !.arbitrary_headless_mode = FALSE]),
             states |-> (id :> OutputState(id, modes[selected], 0, TRUE)),
             primary |-> id, root_width |-> modes[selected].w,
             root_height |-> modes[selected].h, generation |-> 1,
             enabled_count |-> 1, order |-> <<id>>]
    IN  IF /\ selected \in DOMAIN modes
           /\ \A i, j \in DOMAIN modes : modes[i].id # <<>> /\ (modes[i].id = modes[j].id => i = j)
           /\ validate_layout(layout) = "None"
        THEN layout ELSE None

-----------------------------------------------------------------------------
(* The publication of a layout (output_inventory_publisher.cpp): the       *)
(* compositor's answer to the server's query, and the server's to a tool's.*)
(* A query is [id, sequence, flags].  The windows of a tool's query, the   *)
(* descriptors of files and the encoding (WireCodec) are left out.         *)

QueryFlags == {"Descriptors", "Modes", "Layout"}

valid_query(query, snapshot) ==
    /\ query.id # 0 /\ query.sequence # 0 /\ snapshot # 0
    /\ query.flags # {} /\ query.flags \subseteq QueryFlags

capability_flags(d) ==
    LET holds == [Connected |-> d.connected, ArbitraryMode |-> d.arbitrary_headless_mode,
                  ModeFixed |-> ~d.mode_configurable,
                  ScaleConfigurable |-> d.scale_configurable,
                  TransformConfigurable |-> d.transform_configurable,
                  PrimaryEligible |-> d.primary_eligible,
                  DimensionsKnown |-> d.width_mm # 0 /\ d.height_mm # 0]
    IN  {c \in DOMAIN holds : holds[c]}

\* The limit on an output's pixels is not published.
descriptor_record(d) ==
    [id |-> d.id, kind |-> d.kind, capabilities |-> capability_flags(d), name |-> d.name,
     width_mm |-> d.width_mm, height_mm |-> d.height_mm, transforms |-> d.transforms,
     minimum_scale |-> d.minimum_scale, maximum_scale |-> d.maximum_scale,
     maximum_denominator |-> d.maximum_denominator,
     maximum_width |-> d.maximum_width, maximum_height |-> d.maximum_height]

mode_record(mode) ==
    [id |-> mode.id, output |-> mode.output, w |-> mode.w, h |-> mode.h,
     refresh |-> mode.refresh, current |-> mode.current]

\* Neither the mode nor whether the output is primary.
state_record(s) ==
    [id |-> s.id, enabled |-> s.enabled, x |-> s.x, y |-> s.y, width |-> s.width,
     height |-> s.height, pw |-> s.pw, ph |-> s.ph, refresh |-> s.refresh,
     scale |-> s.scale, transform |-> s.transform]

\* The order of two mode identities; which one it is depends on the hash.
ModeBefore(a, b) ==
    \E i \in 1 .. 4 : a[i] < b[i] /\ \A j \in 1 .. i - 1 : a[j] = b[j]

ModesById(modes) == SortSeq(modes, LAMBDA a, b : ModeBefore(a.id, b.id))

Envelope(type, flags, reply_to, body) ==
    [type |-> type, flags |-> flags, reply_to |-> reply_to, body |-> body]

Items(type, bodies) ==
    [i \in DOMAIN bodies |-> Envelope(type, "SnapshotItem", 0, bodies[i])]

append_descriptors(layout) ==
    Items("Descriptor",
          [i \in DOMAIN layout.order |-> descriptor_record(layout.descriptors[layout.order[i]])])

append_modes(layout) ==
    LET modes(id) == ModesById(layout.descriptors[id].modes) IN
    Items("Mode", FlattenSeq([i \in DOMAIN layout.order |->
        [j \in DOMAIN modes(layout.order[i]) |-> mode_record(modes(layout.order[i])[j])]]))

append_states(layout) ==
    Items("State", [i \in DOMAIN layout.order |-> state_record(layout.states[layout.order[i]])])

requested_item_count(query, layout) ==
    LET outputs == Cardinality(DOMAIN layout.descriptors) IN
    (IF "Descriptors" \in query.flags THEN outputs ELSE 0)
    + (IF "Modes" \in query.flags
       THEN MapThenSumSet(LAMBDA id : Len(layout.descriptors[id].modes), DOMAIN layout.descriptors)
       ELSE 0)
    + (IF "Layout" \in query.flags THEN Cardinality(DOMAIN layout.states) ELSE 0)

build_output_inventory_publication(query, snapshot, layout) ==
    LET count == requested_item_count(query, layout)
        requested(flag, items) == IF flag \in query.flags THEN items ELSE <<>>
    IN  IF ~valid_query(query, snapshot) \/ validate_layout(layout) # "None" THEN <<>>
        ELSE <<Envelope("Begin", "None", 0,
                        [snapshot |-> snapshot, domain |-> "Outputs",
                         generation |-> layout.generation, count |-> count])>>
             \o requested("Descriptors", append_descriptors(layout))
             \o requested("Modes", append_modes(layout))
             \o requested("Layout", append_states(layout))
             \o <<Envelope("End", "None", 0,
                           [snapshot |-> snapshot, generation |-> layout.generation,
                            count |-> count]),
                  Envelope("Acknowledged", "Reply", query.sequence,
                           [id |-> query.id, generation |-> layout.generation,
                            result |-> "Accepted", primary |-> layout.primary,
                            root_width |-> layout.root_width, root_height |-> layout.root_height,
                            enabled_count |-> layout.enabled_count])>>

-----------------------------------------------------------------------------
(* The reader of the answer (compositor_output_inventory.cpp): descriptors,*)
(* then modes, then states, all in one order of the outputs.               *)

kMaximumInventoryItems == kMaximumOutputs * (kMaximumModesPerOutput + 2)

EmptyLayout ==
    [descriptors |-> <<>>, states |-> <<>>, primary |-> 0, root_width |-> 0,
     root_height |-> 0, generation |-> 0, enabled_count |-> 0, order |-> <<>>]

CompositorOutputInventory ==
    [state |-> "Idle", query |-> 0, sequence |-> 0, snapshot |-> 0, generation |-> 0,
     expected |-> 0, count |-> 0, order |-> <<>>, mode_output |-> 1, last_mode |-> <<>>,
     state_index |-> 1, layout |-> EmptyLayout, completed |-> None]

fail(reader) == [reader EXCEPT !.state = "Failed", !.completed = None]

start_inventory(reader, query) ==
    IF reader.state = "Idle" /\ query.id # 0 /\ query.sequence # 0
    THEN [reader EXCEPT !.state = "AwaitingSnapshot", !.query = query.id,
                        !.sequence = query.sequence]
    ELSE fail(reader)

consume_begin(reader, message) ==
    LET begin == message.body IN
    IF /\ message.flags = "None" /\ message.reply_to = 0
       /\ begin.domain = "Outputs" /\ begin.snapshot # 0 /\ begin.generation # 0
       /\ begin.count <= kMaximumInventoryItems
    THEN [reader EXCEPT !.state = "ReadingDescriptors", !.snapshot = begin.snapshot,
                        !.generation = begin.generation, !.expected = begin.count,
                        !.layout.generation = begin.generation]
    ELSE fail(reader)

\* The envelope of an item, and one more of the items declared.
consume_item_envelope(reader, message) ==
    /\ message.flags = "SnapshotItem" /\ message.reply_to = 0
    /\ reader.count # reader.expected /\ reader.count # kMaximumInventoryItems

consume_descriptor(reader, message) ==
    LET r == message.body
        has(c) == c \in r.capabilities
        descriptor ==
            [id |-> r.id, name |-> r.name, kind |-> r.kind, connected |-> has("Connected"),
             width_mm |-> r.width_mm, height_mm |-> r.height_mm, transforms |-> r.transforms,
             minimum_scale |-> r.minimum_scale, maximum_scale |-> r.maximum_scale,
             maximum_denominator |-> r.maximum_denominator,
             mode_configurable |-> ~has("ModeFixed"),
             scale_configurable |-> has("ScaleConfigurable"),
             transform_configurable |-> has("TransformConfigurable"),
             primary_eligible |-> has("PrimaryEligible"),
             arbitrary_headless_mode |-> has("ArbitraryMode"),
             maximum_width |-> r.maximum_width, maximum_height |-> r.maximum_height,
             maximum_pixels |-> kMaximumPhysicalPixels, modes |-> <<>>]
    IN  IF /\ reader.state = "ReadingDescriptors"
           /\ consume_item_envelope(reader, message)
           /\ Len(reader.order) # kMaximumOutputs
           /\ r.id # 0 /\ r.id \notin DOMAIN reader.layout.descriptors
        THEN [reader EXCEPT !.count = @ + 1, !.order = Append(@, r.id),
                            !.layout.descriptors = (r.id :> descriptor) @@ @]
        ELSE fail(reader)

\* The modes of an output follow each other by identity, the outputs in the
\* order of their descriptors.
consume_mode(reader, message) ==
    LET r == message.body
        positions == {i \in DOMAIN reader.order : reader.order[i] = r.output}
        position == Min(positions)
        last == IF position = reader.mode_output THEN reader.last_mode ELSE <<>>
    IN  IF /\ reader.state \in {"ReadingDescriptors", "ReadingModes"}
           /\ consume_item_envelope(reader, message)
           /\ positions # {} /\ position >= reader.mode_output
           /\ r.id # <<>> /\ (last # <<>> => ModeBefore(last, r.id))
           /\ Len(reader.layout.descriptors[r.output].modes) # kMaximumModesPerOutput
        THEN [reader EXCEPT !.state = "ReadingModes", !.count = @ + 1,
                            !.mode_output = position, !.last_mode = r.id,
                            !.layout.descriptors[r.output].modes = Append(@, r)]
        ELSE fail(reader)

\* The mode of an enabled output is the current one of its descriptor.
consume_state(reader, message) ==
    LET r == message.body
        modes == reader.layout.descriptors[r.id].modes
        current == {i \in DOMAIN modes :
                       /\ modes[i].current
                       /\ <<modes[i].w, modes[i].h, modes[i].refresh>> = <<r.pw, r.ph, r.refresh>>}
        state == r @@ [primary |-> FALSE, generation |-> reader.generation,
                       mode |-> IF r.enabled THEN modes[Min(current)].id ELSE <<>>]
    IN  IF /\ reader.state \in {"ReadingDescriptors", "ReadingModes", "ReadingLayout"}
           /\ consume_item_envelope(reader, message)
           /\ reader.state_index <= Len(reader.order)
           /\ r.id = reader.order[reader.state_index]
           /\ r.enabled => current # {}
           /\ r.id \notin DOMAIN reader.layout.states
        THEN [reader EXCEPT !.state = "ReadingLayout", !.count = @ + 1,
                            !.state_index = @ + 1,
                            !.layout.states = (r.id :> state) @@ @]
        ELSE fail(reader)

consume_end(reader, message) ==
    LET end == message.body IN
    IF /\ message.flags = "None" /\ message.reply_to = 0
       /\ end.snapshot = reader.snapshot /\ end.generation = reader.generation
       /\ reader.count = reader.expected /\ end.count = reader.count
       /\ reader.order # <<>> /\ reader.state_index = Len(reader.order) + 1
       /\ Cardinality(DOMAIN reader.layout.states) = Cardinality(DOMAIN reader.layout.descriptors)
    THEN [reader EXCEPT !.state = "AwaitingAcknowledgement"]
    ELSE fail(reader)

consume_acknowledgement(reader, message) ==
    LET ack == message.body
        states == reader.layout.states
        complete ==
            [reader.layout EXCEPT !.primary = ack.primary, !.root_width = ack.root_width,
                !.root_height = ack.root_height, !.enabled_count = ack.enabled_count,
                !.order = reader.order,
                !.states = IF ack.primary \in DOMAIN states
                           THEN [states EXCEPT ![ack.primary].primary = TRUE] ELSE states]
    IN  IF /\ message.flags = "Reply" /\ message.reply_to = reader.sequence
           /\ ack.id = reader.query /\ ack.generation = reader.generation
           /\ ack.result = "Accepted" /\ validate_layout(complete) = "None"
        THEN [reader EXCEPT !.state = "Complete", !.completed = complete]
        ELSE fail(reader)

consume(reader, message) ==
    CASE reader.state \in {"Failed", "Idle", "Complete"}              -> fail(reader)
      [] reader.state = "AwaitingSnapshot" /\ message.type = "Begin"  -> consume_begin(reader, message)
      [] reader.state = "AwaitingAcknowledgement" /\ message.type = "Acknowledged"
             -> consume_acknowledgement(reader, message)
      [] reader.state \in {"ReadingDescriptors", "ReadingModes", "ReadingLayout"}
             -> CASE message.type = "Descriptor" -> consume_descriptor(reader, message)
                  [] message.type = "Mode"       -> consume_mode(reader, message)
                  [] message.type = "State"      -> consume_state(reader, message)
                  [] message.type = "End"        -> consume_end(reader, message)
                  [] OTHER                       -> fail(reader)
      [] OTHER -> fail(reader)

\* begin_output_inventory and the messages that answer it: the layout read,
\* None when one of them was refused.
begin_output_inventory(published) ==
    LET query == [id |-> 1, sequence |-> 1, flags |-> QueryFlags]
        answer == build_output_inventory_publication(query, 1, published)
        started == start_inventory(CompositorOutputInventory, query)
    IN  FoldLeft(consume, started, answer).completed

\* accept_output_inventory after a reconnect: the descriptors are those of the
\* first inventory; which mode is current may differ.
same_descriptor_identity(left, right) ==
    LET listed(d) == [d EXCEPT !.modes = [i \in DOMAIN d.modes |->
                                             [d.modes[i] EXCEPT !.current = FALSE]]]
    IN  listed(left) = listed(right)

accept_output_inventory(reference, read) ==
    /\ read # None
    /\ DOMAIN reference.descriptors = DOMAIN read.descriptors
    /\ \A id \in DOMAIN reference.descriptors :
          same_descriptor_identity(reference.descriptors[id], read.descriptors[id])

-----------------------------------------------------------------------------
(* The candidate of a configuration request.                               *)

is_single_fixed_drm_output_profile(layout) ==
    /\ Cardinality(DOMAIN layout.descriptors) = 1
    /\ \A id \in DOMAIN layout.descriptors :
          LET d == layout.descriptors[id] IN
          /\ d.kind = "Drm" /\ ~d.mode_configurable
          /\ d.scale_configurable /\ d.transform_configurable

validate_single_fixed_drm_configuration(committed, candidate) ==
    LET before == committed.states[committed.order[1]]
        after  == candidate.states[candidate.order[1]]
    IN  FirstError(
        << <<is_single_fixed_drm_output_profile(committed)
             /\ is_single_fixed_drm_output_profile(candidate), "NotSingleFixedOutput">>,
           <<committed.order[1] = candidate.order[1], "OutputIdentityChanged">>,
           <<<<before.mode, before.pw, before.ph, before.refresh>>
             = <<after.mode, after.pw, after.ph, after.refresh>>, "PhysicalModeChanged">>,
           <<before.x = after.x /\ before.y = after.y, "LogicalPositionChanged">>,
           <<before.primary = after.primary /\ committed.primary = candidate.primary,
             "PrimaryStateChanged">>,
           <<before.enabled = after.enabled, "EnabledStateChanged">> >>)

\* Negative coordinates do not count towards the root; validation refuses
\* them later.
update_layout_metadata(layout) ==
    LET on == Enabled(layout) IN
    [layout EXCEPT
        !.root_width = Max({0} \cup {layout.states[id].x + layout.states[id].width :
                                       id \in {i \in on : layout.states[i].x >= 0}}),
        !.root_height = Max({0} \cup {layout.states[id].y + layout.states[id].height :
                                        id \in {i \in on : layout.states[i].y >= 0}}),
        !.enabled_count = Cardinality(on),
        !.order = expected_output_order(layout.states)]

\* The mode an output of the request selects: a published one, or its own.
SelectedMode(d, s) ==
    LET same == {i \in DOMAIN d.modes :
                    <<d.modes[i].w, d.modes[i].h, d.modes[i].refresh>> = <<s.pw, s.ph, s.refresh>>}
    IN  IF same # {} THEN d.modes[Min(same)].id
        ELSE IF d.kind = "Headless" /\ d.arbitrary_headless_mode /\ d.mode_configurable
        THEN derive_output_mode_id(d.id, s.pw, s.ph, s.refresh)
        ELSE <<>>

\* The descriptor with that mode as the only current one.
WithCurrentMode(d, s, mode) ==
    LET modes == [i \in DOMAIN d.modes |-> [d.modes[i] EXCEPT !.current = FALSE]]
        known == {i \in DOMAIN modes : modes[i].id = mode}
    IN  [d EXCEPT !.modes =
            IF known # {} THEN [modes EXCEPT ![Min(known)].current = TRUE]
            ELSE Append(modes, OutputMode(d.id, s.pw, s.ph, s.refresh, TRUE))]

validation_result(error) ==
    CASE error = "None"                                      -> "Accepted"
      [] error = "InvalidScale"                              -> "UnsupportedScale"
      [] error = "UnsupportedTransform"                      -> "UnsupportedTransform"
      [] error \in {"InvalidMode", "PhysicalLimitExceeded"}  -> "UnsupportedMode"
      [] error \in {"IncompleteInventory", "InvalidIdentity"} -> "UnknownOutput"
      [] OTHER                                               -> "InvalidLayout"

\* The candidate and the result of the request, whose record for each output
\* is [enabled, x, y, width, height, pw, ph, refresh, scale, transform].
build_candidate(request, committed, inventory) ==
    LET generation == committed.generation + 1
        state(id) ==
            LET v == request.outputs[id] IN
            [id |-> id, enabled |-> v.enabled,
             mode |-> IF v.enabled THEN SelectedMode(inventory.descriptors[id], v) ELSE <<>>,
             x |-> v.x, y |-> v.y, width |-> v.width, height |-> v.height,
             pw |-> v.pw, ph |-> v.ph, refresh |-> v.refresh, scale |-> v.scale,
             transform |-> v.transform, primary |-> id = request.primary,
             generation |-> generation]
        states == [id \in DOMAIN inventory.descriptors |-> state(id)] @@ <<>>
        descriptor(id) ==
            IF states[id].enabled
            THEN WithCurrentMode(inventory.descriptors[id], states[id], states[id].mode)
            ELSE inventory.descriptors[id]
        candidate == update_layout_metadata(
            [inventory EXCEPT !.generation = generation, !.primary = request.primary,
                !.states = states,
                !.descriptors = [id \in DOMAIN inventory.descriptors |-> descriptor(id)] @@ <<>>])
        changed(id) ==
            LET d == inventory.descriptors[id]  s == states[id]  old == committed.states[id] IN
            << <<s.enabled => d.scale_configurable \/ s.scale = old.scale, "UnsupportedScale">>,
               <<s.enabled => d.transform_configurable \/ s.transform = old.transform,
                 "UnsupportedTransform">>,
               <<s.enabled => d.mode_configurable
                    \/ <<s.pw, s.ph, s.refresh>> = <<old.pw, old.ph, old.refresh>>,
                 "UnsupportedMode">>,
               <<s.enabled => s.mode # <<>>, "UnsupportedMode">> >>
        refusal == FirstError(ForEach(candidate, changed))
        drm == validate_single_fixed_drm_configuration(committed, candidate)
        result ==
            IF request.primary \notin DOMAIN inventory.descriptors THEN "UnknownOutput"
            ELSE IF DOMAIN request.outputs # DOMAIN inventory.descriptors THEN "InvalidLayout"
            ELSE IF refusal # "None" THEN refusal
            ELSE IF is_single_fixed_drm_output_profile(committed) /\ drm = "PhysicalModeChanged"
                 THEN "UnsupportedMode"
            ELSE IF is_single_fixed_drm_output_profile(committed) /\ drm # "None"
                 THEN "InvalidLayout"
            ELSE validation_result(validate_layout(candidate))
    IN  [result |-> result,
         layout |-> IF result = "Accepted" THEN candidate ELSE None]

-----------------------------------------------------------------------------
(* What the server demands of a layout it installs.                        *)

\* The X screen's size in millimetres at 96 dots per inch.
millimeters_at_96_dpi(pixels) == (pixels * 254 + 480) \div 960

derive_output_screen_model(layout) ==
    LET primary == layout.states[layout.primary] IN
    IF /\ validate_layout(layout) = "None"
       /\ layout.enabled_count # 0
       /\ layout.primary \in DOMAIN layout.states
       /\ primary.enabled /\ primary.refresh # 0
       /\ millimeters_at_96_dpi(layout.root_width) # 0
       /\ millimeters_at_96_dpi(layout.root_height) # 0
    THEN [w |-> layout.root_width, h |-> layout.root_height, refresh |-> primary.refresh]
    ELSE None

\* RandRState::configure_output_layout refuses a layout whose descriptors do
\* not list the modes of the layout before it.
same_inventory_identity(left, right) ==
    LET facts(d) == [name |-> d.name, kind |-> d.kind,
                     modes |-> [i \in DOMAIN d.modes |-> d.modes[i].id]]
    IN  /\ DOMAIN left.descriptors = DOMAIN right.descriptors
        /\ \A id \in DOMAIN left.descriptors :
              facts(left.descriptors[id]) = facts(right.descriptors[id])

\* The compositor's peer adopts a layout of the outputs it has.
can_adopt_output_layout(adopted, layout) ==
    /\ validate_layout(layout) = "None"
    /\ DOMAIN adopted.descriptors = DOMAIN layout.descriptors
    /\ \A id \in DOMAIN adopted.descriptors :
          /\ adopted.descriptors[id].name = layout.descriptors[id].name
          /\ adopted.descriptors[id].kind = layout.descriptors[id].kind
=============================================================================
