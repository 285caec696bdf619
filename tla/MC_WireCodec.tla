---------------------------- MODULE MC_WireCodec ----------------------------
(***************************************************************************)
(* The messages: for each type one whose fields are all plain, the same    *)
(* with each field in turn at the edges of its width, and the combinations *)
(* that decide the validity of buffers, output geometry, output lists and  *)
(* texts.                                                                  *)
(***************************************************************************)
EXTENDS WireCodec

AllCapabilities == CursorCapabilities \cup {"CPU_BUFFER_SYNCHRONIZATION"}

File(n) == [kind |-> "file", size |-> n]
Event   == [kind |-> "event", size |-> 0]

\* Fields that are zero, or something else than one, in a plain message.
Zero ==
    {"flags", "lifecycle_flags", "presentation_flags", "reserved16",
     "luminance_available", "minimum_luminance_millinit",
     "maximum_luminance_millinit", "max_frame_average_luminance_millinit",
     "capability_flags", "physical_width_millimeters",
     "physical_height_millimeters", "modifier", "synchronization",
     "stack_sibling", "selected_minor", "byte_offset"}

PlainValue(type, e) ==
    CASE e[2] = "bytes" -> [i \in 1 .. IdBytes |-> 1]
      [] e[2] \in {"text", "size"} /\ e[1] \in {"name", "detail"} -> <<103, 119>>
      [] e[2] \in {"ids", "size"} /\ e[1] = "output_ids" -> <<1, 2>>
      [] e[2] \in {"rects", "size"} -> << [x |-> -1, y |-> 2, width |-> 3, height |-> 4] >>
      [] e[1] = "flags" /\ type = "OutputStateQuery" -> 1
      [] e[1] \in Zero  -> 0
      [] e[1] = "keycode" -> 8
      [] e[1] \in {"stride", "storage_size"} -> 8
      [] e[1] \in {"clip_x", "clip_y", "root_x", "root_y"} -> -2
      [] OTHER -> 1

\* table is Writes[type], which each of the sets below looks up once.
Named(table) == {i \in DOMAIN table : table[i][1] # ""}

EntryOf(table, f) == table[CHOOSE i \in DOMAIN table : table[i][1] = f]

Plain(type, table) ==
    [f \in {table[i][1] : i \in Named(table)} |-> PlainValue(type, EntryOf(table, f))]
    @@ <<>>

Texts ==
    {<<>>, <<127>>, <<128>>, <<193, 191>>, <<194, 128>>, <<194>>, <<223, 191>>,
     <<194, 192>>, <<224, 159, 191>>, <<224, 160, 128>>, <<237, 159, 191>>,
     <<237, 160, 128>>, <<237, 191, 191>>, <<238, 128, 128>>, <<239, 191, 191>>,
     <<240, 143, 191, 191>>, <<240, 144, 128, 128>>, <<244, 143, 191, 191>>,
     <<244, 144, 128, 128>>, <<245, 128, 128, 128>>, <<65, 194, 169>>,
     <<226, 130>>, <<1, 2, 3, 4>>, <<1, 2, 3, 4, 5>>}

Edges(e) ==
    CASE e[2] = "unsigned" /\ e[3] = 1 -> 0 .. Radix - 1
      [] e[2] = "unsigned" /\ e[3] = 2 -> (0 .. 13) \cup {Radix, Radix ^ 2 - 1}
      [] e[2] = "unsigned" /\ e[3] = 4 ->
            (0 .. 4) \cup {Radix, 128, 4096, 4097, 32767, 32768, Radix ^ 4 - 1}
      [] e[2] = "unsigned" -> {0, 1, 2, Radix, Radix ^ 4, Radix ^ 7}
      [] e[2] = "signed"   -> {-Half, -1, 0, 1, MaxInt32}
      [] e[2] = "bytes"    -> {[i \in 1 .. IdBytes |-> 0]}
      [] e[1] \in {"name", "detail"} -> Texts
      [] e[1] = "output_ids" -> {<<>>, <<1>>, <<2>>, <<1, 1>>, <<0, 1>>, <<2, 3, 1>>,
                                 <<1, 2, 3, 4>>}
      [] OTHER -> {<<>>} \cup
                  {<<[x |-> x, y |-> 0, width |-> w, height |-> h]>> :
                      x \in {-Half, MaxInt32}, w \in {0, 1, 2, Radix ^ 4 - 1}, h \in {0, 1}}
                  \cup {[i \in 1 .. n |-> [x |-> i, y |-> 0, width |-> 1, height |-> i]] :
                           n \in 2 .. 3}

Values(type, table, plain) ==
    UNION {{[plain EXCEPT ![table[i][1]] = x] : x \in Edges(table[i])} : i \in Named(table)}

\* Flags a message of the type can have.
AFlag(type) == CHOOSE f \in Permitted(type) : f \in {0, 1, 3, 4, 8}

FdsOf(type) == IF type = "BufferAttach" THEN <<File(8)>> ELSE <<>>

Message(type, v, flags, fds, capabilities) ==
    [type |-> type, value |-> v, flags |-> flags, fds |-> fds,
     capabilities |-> capabilities]

PlainOf(type) == Plain(type, Writes[type])

PlainMessages ==
    {Message(t, PlainOf(t), AFlag(t), FdsOf(t), AllCapabilities) : t \in MessageTypes}

Varied ==
    LET of(t, table) ==
            {Message(t, v, AFlag(t), FdsOf(t), AllCapabilities) :
                v \in Values(t, table, Plain(t, table))}
    IN  UNION {of(t, Writes[t]) : t \in MessageTypes}

Flagged ==
    LET of(t, v) ==
            {Message(t, v, f, FdsOf(t), AllCapabilities) : f \in 0 .. 31}
    IN  UNION {of(t, PlainOf(t)) : t \in MessageTypes}

Buffers ==
    LET plain == PlainOf("BufferAttach") IN
    {Message("BufferAttach",
             [plain EXCEPT !.width = w, !.height = h, !.stride = s,
                !.byte_offset = o, !.storage_size = z, !.synchronization = y],
             0, fds, capabilities) :
        w \in {1, 2}, h \in {1, 3}, s \in {4, 8}, o \in {0, 1, 5},
        z \in {8, 16, 17}, y \in {0, 1},
        fds \in {<<>>, <<File(16)>>, <<Event>>, <<File(17), Event>>, <<File(16), File(16)>>},
        capabilities \in {AllCapabilities, {}}}

Surfaces ==
    LET plain == PlainOf("SurfaceUpsert") IN
    {Message("SurfaceUpsert", [plain EXCEPT !.presentation_flags = p],
             0, <<>>, capabilities) :
        p \in 0 .. 3, capabilities \in {{}, {"WINDOW_LIFECYCLE"}, AllCapabilities}}

Geometries ==
    LET plain == PlainOf("PolicyOutputUpsert") IN
    {Message("PolicyOutputUpsert",
             [plain EXCEPT !.logical_x = x, !.logical_width = n,
                !.work_x = wx, !.work_width = wn, !.enabled = e, !.primary = p],
             8, <<>>, {}) :
        x \in {-1, 0, MaxInt32 - 1, MaxInt32}, n \in {0, 1, 2}, wx \in {0, 1, MaxInt32},
        wn \in {0, 1, 2}, e \in {0, 1}, p \in {0, 1}}

MCMessages ==
    PlainMessages \cup Varied \cup Flagged \cup Buffers \cup Surfaces \cup Geometries

MCForeign == PlainMessages
=============================================================================
