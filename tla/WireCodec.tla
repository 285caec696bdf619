------------------------------ MODULE WireCodec ------------------------------
(***************************************************************************)
(* The GWIPC payload codecs (src/ipc/wire) with the C API that fills and   *)
(* reads them (src/ipc/contract_api.cpp, control_api.cpp) and the checks a *)
(* connection makes on a record before it lets it through.                 *)
(*                                                                         *)
(* Every encoder and every decoder is a table of its own, the fields in    *)
(* the order in which that function writes or reads them, so that a field  *)
(* written in one order and read in another, a reserved field nobody       *)
(* checks or a count that does not match its array shows up as a           *)
(* disagreement between two tables.  One interpreter writes a table        *)
(* (ByteWriter) and one reads it (ByteReader).                             *)
(*                                                                         *)
(* A numeral of w bytes has w digits of base Radix.  The code has Radix =  *)
(* 256; a smaller one lets TLC's integers hold eight digits.  Limits that  *)
(* do not fit the smaller numerals are constants.  Text is made of real    *)
(* bytes.                                                                  *)
(***************************************************************************)
EXTENDS Integers, Sequences, SequencesExt, TLC

CONSTANTS
    Radix,                      \* values of a digit
    IdBytes,                    \* bytes of an instance id, 16 in the code
    kOpacityOne,
    kMaximumDamageRectangles,
    kMaximumManagedOutputs,
    kMaximumOutputNameBytes,
    kMaximumInstanceLabel,
    kMaximumDiagnosticString,
    kHardMaximumPayload

ASSUME CodecAssumption ==
    /\ Radix \in Nat \ {0, 1}
    /\ IdBytes \in Nat \ {0}
    /\ {kOpacityOne, kMaximumDamageRectangles, kMaximumManagedOutputs,
        kMaximumOutputNameBytes, kMaximumInstanceLabel,
        kMaximumDiagnosticString, kHardMaximumPayload} \subseteq Nat

-----------------------------------------------------------------------------
(* Numerals.  The low digit comes first; a negative number is written by   *)
(* its two's complement, which is what flooring division gives.            *)

Digits(n, w) == [i \in 1 .. w |-> (n \div Radix ^ (i - 1)) % Radix]

Numeral(digits) ==
    LET sum[i \in 0 .. Len(digits)] ==
            IF i = 0 THEN 0 ELSE sum[i - 1] + digits[i] * Radix ^ (i - 1)
    IN  sum[Len(digits)]

Half == Radix ^ 4 \div 2

MaxInt32 == Half - 1

Signed(n) == IF n >= Half THEN n - 2 * Half ELSE n

-----------------------------------------------------------------------------
(* The entries of a table: <<field, kind, argument>>.                      *)

Each(kind, w, names) == [i \in 1 .. Len(names) |-> <<names[i], kind, w>>]

u8(names)  == Each("unsigned", 1, names)
u16(names) == Each("unsigned", 2, names)
u32(names) == Each("unsigned", 4, names)
u64(names) == Each("unsigned", 8, names)
i32(names) == Each("signed", 4, names)
zero(w)    == << <<"", "zero", w>> >>           \* a literal zero
raw(name, w) == << <<name, "bytes", w>> >>
size(name, w) == << <<name, "size", w>> >>      \* of a string or an array
text(name)  == << <<name, "text", name>> >>
ids(name)   == << <<name, "ids", name>> >>
rects(name) == << <<name, "rects", name>> >>
textOf(name, count)  == << <<name, "text", count>> >>
idsOf(name, count)   == << <<name, "ids", count>> >>
rectsOf(name, count) == << <<name, "rects", count>> >>
limit(count, max) == << <<count, "limit", max>> >>
check(what) == << <<what, "check", 0>> >>

Rectangle == i32(<<"x", "y">>) \o u32(<<"width", "height">>)

-----------------------------------------------------------------------------
(* ByteWriter and ByteReader.                                              *)

Flat(parts) ==
    LET upto[i \in 0 .. Len(parts)] ==
            IF i = 0 THEN <<>> ELSE upto[i - 1] \o parts[i]
    IN  upto[Len(parts)]

WriteRectangle(r) ==
    Digits(r.x, 4) \o Digits(r.y, 4) \o Digits(r.width, 4) \o Digits(r.height, 4)

ByteWriter(e, v) ==
    CASE e[2] \in {"unsigned", "signed"} -> Digits(v[e[1]], e[3])
      [] e[2] = "zero"  -> Digits(0, e[3])
      [] e[2] = "size"  -> Digits(Len(v[e[1]]), e[3])
      [] e[2] \in {"bytes", "text"} -> v[e[1]]
      [] e[2] = "ids"   -> Flat([i \in DOMAIN v[e[1]] |-> Digits(v[e[1]][i], 8)])
      [] e[2] = "rects" -> Flat([i \in DOMAIN v[e[1]] |-> WriteRectangle(v[e[1]][i])])

Written(table, v) == Flat([i \in DOMAIN table |-> ByteWriter(table[i], v)])

\* The bytes a read consumes.
Need(e, got) ==
    CASE e[2] \in {"unsigned", "signed", "bytes"} -> e[3]
      [] e[2] = "text"  -> got[e[3]]
      [] e[2] = "ids"   -> 8 * got[e[3]]
      [] e[2] = "rects" -> 16 * got[e[3]]
      [] OTHER -> 0

ReadRectangle(b) ==
    [x      |-> Signed(Numeral(SubSeq(b, 1, 4))),
     y      |-> Signed(Numeral(SubSeq(b, 5, 8))),
     width  |-> Numeral(SubSeq(b, 9, 12)),
     height |-> Numeral(SubSeq(b, 13, 16))]

ByteReader(e, b) ==
    CASE e[2] = "unsigned" -> Numeral(b)
      [] e[2] = "signed"   -> Signed(Numeral(b))
      [] e[2] \in {"bytes", "text"} -> b
      [] e[2] = "ids"      -> [i \in 1 .. Len(b) \div 8 |->
                                  Numeral(SubSeq(b, 8 * i - 7, 8 * i))]
      [] e[2] = "rects"    -> [i \in 1 .. Len(b) \div 16 |->
                                  ReadRectangle(SubSeq(b, 16 * i - 15, 16 * i))]

-----------------------------------------------------------------------------
(* Predicates the decoders share.                                          *)

in_range(v, first, last) == first <= v /\ v <= last

boolean(v) == v <= 1

\* Only the lowest n bits are set.
Only(v, n) == v < 2 ^ n

Bit(v, n) == (v \div 2 ^ n) % 2 = 1

nonzero(id) == \E i \in DOMAIN id : id[i] # 0

valid_version_range(minMajor, minMinor, maxMajor, maxMinor) ==
    \/ minMajor < maxMajor
    \/ minMajor = maxMajor /\ minMinor <= maxMinor

\* width - 1U <= max - x, in 64 bits.
valid_rectangle(r) ==
    /\ r.width # 0 /\ r.height # 0
    /\ r.width - 1 <= MaxInt32 - r.x
    /\ r.height - 1 <= MaxInt32 - r.y

extent(p, n) == n # 0 /\ p + n - 1 <= MaxInt32

valid_extent(p, n) == n # 0 /\ p >= 0 /\ p + n <= MaxInt32 + 1

reduced_scale(n, d) ==
    n # 0 /\ d # 0 /\ ~\E k \in 2 .. d : n % k = 0 /\ d % k = 0

\* left <= right as fractions (compare_scale)
scale_at_most(ln, ld, rn, rd) == ln * rd <= rn * ld

kWireMaximumScaleDenominator == 120

valid_scale(n, d, limit_) ==
    /\ d <= limit_
    /\ reduced_scale(n, d)
    /\ scale_at_most(1, 1, n, d)
    /\ scale_at_most(n, d, 4, 1)

-----------------------------------------------------------------------------
(* valid_utf8, on real bytes.                                              *)

Utf8Length(first) ==
    CASE first <= 127             -> 1
      [] first \in 194 .. 223     -> 2
      [] first \in 224 .. 239     -> 3
      [] first \in 240 .. 244     -> 4
      [] OTHER                    -> 0

\* The code point in the n bytes of t that start at i.
CodePoint(t, i, n) ==
    LET lead == IF n = 1 THEN t[i] ELSE t[i] % 2 ^ (7 - n)
        upto[k \in 0 .. n - 1] ==
            IF k = 0 THEN lead ELSE upto[k - 1] * 64 + (t[i + k] % 64)
    IN  upto[n - 1]

valid_utf8(t) ==
    LET wellFormed[i \in 1 .. Len(t) + 1] ==
            \/ i = Len(t) + 1
            \/ LET n == Utf8Length(t[i]) IN
               /\ n # 0
               /\ i + n - 1 <= Len(t)
               /\ \A k \in 1 .. n - 1 : t[i + k] \div 64 = 2
               /\ LET c == CodePoint(t, i, n) IN
                  /\ ~(n = 2 /\ c < 128)
                  /\ ~(n = 3 /\ c < 2048)
                  /\ ~(n = 4 /\ c < 65536)
                  /\ ~(c \in 55296 .. 57343)
                  /\ c <= 1114111
               /\ wellFormed[i + n]
    IN  wellFormed[1]

-----------------------------------------------------------------------------
(* Control messages (control.cpp).                                         *)

kKnownCapabilities == 22        \* bits
Roles == 6
RejectReasons == 7
ProtocolErrorCodes == 11
SnapshotDomains == 5
kHardMaximumFds == 16
kWireMajor == 1
kWireMinor == 0

encode_Hello ==
    u16(<<"minimum_major", "minimum_minor", "maximum_major", "maximum_minor",
          "sender_role">>)
    \o zero(2) \o u64(<<"offered_capabilities", "required_capabilities">>)
    \o u32(<<"maximum_payload">>) \o u16(<<"maximum_fd_count">>)
    \o size("name", 2) \o raw("sender_instance_id", IdBytes) \o text("name")

decode_Hello ==
    u16(<<"minimum_major", "minimum_minor", "maximum_major", "maximum_minor",
          "sender_role", "reserved">>)
    \o u64(<<"offered_capabilities", "required_capabilities">>)
    \o u32(<<"maximum_payload">>) \o u16(<<"maximum_fd_count", "name_size">>)
    \o raw("sender_instance_id", IdBytes)
    \o limit("name_size", kMaximumInstanceLabel) \o textOf("name", "name_size")

valid_Hello(v) ==
    /\ v.reserved = 0
    /\ in_range(v.sender_role, 1, Roles)
    /\ valid_version_range(v.minimum_major, v.minimum_minor,
                           v.maximum_major, v.maximum_minor)
    /\ nonzero(v.sender_instance_id)
    /\ Only(v.required_capabilities, kKnownCapabilities)
    /\ in_range(v.maximum_payload, 1, kHardMaximumPayload)
    /\ v.maximum_fd_count <= kHardMaximumFds
    /\ valid_utf8(v.name)

encode_Welcome ==
    u16(<<"selected_major", "selected_minor", "sender_role">>) \o zero(2)
    \o u64(<<"negotiated_capabilities">>) \o u32(<<"negotiated_maximum_payload">>)
    \o u16(<<"negotiated_maximum_fd_count">>) \o zero(2)
    \o u64(<<"connection_id">>) \o raw("sender_instance_id", IdBytes)

decode_Welcome ==
    u16(<<"selected_major", "selected_minor", "sender_role", "reserved1">>)
    \o u64(<<"negotiated_capabilities">>) \o u32(<<"negotiated_maximum_payload">>)
    \o u16(<<"negotiated_maximum_fd_count", "reserved2">>)
    \o u64(<<"connection_id">>) \o raw("sender_instance_id", IdBytes)

valid_Welcome(v) ==
    /\ v.reserved1 = 0 /\ v.reserved2 = 0
    /\ v.selected_major = kWireMajor /\ v.selected_minor = kWireMinor
    /\ in_range(v.sender_role, 1, Roles)
    /\ Only(v.negotiated_capabilities, kKnownCapabilities)
    /\ in_range(v.negotiated_maximum_payload, 1, kHardMaximumPayload)
    /\ v.negotiated_maximum_fd_count <= kHardMaximumFds
    /\ v.connection_id # 0 /\ nonzero(v.sender_instance_id)

encode_Reject ==
    u16(<<"reason">>) \o size("detail", 2)
    \o u16(<<"supported_minimum_major", "supported_minimum_minor",
             "supported_maximum_major", "supported_maximum_minor">>)
    \o zero(4) \o text("detail")

decode_Reject ==
    u16(<<"reason", "detail_size", "supported_minimum_major",
          "supported_minimum_minor", "supported_maximum_major",
          "supported_maximum_minor">>)
    \o u32(<<"reserved">>) \o limit("detail_size", kMaximumDiagnosticString)
    \o textOf("detail", "detail_size")

valid_Reject(v) ==
    /\ v.reserved = 0
    /\ in_range(v.reason, 1, RejectReasons)
    /\ valid_version_range(v.supported_minimum_major, v.supported_minimum_minor,
                           v.supported_maximum_major, v.supported_maximum_minor)
    /\ valid_utf8(v.detail)

encode_Ping == u64(<<"nonce">>)

decode_Ping == u64(<<"nonce">>)

encode_Pong == encode_Ping

decode_Pong == decode_Ping

encode_ProtocolError ==
    u16(<<"code", "offending_type">>) \o zero(4) \o u64(<<"offending_sequence">>)
    \o size("detail", 2) \o zero(2) \o text("detail")

decode_ProtocolError ==
    u16(<<"code", "offending_type">>) \o u32(<<"reserved1">>)
    \o u64(<<"offending_sequence">>) \o u16(<<"detail_size", "reserved2">>)
    \o limit("detail_size", kMaximumDiagnosticString)
    \o textOf("detail", "detail_size")

valid_ProtocolError(v) ==
    /\ v.reserved1 = 0 /\ v.reserved2 = 0
    /\ in_range(v.code, 1, ProtocolErrorCodes)
    /\ v.offending_sequence # 0
    /\ valid_utf8(v.detail)

encode_SnapshotBegin ==
    u64(<<"snapshot_id">>) \o u16(<<"domain", "flags">>) \o u64(<<"generation">>)
    \o u32(<<"expected_item_count">>) \o zero(4)

decode_SnapshotBegin ==
    u64(<<"snapshot_id">>) \o u16(<<"domain", "flags">>) \o u64(<<"generation">>)
    \o u32(<<"expected_item_count", "reserved">>)

valid_SnapshotBegin(v) ==
    /\ v.snapshot_id # 0 /\ v.flags = 0 /\ v.reserved = 0
    /\ in_range(v.domain, 1, SnapshotDomains)

encode_SnapshotEnd ==
    u64(<<"snapshot_id", "generation">>) \o u32(<<"actual_item_count">>) \o zero(4)

decode_SnapshotEnd ==
    u64(<<"snapshot_id", "generation">>) \o u32(<<"actual_item_count", "reserved">>)

valid_SnapshotEnd(v) == v.snapshot_id # 0 /\ v.reserved = 0

encode_SnapshotAbort ==
    u64(<<"snapshot_id">>) \o u16(<<"reason">>) \o size("detail", 2) \o zero(4)
    \o text("detail")

decode_SnapshotAbort ==
    u64(<<"snapshot_id">>) \o u16(<<"reason", "detail_size">>)
    \o u32(<<"reserved">>) \o limit("detail_size", kMaximumDiagnosticString)
    \o textOf("detail", "detail_size")

valid_SnapshotAbort(v) ==
    v.snapshot_id # 0 /\ v.reason # 0 /\ v.reserved = 0 /\ valid_utf8(v.detail)

-----------------------------------------------------------------------------
(* Compositor contract (compositor_contract.cpp).                          *)

LastTransform == 7
TriStates == 2

write_color ==
    u16(<<"color_space", "transfer_function", "primaries">>)
    \o u8(<<"luminance_available">>) \o zero(1)
    \o u32(<<"minimum_luminance_millinit", "maximum_luminance_millinit",
             "max_frame_average_luminance_millinit">>)

read_color ==
    u16(<<"color_space", "transfer_function", "primaries">>)
    \o u8(<<"luminance_available", "color_reserved">>)
    \o u32(<<"minimum_luminance_millinit", "maximum_luminance_millinit",
             "max_frame_average_luminance_millinit">>)
    \o check("color")

valid_color(v) ==
    /\ v.color_reserved = 0 /\ boolean(v.luminance_available)
    /\ \A f \in {"color_space", "transfer_function", "primaries"} :
          in_range(v[f], 1, 2)
    /\ IF v.luminance_available = 1
       THEN /\ v.maximum_luminance_millinit # 0
            /\ v.minimum_luminance_millinit <= v.maximum_luminance_millinit
            /\ v.max_frame_average_luminance_millinit <= v.maximum_luminance_millinit
       ELSE /\ v.minimum_luminance_millinit = 0
            /\ v.maximum_luminance_millinit = 0
            /\ v.max_frame_average_luminance_millinit = 0

encode_OutputUpsert ==
    u64(<<"output_id">>) \o u8(<<"enabled">>) \o zero(1) \o u16(<<"transform">>)
    \o i32(<<"logical_x", "logical_y">>)
    \o u32(<<"logical_width", "logical_height", "physical_pixel_width",
             "physical_pixel_height", "refresh_millihertz", "scale_numerator",
             "scale_denominator">>)
    \o write_color

decode_OutputUpsert ==
    u64(<<"output_id">>) \o u8(<<"enabled", "reserved">>) \o u16(<<"transform">>)
    \o i32(<<"logical_x", "logical_y">>)
    \o u32(<<"logical_width", "logical_height", "physical_pixel_width",
             "physical_pixel_height", "refresh_millihertz", "scale_numerator",
             "scale_denominator">>)
    \o read_color

valid_OutputUpsert(v) ==
    /\ v.output_id # 0 /\ boolean(v.enabled) /\ v.reserved = 0
    /\ v.scale_numerator # 0 /\ v.scale_denominator # 0
    /\ in_range(v.transform, 0, LastTransform)
    /\ v.enabled = 1 =>
          \A f \in {"logical_width", "logical_height", "physical_pixel_width",
                    "physical_pixel_height", "refresh_millihertz"} : v[f] # 0

encode_OutputRemove == u64(<<"output_id">>)

decode_OutputRemove == u64(<<"output_id">>)

encode_SurfaceUpsert ==
    u64(<<"surface_id">>) \o u32(<<"x11_window_id">>) \o zero(4)
    \o u64(<<"parent_surface_id", "output_id">>)
    \o i32(<<"logical_x", "logical_y">>) \o u32(<<"logical_width", "logical_height">>)
    \o i32(<<"stacking">>) \o u8(<<"visible", "clipping">>) \o u16(<<"transform">>)
    \o i32(<<"clip_x", "clip_y">>)
    \o u32(<<"clip_width", "clip_height", "opacity", "scale_numerator",
             "scale_denominator">>)
    \o write_color
    \o u32(<<"presentation_flags">>)
    \o u8(<<"fullscreen_eligible", "direct_scanout_eligible">>) \o zero(2)

\* The clip's far corner read before its near one.
decode_SurfaceUpsertClipSwapped ==
    u64(<<"surface_id">>) \o u32(<<"x11_window_id", "reserved1">>)
    \o u64(<<"parent_surface_id", "output_id">>)
    \o i32(<<"logical_x", "logical_y">>) \o u32(<<"logical_width", "logical_height">>)
    \o i32(<<"stacking">>) \o u8(<<"visible", "clipping">>) \o u16(<<"transform">>)
    \o i32(<<"clip_y", "clip_x">>)
    \o u32(<<"clip_width", "clip_height", "opacity", "scale_numerator",
             "scale_denominator">>)
    \o read_color
    \o u32(<<"presentation_flags">>)
    \o u8(<<"fullscreen_eligible", "direct_scanout_eligible">>) \o u16(<<"reserved2">>)

decode_SurfaceUpsert ==
    u64(<<"surface_id">>) \o u32(<<"x11_window_id", "reserved1">>)
    \o u64(<<"parent_surface_id", "output_id">>)
    \o i32(<<"logical_x", "logical_y">>) \o u32(<<"logical_width", "logical_height">>)
    \o i32(<<"stacking">>) \o u8(<<"visible", "clipping">>) \o u16(<<"transform">>)
    \o i32(<<"clip_x", "clip_y">>)
    \o u32(<<"clip_width", "clip_height", "opacity", "scale_numerator",
             "scale_denominator">>)
    \o read_color
    \o u32(<<"presentation_flags">>)
    \o u8(<<"fullscreen_eligible", "direct_scanout_eligible">>) \o u16(<<"reserved2">>)

ClipOf(v) == [x |-> v.clip_x, y |-> v.clip_y,
              width |-> v.clip_width, height |-> v.clip_height]

valid_SurfaceUpsert(v) ==
    /\ v.surface_id # 0 /\ v.logical_width # 0 /\ v.logical_height # 0
    /\ boolean(v.visible) /\ boolean(v.clipping)
    /\ v.reserved1 = 0 /\ v.reserved2 = 0
    /\ v.opacity <= kOpacityOne
    /\ v.scale_numerator # 0 /\ v.scale_denominator # 0
    /\ in_range(v.transform, 0, LastTransform)
    /\ in_range(v.fullscreen_eligible, 0, TriStates)
    /\ in_range(v.direct_scanout_eligible, 0, TriStates)
    /\ Only(v.presentation_flags, 2) /\ v.presentation_flags # 3
    /\ v.clipping = 1 => valid_rectangle(ClipOf(v))

encode_SurfaceRemove == u64(<<"surface_id">>)

decode_SurfaceRemove == u64(<<"surface_id">>)

encode_BufferAttach ==
    u64(<<"buffer_id", "surface_id">>) \o u32(<<"width", "height", "stride">>)
    \o zero(4) \o u64(<<"byte_offset", "storage_size">>)
    \o u16(<<"pixel_format", "alpha_semantics">>) \o u64(<<"modifier">>)
    \o write_color \o u16(<<"synchronization">>) \o zero(2) \o u32(<<"flags">>)

decode_BufferAttach ==
    u64(<<"buffer_id", "surface_id">>)
    \o u32(<<"width", "height", "stride", "reserved1">>)
    \o u64(<<"byte_offset", "storage_size">>)
    \o u16(<<"pixel_format", "alpha_semantics">>) \o u64(<<"modifier">>)
    \o read_color \o u16(<<"synchronization", "reserved2">>) \o u32(<<"flags">>)

\* The 64-bit products cannot wrap: width, height and stride have 32 bits.
buffer_geometry(v) ==
    LET row_bytes == v.width * 4
        rows      == v.height - 1
        required  == rows * v.stride + row_bytes
    IN  /\ v.width # 0 /\ v.height # 0
        /\ v.width <= (Radix ^ 4 - 1) \div 4
        /\ v.stride >= row_bytes
        /\ v.byte_offset <= v.storage_size
        /\ required <= v.storage_size - v.byte_offset

valid_BufferAttach(v) ==
    /\ v.buffer_id # 0 /\ v.surface_id # 0
    /\ v.reserved1 = 0 /\ v.reserved2 = 0
    /\ buffer_geometry(v)
    /\ <<v.pixel_format, v.alpha_semantics>> \in {<<1, 1>>, <<2, 2>>}
    /\ v.modifier = 0
    /\ v.synchronization \in {0, 1}
    /\ v.flags = 0

encode_BufferDetach == u64(<<"surface_id", "buffer_id">>)

decode_BufferDetach == u64(<<"surface_id", "buffer_id">>)

valid_BufferDetach(v) == v.surface_id # 0 /\ v.buffer_id # 0

encode_BufferRelease ==
    u64(<<"buffer_id">>) \o u16(<<"reason">>) \o zero(2) \o zero(4)

decode_BufferRelease ==
    u64(<<"buffer_id">>) \o u16(<<"reason", "reserved1">>) \o u32(<<"reserved2">>)

valid_BufferRelease(v) ==
    /\ v.buffer_id # 0 /\ v.reserved1 = 0 /\ v.reserved2 = 0
    /\ in_range(v.reason, 1, 4)

encode_SurfaceDamage ==
    u64(<<"surface_id">>) \o size("rectangles", 4) \o zero(4) \o rects("rectangles")

decode_SurfaceDamage ==
    u64(<<"surface_id">>) \o u32(<<"count", "reserved">>)
    \o limit("count", kMaximumDamageRectangles) \o rectsOf("rectangles", "count")

valid_SurfaceDamage(v) ==
    /\ v.surface_id # 0 /\ v.reserved = 0
    /\ \A i \in DOMAIN v.rectangles : valid_rectangle(v.rectangles[i])

encode_FrameCommit ==
    u64(<<"commit_id", "output_id", "producer_generation">>) \o u32(<<"flags">>)
    \o zero(4)

decode_FrameCommit ==
    u64(<<"commit_id", "output_id", "producer_generation">>)
    \o u32(<<"flags", "reserved">>)

valid_FrameCommit(v) == v.commit_id # 0 /\ v.flags = 0 /\ v.reserved = 0

encode_FrameAcknowledged ==
    u64(<<"commit_id", "output_id", "presented_generation">>) \o u16(<<"result">>)
    \o zero(2) \o zero(4)

decode_FrameAcknowledged ==
    u64(<<"commit_id", "output_id", "presented_generation">>)
    \o u16(<<"result", "reserved1">>) \o u32(<<"reserved2">>)

valid_FrameAcknowledged(v) ==
    /\ v.commit_id # 0 /\ v.reserved1 = 0 /\ v.reserved2 = 0
    /\ in_range(v.result, 1, 5)

-----------------------------------------------------------------------------
(* Window policy contract (policy_contract.cpp, lifecycle_contract.cpp).   *)

encode_PolicyContextUpsert ==
    u32(<<"root_window_id", "workspace_id">>) \o u64(<<"output_id">>)
    \o i32(<<"work_x", "work_y">>) \o u32(<<"work_width", "work_height", "flags">>)
    \o zero(4)

decode_PolicyContextUpsert ==
    u32(<<"root_window_id", "workspace_id">>) \o u64(<<"output_id">>)
    \o i32(<<"work_x", "work_y">>)
    \o u32(<<"work_width", "work_height", "flags", "reserved">>)

valid_PolicyContextUpsert(v) ==
    /\ v.root_window_id # 0 /\ v.workspace_id # 0 /\ v.output_id # 0
    /\ extent(v.work_x, v.work_width) /\ extent(v.work_y, v.work_height)
    /\ v.flags = 0 /\ v.reserved = 0

encode_PolicyWindowUpsert ==
    u32(<<"window_id", "parent_window_id", "transient_for", "workspace_id">>)
    \o i32(<<"requested_x", "requested_y">>)
    \o u32(<<"requested_width", "requested_height", "border_width">>)
    \o u16(<<"window_type", "map_intent">>)
    \o u8(<<"override_redirect", "decoration_preference", "fullscreen_requested",
            "maximized_requested", "minimized_requested", "attention_requested">>)
    \o zero(2) \o u64(<<"creation_serial", "map_serial", "focus_serial">>)
    \o u32(<<"flags">>) \o zero(4)

decode_PolicyWindowUpsert ==
    u32(<<"window_id", "parent_window_id", "transient_for", "workspace_id">>)
    \o i32(<<"requested_x", "requested_y">>)
    \o u32(<<"requested_width", "requested_height", "border_width">>)
    \o u16(<<"window_type", "map_intent">>)
    \o u8(<<"override_redirect", "decoration_preference", "fullscreen_requested",
            "maximized_requested", "minimized_requested", "attention_requested">>)
    \o u16(<<"reserved1">>)
    \o u64(<<"creation_serial", "map_serial", "focus_serial">>)
    \o u32(<<"flags", "reserved2">>)

valid_PolicyWindowUpsert(v) ==
    /\ v.window_id # 0 /\ v.requested_width # 0 /\ v.requested_height # 0
    /\ v.window_type <= 3 /\ v.map_intent <= 1
    /\ v.decoration_preference <= TriStates
    /\ \A f \in {"override_redirect", "fullscreen_requested",
                 "maximized_requested", "minimized_requested",
                 "attention_requested"} : boolean(v[f])
    /\ v.creation_serial # 0
    /\ v.map_intent # 0 => v.map_serial # 0
    /\ Only(v.flags, 3)
    /\ v.reserved1 = 0 /\ v.reserved2 = 0

encode_PolicyWindowRemove == u32(<<"window_id">>) \o zero(4)

decode_PolicyWindowRemove == u32(<<"window_id", "reserved">>)

valid_PolicyWindowRemove(v) == v.window_id # 0 /\ v.reserved = 0

encode_PolicyCommit ==
    u64(<<"commit_id", "producer_generation">>) \o u32(<<"flags">>) \o zero(4)

decode_PolicyCommit ==
    u64(<<"commit_id", "producer_generation">>) \o u32(<<"flags", "reserved">>)

valid_PolicyCommit(v) ==
    /\ v.commit_id # 0 /\ v.producer_generation # 0
    /\ v.flags = 0 /\ v.reserved = 0

PolicyWindowBooleans ==
    <<"visible", "focused", "managed", "decoration_eligible",
      "override_redirect", "attention_requested">>

encode_PolicyWindowState ==
    u32(<<"window_id", "transient_for", "workspace_id">>) \o zero(4)
    \o u64(<<"output_id">>) \o i32(<<"final_x", "final_y">>)
    \o u32(<<"final_width", "final_height">>) \o i32(<<"stacking">>)
    \o u16(<<"window_type", "applied_state">>) \o u8(PolicyWindowBooleans)
    \o u8(<<"fullscreen_eligible", "direct_scanout_eligible">>)
    \o u32(<<"flags">>) \o zero(4)

decode_PolicyWindowState ==
    u32(<<"window_id", "transient_for", "workspace_id", "reserved1">>)
    \o u64(<<"output_id">>) \o i32(<<"final_x", "final_y">>)
    \o u32(<<"final_width", "final_height">>) \o i32(<<"stacking">>)
    \o u16(<<"window_type", "applied_state">>) \o u8(PolicyWindowBooleans)
    \o u8(<<"fullscreen_eligible", "direct_scanout_eligible">>)
    \o u32(<<"flags", "reserved2">>)

valid_PolicyWindowState(v) ==
    /\ \A f \in {"window_id", "workspace_id", "output_id", "final_width",
                 "final_height"} : v[f] # 0
    /\ v.window_type <= 3 /\ in_range(v.applied_state, 1, 4)
    /\ \A i \in DOMAIN PolicyWindowBooleans : boolean(v[PolicyWindowBooleans[i]])
    /\ v.fullscreen_eligible <= TriStates /\ v.direct_scanout_eligible <= TriStates
    /\ v.flags = 0 /\ v.reserved1 = 0 /\ v.reserved2 = 0

encode_PolicyAcknowledged ==
    u64(<<"commit_id", "producer_generation", "applied_generation", "policy_hash">>)
    \o u32(<<"window_count">>) \o u16(<<"result">>) \o zero(2)

decode_PolicyAcknowledged ==
    u64(<<"commit_id", "producer_generation", "applied_generation", "policy_hash">>)
    \o u32(<<"window_count">>) \o u16(<<"result", "reserved">>)

valid_PolicyAcknowledged(v) ==
    /\ v.commit_id # 0 /\ v.producer_generation # 0
    /\ in_range(v.result, 1, 7) /\ v.reserved = 0

encode_PolicyBindingsUpsert ==
    u16(<<"move_modifiers", "resize_modifiers", "close_modifiers">>) \o zero(2)
    \o u8(<<"move_button", "resize_button">>) \o zero(2)
    \o u32(<<"close_keysym", "minimum_width", "minimum_height">>)
    \o u8(<<"raise_on_focus", "consume_wm_bindings">>) \o zero(2) \o zero(4)

decode_PolicyBindingsUpsert ==
    u16(<<"move_modifiers", "resize_modifiers", "close_modifiers", "reserved1">>)
    \o u8(<<"move_button", "resize_button">>) \o u16(<<"reserved2">>)
    \o u32(<<"close_keysym", "minimum_width", "minimum_height">>)
    \o u8(<<"raise_on_focus", "consume_wm_bindings">>) \o u16(<<"reserved3">>)
    \o u32(<<"reserved4">>)

valid_PolicyBindingsUpsert(v) ==
    /\ \A f \in {"move_modifiers", "resize_modifiers", "close_modifiers"} :
          Only(v[f], 8)
    /\ in_range(v.move_button, 1, 9) /\ in_range(v.resize_button, 1, 9)
    /\ v.close_keysym # 0
    /\ in_range(v.minimum_width, 1, 16384) /\ in_range(v.minimum_height, 1, 16384)
    /\ boolean(v.raise_on_focus) /\ boolean(v.consume_wm_bindings)
    /\ \A f \in {"reserved1", "reserved2", "reserved3", "reserved4"} : v[f] = 0

encode_PolicyLifecycleWindowUpsert ==
    encode_PolicyWindowUpsert
    \o u64(<<"geometry_serial", "stack_serial">>) \o u32(<<"stack_sibling">>)
    \o u16(<<"stack_mode">>) \o zero(2) \o u32(<<"lifecycle_flags">>) \o zero(4)

decode_PolicyLifecycleWindowUpsert ==
    decode_PolicyWindowUpsert \o check("window")
    \o u64(<<"geometry_serial", "stack_serial">>) \o u32(<<"stack_sibling">>)
    \o u16(<<"stack_mode", "reserved3">>) \o u32(<<"lifecycle_flags", "reserved4">>)

valid_PolicyLifecycleWindowUpsert(v) ==
    /\ v.reserved3 = 0 /\ v.reserved4 = 0 /\ v.lifecycle_flags = 0
    /\ IF v.stack_serial = 0
       THEN v.stack_sibling = 0 /\ v.stack_mode = 0
       ELSE in_range(v.stack_mode, 1, 2)
    /\ v.stack_sibling # v.window_id

encode_SurfacePolicyUpsert ==
    u64(<<"surface_id">>) \o u32(<<"x11_window_id", "workspace_id">>)
    \o u16(<<"window_type", "applied_state">>)
    \o u8(<<"focused", "managed", "decoration_eligible", "override_redirect",
            "attention_requested", "fullscreen_eligible",
            "direct_scanout_eligible">>)
    \o zero(1) \o u32(<<"flags">>) \o zero(4)

decode_SurfacePolicyUpsert ==
    u64(<<"surface_id">>) \o u32(<<"x11_window_id", "workspace_id">>)
    \o u16(<<"window_type", "applied_state">>)
    \o u8(<<"focused", "managed", "decoration_eligible", "override_redirect",
            "attention_requested", "fullscreen_eligible",
            "direct_scanout_eligible", "reserved1">>)
    \o u32(<<"flags", "reserved2">>)

valid_SurfacePolicyUpsert(v) ==
    /\ v.surface_id # 0 /\ v.x11_window_id # 0 /\ v.workspace_id # 0
    /\ v.window_type <= 3 /\ in_range(v.applied_state, 1, 4)
    /\ \A f \in {"focused", "managed", "decoration_eligible",
                 "override_redirect", "attention_requested"} : boolean(v[f])
    /\ v.fullscreen_eligible <= TriStates /\ v.direct_scanout_eligible <= TriStates
    /\ v.reserved1 = 0 /\ v.flags = 0 /\ v.reserved2 = 0

-----------------------------------------------------------------------------
(* Synthetic input and session contracts.                                  *)

encode_SyntheticMotion ==
    u64(<<"input_id">>) \o u32(<<"time_ms">>) \o i32(<<"root_x", "root_y">>)
    \o u32(<<"flags">>)

decode_SyntheticMotion ==
    u64(<<"input_id">>) \o u32(<<"time_ms">>) \o i32(<<"root_x", "root_y">>)
    \o u32(<<"flags">>)

valid_SyntheticMotion(v) == v.input_id # 0 /\ v.time_ms # 0 /\ v.flags = 0

encode_SyntheticButton ==
    u64(<<"input_id">>) \o u32(<<"time_ms">>) \o u8(<<"button", "pressed">>)
    \o u16(<<"reserved16">>) \o u32(<<"flags">>)

decode_SyntheticButton ==
    u64(<<"input_id">>) \o u32(<<"time_ms">>) \o u8(<<"button", "pressed">>)
    \o u16(<<"reserved16">>) \o u32(<<"flags">>)

valid_SyntheticButton(v) ==
    /\ v.input_id # 0 /\ v.time_ms # 0 /\ in_range(v.button, 1, 5)
    /\ boolean(v.pressed) /\ v.reserved16 = 0 /\ v.flags = 0

encode_SyntheticKey ==
    u64(<<"input_id">>) \o u32(<<"time_ms">>) \o u8(<<"keycode", "pressed">>)
    \o u16(<<"reserved16">>) \o u32(<<"flags">>)

decode_SyntheticKey ==
    u64(<<"input_id">>) \o u32(<<"time_ms">>) \o u8(<<"keycode", "pressed">>)
    \o u16(<<"reserved16">>) \o u32(<<"flags">>)

valid_SyntheticKey(v) ==
    /\ v.input_id # 0 /\ v.time_ms # 0 /\ v.keycode >= 8
    /\ boolean(v.pressed) /\ v.reserved16 = 0 /\ v.flags = 0

encode_SyntheticBarrier == u64(<<"input_id">>) \o u32(<<"flags">>)

decode_SyntheticBarrier == u64(<<"input_id">>) \o u32(<<"flags">>)

valid_SyntheticBarrier(v) == v.input_id # 0 /\ v.flags = 0

encode_SyntheticInputAcknowledged ==
    u64(<<"input_id">>) \o u32(<<"time_ms">>) \o u16(<<"result">>)
    \o i32(<<"root_x", "root_y">>) \o u32(<<"pointer_window", "focus_window">>)
    \o u16(<<"state", "reserved16">>) \o u32(<<"delivered_event_count", "flags">>)

decode_SyntheticInputAcknowledged ==
    u64(<<"input_id">>) \o u32(<<"time_ms">>) \o u16(<<"result">>)
    \o i32(<<"root_x", "root_y">>) \o u32(<<"pointer_window", "focus_window">>)
    \o u16(<<"state", "reserved16">>) \o u32(<<"delivered_event_count", "flags">>)

valid_SyntheticInputAcknowledged(v) ==
    /\ v.input_id # 0 /\ v.time_ms # 0 /\ in_range(v.result, 1, 6)
    /\ v.reserved16 = 0 /\ v.flags = 0

encode_SessionStateChange ==
    u64(<<"generation">>) \o u16(<<"state">>) \o zero(2) \o u32(<<"flags">>)

decode_SessionStateChange ==
    u64(<<"generation">>) \o u16(<<"state", "reserved">>) \o u32(<<"flags">>)

valid_SessionStateChange(v) ==
    /\ v.generation # 0 /\ in_range(v.state, 1, 2)
    /\ v.flags = 0 /\ v.reserved = 0

encode_SessionStateAcknowledged ==
    u64(<<"generation">>) \o u16(<<"state", "result">>) \o u32(<<"flags">>)

decode_SessionStateAcknowledged ==
    u64(<<"generation">>) \o u16(<<"state", "result">>) \o u32(<<"flags">>)

valid_SessionStateAcknowledged(v) ==
    /\ v.generation # 0 /\ in_range(v.state, 1, 2) /\ in_range(v.result, 1, 4)
    /\ v.flags = 0

-----------------------------------------------------------------------------
(* Output contract (output_contract.cpp).                                  *)

kWireMaximumPhysicalExtent == 4096
kWireMaximumPhysicalPixels == 16777216

OutputDescriptorNumbers ==
    <<"capability_flags", "physical_width_millimeters",
      "physical_height_millimeters", "supported_transform_mask",
      "minimum_scale_numerator", "minimum_scale_denominator",
      "maximum_scale_numerator", "maximum_scale_denominator",
      "maximum_scale_denominator_value", "maximum_physical_width",
      "maximum_physical_height">>

encode_OutputDescriptorUpsert ==
    u64(<<"output_id">>) \o u16(<<"kind">>) \o size("name", 2)
    \o u32(OutputDescriptorNumbers) \o text("name")

decode_OutputDescriptorUpsert ==
    u64(<<"output_id">>) \o u16(<<"kind", "name_size">>)
    \o u32(OutputDescriptorNumbers)
    \o limit("name_size", kMaximumOutputNameBytes) \o textOf("name", "name_size")

kOutputArbitraryHeadlessMode == 1       \* bit numbers
kOutputModeFixed == 2
kOutputPhysicalDimensionsKnown == 6
kKnownOutputCapabilityFlags == 7

valid_OutputDescriptorUpsert(v) ==
    /\ v.output_id # 0 /\ in_range(v.kind, 1, 2)
    /\ v.name # <<>> /\ valid_utf8(v.name)
    /\ Only(v.capability_flags, kKnownOutputCapabilityFlags)
    /\ Bit(v.capability_flags, kOutputArbitraryHeadlessMode) =>
          /\ ~Bit(v.capability_flags, kOutputModeFixed)
          /\ v.kind # 2
    /\ LET known == Bit(v.capability_flags, kOutputPhysicalDimensionsKnown) IN
       /\ known <=> v.physical_width_millimeters # 0
       /\ known <=> v.physical_height_millimeters # 0
    /\ v.supported_transform_mask # 0 /\ Only(v.supported_transform_mask, 8)
    /\ in_range(v.maximum_scale_denominator_value, 1, kWireMaximumScaleDenominator)
    /\ valid_scale(v.minimum_scale_numerator, v.minimum_scale_denominator,
                   v.maximum_scale_denominator_value)
    /\ valid_scale(v.maximum_scale_numerator, v.maximum_scale_denominator,
                   v.maximum_scale_denominator_value)
    /\ scale_at_most(v.minimum_scale_numerator, v.minimum_scale_denominator,
                     v.maximum_scale_numerator, v.maximum_scale_denominator)
    /\ in_range(v.maximum_physical_width, 1, kWireMaximumPhysicalExtent)
    /\ in_range(v.maximum_physical_height, 1, kWireMaximumPhysicalExtent)

encode_OutputModeUpsert ==
    u64(<<"output_id", "mode_id">>)
    \o u32(<<"physical_width", "physical_height", "refresh_millihertz">>)
    \o u8(<<"preferred", "current">>) \o zero(2) \o u32(<<"flags">>) \o zero(4)

decode_OutputModeUpsert ==
    u64(<<"output_id", "mode_id">>)
    \o u32(<<"physical_width", "physical_height", "refresh_millihertz">>)
    \o u8(<<"preferred", "current">>) \o u16(<<"reserved">>)
    \o u32(<<"flags", "reserved32">>)

valid_OutputModeUpsert(v) ==
    /\ boolean(v.preferred) /\ boolean(v.current)
    /\ v.reserved = 0 /\ v.reserved32 = 0
    /\ v.output_id # 0 /\ v.mode_id # 0
    /\ in_range(v.physical_width, 1, kWireMaximumPhysicalExtent)
    /\ in_range(v.physical_height, 1, kWireMaximumPhysicalExtent)
    /\ v.physical_width * v.physical_height <= kWireMaximumPhysicalPixels
    /\ v.refresh_millihertz # 0 /\ v.flags = 0

encode_SurfaceOutputState ==
    u64(<<"surface_id", "primary_output_id", "layout_generation">>)
    \o u32(<<"preferred_scale_numerator", "preferred_scale_denominator",
             "client_buffer_scale">>)
    \o u16(<<"scale_mode">>) \o zero(2) \o u32(<<"flags">>)
    \o size("output_ids", 4) \o ids("output_ids")

decode_SurfaceOutputState ==
    u64(<<"surface_id", "primary_output_id", "layout_generation">>)
    \o u32(<<"preferred_scale_numerator", "preferred_scale_denominator",
             "client_buffer_scale">>)
    \o u16(<<"scale_mode", "reserved">>) \o u32(<<"flags", "count">>)
    \o limit("count", kMaximumManagedOutputs) \o idsOf("output_ids", "count")

unique_ids(list) ==
    \A i \in DOMAIN list : list[i] # 0 /\ \A j \in 1 .. i - 1 : list[j] # list[i]

valid_SurfaceOutputState(v) ==
    /\ v.reserved = 0
    /\ v.surface_id # 0 /\ v.primary_output_id # 0
    /\ unique_ids(v.output_ids)
    /\ v.output_ids = <<>> \/ \E i \in DOMAIN v.output_ids :
                                 v.output_ids[i] = v.primary_output_id
    /\ valid_scale(v.preferred_scale_numerator, v.preferred_scale_denominator,
                   kWireMaximumScaleDenominator)
    /\ in_range(v.client_buffer_scale, 1, 4) /\ in_range(v.scale_mode, 1, 2)
    /\ v.scale_mode = 1 => v.client_buffer_scale = 1
    /\ v.layout_generation # 0 /\ v.flags = 0

encode_PolicyOutputUpsert ==
    u64(<<"output_id">>) \o i32(<<"logical_x", "logical_y">>)
    \o u32(<<"logical_width", "logical_height">>) \o i32(<<"work_x", "work_y">>)
    \o u32(<<"work_width", "work_height", "scale_numerator", "scale_denominator">>)
    \o u16(<<"transform">>) \o u8(<<"enabled", "primary">>) \o u32(<<"flags">>)

decode_PolicyOutputUpsert ==
    u64(<<"output_id">>) \o i32(<<"logical_x", "logical_y">>)
    \o u32(<<"logical_width", "logical_height">>) \o i32(<<"work_x", "work_y">>)
    \o u32(<<"work_width", "work_height", "scale_numerator", "scale_denominator">>)
    \o u16(<<"transform">>) \o u8(<<"enabled", "primary">>) \o u32(<<"flags">>)

PolicyOutputGeometry ==
    {"logical_x", "logical_y", "logical_width", "logical_height",
     "work_x", "work_y", "work_width", "work_height"}

valid_PolicyOutputUpsert(v) ==
    /\ boolean(v.enabled) /\ boolean(v.primary)
    /\ v.output_id # 0 /\ v.transform <= LastTransform /\ v.flags = 0
    /\ valid_scale(v.scale_numerator, v.scale_denominator, kWireMaximumScaleDenominator)
    /\ v.primary = 1 => v.enabled = 1
    /\ IF v.enabled = 0
       THEN \A f \in PolicyOutputGeometry : v[f] = 0
       ELSE /\ valid_extent(v.logical_x, v.logical_width)
            /\ valid_extent(v.logical_y, v.logical_height)
            /\ valid_extent(v.work_x, v.work_width)
            /\ valid_extent(v.work_y, v.work_height)
            /\ v.work_x >= v.logical_x /\ v.work_y >= v.logical_y
            /\ v.work_x + v.work_width <= v.logical_x + v.logical_width
            /\ v.work_y + v.work_height <= v.logical_y + v.logical_height

encode_PolicyWindowOutputHint ==
    u32(<<"window_id", "flags">>) \o u64(<<"previous_output_id", "preferred_output_id">>)

decode_PolicyWindowOutputHint ==
    u32(<<"window_id", "flags">>) \o u64(<<"previous_output_id", "preferred_output_id">>)

valid_PolicyWindowOutputHint(v) == v.window_id # 0 /\ v.flags = 0

encode_OutputStateQuery == u64(<<"query_id">>) \o u32(<<"flags">>) \o zero(4)

decode_OutputStateQuery == u64(<<"query_id">>) \o u32(<<"flags", "reserved">>)

valid_OutputStateQuery(v) ==
    v.query_id # 0 /\ v.flags # 0 /\ Only(v.flags, 4) /\ v.reserved = 0

encode_OutputConfigurationCommit ==
    u64(<<"configuration_id", "base_generation", "primary_output_id">>)
    \o u32(<<"flags">>) \o zero(4)

decode_OutputConfigurationCommit ==
    u64(<<"configuration_id", "base_generation", "primary_output_id">>)
    \o u32(<<"flags", "reserved">>)

valid_OutputConfigurationCommit(v) ==
    /\ v.configuration_id # 0 /\ v.base_generation # 0 /\ v.primary_output_id # 0
    /\ v.flags = 0 /\ v.reserved = 0

encode_OutputConfigurationAcknowledged ==
    u64(<<"request_id", "applied_generation">>) \o u16(<<"result">>) \o zero(2)
    \o u32(<<"flags">>) \o u64(<<"primary_output_id">>)
    \o u32(<<"root_logical_width", "root_logical_height", "enabled_output_count">>)
    \o zero(4)

decode_OutputConfigurationAcknowledged ==
    u64(<<"request_id", "applied_generation">>) \o u16(<<"result", "reserved">>)
    \o u32(<<"flags">>) \o u64(<<"primary_output_id">>)
    \o u32(<<"root_logical_width", "root_logical_height", "enabled_output_count",
             "reserved32">>)

valid_OutputConfigurationAcknowledged(v) ==
    /\ v.request_id # 0 /\ v.applied_generation # 0 /\ in_range(v.result, 1, 12)
    /\ v.flags = 0 /\ v.primary_output_id # 0
    /\ in_range(v.root_logical_width, 1, 32767)
    /\ in_range(v.root_logical_height, 1, 32767)
    /\ in_range(v.enabled_output_count, 1, kMaximumManagedOutputs)
    /\ v.reserved = 0 /\ v.reserved32 = 0

-----------------------------------------------------------------------------
(* encode and decode, by the type of the message.                          *)

Writes ==
    [Hello |-> encode_Hello, Welcome |-> encode_Welcome,
     Reject |-> encode_Reject, Ping |-> encode_Ping, Pong |-> encode_Pong,
     ProtocolError |-> encode_ProtocolError,
     SnapshotBegin |-> encode_SnapshotBegin,
     SnapshotEnd |-> encode_SnapshotEnd,
     SnapshotAbort |-> encode_SnapshotAbort,
     OutputUpsert |-> encode_OutputUpsert,
     OutputRemove |-> encode_OutputRemove,
     SurfaceUpsert |-> encode_SurfaceUpsert,
     SurfaceRemove |-> encode_SurfaceRemove,
     BufferAttach |-> encode_BufferAttach,
     BufferDetach |-> encode_BufferDetach,
     BufferRelease |-> encode_BufferRelease,
     SurfaceDamage |-> encode_SurfaceDamage,
     FrameCommit |-> encode_FrameCommit,
     FrameAcknowledged |-> encode_FrameAcknowledged,
     SurfacePolicyUpsert |-> encode_SurfacePolicyUpsert,
     PolicyContextUpsert |-> encode_PolicyContextUpsert,
     PolicyWindowUpsert |-> encode_PolicyWindowUpsert,
     PolicyWindowRemove |-> encode_PolicyWindowRemove,
     PolicyCommit |-> encode_PolicyCommit,
     PolicyWindowState |-> encode_PolicyWindowState,
     PolicyAcknowledged |-> encode_PolicyAcknowledged,
     PolicyLifecycleWindowUpsert |-> encode_PolicyLifecycleWindowUpsert,
     PolicyBindingsUpsert |-> encode_PolicyBindingsUpsert,
     SyntheticMotion |-> encode_SyntheticMotion,
     SyntheticButton |-> encode_SyntheticButton,
     SyntheticKey |-> encode_SyntheticKey,
     SyntheticBarrier |-> encode_SyntheticBarrier,
     SyntheticInputAcknowledged |-> encode_SyntheticInputAcknowledged,
     SessionStateChange |-> encode_SessionStateChange,
     SessionStateAcknowledged |-> encode_SessionStateAcknowledged,
     OutputDescriptorUpsert |-> encode_OutputDescriptorUpsert,
     OutputModeUpsert |-> encode_OutputModeUpsert,
     SurfaceOutputState |-> encode_SurfaceOutputState,
     PolicyOutputUpsert |-> encode_PolicyOutputUpsert,
     PolicyWindowOutputHint |-> encode_PolicyWindowOutputHint,
     OutputStateQuery |-> encode_OutputStateQuery,
     OutputConfigurationCommit |-> encode_OutputConfigurationCommit,
     OutputConfigurationAcknowledged |-> encode_OutputConfigurationAcknowledged]

Reads ==
    [Hello |-> decode_Hello, Welcome |-> decode_Welcome,
     Reject |-> decode_Reject, Ping |-> decode_Ping, Pong |-> decode_Pong,
     ProtocolError |-> decode_ProtocolError,
     SnapshotBegin |-> decode_SnapshotBegin,
     SnapshotEnd |-> decode_SnapshotEnd,
     SnapshotAbort |-> decode_SnapshotAbort,
     OutputUpsert |-> decode_OutputUpsert,
     OutputRemove |-> decode_OutputRemove,
     SurfaceUpsert |-> decode_SurfaceUpsert,
     SurfaceRemove |-> decode_SurfaceRemove,
     BufferAttach |-> decode_BufferAttach,
     BufferDetach |-> decode_BufferDetach,
     BufferRelease |-> decode_BufferRelease,
     SurfaceDamage |-> decode_SurfaceDamage,
     FrameCommit |-> decode_FrameCommit,
     FrameAcknowledged |-> decode_FrameAcknowledged,
     SurfacePolicyUpsert |-> decode_SurfacePolicyUpsert,
     PolicyContextUpsert |-> decode_PolicyContextUpsert,
     PolicyWindowUpsert |-> decode_PolicyWindowUpsert,
     PolicyWindowRemove |-> decode_PolicyWindowRemove,
     PolicyCommit |-> decode_PolicyCommit,
     PolicyWindowState |-> decode_PolicyWindowState,
     PolicyAcknowledged |-> decode_PolicyAcknowledged,
     PolicyLifecycleWindowUpsert |-> decode_PolicyLifecycleWindowUpsert,
     PolicyBindingsUpsert |-> decode_PolicyBindingsUpsert,
     SyntheticMotion |-> decode_SyntheticMotion,
     SyntheticButton |-> decode_SyntheticButton,
     SyntheticKey |-> decode_SyntheticKey,
     SyntheticBarrier |-> decode_SyntheticBarrier,
     SyntheticInputAcknowledged |-> decode_SyntheticInputAcknowledged,
     SessionStateChange |-> decode_SessionStateChange,
     SessionStateAcknowledged |-> decode_SessionStateAcknowledged,
     OutputDescriptorUpsert |-> decode_OutputDescriptorUpsert,
     OutputModeUpsert |-> decode_OutputModeUpsert,
     SurfaceOutputState |-> decode_SurfaceOutputState,
     PolicyOutputUpsert |-> decode_PolicyOutputUpsert,
     PolicyWindowOutputHint |-> decode_PolicyWindowOutputHint,
     OutputStateQuery |-> decode_OutputStateQuery,
     OutputConfigurationCommit |-> decode_OutputConfigurationCommit,
     OutputConfigurationAcknowledged |-> decode_OutputConfigurationAcknowledged]

Valid(type, v) ==
    CASE type = "Hello" -> valid_Hello(v)
      [] type = "Welcome" -> valid_Welcome(v)
      [] type = "Reject" -> valid_Reject(v)
      [] type = "Ping" -> TRUE
      [] type = "Pong" -> TRUE
      [] type = "ProtocolError" -> valid_ProtocolError(v)
      [] type = "SnapshotBegin" -> valid_SnapshotBegin(v)
      [] type = "SnapshotEnd" -> valid_SnapshotEnd(v)
      [] type = "SnapshotAbort" -> valid_SnapshotAbort(v)
      [] type = "OutputUpsert" -> valid_OutputUpsert(v)
      [] type = "OutputRemove" -> v.output_id # 0
      [] type = "SurfaceUpsert" -> valid_SurfaceUpsert(v)
      [] type = "SurfaceRemove" -> v.surface_id # 0
      [] type = "BufferAttach" -> valid_BufferAttach(v)
      [] type = "BufferDetach" -> valid_BufferDetach(v)
      [] type = "BufferRelease" -> valid_BufferRelease(v)
      [] type = "SurfaceDamage" -> valid_SurfaceDamage(v)
      [] type = "FrameCommit" -> valid_FrameCommit(v)
      [] type = "FrameAcknowledged" -> valid_FrameAcknowledged(v)
      [] type = "SurfacePolicyUpsert" -> valid_SurfacePolicyUpsert(v)
      [] type = "PolicyContextUpsert" -> valid_PolicyContextUpsert(v)
      [] type = "PolicyWindowUpsert" -> valid_PolicyWindowUpsert(v)
      [] type = "PolicyWindowRemove" -> valid_PolicyWindowRemove(v)
      [] type = "PolicyCommit" -> valid_PolicyCommit(v)
      [] type = "PolicyWindowState" -> valid_PolicyWindowState(v)
      [] type = "PolicyAcknowledged" -> valid_PolicyAcknowledged(v)
      [] type = "PolicyLifecycleWindowUpsert" -> valid_PolicyLifecycleWindowUpsert(v)
      [] type = "PolicyBindingsUpsert" -> valid_PolicyBindingsUpsert(v)
      [] type = "SyntheticMotion" -> valid_SyntheticMotion(v)
      [] type = "SyntheticButton" -> valid_SyntheticButton(v)
      [] type = "SyntheticKey" -> valid_SyntheticKey(v)
      [] type = "SyntheticBarrier" -> valid_SyntheticBarrier(v)
      [] type = "SyntheticInputAcknowledged" -> valid_SyntheticInputAcknowledged(v)
      [] type = "SessionStateChange" -> valid_SessionStateChange(v)
      [] type = "SessionStateAcknowledged" -> valid_SessionStateAcknowledged(v)
      [] type = "OutputDescriptorUpsert" -> valid_OutputDescriptorUpsert(v)
      [] type = "OutputModeUpsert" -> valid_OutputModeUpsert(v)
      [] type = "SurfaceOutputState" -> valid_SurfaceOutputState(v)
      [] type = "PolicyOutputUpsert" -> valid_PolicyOutputUpsert(v)
      [] type = "PolicyWindowOutputHint" -> valid_PolicyWindowOutputHint(v)
      [] type = "OutputStateQuery" -> valid_OutputStateQuery(v)
      [] type = "OutputConfigurationCommit" -> valid_OutputConfigurationCommit(v)
      [] type = "OutputConfigurationAcknowledged" -> valid_OutputConfigurationAcknowledged(v)

MessageTypes == DOMAIN Writes

Fields(type) ==
    {Writes[type][i][1] : i \in DOMAIN Writes[type]} \ {""}

\* The arrays and strings that a payload has no room for.
within_limits(type, v) ==
    CASE type = "Hello" -> Len(v.name) <= kMaximumInstanceLabel
      [] type \in {"Reject", "ProtocolError", "SnapshotAbort"} ->
            Len(v.detail) <= kMaximumDiagnosticString
      [] type = "SurfaceDamage" -> Len(v.rectangles) <= kMaximumDamageRectangles
      [] type = "OutputDescriptorUpsert" -> Len(v.name) <= kMaximumOutputNameBytes
      [] type = "SurfaceOutputState" -> Len(v.output_ids) <= kMaximumManagedOutputs
      [] OTHER -> TRUE

encode(type, v) == IF within_limits(type, v) THEN Written(Writes[type], v) ELSE <<>>

Checked(what, got) ==
    IF what = "color" THEN valid_color(got) ELSE valid_PolicyWindowUpsert(got)

\* The reader after entry e of a table, p being the reader before it.
ReadEntry(e, b, p) ==
    CASE p.status # "Ok"  -> p
      [] e[2] = "limit"   -> IF p.got[e[1]] <= e[3] THEN p
                             ELSE [p EXCEPT !.status = "LimitExceeded"]
      [] e[2] = "check"   -> IF Checked(e[1], p.got) THEN p
                             ELSE [p EXCEPT !.status = "InvalidValue"]
      [] p.at + Need(e, p.got) > Len(b) -> [p EXCEPT !.status = "Truncated"]
      [] OTHER ->
            LET n == Need(e, p.got) IN
            [status |-> "Ok",
             at     |-> p.at + n,
             got    |-> p.got @@ (e[1] :> ByteReader(e, SubSeq(b, p.at + 1, p.at + n)))]

ReadTable(table, b) ==
    LET read[k \in 0 .. Len(table)] ==
            IF k = 0 THEN [status |-> "Ok", at |-> 0, got |-> <<>>]
            ELSE ReadEntry(table[k], b, read[k - 1])
    IN  read[Len(table)]

\* Bytes after the last field are not looked for.
done_unchecked(p, b) == TRUE

done(p, b) == p.at = Len(b)

decode(type, b) ==
    LET p      == ReadTable(Reads[type], b)
        status == CASE p.status # "Ok"     -> p.status
                    [] ~done(p, b)         -> "TrailingData"
                    [] ~Valid(type, p.got) -> "InvalidValue"
                    [] OTHER               -> "Ok"
    IN  [status |-> status,
         value  |-> IF status = "Ok" THEN [f \in Fields(type) |-> p.got[f]] ELSE <<>>]

-----------------------------------------------------------------------------
(* The envelope (envelope.cpp).  A message type is its place in MessageType. *)

kMagic == <<71, 87, 73, 80>>
kKnownMessageFlags == 5
kReply == 0                     \* bit numbers
kError == 1
REPLY == 1                      \* flags
ERROR == 2
ACK_REQUIRED == 4
SNAPSHOT_ITEM == 8

MessageType ==
    <<"Hello", "Welcome", "Reject", "Ping", "Pong", "ProtocolError",
      "SnapshotBegin", "SnapshotEnd", "SnapshotAbort", "OutputUpsert",
      "OutputRemove", "OutputDescriptorUpsert", "OutputModeUpsert",
      "SurfaceUpsert", "SurfaceRemove", "SurfacePolicyUpsert",
      "SurfaceOutputState", "BufferAttach", "BufferDetach", "BufferRelease",
      "SurfaceDamage", "FrameCommit", "FrameAcknowledged",
      "PolicyContextUpsert", "PolicyWindowUpsert", "PolicyWindowRemove",
      "PolicyLifecycleWindowUpsert", "PolicyOutputUpsert",
      "PolicyWindowOutputHint", "PolicyCommit", "PolicyWindowState",
      "PolicyAcknowledged", "PolicyBindingsUpsert", "SyntheticMotion",
      "SyntheticButton", "SyntheticKey", "SyntheticBarrier",
      "SyntheticInputAcknowledged", "SessionStateChange",
      "SessionStateAcknowledged", "OutputStateQuery",
      "OutputConfigurationCommit", "OutputConfigurationAcknowledged">>

NumberOf(type) == CHOOSE i \in DOMAIN MessageType : MessageType[i] = type

encode_envelope ==
    raw("magic", 4) \o u16(<<"header_size", "major", "minor", "type">>)
    \o u32(<<"flags", "payload_size">>) \o u16(<<"fd_count">>) \o zero(2)
    \o u64(<<"sequence", "reply_to">>)

decode_envelope ==
    raw("magic", 4) \o u16(<<"header_size", "major", "minor", "type">>)
    \o u32(<<"flags", "payload_size">>) \o u16(<<"fd_count", "reserved">>)
    \o u64(<<"sequence", "reply_to">>)

kEnvelopeSize == 40

envelope_status(p, record, actual_fd_count) ==
    LET e == p.got IN
    CASE Len(record) < kEnvelopeSize -> "Truncated"
      [] \/ e.magic # kMagic \/ e.header_size # kEnvelopeSize
         \/ e.reserved # 0 \/ e.sequence = 0
         \/ ~Only(e.flags, kKnownMessageFlags) -> "InvalidValue"
      [] e.payload_size > kHardMaximumPayload -> "LimitExceeded"
      [] \/ e.fd_count # actual_fd_count
         \/ Len(record) - kEnvelopeSize # e.payload_size -> "SizeMismatch"
      [] \/ Bit(e.flags, kReply) # (e.reply_to # 0)
         \/ Bit(e.flags, kError) /\ ~Bit(e.flags, kReply) -> "InvalidValue"
      [] OTHER -> "Ok"

EnvelopeOf(type, flags, payload, fds) ==
    [magic |-> kMagic, header_size |-> kEnvelopeSize, major |-> kWireMajor,
     minor |-> kWireMinor, type |-> NumberOf(type),
     flags |-> flags, payload_size |-> Len(payload), fd_count |-> Len(fds),
     sequence |-> 1, reply_to |-> IF Bit(flags, kReply) THEN 1 ELSE 0]

RecordOf(type, flags, payload, fds) ==
    Written(encode_envelope, EnvelopeOf(type, flags, payload, fds)) \o payload

-----------------------------------------------------------------------------
(* The C API.  A public structure holds its booleans in bytes: some of     *)
(* the functions refuse a byte above one, some take it for one.            *)

GuardedBooleans(type) ==
    CASE type = "OutputUpsert"  -> {"enabled"}
      [] type = "SurfaceUpsert" -> {"visible", "clipping"}
      [] type = "PolicyLifecycleWindowUpsert" ->
            {"override_redirect", "fullscreen_requested", "maximized_requested",
             "minimized_requested", "attention_requested"}
      [] type = "SurfacePolicyUpsert" ->
            {"focused", "managed", "decoration_eligible", "override_redirect",
             "attention_requested"}
      [] type = "PolicyBindingsUpsert" -> {"raise_on_focus", "consume_wm_bindings"}
      [] type = "OutputModeUpsert"     -> {"preferred", "current"}
      [] type = "PolicyOutputUpsert"   -> {"enabled", "primary"}
      [] OTHER -> {}

NormalisedBooleans(type) ==
    CASE type = "PolicyWindowUpsert" ->
            {"override_redirect", "fullscreen_requested", "maximized_requested",
             "minimized_requested", "attention_requested"}
      [] type = "PolicyWindowState" -> ToSet(PolicyWindowBooleans)
      [] type \in {"OutputUpsert", "SurfaceUpsert", "BufferAttach"} ->
            {"luminance_available"}
      [] OTHER -> {}

Normalised(type, v) ==
    [f \in DOMAIN v |->
        IF f \in NormalisedBooleans(type) /\ v[f] # 0 THEN 1 ELSE v[f]]

valid_input(type, v) ==
    /\ \A f \in GuardedBooleans(type) : boolean(v[f])
    /\ type = "OutputDescriptorUpsert" =>
          Len(v.name) \in 1 .. kMaximumOutputNameBytes
    /\ type = "SurfaceDamage" => Len(v.rectangles) <= kMaximumDamageRectangles
    /\ type = "SurfaceOutputState" => Len(v.output_ids) <= kMaximumManagedOutputs

\* Messages the library builds itself, without decoding what it encoded.
Internal == {"Hello", "Welcome", "Reject", "Ping", "Pong", "ProtocolError"}

make_payload(type, v) ==
    LET payload == encode(type, Normalised(type, v)) IN
    [ok      |-> type \in Internal
                 \/ (valid_input(type, v) /\ decode(type, payload).status = "Ok"),
     payload |-> payload]

-----------------------------------------------------------------------------
(* What a connection asks of a record whatever its history: the flags of   *)
(* its type, its descriptors and the capabilities its payload needs.       *)

control_flags(type) ==
    CASE type = "Ping" -> {ACK_REQUIRED}
      [] type = "Pong" -> {REPLY}
      [] type = "ProtocolError" -> {REPLY + ERROR}
      [] OTHER -> (0 .. 31) \ {f \in 0 .. 31 : Bit(f, 3)}

compositor_flags(type) ==
    CASE type = "FrameCommit" -> {ACK_REQUIRED}
      [] type = "FrameAcknowledged" -> {REPLY}
      [] OTHER -> 0 .. 31

policy_flags(type) ==
    CASE type \in {"PolicyContextUpsert", "PolicyWindowUpsert",
                   "PolicyLifecycleWindowUpsert"} -> {0, SNAPSHOT_ITEM}
      [] type = "PolicyWindowRemove" -> {0}
      [] type = "PolicyCommit" -> {ACK_REQUIRED}
      [] type = "PolicyAcknowledged" -> {REPLY}
      [] OTHER -> {SNAPSHOT_ITEM}

input_flags(type) ==
    IF type = "SyntheticInputAcknowledged" THEN {REPLY} ELSE {ACK_REQUIRED}

session_flags(type) ==
    IF type = "SessionStateChange" THEN {ACK_REQUIRED} ELSE {REPLY}

output_flags(type) ==
    CASE type \in {"OutputStateQuery", "OutputConfigurationCommit"} -> {ACK_REQUIRED}
      [] type = "OutputConfigurationAcknowledged" -> {REPLY}
      [] OTHER -> {SNAPSHOT_ITEM}

Permitted(type) ==
    CASE type = "Hello" -> {0}
      [] type \in {"Welcome", "Reject"} -> {REPLY}
      [] type \in {"Ping", "Pong", "ProtocolError", "SnapshotBegin", "SnapshotEnd",
                   "SnapshotAbort"} -> control_flags(type)
      [] type \in {"OutputUpsert", "OutputRemove", "SurfaceUpsert", "SurfaceRemove",
                   "BufferAttach", "BufferDetach", "BufferRelease",
                   "SurfaceDamage", "FrameCommit", "FrameAcknowledged"} ->
            compositor_flags(type)
      [] type \in {"SyntheticMotion", "SyntheticButton", "SyntheticKey",
                   "SyntheticBarrier", "SyntheticInputAcknowledged"} ->
            input_flags(type)
      [] type \in {"SessionStateChange", "SessionStateAcknowledged"} ->
            session_flags(type)
      [] type \in {"OutputDescriptorUpsert", "OutputModeUpsert", "SurfaceOutputState",
                   "PolicyOutputUpsert", "PolicyWindowOutputHint",
                   "OutputStateQuery", "OutputConfigurationCommit",
                   "OutputConfigurationAcknowledged"} -> output_flags(type)
      [] OTHER -> policy_flags(type)

CursorCapabilities ==
    {"CURSOR_SURFACE", "FD_PASSING", "MEMFD_BUFFERS", "DAMAGE_REGIONS",
     "WINDOW_LIFECYCLE"}

surface_capabilities(v) ==
    (IF Bit(v.presentation_flags, 0) THEN {"WINDOW_LIFECYCLE"} ELSE {})
    \cup (IF Bit(v.presentation_flags, 1) THEN CursorCapabilities ELSE {})

\* A descriptor has a kind ("file" is regular and readable, "event" a
\* non-blocking eventfd) and, for a file, the size fstat reports.
validate_buffer_attach(v, fds, capabilities) ==
    LET synchronized == v.synchronization = 1 IN
    /\ synchronized => "CPU_BUFFER_SYNCHRONIZATION" \in capabilities
    /\ Len(fds) = IF synchronized THEN 2 ELSE 1
    /\ fds[1].kind = "file" /\ fds[1].size >= v.storage_size
    /\ synchronized => fds[2].kind = "event"

\* The flags and the reply_to of an outgoing message fit each other: RecordOf
\* fills reply_to from the flags.
valid_outgoing_flags(flags) ==
    Only(flags, kKnownMessageFlags) /\ (Bit(flags, kError) => Bit(flags, kReply))

validate_application(type, flags, d, fds, capabilities) ==
    /\ flags \in Permitted(type)
    /\ d.status = "Ok"
    /\ CASE type = "BufferAttach"  -> validate_buffer_attach(d.value, fds, capabilities)
         [] type = "SurfaceUpsert" -> /\ surface_capabilities(d.value) \subseteq capabilities
                                      /\ fds = <<>>
         [] OTHER -> fds = <<>>

-----------------------------------------------------------------------------
(* One message between two processes.  A message is the public structure   *)
(* an application fills (type and value), the flags and the descriptors it *)
(* gives with it and what the other side can do.  The record of a message  *)
(* in Foreign may also be changed on its way: a peer need not have built   *)
(* it with this library.                                                   *)

CONSTANTS
    Messages,       \* records [type, value, flags, fds, capabilities]
    Foreign         \* a subset of Messages

VARIABLES
    message,        \* the message under way
    record,         \* its bytes, <<>> before it is sent
    stage,          \* "filled", "sent", "refused", "changed" or "received"
    changed,        \* the record is not the one that was sent
    received        \* what the receiving application decodes

codec_vars == <<message, record, stage, changed, received>>

Nothing == [status |-> "none"]

CodecInit ==
    /\ message \in Messages
    /\ record = <<>>
    /\ stage = "filled"
    /\ changed = FALSE
    /\ received = Nothing

\* gwipc_contract_encode_*, gwipc_control_encode_*, gwipc_connection_enqueue
Send ==
    /\ stage = "filled"
    /\ \E p \in {make_payload(message.type, message.value)} :
          IF /\ p.ok
             /\ \/ message.type \in Internal
                \/ /\ valid_outgoing_flags(message.flags)
                   /\ validate_application(message.type, message.flags,
                                           decode(message.type, p.payload),
                                           message.fds, message.capabilities)
          THEN /\ record' = RecordOf(message.type, message.flags, p.payload, message.fds)
               /\ stage' = "sent"
          ELSE /\ record' = record
               /\ stage' = "refused"
    /\ UNCHANGED <<message, changed, received>>

NextDigit(d) == IF d = Radix - 1 THEN 0 ELSE d + 1

\* Another byte somewhere.
ChangeByte ==
    /\ stage = "sent" /\ message \in Foreign
    /\ \E i \in DOMAIN record : record' = [record EXCEPT ![i] = NextDigit(@)]
    /\ stage' = "changed" /\ changed' = TRUE
    /\ UNCHANGED <<message, received>>

\* A payload one byte longer or shorter, in an envelope that says so.
ChangeLength ==
    /\ stage = "sent" /\ message \in Foreign
    /\ \E payload \in {SubSeq(record, kEnvelopeSize + 1, Len(record)) \o <<0>>,
                       SubSeq(record, kEnvelopeSize + 1, Len(record) - 1)} :
          record' = RecordOf(message.type, message.flags, payload, message.fds)
    /\ stage' = "changed" /\ changed' = TRUE
    /\ UNCHANGED <<message, received>>

\* decode_envelope, validate_application, gwipc_contract_decode_message
Accepted(p, b, fds, capabilities) ==
    LET n       == p.got.type
        type    == MessageType[n]
        payload == SubSeq(b, kEnvelopeSize + 1, Len(b))
        d       == decode(type, payload)
    IN  IF /\ envelope_status(p, b, Len(fds)) = "Ok"
           /\ n \in DOMAIN MessageType
           /\ validate_application(type, p.got.flags, d, fds, capabilities)
        THEN [status |-> "Ok", type |-> type, flags |-> p.got.flags,
              envelope |-> [f \in DOMAIN p.got \ {"reserved"} |-> p.got[f]],
              value |-> d.value]
        ELSE [status |-> "refused"]

Receive ==
    /\ stage \in {"sent", "changed"}
    /\ \E p \in {ReadTable(decode_envelope, record)} :
          received' = Accepted(p, record, message.fds, message.capabilities)
    /\ stage' = "received"
    /\ UNCHANGED <<message, record, changed>>

CodecNext == Send \/ ChangeByte \/ ChangeLength \/ Receive

CodecSpec == CodecInit /\ [][CodecNext]_codec_vars

-----------------------------------------------------------------------------
(* Properties.                                                             *)

\* What the C API accepts from one process the other process decodes, and to
\* the same structure, a boolean byte above one read as one: the encoder and
\* the decoder of each of the types agree on order, width and sign of every
\* field (gwipc_contract_encode_* and gwipc_contract_decode_message).  What
\* the library builds itself is held to it when its values are valid.
SurvivesTheWire ==
    stage = "received" /\ ~changed =>
        /\ message.type \notin Internal => received.status = "Ok"
        /\ received.status = "Ok" =>
              /\ received.type = message.type
              /\ received.flags = message.flags
              /\ received.value = Normalised(message.type, message.value)

\* Whatever bytes a peer sends, those that are accepted are the encoding of
\* what is decoded from them: no reserved field, trailing byte or unused
\* value is let through, so a later version can give them a meaning
\* (src/ipc/wire, every decode).
Canonical ==
    stage = "received" /\ received.status = "Ok" =>
        record = Written(encode_envelope, received.envelope)
                 \o encode(received.type, received.value)

\* The code point of a character of one to four bytes, and its encoding.
Utf8(c) ==
    CASE c < 128   -> <<c>>
      [] c < 2048  -> <<192 + c \div 64, 128 + (c % 64)>>
      [] c < 65536 -> <<224 + c \div 4096, 128 + ((c \div 64) % 64), 128 + (c % 64)>>
      [] OTHER     -> <<240 + c \div 262144, 128 + ((c \div 4096) % 64),
                        128 + ((c \div 64) % 64), 128 + (c % 64)>>

IsText(t) ==
    LET encoded[i \in 1 .. Len(t) + 1] ==
            \/ i = Len(t) + 1
            \/ \E n \in 1 .. 4 :
                  /\ i + n - 1 <= Len(t)
                  /\ SubSeq(t, i, i + n - 1) =
                        Utf8(CodePoint(t, i, n))
                  /\ CodePoint(t, i, n) \notin 55296 .. 57343
                  /\ CodePoint(t, i, n) <= 1114111
                  /\ encoded[i + n]
    IN  encoded[1]

\* What is accepted can be used without another check: every row of an
\* attached buffer lies inside the file that came with it, a work area lies
\* inside its output and both end within 32 bits, the outputs of a surface
\* are distinct and hold the primary one, and a text is the UTF-8 encoding
\* of Unicode scalar values (buffer_geometry, valid_PolicyOutputUpsert,
\* unique_ids, valid_utf8).
Usable ==
    stage = "received" /\ received.status = "Ok" =>
        LET v == received.value IN
        /\ received.type = "BufferAttach" =>
              \A row \in {0, v.height - 1} :
                 /\ v.byte_offset + row * v.stride + 4 * v.width <= message.fds[1].size
                 /\ row > 0 => v.stride >= 4 * v.width
        /\ received.type = "PolicyOutputUpsert" /\ v.enabled = 1 =>
              \A axis \in {<<"logical_x", "logical_width", "work_x", "work_width">>,
                           <<"logical_y", "logical_height", "work_y", "work_height">>} :
                 /\ v[axis[1]] <= v[axis[3]]
                 /\ v[axis[3]] + v[axis[4]] <= v[axis[1]] + v[axis[2]]
                 /\ v[axis[1]] + v[axis[2]] - 1 <= MaxInt32
        /\ received.type = "SurfaceOutputState" /\ v.output_ids # <<>> =>
              /\ IsInjective(v.output_ids)
              /\ v.primary_output_id \in ToSet(v.output_ids)
        /\ "name" \in DOMAIN v => IsText(v.name)
        /\ "detail" \in DOMAIN v => IsText(v.detail)

\* Whatever a peer sends, what is accepted is the one encoding of its value and
\* can be used as it is (src/ipc/wire, validate_application).
AcceptedIsCanonicalAndUsable == Canonical /\ Usable
=============================================================================
