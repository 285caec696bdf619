-------------------------- MODULE MC_OutputFrames --------------------------
(***************************************************************************)
(* Three sessions: one headless output taken through scales and            *)
(* transforms, two headless outputs taken through positions and modes, and *)
(* one DRM output.  Two windows and a cursor change in all of them.        *)
(***************************************************************************)
EXTENDS OutputFrames

Request(id, name, w, h) == [id |-> id, name |-> name, w |-> w, h |-> h, refresh |-> 60]

Single == headless_inventory(<<Request(1, "left", 4, 3)>>)
\* The second output's identity comes first.
Double == headless_inventory(<<Request(2, "left", 3, 2), Request(1, "right", 2, 2)>>)
Fixed  == drm_inventory(1, "HDMI-A-1", <<[w |-> 4, h |-> 3, refresh |-> 60],
                                        [w |-> 2, h |-> 2, refresh |-> 60]>>, 1)

MCInventories == {Single, Double, Fixed}

Output(x, y, w, h, scale, transform, slip) ==
    LET extent == transformed_physical_extent(w, h, transform) IN
    [enabled |-> TRUE, x |-> x, y |-> y,
     width |-> CeilDiv(extent.w * scale[2], scale[1]) - slip,
     height |-> CeilDiv(extent.h * scale[2], scale[1]),
     pw |-> w, ph |-> h, refresh |-> 60, scale |-> scale, transform |-> transform]

Off == [enabled |-> FALSE, x |-> 0, y |-> 0, width |-> 0, height |-> 0, pw |-> 0,
        ph |-> 0, refresh |-> 0, scale |-> <<1, 1>>, transform |-> 0]

Scales == {<<1, 1>>, <<2, 1>>, <<3, 2>>, <<4, 3>>}

Bad == {<<0, 1>>, <<5, 1>>, <<4, 2>>, <<1, 2>>, <<7, 5>>}

SingleRequests ==
    {[primary |-> 1, outputs |-> <<Output(0, 0, 4, 3, s, t, 0)>>] : s \in Scales, t \in Transforms}
    \cup {[primary |-> 1, outputs |-> <<[Output(0, 0, 4, 3, <<1, 1>>, 0, 0) EXCEPT !.scale = s]>>] :
              s \in Bad}
    \cup {[primary |-> 1, outputs |-> <<o>>] :
              o \in {Off, Output(1, 0, 4, 3, <<1, 1>>, 0, 0), Output(0, 0, 4, 3, <<3, 2>>, 0, 1),
                     Output(0, 0, 5, 5, <<1, 1>>, 0, 0), Output(-1, 0, 4, 3, <<1, 1>>, 0, 0),
                     Output(0, 0, 2, 2, <<1, 1>>, 1, 0)}}

DoubleRequests ==
    {[primary |-> p, outputs |-> <<a, b>>] :
        p \in {1, 2},
        a \in {Off, Output(3, 0, 2, 2, <<1, 1>>, 0, 0), Output(0, 2, 2, 2, <<1, 1>>, 3, 0),
               Output(2, 0, 2, 2, <<2, 1>>, 0, 0), Output(0, 0, 2, 2, <<1, 1>>, 0, 0)},
        b \in {Off, Output(0, 0, 3, 2, <<1, 1>>, 0, 0), Output(2, 0, 3, 2, <<1, 1>>, 0, 0),
               Output(0, 0, 3, 2, <<3, 2>>, 1, 0)}}

\* Of a DRM output the mode and the origin are fixed.
FixedRequests ==
    {[primary |-> 1, outputs |-> <<o>>] :
        o \in {Off, Output(0, 0, 4, 3, <<3, 2>>, 1, 0), Output(0, 0, 2, 2, <<1, 1>>, 0, 0),
               Output(1, 0, 4, 3, <<1, 1>>, 0, 0)}}

MCRequests(backend) ==
    CASE backend = Single -> SingleRequests
      [] backend = Double -> DoubleRequests
      [] backend = Fixed  -> FixedRequests

Window(x, y, w, h, stacking) ==
    [x |-> x, y |-> y, w |-> w, h |-> h, stacking |-> stacking, visible |-> TRUE,
     clip |-> None, opacity |-> "one", client_scale |-> 1, kind |-> "Window",
     content |-> 1, memberships |-> <<>>, output |-> 0]

\* The hotspot is in the second column of the image.
Cursor(x, y) ==
    [pointer |-> <<x, y>>, hotspot |-> <<1, 0>>]
    @@ [Window(0, 0, 2, 1, 9) EXCEPT !.kind = "Cursor"]

MCInitialSurfaces(backend) ==
    { 1 :> Window(0, 0, 3, 2, 1) @@ 2 :> Window(2, 1, 2, 2, 2),
      1 :> Window(1, 0, 2, 2, 1) @@ 3 :> Cursor(0, 0) }

\* The changes a window goes through, one at a time.
Changed(id, s) ==
    CASE id = 1 -> {[s EXCEPT !.visible = ~@], [s EXCEPT !.content = 3 - @], [s EXCEPT !.x = 1]}
      [] id = 2 -> {[s EXCEPT !.stacking = 2 - @], [s EXCEPT !.client_scale = 3 - @, !.content = 3 - @],
                    [s EXCEPT !.clip = IF @ = None THEN Rect(1, 0, 1, 2) ELSE None]}
      [] id = 3 -> {[s EXCEPT !.pointer = <<x, y>>] : x \in {0, 3}, y \in {0, 2}}

\* A redraw at the same time as the cursor crosses the screen damages three
\* rectangles.
Busy(surfaces) ==
    [surfaces EXCEPT ![1].content = 3 - @, ![3].pointer = <<3 - Min({3, @[1]}), 2 - Min({2, @[2]})>>]

\* The sessions without the second window have the cursor.
MCRedraws(backend, surfaces) ==
    (IF 3 \in DOMAIN surfaces THEN {Busy(surfaces)} ELSE {})
    \cup (IF DOMAIN surfaces = {1} THEN {surfaces @@ (3 :> Cursor(3, 2))} ELSE {})
    \cup UNION {{[surfaces EXCEPT ![id] = s] : s \in Changed(id, surfaces[id])} :
                   id \in DOMAIN surfaces}
=============================================================================
