-------------------------- MODULE MC_WindowPolicy --------------------------
(* Small instances of WindowPolicy: three windows, two outputs.            *)
EXTENDS WindowPolicy

MCScreen == [w |-> 200, h |-> 100]

State(rect, on, primary, scale) ==
  [logical |-> rect, enabled |-> on, primary |-> primary, scale |-> scale]

SideBySide ==
  [order |-> <<1, 2>>,
   state |-> <<State(Rect(0, 0, 200, 100), TRUE, TRUE, <<1, 1>>),
               State(Rect(200, 0, 100, 100), TRUE, FALSE, <<3, 2>>)>>]
SecondOnly ==
  [order |-> <<1, 2>>,
   state |-> <<State(NoRect, FALSE, FALSE, <<1, 1>>),
               State(Rect(0, 0, 100, 100), TRUE, TRUE, <<3, 2>>)>>]

MCLayouts == {NoLayout, SideBySide}
MCRelayouts == {SecondOnly}

Create(id, rect, override) ==
  [kind |-> "Create", id |-> id, rect |-> rect, override |-> override]
On(kind, id) == [kind |-> kind, id |-> id]
Restack(id, sibling, mode) ==
  [kind |-> "Restack", id |-> id, sibling |-> sibling, mode |-> mode]
Configure(id, rect) == [kind |-> "Configure", id |-> id, rect |-> rect]
Transient(id, to) == [kind |-> "Transient", id |-> id, to |-> to]

Small == Rect(10, 10, 50, 40)
Large == Rect(0, 0, 300, 16384)
Far   == Rect(-32768, 32767, 60, 1)

Anything ==
  {On(kind, id) : kind \in {"Destroy", "Unmap"}, id \in {1, 2}}
  \cup {Restack(id, s, mode) : id \in {1, 3}, s \in {0, 2}, mode \in {"Above", "Below"}}
  \cup {Configure(1, Far), Configure(2, Rect(250, 90, 400, 50)), Transient(1, 3),
        [kind |-> "State", id |-> 1, fullscreen |-> TRUE, maximized |-> FALSE],
        [kind |-> "State", id |-> 3, fullscreen |-> FALSE, maximized |-> TRUE],
        On("Focus", 1), [kind |-> "Hints", id |-> 2, min |-> 70, max |-> 65535],
        [kind |-> "Cleanup", ids |-> {1, 2}]}
  \cup {[kind |-> "Relayout", layout |-> l] : l \in Relayouts}

MCPlan ==
  << {Create(1, Small, FALSE), Create(1, Large, FALSE)}, {On("Map", 1)},
     {Create(2, Small, FALSE), Create(2, Far, TRUE)}, {On("Map", 2)},
     {Create(3, Rect(-20, 0, 90, 30), FALSE)},
     {On("Map", 3), Transient(3, 1), Transient(3, 2)},
     {On("Map", 3)}, Anything, Anything >>

=============================================================================
