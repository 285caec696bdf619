-------------------------- MODULE MC_InputRouting ---------------------------
(* Two clients, a window each and a child of the first window in the second's *)
(* hands: enough for a press on one window and a release on another.          *)
EXTENDS InputRouting

MCTree == [A |-> "root", B |-> "root", C |-> "A"]
MCOwner == [A |-> "a", B |-> "b", C |-> "b"]
MCSelects ==
    [A |-> [Press |-> {"a"}, Release |-> {"a"}, Motion |-> {"a"}],
     B |-> [Press |-> {"b"}, Release |-> {"b"}, Motion |-> {}],
     C |-> [Press |-> {}, Release |-> {"b"}, Motion |-> {}]]
MCExtent == [A |-> 4, B |-> 2, C |-> 1]
MCPlace == [A |-> 1, B |-> 6, C |-> 0]
MCBindings == [move |-> 1, resize |-> 3, modifier |-> 64, close |-> 24, least |-> 1]

Ask(kind, client, window, arg) ==
    [kind |-> kind, client |-> client, window |-> window, arg |-> arg]
MCWishes ==
    {Ask("Unmap", "a", "A", 0), Ask("Map", "a", "A", 0), Ask("Configure", "b", "B", 1),
     Ask("Destroy", "a", "A", 0), Ask("Grab", "b", "B", 1), Ask("Ungrab", "a", "A", 0),
     Ask("GrabButton", "b", "C", 1), Ask("GrabKeyboard", "b", "B", 0),
     Ask("Cursor", "a", "A", 0), Ask("Warp", "b", "B", 6), Ask("Repeat", "a", "A", 0),
     Ask("Leave", "a", "A", 0)}
=============================================================================
