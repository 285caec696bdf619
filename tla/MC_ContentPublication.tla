----------------------- MODULE MC_ContentPublication -----------------------
(* Small instances of the content publication. *)
EXTENDS ContentPublication

CONSTANTS w1, w2

\* The first window is resized, the second only comes and goes.
MCWidths == [w \in Windows |-> IF w = w1 THEN {1, 2} ELSE {1}]

\* The first window has a subwindow over its first place.
MCCovered == [w \in Windows |-> IF w = w1 THEN {1} ELSE {}]
=============================================================================
