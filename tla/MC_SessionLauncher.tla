------------------------- MODULE MC_SessionLauncher -------------------------
(* A small instance of the session launcher. *)
EXTENDS SessionLauncher

MCSignals == {2, 15}
=============================================================================
