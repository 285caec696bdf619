------------------------- MODULE LifecycleSnapshot -------------------------
(***************************************************************************)
(* The values that glasswyrmd's lifecycle transactions are about: the      *)
(* snapshot of every top-level window (lifecycle_types.hpp), the queued    *)
(* operation (lifecycle_coordinator.hpp), how an operation is proposed by  *)
(* the request handlers, and how it is rebased on the committed snapshot   *)
(* when it is started.                                                     *)
(*                                                                         *)
(* A requested field group of a window (its map request, its geometry, ..) *)
(* is represented by the serial of the operation that wrote it, 0 being    *)
(* the value the window had at start-up.  root_order is left out: it       *)
(* always lists exactly the windows of the snapshot.                       *)
(***************************************************************************)
EXTENDS Integers, Sequences, FiniteSets

CONSTANTS
    Clients,        \* X11 connections
    Internal,       \* client id 0: operations the server starts by itself
    Windows,        \* top-level XIDs
    Owner,          \* the client whose resource range holds an XID
    Root,           \* the root window
    Absent,         \* marks an XID that a snapshot does not contain
    NoOp,           \* an empty std::optional<LifecycleOperation>
    MaxToken,       \* bound on the operations of a behaviour
    MaxChildren     \* bound on the subwindows of a top-level window

Tokens == 1..MaxToken
Serials == 0..MaxToken

\* The field groups of LifecycleWindow that the operation kinds write.
Attrs == {"map", "geometry", "stack", "override", "scale", "focus", "policy"}

Intent == [Attrs -> Serials]

Snapshot == [windows : [Windows -> Intent \cup {Absent}],
             focus   : Windows \cup {Root}]

\* Map and Unmap write the same fields and differ in no control flow.
Kinds == {"Create", "Map", "Configure", "Destroy", "OverrideChange",
          "PolicyChange", "ScaleChange", "Focus", "ClientCleanup"}

\* "targets" and "subtree" are what PendingMutation keeps beside the
\* operation: the top-level windows of a cleanup plan, and the subwindows
\* that a destroy plan has captured.
Operation == [token    : Tokens,
              client   : Clients \cup {Internal},
              kind     : Kinds,
              window   : Windows,
              targets  : SUBSET Windows,
              subtree  : 0..MaxChildren,
              proposed : Snapshot,
              canceled : BOOLEAN]

ASSUME ConstantsAssumption ==
    /\ Owner \in [Windows -> Clients]
    /\ Internal \notin Clients
    /\ Root \notin Windows
    /\ Absent \notin Intent
    /\ NoOp \notin Operation
    /\ MaxToken \in Nat
    /\ MaxChildren \in Nat

Existing(s) == {w \in Windows : s.windows[w] # Absent}

EmptySnapshot == [windows |-> [w \in Windows |-> Absent], focus |-> Root]

Remove(s, gone) ==
    [windows |-> [w \in Windows |-> IF w \in gone THEN Absent ELSE s.windows[w]],
     focus   |-> IF s.focus \in gone THEN Root ELSE s.focus]

(***************************************************************************)
(* What the handlers propose.                                              *)
(***************************************************************************)

\* The sets of field groups that one request of a kind may change: a
\* ConfigureWindow always takes a geometry serial and restacks only when a
\* stack mode was given, an interactive press may focus and raise, and an
\* activation message is a PolicyChange that also takes a focus serial.
Touches(kind) ==
    CASE kind = "Map"            -> {{"map"}}
      [] kind = "Configure"      -> {{"geometry"}, {"geometry", "stack"}}
      [] kind = "OverrideChange" -> {{"override"}}
      [] kind = "PolicyChange"   -> {{"policy"}, {"policy", "focus"}}
      [] kind = "ScaleChange"    -> {{"scale"}}
      [] kind = "Focus"          -> {{"focus"}, {"focus", "stack"}}
      [] OTHER                   -> {{}}

Propose(s, kind, w, touched, t) ==
    CASE kind = "Create"  -> [s EXCEPT !.windows[w] = [a \in Attrs |-> t]]
      [] kind = "Destroy" -> Remove(s, {w})
      [] OTHER ->
            [s EXCEPT !.windows[w] =
                [a \in Attrs |-> IF a \in touched THEN t ELSE s.windows[w][a]]]

(***************************************************************************)
(* rebase_lifecycle_operation: the proposal was made from the snapshot of  *)
(* the time of the request, and is replayed on today's committed snapshot. *)
(***************************************************************************)

\* Mutant: a scale change is not copied.
CopiedByWithoutScale(kind) ==
    CASE kind = "Map"            -> {"map"}
      [] kind = "Configure"      -> {"geometry", "stack"}
      [] kind = "OverrideChange" -> {"override"}
      [] kind = "PolicyChange"   -> Attrs
      [] kind = "Focus"          -> {"focus"}
      [] OTHER                   -> {}

\* The field groups copied from the proposal's record by each kind.
CopiedBy(kind) ==
    CASE kind = "Map"            -> {"map"}
      [] kind = "Configure"      -> {"geometry", "stack"}
      [] kind = "OverrideChange" -> {"override"}
      [] kind = "PolicyChange"   -> Attrs
      [] kind = "ScaleChange"    -> {"scale"}
      [] kind = "Focus"          -> {"focus"}
      [] OTHER                   -> {}

\* The cases in which the rebase yields a snapshot and not std::nullopt.
Rebasable(s, op) ==
    CASE op.kind = "Create"        -> /\ op.window \in Existing(op.proposed)
                                      /\ op.window \notin Existing(s)
      [] op.kind = "Destroy"       -> op.window \in Existing(s)
      [] op.kind = "ClientCleanup" -> TRUE
      [] OTHER                     -> /\ op.window \in Existing(op.proposed)
                                      /\ op.window \in Existing(s)

Rebase(s, op) ==
    LET w == op.window
        source == op.proposed.windows[w]
    IN CASE op.kind = "Create"        -> [s EXCEPT !.windows[w] = source]
         [] op.kind = "Destroy"       -> Remove(s, {w})
         [] op.kind = "ClientCleanup" -> Remove(s, Existing(s) \ Existing(op.proposed))
         [] OTHER ->
               [s EXCEPT !.windows[w] =
                   [a \in Attrs |-> IF a \in CopiedBy(op.kind)
                                    THEN source[a] ELSE s.windows[w][a]]]

\* apply_policy_result: the policy keeps the windows and their requests and
\* chooses the focus (and the placement, which is not represented).
Evaluations(s) ==
    {[windows |-> s.windows, focus |-> f] : f \in Existing(s) \cup {Root}}
=============================================================================
