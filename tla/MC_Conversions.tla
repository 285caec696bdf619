--------------------------- MODULE MC_Conversions ---------------------------
(***************************************************************************)
(* The two parts of the system that are conversions rather than protocols, *)
(* checked over their enumerated inputs: a behaviour either takes one      *)
(* message through the codecs of WireCodec or one session of outputs       *)
(* through the frames of OutputFrames.  The other part is idle.            *)
(***************************************************************************)
EXTENDS MC_OutputFrames, MC_WireCodec

NoLayout ==
    [descriptors |-> <<>>, states |-> <<>>, primary |-> 0, root_width |-> 0,
     root_height |-> 0, generation |-> MaxGeneration, enabled_count |-> 0, order |-> <<>>]

NoFrames ==
    /\ published = NoLayout /\ inventory = NoLayout /\ layout = NoLayout
    /\ scene = NoScene /\ frames = <<>> /\ outcome = "Accepted"

NoMessage ==
    /\ message = Nothing /\ record = <<>> /\ stage = "idle"
    /\ changed = FALSE /\ received = Nothing

ConversionsInit == (CodecInit /\ NoFrames) \/ (Init /\ NoMessage)

ConversionsNext ==
    \/ Send /\ UNCHANGED vars
    \/ ChangeByte /\ UNCHANGED vars
    \/ ChangeLength /\ UNCHANGED vars
    \/ Receive /\ UNCHANGED vars
    \/ ConfigureAny /\ UNCHANGED codec_vars
    \/ RedrawAny /\ UNCHANGED codec_vars
    \/ published \in Inventories /\ Reconnect /\ UNCHANGED codec_vars

ConversionsSpec == ConversionsInit /\ [][ConversionsNext]_<<vars, codec_vars>>
=============================================================================
