--------------------------- MODULE RuntimeBridge ---------------------------
(***************************************************************************)
(* glasswyrmd's bridge to its two peers (runtime_bridge.cpp): the policy   *)
(* process gwm and the compositor process gwcomp.  The bridge connects and *)
(* bootstraps both, then carries one transaction at a time; when a peer is *)
(* lost it reconnects, brings the peer back to the state it acknowledged   *)
(* last and submits the interrupted transaction again.                     *)
(*                                                                         *)
(* A snapshot is represented by the number of its submission, 1 being the  *)
(* first, empty one and 0 none.  A content frame changes the retained      *)
(* scene (promote_content), so it counts as the scene's newest number.     *)
(***************************************************************************)
EXTENDS Integers

CONSTANTS
    MaxSubmissions,   \* bound on the submissions of a behaviour
    MaxLosses,        \* bound on the connections that peers drop
    Deadline          \* ticks of the ten-second bootstrap deadline

ASSUME BridgeAssumption ==
    /\ MaxSubmissions \in Nat
    /\ MaxLosses \in Nat
    /\ Deadline \in Nat \ {0}

VARIABLES
    outputModel,      \* --output-model: inventory first, then policy, then scene
    stage,            \* stage_
    tx,               \* transaction_stage_
    resume,           \* resume_transaction_stage_
    recovering,       \* recovering_
    sceneSubmitted,   \* output_scene_submitted_
    sceneMissed,      \* history: a connection was closed and the flag stayed
    pending,          \* pending_policy_, pending_compositor_, pending_content_
    peer,             \* PolicyPeer and CompositorPeer, and their connections
    age,              \* time since deadline_ was set
    submissions,      \* submissions so far
    losses,           \* connections lost so far
    owed              \* the submission whose result the runtime still expects

vars == <<outputModel, stage, tx, resume, recovering, sceneSubmitted, sceneMissed,
          pending, peer, age, submissions, losses, owed>>

Peers == {"policy", "compositor"}
Ids == 0..(MaxSubmissions + 1)

\* The transactions, the peer that works on each, and their results.
CompositorFlights == {"Compositor", "Content", "Cursor", "Replay"}
Flights == {"Policy"} \cup CompositorFlights
Completed(t) == CASE t = "Policy"     -> "PolicyReady"
                  [] t = "Compositor" -> "Complete"
                  [] t = "Content"    -> "ContentComplete"
                  [] t = "Cursor"     -> "CursorComplete"
                  [] t = "Replay"     -> "ReplayComplete"
Rejected(t) == CASE t = "Policy"     -> "PolicyRejected"
                 [] t = "Compositor" -> "CompositorRejected"
                 [] t = "Content"    -> "ContentRejected"
                 [] t = "Cursor"     -> "CursorRejected"
                 [] t = "Replay"     -> "ReplayRejected"
Results == {Completed(t) : t \in Flights} \cup {Rejected(t) : t \in Flights}
CursorStages == {"Cursor", "CursorComplete", "CursorRejected"}

PeerStates == {"Disconnected", "Connecting", "AwaitingReply", "Synchronized"}
Links == {"none", "connecting", "established", "lost"}

Wire == [kind : {"none", "request", "accepted", "rejected", "invalid"},
         what : {"inventory", "snapshot", "content"}, id : Ids]
Silence == [kind |-> "none", what |-> "snapshot", id |-> 0]
Sent(what, id) == [kind |-> "request", what |-> what, id |-> id]

\* st is PeerBootstrapState; replay the submission the peer acknowledged
\* last (replay_input_); held what the process at the other end holds.
Peer == [st : PeerStates, link : Links, wire : Wire, held : Ids, replay : Ids]

Init ==
    /\ outputModel \in BOOLEAN
    /\ stage = IF outputModel THEN "Compositor" ELSE "Policy"
    /\ tx = "None" /\ resume = "None"
    /\ recovering = FALSE
    /\ sceneSubmitted = FALSE
    /\ sceneMissed = FALSE
    /\ pending = [policy |-> 0, compositor |-> 0, content |-> 0]
    /\ peer = [p \in Peers |-> [st |-> "Disconnected", link |-> "none",
                                wire |-> Silence, held |-> 0, replay |-> 0]]
    /\ age = 0
    /\ submissions = 0
    /\ losses = 0
    /\ owed = 0

-----------------------------------------------------------------------------
(***************************************************************************)
(* One peer, as a function of its record.                                  *)
(***************************************************************************)

\* disconnect(): the process at the other end clears what this connection
\* gave it; the acknowledged submission is kept for the replay.
Closed(r) == [r EXCEPT !.st = "Disconnected", !.link = "none",
                       !.wire = Silence, !.held = 0]

\* submit(): what is queued on a lost connection goes nowhere.
Submitted(r, what, id) ==
    [r EXCEPT !.st = "AwaitingReply",
              !.wire = IF r.link = "established" THEN Sent(what, id) ELSE Silence]

FirstOr(id) == IF id = 0 THEN 1 ELSE id

\* Mutant: a peer that once acknowledged a snapshot is trusted to have it.
BootstrappedWithoutReplay(p, r) ==
    IF r.replay # 0 THEN [r EXCEPT !.st = "Synchronized"]
    ELSE Submitted(r, IF p = "compositor" /\ outputModel THEN "inventory" ELSE "snapshot", 1)

\* send_bootstrap, or begin_output_inventory for an output-model compositor.
\* An output-model policy peer without a replay waits in Connecting.
Bootstrapped(p, r) ==
    IF p = "compositor" /\ outputModel THEN Submitted(r, "inventory", 0)
    ELSE IF p = "policy" /\ outputModel /\ r.replay = 0 THEN r
    ELSE Submitted(r, "snapshot", FirstOr(r.replay))

\* process() and drain(): the outcome, and the record afterwards.
Outcome(r) ==
    IF r.link \in {"lost", "none"} THEN "Disconnected"
    ELSE IF r.wire.kind = "invalid" THEN "Fatal"
    ELSE IF r.wire.kind = "rejected" THEN "SemanticRejected"
    ELSE "Progress"

Processed(p, r) ==
    IF Outcome(r) = "Disconnected" THEN r
    ELSE IF r.st = "Connecting" /\ r.link = "established" THEN Bootstrapped(p, r)
    ELSE IF r.wire.kind \in {"accepted", "rejected"}
    THEN [r EXCEPT !.st = "Synchronized", !.wire = Silence,
                   !.replay = IF r.wire.kind = "accepted" /\ r.wire.what # "inventory"
                              THEN r.wire.id ELSE r.replay]
    ELSE r

\* A turn of the bootstrap of one peer: connect when the retry is due, which
\* may fail, or process.
Bootstraps(p, r) ==
    IF r.st = "Disconnected"
    THEN {r, [r EXCEPT !.st = "Connecting", !.link = "connecting"]}
    ELSE IF r.st \in {"Connecting", "AwaitingReply"}
    THEN {IF Outcome(r) = "Disconnected" THEN Closed(r) ELSE Processed(p, r)}
    ELSE {r}

\* A malformed or refused bootstrap ends the server.
BootstrapFails(r) == /\ r.st \in {"Connecting", "AwaitingReply"}
                     /\ Outcome(r) \in {"Fatal", "SemanticRejected"}

-----------------------------------------------------------------------------
(***************************************************************************)
(* service() while the bridge is ready.                                    *)
(***************************************************************************)

After(pr, cr) == [policy |-> pr, compositor |-> cr]

Forgotten(t) == IF t \in CursorStages THEN "None" ELSE t

\* A peer was lost.  A transaction in flight makes the other peer reconnect
\* too, so that a late reply cannot meet the replay.  The runtime learns of
\* the compositor's reset in the same turn and drops the cursor frame
\* (forget_cursor_replay).
Recover(pr, cr) ==
    LET policyLost == Outcome(peer.policy) = "Disconnected"
        compositorLost == Outcome(peer.compositor) = "Disconnected"
        closePolicy == policyLost \/ (compositorLost /\ tx = "Policy")
        closeCompositor == compositorLost \/ (policyLost /\ tx \in CompositorFlights)
        interrupted == IF closeCompositor THEN Forgotten(tx) ELSE tx
    IN /\ peer' = After(IF closePolicy THEN Closed(pr) ELSE pr,
                        IF closeCompositor THEN Closed(cr) ELSE cr)
       /\ stage' = IF closePolicy /\ ~(outputModel /\ closeCompositor)
                   THEN "Policy" ELSE "Compositor"
       /\ tx' = interrupted
       /\ resume' = interrupted
       /\ owed' = IF interrupted = "None" THEN 0 ELSE owed
       /\ recovering' = TRUE
       /\ sceneSubmitted' = (sceneSubmitted /\ ~compositorLost)
       /\ sceneMissed' = /\ ~compositorLost
                         /\ sceneMissed \/ (sceneSubmitted /\ closeCompositor)
       /\ age' = 0
       /\ UNCHANGED <<outputModel, pending, submissions, losses>>

\* Mutant: a synchronized peer is taken for an accepting one.
AnsweredWithoutRejection(pr, cr) ==
    IF \/ tx = "Policy" /\ pr.st = "Synchronized"
       \/ tx \in CompositorFlights /\ cr.st = "Synchronized"
    THEN Completed(tx)
    ELSE tx

\* The transaction after the replies of a turn without a loss.
Answered(pr, cr) ==
    IF Outcome(peer.compositor) = "SemanticRejected"
    THEN IF tx \in CompositorFlights THEN Rejected(tx) ELSE "CompositorRejected"
    ELSE IF Outcome(peer.policy) = "SemanticRejected" THEN "PolicyRejected"
    ELSE IF \/ tx = "Policy" /\ pr.st = "Synchronized"
            \/ tx \in CompositorFlights /\ cr.st = "Synchronized"
    THEN Completed(tx)
    ELSE tx

ServiceReady ==
    LET pr == Processed("policy", peer.policy)
        cr == Processed("compositor", peer.compositor)
        outcomes == {Outcome(peer[p]) : p \in Peers}
    IN /\ stage = "Ready"
       /\ \/ /\ "Fatal" \in outcomes
             /\ stage' = "Failed"
             /\ UNCHANGED <<outputModel, sceneMissed, tx, resume, recovering,
                            sceneSubmitted, pending, peer, age, submissions, losses,
                            owed>>
          \/ /\ "Fatal" \notin outcomes /\ "Disconnected" \in outcomes
             /\ Recover(pr, cr)
          \/ /\ outcomes \cap {"Fatal", "Disconnected"} = {}
             /\ peer' = After(pr, cr)
             /\ tx' = Answered(pr, cr)
             /\ UNCHANGED <<outputModel, sceneMissed, stage, resume, recovering,
                            sceneSubmitted, pending, age, submissions, losses, owed>>

(***************************************************************************)
(* service() while it is not.                                              *)
(***************************************************************************)

Fail ==
    /\ stage' = "Failed"
    /\ UNCHANGED <<outputModel, sceneMissed, tx, resume, recovering, sceneSubmitted,
                   pending, peer, age, submissions, losses, owed>>

\* Mutant: the deadline never comes.
DeadlineIgnored ==
    /\ stage \in {"Policy", "Compositor"}
    /\ age > Deadline
    /\ Fail

DeadlineExpires ==
    /\ stage \in {"Policy", "Compositor"}
    /\ age >= Deadline
    /\ Fail

\* Mutant: the interrupted transaction is dropped.
EnterReadyFromScratch(pr, cr) ==
    /\ stage' = "Ready"
    /\ recovering' = FALSE
    /\ tx' = "None"
    /\ peer' = After(pr, cr)
    /\ UNCHANGED <<outputModel, sceneMissed, resume, sceneSubmitted, pending, age,
                   submissions, losses, owed>>

\* Both peers are synchronized: an interrupted transaction is submitted
\* again, a result that was not taken yet is put back.
EnterReady(pr, cr) ==
    /\ stage' = "Ready"
    /\ recovering' = FALSE
    /\ tx' = IF recovering THEN resume ELSE tx
    /\ peer' = IF ~recovering THEN After(pr, cr)
               ELSE IF resume = "Policy"
               THEN After(Submitted(pr, "snapshot", pending.policy), cr)
               ELSE IF resume = "Content"
               THEN After(pr, Submitted(cr, "content", pending.content))
               ELSE IF resume \in CompositorFlights
               THEN After(pr, Submitted(cr, "snapshot", pending.compositor))
               ELSE After(pr, cr)
    /\ UNCHANGED <<outputModel, sceneMissed, resume, sceneSubmitted, pending, age,
                   submissions, losses, owed>>

\* The part for the compositor, after the one for the policy peer left pr.
CompositorTurn(pr) ==
    \/ BootstrapFails(peer.compositor) /\ Fail
    \/ /\ ~BootstrapFails(peer.compositor)
       /\ \E cr \in Bootstraps("compositor", peer.compositor) :
             \/ /\ cr.st = "Synchronized"
                /\ outputModel => pr.st # "Disconnected" /\ sceneSubmitted
                /\ EnterReady(pr, cr)
             \/ /\ cr.st # "Synchronized"
                /\ stage' = "Compositor"
                /\ peer' = After(pr, cr)
                /\ sceneMissed' = (sceneMissed \/ (sceneSubmitted /\ cr.st = "Disconnected"))
                /\ UNCHANGED <<outputModel, tx, resume, recovering, sceneSubmitted,
                               pending, age, submissions, losses, owed>>
             \/ /\ cr.st = "Synchronized" /\ outputModel
                /\ pr.st = "Disconnected"
                /\ stage' = "Policy"
                /\ peer' = After(pr, cr)
                /\ UNCHANGED <<outputModel, sceneMissed, tx, resume, recovering,
                               sceneSubmitted, pending, age, submissions, losses, owed>>
             \/ /\ cr.st = "Synchronized" /\ outputModel
                /\ pr.st # "Disconnected" /\ ~sceneSubmitted
                /\ stage' = "Compositor"
                /\ peer' = After(pr, Submitted(cr, "snapshot", FirstOr(cr.replay)))
                /\ sceneSubmitted' = TRUE
                /\ UNCHANGED <<outputModel, sceneMissed, tx, resume, recovering,
                               pending, age, submissions, losses, owed>>

\* The part for the policy peer; an output-model peer gets its first policy
\* from the inventory.
PolicyTurn ==
    \/ BootstrapFails(peer.policy) /\ Fail
    \/ /\ ~BootstrapFails(peer.policy)
       /\ \E r \in Bootstraps("policy", peer.policy) :
             LET pr == IF outputModel /\ r.st = "Connecting" /\ r.link = "established"
                       THEN Submitted(r, "snapshot", 1) ELSE r
             IN IF pr.st = "Synchronized"
                THEN CompositorTurn(pr)
                ELSE /\ peer' = [peer EXCEPT !.policy = pr]
                     /\ UNCHANGED <<outputModel, sceneMissed, stage, tx, resume,
                                    recovering, sceneSubmitted, pending, age,
                                    submissions, losses, owed>>

ServiceBootstrap ==
    /\ age < Deadline
    /\ \/ stage = "Policy" /\ PolicyTurn
       \/ stage = "Compositor" /\ CompositorTurn(peer.policy)

Service == ServiceReady \/ DeadlineExpires \/ ServiceBootstrap

-----------------------------------------------------------------------------
(***************************************************************************)
(* What the runtime asks of the bridge.                                    *)
(***************************************************************************)

\* A submission of transaction t to peer p.
Submit(p, t, what, slots) ==
    LET id == submissions + 2
    IN /\ stage = "Ready"
       /\ submissions < MaxSubmissions
       /\ peer[p].st = "Synchronized"
       /\ submissions' = submissions + 1
       /\ peer' = [peer EXCEPT ![p] = Submitted(peer[p], what, id)]
       /\ pending' = [s \in DOMAIN pending |-> IF s \in slots THEN id ELSE pending[s]]
       /\ tx' = t
       /\ owed' = id
       /\ UNCHANGED <<outputModel, sceneMissed, stage, resume, recovering,
                      sceneSubmitted, age, losses>>

SubmitPolicy == tx = "None" /\ Submit("policy", "Policy", "snapshot", {"policy"})
SubmitCompositor ==
    tx = "PolicyReady" /\ Submit("compositor", "Compositor", "snapshot", {"compositor"})
SubmitContent == tx = "None" /\ Submit("compositor", "Content", "content", {"content"})
SubmitCursor == tx = "None" /\ Submit("compositor", "Cursor", "snapshot", {"compositor"})
SubmitReplay == tx = "None" /\ Submit("compositor", "Replay", "snapshot", {"compositor"})

\* prepare_rollback and clear_transaction_result: a result is taken.
TakeResult ==
    /\ stage = "Ready"
    /\ tx \in Results
    /\ tx' = "None"
    /\ owed' = 0
    /\ UNCHANGED <<outputModel, sceneMissed, stage, resume, recovering, sceneSubmitted,
                   pending, peer, age, submissions, losses>>

-----------------------------------------------------------------------------
(***************************************************************************)
(* Time, the connections and the processes at their other ends.            *)
(***************************************************************************)

Tick ==
    /\ stage \in {"Policy", "Compositor"}
    /\ age < Deadline
    /\ age' = age + 1
    /\ UNCHANGED <<outputModel, sceneMissed, stage, tx, resume, recovering,
                   sceneSubmitted, pending, peer, submissions, losses, owed>>

\* The hello and welcome of a connection have been exchanged.
Establish(p) ==
    /\ peer[p].link = "connecting"
    /\ peer' = [peer EXCEPT ![p].link = "established"]
    /\ UNCHANGED <<outputModel, sceneMissed, stage, tx, resume, recovering,
                   sceneSubmitted, pending, age, submissions, losses, owed>>

\* The process answers.  Content for a scene it does not hold is refused.
Answer(p, result) ==
    LET w == peer[p].wire
    IN /\ peer[p].link = "established" /\ w.kind = "request"
       /\ w.what = "content" /\ result = "accepted" => peer[p].held # 0
       /\ peer' = [peer EXCEPT ![p].wire.kind = result,
                               ![p].held = IF result = "accepted" /\ w.what # "inventory"
                                           THEN w.id ELSE @]
       /\ UNCHANGED <<outputModel, sceneMissed, stage, tx, resume, recovering,
                      sceneSubmitted, pending, age, submissions, losses, owed>>

\* The process ends or drops the connection; an answer under way is lost.
Lose(p) ==
    /\ peer[p].link \in {"connecting", "established"}
    /\ losses < MaxLosses
    /\ losses' = losses + 1
    /\ peer' = [peer EXCEPT ![p].link = "lost", ![p].wire = Silence, ![p].held = 0]
    /\ UNCHANGED <<outputModel, sceneMissed, stage, tx, resume, recovering,
                   sceneSubmitted, pending, age, submissions, owed>>

Next ==
    \/ Service
    \/ SubmitPolicy \/ SubmitCompositor \/ SubmitContent \/ SubmitCursor \/ SubmitReplay
    \/ TakeResult
    \/ Tick
    \/ \E p \in Peers : Establish(p) \/ Lose(p)
    \/ \E p \in Peers, result \in {"accepted", "rejected", "invalid"} : Answer(p, result)

Spec == Init /\ [][Next]_vars

(***************************************************************************)
(* The poll loop calls service() again and again and time passes; nothing  *)
(* is assumed of the peers.                                                *)
(***************************************************************************)
FairSpec == Spec /\ WF_vars(Service) /\ WF_vars(Tick)

-----------------------------------------------------------------------------
(***************************************************************************)
(* Properties.                                                             *)
(***************************************************************************)

\* The type of the bridge's state.
TypeOK ==
    /\ outputModel \in BOOLEAN
    /\ stage \in {"Policy", "Compositor", "Ready", "Failed"}
    /\ tx \in {"None"} \cup Flights \cup Results
    /\ resume \in {"None"} \cup Flights \cup Results
    /\ recovering \in BOOLEAN
    /\ sceneSubmitted \in BOOLEAN
    /\ sceneMissed \in BOOLEAN
    /\ pending \in [policy : Ids, compositor : Ids, content : Ids]
    /\ peer \in [Peers -> Peer]
    /\ age \in 0..Deadline
    /\ submissions \in 0..MaxSubmissions
    /\ losses \in 0..MaxLosses
    /\ owed \in Ids

\* While the bridge is ready exactly the peer of the transaction in flight is
\* waited for, so no reply can be taken for the answer to another request.
ReplyHasOneTransaction ==
    stage = "Ready" =>
        /\ peer.policy.st = IF tx = "Policy" THEN "AwaitingReply" ELSE "Synchronized"
        /\ peer.compositor.st =
              IF tx \in CompositorFlights THEN "AwaitingReply" ELSE "Synchronized"

\* The submission a stage is about.
PendingOf(t) ==
    IF t = "None" THEN 0
    ELSE IF t \in {"Policy", "PolicyReady", "PolicyRejected"} THEN pending.policy
    ELSE IF t \in {"Content", "ContentComplete", "ContentRejected"} THEN pending.content
    ELSE pending.compositor

\* Reconnects neither lose a transaction nor deliver a result twice: the
\* bridge always works on, or holds the result of, exactly the submission the
\* runtime is waiting for (resume_transaction_stage_).
NothingLostOrRepeated == stage # "Failed" => PendingOf(tx) = owed

\* A success reported for a submission means that the peer acknowledged that
\* very submission, and that it is the one replayed from then on.
ResultsAreAcknowledged ==
    /\ tx = "PolicyReady" => peer.policy.replay = pending.policy
    /\ tx \in {Completed(t) : t \in CompositorFlights} =>
          peer.compositor.replay = PendingOf(tx)

\* Once the bridge is ready every connected process holds what it acknowledged
\* last, through any number of restarts and for either start-up order
\* (send_bootstrap, and the scene that follows an inventory).  The one way to
\* hold nothing instead is the code's own: with the output model only a
\* compositor that is found lost by a ready bridge resets
\* output_scene_submitted_; one whose connection is closed otherwise is not
\* sent the acknowledged scene again, and waits for the next one.
PeersHoldAcknowledgedState ==
    stage = "Ready" => \A p \in Peers :
        peer[p].st = "Synchronized" /\ peer[p].link = "established"
        => \/ peer[p].held = peer[p].replay
           \/ p = "compositor" /\ sceneMissed /\ peer[p].held = 0

\* The replay into a fresh compositor that compositor_peer.cpp:200 promises, without that
\* exception.
AcknowledgedStateReplayed ==
    stage = "Ready" => \A p \in Peers :
        peer[p].st = "Synchronized" /\ peer[p].link = "established"
        => peer[p].held = peer[p].replay

\* A bridge that is not ready becomes ready or gives up.
RecoversOrFails == stage \in {"Policy", "Compositor"} ~> stage \in {"Ready", "Failed"}
=============================================================================
