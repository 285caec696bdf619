------------------------ MODULE OutputConfiguration ------------------------
(***************************************************************************)
(* A diagnostic tool changes the output layout of a running server         *)
(* (output_control_peer.cpp, output_configuration_coordinator.cpp and      *)
(* output_configuration_runtime.cpp of glasswyrmd).  The proposed layout   *)
(* goes to the policy process, then to the compositor, and is installed in *)
(* the bridge, the lifecycle coordinator, the server state and the input   *)
(* bounds; a refusal on the way takes the peers back to the old layout.    *)
(*                                                                         *)
(* The reactor's turn is kept: clients and tools are read (`turn' is       *)
(* "events"), the bridge is served, then output, lifecycle, output and     *)
(* content work run in that order.  The loop sleeps unless something was   *)
(* read or a peer has something to say, so work that is left for the next  *)
(* turn waits for an event.  The bridge is reduced to what RuntimeBridge   *)
(* shows of it: one transaction at a time, resubmitted after a recovery.   *)
(***************************************************************************)
EXTENDS Integers, FiniteSets

CONSTANTS
    Outputs,         \* the inventory: outputs of the compositor
    Primary,         \* the primary output of the inventory's layout
    Tools,           \* connections of diagnostic tools to the control socket
    MaxGeneration,   \* the largest layout generation (UINT64_MAX in the code)
    MaxResets,       \* bound on lost peers
    MaxRequests,     \* bound on lifecycle requests of X11 clients
    MaxSnapshots,    \* bound on the snapshots that tools send
    None             \* no tool, no snapshot

ASSUME OutputAssumption ==
    /\ IsFiniteSet(Outputs) /\ Primary \in Outputs
    /\ None \notin Tools
    /\ {MaxGeneration, MaxResets, MaxRequests, MaxSnapshots} \subseteq Nat
    /\ MaxGeneration > 0

VARIABLES
    tool,        \* peers_: link, staged snapshot, commit not yet answered
    coord,       \* OutputConfigurationCoordinator
    owner,       \* pending_reply_: the tool whose commit is being applied
    run,         \* output_configuration_stage_
    peerReset,   \* output_configuration_peer_reset_
    installed,   \* the layout in force in each part of the server
    life,        \* LifecycleCoordinator: phase and queue length
    bridge,      \* RuntimeBridge: transaction stage, readiness, submissions
    acked,       \* the layout each peer acknowledged last
    turn,        \* where the reactor's turn is
    woken,       \* something was read in this turn
    resets, requests, snapshots,
    stopped      \* event_loop returned an error

vars == <<tool, coord, owner, run, peerReset, installed, life, bridge, acked,
          turn, woken, resets, requests, snapshots, stopped>>

Parts == {"bridge", "lifecycle", "server", "input"}
PeerNames == {"policy", "compositor"}
Layouts == [generation : 1..MaxGeneration, on : SUBSET Outputs, primary : Outputs]

\* A complete Outputs snapshot, and what may be wrong with its records.
Snapshots == [on : SUBSET Outputs, flaw : {"none"}]
             \cup [on : {Outputs}, flaw : {"unknown", "mode"}]

Results == {"Accepted", "StaleGeneration", "InvalidLayout", "UnknownOutput",
            "UnsupportedMode", "PolicyRejected", "CompositorRejected",
            "PresenterRejected", "InternalError"}

\* A connection before it is accepted and after it is closed: next_peer_id_
\* gives every connection an identity of its own.
Closed(link) == [link |-> link, staged |-> None, knows |-> 1, waiting |-> FALSE,
                 answer |-> None]

FirstLayout == [generation |-> 1, on |-> Outputs, primary |-> Primary]

Init ==
    /\ tool = [t \in Tools |-> Closed("new")]
    /\ coord = [stage |-> "Idle", committed |-> FirstLayout, proposed |-> FirstLayout,
                result |-> "CompositorRejected"]
    /\ owner = None
    /\ run = "Idle"
    /\ peerReset = FALSE
    /\ installed = [p \in Parts |-> FirstLayout]
    /\ life = [phase |-> "Idle", queue |-> 0]
    /\ bridge = [tx |-> "None", ready |-> TRUE, policy |-> FirstLayout, compositor |-> FirstLayout]
    /\ acked = [p \in PeerNames |-> FirstLayout]
    /\ turn = "events"
    /\ woken = FALSE
    /\ resets = 0 /\ requests = 0 /\ snapshots = 0
    /\ stopped = FALSE

\* coordinator_.transaction(), and output_configuration_active().
Transaction == coord.stage # "Idle"
Active == run # "Idle" \/ Transaction

-----------------------------------------------------------------------------
(***************************************************************************)
(* The coordinator: what submit() answers.                                 *)
(***************************************************************************)

\* begin_snapshot, stage_output and end_snapshot: the first failure wins and
\* an unknown output is not hidden by the count that it spoils.
SnapshotFailure(s) ==
    IF s.flaw = "unknown" THEN "UnknownOutput" ELSE "Accepted"

\* validate_layout and validation_result.
ValidationResult(l) ==
    IF l.on # {} /\ l.primary \in l.on THEN "Accepted" ELSE "InvalidLayout"

Candidate(s, primary) ==
    [generation |-> coord.committed.generation + 1, on |-> s.on, primary |-> primary]

BuildCandidate(s, primary) ==
    IF coord.committed.generation = MaxGeneration THEN "InternalError"
    ELSE IF s.flaw = "mode" THEN "UnsupportedMode"
    ELSE ValidationResult(Candidate(s, primary))

\* Mutant: the base generation is not compared.
SubmitAnyGeneration(s, base, primary) ==
    IF s = None THEN "InvalidLayout"
    ELSE IF SnapshotFailure(s) # "Accepted" THEN SnapshotFailure(s)
    ELSE BuildCandidate(s, primary)

\* "Accepted" means that the transaction begins.
Submit(s, base, primary) ==
    IF base # coord.committed.generation THEN "StaleGeneration"
    ELSE IF s = None THEN "InvalidLayout"
    ELSE IF SnapshotFailure(s) # "Accepted" THEN SnapshotFailure(s)
    ELSE BuildCandidate(s, primary)

\* clear_transaction.
Cleared(committed) ==
    [coord EXCEPT !.stage = "Idle", !.committed = committed, !.proposed = committed,
                  !.result = "CompositorRejected"]

-----------------------------------------------------------------------------
(***************************************************************************)
(* The tools (OutputControlPeer::service), read before the bridge.         *)
(***************************************************************************)

ReadTool ==
    /\ ~stopped /\ turn = "events"
    /\ woken' = TRUE
    /\ UNCHANGED <<run, peerReset, installed, life, bridge, acked, turn, resets,
                   requests, stopped>>

AcceptPeer(t) ==
    /\ ReadTool
    /\ tool[t].link = "new"
    /\ tool' = [tool EXCEPT ![t].link = "up", ![t].knows = coord.committed.generation]
    /\ UNCHANGED <<coord, owner, snapshots>>

\* disconnect(): pending_reply_ stays, whoever it belongs to.
Disconnect(t) == tool' = [tool EXCEPT ![t] = Closed("gone")]

ToolLeaves(t) ==
    /\ ReadTool
    /\ tool[t].link = "up"
    /\ Disconnect(t)
    /\ UNCHANGED <<coord, owner, snapshots>>

\* consume_begin, consume_output and consume_end of one snapshot; a second
\* snapshot before the commit is a protocol error.
ConsumeSnapshot(t, s) ==
    /\ ReadTool
    /\ tool[t].link = "up"
    /\ snapshots < MaxSnapshots
    /\ snapshots' = snapshots + 1
    /\ IF tool[t].staged # None THEN Disconnect(t)
       ELSE tool' = [tool EXCEPT ![t].staged = s]
    /\ UNCHANGED <<coord, owner>>

\* consume_query: the committed layout, even while another one is applied.
ConsumeQuery(t) ==
    /\ ReadTool
    /\ tool[t].link = "up"
    /\ tool[t].knows # coord.committed.generation
    /\ tool' = [tool EXCEPT ![t].knows = coord.committed.generation]
    /\ UNCHANGED <<coord, owner, snapshots>>

\* consume_commit.  While a reply is pending the tool is disconnected; a
\* commit that is refused outright is answered here, and `answer' keeps only
\* what a transaction ended with.
ConsumeCommit(t, primary) ==
    LET s == tool[t].staged
        result == Submit(s, tool[t].knows, primary)
    IN /\ ReadTool
       /\ tool[t].link = "up"
       /\ IF owner # None
          THEN /\ Disconnect(t)
               /\ UNCHANGED <<coord, owner>>
          ELSE IF result = "Accepted"
          THEN /\ coord' = [coord EXCEPT !.stage = "PolicyPending",
                                         !.proposed = Candidate(s, primary)]
               /\ owner' = t
               /\ tool' = [tool EXCEPT ![t].staged = None, ![t].waiting = TRUE,
                                       ![t].answer = None]
          ELSE /\ tool' = [tool EXCEPT ![t].staged = None]
               /\ UNCHANGED <<coord, owner>>
       /\ UNCHANGED snapshots

\* finish_transaction: the acknowledgement goes to the tool, if it is there.
FinishTransaction(result) ==
    /\ owner' = None
    /\ tool' = IF tool[owner].waiting
               THEN [tool EXCEPT ![owner].waiting = FALSE, ![owner].answer = result]
               ELSE tool

\* transaction_owner_connected.
OwnerConnected == owner # None /\ tool[owner].waiting

-----------------------------------------------------------------------------
(***************************************************************************)
(* The lifecycle requests of X11 clients.                                  *)
(***************************************************************************)

Submitting(layout) == [bridge EXCEPT !.tx = "Policy", !.policy = layout]
SendingScene(layout) == [bridge EXCEPT !.tx = "Compositor", !.compositor = layout]

\* start_next with a request in the queue; send_policy needs an idle bridge.
StartNext(queue, b) ==
    IF b.ready /\ b.tx = "None"
    THEN /\ life' = [phase |-> "AwaitingPolicy", queue |-> queue - 1]
         /\ bridge' = [b EXCEPT !.tx = "Policy", !.policy = installed'.bridge]
         /\ UNCHANGED stopped
    ELSE /\ stopped' = TRUE
         /\ life' = [life EXCEPT !.queue = queue]
         /\ bridge' = b

\* enqueue_paused while a configuration is active or a frame is in flight,
\* enqueue otherwise.
ClientRequest ==
    /\ ~stopped /\ turn = "events"
    /\ requests < MaxRequests
    /\ requests' = requests + 1
    /\ woken' = TRUE
    /\ UNCHANGED <<tool, coord, owner, run, peerReset, installed, acked, turn, resets,
                   snapshots>>
    /\ IF Active \/ bridge.tx = "Content" \/ life.phase # "Idle"
       THEN /\ life' = [life EXCEPT !.queue = @ + 1]
            /\ UNCHANGED <<bridge, stopped>>
       ELSE StartNext(life.queue + 1, bridge)

-----------------------------------------------------------------------------
(***************************************************************************)
(* service_peer_readiness and service_peer_replay: the bridge's part of    *)
(* the turn.                                                               *)
(***************************************************************************)

ServeBridge ==
    /\ ~stopped /\ turn = "events"
    /\ turn' = "output"
    /\ woken' = FALSE
    /\ UNCHANGED <<tool, coord, owner, run, installed, requests, snapshots>>

\* Nothing from the peers, but something else woke the loop.
Woken ==
    /\ woken
    /\ ServeBridge
    /\ UNCHANGED <<peerReset, life, bridge, acked, resets, stopped>>

PolicyReplies(accepts) ==
    /\ bridge.ready /\ bridge.tx = "Policy"
    /\ ServeBridge
    /\ bridge' = [bridge EXCEPT !.tx = IF accepts THEN "PolicyReady" ELSE "PolicyRejected"]
    /\ acked' = IF accepts THEN [acked EXCEPT !["policy"] = bridge.policy] ELSE acked
    /\ UNCHANGED <<peerReset, life, resets, stopped>>

CompositorReplies(accepts) ==
    /\ bridge.ready /\ bridge.tx = "Compositor"
    /\ ServeBridge
    /\ bridge' = [bridge EXCEPT !.tx = IF accepts THEN "Complete" ELSE "CompositorRejected"]
    /\ acked' = IF accepts THEN [acked EXCEPT !["compositor"] = bridge.compositor] ELSE acked
    /\ UNCHANGED <<peerReset, life, resets, stopped>>

\* A content frame is answered; waiting lifecycle requests are resumed.
FrameAnswered ==
    /\ bridge.ready /\ bridge.tx = "Content"
    /\ ServeBridge
    /\ IF life.queue > 0 THEN StartNext(life.queue, [bridge EXCEPT !.tx = "None"])
       ELSE /\ bridge' = [bridge EXCEPT !.tx = "None"]
            /\ UNCHANGED <<life, stopped>>
    /\ UNCHANGED <<peerReset, acked, resets>>

\* A peer is lost.  The transaction in flight is kept for resubmission; a
\* compositor that is lost, or closed because gwm was lost during its
\* transaction, is a reset.
PeerLost(p) ==
    /\ bridge.ready /\ resets < MaxResets
    /\ ServeBridge
    /\ resets' = resets + 1
    /\ bridge' = [bridge EXCEPT !.ready = FALSE]
    /\ peerReset' = (peerReset \/ (/\ p = "compositor" \/ bridge.tx \in {"Compositor", "Content"}
                                   /\ Active))
    /\ UNCHANGED <<life, acked, stopped>>

\* The peers are back where they were, or the deadline has passed.
PeersRecover(succeeds) ==
    /\ ~bridge.ready
    /\ ServeBridge
    /\ bridge' = [bridge EXCEPT !.ready = succeeds]
    /\ stopped' = ~succeeds
    /\ UNCHANGED <<peerReset, life, acked, resets>>

-----------------------------------------------------------------------------
(***************************************************************************)
(* service_output_control_work, twice in a turn.                           *)
(***************************************************************************)

OutputTurn ==
    /\ ~stopped /\ turn \in {"output", "outputAgain"}
    /\ turn' = IF turn = "output" THEN "lifecycle" ELSE "content"
    /\ UNCHANGED <<woken, resets, requests, snapshots>>

Fatal ==
    /\ stopped' = TRUE
    /\ UNCHANGED <<tool, coord, owner, run, peerReset, installed, life, bridge, acked>>

\* finish_output_configuration, the bridge being left in state b: the
\* lifecycle requests that waited are resumed.
Finish(b) ==
    /\ run' = "Idle"
    /\ peerReset' = FALSE
    /\ IF life.phase = "Idle" /\ life.queue > 0 THEN StartNext(life.queue, b)
       ELSE /\ bridge' = b
            /\ UNCHANGED <<life, stopped>>

\* submit_output_policy.
SubmitPolicy(layout, stage) ==
    /\ bridge' = Submitting(layout)
    /\ run' = stage
    /\ UNCHANGED stopped

\* begin_output_rollback; the policy process gets the old layout back.
BeginRollback(result) ==
    /\ coord' = [coord EXCEPT !.stage = "RollbackPending", !.result = result]
    /\ SubmitPolicy(coord.committed, "RollingBackPolicy")
    /\ UNCHANGED <<tool, owner, peerReset, installed, life, acked>>

\* install_output_configuration: every part changes, or an allocation or a
\* bound fails and every part is what it was.
InstallOutcomes(layout) == {[p \in Parts |-> layout], installed}

\* Mutant: the second call of a turn does nothing.
NothingToDoYet ==
    /\ OutputTurn
    /\ \/ turn = "outputAgain"
       \/ run = "Idle" /\ ~Transaction
       \/ /\ run = "Idle" /\ Transaction /\ OwnerConnected
          /\ life.phase # "Idle" \/ bridge.tx # "None"
       \/ run \in {"AwaitingPolicy", "RollingBackPolicy"} /\ bridge.tx = "Policy"
       \/ run \in {"AwaitingCompositor", "RollingBackCompositor"} /\ bridge.tx = "Compositor"
    /\ UNCHANGED <<tool, coord, owner, run, peerReset, installed, life, bridge, acked,
                   stopped>>

NothingToDo ==
    /\ OutputTurn
    /\ \/ run = "Idle" /\ ~Transaction
       \/ /\ run = "Idle" /\ Transaction /\ OwnerConnected
          /\ life.phase # "Idle" \/ bridge.tx # "None"
       \/ run \in {"AwaitingPolicy", "RollingBackPolicy"} /\ bridge.tx = "Policy"
       \/ run \in {"AwaitingCompositor", "RollingBackCompositor"} /\ bridge.tx = "Compositor"
    /\ UNCHANGED <<tool, coord, owner, run, peerReset, installed, life, bridge, acked,
                   stopped>>

OwnerLeftBeforeStart ==
    /\ OutputTurn
    /\ run = "Idle" /\ Transaction /\ ~OwnerConnected
    /\ coord' = Cleared(coord.committed)
    /\ FinishTransaction("InternalError")
    /\ UNCHANGED <<installed, acked>>
    /\ Finish(bridge)

\* bridge_->submit_policy refuses while a peer is reconnecting.
StartConfiguration ==
    /\ OutputTurn
    /\ run = "Idle" /\ Transaction /\ OwnerConnected
    /\ life.phase = "Idle" /\ bridge.tx = "None"
    /\ IF bridge.ready
       THEN /\ SubmitPolicy(coord.proposed, "AwaitingPolicy")
            /\ UNCHANGED <<tool, coord, owner, peerReset, installed, life, acked>>
       ELSE Fatal

PolicyRefused ==
    /\ OutputTurn
    /\ run = "AwaitingPolicy" /\ bridge.tx = "PolicyRejected"
    /\ coord' = Cleared(coord.committed)
    /\ FinishTransaction("PolicyRejected")
    /\ UNCHANGED <<installed, acked>>
    /\ Finish([bridge EXCEPT !.tx = "None"])

\* A result that apply_policy_result cannot apply ends the server;
\* submit_output_compositor may fail in the presenter's preparation.
PolicyAgreed ==
    /\ OutputTurn
    /\ run = "AwaitingPolicy" /\ bridge.tx = "PolicyReady"
    /\ \/ Fatal
       \/ /\ ~OwnerConnected \/ peerReset
          /\ BeginRollback("CompositorRejected")
       \/ /\ OwnerConnected /\ ~peerReset
          /\ BeginRollback("PresenterRejected")
       \/ /\ OwnerConnected /\ ~peerReset
          /\ coord' = [coord EXCEPT !.stage = "CompositorPending"]
          /\ bridge' = SendingScene(coord.proposed)
          /\ run' = "AwaitingCompositor"
          /\ UNCHANGED <<tool, owner, peerReset, installed, life, acked, stopped>>

CompositorRefused ==
    /\ OutputTurn
    /\ run = "AwaitingCompositor" /\ bridge.tx = "CompositorRejected"
    /\ BeginRollback("CompositorRejected")

\* promote_output_configuration, the installation having left `layouts'.
Promote(layouts) ==
    IF layouts = installed THEN BeginRollback("PresenterRejected")
    ELSE /\ installed' = layouts
         /\ coord' = Cleared(coord.proposed)
         /\ FinishTransaction("Accepted")
         /\ UNCHANGED acked
         /\ Finish([bridge EXCEPT !.tx = "None"])

CompositorAgreed ==
    /\ OutputTurn
    /\ run = "AwaitingCompositor" /\ bridge.tx = "Complete"
    /\ \/ /\ ~OwnerConnected \/ peerReset
          /\ BeginRollback("CompositorRejected")
       \/ /\ OwnerConnected /\ ~peerReset
          /\ \E layouts \in InstallOutcomes(coord.proposed) : Promote(layouts)

\* Mutant: the scene that was never presented needs no rollback.
RollbackPolicyAgreedOnly ==
    /\ OutputTurn
    /\ run = "RollingBackPolicy" /\ bridge.tx = "PolicyReady"
    /\ coord' = Cleared(coord.committed)
    /\ FinishTransaction(coord.result)
    /\ UNCHANGED <<installed, acked>>
    /\ Finish([bridge EXCEPT !.tx = "None"])

\* The rollback has the policy's result, and submits the old scene; it ends
\* the server when it cannot apply the one or submit the other.
RollbackPolicyAgreed ==
    /\ OutputTurn
    /\ run = "RollingBackPolicy" /\ bridge.tx = "PolicyReady"
    /\ \/ Fatal
       \/ /\ bridge' = SendingScene(coord.committed)
          /\ run' = "RollingBackCompositor"
          /\ UNCHANGED <<tool, coord, owner, peerReset, installed, life, acked, stopped>>

\* A peer that refuses the old layout ends the server.
RollbackRefused ==
    /\ OutputTurn
    /\ \/ run = "RollingBackPolicy" /\ bridge.tx = "PolicyRejected"
       \/ run = "RollingBackCompositor" /\ bridge.tx = "CompositorRejected"
    /\ Fatal

RollbackDone ==
    /\ OutputTurn
    /\ run = "RollingBackCompositor" /\ bridge.tx = "Complete"
    /\ \/ Fatal
       \/ /\ installed' = [p \in Parts |-> coord.committed]
          /\ coord' = Cleared(coord.committed)
          /\ FinishTransaction(coord.result)
          /\ UNCHANGED acked
          /\ Finish([bridge EXCEPT !.tx = "None"])

-----------------------------------------------------------------------------
(***************************************************************************)
(* The rest of the turn.                                                   *)
(***************************************************************************)

\* service_lifecycle_work: a result that the configuration left is the
\* lifecycle's.  A refused request is finished like a committed one; the
\* rollbacks of the lifecycle are LifecycleCoordinator's subject.
LifecycleTurn ==
    /\ ~stopped /\ turn = "lifecycle"
    /\ turn' = "outputAgain"
    /\ UNCHANGED <<tool, coord, owner, run, peerReset, installed, acked, woken, resets,
                   requests, snapshots>>
    /\ \/ /\ bridge.tx = "PolicyReady" /\ life.phase = "AwaitingPolicy"
          /\ bridge' = SendingScene(installed.bridge)
          /\ life' = [life EXCEPT !.phase = "AwaitingCompositor"]
          /\ UNCHANGED stopped
       \/ /\ \/ bridge.tx = "PolicyRejected" /\ life.phase = "AwaitingPolicy"
             \/ bridge.tx \in {"Complete", "CompositorRejected"} /\ life.phase = "AwaitingCompositor"
          /\ IF life.queue > 0 THEN StartNext(life.queue, [bridge EXCEPT !.tx = "None"])
             ELSE /\ bridge' = [bridge EXCEPT !.tx = "None"]
                  /\ life' = [life EXCEPT !.phase = "Idle"]
                  /\ UNCHANGED stopped
       \/ /\ bridge.tx \in {"PolicyReady", "PolicyRejected", "Complete", "CompositorRejected"}
          /\ life.phase = "Idle"
          /\ stopped' = TRUE
          /\ UNCHANGED <<life, bridge>>
       \/ /\ bridge.tx \in {"None", "Policy", "Compositor", "Content"}
          /\ UNCHANGED <<life, bridge, stopped>>

\* submit_pending_content.
ContentTurn(damaged) ==
    /\ ~stopped /\ turn = "content"
    /\ turn' = "events"
    /\ bridge' = IF damaged /\ life.phase = "Idle" /\ bridge.tx = "None" /\ bridge.ready
                 THEN [bridge EXCEPT !.tx = "Content"] ELSE bridge
    /\ UNCHANGED <<tool, coord, owner, run, peerReset, installed, life, acked, woken, resets,
                   requests, snapshots, stopped>>

ServiceOutput ==
    \/ NothingToDo \/ OwnerLeftBeforeStart \/ StartConfiguration
    \/ PolicyRefused \/ PolicyAgreed \/ CompositorRefused \/ CompositorAgreed
    \/ RollbackPolicyAgreed \/ RollbackRefused \/ RollbackDone

Environment ==
    \/ \E t \in Tools :
          \/ AcceptPeer(t) \/ ToolLeaves(t) \/ ConsumeQuery(t)
          \/ \E s \in Snapshots : ConsumeSnapshot(t, s)
          \/ \E primary \in Outputs : ConsumeCommit(t, primary)
    \/ ClientRequest
    \/ \E p \in PeerNames : PeerLost(p)

PeersReply ==
    \/ \E accepts \in BOOLEAN : PolicyReplies(accepts) \/ CompositorReplies(accepts)
    \/ FrameAnswered
    \/ \E succeeds \in BOOLEAN : PeersRecover(succeeds)

Reactor == Woken \/ ServiceOutput \/ LifecycleTurn \/ \E damaged \in BOOLEAN : ContentTurn(damaged)

Next == Environment \/ PeersReply \/ Reactor

Spec == Init /\ [][Next]_vars

\* The loop runs, and a peer that was asked answers: poll is level triggered
\* and a turn serves whatever is readable, so other events cannot keep an
\* answer from being read (strong fairness, since each turn disables it).
FairSpec == Spec /\ WF_vars(Reactor) /\ SF_vars(PeersReply)

-----------------------------------------------------------------------------
TypeOK ==
    /\ tool \in [Tools -> [link : {"new", "up", "gone"}, staged : Snapshots \cup {None},
                           knows : 1..MaxGeneration, waiting : BOOLEAN,
                           answer : Results \cup {None}]]
    /\ coord.stage \in {"Idle", "PolicyPending", "CompositorPending", "RollbackPending"}
    /\ coord.committed \in Layouts /\ coord.proposed \in Layouts
    /\ owner \in Tools \cup {None}
    /\ run \in {"Idle", "AwaitingPolicy", "AwaitingCompositor", "RollingBackPolicy",
                "RollingBackCompositor"}
    /\ installed \in [Parts -> Layouts]
    /\ acked \in [PeerNames -> Layouts]
    /\ life.phase \in {"Idle", "AwaitingPolicy", "AwaitingCompositor"}

\* Whenever no configuration is being applied, the coordinator, the four
\* parts of the server and both peers agree on one layout, and a lifecycle
\* transaction never runs beside a configuration: a refusal, a lost peer or
\* a tool that leaves at any point of the two-phase exchange leaves no
\* authority behind on the other layout.
AuthoritiesAgree ==
    /\ TypeOK
    /\ ~stopped /\ run = "Idle" =>
          /\ \A p \in Parts : installed[p] = coord.committed
          /\ \A p \in PeerNames : acked[p] = coord.committed
    /\ ~stopped /\ run # "Idle" => life.phase = "Idle"

\* A tool is told Accepted exactly when the layout that it proposed, based
\* on the generation it had seen, has become the layout of the server and
\* of both peers; every other answer leaves the committed layout alone.
AcceptedMeansApplied ==
    [][\A t \in Tools :
          tool[t].waiting /\ tool'[t].link = "up" /\ ~tool'[t].waiting =>
             IF tool'[t].answer = "Accepted"
             THEN /\ coord'.committed = coord.proposed
                  /\ coord'.committed.generation = tool[t].knows + 1
                  /\ \A p \in Parts : installed'[p] = coord.proposed
                  /\ \A p \in PeerNames : acked'[p] = coord.proposed
             ELSE coord'.committed = coord.committed]_vars

\* A commit that was taken is finished, by its answer or because its tool
\* has left, or the server has stopped: work that is left for a later turn
\* is woken by an event.
EveryCommitIsFinished == (owner # None) ~> (owner = None \/ stopped)

\* "Disconnecting the submitting tool does not corrupt an already submitted
\* transaction": with both peers there and no transaction of its own on the
\* way, the configuration does not stop the server.
LeavingToolIsHarmless ==
    [][~stopped /\ stopped' /\ bridge.ready => run # "Idle"]_vars
=============================================================================
