------------------------ MODULE LifecycleCoordinator ------------------------
(***************************************************************************)
(* glasswyrmd's lifecycle coordinator (lifecycle_coordinator.cpp) with the *)
(* callbacks the server runtime gives it (lifecycle_runtime.cpp).          *)
(*                                                                         *)
(* Every change of a top-level window is one operation.  Operations wait   *)
(* in a queue; the one at its head is rebased on the committed snapshot,   *)
(* evaluated by the window manager, presented by the compositor and only   *)
(* then committed to the server's resources.  A refusal, or the departure  *)
(* of the client that asked, rolls both peers back to the committed        *)
(* snapshot.  A content or cursor frame and an output reconfiguration      *)
(* share the peers with the coordinator: while one is under way operations *)
(* are queued paused, and most of the ways in which it can end resume them.*)
(*                                                                         *)
(* A peer that is lost is the bridge's business: it brings both peers back *)
(* to their acknowledged state and submits the request in flight again     *)
(* (RuntimeBridge).  The coordinator's own peer_disconnected and           *)
(* peer_synchronized are called by no part of the server.                  *)
(***************************************************************************)
EXTENDS LifecycleSnapshot

CONSTANTS
    EnabledKinds,     \* the kinds of operation that a run exercises
    InitialWindows,   \* the top-level windows that exist at the start
    MaxPending,       \* the coordinator's maximum_pending
    MaxRestarts,      \* bound on peer disconnections
    HasCursor,        \* whether the server has a cursor presenter
    FaultySends       \* whether handing a request to a peer may fail

ASSUME CoordinatorAssumption ==
    /\ EnabledKinds \subseteq Kinds
    /\ InitialWindows \subseteq Windows
    /\ MaxPending \in Nat \ {0}
    /\ MaxRestarts \in Nat
    /\ HasCursor \in BOOLEAN
    /\ FaultySends \in BOOLEAN

VARIABLES
    committed,        \* committed_
    evaluated,        \* evaluated_
    queue,            \* queue_
    active,           \* active_
    phase,            \* phase_
    wire,             \* the request the awaited peer has not answered yet
    policyView,       \* windows of the snapshot the policy peer accepted last
    compositorView,   \* snapshot the compositor peer accepted last
    unapplied,        \* history: policyView is an answer that the server
                      \* could not apply, and so never rolled back
    resources,        \* top-level windows of the ResourceTable
    children,         \* the number of subwindows of each of them
    connected,        \* clients whose connection is open
    blocked,          \* token each client's dispatch waits for, 0 if none
    outcome,          \* what has become of each token
    nextToken,        \* next_lifecycle_token_
    foreign,          \* the frame or output transaction that has the peers
    configuring,      \* output_configuration_active()
    replayAttempted,  \* cursor_replay_attempted_
    dropped,          \* history: how the cursor frame ended that has left
                      \* operations in the queue without resuming them
    ready,            \* the bridge has both peers in step
    restarts,         \* peer disconnections so far
    stopped           \* the server stops

vars == <<committed, evaluated, queue, active, phase, wire, policyView,
          compositorView, unapplied, resources, children, connected, blocked,
          outcome, nextToken, foreign, configuring, replayAttempted, dropped,
          ready, restarts, stopped>>

\* What the coordinator itself never changes.
others == <<foreign, configuring, replayAttempted, ready, restarts>>

Phases == {"Idle", "AwaitingPolicy", "AwaitingCompositor", "RollingBackPolicy",
           "RollingBackCompositor", "Fatal"}

PeerPhases == {"AwaitingPolicy", "AwaitingCompositor", "RollingBackPolicy",
               "RollingBackCompositor"}

Outcomes == {"unused", "pending", "done", "failed", "refused"}

RequestToPeer == [peer : {"none", "policy", "compositor"}, snapshot : Snapshot]
NoRequest == [peer |-> "none", snapshot |-> EmptySnapshot]
PolicyRequest(s) == [peer |-> "policy", snapshot |-> s]
CompositorRequest(s) == [peer |-> "compositor", snapshot |-> s]

\* "replay" is a content transaction that the bridge submits again after the
\* loss of a peer, and that the content presenter has forgotten.
ForeignUsers == {"none", "content", "replay", "cursor", "output"}

SendResults == IF FaultySends THEN BOOLEAN ELSE {TRUE}

\* The bridge takes no request while it reconnects a peer, or while a frame
\* or an output transaction has the peers.
Handed == IF ready /\ foreign = "none" THEN SendResults ELSE {FALSE}

Init ==
    /\ committed = [windows |-> [w \in Windows |-> IF w \in InitialWindows
                                                   THEN [a \in Attrs |-> 0]
                                                   ELSE Absent],
                    focus   |-> Root]
    /\ evaluated = EmptySnapshot
    /\ queue = <<>>
    /\ active = NoOp
    /\ phase = "Idle"
    /\ wire = NoRequest
    /\ policyView = committed.windows
    /\ compositorView = committed
    /\ unapplied = FALSE
    /\ resources = InitialWindows
    /\ children = [w \in Windows |-> 0]
    /\ connected = Clients
    /\ blocked = [c \in Clients |-> 0]
    /\ outcome = [t \in Tokens |-> "unused"]
    /\ nextToken = 1
    /\ foreign = "none"
    /\ configuring = FALSE
    /\ replayAttempted = FALSE
    /\ dropped = "none"
    /\ ready = TRUE
    /\ restarts = 0
    /\ stopped = FALSE

-----------------------------------------------------------------------------
(***************************************************************************)
(* The coordinator's private steps.                                        *)
(***************************************************************************)

PendingCount == Len(queue) + IF active = NoOp THEN 0 ELSE 1

\* Hand a request to a peer; fatal() when the callback refuses it.
Send(nextPhase, request, sent) ==
    /\ phase' = IF sent THEN nextPhase ELSE "Fatal"
    /\ wire' = IF sent THEN request ELSE NoRequest
    /\ stopped' = ~sent

\* finish() completes every operation at the head of the queue that was
\* canceled, or that start_next() finds cannot be rebased.  start_next(),
\* called on its own, does not look at the canceled flag of the first one.
Skipped(s, op, first) == \/ op.canceled /\ ~first
                         \/ ~Rebasable(s, op)

\* start_next() on queue q and committed snapshot s, with everything that
\* finish() does when it is called back from it.
StartNext(q, s, results, sent, direct) ==
    \E n \in 0..Len(q) :
        /\ \A i \in 1..n : Skipped(s, q[i], direct /\ i = 1)
        /\ n < Len(q) => ~Skipped(s, q[n + 1], direct /\ n = 0)
        /\ outcome' = [t \in Tokens |->
                         IF \E i \in 1..n : q[i].token = t THEN "failed"
                                                           ELSE results[t]]
        /\ queue' = SubSeq(q, n + 2, Len(q))
        /\ dropped' = "none"
        /\ IF n = Len(q)
           THEN /\ active' = NoOp
                /\ phase' = "Idle"
                /\ wire' = NoRequest
                /\ stopped' = FALSE
           ELSE LET rebased == Rebase(s, q[n + 1])
                IN /\ active' = [q[n + 1] EXCEPT !.proposed = rebased]
                   /\ Send("AwaitingPolicy", PolicyRequest(rebased), sent)

\* complete_lifecycle: a client waits no longer for a completed token.
Unblock == blocked' = [c \in Clients |->
                         IF blocked[c] \in Tokens /\ outcome'[blocked[c]] # "pending"
                         THEN 0 ELSE blocked[c]]

\* Mutant: the operation ends, and the next one is left in the queue.
FinishWithoutNext(s, result, sent) ==
    /\ outcome' = [outcome EXCEPT ![active.token] = result]
    /\ active' = NoOp
    /\ phase' = "Idle"
    /\ wire' = NoRequest
    /\ stopped' = FALSE
    /\ evaluated' = EmptySnapshot
    /\ Unblock
    /\ UNCHANGED <<queue, dropped>>

\* Mutant: success is always reported.
FinishAsDone(s, result, sent) ==
    /\ StartNext(queue, s, [outcome EXCEPT ![active.token] = "done"], sent, FALSE)
    /\ evaluated' = EmptySnapshot
    /\ Unblock

\* finish(): the active operation ends, and the next one starts.
Finish(s, result, sent) ==
    /\ StartNext(queue, s, [outcome EXCEPT ![active.token] = result], sent, FALSE)
    /\ evaluated' = EmptySnapshot
    /\ Unblock

\* Mutant: the compositor is rolled back before the policy.
BeginRollbackAtCompositor(sent) ==
    /\ Send("RollingBackCompositor", CompositorRequest(committed), sent)
    /\ UNCHANGED <<committed, queue, active, resources, children, blocked, outcome,
                   dropped>>

\* prepare_rollback and the policy request with which a rollback begins.
BeginRollback(sent) ==
    /\ Send("RollingBackPolicy", PolicyRequest(committed), sent)
    /\ UNCHANGED <<committed, queue, active, resources, children, blocked, outcome,
                   dropped>>

\* Whether an operation is put in the queue paused (enqueue_paused): an
\* output configuration is active, the content presenter has a frame in
\* flight or, beside a cursor presenter, the bridge is busy.  A focus change
\* of real input looks at the bridge in any case.
Parked(kind) == \/ configuring
                \/ foreign \in {"content", "cursor", "output"}
                \/ foreign = "replay" /\ (HasCursor \/ kind = "Focus")

\* Put an operation in the queue; start it when nothing else is going on.
Enqueue(q, kind, results, sent) ==
    IF phase = "Idle" /\ ~Parked(kind)
    THEN StartNext(q, committed, results, sent, TRUE)
    ELSE /\ queue' = q
         /\ outcome' = results
         /\ UNCHANGED <<active, phase, wire, dropped, stopped>>

-----------------------------------------------------------------------------
(***************************************************************************)
(* Requests: defer_lifecycle and the server's own focus, interactive       *)
(* geometry and close operations.                                          *)
(***************************************************************************)

InternalKinds == {"Focus", "Configure", "Destroy"}
ClientKinds == Kinds \ {"Focus", "ClientCleanup"}

\* The windows a request may name, by the checks of the request handlers: an
\* unused XID of the client's range for Create, else a policy candidate; only
\* PolicyChange, and the server's own geometry and close operations, do not
\* look at cleanup_pending.
Requestable(c, kind, w) ==
    IF kind = "Create"
    THEN Owner[w] = c /\ w \notin resources
    ELSE /\ w \in resources
         /\ \/ Owner[w] \in connected
            \/ kind = "PolicyChange"
            \/ c = Internal /\ kind \in {"Configure", "Destroy"}

Requester(c, kind) ==
    \/ c \in connected /\ blocked[c] = 0 /\ kind \in ClientKinds
    \/ c = Internal /\ kind \in InternalKinds

Request(c, kind, w, touched, sent) ==
    LET op == [token |-> nextToken, client |-> c, kind |-> kind, window |-> w,
               targets |-> {}, subtree |-> children[w], canceled |-> FALSE,
               proposed |-> Propose(committed, kind, w, touched, nextToken)]
        results == [outcome EXCEPT ![nextToken] = "pending"]
    IN /\ ~stopped
       /\ nextToken \in Tokens
       /\ kind \in EnabledKinds
       /\ Requester(c, kind)
       /\ Requestable(c, kind, w)
       /\ nextToken' = nextToken + 1
       /\ IF PendingCount >= MaxPending
          THEN /\ outcome' = [outcome EXCEPT ![nextToken] = "refused"]
               /\ UNCHANGED <<queue, active, phase, wire, dropped, stopped, blocked>>
          ELSE /\ Enqueue(Append(queue, op), kind, results, sent)
               /\ blocked' = IF c = Internal THEN blocked
                             ELSE [blocked EXCEPT ![c] = nextToken]
       /\ UNCHANGED <<committed, evaluated, policyView, compositorView, unapplied,
                      resources, children, connected, others>>

\* CreateWindow and DestroyWindow of a subwindow are executed at once.
CreateChild(c, w) ==
    /\ ~stopped
    /\ c \in connected /\ blocked[c] = 0
    /\ w \in resources /\ Owner[w] \in connected
    /\ children[w] < MaxChildren
    /\ children' = [children EXCEPT ![w] = @ + 1]
    /\ UNCHANGED <<committed, evaluated, queue, active, phase, wire, policyView,
                   compositorView, unapplied, resources, connected, blocked,
                   outcome, nextToken, dropped, stopped, others>>

DestroyChild(c, w) ==
    /\ ~stopped
    /\ c \in connected /\ blocked[c] = 0
    /\ w \in resources /\ Owner[w] \in connected
    /\ children[w] > 0
    /\ children' = [children EXCEPT ![w] = @ - 1]
    /\ UNCHANGED <<committed, evaluated, queue, active, phase, wire, policyView,
                   compositorView, unapplied, resources, connected, blocked,
                   outcome, nextToken, dropped, stopped, others>>

\* cancel_client
Canceled(op, c) == IF op.client = c THEN [op EXCEPT !.canceled = TRUE] ELSE op

\* cancel_client_lifecycle: cancel what the client has pending, and put the
\* removal of its top-level windows at the head of the queue.
Disconnect(c, sent) ==
    LET targets == {w \in resources : Owner[w] = c}
        canceled == [i \in 1..Len(queue) |-> Canceled(queue[i], c)]
        canceledActive == IF active = NoOp THEN NoOp ELSE Canceled(active, c)
        cleanup == [token |-> nextToken, client |-> c, kind |-> "ClientCleanup",
                    window |-> CHOOSE w \in targets : TRUE, targets |-> targets,
                    subtree |-> 0, proposed |-> Remove(committed, targets),
                    canceled |-> FALSE]
    IN /\ ~stopped
       /\ c \in connected
       /\ connected' = connected \ {c}
       /\ blocked' = [blocked EXCEPT ![c] = 0]
       /\ IF targets = {}
          THEN /\ queue' = canceled
               /\ active' = canceledActive
               /\ UNCHANGED <<phase, wire, outcome, nextToken, dropped, stopped>>
          ELSE /\ nextToken \in Tokens
               /\ nextToken' = nextToken + 1
               /\ IF PendingCount >= MaxPending
                  THEN /\ queue' = canceled
                       /\ active' = canceledActive
                       /\ outcome' = [outcome EXCEPT ![nextToken] = "refused"]
                       /\ stopped' = TRUE
                       /\ UNCHANGED <<phase, wire, dropped>>
                  ELSE IF phase = "Idle" /\ ~Parked("ClientCleanup")
                  THEN StartNext(<<cleanup>> \o canceled, committed,
                                 [outcome EXCEPT ![nextToken] = "pending"], sent, TRUE)
                  ELSE /\ queue' = <<cleanup>> \o canceled
                       /\ active' = canceledActive
                       /\ outcome' = [outcome EXCEPT ![nextToken] = "pending"]
                       /\ UNCHANGED <<phase, wire, dropped, stopped>>
       /\ UNCHANGED <<committed, evaluated, policyView, compositorView, unapplied,
                      resources, children, others>>

-----------------------------------------------------------------------------
(***************************************************************************)
(* Answers of the peers.                                                   *)
(***************************************************************************)

\* A request in flight is answered while the bridge has both peers; it waits
\* at the bridge while one of them is reconnected.
Awaits(peer) == ~stopped /\ ready /\ active # NoOp /\ wire.peer = peer

\* policy_accepted
PolicyAccepted(sent) ==
    /\ Awaits("policy")
    /\ policyView' = wire.snapshot.windows
    /\ unapplied' = FALSE
    /\ \/ /\ phase = "RollingBackPolicy"
          /\ Send("RollingBackCompositor", CompositorRequest(committed), sent)
          /\ UNCHANGED <<committed, evaluated, queue, active, resources, children,
                         blocked, outcome, dropped>>
       \/ /\ phase = "AwaitingPolicy"
          /\ \E e \in Evaluations(active.proposed) :
                /\ evaluated' = e
                /\ IF active.canceled
                   THEN BeginRollback(sent)
                   ELSE /\ Send("AwaitingCompositor", CompositorRequest(e), sent)
                        /\ UNCHANGED <<committed, queue, active, resources,
                                       children, blocked, outcome, dropped>>
    /\ UNCHANGED <<compositorView, connected, nextToken, others>>

\* policy_rejected: a refused operation fails, a refused rollback ends the
\* server.
FailAtPolicy(sent) ==
    /\ IF phase = "AwaitingPolicy"
       THEN Finish(committed, "failed", sent)
       ELSE /\ stopped' = TRUE
            /\ UNCHANGED <<evaluated, queue, active, phase, wire, blocked, outcome,
                           dropped>>
    /\ UNCHANGED <<committed, compositorView, resources, children, connected,
                   nextToken, others>>

PolicyRejected(sent) ==
    /\ Awaits("policy")
    /\ FailAtPolicy(sent)
    /\ UNCHANGED <<policyView, unapplied>>

\* The policy accepted and keeps the proposal, but apply_policy_result cannot
\* use its answer: the coordinator is told that the policy refused.
PolicyUnusable(sent) ==
    /\ Awaits("policy")
    /\ policyView' = wire.snapshot.windows
    /\ unapplied' = TRUE
    /\ FailAtPolicy(sent)

\* The resource table after the mutation of an operation.
Staged(op) ==
    CASE op.kind = "Create"        -> resources \cup {op.window}
      [] op.kind = "Destroy"       -> resources \ {op.window}
      [] op.kind = "ClientCleanup" -> resources \ op.targets
      [] OTHER                     -> resources

\* commit_lifecycle succeeds when the mutation can still be executed (a
\* destroy plan is refused when the subtree has changed since it was made)
\* and the result has exactly the windows of the evaluated snapshot.
CommitSucceeds(op, e) ==
    /\ op.kind = "Create" => op.window \notin resources
    /\ op.kind = "Destroy" => op.window \in resources /\ children[op.window] = op.subtree
    /\ Staged(op) = Existing(e)

\* compositor_accepted
CompositorAccepted(sent) ==
    /\ Awaits("compositor")
    /\ compositorView' = wire.snapshot
    /\ \/ /\ phase = "AwaitingCompositor" /\ active.canceled
          /\ BeginRollback(sent)
          /\ UNCHANGED evaluated
       \/ /\ phase = "AwaitingCompositor" /\ ~active.canceled
          /\ CommitSucceeds(active, evaluated)
          /\ resources' = Staged(active)
          /\ children' = [w \in Windows |-> IF w \in Staged(active)
                                            THEN children[w] ELSE 0]
          /\ committed' = evaluated
          /\ Finish(evaluated, "done", sent)
       \/ /\ phase = "AwaitingCompositor" /\ ~active.canceled
          /\ ~CommitSucceeds(active, evaluated)
          /\ phase' = "Fatal"
          /\ wire' = NoRequest
          /\ stopped' = TRUE
          /\ UNCHANGED <<committed, evaluated, queue, active, resources, children,
                         blocked, outcome, dropped>>
       \/ /\ phase = "RollingBackCompositor"
          /\ Finish(committed, "failed", sent)
          /\ UNCHANGED <<committed, resources, children>>
    /\ UNCHANGED <<policyView, unapplied, connected, nextToken, others>>

\* Mutant: a refusal by the compositor ends the operation without a rollback.
CompositorRejectedAtOnce(sent) ==
    /\ Awaits("compositor")
    /\ Finish(committed, "failed", sent)
    /\ UNCHANGED <<committed, policyView, compositorView, unapplied, resources,
                   children, connected, nextToken, others>>

\* compositor_rejected; a refused rollback ends the server.
CompositorRejected(sent) ==
    /\ Awaits("compositor")
    /\ IF phase = "AwaitingCompositor"
       THEN BeginRollback(sent)
       ELSE /\ stopped' = TRUE
            /\ UNCHANGED <<committed, queue, active, phase, wire, resources, children,
                           blocked, outcome, dropped>>
    /\ UNCHANGED <<evaluated, policyView, compositorView, unapplied, connected,
                   nextToken, others>>

-----------------------------------------------------------------------------
(***************************************************************************)
(* The loss of a peer, and the other users of the peers.                   *)
(***************************************************************************)

\* What the coordinator and its callbacks keep: all but the fate of the
\* frame, of the output configuration and of the peers.
coordination == <<committed, evaluated, queue, active, phase, wire, policyView,
                  compositorView, unapplied, resources, children, connected,
                  blocked, outcome, nextToken>>

\* The bridge loses a peer.  A cursor frame in flight is forgotten, and
\* nothing is resumed in its place (forget_cursor_replay); the content
\* presenter forgets its frame too, but the bridge submits that one again.
PeerLost ==
    /\ ~stopped /\ ready
    /\ restarts < MaxRestarts
    /\ restarts' = restarts + 1
    /\ ready' = FALSE
    /\ foreign' = CASE foreign = "cursor"  -> "none"
                    [] foreign = "content" -> "replay"
                    [] OTHER               -> foreign
    /\ dropped' = IF foreign = "cursor" /\ queue # <<>> THEN "reset" ELSE dropped
    /\ UNCHANGED <<coordination, configuring, replayAttempted, stopped>>

PeerBack ==
    /\ ~stopped /\ ~ready
    /\ ready' = TRUE
    /\ UNCHANGED <<coordination, foreign, configuring, replayAttempted, dropped,
                   restarts, stopped>>

\* The bridge's deadline for a reconnect passes.
Deadline ==
    /\ ~stopped /\ ~ready
    /\ stopped' = TRUE
    /\ UNCHANGED <<coordination, dropped, others>>

\* A content or cursor frame is submitted when the coordinator and the bridge
\* are idle and no output configuration waits for them.
BeginFrame(user) ==
    /\ ~stopped /\ ready
    /\ phase = "Idle" /\ foreign = "none" /\ ~configuring
    /\ user = "cursor" => HasCursor
    /\ foreign' = user
    /\ UNCHANGED <<coordination, configuring, replayAttempted, dropped, ready,
                   restarts, stopped>>

\* Mutant: the end of the frame does not resume the coordinator.
FrameAcceptedWithoutResume(sent) ==
    /\ ~stopped /\ ready
    /\ foreign \in {"content", "replay", "cursor"}
    /\ foreign' = "none"
    /\ replayAttempted' = (replayAttempted /\ foreign # "cursor")
    /\ UNCHANGED <<coordination, configuring, dropped, ready, restarts, stopped>>

\* The frame is accepted, a content frame perhaps only after a full replay:
\* resume() starts what was queued meanwhile.
FrameAccepted(sent) ==
    /\ ~stopped /\ ready
    /\ foreign \in {"content", "replay", "cursor"}
    /\ foreign' = "none"
    /\ replayAttempted' = (replayAttempted /\ foreign # "cursor")
    /\ StartNext(queue, committed, outcome, sent, TRUE)
    /\ Unblock
    /\ UNCHANGED <<committed, evaluated, policyView, compositorView, unapplied,
                   resources, children, connected, nextToken, configuring, ready,
                   restarts>>

\* A refused cursor frame is to be sent once more, but only if there is still
\* a change to show (needs_update); nothing is resumed.
CursorRefused ==
    /\ ~stopped /\ ready
    /\ foreign = "cursor" /\ ~replayAttempted
    /\ foreign' = "none"
    /\ replayAttempted' = TRUE
    /\ dropped' = IF queue # <<>> THEN "refused" ELSE dropped
    /\ UNCHANGED <<coordination, configuring, ready, restarts, stopped>>

\* A second cursor frame is refused, or a content replay, or the rollback of
\* an output configuration.
ForeignFails ==
    /\ ~stopped /\ ready
    /\ \/ foreign \in {"content", "replay", "output"}
       \/ foreign = "cursor" /\ replayAttempted
    /\ stopped' = TRUE
    /\ UNCHANGED <<coordination, dropped, others>>

\* An output tool's configuration is accepted for processing.
Configure ==
    /\ ~stopped /\ ~configuring
    /\ configuring' = TRUE
    /\ UNCHANGED <<coordination, foreign, replayAttempted, dropped, ready, restarts,
                   stopped>>

\* It is submitted when nothing else is under way; the server stops when the
\* bridge does not take it.
BeginOutput ==
    /\ ~stopped /\ configuring
    /\ phase = "Idle" /\ foreign = "none"
    /\ IF ready THEN foreign' = "output" /\ UNCHANGED stopped
                ELSE stopped' = TRUE /\ UNCHANGED foreign
    /\ UNCHANGED <<coordination, configuring, replayAttempted, dropped, ready, restarts>>

\* Its tool leaves before that: finish_output_configuration resumes an idle
\* coordinator, without a look at the frame that may be in flight.
LeaveTool(sent) ==
    /\ ~stopped /\ configuring /\ foreign # "output"
    /\ configuring' = FALSE
    /\ IF phase = "Idle" /\ queue # <<>>
       THEN StartNext(queue, committed, outcome, sent, TRUE) /\ Unblock
       ELSE UNCHANGED <<queue, active, phase, wire, blocked, outcome, dropped, stopped>>
    /\ UNCHANGED <<committed, evaluated, policyView, compositorView, unapplied,
                   resources, children, connected, nextToken, foreign,
                   replayAttempted, ready, restarts>>

\* It ends: refused by the policy at once, or with both peers on the new
\* evaluation (replace_committed) or back on the old one.
OutputEnds(sent) ==
    /\ ~stopped /\ ready
    /\ foreign = "output"
    /\ foreign' = "none"
    /\ configuring' = FALSE
    /\ \/ UNCHANGED <<committed, policyView, compositorView, unapplied>>
       \/ /\ committed' \in Evaluations(committed)
          /\ compositorView' = committed'
          /\ policyView' = committed.windows
          /\ unapplied' = FALSE
    /\ StartNext(queue, committed', outcome, sent, TRUE)
    /\ Unblock
    /\ UNCHANGED <<evaluated, resources, children, connected, nextToken,
                   replayAttempted, ready, restarts>>

-----------------------------------------------------------------------------
Next ==
    \/ \E c \in Clients \cup {Internal}, kind \in Kinds, w \in Windows, sent \in Handed :
          \E touched \in Touches(kind) : Request(c, kind, w, touched, sent)
    \/ \E c \in Clients, w \in Windows : CreateChild(c, w) \/ DestroyChild(c, w)
    \/ \E c \in Clients, sent \in Handed : Disconnect(c, sent)
    \/ \E sent \in SendResults : PolicyAccepted(sent)
    \/ \E sent \in SendResults : PolicyRejected(sent)
    \/ \E sent \in SendResults : PolicyUnusable(sent)
    \/ \E sent \in SendResults : CompositorAccepted(sent)
    \/ \E sent \in SendResults : CompositorRejected(sent)
    \/ PeerLost
    \/ PeerBack
    \/ Deadline
    \/ \E user \in {"content", "cursor"} : BeginFrame(user)
    \/ \E sent \in SendResults : FrameAccepted(sent)
    \/ CursorRefused
    \/ ForeignFails
    \/ Configure
    \/ BeginOutput
    \/ \E sent \in Handed : LeaveTool(sent)
    \/ \E sent \in SendResults : OutputEnds(sent)

Spec == Init /\ [][Next]_vars

(***************************************************************************)
(* A peer that is connected answers, a lost peer is reconnected or the     *)
(* bridge's deadline stops the server, and a frame ends: the poll loop     *)
(* services each of them on every turn, and submits a waiting output       *)
(* configuration and a cursor frame that was forgotten with its peer       *)
(* (peer_disconnected makes needs_update true) when nothing else is under  *)
(* way.                                                                    *)
(***************************************************************************)
PolicyAnswers ==
    \E sent \in SendResults :
        PolicyAccepted(sent) \/ PolicyRejected(sent) \/ PolicyUnusable(sent)
CompositorAnswers ==
    \E sent \in SendResults : CompositorAccepted(sent) \/ CompositorRejected(sent)
ForeignEnds ==
    \/ \E sent \in SendResults : FrameAccepted(sent) \/ OutputEnds(sent)
    \/ CursorRefused
    \/ ForeignFails

Fairness ==
    /\ WF_vars(PolicyAnswers)
    /\ WF_vars(CompositorAnswers)
    /\ WF_vars(PeerBack \/ Deadline)
    /\ WF_vars(ForeignEnds)
    /\ WF_vars(BeginOutput \/ \E sent \in Handed : LeaveTool(sent))
    /\ WF_vars(dropped = "reset" /\ BeginFrame("cursor"))

FairSpec == Spec /\ Fairness

-----------------------------------------------------------------------------
(***************************************************************************)
(* Properties.                                                             *)
(***************************************************************************)

\* The type of every variable of the coordinator and of its callbacks' state.
TypeOK ==
    /\ committed \in Snapshot
    /\ evaluated \in Snapshot
    /\ queue \in Seq(Operation)
    /\ active \in Operation \cup {NoOp}
    /\ phase \in Phases
    /\ wire \in RequestToPeer
    /\ policyView \in [Windows -> Intent \cup {Absent}]
    /\ compositorView \in Snapshot
    /\ unapplied \in BOOLEAN
    /\ resources \in SUBSET Windows
    /\ children \in [Windows -> 0..MaxChildren]
    /\ connected \in SUBSET Clients
    /\ blocked \in [Clients -> Serials]
    /\ outcome \in [Tokens -> Outcomes]
    /\ nextToken \in 1..(MaxToken + 1)
    /\ foreign \in ForeignUsers
    /\ configuring \in BOOLEAN
    /\ replayAttempted \in BOOLEAN
    /\ dropped \in {"none", "refused", "reset"}
    /\ ready \in BOOLEAN
    /\ restarts \in 0..MaxRestarts
    /\ stopped \in BOOLEAN

\* The window set of the server's resource table is always that of the
\* committed snapshot, and whenever the coordinator is idle the compositor
\* holds exactly the committed state and so does the policy, unless its last
\* answer was one that the server could not apply: every rejected or canceled
\* operation has been undone everywhere (compositor_rejected, RollingBack*
\* phases).
PeersAgree ==
    /\ resources = Existing(committed)
    /\ phase = "Idle" => /\ compositorView = committed
                         /\ policyView = committed.windows \/ unapplied

\* The compositor is never asked to present window state that the policy
\* has not accepted first, in a rollback and across reconnects too:
\* send_compositor is only ever reached through policy_accepted.
PolicyPrecedesPresentation ==
    wire.peer = "compositor" => wire.snapshot.windows = policyView

\* Nothing waits in the queue while no transaction could wake it up again: an
\* operation is left there only behind an active one, a frame in flight or an
\* output configuration, or after a cursor frame that was refused or lost
\* with its peer, whose end does not resume the coordinator.
NoStrandedOperation ==
    ~stopped /\ phase = "Idle" /\ foreign = "none" /\ queue # <<>> =>
        configuring \/ dropped # "none"

\* Without the exception: the end of a cursor frame always leaves the queue to
\* something that is under way.  The code does not keep this: a refused cursor
\* frame that is not sent again resumes nothing (service_input_session_work).
EveryFrameResumes ==
    ~stopped /\ phase = "Idle" /\ foreign = "none" /\ queue # <<>> => configuring

Atomic == INSTANCE AtomicLifecycle WITH current <- active

\* The coordinator implements the atomic specification of window state: seen
\* from the resources, an operation takes effect as a whole at its commit, on
\* the state of that moment, or not at all (commit_lifecycle and finish).
ImplementsAtomic == Atomic!Spec

\* Every operation is eventually completed, unless the server stops or a
\* refused cursor frame has left it behind and nothing ever comes after it:
\* neither a request nor a frame (finish, resume and the bridge's recovery).
EveryOperationCompletes ==
    \A t \in Tokens : outcome[t] = "pending" ~>
        (outcome[t] # "pending" \/ stopped \/ [](dropped = "refused"))

\* When a queued operation is started, its rebased proposal still carries
\* every field group that the operation itself requested, with one exception:
\* of an interactive press the rebase keeps the focus and loses the raise, for
\* it does not copy the stack group of a Focus operation (start_next, rebase
\* callback).
RebaseKeepsOwnRequest ==
    [][active' # NoOp /\ active' # active =>
         \A i \in 1..Len(queue) :
            queue[i].token = active'.token /\ queue[i].kind # "ClientCleanup" =>
               \A a \in Attrs :
                  LET w == queue[i].window IN
                  /\ w \in Existing(queue[i].proposed)
                  /\ queue[i].proposed.windows[w][a] = queue[i].token
                  /\ ~(queue[i].kind = "Focus" /\ a = "stack")
                  => active'.proposed.windows[w][a] = queue[i].token]_vars

\* What both peers have accepted can be committed.  The code does not keep
\* this: a client's cleanup or a change of a subtree may come between the
\* request and its commit (commit_lifecycle).
AcceptedCanBeCommitted ==
    phase = "AwaitingCompositor" /\ ~active.canceled => CommitSucceeds(active, evaluated)

\* A newer request recorded in the committed snapshot is never replaced by an
\* older one while the window lives (rebase preserves unrelated intent).
IntentNeverReverts ==
    [][\A w \in Existing(committed) : w \in Existing(committed)' =>
          \A a \in Attrs : committed'.windows[w][a] >= committed.windows[w][a]]_vars
=============================================================================
