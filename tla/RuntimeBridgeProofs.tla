------------------------ MODULE RuntimeBridgeProofs ------------------------
(***************************************************************************)
(* Proofs about the bridge: through any number of lost connections, for    *)
(* either start-up order, a reply is only ever taken for the answer to the *)
(* one transaction in flight, no transaction is lost or reported twice,    *)
(* and a reported success is an acknowledgement of that very submission.   *)
(* Whenever the bridge is ready each process holds what it acknowledged    *)
(* last, but for a compositor that the output model's scene flag passed    *)
(* over.                                                                   *)
(***************************************************************************)
EXTENDS RuntimeBridge, TLAPS

\* A peer that is not waited for has nothing under way.
Quiet(r) == r.st # "AwaitingReply" => r.wire = Silence

\* What a reconnecting peer is asked for is what it acknowledged last.
Replaying(r) == r.wire.kind # "none" /\ r.wire.what # "inventory"
                => r.wire.id = FirstOr(r.replay)

\* What the peer of the transaction in flight is asked for is the submission
\* that the transaction is about.
Asked(r, id) == r.wire.kind # "none" => r.wire.what # "inventory" /\ r.wire.id = id

\* The peers in each stage of the bridge.
Stages ==
    /\ Quiet(peer.policy) /\ Quiet(peer.compositor)
    /\ stage = "Policy" =>
          /\ peer.compositor.st \in {"Disconnected", "Synchronized"}
          /\ outputModel => peer.compositor.st = "Synchronized"
          /\ Replaying(peer.policy)
    /\ stage = "Compositor" =>
          /\ peer.policy.st \in {"Disconnected", "Synchronized"}
          /\ ~outputModel => peer.policy.st = "Synchronized"
          /\ Replaying(peer.compositor)
    /\ stage = "Ready" =>
          /\ Asked(peer.policy, pending.policy)
          /\ Asked(peer.compositor, PendingOf(tx))

\* What is remembered of the transaction while the bridge is not ready.
Memory ==
    /\ stage = "Ready" => ~recovering
    /\ stage \in {"Policy", "Compositor"} /\ ~recovering => tx = "None"
    /\ recovering => resume = tx
    /\ stage # "Failed" /\ tx # "None" => owed >= 2

Coherent ==
    /\ TypeOK
    /\ Stages
    /\ Memory
    /\ ReplyHasOneTransaction
    /\ NothingLostOrRepeated
    /\ ResultsAreAcknowledged

-----------------------------------------------------------------------------
(***************************************************************************)
(* The operations on one peer.                                             *)
(***************************************************************************)

USE DEF Peers

\* Silence is a message, and so is every request.
LEMMA Messages ==
    /\ Silence \in Wire
    /\ \A what \in {"inventory", "snapshot", "content"}, id \in Ids : Sent(what, id) \in Wire
    /\ Silence.kind = "none"
    /\ \A id \in Ids : FirstOr(id) \in Ids /\ (id # 0 => FirstOr(id) = id)
  BY BridgeAssumption DEF Silence, Sent, Wire, Ids, FirstOr

\* disconnect() leaves a quiet peer that keeps its replay.
LEMMA ClosedPeer ==
    ASSUME NEW r \in Peer
    PROVE  /\ Closed(r) \in Peer
           /\ Closed(r).st = "Disconnected"
           /\ Closed(r).wire = Silence
           /\ Closed(r).replay = r.replay
  <1>1. 0 \in Ids
    BY BridgeAssumption DEF Ids
  <1>2. QED
    BY <1>1, Messages DEF Closed, Peer, PeerStates, Links

\* submit() waits for the answer to the request, or for nothing at all when
\* the connection is already lost.
LEMMA SubmittedPeer ==
    ASSUME NEW r \in Peer, NEW what \in {"inventory", "snapshot", "content"}, NEW id \in Ids
    PROVE  /\ Submitted(r, what, id) \in Peer
           /\ Submitted(r, what, id).st = "AwaitingReply"
           /\ Submitted(r, what, id).replay = r.replay
           /\ Submitted(r, what, id).wire \in {Silence, Sent(what, id)}
  BY Messages DEF Submitted, Peer, PeerStates

\* A request for id is a request for id.
LEMMA SubmittedAsks ==
    ASSUME NEW r \in Peer, NEW what \in {"snapshot", "content"}, NEW id \in Ids
    PROVE  Asked(Submitted(r, what, id), id)
  <1>1. CASE Submitted(r, what, id).wire = Silence
    BY <1>1, Messages DEF Asked
  <1>2. CASE Submitted(r, what, id).wire = Sent(what, id)
    BY <1>2 DEF Asked, Sent
  <1>3. QED
    BY <1>1, <1>2, SubmittedPeer

\* The bootstrap of a peer asks for what it acknowledged last.
LEMMA BootstrappedPeer ==
    ASSUME NEW r \in Peer, NEW p \in Peers, r.wire = Silence
    PROVE  /\ Bootstrapped(p, r) \in Peer
           /\ Bootstrapped(p, r).replay = r.replay
           /\ Bootstrapped(p, r).st = "AwaitingReply" \/ Bootstrapped(p, r) = r
           /\ Replaying(Bootstrapped(p, r))
  <1>1. FirstOr(r.replay) \in Ids /\ 0 \in Ids
    BY Messages, BridgeAssumption DEF Peer, Ids
  <1>0. /\ Replaying(Submitted(r, "inventory", 0))
        /\ Replaying(Submitted(r, "snapshot", FirstOr(r.replay)))
    <2>1. ASSUME NEW x \in Peer, NEW what \in {"inventory", "snapshot"}, NEW id \in Ids,
                 x.wire \in {Silence, Sent(what, id)}, x.replay = r.replay,
                 what = "inventory" \/ id = FirstOr(r.replay)
          PROVE  Replaying(x)
      <3>1. CASE x.wire = Silence
        BY <3>1, Messages DEF Replaying
      <3>2. CASE x.wire = Sent(what, id)
        BY <2>1, <3>2 DEF Replaying, Sent
      <3>3. QED
        BY <2>1, <3>1, <3>2
    <2>2. QED
      BY <1>1, <2>1, SubmittedPeer
  <1>2. CASE p = "compositor" /\ outputModel
    <2>1. Bootstrapped(p, r) = Submitted(r, "inventory", 0)
      BY <1>2 DEF Bootstrapped
    <2>2. /\ Submitted(r, "inventory", 0) \in Peer
          /\ Submitted(r, "inventory", 0).st = "AwaitingReply"
          /\ Submitted(r, "inventory", 0).replay = r.replay
      BY <1>1, SubmittedPeer
    <2>3. QED
      BY <2>1, <2>2, <1>0, Zenon
  <1>3. CASE ~(p = "compositor" /\ outputModel) /\ p = "policy" /\ outputModel /\ r.replay = 0
    <2>1. Bootstrapped(p, r) = r
      BY <1>3 DEF Bootstrapped
    <2>2. QED
      BY <2>1, Messages DEF Replaying
  <1>4. CASE ~(p = "compositor" /\ outputModel) /\ ~(p = "policy" /\ outputModel /\ r.replay = 0)
    <2>1. Bootstrapped(p, r) = Submitted(r, "snapshot", FirstOr(r.replay))
      BY <1>4 DEF Bootstrapped
    <2>2. /\ Submitted(r, "snapshot", FirstOr(r.replay)) \in Peer
          /\ Submitted(r, "snapshot", FirstOr(r.replay)).st = "AwaitingReply"
          /\ Submitted(r, "snapshot", FirstOr(r.replay)).replay = r.replay
      BY <1>1, SubmittedPeer
    <2>3. QED
      BY <2>1, <2>2, <1>0, Zenon
  <1>5. QED
    BY <1>2, <1>3, <1>4

\* process() leaves a peer alone that is not waited for and is not connecting;
\* it takes an answer off the wire, and an acceptance makes the submission the
\* one that is replayed.
LEMMA ProcessedPeer ==
    ASSUME NEW r \in Peer, NEW p \in Peers, Quiet(r), Outcome(r) # "Fatal"
    PROVE  /\ Processed(p, r) \in Peer
           /\ Quiet(Processed(p, r))
           /\ r.st = "Synchronized" => Processed(p, r) = r
           /\ r.st = "AwaitingReply" =>
                 \/ Processed(p, r) = r
                 \/ /\ Processed(p, r).st = "Synchronized"
                    /\ Processed(p, r).wire = Silence
                    /\ Processed(p, r).replay =
                          IF r.wire.kind = "accepted" /\ r.wire.what # "inventory"
                          THEN r.wire.id ELSE r.replay
                    /\ r.wire.kind \in {"accepted", "rejected"}
           /\ r.st = "Connecting" => \/ Processed(p, r) = r
                                     \/ Processed(p, r) = Bootstrapped(p, r)
  <1>1. CASE Outcome(r) = "Disconnected"
    BY <1>1 DEF Processed
  <1>2. CASE Outcome(r) # "Disconnected" /\ r.st = "Connecting" /\ r.link = "established"
    <2>1. Processed(p, r) = Bootstrapped(p, r)
      BY <1>2 DEF Processed
    <2>2. QED
      BY <1>2, <2>1, BootstrappedPeer DEF Quiet
  <1>3. CASE /\ Outcome(r) # "Disconnected"
             /\ ~(r.st = "Connecting" /\ r.link = "established")
             /\ r.wire.kind \in {"accepted", "rejected"}
    <2>1. r.st = "AwaitingReply"
      BY <1>3, Messages DEF Quiet
    <2>2. Processed(p, r) =
            [r EXCEPT !.st = "Synchronized", !.wire = Silence,
                      !.replay = IF r.wire.kind = "accepted" /\ r.wire.what # "inventory"
                                 THEN r.wire.id ELSE r.replay]
      BY <1>3 DEF Processed
    <2>3. QED
      BY <1>3, <2>1, <2>2, Messages DEF Quiet, Peer, PeerStates, Wire
  <1>5. CASE /\ Outcome(r) # "Disconnected"
             /\ ~(r.st = "Connecting" /\ r.link = "established")
             /\ r.wire.kind \notin {"accepted", "rejected"}
    BY <1>5 DEF Processed
  <1>6. QED
    BY <1>1, <1>2, <1>3, <1>5

\* A turn of a peer's bootstrap keeps it quiet and replaying, and never
\* changes what an earlier acknowledgement established.
LEMMA BootstrapTurn ==
    ASSUME NEW r \in Peer, NEW p \in Peers, NEW x \in Bootstraps(p, r),
           Quiet(r), Replaying(r), ~BootstrapFails(r)
    PROVE  /\ x \in Peer
           /\ Quiet(x)
           /\ Replaying(x)
           /\ r.replay # 0 => x.replay = r.replay
           /\ r.st = "Synchronized" => x = r
  <1>1. CASE r.st = "Disconnected"
    <2>1. x = r \/ x = [r EXCEPT !.st = "Connecting", !.link = "connecting"]
      BY <1>1 DEF Bootstraps
    <2>2. r.wire = Silence
      BY <1>1 DEF Quiet
    <2>3. QED
      BY <1>1, <2>1, <2>2, Messages DEF Quiet, Replaying, Peer, PeerStates, Links
  <1>2. CASE r.st \in {"Connecting", "AwaitingReply"} /\ Outcome(r) = "Disconnected"
    <2>1. x = Closed(r)
      BY <1>2 DEF Bootstraps
    <2>2. QED
      BY <1>2, <2>1, ClosedPeer, Messages DEF Quiet, Replaying
  <1>3. CASE r.st \in {"Connecting", "AwaitingReply"} /\ Outcome(r) # "Disconnected"
    <2>1. x = Processed(p, r) /\ Outcome(r) # "Fatal"
      BY <1>3 DEF Bootstraps, BootstrapFails
    <2>2. CASE r.st = "Connecting"
      BY <2>1, <2>2, ProcessedPeer, BootstrappedPeer DEF Quiet
    <2>3. CASE r.st = "AwaitingReply"
      <3>1. CASE x = r
        BY <3>1, <2>3
      <3>2. CASE x # r
        <4>1. /\ x.wire = Silence
              /\ x.replay = IF r.wire.kind = "accepted" /\ r.wire.what # "inventory"
                            THEN r.wire.id ELSE r.replay
          BY <2>1, <2>3, <3>2, ProcessedPeer
        <4>2. r.replay \in Ids
          BY DEF Peer
        <4>3. r.replay # 0 => x.replay = r.replay
          BY <4>1, <4>2, Messages DEF Replaying
        <4>4. QED
          BY <2>1, <2>3, <4>1, <4>3, ProcessedPeer, Messages DEF Replaying
      <3>3. QED
        BY <3>1, <3>2
    <2>4. QED
      BY <1>3, <2>2, <2>3
  <1>4. CASE r.st = "Synchronized"
    <2>1. x = r
      BY <1>4 DEF Bootstraps
    <2>2. QED
      BY <2>1
  <1>5. QED
    BY <1>1, <1>2, <1>3, <1>4 DEF Peer, PeerStates

\* Only an output-model policy peer that never acknowledged a policy is left
\* connected and without a request.
LEMMA PolicyConnects ==
    ASSUME NEW r \in Peer, NEW x \in Bootstraps("policy", r), Quiet(r), ~BootstrapFails(r),
           x.st = "Connecting", x.link = "established"
    PROVE  x.replay = 0
  <1>1. CASE r.st = "Disconnected"
    <2>1. x = r \/ x = [r EXCEPT !.st = "Connecting", !.link = "connecting"]
      BY <1>1 DEF Bootstraps
    <2>2. x = [r EXCEPT !.st = "Connecting", !.link = "connecting"]
      BY <1>1, <2>1
    <2>3. x.link = "connecting"
      BY <2>2 DEF Peer
    <2>4. QED
      BY <2>3
  <1>2. CASE r.st \in {"Connecting", "AwaitingReply"} /\ Outcome(r) = "Disconnected"
    BY <1>2, ClosedPeer DEF Bootstraps
  <1>3. CASE r.st \in {"Connecting", "AwaitingReply"} /\ Outcome(r) # "Disconnected"
    <2>1. x = Processed("policy", r) /\ Outcome(r) # "Fatal"
      BY <1>3 DEF Bootstraps, BootstrapFails
    <2>2. CASE r.st = "AwaitingReply"
      BY <2>1, <2>2, ProcessedPeer
    <2>3. CASE r.st = "Connecting" /\ r.link # "established"
      <3>1. r.wire.kind = "none"
        BY <2>3, Messages DEF Quiet
      <3>2. x = r
        BY <1>3, <2>1, <2>3, <3>1 DEF Processed
      <3>3. QED
        BY <2>3, <3>2
    <2>4. CASE r.st = "Connecting" /\ r.link = "established"
      <3>1. x = Bootstrapped("policy", r)
        BY <1>3, <2>1, <2>4 DEF Processed
      <3>2. FirstOr(r.replay) \in Ids
        BY Messages DEF Peer
      <3>3. (x = r /\ r.replay = 0) \/ x = Submitted(r, "snapshot", FirstOr(r.replay))
        BY <3>1 DEF Bootstrapped
      <3>4. QED
        BY <3>2, <3>3, SubmittedPeer
    <2>5. QED
      BY <1>3, <2>2, <2>3, <2>4
  <1>4. CASE r.st = "Synchronized"
    BY <1>4 DEF Bootstraps
  <1>5. QED
    BY <1>1, <1>2, <1>3, <1>4 DEF Peer, PeerStates

-----------------------------------------------------------------------------
(***************************************************************************)
(* Coherent is inductive.                                                  *)
(***************************************************************************)

CompletedAtCompositor == {"Complete", "ContentComplete", "CursorComplete", "ReplayComplete"}
RejectedAtCompositor == {"CompositorRejected", "ContentRejected", "CursorRejected",
                         "ReplayRejected"}

\* The names of the results.
LEMMA ResultNames ==
    /\ Completed("Policy") = "PolicyReady"
    /\ \A t \in CompositorFlights : /\ Completed(t) \in CompletedAtCompositor
                                    /\ Rejected(t) \in RejectedAtCompositor
    /\ {Completed(t) : t \in CompositorFlights} = CompletedAtCompositor
    /\ Results = {"PolicyReady", "PolicyRejected"} \cup CompletedAtCompositor
                    \cup RejectedAtCompositor
  <1>1. /\ Completed("Policy") = "PolicyReady"     /\ Rejected("Policy") = "PolicyRejected"
        /\ Completed("Compositor") = "Complete"
        /\ Rejected("Compositor") = "CompositorRejected"
        /\ Completed("Content") = "ContentComplete" /\ Rejected("Content") = "ContentRejected"
        /\ Completed("Cursor") = "CursorComplete"   /\ Rejected("Cursor") = "CursorRejected"
        /\ Completed("Replay") = "ReplayComplete"   /\ Rejected("Replay") = "ReplayRejected"
    BY DEF Completed, Rejected
  <1>2. QED
    BY <1>1 DEF CompositorFlights, CompletedAtCompositor, RejectedAtCompositor, Results,
                Flights

\* A result is about the submission of its transaction.
LEMMA ResultsOfSubmission ==
    ASSUME NEW t \in CompositorFlights
    PROVE  /\ PendingOf(Completed(t)) = PendingOf(t)
           /\ PendingOf(Rejected(t)) = PendingOf(t)
           /\ PendingOf(t) \in {pending.content, pending.compositor}
  <1>1. /\ Completed("Compositor") = "Complete"
        /\ Rejected("Compositor") = "CompositorRejected"
        /\ Completed("Content") = "ContentComplete" /\ Rejected("Content") = "ContentRejected"
        /\ Completed("Cursor") = "CursorComplete"   /\ Rejected("Cursor") = "CursorRejected"
        /\ Completed("Replay") = "ReplayComplete"   /\ Rejected("Replay") = "ReplayRejected"
    BY DEF Completed, Rejected
  <1>2. QED
    BY <1>1 DEF CompositorFlights, PendingOf

LEMMA PairOfPeers ==
    ASSUME NEW pr \in Peer, NEW cr \in Peer
    PROVE  /\ After(pr, cr) \in [Peers -> Peer]
           /\ After(pr, cr).policy = pr
           /\ After(pr, cr).compositor = cr
  BY DEF After

LEMMA PeersInCoherent ==
    ASSUME TypeOK
    PROVE  peer.policy \in Peer /\ peer.compositor \in Peer
  BY DEF TypeOK

\* The bridge starts coherent.
LEMMA InitCoherent ==
    ASSUME Init
    PROVE  Coherent
  <1>1. 0 \in Ids
    BY BridgeAssumption DEF Ids
  <1>2. TypeOK
    <2>1. peer \in [Peers -> Peer]
      BY <1>1, Messages DEF Init, Peer, PeerStates, Links
    <2>2. pending \in [policy : Ids, compositor : Ids, content : Ids]
      BY <1>1 DEF Init
    <2>3. QED
      <3>1. /\ stage \in {"Policy", "Compositor", "Ready", "Failed"}
            /\ tx \in {"None"} \cup Flights \cup Results
            /\ resume \in {"None"} \cup Flights \cup Results
            /\ recovering \in BOOLEAN /\ sceneSubmitted \in BOOLEAN
            /\ sceneMissed \in BOOLEAN /\ outputModel \in BOOLEAN
        BY DEF Init
      <3>2. age \in 0..Deadline /\ submissions \in 0..MaxSubmissions /\ losses \in 0..MaxLosses
        BY BridgeAssumption DEF Init
      <3>3. owed \in Ids
        BY <1>1 DEF Init
      <3>4. QED
        BY <2>1, <2>2, <3>1, <3>2, <3>3 DEF TypeOK
  <1>3. Stages
    BY Messages DEF Init, Stages, Quiet, Replaying
  <1>4. Memory /\ ReplyHasOneTransaction /\ NothingLostOrRepeated
    BY DEF Init, Memory, ReplyHasOneTransaction, NothingLostOrRepeated, PendingOf
  <1>5. ResultsAreAcknowledged
    BY ResultNames DEF Init, ResultsAreAcknowledged, CompletedAtCompositor
  <1>6. QED
    BY <1>2, <1>3, <1>4, <1>5 DEF Coherent

\* Giving up leaves everything else as it is.
LEMMA FailCoherent ==
    ASSUME Coherent, Fail
    PROVE  Coherent'
  <1>1. TypeOK'
    BY DEF Coherent, TypeOK, Fail
  <1>2. Stages' /\ Memory' /\ ReplyHasOneTransaction' /\ NothingLostOrRepeated'
    BY DEF Coherent, Fail, Stages, Memory, ReplyHasOneTransaction, NothingLostOrRepeated
  <1>3. ResultsAreAcknowledged'
    BY DEF Coherent, Fail, ResultsAreAcknowledged, PendingOf
  <1>4. QED
    BY <1>1, <1>2, <1>3 DEF Coherent

\* The submissions of the runtime: the peer asked is the one waited for.
LEMMA SubmitCoherent ==
    ASSUME Coherent,
           \/ SubmitPolicy \/ SubmitCompositor \/ SubmitContent
           \/ SubmitCursor \/ SubmitReplay
    PROVE  Coherent'
  <1> DEFINE id == submissions + 2
  <1>1. id \in Ids /\ id >= 2 /\ submissions < MaxSubmissions /\ stage = "Ready"
    BY BridgeAssumption DEF Coherent, TypeOK, Ids, SubmitPolicy, SubmitCompositor,
       SubmitContent, SubmitCursor, SubmitReplay, Submit
  <1>2. peer.policy \in Peer /\ peer.compositor \in Peer
    BY PeersInCoherent DEF Coherent
  <1>3. PICK p \in Peers, t \in Flights, what \in {"snapshot", "content"},
             slots \in SUBSET {"policy", "compositor", "content"} :
          /\ Submit(p, t, what, slots)
          /\ p = "policy" <=> t = "Policy"
          /\ p = "policy" => slots = {"policy"}
          /\ p = "compositor" => slots = IF t = "Content" THEN {"content"} ELSE {"compositor"}
          /\ t = "Compositor" => tx = "PolicyReady"
          /\ t # "Compositor" => tx = "None"
    BY DEF SubmitPolicy, SubmitCompositor, SubmitContent, SubmitCursor, SubmitReplay,
           Flights, CompositorFlights
  <1>4. /\ stage' = stage /\ tx' = t /\ owed' = id
        /\ UNCHANGED <<outputModel, sceneMissed, resume, recovering, sceneSubmitted, age,
                       losses>>
        /\ submissions' = submissions + 1
        /\ peer[p].st = "Synchronized"
        /\ peer' = [peer EXCEPT ![p] = Submitted(peer[p], what, id)]
        /\ pending' = [s \in DOMAIN pending |-> IF s \in slots THEN id ELSE pending[s]]
    BY <1>3 DEF Submit
  <1>5. /\ Submitted(peer[p], what, id) \in Peer
        /\ Submitted(peer[p], what, id).st = "AwaitingReply"
        /\ Submitted(peer[p], what, id).replay = peer[p].replay
        /\ Asked(Submitted(peer[p], what, id), id)
    <2>1. peer[p] \in Peer
      BY <1>2
    <2>2. Asked(Submitted(peer[p], what, id), id)
      BY <1>1, <2>1, SubmittedAsks
    <2>3. QED
      BY <1>1, <2>1, <2>2, SubmittedPeer
  <1>6. DOMAIN pending = {"policy", "compositor", "content"}
    BY DEF Coherent, TypeOK
  <1>7. /\ pending' \in [policy : Ids, compositor : Ids, content : Ids]
        /\ PendingOf(tx)' = id
        /\ p = "policy" => pending'.policy = id
        /\ p = "compositor" => pending'.policy = pending.policy
    <2>1. /\ pending'.policy = IF "policy" \in slots THEN id ELSE pending.policy
          /\ pending'.compositor = IF "compositor" \in slots THEN id ELSE pending.compositor
          /\ pending'.content = IF "content" \in slots THEN id ELSE pending.content
      BY <1>4, <1>6
    <2>2. pending' \in [policy : Ids, compositor : Ids, content : Ids]
      BY <1>1, <1>4, <1>6, <2>1 DEF Coherent, TypeOK
    <2>3. PendingOf(tx)' = id
      BY <1>3, <1>4, <2>1 DEF PendingOf, Flights, CompositorFlights
    <2>4. QED
      BY <1>3, <2>1, <2>2, <2>3
  <1>8. TypeOK'
    BY <1>1, <1>2, <1>4, <1>5, <1>7, BridgeAssumption DEF Coherent, TypeOK, Ids
  <1>9. CASE p = "policy"
    <2>1. /\ peer'.policy = Submitted(peer.policy, what, id)
          /\ peer'.compositor = peer.compositor
          /\ tx' = "Policy" /\ tx = "None"
      BY <1>3, <1>4, <1>9 DEF Coherent, TypeOK
    <2>2. Stages'
      BY <1>1, <1>4, <1>5, <1>7, <1>9, <2>1, Messages
         DEF Coherent, Stages, Quiet, Asked, ReplyHasOneTransaction, CompositorFlights
    <2>3. Memory' /\ ReplyHasOneTransaction' /\ NothingLostOrRepeated'
      BY <1>1, <1>4, <1>5, <1>7, <1>9, <2>1
         DEF Coherent, Memory, ReplyHasOneTransaction, NothingLostOrRepeated, CompositorFlights
    <2>4. ResultsAreAcknowledged'
      BY <2>1, ResultNames DEF ResultsAreAcknowledged, CompletedAtCompositor
    <2>5. QED
      BY <1>8, <2>2, <2>3, <2>4 DEF Coherent
  <1>10. CASE p = "compositor"
    <2>1. /\ peer'.compositor = Submitted(peer.compositor, what, id)
          /\ peer'.policy = peer.policy
          /\ tx' = t /\ t \in CompositorFlights /\ tx # "Policy"
      BY <1>3, <1>4, <1>10 DEF Coherent, TypeOK, Flights
    <2>2. Stages'
      BY <1>1, <1>4, <1>5, <1>7, <1>10, <2>1, Messages
         DEF Coherent, Stages, Quiet, Asked, ReplyHasOneTransaction
    <2>3. Memory' /\ ReplyHasOneTransaction' /\ NothingLostOrRepeated'
      BY <1>1, <1>4, <1>5, <1>7, <1>10, <2>1
         DEF Coherent, Memory, ReplyHasOneTransaction, NothingLostOrRepeated, CompositorFlights
    <2>4. ResultsAreAcknowledged'
      BY <2>1, ResultNames DEF ResultsAreAcknowledged, CompletedAtCompositor, CompositorFlights
    <2>5. QED
      BY <1>8, <2>2, <2>3, <2>4 DEF Coherent
  <1>11. QED
    BY <1>9, <1>10

\* A result is taken.
LEMMA TakeResultCoherent ==
    ASSUME Coherent, TakeResult
    PROVE  Coherent'
  <1>1. TypeOK'
    BY BridgeAssumption DEF Coherent, TypeOK, TakeResult, Ids
  <1>2. tx \notin Flights
    BY ResultNames DEF TakeResult, Flights, CompositorFlights, CompletedAtCompositor,
                       RejectedAtCompositor
  <1>3. peer.policy.wire = Silence /\ peer.compositor.wire = Silence
    BY <1>2 DEF Coherent, Stages, Quiet, ReplyHasOneTransaction, TakeResult, Flights
  <1>4. Stages'
    BY <1>3, Messages DEF Coherent, Stages, Quiet, Asked, TakeResult
  <1>5. Memory' /\ ReplyHasOneTransaction' /\ NothingLostOrRepeated'
    BY <1>2 DEF Coherent, Memory, ReplyHasOneTransaction, NothingLostOrRepeated, PendingOf,
                TakeResult, Flights, CompositorFlights
  <1>6. ResultsAreAcknowledged'
    BY ResultNames DEF ResultsAreAcknowledged, TakeResult, CompletedAtCompositor
  <1>7. QED
    BY <1>1, <1>4, <1>5, <1>6 DEF Coherent

\* Time, and the environment: nothing the bridge remembers changes.
LEMMA EnvironmentCoherent ==
    ASSUME Coherent,
           \/ Tick
           \/ \E p \in Peers : Establish(p) \/ Lose(p)
           \/ \E p \in Peers, result \in {"accepted", "rejected", "invalid"} : Answer(p, result)
    PROVE  Coherent'
  <1>1. CASE Tick
    <2>1. TypeOK'
      BY <1>1, BridgeAssumption DEF Coherent, TypeOK, Tick
    <2>2. QED
      BY <1>1, <2>1 DEF Coherent, Tick, Stages, Memory, ReplyHasOneTransaction,
                        NothingLostOrRepeated, ResultsAreAcknowledged, PendingOf
  <1>2. ASSUME NEW p \in Peers, NEW r \in Peer,
               peer' = [peer EXCEPT ![p] = r],
               r.st = peer[p].st, r.replay = peer[p].replay,
               \/ r.wire = peer[p].wire
               \/ r.wire = Silence
               \/ /\ peer[p].wire.kind # "none"
                  /\ r.wire.what = peer[p].wire.what
                  /\ r.wire.id = peer[p].wire.id,
               losses' \in 0..MaxLosses,
               UNCHANGED <<outputModel, sceneMissed, stage, tx, resume, recovering,
                           sceneSubmitted, pending, age, submissions, owed>>
        PROVE  Coherent'
    <2>1. TypeOK'
      BY <1>2 DEF Coherent, TypeOK
    <2>2. \A q \in Peers : /\ peer'[q].st = peer[q].st
                           /\ peer'[q].replay = peer[q].replay
                           /\ Quiet(peer[q]) => Quiet(peer'[q])
                           /\ Replaying(peer[q]) => Replaying(peer'[q])
                           /\ \A id \in Ids : Asked(peer[q], id) => Asked(peer'[q], id)
      <3>1. SUFFICES ASSUME NEW q \in Peers, q = p
                     PROVE  /\ Quiet(peer[q]) => Quiet(r)
                            /\ Replaying(peer[q]) => Replaying(r)
                            /\ \A id \in Ids : Asked(peer[q], id) => Asked(r, id)
        BY <1>2 DEF Coherent, TypeOK
      <3>2. Quiet(peer[q]) => Quiet(r)
        BY <1>2, <3>1, Messages DEF Quiet
      <3>3. Replaying(peer[q]) => Replaying(r)
        BY <1>2, <3>1, Messages DEF Replaying
      <3>4. \A id \in Ids : Asked(peer[q], id) => Asked(r, id)
        BY <1>2, <3>1, Messages DEF Asked
      <3>5. QED
        BY <3>2, <3>3, <3>4
    <2>3. pending.policy \in Ids /\ PendingOf(tx) \in Ids /\ PendingOf(tx)' = PendingOf(tx)
      BY <1>2, BridgeAssumption DEF Coherent, TypeOK, PendingOf, Ids
    <2>4. Stages'
      BY <1>2, <2>2, <2>3 DEF Coherent, Stages
    <2>5. Memory' /\ ReplyHasOneTransaction' /\ NothingLostOrRepeated'
      BY <1>2, <2>2, <2>3 DEF Coherent, Memory, ReplyHasOneTransaction, NothingLostOrRepeated
    <2>6. ResultsAreAcknowledged'
      BY <1>2, <2>2, <2>3 DEF Coherent, ResultsAreAcknowledged
    <2>7. QED
      BY <2>1, <2>4, <2>5, <2>6 DEF Coherent
  <1>3. ASSUME NEW p \in Peers, Establish(p)
        PROVE  Coherent'
    <2> DEFINE r == [peer[p] EXCEPT !.link = "established"]
    <2>1. peer[p] \in Peer
      BY DEF Coherent, TypeOK
    <2>2. r \in Peer /\ r.st = peer[p].st /\ r.replay = peer[p].replay /\ r.wire = peer[p].wire
      BY <2>1 DEF Peer, Links
    <2>3. peer' = [peer EXCEPT ![p] = r] /\ losses' \in 0..MaxLosses
      BY <1>3, <2>1 DEF Establish, Coherent, TypeOK
    <2>4. QED
      BY <1>2, <1>3, <2>2, <2>3 DEF Establish
  <1>4. ASSUME NEW p \in Peers, Lose(p)
        PROVE  Coherent'
    <2> DEFINE r == [peer[p] EXCEPT !.link = "lost", !.wire = Silence, !.held = 0]
    <2>1. peer[p] \in Peer /\ 0 \in Ids
      BY BridgeAssumption DEF Coherent, TypeOK, Ids
    <2>2. r \in Peer /\ r.st = peer[p].st /\ r.replay = peer[p].replay /\ r.wire = Silence
      BY <2>1, Messages DEF Peer, Links
    <2>3. peer' = [peer EXCEPT ![p] = r] /\ losses' \in 0..MaxLosses
      <3>1. losses' \in 0..MaxLosses
        BY <1>4, BridgeAssumption DEF Lose, Coherent, TypeOK
      <3>2. peer' = [peer EXCEPT ![p].link = "lost", ![p].wire = Silence, ![p].held = 0]
        BY <1>4 DEF Lose
      <3>3. peer' = [peer EXCEPT ![p] = r]
        BY <3>2, <2>1 DEF Coherent, TypeOK, Peer
      <3>4. QED
        BY <3>1, <3>3
    <2>4. QED
      BY <1>2, <1>4, <2>2, <2>3 DEF Lose
  <1>5. ASSUME NEW p \in Peers, NEW result \in {"accepted", "rejected", "invalid"},
               Answer(p, result)
        PROVE  Coherent'
    <2> DEFINE w == [peer[p].wire EXCEPT !.kind = result]
               h == IF result = "accepted" /\ peer[p].wire.what # "inventory"
                    THEN peer[p].wire.id ELSE peer[p].held
               r == [peer[p] EXCEPT !.wire = w, !.held = h]
    <2>1. peer[p] \in Peer /\ peer[p].wire \in Wire
      BY DEF Coherent, TypeOK, Peer
    <2>2. w \in Wire /\ w.what = peer[p].wire.what /\ w.id = peer[p].wire.id /\ h \in Ids
      BY <2>1 DEF Wire, Peer
    <2>3. r \in Peer /\ r.st = peer[p].st /\ r.replay = peer[p].replay /\ r.wire = w
      BY <2>1, <2>2 DEF Peer
    <2>4. peer' = [peer EXCEPT ![p] = r] /\ losses' \in 0..MaxLosses
      BY <1>5, <2>1 DEF Answer, Coherent, TypeOK
    <2>5. peer[p].wire.kind # "none"
      BY <1>5 DEF Answer
    <2>6. QED
      <3>1. UNCHANGED <<outputModel, sceneMissed, stage, tx, resume, recovering, sceneSubmitted, pending, age,
                        submissions, owed>>
        BY <1>5 DEF Answer
      <3>2. r.wire.what = peer[p].wire.what /\ r.wire.id = peer[p].wire.id
        BY <2>2, <2>3
      <3> HIDE DEF r, w, h
      <3>3. QED
        BY <1>2, <2>3, <2>4, <2>5, <3>1, <3>2
  <1>6. QED
    BY <1>1, <1>3, <1>4, <1>5

\* A refusal is an answer: the peer is not waited for any more.
LEMMA RefusedPeer ==
    ASSUME NEW r \in Peer, NEW p \in Peers, Quiet(r), Outcome(r) = "SemanticRejected"
    PROVE  Processed(p, r).st = "Synchronized"
  <1>1. r.wire.kind = "rejected"
    BY DEF Outcome
  <1>2. r.st = "AwaitingReply"
    BY <1>1, Messages DEF Quiet
  <1>3. QED
    BY <1>1, <1>2 DEF Processed, Peer

\* A turn of the ready bridge.
LEMMA ServiceReadyCoherent ==
    ASSUME Coherent, ServiceReady
    PROVE  Coherent'
  <1> DEFINE pr == Processed("policy", peer.policy)
             cr == Processed("compositor", peer.compositor)
             outcomes == {Outcome(peer[p]) : p \in Peers}
  <1>1. peer.policy \in Peer /\ peer.compositor \in Peer /\ stage = "Ready" /\ ~recovering
    BY PeersInCoherent DEF Coherent, ServiceReady, Memory
  <1>2. CASE "Fatal" \in outcomes
    <2>1. Fail
      BY <1>2 DEF ServiceReady, Fail
    <2>2. QED
      BY <2>1, FailCoherent
  <1>3. ASSUME "Fatal" \notin outcomes
        PROVE  /\ pr \in Peer /\ cr \in Peer /\ Quiet(pr) /\ Quiet(cr)
               /\ tx # "Policy" => pr = peer.policy /\ pr.st = "Synchronized"
               /\ tx \notin CompositorFlights => cr = peer.compositor /\ cr.st = "Synchronized"
               /\ tx = "Policy" =>
                     \/ pr = peer.policy /\ pr.st = "AwaitingReply"
                     \/ /\ pr.st = "Synchronized" /\ pr.wire = Silence
                        /\ \/ pr.replay = pending.policy
                           \/ Outcome(peer.policy) \in {"SemanticRejected", "Disconnected"}
               /\ tx \in CompositorFlights =>
                     \/ cr = peer.compositor /\ cr.st = "AwaitingReply"
                     \/ /\ cr.st = "Synchronized" /\ cr.wire = Silence
                        /\ \/ cr.replay = PendingOf(tx)
                           \/ Outcome(peer.compositor) \in {"SemanticRejected", "Disconnected"}
    <2>1. Outcome(peer.policy) # "Fatal" /\ Outcome(peer.compositor) # "Fatal"
      BY <1>3
    <2>2. Quiet(peer.policy) /\ Quiet(peer.compositor)
      BY DEF Coherent, Stages
    <2>3. /\ Asked(peer.policy, pending.policy)
          /\ Asked(peer.compositor, PendingOf(tx))
          /\ peer.policy.st = IF tx = "Policy" THEN "AwaitingReply" ELSE "Synchronized"
          /\ peer.compositor.st =
                IF tx \in CompositorFlights THEN "AwaitingReply" ELSE "Synchronized"
      BY <1>1 DEF Coherent, Stages, ReplyHasOneTransaction
    <2>4. /\ pr \in Peer /\ Quiet(pr)
          /\ peer.policy.st = "Synchronized" => pr = peer.policy
          /\ peer.policy.st = "AwaitingReply" =>
                \/ pr = peer.policy
                \/ /\ pr.st = "Synchronized" /\ pr.wire = Silence
                   /\ pr.replay = IF peer.policy.wire.kind = "accepted"
                                       /\ peer.policy.wire.what # "inventory"
                                  THEN peer.policy.wire.id ELSE peer.policy.replay
                   /\ peer.policy.wire.kind \in {"accepted", "rejected"}
      BY <1>1, <2>1, <2>2, ProcessedPeer
    <2>5. /\ cr \in Peer /\ Quiet(cr)
          /\ peer.compositor.st = "Synchronized" => cr = peer.compositor
          /\ peer.compositor.st = "AwaitingReply" =>
                \/ cr = peer.compositor
                \/ /\ cr.st = "Synchronized" /\ cr.wire = Silence
                   /\ cr.replay = IF peer.compositor.wire.kind = "accepted"
                                       /\ peer.compositor.wire.what # "inventory"
                                  THEN peer.compositor.wire.id ELSE peer.compositor.replay
                   /\ peer.compositor.wire.kind \in {"accepted", "rejected"}
      BY <1>1, <2>1, <2>2, ProcessedPeer
    <2>6. \A r \in Peer : r.wire.kind = "rejected" =>
             Outcome(r) \in {"SemanticRejected", "Disconnected"}
      BY DEF Outcome
    <2> HIDE DEF pr, cr
    <2>7. QED
      BY <1>1, <2>3, <2>4, <2>5, <2>6 DEF Asked
  <1>4. \A r \in Peer : Outcome(r) = "SemanticRejected" => r.wire.kind = "rejected"
    BY DEF Outcome
  <1>5. CASE "Fatal" \notin outcomes /\ "Disconnected" \in outcomes
    <2>1. Recover(pr, cr) /\ "Fatal" \notin outcomes
      BY <1>5 DEF ServiceReady
    <2>2. \/ Outcome(peer.policy) = "Disconnected"
          \/ Outcome(peer.compositor) = "Disconnected"
      BY <1>5
    <2> DEFINE policyLost == Outcome(peer.policy) = "Disconnected"
               compositorLost == Outcome(peer.compositor) = "Disconnected"
               closePolicy == policyLost \/ (compositorLost /\ tx = "Policy")
               closeCompositor == compositorLost \/ (policyLost /\ tx \in CompositorFlights)
               interrupted == IF closeCompositor THEN Forgotten(tx) ELSE tx
               np == IF closePolicy THEN Closed(pr) ELSE pr
               nc == IF closeCompositor THEN Closed(cr) ELSE cr
    <2>3. /\ peer' = After(np, nc)
          /\ stage' = IF closePolicy /\ ~(outputModel /\ closeCompositor)
                      THEN "Policy" ELSE "Compositor"
          /\ tx' = interrupted /\ resume' = interrupted
          /\ owed' = IF interrupted = "None" THEN 0 ELSE owed
          /\ recovering' = TRUE
          /\ sceneSubmitted' = (sceneSubmitted /\ ~compositorLost)
          /\ sceneMissed' \in BOOLEAN
          /\ age' = 0
          /\ UNCHANGED <<outputModel, pending, submissions, losses>>
      BY <2>1 DEF Recover
    <2>4. /\ pr \in Peer /\ cr \in Peer /\ Quiet(pr) /\ Quiet(cr)
          /\ tx # "Policy" => pr = peer.policy /\ pr.st = "Synchronized"
          /\ tx \notin CompositorFlights => cr = peer.compositor /\ cr.st = "Synchronized"
      BY <1>3, <2>1
    <2>5. /\ np \in Peer /\ np.wire = Silence /\ np.replay = pr.replay
          /\ np.st = IF closePolicy THEN "Disconnected" ELSE "Synchronized"
      BY <2>2, <2>4, ClosedPeer DEF Quiet, CompositorFlights
    <2>6. /\ nc \in Peer /\ nc.wire = Silence /\ nc.replay = cr.replay
          /\ nc.st = IF closeCompositor THEN "Disconnected" ELSE "Synchronized"
      BY <2>2, <2>4, ClosedPeer DEF Quiet, CompositorFlights
    <2>7. closePolicy \/ closeCompositor
      BY <2>2
    <2>8. /\ interrupted \in {"None", tx}
          /\ interrupted = "None" => tx = "None" \/ tx \in CursorStages
      BY DEF Forgotten
    <2> HIDE DEF pr, cr, np, nc, interrupted, closePolicy, closeCompositor
    <2>9. peer' \in [Peers -> Peer] /\ peer'.policy = np /\ peer'.compositor = nc
      BY <2>3, <2>5, <2>6, PairOfPeers
    <2>10. TypeOK'
      BY <2>3, <2>8, <2>9, BridgeAssumption DEF Coherent, TypeOK, Ids
    <2>11. Stages'
      BY <2>3, <2>5, <2>6, <2>7, <2>9, Messages DEF Stages, Quiet, Replaying
    <2>12. Memory' /\ ReplyHasOneTransaction' /\ NothingLostOrRepeated'
      BY <1>1, <2>3, <2>8
         DEF Coherent, Memory, ReplyHasOneTransaction, NothingLostOrRepeated, PendingOf
    <2>13. ResultsAreAcknowledged'
      BY <2>3, <2>4, <2>5, <2>6, <2>8, <2>9, ResultNames
         DEF Coherent, ResultsAreAcknowledged, PendingOf, CompletedAtCompositor,
             CompositorFlights
    <2>14. QED
      BY <2>10, <2>11, <2>12, <2>13 DEF Coherent
  <1>6. CASE outcomes \cap {"Fatal", "Disconnected"} = {}
    <2>1. /\ Outcome(peer.policy) # "Disconnected"
          /\ Outcome(peer.compositor) # "Disconnected"
          /\ "Fatal" \notin outcomes
      BY <1>6
    <2>2. /\ peer' = After(pr, cr)
          /\ tx' = Answered(pr, cr)
          /\ UNCHANGED <<outputModel, sceneMissed, stage, resume, recovering,
                         sceneSubmitted, pending, age, submissions, losses, owed>>
      BY <1>6 DEF ServiceReady
    <2>3. /\ peer' \in [Peers -> Peer] /\ peer'.policy = pr /\ peer'.compositor = cr
      BY <1>3, <2>1, <2>2, PairOfPeers
    <2>4. /\ Outcome(peer.policy) = "SemanticRejected" => tx = "Policy"
          /\ Outcome(peer.compositor) = "SemanticRejected" => tx \in CompositorFlights
      BY <1>1, <1>4, Messages DEF Coherent, Stages, Quiet, ReplyHasOneTransaction
    <2>9. /\ Outcome(peer.policy) = "SemanticRejected" => pr.st = "Synchronized"
          /\ Outcome(peer.compositor) = "SemanticRejected" => cr.st = "Synchronized"
      BY <1>1, RefusedPeer DEF Coherent, Stages
    <2>10. /\ Quiet(pr) /\ Quiet(cr)
           /\ pending.policy \in Ids
           /\ \A s : PendingOf(s)' = PendingOf(s)
      BY <1>3, <2>1, <2>2 DEF Coherent, TypeOK, PendingOf
    <2>5. CASE tx = "Policy"
      <3>1. /\ cr = peer.compositor /\ cr.st = "Synchronized" /\ cr.wire = Silence
            /\ \/ tx' = "Policy" /\ pr.st = "AwaitingReply" /\ pr = peer.policy
               \/ /\ pr.st = "Synchronized" /\ pr.wire = Silence
                  /\ \/ tx' = "PolicyReady" /\ pr.replay = pending.policy
                     \/ tx' = "PolicyRejected"
        BY <1>3, <2>1, <2>2, <2>4, <2>5, <2>9, <2>10, ResultNames
           DEF Answered, CompositorFlights, Quiet
      <3>2. TypeOK'
        BY <2>2, <2>3, <3>1, ResultNames DEF Coherent, TypeOK, Flights
      <3>3. Stages'
        BY <1>1, <2>2, <2>3, <2>5, <2>10, <3>1, Messages DEF Coherent, Stages, Asked
      <3>4. Memory' /\ ReplyHasOneTransaction' /\ NothingLostOrRepeated'
        BY <1>1, <2>2, <2>3, <2>5, <2>10, <3>1
           DEF Coherent, Memory, ReplyHasOneTransaction, NothingLostOrRepeated, PendingOf,
               CompositorFlights
      <3>5. ResultsAreAcknowledged'
        BY <2>2, <2>3, <3>1, ResultNames DEF ResultsAreAcknowledged, CompletedAtCompositor
      <3>6. QED
        BY <3>2, <3>3, <3>4, <3>5 DEF Coherent
    <2>6. CASE tx \in CompositorFlights
      <3>1. /\ pr = peer.policy /\ pr.st = "Synchronized" /\ pr.wire = Silence
            /\ \/ tx' = tx /\ cr.st = "AwaitingReply" /\ cr = peer.compositor
               \/ /\ cr.st = "Synchronized" /\ cr.wire = Silence
                  /\ \/ tx' = Completed(tx) /\ cr.replay = PendingOf(tx)
                     \/ tx' = Rejected(tx)
        BY <1>3, <2>1, <2>2, <2>4, <2>6, <2>9, <2>10, ResultNames
           DEF Answered, CompositorFlights, Quiet
      <3>2. /\ Completed(tx) \in CompletedAtCompositor
            /\ Rejected(tx) \in RejectedAtCompositor
            /\ PendingOf(Completed(tx)) = PendingOf(tx)
            /\ PendingOf(Rejected(tx)) = PendingOf(tx)
        BY <2>6, ResultNames, ResultsOfSubmission
      <3>3. TypeOK'
        BY <2>2, <2>3, <2>6, <3>1, <3>2, ResultNames DEF Coherent, TypeOK, Flights
      <3>4. PendingOf(tx') = PendingOf(tx) /\ PendingOf(tx)' = PendingOf(tx)
        <4>1. PendingOf(tx)' = PendingOf(tx')
          BY <2>2 DEF PendingOf
        <4>2. QED
          BY <3>1, <3>2, <4>1
      <3>5. Stages'
        BY <1>1, <2>2, <2>3, <2>6, <2>10, <3>1, <3>4, Messages DEF Coherent, Stages, Asked
      <3>6. Memory' /\ ReplyHasOneTransaction' /\ NothingLostOrRepeated'
        BY <1>1, <2>2, <2>3, <2>6, <3>1, <3>2, <3>4
           DEF Coherent, Memory, ReplyHasOneTransaction, NothingLostOrRepeated,
               CompositorFlights, CompletedAtCompositor, RejectedAtCompositor
      <3>7. ResultsAreAcknowledged'
        BY <2>2, <2>3, <2>6, <3>1, <3>2, <3>4, ResultNames
           DEF ResultsAreAcknowledged, CompletedAtCompositor, RejectedAtCompositor,
               CompositorFlights
      <3>8. QED
        BY <3>3, <3>5, <3>6, <3>7 DEF Coherent
    <2>7. CASE tx \notin Flights
      <3>1. /\ pr = peer.policy /\ cr = peer.compositor /\ tx' = tx
        BY <1>3, <2>1, <2>2, <2>4, <2>7 DEF Answered, Flights
      <3>2. TypeOK'
        BY <2>2, <2>3, <3>1 DEF Coherent, TypeOK
      <3>3. Stages' /\ Memory' /\ ReplyHasOneTransaction' /\ NothingLostOrRepeated'
        BY <2>2, <2>3, <3>1
           DEF Coherent, Stages, Memory, ReplyHasOneTransaction, NothingLostOrRepeated, PendingOf
      <3>4. ResultsAreAcknowledged'
        BY <2>2, <2>3, <3>1 DEF Coherent, ResultsAreAcknowledged, PendingOf
      <3>5. QED
        BY <3>2, <3>3, <3>4 DEF Coherent
    <2>8. QED
      BY <2>5, <2>6, <2>7 DEF Flights
  <1>7. QED
    BY <1>2, <1>5, <1>6

\* Peers that make progress towards readiness: nothing else changes.
LEMMA ProgressCoherent ==
    ASSUME Coherent, stage \in {"Policy", "Compositor"},
           NEW pr \in Peer, NEW cr \in Peer,
           peer' = After(pr, cr),
           stage' \in {"Policy", "Compositor"},
           sceneSubmitted' \in BOOLEAN, sceneMissed' \in BOOLEAN,
           UNCHANGED <<outputModel, tx, resume, recovering, pending, age, submissions,
                       losses, owed>>,
           Quiet(pr), Quiet(cr),
           peer.policy.replay # 0 => pr.replay = peer.policy.replay,
           peer.compositor.replay # 0 => cr.replay = peer.compositor.replay,
           stage' = "Policy" => /\ cr.st \in {"Disconnected", "Synchronized"}
                                /\ outputModel => cr.st = "Synchronized"
                                /\ Replaying(pr),
           stage' = "Compositor" => /\ pr.st \in {"Disconnected", "Synchronized"}
                                    /\ ~outputModel => pr.st = "Synchronized"
                                    /\ Replaying(cr)
    PROVE  Coherent'
  <1>1. peer' \in [Peers -> Peer] /\ peer'.policy = pr /\ peer'.compositor = cr
    BY PairOfPeers
  <1>2. TypeOK'
    BY <1>1 DEF Coherent, TypeOK
  <1>3. Stages'
    BY <1>1 DEF Stages
  <1>4. Memory' /\ ReplyHasOneTransaction' /\ NothingLostOrRepeated'
    BY DEF Coherent, Memory, ReplyHasOneTransaction, NothingLostOrRepeated, PendingOf
  <1>5. PendingOf(tx)' = PendingOf(tx) /\ (tx # "None" => PendingOf(tx) # 0)
    BY DEF Coherent, Memory, NothingLostOrRepeated, PendingOf
  <1>6. ResultsAreAcknowledged'
    BY <1>1, <1>5, ResultNames
       DEF Coherent, ResultsAreAcknowledged, CompletedAtCompositor, PendingOf
  <1>7. QED
    BY <1>2, <1>3, <1>4, <1>6 DEF Coherent

\* The bridge becomes ready: what was interrupted is under way again.
LEMMA EnterReadyCoherent ==
    ASSUME Coherent, stage \in {"Policy", "Compositor"},
           NEW pr \in Peer, NEW cr \in Peer, EnterReady(pr, cr),
           Quiet(pr), Quiet(cr), pr.st = "Synchronized", cr.st = "Synchronized",
           peer.policy.replay # 0 => pr.replay = peer.policy.replay,
           peer.compositor.replay # 0 => cr.replay = peer.compositor.replay
    PROVE  Coherent'
  <1>1. /\ stage' = "Ready" /\ recovering' = FALSE /\ tx' = tx
        /\ UNCHANGED <<outputModel, sceneMissed, resume, sceneSubmitted, pending, age,
                       submissions, losses, owed>>
    BY DEF EnterReady, Coherent, Memory
  <1>2. /\ PendingOf(tx)' = PendingOf(tx) /\ (tx # "None" => PendingOf(tx) # 0)
        /\ PendingOf(tx) \in Ids
        /\ pending.policy \in Ids /\ pending.content \in Ids /\ pending.compositor \in Ids
    BY <1>1, BridgeAssumption
       DEF Coherent, Memory, NothingLostOrRepeated, PendingOf, TypeOK, Ids
  <1> DEFINE np == IF tx = "Policy" THEN Submitted(pr, "snapshot", pending.policy) ELSE pr
             what == IF tx = "Content" THEN "content" ELSE "snapshot"
             nc == IF tx \in CompositorFlights THEN Submitted(cr, what, PendingOf(tx)) ELSE cr
  <1>3. peer' = After(np, nc)
    <2>1. CASE ~recovering
      <3>1. tx = "None" /\ peer' = After(pr, cr)
        BY <2>1 DEF Coherent, Memory, EnterReady
      <3>2. QED
        BY <3>1 DEF CompositorFlights
    <2>2. CASE recovering
      <3>1. resume = tx
        BY <2>2 DEF Coherent, Memory
      <3>2. CASE tx = "Policy"
        <4>1. peer' = After(Submitted(pr, "snapshot", pending.policy), cr)
          BY <2>2, <3>1, <3>2 DEF EnterReady
        <4>2. QED
          BY <3>2, <4>1 DEF CompositorFlights
      <3>3. CASE tx = "Content"
        <4>1. peer' = After(pr, Submitted(cr, "content", pending.content))
          BY <2>2, <3>1, <3>3 DEF EnterReady
        <4>2. PendingOf(tx) = pending.content
          BY <3>3 DEF PendingOf
        <4>3. QED
          BY <3>3, <4>1, <4>2 DEF CompositorFlights
      <3>4. CASE tx \in CompositorFlights \ {"Content"}
        <4>1. peer' = After(pr, Submitted(cr, "snapshot", pending.compositor))
          BY <2>2, <3>1, <3>4 DEF EnterReady, CompositorFlights
        <4>2. PendingOf(tx) = pending.compositor
          BY <3>4 DEF PendingOf, CompositorFlights
        <4>3. QED
          BY <3>4, <4>1, <4>2 DEF CompositorFlights
      <3>5. CASE tx \notin {"Policy"} \cup CompositorFlights
        <4>1. peer' = After(pr, cr)
          BY <2>2, <3>1, <3>5 DEF EnterReady, CompositorFlights
        <4>2. QED
          BY <3>5, <4>1
      <3>6. QED
        BY <3>2, <3>3, <3>4, <3>5
    <2>3. QED
      BY <2>1, <2>2 DEF Coherent, TypeOK
  <1>4. /\ np \in Peer /\ Quiet(np) /\ Asked(np, pending.policy) /\ np.replay = pr.replay
        /\ np.st = IF tx = "Policy" THEN "AwaitingReply" ELSE "Synchronized"
    <2>1. CASE tx = "Policy"
      BY <1>2, <2>1, SubmittedPeer, SubmittedAsks DEF Quiet
    <2>2. CASE tx # "Policy"
      BY <2>2, Messages DEF Quiet, Asked
    <2>3. QED
      BY <2>1, <2>2
  <1>5. /\ nc \in Peer /\ Quiet(nc) /\ Asked(nc, PendingOf(tx)) /\ nc.replay = cr.replay
        /\ nc.st = IF tx \in CompositorFlights THEN "AwaitingReply" ELSE "Synchronized"
    <2>1. CASE tx \in CompositorFlights
      <3>1. what \in {"snapshot", "content"} /\ what \in {"inventory", "snapshot", "content"}
        OBVIOUS
      <3>2. nc = Submitted(cr, what, PendingOf(tx))
        BY <2>1
      <3> HIDE DEF what, nc
      <3>3. nc \in Peer /\ nc.st = "AwaitingReply" /\ nc.replay = cr.replay
        BY <1>2, <3>1, <3>2, SubmittedPeer, Zenon
      <3>4. Asked(nc, PendingOf(tx))
        BY <1>2, <3>1, <3>2, SubmittedAsks
      <3>5. QED
        BY <2>1, <3>3, <3>4 DEF Quiet
    <2>2. CASE tx \notin CompositorFlights
      BY <2>2, Messages DEF Quiet, Asked
    <2>3. QED
      BY <2>1, <2>2
  <1> HIDE DEF np, nc
  <1>6. peer' \in [Peers -> Peer] /\ peer'.policy = np /\ peer'.compositor = nc
    BY <1>3, <1>4, <1>5, PairOfPeers
  <1>7. TypeOK'
    BY <1>1, <1>6 DEF Coherent, TypeOK
  <1>8. Stages'
    BY <1>1, <1>2, <1>4, <1>5, <1>6 DEF Stages
  <1>9. Memory' /\ ReplyHasOneTransaction' /\ NothingLostOrRepeated'
    BY <1>1, <1>2, <1>4, <1>5, <1>6
       DEF Coherent, Memory, ReplyHasOneTransaction, NothingLostOrRepeated
  <1>10. ResultsAreAcknowledged'
    BY <1>1, <1>2, <1>4, <1>5, <1>6, ResultNames
       DEF Coherent, ResultsAreAcknowledged, CompletedAtCompositor, PendingOf
  <1>11. QED
    BY <1>7, <1>8, <1>9, <1>10 DEF Coherent

\* The compositor's part of a turn, after the policy peer's.
LEMMA CompositorTurnCoherent ==
    ASSUME Coherent, stage \in {"Policy", "Compositor"},
           NEW pr \in Peer, CompositorTurn(pr), Quiet(pr), Replaying(pr),
           pr.st \in {"Disconnected", "Synchronized"},
           ~outputModel => pr.st = "Synchronized",
           peer.policy.replay # 0 => pr.replay = peer.policy.replay
    PROVE  Coherent'
  <1>1. CASE BootstrapFails(peer.compositor) /\ Fail
    BY <1>1, FailCoherent
  <1>2. CASE ~BootstrapFails(peer.compositor)
    <2>1. peer.compositor \in Peer /\ Quiet(peer.compositor)
      BY PeersInCoherent DEF Coherent, Stages
    <2>2. Replaying(peer.compositor)
      <3>1. CASE stage = "Compositor"
        BY <3>1 DEF Coherent, Stages
      <3>2. CASE stage = "Policy"
        BY <2>1, <3>2, Messages DEF Coherent, Stages, Quiet, Replaying
      <3>3. QED
        BY <3>1, <3>2
    <2>3. PICK cr \in Bootstraps("compositor", peer.compositor) :
            \/ /\ cr.st = "Synchronized"
               /\ outputModel => pr.st # "Disconnected" /\ sceneSubmitted
               /\ EnterReady(pr, cr)
            \/ /\ cr.st # "Synchronized"
               /\ stage' = "Compositor"
               /\ peer' = After(pr, cr)
               /\ sceneMissed' \in BOOLEAN
               /\ UNCHANGED <<outputModel, tx, resume, recovering, sceneSubmitted, pending,
                              age, submissions, losses, owed>>
            \/ /\ cr.st = "Synchronized" /\ outputModel
               /\ pr.st = "Disconnected"
               /\ stage' = "Policy"
               /\ peer' = After(pr, cr)
               /\ sceneMissed' \in BOOLEAN
               /\ UNCHANGED <<outputModel, tx, resume, recovering, sceneSubmitted, pending,
                              age, submissions, losses, owed>>
            \/ /\ cr.st = "Synchronized" /\ outputModel
               /\ pr.st # "Disconnected" /\ ~sceneSubmitted
               /\ stage' = "Compositor"
               /\ peer' = After(pr, Submitted(cr, "snapshot", FirstOr(cr.replay)))
               /\ sceneSubmitted' = TRUE
               /\ sceneMissed' \in BOOLEAN
               /\ UNCHANGED <<outputModel, tx, resume, recovering, pending, age, submissions,
                              losses, owed>>
      BY <1>2 DEF CompositorTurn, Fail, Coherent, TypeOK
    <2>4. /\ cr \in Peer /\ Quiet(cr) /\ Replaying(cr)
          /\ peer.compositor.replay # 0 => cr.replay = peer.compositor.replay
      BY <1>2, <2>1, <2>2, BootstrapTurn
    <2>5. sceneSubmitted \in BOOLEAN
      BY DEF Coherent, TypeOK
    <2>6. CASE cr.st = "Synchronized" /\ pr.st = "Synchronized" /\ EnterReady(pr, cr)
      BY <2>4, <2>6, EnterReadyCoherent
    <2>7. CASE /\ stage' \in {"Policy", "Compositor"}
               /\ peer' = After(pr, cr)
               /\ stage' = "Policy" => cr.st = "Synchronized"
               /\ sceneMissed' \in BOOLEAN
               /\ UNCHANGED <<outputModel, tx, resume, recovering, sceneSubmitted, pending,
                              age, submissions, losses, owed>>
      BY <2>4, <2>5, <2>7, ProgressCoherent
    <2>8. CASE /\ stage' = "Compositor"
               /\ peer' = After(pr, Submitted(cr, "snapshot", FirstOr(cr.replay)))
               /\ sceneSubmitted' = TRUE
               /\ sceneMissed' \in BOOLEAN
               /\ UNCHANGED <<outputModel, tx, resume, recovering, pending, age, submissions,
                              losses, owed>>
      <3> DEFINE nc == Submitted(cr, "snapshot", FirstOr(cr.replay))
      <3>1. FirstOr(cr.replay) \in Ids
        BY <2>4, Messages DEF Peer
      <3>2. nc \in Peer /\ nc.st = "AwaitingReply" /\ nc.replay = cr.replay
        BY <2>4, <3>1, SubmittedPeer
      <3>3. Asked(nc, FirstOr(cr.replay))
        BY <2>4, <3>1, SubmittedAsks
      <3> HIDE DEF nc
      <3>4. Quiet(nc) /\ Replaying(nc)
        BY <3>2, <3>3 DEF Quiet, Asked, Replaying
      <3>5. peer' = After(pr, nc)
        BY <2>8 DEF nc
      <3>6. QED
        BY <2>4, <2>8, <3>2, <3>4, <3>5, ProgressCoherent
    <2>9. QED
      BY <2>3, <2>6, <2>7, <2>8
  <1>3. QED
    BY <1>1, <1>2 DEF CompositorTurn

\* The turns of a bridge that is not ready.
LEMMA ServiceBootstrapCoherent ==
    ASSUME Coherent, ServiceBootstrap
    PROVE  Coherent'
  <1>1. peer.policy \in Peer /\ peer.compositor \in Peer
        /\ Quiet(peer.policy) /\ Quiet(peer.compositor)
    BY PeersInCoherent DEF Coherent, Stages
  <1>2. CASE stage = "Compositor" /\ CompositorTurn(peer.policy)
    <2>1. Replaying(peer.policy)
      BY <1>1, <1>2, Messages DEF Coherent, Stages, Quiet, Replaying
    <2>2. QED
      BY <1>1, <1>2, <2>1, CompositorTurnCoherent DEF Coherent, Stages
  <1>3. CASE stage = "Policy" /\ PolicyTurn
    <2>1. CASE BootstrapFails(peer.policy) /\ Fail
      BY <2>1, FailCoherent
    <2>2. CASE ~BootstrapFails(peer.policy)
      <3>1. PICK r \in Bootstraps("policy", peer.policy) :
              LET pr == IF outputModel /\ r.st = "Connecting" /\ r.link = "established"
                        THEN Submitted(r, "snapshot", 1) ELSE r
              IN IF pr.st = "Synchronized"
                 THEN CompositorTurn(pr)
                 ELSE /\ peer' = [peer EXCEPT !.policy = pr]
                      /\ UNCHANGED <<outputModel, sceneMissed, stage, tx, resume, recovering, sceneSubmitted,
                                     pending, age, submissions, losses, owed>>
        BY <1>3, <2>2 DEF PolicyTurn
      <3>2. /\ r \in Peer /\ Quiet(r) /\ Replaying(r)
            /\ peer.policy.replay # 0 => r.replay = peer.policy.replay
        BY <1>1, <1>3, <2>2, BootstrapTurn DEF Coherent, Stages
      <3>3. r.st = "Connecting" /\ r.link = "established" /\ outputModel => r.replay = 0
        BY <1>1, <2>2, PolicyConnects
      <3> DEFINE pr == IF outputModel /\ r.st = "Connecting" /\ r.link = "established"
                       THEN Submitted(r, "snapshot", 1) ELSE r
      <3>4. /\ pr \in Peer /\ Quiet(pr) /\ Replaying(pr) /\ pr.replay = r.replay
        <4>1. CASE outputModel /\ r.st = "Connecting" /\ r.link = "established"
          <5>1. pr = Submitted(r, "snapshot", 1) /\ FirstOr(r.replay) = 1 /\ 1 \in Ids
            BY <3>3, <4>1, BridgeAssumption DEF FirstOr, Ids
          <5> HIDE DEF pr
          <5>2. pr \in Peer /\ pr.st = "AwaitingReply" /\ pr.replay = r.replay
            BY <3>2, <5>1, SubmittedPeer
          <5>3. Asked(pr, 1)
            BY <3>2, <5>1, SubmittedAsks
          <5>4. QED
            BY <5>1, <5>2, <5>3 DEF Quiet, Asked, Replaying
        <4>2. CASE ~(outputModel /\ r.st = "Connecting" /\ r.link = "established")
          BY <3>2, <4>2
        <4>3. QED
          BY <4>1, <4>2
      <3>5. CASE pr.st = "Synchronized"
        <4>1. CompositorTurn(pr)
          BY <3>1, <3>5
        <4> HIDE DEF pr
        <4>2. QED
          BY <1>3, <3>2, <3>4, <3>5, <4>1, CompositorTurnCoherent
      <3>6. CASE pr.st # "Synchronized"
        <4>1. /\ peer' = [peer EXCEPT !.policy = pr]
              /\ UNCHANGED <<outputModel, sceneMissed, stage, tx, resume, recovering, sceneSubmitted,
                             pending, age, submissions, losses, owed>>
          BY <3>1, <3>6
        <4> HIDE DEF pr
        <4>2. peer' = After(pr, peer.compositor)
          BY <4>1 DEF Coherent, TypeOK, After
        <4>3. QED
          BY <1>1, <1>3, <3>2, <3>4, <4>1, <4>2, ProgressCoherent
             DEF Coherent, Stages, TypeOK
      <3>7. QED
        BY <3>5, <3>6
    <2>3. QED
      BY <1>3, <2>1, <2>2 DEF PolicyTurn
  <1>4. QED
    BY <1>2, <1>3 DEF ServiceBootstrap

\* Coherent is an invariant of the bridge.
THEOREM CoherentHolds == Spec => []Coherent
  <1>1. Init => Coherent
    BY InitCoherent
  <1>2. Coherent /\ [Next]_vars => Coherent'
    <2>1. ASSUME Coherent, UNCHANGED vars
          PROVE  Coherent'
      <3>1. /\ stage' = stage /\ tx' = tx /\ resume' = resume /\ recovering' = recovering
            /\ sceneSubmitted' = sceneSubmitted /\ pending' = pending /\ peer' = peer
            /\ age' = age /\ submissions' = submissions /\ losses' = losses /\ owed' = owed
            /\ outputModel' = outputModel /\ sceneMissed' = sceneMissed
        BY <2>1 DEF vars
      <3>2. TypeOK'
        BY <2>1, <3>1 DEF Coherent, TypeOK
      <3>3. Stages' /\ Memory' /\ ReplyHasOneTransaction' /\ NothingLostOrRepeated'
        BY <2>1, <3>1 DEF Coherent, Stages, Memory, ReplyHasOneTransaction,
                          NothingLostOrRepeated, PendingOf
      <3>4. ResultsAreAcknowledged'
        BY <2>1, <3>1 DEF Coherent, ResultsAreAcknowledged, PendingOf
      <3>5. QED
        BY <3>2, <3>3, <3>4 DEF Coherent
    <2>2. ASSUME Coherent, DeadlineExpires
          PROVE  Coherent'
      BY <2>2, FailCoherent DEF DeadlineExpires
    <2>3. QED
      BY <2>1, <2>2, ServiceReadyCoherent, ServiceBootstrapCoherent, SubmitCoherent,
         TakeResultCoherent, EnvironmentCoherent
         DEF Next, Service
  <1>3. QED
    BY <1>1, <1>2, PTL DEF Spec

\* Every variable keeps its type.
THEOREM BridgeTypeCorrect == Spec => []TypeOK
  BY CoherentHolds, PTL DEF Coherent

\* A reply is only taken for the answer to the one transaction in flight.
THEOREM OneTransactionPerReply == Spec => []ReplyHasOneTransaction
  BY CoherentHolds, PTL DEF Coherent

\* No lost connection makes the bridge lose a transaction or report it twice.
THEOREM TransactionsSurvive == Spec => []NothingLostOrRepeated
  BY CoherentHolds, PTL DEF Coherent

\* A reported success is an acknowledgement of that very submission.
THEOREM SuccessIsAcknowledged == Spec => []ResultsAreAcknowledged
  BY CoherentHolds, PTL DEF Coherent

-----------------------------------------------------------------------------
(***************************************************************************)
(* What the processes hold.  An inventory is asked for on a connection on  *)
(* which no scene was sent; whether one follows it depends on              *)
(* output_scene_submitted_, and a compositor is excused from holding one   *)
(* while the scene is still to be sent or was missed.                      *)
(***************************************************************************)

Excused(p) == p = "compositor" /\ (sceneMissed \/ (outputModel /\ ~sceneSubmitted))

\* What the process at the other end of a connection holds: nothing without
\* the connection, what it acknowledged last when nothing is asked of it
\* (or nothing, when x excuses it), and what it has just accepted.
Kept(r, x) ==
    /\ r.st = "Disconnected" => r.link = "none"
    /\ r.link = "connecting" => r.st = "Connecting"
    /\ r.link # "established" \/ r.st \in {"Disconnected", "Connecting"} => r.held = 0
    /\ r.link = "established" /\ r.st = "Synchronized" => r.held = r.replay \/ (x /\ r.held = 0)
    /\ r.link = "established" /\ r.wire.kind = "accepted" => r.held = r.wire.id
    /\ r.wire.kind # "none" /\ r.wire.what = "inventory" => x /\ r.held = 0 /\ r.wire.id = 0

\* A process that is asked, or refuses, still holds what it acknowledged last.
Answerable(r, x) ==
    r.link = "established" /\ r.wire.kind \in {"request", "rejected"}
    => r.held = r.replay \/ (x /\ r.held = 0)

Retained ==
    /\ \A p \in Peers : /\ Kept(peer[p], Excused(p))
                        /\ stage = "Ready" => Answerable(peer[p], Excused(p))
    /\ outputModel /\ peer.compositor.st \in {"Disconnected", "Connecting"}
       => Excused("compositor")
    /\ stage = "Ready" /\ outputModel => sceneSubmitted

\* disconnect() forgets what the process held.
LEMMA ClosedKept ==
    ASSUME NEW r \in Peer, NEW x \in BOOLEAN
    PROVE  Kept(Closed(r), x)
  BY DEF Closed, Kept, Silence, Peer

\* Who is excused more holds no less.
LEMMA ExcuseWidens ==
    ASSUME NEW r, NEW x \in BOOLEAN, NEW y \in BOOLEAN, x => y
    PROVE  /\ Kept(r, x) => Kept(r, y)
           /\ Answerable(r, x) => Answerable(r, y)
  BY DEF Kept, Answerable

\* A request changes nothing of what the process holds.
LEMMA SubmittedKept ==
    ASSUME NEW r \in Peer, NEW what \in {"snapshot", "content"}, NEW id \in Ids,
           NEW x \in BOOLEAN, NEW y \in BOOLEAN, Kept(r, x), r.link # "connecting"
    PROVE  /\ Kept(Submitted(r, what, id), y)
           /\ r.st = "Synchronized" => Answerable(Submitted(r, what, id), x)
  <1> DEFINE z == Submitted(r, what, id)
  <1>1. /\ z.st = "AwaitingReply" /\ z.link = r.link /\ z.held = r.held
        /\ z.replay = r.replay
        /\ z.wire = IF r.link = "established" THEN Sent(what, id) ELSE Silence
    BY DEF Submitted, Peer
  <1>2. z.wire.kind # "accepted" /\ z.wire.what # "inventory"
    BY <1>1 DEF Sent, Silence
  <1> HIDE DEF z
  <1>3. Kept(z, y)
    BY <1>1, <1>2 DEF Kept
  <1>4. r.st = "Synchronized" => Answerable(z, x)
    BY <1>1 DEF Kept, Answerable, Silence
  <1>5. QED
    BY <1>3, <1>4 DEF z

\* The inventory is asked for where nothing is held.
LEMMA InventoryKept ==
    ASSUME NEW r \in Peer, Kept(r, TRUE), r.st = "Connecting", r.link = "established"
    PROVE  Kept(Submitted(r, "inventory", 0), TRUE)
  <1> DEFINE z == Submitted(r, "inventory", 0)
  <1>1. /\ z.st = "AwaitingReply" /\ z.link = r.link /\ z.held = r.held
        /\ z.wire = Sent("inventory", 0)
    BY DEF Submitted, Peer
  <1>2. z.wire.kind = "request" /\ z.wire.what = "inventory" /\ z.wire.id = 0
    BY <1>1 DEF Sent
  <1> HIDE DEF z
  <1>3. Kept(z, TRUE)
    BY <1>1, <1>2 DEF Kept
  <1>4. QED
    BY <1>3 DEF z

\* process() keeps what a process holds and what it acknowledged together.
LEMMA ProcessedKept ==
    ASSUME NEW r \in Peer, NEW p \in Peers, NEW x \in BOOLEAN, Quiet(r), Kept(r, x),
           p = "compositor" /\ outputModel /\ r.st = "Connecting" => x,
           Outcome(r) # "Fatal", Outcome(r) = "SemanticRejected" => Answerable(r, x)
    PROVE  /\ Kept(Processed(p, r), x)
           /\ Answerable(r, x) /\ r.st # "Connecting" => Answerable(Processed(p, r), x)
  <1>1. CASE Outcome(r) = "Disconnected"
    BY <1>1 DEF Processed
  <1>2. CASE Outcome(r) # "Disconnected" /\ r.st = "Connecting" /\ r.link = "established"
    <2>1. Processed(p, r) = Bootstrapped(p, r)
      BY <1>2 DEF Processed
    <2>2. CASE p = "compositor" /\ outputModel
      <3>1. Bootstrapped(p, r) = Submitted(r, "inventory", 0) /\ x = TRUE
        BY <1>2, <2>2 DEF Bootstrapped
      <3>2. QED
        BY <1>2, <2>1, <3>1, InventoryKept
    <2>3. CASE Bootstrapped(p, r) = r
      BY <2>1, <2>3
    <2>4. CASE Bootstrapped(p, r) = Submitted(r, "snapshot", FirstOr(r.replay))
      <3>1. FirstOr(r.replay) \in Ids
        BY Messages DEF Peer
      <3>2. QED
        BY <1>2, <2>1, <2>4, <3>1, SubmittedKept
    <2>5. QED
      BY <1>2, <2>1, <2>2, <2>3, <2>4 DEF Bootstrapped
  <1>3. CASE /\ Outcome(r) # "Disconnected"
             /\ ~(r.st = "Connecting" /\ r.link = "established")
             /\ r.wire.kind \in {"accepted", "rejected"}
    <2> DEFINE z == Processed(p, r)
    <2>1. z = [r EXCEPT !.st = "Synchronized", !.wire = Silence,
                        !.replay = IF r.wire.kind = "accepted" /\ r.wire.what # "inventory"
                                   THEN r.wire.id ELSE r.replay]
      BY <1>3 DEF Processed
    <2>2. /\ z.st = "Synchronized" /\ z.link = r.link /\ z.held = r.held /\ z.wire = Silence
          /\ z.replay = IF r.wire.kind = "accepted" /\ r.wire.what # "inventory"
                        THEN r.wire.id ELSE r.replay
      BY <2>1 DEF Peer
    <2>3. r.st = "AwaitingReply"
      BY <1>3, Messages DEF Quiet
    <2>4. r.link # "connecting" /\ (r.wire.kind = "rejected" => Answerable(r, x))
      BY <1>3, <2>3 DEF Outcome, Kept
    <2>5. r.link = "established" => r.held = z.replay \/ (x /\ r.held = 0)
      BY <1>3, <2>2, <2>4 DEF Kept, Answerable
    <2> HIDE DEF z
    <2>6. Kept(z, x) /\ Answerable(z, x)
      BY <2>2, <2>3, <2>4, <2>5 DEF Kept, Answerable, Silence
    <2>7. QED
      BY <2>6 DEF z
  <1>4. CASE /\ Outcome(r) # "Disconnected"
             /\ ~(r.st = "Connecting" /\ r.link = "established")
             /\ r.wire.kind \notin {"accepted", "rejected"}
    BY <1>4 DEF Processed
  <1>5. QED
    BY <1>1, <1>2, <1>3, <1>4

\* A turn of a bootstrap, likewise: a refused bootstrap is no turn.
LEMMA BootstrapKept ==
    ASSUME NEW r \in Peer, NEW p \in Peers, NEW z \in Bootstraps(p, r), NEW x \in BOOLEAN,
           Quiet(r), Kept(r, x), ~BootstrapFails(r),
           p = "compositor" /\ outputModel /\ r.st = "Connecting" => x
    PROVE  /\ Kept(z, x)
           /\ z.st = "Connecting" => r.st \in {"Disconnected", "Connecting"}
  <1>1. CASE r.st = "Disconnected"
    <2>1. z = r \/ z = [r EXCEPT !.st = "Connecting", !.link = "connecting"]
      BY <1>1 DEF Bootstraps
    <2>2. CASE z = [r EXCEPT !.st = "Connecting", !.link = "connecting"]
      <3>1. /\ z.st = "Connecting" /\ z.link = "connecting" /\ z.held = r.held
            /\ z.wire = r.wire /\ z.replay = r.replay
        BY <2>2 DEF Peer
      <3>2. QED
        BY <1>1, <3>1 DEF Kept
    <2>3. QED
      BY <1>1, <2>1, <2>2
  <1>2. CASE r.st \in {"Connecting", "AwaitingReply"} /\ Outcome(r) = "Disconnected"
    BY <1>2, ClosedKept, ClosedPeer DEF Bootstraps
  <1>3. CASE r.st \in {"Connecting", "AwaitingReply"} /\ Outcome(r) # "Disconnected"
    <2>1. /\ z = Processed(p, r) /\ Outcome(r) # "Fatal" /\ Outcome(r) # "SemanticRejected"
      BY <1>3 DEF Bootstraps, BootstrapFails
    <2>2. Kept(z, x)
      BY <2>1, ProcessedKept
    <2>3. r.st = "AwaitingReply" => z.st # "Connecting"
      BY <2>1, <1>3 DEF Processed, Peer
    <2>4. QED
      BY <1>3, <2>2, <2>3
  <1>4. CASE r.st = "Synchronized"
    BY <1>4 DEF Bootstraps
  <1>5. QED
    BY <1>1, <1>2, <1>3, <1>4 DEF Peer, PeerStates

\* What is asked of one peer leaves the other alone.
LEMMA OnePeerRetained ==
    ASSUME TypeOK, Retained, NEW p \in Peers, NEW r,
           peer' = [peer EXCEPT ![p] = r],
           UNCHANGED <<outputModel, sceneMissed, sceneSubmitted, stage>>,
           Kept(r, Excused(p)), stage = "Ready" => Answerable(r, Excused(p)),
           p = "compositor" /\ r.st \in {"Disconnected", "Connecting"} => r.st = peer[p].st
    PROVE  Retained'
  <1>1. \A q \in Peers : /\ peer'[q] = IF q = p THEN r ELSE peer[q]
                         /\ Excused(q)' = Excused(q)
    BY DEF TypeOK, Excused
  <1>2. peer.compositor = peer["compositor"]
    OBVIOUS
  <1>3. QED
    BY <1>1, <1>2 DEF Retained

\* Both peers at once.
LEMMA BothRetained ==
    ASSUME NEW pr, NEW cr, peer' = After(pr, cr),
           Kept(pr, FALSE), Kept(cr, Excused("compositor")'),
           stage' = "Ready" => Answerable(pr, FALSE) /\ Answerable(cr, Excused("compositor")'),
           outputModel' /\ cr.st \in {"Disconnected", "Connecting"} => Excused("compositor")',
           stage' = "Ready" /\ outputModel' => sceneSubmitted'
    PROVE  Retained'
  <1>1. peer'["policy"] = pr /\ peer'["compositor"] = cr
    BY DEF After
  <1>2. Excused("policy")' = FALSE
    BY DEF Excused
  <1>3. QED
    BY <1>1, <1>2 DEF Retained

\* What Retained says of each peer.
LEMMA RetainedPeers ==
    ASSUME Coherent, Retained
    PROVE  /\ peer.policy \in Peer /\ Quiet(peer.policy) /\ Kept(peer.policy, FALSE)
           /\ peer.compositor \in Peer /\ Quiet(peer.compositor)
           /\ Kept(peer.compositor, Excused("compositor"))
           /\ stage = "Ready" => /\ Answerable(peer.policy, FALSE)
                                 /\ Answerable(peer.compositor, Excused("compositor"))
           /\ Excused("compositor") \in BOOLEAN
           /\ outputModel \in BOOLEAN /\ sceneMissed \in BOOLEAN /\ sceneSubmitted \in BOOLEAN
  <1>1. Excused("policy") = FALSE
    BY DEF Excused
  <1>2. Excused("compositor") \in BOOLEAN
    BY DEF Excused, Coherent, TypeOK
  <1>3. QED
    BY <1>1, <1>2, PeersInCoherent DEF Coherent, Stages, Retained, TypeOK

\* Connections that are made, lost and answered on.
LEMMA EnvironmentRetained ==
    ASSUME Coherent, Retained,
           \/ \E p \in Peers : Establish(p) \/ Lose(p)
           \/ \E p \in Peers, result \in {"accepted", "rejected", "invalid"} : Answer(p, result)
    PROVE  Retained'
  <1>0. /\ TypeOK
        /\ \A p \in Peers : /\ peer[p] \in Peer /\ Quiet(peer[p])
                            /\ Excused(p) \in BOOLEAN /\ Kept(peer[p], Excused(p))
                            /\ stage = "Ready" => Answerable(peer[p], Excused(p))
    BY PeersInCoherent, RetainedPeers DEF Coherent, Stages, Retained, Excused
  <1>1. ASSUME NEW p \in Peers, Establish(p)
        PROVE  Retained'
    <2> DEFINE r == [peer[p] EXCEPT !.link = "established"]
    <2>1. /\ r.st = peer[p].st /\ r.wire = peer[p].wire /\ r.held = peer[p].held
          /\ r.replay = peer[p].replay /\ r.link = "established"
      BY <1>0 DEF Peer
    <2>2. /\ peer' = [peer EXCEPT ![p] = r] /\ peer[p].link = "connecting"
          /\ UNCHANGED <<outputModel, sceneMissed, sceneSubmitted, stage>>
      BY <1>0, <1>1 DEF Establish, TypeOK
    <2> HIDE DEF r
    <2>3. r.st = "Connecting" /\ r.wire = Silence
      BY <1>0, <2>1, <2>2 DEF Kept, Quiet
    <2>4. Kept(r, Excused(p)) /\ Answerable(r, Excused(p))
      BY <1>0, <2>1, <2>2, <2>3 DEF Kept, Answerable, Silence
    <2>5. QED
      BY <1>0, <2>1, <2>2, <2>4, OnePeerRetained
  <1>2. ASSUME NEW p \in Peers, Lose(p)
        PROVE  Retained'
    <2> DEFINE r == [peer[p] EXCEPT !.link = "lost", !.wire = Silence, !.held = 0]
    <2>1. /\ r.st = peer[p].st /\ r.wire = Silence /\ r.held = 0
          /\ r.replay = peer[p].replay /\ r.link = "lost"
      BY <1>0 DEF Peer
    <2>2. /\ peer' = [peer EXCEPT ![p] = r] /\ peer[p].link # "none"
          /\ UNCHANGED <<outputModel, sceneMissed, sceneSubmitted, stage>>
      BY <1>0, <1>2 DEF Lose, TypeOK, Peer
    <2> HIDE DEF r
    <2>3. Kept(r, Excused(p)) /\ Answerable(r, Excused(p))
      BY <1>0, <2>1, <2>2 DEF Kept, Answerable, Silence
    <2>4. QED
      BY <1>0, <2>1, <2>2, <2>3, OnePeerRetained
  <1>3. ASSUME NEW p \in Peers, NEW result \in {"accepted", "rejected", "invalid"},
               Answer(p, result)
        PROVE  Retained'
    <2> DEFINE w == [peer[p].wire EXCEPT !.kind = result]
               h == IF result = "accepted" /\ peer[p].wire.what # "inventory"
                    THEN peer[p].wire.id ELSE peer[p].held
               r == [peer[p] EXCEPT !.wire = w, !.held = h]
    <2>1. peer[p] \in Peer /\ peer[p].wire \in Wire
      BY <1>0 DEF Peer
    <2>2. /\ w.kind = result /\ w.what = peer[p].wire.what /\ w.id = peer[p].wire.id
          /\ r.st = peer[p].st /\ r.link = peer[p].link /\ r.replay = peer[p].replay
          /\ r.wire = w /\ r.held = h
      BY <2>1 DEF Peer, Wire
    <2>3. /\ peer' = [peer EXCEPT ![p] = r]
          /\ UNCHANGED <<outputModel, sceneMissed, sceneSubmitted, stage>>
          /\ peer[p].link = "established" /\ peer[p].wire.kind = "request"
      BY <1>3, <2>1 DEF Answer, Coherent, TypeOK
    <2>4. peer[p].st = "AwaitingReply"
      BY <1>0, <2>3, Messages DEF Quiet
    <2> HIDE DEF w, r
    <2>5. Kept(r, Excused(p))
      BY <1>0, <2>2, <2>3, <2>4 DEF Kept
    <2>6. stage = "Ready" => Answerable(r, Excused(p))
      BY <1>0, <2>2, <2>3 DEF Answerable
    <2>7. QED
      BY <1>0, <2>2, <2>3, <2>4, <2>5, <2>6, OnePeerRetained
  <1>4. QED
    BY <1>1, <1>2, <1>3

\* The submissions of the runtime.
LEMMA SubmitRetained ==
    ASSUME Coherent, Retained, NEW p \in Peers, NEW t, NEW what \in {"snapshot", "content"},
           NEW slots, Submit(p, t, what, slots)
    PROVE  Retained'
  <1> DEFINE r == Submitted(peer[p], what, submissions + 2)
  <1>1. peer[p] \in Peer /\ Excused(p) \in BOOLEAN /\ Kept(peer[p], Excused(p)) /\ TypeOK
    BY PeersInCoherent, RetainedPeers DEF Coherent, Retained, Excused
  <1>2. submissions + 2 \in Ids
    BY BridgeAssumption DEF Coherent, TypeOK, Ids, Submit
  <1>3. /\ peer' = [peer EXCEPT ![p] = r]
        /\ UNCHANGED <<outputModel, sceneMissed, sceneSubmitted, stage>>
        /\ peer[p].st = "Synchronized" /\ peer[p].link # "connecting"
    BY <1>1 DEF Submit, Kept
  <1>4. Kept(r, Excused(p)) /\ Answerable(r, Excused(p)) /\ r.st = "AwaitingReply"
    BY <1>1, <1>2, <1>3, SubmittedKept, SubmittedPeer
  <1> HIDE DEF r
  <1>5. QED
    BY <1>1, <1>3, <1>4, OnePeerRetained

\* A turn of the ready bridge.
LEMMA ServiceReadyRetained ==
    ASSUME Coherent, Retained, ServiceReady
    PROVE  Retained'
  <1> DEFINE pr == Processed("policy", peer.policy)
             cr == Processed("compositor", peer.compositor)
             outcomes == {Outcome(peer[p]) : p \in Peers}
             x == Excused("compositor")
  <1>1. /\ peer.policy \in Peer /\ Quiet(peer.policy)
        /\ Kept(peer.policy, FALSE) /\ Answerable(peer.policy, FALSE)
        /\ peer.compositor \in Peer /\ Quiet(peer.compositor)
        /\ Kept(peer.compositor, x) /\ Answerable(peer.compositor, x)
        /\ x \in BOOLEAN /\ stage = "Ready"
        /\ outputModel \in BOOLEAN /\ sceneMissed \in BOOLEAN /\ sceneSubmitted \in BOOLEAN
        /\ outputModel => sceneSubmitted
    BY RetainedPeers DEF ServiceReady, Retained
  <1>2. /\ peer.policy.st \in {"AwaitingReply", "Synchronized"}
        /\ peer.compositor.st \in {"AwaitingReply", "Synchronized"}
    BY <1>1 DEF Coherent, ReplyHasOneTransaction
  <1>3. CASE "Fatal" \in outcomes
    BY <1>1, <1>3 DEF ServiceReady, Retained, Excused
  <1>4. CASE "Fatal" \notin outcomes
    <2>1. Outcome(peer.policy) # "Fatal" /\ Outcome(peer.compositor) # "Fatal"
      BY <1>4
    <2>2. Kept(pr, FALSE) /\ Kept(cr, x) /\ Answerable(pr, FALSE) /\ Answerable(cr, x)
      BY <1>1, <1>2, <2>1, ProcessedKept
    <2>3. /\ pr \in Peer /\ cr \in Peer
          /\ cr.st \in {"AwaitingReply", "Synchronized"}
      BY <1>1, <1>2, <2>1, ProcessedPeer
    <2>4. CASE "Disconnected" \in outcomes /\ Recover(pr, cr)
      <3> HIDE DEF pr, cr
      <3>1. /\ Kept(Closed(pr), FALSE)
            /\ Kept(Closed(cr), TRUE) /\ Kept(Closed(cr), FALSE)
        BY <2>3, ClosedKept
      <3>2. PICK y \in {pr, Closed(pr)}, z \in {cr, Closed(cr)} :
              /\ stage' # "Ready" /\ peer' = After(y, z)
              /\ \/ z = cr /\ UNCHANGED <<outputModel, sceneMissed, sceneSubmitted>>
                 \/ z = Closed(cr) /\ (outputModel => Excused("compositor")')
        BY <1>1, <2>4 DEF Recover, Excused
      <3>3. Kept(y, FALSE)
        BY <2>2, <3>1
      <3>4. CASE z = cr /\ UNCHANGED <<outputModel, sceneMissed, sceneSubmitted>>
        <4>1. Excused("compositor")' = x
          BY <3>4 DEF Excused
        <4>2. QED
          BY <2>2, <2>3, <3>2, <3>3, <3>4, <4>1, BothRetained
      <3>5. CASE z = Closed(cr) /\ (outputModel => Excused("compositor")')
        <4>1. outputModel' = outputModel /\ Excused("compositor")' \in BOOLEAN
          BY <1>1, <2>4 DEF Recover, Excused
        <4>2. QED
          BY <3>1, <3>2, <3>3, <3>5, <4>1, BothRetained
      <3>6. QED
        BY <3>2, <3>4, <3>5
    <2>5. CASE /\ peer' = After(pr, cr)
               /\ UNCHANGED <<outputModel, sceneMissed, sceneSubmitted, stage>>
      <3>1. Excused("compositor")' = x
        BY <2>5 DEF Excused
      <3> HIDE DEF pr, cr
      <3>2. QED
        BY <1>1, <2>2, <2>3, <2>5, <3>1, BothRetained
    <2>6. QED
      BY <1>4, <2>4, <2>5 DEF ServiceReady
  <1>5. QED
    BY <1>3, <1>4

\* The bridge becomes ready: both processes hold what they acknowledged, and
\* what is submitted again finds them so.
LEMMA EnterReadyRetained ==
    ASSUME Coherent, NEW pr \in Peer, NEW cr \in Peer, EnterReady(pr, cr),
           Quiet(pr), Quiet(cr), Kept(pr, FALSE), Kept(cr, Excused("compositor")),
           pr.st = "Synchronized", cr.st = "Synchronized", outputModel => sceneSubmitted
    PROVE  Retained'
  <1> DEFINE x == Excused("compositor")
  <1>1. /\ pending.policy \in Ids /\ pending.content \in Ids /\ pending.compositor \in Ids
        /\ x \in BOOLEAN
    BY DEF Coherent, TypeOK, Excused
  <1>2. Answerable(pr, FALSE) /\ Answerable(cr, x)
    BY Messages DEF Quiet, Answerable
  <1>3. pr.link # "connecting" /\ cr.link # "connecting"
    BY DEF Kept
  <1>4. ASSUME NEW what \in {"snapshot", "content"}, NEW id \in Ids
        PROVE  /\ Kept(Submitted(pr, what, id), FALSE)
               /\ Answerable(Submitted(pr, what, id), FALSE)
    BY <1>3, SubmittedKept
  <1>5. ASSUME NEW what \in {"snapshot", "content"}, NEW id \in Ids
        PROVE  /\ Kept(Submitted(cr, what, id), x)
               /\ Answerable(Submitted(cr, what, id), x)
               /\ Submitted(cr, what, id).st = "AwaitingReply"
    <2>1. Kept(Submitted(cr, what, id), x) /\ Answerable(Submitted(cr, what, id), x)
      BY <1>1, <1>3, SubmittedKept
    <2>2. Submitted(cr, what, id).st = "AwaitingReply"
      BY SubmittedPeer
    <2>3. QED
      BY <2>1, <2>2
  <1>6. PICK y \in {pr, Submitted(pr, "snapshot", pending.policy)},
             z \in {cr, Submitted(cr, "content", pending.content),
                    Submitted(cr, "snapshot", pending.compositor)} :
          peer' = After(y, z)
    BY DEF EnterReady
  <1>7. /\ Excused("compositor")' = x
        /\ outputModel' => sceneSubmitted'
    BY DEF EnterReady, Excused
  <1> HIDE DEF x
  <1>8. Kept(y, FALSE) /\ Answerable(y, FALSE)
    BY <1>1, <1>2, <1>4
  <1>9. Kept(z, x) /\ Answerable(z, x) /\ z.st \notin {"Disconnected", "Connecting"}
    <2>1. Kept(cr, x)
      BY DEF x
    <2>2. QED
      BY <1>1, <1>2, <1>5, <2>1
  <1>10. QED
    BY <1>6, <1>7, <1>8, <1>9, BothRetained

\* The compositor's part of a turn, after the policy peer's.
LEMMA CompositorTurnRetained ==
    ASSUME Coherent, Retained, stage # "Ready", NEW pr \in Peer, CompositorTurn(pr),
           Quiet(pr), Kept(pr, FALSE), pr.st \in {"Disconnected", "Synchronized"},
           ~outputModel => pr.st = "Synchronized",
           Replaying(peer.compositor)
    PROVE  Retained'
  <1> DEFINE x == Excused("compositor")
  <1>1. /\ peer.compositor \in Peer /\ Quiet(peer.compositor)
        /\ Kept(peer.compositor, x) /\ x \in BOOLEAN
        /\ outputModel /\ peer.compositor.st \in {"Disconnected", "Connecting"} => x
        /\ outputModel \in BOOLEAN /\ sceneMissed \in BOOLEAN /\ sceneSubmitted \in BOOLEAN
    BY RetainedPeers DEF Retained
  <1>2. CASE BootstrapFails(peer.compositor) /\ Fail
    BY <1>2 DEF Fail, Retained, Excused
  <1>3. CASE ~BootstrapFails(peer.compositor)
    <2>1. PICK cr \in Bootstraps("compositor", peer.compositor) :
            \/ /\ cr.st = "Synchronized" /\ EnterReady(pr, cr)
               /\ outputModel => pr.st # "Disconnected" /\ sceneSubmitted
            \/ /\ cr.st # "Synchronized" /\ stage' = "Compositor" /\ peer' = After(pr, cr)
               /\ sceneMissed' = (sceneMissed \/ (sceneSubmitted /\ cr.st = "Disconnected"))
               /\ UNCHANGED <<outputModel, sceneSubmitted>>
            \/ /\ cr.st = "Synchronized" /\ stage' = "Policy" /\ peer' = After(pr, cr)
               /\ UNCHANGED <<outputModel, sceneMissed, sceneSubmitted>>
            \/ /\ cr.st = "Synchronized" /\ stage' = "Compositor"
               /\ peer' = After(pr, Submitted(cr, "snapshot", FirstOr(cr.replay)))
      BY <1>3 DEF CompositorTurn
    <2>2. cr \in Peer /\ Quiet(cr)
      BY <1>1, <1>3, BootstrapTurn
    <2>3. /\ Kept(cr, x)
          /\ cr.st = "Connecting" => peer.compositor.st \in {"Disconnected", "Connecting"}
      BY <1>1, <1>3, BootstrapKept
    <2>4. CASE /\ cr.st = "Synchronized" /\ EnterReady(pr, cr)
               /\ outputModel => pr.st # "Disconnected" /\ sceneSubmitted
      BY <2>2, <2>3, <2>4, EnterReadyRetained
    <2>5. CASE /\ cr.st # "Synchronized" /\ stage' = "Compositor" /\ peer' = After(pr, cr)
               /\ sceneMissed' = (sceneMissed \/ (sceneSubmitted /\ cr.st = "Disconnected"))
               /\ UNCHANGED <<outputModel, sceneSubmitted>>
      <3> DEFINE y == Excused("compositor")'
      <3>1. y \in BOOLEAN /\ (x => y)
        BY <1>1, <2>5 DEF Excused
      <3>2. outputModel' /\ cr.st \in {"Disconnected", "Connecting"} => y
        BY <1>1, <2>3, <2>5, <3>1 DEF Excused
      <3> HIDE DEF x, y
      <3>3. Kept(cr, y)
        BY <1>1, <2>3, <3>1, ExcuseWidens
      <3>4. QED
        BY <2>5, <3>2, <3>3, BothRetained DEF y
    <2>6. CASE /\ cr.st = "Synchronized" /\ stage' = "Policy" /\ peer' = After(pr, cr)
               /\ UNCHANGED <<outputModel, sceneMissed, sceneSubmitted>>
      <3>1. Excused("compositor")' = x
        BY <2>6 DEF Excused
      <3>2. QED
        BY <2>3, <2>6, <3>1, BothRetained
    <2>7. CASE /\ cr.st = "Synchronized" /\ stage' = "Compositor"
               /\ peer' = After(pr, Submitted(cr, "snapshot", FirstOr(cr.replay)))
      <3> DEFINE z == Submitted(cr, "snapshot", FirstOr(cr.replay))
      <3>1. FirstOr(cr.replay) \in Ids
        BY <2>2, Messages DEF Peer
      <3>2. cr.link # "connecting" /\ z.st = "AwaitingReply"
        BY <2>2, <2>3, <2>7, <3>1, SubmittedPeer DEF Kept
      <3>3. Kept(z, TRUE) /\ Kept(z, FALSE)
        BY <1>1, <2>2, <2>3, <3>1, <3>2, SubmittedKept
      <3>4. Excused("compositor")' \in BOOLEAN
        BY DEF Excused
      <3> HIDE DEF z
      <3>5. QED
        BY <2>7, <3>2, <3>3, <3>4, BothRetained DEF z
    <2>8. QED
      BY <2>1, <2>4, <2>5, <2>6, <2>7
  <1>4. QED
    BY <1>2, <1>3 DEF CompositorTurn

\* The turns of a bridge that is not ready.
LEMMA ServiceBootstrapRetained ==
    ASSUME Coherent, Retained, ServiceBootstrap
    PROVE  Retained'
  <1>1. /\ peer.policy \in Peer /\ Quiet(peer.policy) /\ Kept(peer.policy, FALSE)
        /\ peer.compositor \in Peer /\ Quiet(peer.compositor)
    BY RetainedPeers
  <1>2. CASE stage = "Compositor" /\ CompositorTurn(peer.policy)
    <2>1. /\ peer.policy.st \in {"Disconnected", "Synchronized"}
          /\ ~outputModel => peer.policy.st = "Synchronized"
          /\ Replaying(peer.compositor)
      BY <1>2 DEF Coherent, Stages
    <2>2. QED
      BY <1>1, <1>2, <2>1, CompositorTurnRetained
  <1>3. CASE stage = "Policy" /\ PolicyTurn
    <2>1. CASE BootstrapFails(peer.policy) /\ Fail
      BY <2>1 DEF Fail, Retained, Excused
    <2>2. CASE ~BootstrapFails(peer.policy)
      <3> DEFINE Connected(r) == IF outputModel /\ r.st = "Connecting" /\ r.link = "established"
                                 THEN Submitted(r, "snapshot", 1) ELSE r
      <3>1. PICK r \in Bootstraps("policy", peer.policy) :
              \/ Connected(r).st = "Synchronized" /\ CompositorTurn(Connected(r))
              \/ /\ peer' = [peer EXCEPT !.policy = Connected(r)]
                 /\ UNCHANGED <<outputModel, sceneMissed, sceneSubmitted, stage>>
        BY <1>3, <2>2 DEF PolicyTurn
      <3>2. /\ r \in Peer /\ Quiet(r)
        BY <1>1, <1>3, <2>2, BootstrapTurn DEF Coherent, Stages
      <3>3. Kept(r, FALSE)
        BY <1>1, <2>2, BootstrapKept
      <3>4. 1 \in Ids
        BY BridgeAssumption DEF Ids
      <3>5. CASE Connected(r) = r
        <4>1. CASE r.st = "Synchronized" /\ CompositorTurn(r)
          <5>1. Replaying(peer.compositor)
            BY <1>1, <1>3, Messages DEF Coherent, Stages, Quiet, Replaying
          <5>2. QED
            BY <1>3, <3>2, <3>3, <4>1, <5>1, CompositorTurnRetained
        <4>2. CASE /\ peer' = [peer EXCEPT !.policy = r]
                   /\ UNCHANGED <<outputModel, sceneMissed, sceneSubmitted, stage>>
          <5>1. Excused("policy") = FALSE /\ TypeOK
            BY DEF Excused, Coherent
          <5>2. QED
            BY <1>3, <3>3, <4>2, <5>1, OnePeerRetained
        <4>3. QED
          BY <3>1, <3>5, <4>1, <4>2
      <3>6. CASE /\ r.st = "Connecting" /\ r.link = "established"
                 /\ Connected(r) = Submitted(r, "snapshot", 1)
        <4> DEFINE z == Submitted(r, "snapshot", 1)
        <4>1. Kept(z, FALSE) /\ z.st = "AwaitingReply"
          BY <3>2, <3>3, <3>4, <3>6, SubmittedKept, SubmittedPeer
        <4>2. Excused("policy") = FALSE /\ TypeOK
          BY DEF Excused, Coherent
        <4> HIDE DEF z
        <4>3. /\ peer' = [peer EXCEPT !.policy = z]
              /\ UNCHANGED <<outputModel, sceneMissed, sceneSubmitted, stage>>
          BY <3>1, <3>6, <4>1 DEF z
        <4>4. QED
          BY <1>3, <4>1, <4>2, <4>3, OnePeerRetained
      <3>7. QED
        BY <3>5, <3>6
    <2>3. QED
      BY <1>3, <2>1, <2>2 DEF PolicyTurn
  <1>4. QED
    BY <1>2, <1>3 DEF ServiceBootstrap

\* Through any number of restarts of either process, in either start-up order,
\* once the bridge is ready every connected process holds what it acknowledged
\* last, but for a compositor that the output model's scene flag passed over.
THEOREM RestartsKeepState == Spec => []PeersHoldAcknowledgedState
  <1>1. Init => Retained
    BY DEF Init, Retained, Excused, Kept, Answerable, Silence
  <1>2. Coherent /\ Retained /\ [Next]_vars => Retained'
    <2>1. SUFFICES ASSUME Coherent, Retained, [Next]_vars
                   PROVE  Retained'
      OBVIOUS
    <2>2. CASE UNCHANGED <<outputModel, sceneMissed, sceneSubmitted, peer, stage>>
      BY <2>1, <2>2 DEF Retained, Excused
    <2>3. CASE DeadlineExpires
      BY <2>1, <2>3 DEF DeadlineExpires, Fail, Retained, Excused
    <2>4. CASE SubmitPolicy \/ SubmitCompositor \/ SubmitContent \/ SubmitCursor \/ SubmitReplay
      BY <2>1, <2>4, SubmitRetained
         DEF SubmitPolicy, SubmitCompositor, SubmitContent, SubmitCursor, SubmitReplay
    <2>5. QED
      BY <2>1, <2>2, <2>3, <2>4, ServiceReadyRetained, ServiceBootstrapRetained,
         EnvironmentRetained
         DEF Next, Service, TakeResult, Tick, vars
  <1>3. Retained /\ Coherent => PeersHoldAcknowledgedState
    BY DEF Retained, Excused, Kept, PeersHoldAcknowledgedState, Coherent, TypeOK
  <1>4. QED
    BY <1>1, <1>2, <1>3, CoherentHolds, PTL DEF Spec

=============================================================================
