---------------------- MODULE OutputConfigurationProofs ----------------------
(***************************************************************************)
(* Proofs about output configuration, for any number of outputs, tools and *)
(* generations: through refusals, lost peers and tools that leave at any   *)
(* point, no authority is left on another layout than the committed one,   *)
(* and a tool is told Accepted exactly when its layout is in force.        *)
(***************************************************************************)
EXTENDS OutputConfiguration, TLAPS

PolicyStages == {"Policy", "PolicyReady", "PolicyRejected"}
CompositorStages == {"Compositor", "Complete", "CompositorRejected"}

Tool == [link : {"new", "up", "gone"}, staged : Snapshots \cup {None},
         knows : 1..MaxGeneration, waiting : BOOLEAN, answer : Results \cup {None}]
Coordinator == [stage : {"Idle", "PolicyPending", "CompositorPending", "RollbackPending"},
                committed : Layouts, proposed : Layouts,
                result : {"CompositorRejected", "PresenterRejected"}]
Life == [phase : {"Idle", "AwaitingPolicy", "AwaitingCompositor"}, queue : Nat]
Bridge == [tx : {"None", "Content"} \cup PolicyStages \cup CompositorStages, ready : BOOLEAN,
           policy : Layouts, compositor : Layouts]

Typed ==
    /\ TypeOK
    /\ coord \in Coordinator /\ life \in Life /\ bridge \in Bridge
    /\ stopped \in BOOLEAN

\* The tool that is waited for is the owner of the transaction, and has seen
\* the generation that its layout is to follow.
Waits ==
    /\ coord.stage = "Idle" <=> owner = None
    /\ coord.stage # "Idle" =>
          coord.proposed.generation = coord.committed.generation + 1
    /\ \A t \in Tools : tool[t].waiting =>
          /\ tool[t].link = "up" /\ owner = t
          /\ tool[t].knows = coord.committed.generation

\* Lifecycle requests that use the bridge do so with the committed layout c.
Lends(l, b, c) ==
    /\ l.phase = "Idle" => b.tx \in {"None", "Content"}
    /\ l.phase = "AwaitingPolicy" => b.tx \in PolicyStages /\ b.policy = c
    /\ l.phase = "AwaitingCompositor" => b.tx \in CompositorStages /\ b.compositor = c

\* Who uses the bridge, for which layout, and what the peers have
\* acknowledged, at each stage of a configuration.
Stages ==
    LET c == coord.committed
        n == coord.proposed
    IN /\ run # "Idle" => life.phase = "Idle"
       /\ run = "Idle" =>
             /\ coord.stage \in {"Idle", "PolicyPending"}
             /\ Lends(life, bridge, c)
             /\ acked["policy"] = c /\ acked["compositor"] = c
       /\ run = "AwaitingPolicy" =>
             /\ coord.stage = "PolicyPending"
             /\ bridge.tx \in PolicyStages /\ bridge.policy = n
             /\ acked["policy"] = IF bridge.tx = "PolicyReady" THEN n ELSE c
             /\ acked["compositor"] = c
       /\ run = "AwaitingCompositor" =>
             /\ coord.stage = "CompositorPending"
             /\ bridge.tx \in CompositorStages /\ bridge.compositor = n
             /\ acked["policy"] = n
             /\ acked["compositor"] = IF bridge.tx = "Complete" THEN n ELSE c
       /\ run = "RollingBackPolicy" =>
             /\ coord.stage = "RollbackPending"
             /\ bridge.tx \in PolicyStages /\ bridge.policy = c
             /\ bridge.tx = "PolicyReady" => acked["policy"] = c
       /\ run = "RollingBackCompositor" =>
             /\ coord.stage = "RollbackPending"
             /\ bridge.tx \in CompositorStages /\ bridge.compositor = c
             /\ acked["policy"] = c
             /\ bridge.tx = "Complete" => acked["compositor"] = c

InForce == \A p \in Parts : installed[p] = coord.committed

Consistent == Typed /\ (~stopped => Waits /\ Stages /\ InForce)

-----------------------------------------------------------------------------
(* The pieces *)

LEMMA Pieces ==
    ASSUME Typed
    PROVE  /\ tool \in [Tools -> Tool] /\ coord \in Coordinator /\ life \in Life
           /\ bridge \in Bridge /\ stopped \in BOOLEAN /\ owner \in Tools \cup {None}
           /\ installed \in [Parts -> Layouts] /\ acked \in [PeerNames -> Layouts]
           /\ coord.committed \in Layouts /\ coord.proposed \in Layouts
  BY DEF Typed, TypeOK, Tool, Coordinator

LEMMA TypedNext ==
    ASSUME tool' \in [Tools -> Tool], coord' \in Coordinator, life' \in Life,
           bridge' \in Bridge, stopped' \in BOOLEAN, owner' \in Tools \cup {None},
           run' \in {"Idle", "AwaitingPolicy", "AwaitingCompositor", "RollingBackPolicy",
                     "RollingBackCompositor"},
           installed' \in [Parts -> Layouts], acked' \in [PeerNames -> Layouts]
    PROVE  Typed'
  <1>1. /\ coord'.stage \in {"Idle", "PolicyPending", "CompositorPending", "RollbackPending"}
        /\ coord'.committed \in Layouts /\ coord'.proposed \in Layouts
    BY DEF Coordinator
  <1>2. life'.phase \in {"Idle", "AwaitingPolicy", "AwaitingCompositor"}
    BY DEF Life
  <1>3. tool' \in [Tools -> [link : {"new", "up", "gone"}, staged : Snapshots \cup {None},
                             knows : 1..MaxGeneration, waiting : BOOLEAN,
                             answer : Results \cup {None}]]
    BY DEF Tool
  <1>4. QED
    BY <1>1, <1>2, <1>3 DEF Typed, TypeOK

\* A closed connection waits for nothing.
LEMMA ClosedTool ==
    ASSUME NEW link \in {"new", "gone"}
    PROVE  Closed(link) \in Tool /\ Closed(link).waiting = FALSE
  BY OutputAssumption DEF Closed, Tool

LEMMA FirstLayoutIsOne ==
    FirstLayout \in Layouts
  <1>1. 1 \in 1..MaxGeneration
    BY OutputAssumption
  <1>2. QED
    BY <1>1, OutputAssumption DEF FirstLayout, Layouts

LEMMA InitConsistent ==
    ASSUME Init
    PROVE  Consistent
  <1>1. tool \in [Tools -> Tool] /\ \A t \in Tools : tool[t].waiting = FALSE
    BY ClosedTool DEF Init
  <1>2. coord \in Coordinator /\ coord.stage = "Idle" /\ coord.committed = FirstLayout
    BY FirstLayoutIsOne DEF Init, Coordinator
  <1>3. life \in Life /\ life.phase = "Idle" /\ bridge \in Bridge /\ bridge.tx = "None"
    BY FirstLayoutIsOne DEF Init, Life, Bridge
  <1>4. /\ installed \in [Parts -> Layouts] /\ acked \in [PeerNames -> Layouts]
        /\ \A p \in Parts : installed[p] = FirstLayout
        /\ acked["policy"] = FirstLayout /\ acked["compositor"] = FirstLayout
    BY FirstLayoutIsOne DEF Init, PeerNames
  <1>5. TypeOK
    BY <1>1, <1>2, <1>3, <1>4 DEF Init, TypeOK, Tool, Coordinator
  <1>6. Typed
    BY <1>2, <1>3, <1>5 DEF Typed, Init
  <1>7. Waits /\ InForce
    BY <1>1, <1>2, <1>4 DEF Waits, InForce, Init
  <1>8. Stages
    BY <1>2, <1>3, <1>4 DEF Stages, Lends, Init
  <1>9. QED
    BY <1>6, <1>7, <1>8 DEF Consistent

-----------------------------------------------------------------------------
(* The tools *)

\* What is read from a tool leaves the exchange with the peers alone.
LEMMA ToolStepConsistent ==
    ASSUME Consistent, ReadTool, NEW t \in Tools, NEW r \in Tool,
           tool' = [tool EXCEPT ![t] = r],
           \/ coord' = coord /\ owner' = owner
              /\ (r.waiting => tool[t].waiting /\ r.link = "up"
                               /\ r.knows \in {tool[t].knows, coord.committed.generation})
           \/ /\ owner = None /\ owner' = t /\ coord' \in Coordinator
              /\ coord'.committed = coord.committed /\ coord'.stage = "PolicyPending"
              /\ coord'.proposed.generation = coord.committed.generation + 1
              /\ r.link = "up" /\ r.knows = coord.committed.generation
    PROVE  Consistent'
  <1>1. /\ Typed /\ Waits /\ Stages /\ InForce
        /\ UNCHANGED <<run, peerReset, installed, life, bridge, acked, stopped>>
    BY DEF Consistent, ReadTool
  <1>2. /\ tool \in [Tools -> Tool] /\ coord \in Coordinator /\ life \in Life
        /\ bridge \in Bridge /\ stopped \in BOOLEAN /\ owner \in Tools \cup {None}
        /\ installed \in [Parts -> Layouts] /\ acked \in [PeerNames -> Layouts]
    BY <1>1, Pieces
  <1>3. tool' \in [Tools -> Tool] /\ coord' \in Coordinator /\ owner' \in Tools \cup {None}
    BY <1>2
  <1>4. Typed'
    <2>1. run' \in {"Idle", "AwaitingPolicy", "AwaitingCompositor", "RollingBackPolicy",
                    "RollingBackCompositor"}
      BY <1>1 DEF Typed, TypeOK
    <2>2. QED
      BY <1>1, <1>2, <1>3, <2>1, TypedNext
  <1>5. \A u \in Tools : tool'[u] = IF u = t THEN r ELSE tool[u]
    BY <1>2
  <1>6. Waits'
    <2>1. CASE coord' = coord /\ owner' = owner
      BY <1>1, <1>5, <2>1 DEF Waits
    <2>2. CASE coord'.stage = "PolicyPending" /\ owner = None
      BY <1>1, <1>5, <2>2, OutputAssumption DEF Waits
    <2>3. QED
      BY <2>1, <2>2
  <1>7. InForce'
    BY <1>1 DEF InForce
  <1>8. Stages'
    <2>1. CASE coord' = coord
      BY <1>1, <2>1 DEF Stages, Lends
    <2>2. CASE owner = None /\ coord'.committed = coord.committed /\ coord'.stage = "PolicyPending"
      <3>1. run = "Idle"
        BY <1>1, <2>2 DEF Waits, Stages, Typed, TypeOK
      <3>2. QED
        BY <1>1, <2>2, <3>1 DEF Stages, Lends
    <2>3. QED
      BY <2>1, <2>2
  <1>9. QED
    BY <1>4, <1>6, <1>7, <1>8 DEF Consistent

\* The layout that submit() builds is a layout.
LEMMA CandidateIsLayout ==
    ASSUME Typed, NEW t \in Tools, NEW primary \in Outputs,
           Submit(tool[t].staged, tool[t].knows, primary) = "Accepted"
    PROVE  /\ Candidate(tool[t].staged, primary) \in Layouts
           /\ Candidate(tool[t].staged, primary).generation = coord.committed.generation + 1
           /\ tool[t].knows = coord.committed.generation
  <1> DEFINE s == tool[t].staged
  <1>1. /\ tool[t].knows = coord.committed.generation
        /\ s # None
        /\ BuildCandidate(s, primary) = "Accepted"
    BY DEF Submit
  <1>2. tool[t] \in Tool /\ coord.committed \in Layouts
    BY Pieces
  <1>3. s \in Snapshots
    BY <1>1, <1>2 DEF Tool
  <1>4. s.on \subseteq Outputs
    BY <1>3 DEF Snapshots
  <1>5. coord.committed.generation # MaxGeneration
    BY <1>1 DEF BuildCandidate
  <1>6. coord.committed.generation + 1 \in 1..MaxGeneration
    BY <1>2, <1>5, OutputAssumption DEF Layouts
  <1>7. QED
    BY <1>1, <1>4, <1>6 DEF Candidate, Layouts

LEMMA ToolsConsistent ==
    ASSUME Consistent,
           \E t \in Tools :
              \/ AcceptPeer(t) \/ ToolLeaves(t) \/ ConsumeQuery(t)
              \/ \E s \in Snapshots : ConsumeSnapshot(t, s)
              \/ \E primary \in Outputs : ConsumeCommit(t, primary)
    PROVE  Consistent'
  <1>1. PICK t \in Tools :
              \/ AcceptPeer(t) \/ ToolLeaves(t) \/ ConsumeQuery(t)
              \/ \E s \in Snapshots : ConsumeSnapshot(t, s)
              \/ \E primary \in Outputs : ConsumeCommit(t, primary)
    OBVIOUS
  <1>2. /\ Typed /\ tool \in [Tools -> Tool] /\ tool[t] \in Tool /\ coord \in Coordinator
        /\ coord.committed.generation \in 1..MaxGeneration
    BY Pieces DEF Consistent, Layouts
  <1>3. ReadTool
    BY <1>1 DEF AcceptPeer, ToolLeaves, ConsumeQuery, ConsumeSnapshot, ConsumeCommit
  <1>4. Closed("gone") \in Tool /\ Closed("gone").waiting = FALSE
    BY ClosedTool
  <1>5. CASE Disconnect(t) /\ coord' = coord /\ owner' = owner
    BY <1>3, <1>4, <1>5, ToolStepConsistent DEF Disconnect
  <1>6. CASE AcceptPeer(t)
    <2> DEFINE r == [tool[t] EXCEPT !.link = "up", !.knows = coord.committed.generation]
    <2>1. /\ r \in Tool /\ r.waiting = tool[t].waiting /\ r.link = "up"
          /\ r.knows = coord.committed.generation
      BY <1>2 DEF Tool
    <2>2. tool' = [tool EXCEPT ![t] = r] /\ coord' = coord /\ owner' = owner
      BY <1>2, <1>6 DEF AcceptPeer, Tool
    <2> HIDE DEF r
    <2>3. QED
      BY <1>3, <2>1, <2>2, ToolStepConsistent
  <1>7. CASE ToolLeaves(t)
    BY <1>5, <1>7 DEF ToolLeaves
  <1>8. CASE ConsumeQuery(t)
    <2> DEFINE r == [tool[t] EXCEPT !.knows = coord.committed.generation]
    <2>1. /\ r \in Tool /\ r.waiting = tool[t].waiting /\ r.link = tool[t].link
          /\ r.knows = coord.committed.generation
      BY <1>2 DEF Tool
    <2>2. /\ tool' = [tool EXCEPT ![t] = r] /\ coord' = coord /\ owner' = owner
          /\ tool[t].link = "up"
      BY <1>2, <1>8 DEF ConsumeQuery
    <2> HIDE DEF r
    <2>3. QED
      BY <1>3, <2>1, <2>2, ToolStepConsistent
  <1>9. ASSUME NEW s \in Snapshots, ConsumeSnapshot(t, s)
        PROVE  Consistent'
    <2> DEFINE r == [tool[t] EXCEPT !.staged = s]
    <2>1. /\ r \in Tool /\ r.waiting = tool[t].waiting /\ r.link = tool[t].link
          /\ r.knows = tool[t].knows
      BY <1>2 DEF Tool
    <2>2. /\ tool[t].link = "up" /\ coord' = coord /\ owner' = owner
          /\ Disconnect(t) \/ tool' = [tool EXCEPT ![t] = r]
      BY <1>2, <1>9 DEF ConsumeSnapshot
    <2> HIDE DEF r
    <2>3. QED
      BY <1>3, <1>5, <2>1, <2>2, ToolStepConsistent
  <1>10. ASSUME NEW primary \in Outputs, ConsumeCommit(t, primary)
         PROVE  Consistent'
    <2> DEFINE s == tool[t].staged
    <2>1. tool[t].link = "up"
      BY <1>10 DEF ConsumeCommit
    <2>2. CASE owner # None
      BY <1>5, <1>10, <2>2 DEF ConsumeCommit
    <2>3. CASE owner = None /\ Submit(s, tool[t].knows, primary) = "Accepted"
      <3> DEFINE r == [tool[t] EXCEPT !.staged = None, !.waiting = TRUE, !.answer = None]
      <3>1. /\ Candidate(s, primary) \in Layouts
            /\ Candidate(s, primary).generation = coord.committed.generation + 1
            /\ tool[t].knows = coord.committed.generation
        BY <1>2, <2>3, CandidateIsLayout
      <3>2. /\ r \in Tool /\ r.link = "up" /\ r.knows = coord.committed.generation
        BY <1>2, <2>1, <3>1 DEF Tool
      <3>3. /\ coord' = [coord EXCEPT !.stage = "PolicyPending",
                                      !.proposed = Candidate(s, primary)]
            /\ owner' = t
            /\ tool' = [tool EXCEPT ![t] = r]
        BY <1>2, <1>10, <2>3 DEF ConsumeCommit
      <3>4. /\ coord' \in Coordinator /\ coord'.committed = coord.committed
            /\ coord'.stage = "PolicyPending"
            /\ coord'.proposed.generation = coord.committed.generation + 1
        BY <1>2, <3>1, <3>3 DEF Coordinator
      <3> HIDE DEF r
      <3>5. QED
        BY <1>3, <2>3, <3>2, <3>3, <3>4, ToolStepConsistent
    <2>4. CASE owner = None /\ Submit(s, tool[t].knows, primary) # "Accepted"
      <3> DEFINE r == [tool[t] EXCEPT !.staged = None]
      <3>1. /\ r \in Tool /\ r.waiting = tool[t].waiting /\ r.link = tool[t].link
            /\ r.knows = tool[t].knows
        BY <1>2 DEF Tool
      <3>2. tool' = [tool EXCEPT ![t] = r] /\ coord' = coord /\ owner' = owner
        BY <1>10, <2>4 DEF ConsumeCommit
      <3> HIDE DEF r
      <3>3. QED
        BY <1>3, <2>1, <3>1, <3>2, ToolStepConsistent
    <2>5. QED
      BY <2>2, <2>3, <2>4
  <1>11. QED
    BY <1>1, <1>6, <1>7, <1>8, <1>9, <1>10


-----------------------------------------------------------------------------
(* The lifecycle requests and the bridge *)

\* A request that starts is evaluated for the layout installed in the bridge.
LEMMA StartNextLends ==
    ASSUME Typed, NEW b \in Bridge, NEW queue \in Nat, queue > 0, StartNext(queue, b),
           NEW c \in Layouts, installed'.bridge = c
    PROVE  /\ life' \in Life /\ bridge' \in Bridge /\ stopped' \in BOOLEAN
           /\ ~stopped' => life'.phase = "AwaitingPolicy" /\ Lends(life', bridge', c)
           /\ ~stopped' => bridge'.tx = "Policy"
  <1>1. life \in Life /\ stopped \in BOOLEAN
    BY Pieces
  <1>2. CASE b.ready /\ b.tx = "None"
    <2>1. /\ life' = [phase |-> "AwaitingPolicy", queue |-> queue - 1]
          /\ bridge' = [b EXCEPT !.tx = "Policy", !.policy = c]
          /\ stopped' = stopped
      BY <1>2 DEF StartNext
    <2>2. queue - 1 \in Nat
      OBVIOUS
    <2>3. life' \in Life /\ life'.phase = "AwaitingPolicy"
      BY <2>1, <2>2 DEF Life
    <2>4. bridge' \in Bridge /\ bridge'.tx = "Policy" /\ bridge'.policy = c
      BY <2>1 DEF Bridge, PolicyStages
    <2>5. QED
      BY <1>1, <2>1, <2>3, <2>4 DEF Lends, PolicyStages
  <1>3. CASE ~(b.ready /\ b.tx = "None")
    <2>1. stopped' = TRUE /\ life' = [life EXCEPT !.queue = queue] /\ bridge' = b
      BY <1>3 DEF StartNext
    <2>2. life' \in Life
      BY <1>1, <2>1 DEF Life
    <2>3. QED
      BY <2>1, <2>2
  <1>4. QED
    BY <1>2, <1>3

\* Steps that change neither the coordinator nor the tools.
LEMMA ExchangeConsistent ==
    ASSUME Consistent, ~stopped,
           UNCHANGED <<tool, coord, owner, run, installed>>,
           life' \in Life, bridge' \in Bridge, stopped' \in BOOLEAN,
           acked' \in [PeerNames -> Layouts],
           ~stopped' => Stages'
    PROVE  Consistent'
  <1>1. Typed /\ Waits /\ InForce
    BY DEF Consistent
  <1>2. Typed'
    <2>1. /\ tool' \in [Tools -> Tool] /\ coord' \in Coordinator
          /\ owner' \in Tools \cup {None} /\ installed' \in [Parts -> Layouts]
      BY <1>1, Pieces
    <2>2. run' \in {"Idle", "AwaitingPolicy", "AwaitingCompositor", "RollingBackPolicy",
                    "RollingBackCompositor"}
      BY <1>1 DEF Typed, TypeOK
    <2>3. QED
      BY <2>1, <2>2, TypedNext
  <1>3. Waits' /\ InForce'
    BY <1>1 DEF Waits, InForce
  <1>4. QED
    BY <1>2, <1>3 DEF Consistent

\* A lifecycle request starts while no configuration is applied.
LEMMA StartNextConsistent ==
    ASSUME Consistent, ~stopped, run = "Idle",
           NEW b \in Bridge, NEW queue \in Nat, queue > 0, StartNext(queue, b),
           UNCHANGED <<tool, coord, owner, run, installed, acked>>
    PROVE  Consistent'
  <1>1. /\ Typed /\ Stages /\ InForce
    BY DEF Consistent
  <1>2. coord.committed \in Layouts /\ acked \in [PeerNames -> Layouts]
    BY <1>1, Pieces
  <1>3. installed'.bridge = coord.committed
    BY <1>1 DEF InForce, Parts
  <1>4. /\ life' \in Life /\ bridge' \in Bridge /\ stopped' \in BOOLEAN
        /\ ~stopped' => Lends(life', bridge', coord.committed)
    BY <1>1, <1>2, <1>3, StartNextLends
  <1>5. ~stopped' => Stages'
    BY <1>1, <1>4 DEF Stages
  <1>6. QED
    BY <1>2, <1>4, <1>5, ExchangeConsistent

LEMMA RequestConsistent ==
    ASSUME Consistent, ClientRequest
    PROVE  Consistent'
  <1>1. /\ Typed /\ Stages /\ ~stopped
        /\ UNCHANGED <<tool, coord, owner, run, installed, acked>>
    BY DEF Consistent, ClientRequest
  <1>2. life \in Life /\ bridge \in Bridge /\ acked \in [PeerNames -> Layouts] /\ stopped \in BOOLEAN
    BY <1>1, Pieces
  <1>3. life.queue + 1 \in Nat /\ life.queue + 1 > 0
    BY <1>2 DEF Life
  <1>4. CASE life' = [life EXCEPT !.queue = @ + 1] /\ UNCHANGED <<bridge, stopped>>
    <2>1. life' \in Life /\ life'.phase = life.phase
      BY <1>2, <1>3, <1>4 DEF Life
    <2>2. Stages'
      BY <1>1, <1>4, <2>1 DEF Stages, Lends
    <2>3. QED
      BY <1>1, <1>2, <1>4, <2>1, <2>2, ExchangeConsistent
  <1>5. CASE run = "Idle" /\ StartNext(life.queue + 1, bridge)
    BY <1>1, <1>2, <1>3, <1>5, StartNextConsistent
  <1>6. QED
    BY <1>4, <1>5 DEF ClientRequest, Active

\* The bridge's part of the turn.
LEMMA ServeBridgeConsistent ==
    ASSUME Consistent,
           \/ Woken
           \/ \E accepts \in BOOLEAN : PolicyReplies(accepts) \/ CompositorReplies(accepts)
           \/ \E p \in PeerNames : PeerLost(p)
           \/ \E succeeds \in BOOLEAN : PeersRecover(succeeds)
    PROVE  Consistent'
  <1>1. /\ ~stopped /\ UNCHANGED <<tool, coord, owner, run, installed, life>>
    BY DEF Woken, PolicyReplies, CompositorReplies, PeerLost, PeersRecover, ServeBridge
  <1>2. /\ Typed /\ Stages
    BY <1>1 DEF Consistent
  <1>3. /\ life \in Life /\ bridge \in Bridge /\ acked \in [PeerNames -> Layouts]
        /\ stopped \in BOOLEAN
    BY <1>2, Pieces
  <1>4. CASE Woken
    <2>1. UNCHANGED <<bridge, acked, stopped>>
      BY <1>4 DEF Woken
    <2>2. Stages'
      BY <1>1, <1>2, <2>1 DEF Stages, Lends
    <2>3. QED
      BY <1>1, <1>3, <2>1, <2>2, ExchangeConsistent
  <1>5. ASSUME NEW accepts \in BOOLEAN, PolicyReplies(accepts)
        PROVE  Consistent'
    <2>1. /\ bridge.tx = "Policy" /\ stopped' = stopped
          /\ bridge' = [bridge EXCEPT !.tx = IF accepts THEN "PolicyReady" ELSE "PolicyRejected"]
          /\ acked' = IF accepts THEN [acked EXCEPT !["policy"] = bridge.policy] ELSE acked
      BY <1>5 DEF PolicyReplies
    <2>2. /\ bridge' \in Bridge
          /\ bridge'.policy = bridge.policy /\ bridge'.compositor = bridge.compositor
          /\ bridge'.tx = IF accepts THEN "PolicyReady" ELSE "PolicyRejected"
      BY <1>3, <2>1 DEF Bridge, PolicyStages
    <2>3. /\ acked' \in [PeerNames -> Layouts]
          /\ acked'["policy"] = IF accepts THEN bridge.policy ELSE acked["policy"]
          /\ acked'["compositor"] = acked["compositor"]
      BY <1>3, <2>1 DEF Bridge, PeerNames
    <2>4. Stages'
      <3>1. run \in {"Idle", "AwaitingPolicy", "RollingBackPolicy"}
        BY <1>2, <2>1 DEF Stages, PolicyStages, CompositorStages, Typed, TypeOK
      <3>2. bridge'.tx \in PolicyStages
        BY <2>2 DEF PolicyStages
      <3>3. CASE run = "Idle"
        <4>1. life.phase = "AwaitingPolicy" /\ bridge.policy = coord.committed
          BY <1>2, <1>3, <2>1, <3>3
             DEF Stages, Lends, PolicyStages, CompositorStages, Life
        <4>2. Lends(life', bridge', coord'.committed)
          BY <1>1, <2>2, <3>2, <4>1 DEF Lends
        <4>3. QED
          BY <1>1, <1>2, <2>3, <3>3, <4>1, <4>2 DEF Stages
      <3>4. CASE run = "AwaitingPolicy"
        BY <1>1, <1>2, <2>1, <2>2, <2>3, <3>2, <3>4 DEF Stages
      <3>5. CASE run = "RollingBackPolicy"
        BY <1>1, <1>2, <2>1, <2>2, <2>3, <3>2, <3>5 DEF Stages
      <3>6. QED
        BY <3>1, <3>3, <3>4, <3>5
    <2>5. QED
      BY <1>1, <1>3, <2>1, <2>2, <2>3, <2>4, ExchangeConsistent
  <1>6. ASSUME NEW accepts \in BOOLEAN, CompositorReplies(accepts)
        PROVE  Consistent'
    <2>1. /\ bridge.tx = "Compositor" /\ stopped' = stopped
          /\ bridge' = [bridge EXCEPT !.tx = IF accepts THEN "Complete" ELSE "CompositorRejected"]
          /\ acked' = IF accepts THEN [acked EXCEPT !["compositor"] = bridge.compositor] ELSE acked
      BY <1>6 DEF CompositorReplies
    <2>2. /\ bridge' \in Bridge
          /\ bridge'.policy = bridge.policy /\ bridge'.compositor = bridge.compositor
          /\ bridge'.tx = IF accepts THEN "Complete" ELSE "CompositorRejected"
      BY <1>3, <2>1 DEF Bridge, CompositorStages
    <2>3. /\ acked' \in [PeerNames -> Layouts]
          /\ acked'["compositor"] = IF accepts THEN bridge.compositor ELSE acked["compositor"]
          /\ acked'["policy"] = acked["policy"]
      BY <1>3, <2>1 DEF Bridge, PeerNames
    <2>4. Stages'
      <3>1. run \in {"Idle", "AwaitingCompositor", "RollingBackCompositor"}
        BY <1>2, <2>1 DEF Stages, PolicyStages, CompositorStages, Typed, TypeOK
      <3>2. bridge'.tx \in CompositorStages
        BY <2>2 DEF CompositorStages
      <3>3. CASE run = "Idle"
        <4>1. life.phase = "AwaitingCompositor" /\ bridge.compositor = coord.committed
          BY <1>2, <1>3, <2>1, <3>3
             DEF Stages, Lends, PolicyStages, CompositorStages, Life
        <4>2. Lends(life', bridge', coord'.committed)
          BY <1>1, <2>2, <3>2, <4>1 DEF Lends
        <4>3. QED
          BY <1>1, <1>2, <2>3, <3>3, <4>1, <4>2 DEF Stages
      <3>4. CASE run = "AwaitingCompositor"
        BY <1>1, <1>2, <2>1, <2>2, <2>3, <3>2, <3>4 DEF Stages
      <3>5. CASE run = "RollingBackCompositor"
        BY <1>1, <1>2, <2>1, <2>2, <2>3, <3>2, <3>5 DEF Stages
      <3>6. QED
        BY <3>1, <3>3, <3>4, <3>5
    <2>5. QED
      BY <1>1, <1>3, <2>1, <2>2, <2>3, <2>4, ExchangeConsistent
  <1>7. ASSUME NEW ready \in BOOLEAN, bridge' = [bridge EXCEPT !.ready = ready],
               acked' = acked, stopped' \in BOOLEAN
        PROVE  Consistent'
    <2>1. /\ bridge' \in Bridge /\ bridge'.tx = bridge.tx
          /\ bridge'.policy = bridge.policy /\ bridge'.compositor = bridge.compositor
      BY <1>3, <1>7 DEF Bridge
    <2>2. Stages'
      BY <1>1, <1>2, <1>7, <2>1 DEF Stages, Lends
    <2>3. QED
      BY <1>1, <1>3, <1>7, <2>1, <2>2, ExchangeConsistent
  <1>8. ASSUME NEW p \in PeerNames, PeerLost(p)
        PROVE  Consistent'
    BY <1>3, <1>7, <1>8 DEF PeerLost
  <1>9. ASSUME NEW succeeds \in BOOLEAN, PeersRecover(succeeds)
        PROVE  Consistent'
    <2>1. /\ bridge' = [bridge EXCEPT !.ready = succeeds] /\ acked' = acked
          /\ stopped' = ~succeeds
      BY <1>9 DEF PeersRecover
    <2>2. stopped' \in BOOLEAN
      BY <2>1
    <2>3. QED
      BY <1>7, <2>1, <2>2
  <1>10. QED
    BY <1>4, <1>5, <1>6, <1>8, <1>9

\* A result that belongs to nobody, or the end of what had the bridge.
LEMMA FrameConsistent ==
    ASSUME Consistent, FrameAnswered
    PROVE  Consistent'
  <1> DEFINE b == [bridge EXCEPT !.tx = "None"]
  <1>1. /\ ~stopped /\ UNCHANGED <<tool, coord, owner, run, installed, acked>>
        /\ bridge.tx = "Content"
    BY DEF FrameAnswered, ServeBridge
  <1>2. /\ Typed /\ Stages
    BY <1>1 DEF Consistent
  <1>3. /\ life \in Life /\ bridge \in Bridge /\ acked \in [PeerNames -> Layouts]
        /\ stopped \in BOOLEAN
    BY <1>2, Pieces
  <1>4. run = "Idle" /\ life.phase = "Idle"
    BY <1>1, <1>2, <1>3
       DEF Stages, Lends, PolicyStages, CompositorStages, Life, Typed, TypeOK
  <1>5. b \in Bridge /\ b.tx = "None" /\ life.queue \in Nat
    BY <1>3 DEF Bridge, Life
  <1>6. CASE life.queue > 0
    <2>1. StartNext(life.queue, b)
      BY <1>6 DEF FrameAnswered
    <2> HIDE DEF b
    <2>2. QED
      BY <1>1, <1>4, <1>5, <1>6, <2>1, StartNextConsistent
  <1>7. CASE ~(life.queue > 0)
    <2>1. bridge' = b /\ UNCHANGED <<life, stopped>>
      BY <1>7 DEF FrameAnswered
    <2> HIDE DEF b
    <2>2. Stages'
      BY <1>1, <1>2, <1>4, <1>5, <2>1 DEF Stages, Lends
    <2>3. QED
      BY <1>1, <1>3, <1>5, <2>1, <2>2, ExchangeConsistent
  <1>8. QED
    BY <1>6, <1>7

LEMMA LifecycleTurnConsistent ==
    ASSUME Consistent, LifecycleTurn
    PROVE  Consistent'
  <1> DEFINE b == [bridge EXCEPT !.tx = "None"]
  <1>1. /\ ~stopped /\ UNCHANGED <<tool, coord, owner, run, installed, acked>>
    BY DEF LifecycleTurn
  <1>2. /\ Typed /\ Stages /\ InForce
    BY <1>1 DEF Consistent
  <1>3. /\ life \in Life /\ bridge \in Bridge /\ acked \in [PeerNames -> Layouts]
        /\ stopped \in BOOLEAN /\ coord.committed \in Layouts
    BY <1>2, Pieces
  <1>4. CASE /\ life.phase = "AwaitingPolicy"
             /\ bridge' = SendingScene(installed.bridge)
             /\ life' = [life EXCEPT !.phase = "AwaitingCompositor"]
             /\ stopped' = stopped
    <2>1. installed.bridge = coord.committed
      BY <1>2 DEF InForce, Parts
    <2>2. bridge' \in Bridge /\ bridge'.tx = "Compositor" /\ bridge'.compositor = coord.committed
      BY <1>3, <1>4, <2>1 DEF SendingScene, Bridge, CompositorStages
    <2>3. life' \in Life /\ life'.phase = "AwaitingCompositor"
      BY <1>3, <1>4 DEF Life
    <2>4. Stages'
      BY <1>1, <1>2, <1>4, <2>2, <2>3 DEF Stages, Lends, CompositorStages
    <2>5. QED
      BY <1>1, <1>3, <1>4, <2>2, <2>3, <2>4, ExchangeConsistent
  <1>5. CASE /\ life.phase # "Idle"
             /\ IF life.queue > 0 THEN StartNext(life.queue, b)
                ELSE /\ bridge' = b
                     /\ life' = [life EXCEPT !.phase = "Idle"]
                     /\ stopped' = stopped
    <2>1. run = "Idle" /\ b \in Bridge /\ b.tx = "None" /\ life.queue \in Nat
      BY <1>2, <1>3, <1>5 DEF Stages, Bridge, Life
    <2> HIDE DEF b
    <2>2. CASE life.queue > 0
      BY <1>1, <1>5, <2>1, <2>2, StartNextConsistent
    <2>3. CASE ~(life.queue > 0)
      <3>1. bridge' = b /\ life' = [life EXCEPT !.phase = "Idle"] /\ stopped' = stopped
        BY <1>5, <2>3
      <3>2. life' \in Life /\ life'.phase = "Idle"
        BY <1>3, <3>1 DEF Life
      <3>3. Stages'
        BY <1>1, <1>2, <2>1, <3>1, <3>2 DEF Stages, Lends
      <3>4. QED
        BY <1>1, <1>3, <2>1, <3>1, <3>2, <3>3, ExchangeConsistent
    <2>4. QED
      BY <2>2, <2>3
  <1>6. CASE stopped' = TRUE /\ UNCHANGED <<life, bridge>>
    BY <1>1, <1>3, <1>6, ExchangeConsistent
  <1>7. CASE UNCHANGED <<life, bridge, stopped>>
    <2>1. Stages'
      BY <1>1, <1>2, <1>7 DEF Stages, Lends
    <2>2. QED
      BY <1>1, <1>3, <1>7, <2>1, ExchangeConsistent
  <1>8. QED
    BY <1>4, <1>5, <1>6, <1>7 DEF LifecycleTurn

LEMMA ContentTurnConsistent ==
    ASSUME Consistent, NEW damaged \in BOOLEAN, ContentTurn(damaged)
    PROVE  Consistent'
  <1>1. /\ ~stopped /\ UNCHANGED <<tool, coord, owner, run, installed, acked, life, stopped>>
    BY DEF ContentTurn
  <1>2. /\ Typed /\ Stages
    BY <1>1 DEF Consistent
  <1>3. /\ life \in Life /\ bridge \in Bridge /\ acked \in [PeerNames -> Layouts]
        /\ stopped \in BOOLEAN
    BY <1>2, Pieces
  <1>4. \/ bridge' = bridge
        \/ /\ bridge' = [bridge EXCEPT !.tx = "Content"]
           /\ life.phase = "Idle" /\ bridge.tx = "None"
    BY DEF ContentTurn
  <1>5. bridge' \in Bridge
    BY <1>3, <1>4 DEF Bridge
  <1>6. Stages'
    <2>1. CASE bridge' = bridge
      BY <1>1, <1>2, <2>1 DEF Stages, Lends
    <2>2. CASE /\ bridge' = [bridge EXCEPT !.tx = "Content"]
               /\ life.phase = "Idle" /\ bridge.tx = "None"
      <3>1. run = "Idle"
        BY <1>2, <2>2 DEF Stages, PolicyStages, CompositorStages, Typed, TypeOK
      <3>2. bridge'.tx = "Content"
        BY <1>3, <2>2 DEF Bridge
      <3>3. QED
        BY <1>1, <1>2, <2>2, <3>1, <3>2 DEF Stages, Lends
    <2>3. QED
      BY <1>4, <2>1, <2>2
  <1>7. QED
    BY <1>1, <1>3, <1>5, <1>6, ExchangeConsistent


-----------------------------------------------------------------------------
(* The configuration *)

\* The end of a transaction: the owner is answered, if it is still there.
LEMMA FinishTransactionAnswers ==
    ASSUME Typed, Waits, coord.stage # "Idle", NEW result \in Results,
           FinishTransaction(result)
    PROVE  /\ tool' \in [Tools -> Tool] /\ owner' = None
           /\ \A t \in Tools : ~tool'[t].waiting
           /\ \A t \in Tools : tool[t].waiting => tool'[t].answer = result
  <1>1. tool \in [Tools -> Tool] /\ owner \in Tools
    BY Pieces DEF Waits
  <1>2. CASE tool[owner].waiting
    <2> DEFINE r == [tool[owner] EXCEPT !.waiting = FALSE, !.answer = result]
    <2>1. tool' = [tool EXCEPT ![owner] = r] /\ owner' = None
      BY <1>1, <1>2 DEF FinishTransaction
    <2>2. r \in Tool /\ r.waiting = FALSE /\ r.answer = result
      BY <1>1 DEF Tool
    <2> HIDE DEF r
    <2>3. \A t \in Tools : tool'[t] = IF t = owner THEN r ELSE tool[t]
      BY <1>1, <2>1
    <2>4. QED
      BY <1>1, <2>1, <2>2, <2>3 DEF Waits
  <1>3. CASE ~tool[owner].waiting
    <2>1. tool' = tool /\ owner' = None
      BY <1>3 DEF FinishTransaction
    <2>2. QED
      BY <1>1, <1>3, <2>1 DEF Waits
  <1>4. QED
    BY <1>2, <1>3

\* clear_transaction leaves an idle coordinator.
LEMMA ClearedCoordinator ==
    ASSUME Typed, NEW c \in Layouts
    PROVE  /\ Cleared(c) \in Coordinator /\ Cleared(c).stage = "Idle"
           /\ Cleared(c).committed = c
  BY Pieces DEF Cleared, Coordinator

\* A configuration ends with layout c everywhere; the lifecycle requests that
\* waited are resumed on it.
LEMMA FinishConsistent ==
    ASSUME Consistent, ~stopped, coord.stage # "Idle",
           NEW c \in Layouts, coord' = Cleared(c),
           NEW result \in Results, FinishTransaction(result),
           installed' \in [Parts -> Layouts], \A p \in Parts : installed'[p] = c,
           acked' = acked, acked["policy"] = c, acked["compositor"] = c,
           NEW b \in Bridge, Lends(life, b, c), Finish(b)
    PROVE  Consistent'
  <1>1. Typed /\ Waits
    BY DEF Consistent
  <1>2. /\ life \in Life /\ stopped \in BOOLEAN /\ acked \in [PeerNames -> Layouts]
        /\ life.queue \in Nat
    BY <1>1, Pieces DEF Life
  <1>3. coord' \in Coordinator /\ coord'.stage = "Idle" /\ coord'.committed = c
    BY <1>1, ClearedCoordinator
  <1>4. /\ tool' \in [Tools -> Tool] /\ owner' = None
        /\ \A t \in Tools : ~tool'[t].waiting
    BY <1>1, FinishTransactionAnswers
  <1>5. /\ run' = "Idle" /\ life' \in Life /\ bridge' \in Bridge /\ stopped' \in BOOLEAN
        /\ ~stopped' => Lends(life', bridge', c)
    <2>1. CASE life.phase = "Idle" /\ life.queue > 0
      <3>1. StartNext(life.queue, b) /\ run' = "Idle"
        BY <2>1 DEF Finish
      <3>2. installed'.bridge = c
        BY DEF Parts
      <3>3. QED
        BY <1>1, <1>2, <2>1, <3>1, <3>2, StartNextLends
    <2>2. CASE ~(life.phase = "Idle" /\ life.queue > 0)
      <3>1. bridge' = b /\ life' = life /\ stopped' = stopped /\ run' = "Idle"
        BY <2>2 DEF Finish
      <3>2. QED
        BY <1>2, <3>1
    <2>3. QED
      BY <2>1, <2>2
  <1>6. Typed'
    BY <1>2, <1>3, <1>4, <1>5, TypedNext
  <1>7. Waits' /\ InForce'
    BY <1>3, <1>4 DEF Waits, InForce
  <1>8. ~stopped' => Stages'
    BY <1>3, <1>5 DEF Stages
  <1>9. QED
    BY <1>6, <1>7, <1>8 DEF Consistent

\* The configuration goes on, its transaction and its owner being what they are.
LEMMA ProgressConsistent ==
    ASSUME Consistent, ~stopped, coord.stage # "Idle",
           coord' \in Coordinator, coord'.stage # "Idle",
           coord'.committed = coord.committed, coord'.proposed = coord.proposed,
           bridge' \in Bridge,
           run' \in {"AwaitingPolicy", "AwaitingCompositor", "RollingBackPolicy",
                     "RollingBackCompositor"},
           UNCHANGED <<tool, owner, installed, life, acked, stopped>>,
           Stages'
    PROVE  Consistent'
  <1>1. Typed /\ Waits /\ InForce
    BY DEF Consistent
  <1>2. Typed'
    BY <1>1, Pieces, TypedNext
  <1>3. Waits' /\ InForce'
    BY <1>1 DEF Waits, InForce
  <1>4. QED
    BY <1>2, <1>3 DEF Consistent

\* A rollback begins: the policy process gets the committed layout back.
LEMMA RollbackConsistent ==
    ASSUME Consistent, ~stopped, run # "Idle", coord.stage # "Idle",
           NEW result \in {"CompositorRejected", "PresenterRejected"}, BeginRollback(result)
    PROVE  Consistent'
  <1>1. Typed /\ Stages
    BY DEF Consistent
  <1>2. coord \in Coordinator /\ bridge \in Bridge /\ coord.committed \in Layouts
    BY <1>1, Pieces
  <1>3. /\ coord' = [coord EXCEPT !.stage = "RollbackPending", !.result = result]
        /\ bridge' = Submitting(coord.committed) /\ run' = "RollingBackPolicy"
        /\ UNCHANGED <<tool, owner, installed, life, acked, stopped>>
    BY DEF BeginRollback, SubmitPolicy
  <1>4. /\ coord' \in Coordinator /\ coord'.stage = "RollbackPending"
        /\ coord'.committed = coord.committed /\ coord'.proposed = coord.proposed
    BY <1>2, <1>3 DEF Coordinator
  <1>5. /\ bridge' \in Bridge /\ bridge'.tx = "Policy" /\ bridge'.policy = coord.committed
    BY <1>2, <1>3 DEF Submitting, Bridge, PolicyStages
  <1>6. Stages'
    BY <1>1, <1>3, <1>4, <1>5 DEF Stages, PolicyStages
  <1>7. QED
    BY <1>3, <1>4, <1>5, <1>6, ProgressConsistent

\* An error ends the server.
LEMMA FatalConsistent ==
    ASSUME Consistent, ~stopped, Fatal
    PROVE  Consistent'
  BY Pieces, ExchangeConsistent DEF Fatal, Consistent

\* Every step of the configuration, at either place of the turn.
LEMMA ServiceOutputConsistent ==
    ASSUME Consistent, ServiceOutput
    PROVE  Consistent'
  <1>1. ~stopped
    BY DEF ServiceOutput, OutputTurn, NothingToDo, OwnerLeftBeforeStart, StartConfiguration,
           PolicyRefused, PolicyAgreed, CompositorRefused, CompositorAgreed,
           RollbackPolicyAgreed, RollbackRefused, RollbackDone
  <1>2. Typed /\ Waits /\ Stages /\ InForce
    BY <1>1 DEF Consistent
  <1>3. /\ coord \in Coordinator /\ bridge \in Bridge /\ life \in Life /\ stopped \in BOOLEAN
        /\ coord.committed \in Layouts /\ coord.proposed \in Layouts
        /\ installed \in [Parts -> Layouts] /\ acked \in [PeerNames -> Layouts]
    BY <1>2, Pieces
  <1> DEFINE b == [bridge EXCEPT !.tx = "None"]
  <1>4. b \in Bridge /\ b.tx = "None"
    BY <1>3 DEF Bridge
  <1>5. CASE NothingToDo
    <2>1. UNCHANGED <<tool, coord, owner, run, installed, life, bridge, acked, stopped>>
      BY <1>5 DEF NothingToDo
    <2>2. Stages'
      BY <1>2, <2>1 DEF Stages, Lends
    <2>3. QED
      BY <1>1, <1>3, <2>1, <2>2, ExchangeConsistent
  <1>6. CASE OwnerLeftBeforeStart
    <2>1. /\ run = "Idle" /\ coord.stage # "Idle" /\ coord' = Cleared(coord.committed)
          /\ FinishTransaction("InternalError") /\ "InternalError" \in Results
          /\ installed' = installed /\ acked' = acked /\ Finish(bridge)
      BY <1>6 DEF OwnerLeftBeforeStart, Transaction, Results
    <2>2. /\ Lends(life, bridge, coord.committed)
          /\ acked["policy"] = coord.committed /\ acked["compositor"] = coord.committed
      BY <1>2, <2>1 DEF Stages
    <2>3. \A p \in Parts : installed'[p] = coord.committed
      BY <1>2, <2>1 DEF InForce
    <2>4. QED
      BY <1>1, <1>3, <2>1, <2>2, <2>3, FinishConsistent
  <1>7. CASE StartConfiguration
    <2>1. run = "Idle" /\ coord.stage # "Idle" /\ life.phase = "Idle"
      BY <1>7 DEF StartConfiguration, Transaction
    <2>2. CASE Fatal
      BY <1>1, <2>2, FatalConsistent
    <2>3. CASE ~Fatal
      <3>1. /\ bridge' = Submitting(coord.proposed) /\ run' = "AwaitingPolicy"
            /\ UNCHANGED <<tool, coord, owner, installed, life, acked, stopped>>
        BY <1>7, <2>3 DEF StartConfiguration, SubmitPolicy
      <3>2. bridge' \in Bridge /\ bridge'.tx = "Policy" /\ bridge'.policy = coord.proposed
        BY <1>3, <3>1 DEF Submitting, Bridge, PolicyStages
      <3>3. coord.stage = "PolicyPending"
        BY <1>2, <2>1 DEF Stages
      <3>4. Stages'
        BY <1>2, <2>1, <3>1, <3>2, <3>3 DEF Stages, PolicyStages
      <3>5. QED
        BY <1>1, <1>3, <2>1, <3>1, <3>2, <3>4, ProgressConsistent
    <2>4. QED
      BY <2>2, <2>3
  <1>8. CASE PolicyRefused
    <2>1. /\ run = "AwaitingPolicy" /\ bridge.tx = "PolicyRejected"
          /\ coord' = Cleared(coord.committed)
          /\ FinishTransaction("PolicyRejected") /\ "PolicyRejected" \in Results
          /\ installed' = installed /\ acked' = acked /\ Finish(b)
      BY <1>8 DEF PolicyRefused, Results
    <2>2. /\ life.phase = "Idle" /\ coord.stage # "Idle"
          /\ acked["policy"] = coord.committed /\ acked["compositor"] = coord.committed
      BY <1>2, <2>1 DEF Stages
    <2>3. \A p \in Parts : installed'[p] = coord.committed
      BY <1>2, <2>1 DEF InForce
    <2> HIDE DEF b
    <2>4. Lends(life, b, coord.committed)
      BY <1>4, <2>2 DEF Lends
    <2>5. QED
      BY <1>1, <1>3, <1>4, <2>1, <2>2, <2>3, <2>4, FinishConsistent
  <1>9. CASE PolicyAgreed
    <2>1. /\ run = "AwaitingPolicy" /\ bridge.tx = "PolicyReady"
          /\ coord.stage = "PolicyPending" /\ life.phase = "Idle"
      BY <1>2, <1>9 DEF PolicyAgreed, Stages
    <2>2. CASE BeginRollback("CompositorRejected") \/ BeginRollback("PresenterRejected")
      BY <1>1, <2>1, <2>2, RollbackConsistent
    <2>3. CASE /\ coord' = [coord EXCEPT !.stage = "CompositorPending"]
               /\ bridge' = SendingScene(coord.proposed)
               /\ run' = "AwaitingCompositor"
               /\ UNCHANGED <<tool, owner, installed, life, acked, stopped>>
      <3>1. /\ coord' \in Coordinator /\ coord'.stage = "CompositorPending"
            /\ coord'.committed = coord.committed /\ coord'.proposed = coord.proposed
        BY <1>3, <2>3 DEF Coordinator
      <3>2. /\ bridge' \in Bridge /\ bridge'.tx = "Compositor"
            /\ bridge'.compositor = coord.proposed
        BY <1>3, <2>3 DEF SendingScene, Bridge, CompositorStages
      <3>3. Stages'
        BY <1>2, <2>1, <2>3, <3>1, <3>2 DEF Stages, CompositorStages
      <3>4. QED
        BY <1>1, <2>1, <2>3, <3>1, <3>2, <3>3, ProgressConsistent
    <2>4. CASE Fatal
      BY <1>1, <2>4, FatalConsistent
    <2>5. QED
      BY <1>9, <2>2, <2>3, <2>4 DEF PolicyAgreed
  <1>10. CASE CompositorRefused
    <2>1. run = "AwaitingCompositor" /\ BeginRollback("CompositorRejected")
      BY <1>10 DEF CompositorRefused
    <2>2. coord.stage # "Idle"
      BY <1>2, <2>1 DEF Stages
    <2>3. QED
      BY <1>1, <2>1, <2>2, RollbackConsistent
  <1>11. CASE CompositorAgreed
    <2>1. /\ run = "AwaitingCompositor" /\ bridge.tx = "Complete"
          /\ coord.stage # "Idle" /\ life.phase = "Idle"
          /\ acked["policy"] = coord.proposed /\ acked["compositor"] = coord.proposed
      BY <1>2, <1>11 DEF CompositorAgreed, Stages
    <2>2. CASE BeginRollback("CompositorRejected") \/ BeginRollback("PresenterRejected")
      BY <1>1, <2>1, <2>2, RollbackConsistent
    <2>3. ASSUME NEW layouts \in InstallOutcomes(coord.proposed), layouts # installed,
                 Promote(layouts)
          PROVE  Consistent'
      <3>1. /\ installed' = [p \in Parts |-> coord.proposed]
            /\ coord' = Cleared(coord.proposed)
            /\ FinishTransaction("Accepted") /\ "Accepted" \in Results
            /\ acked' = acked /\ Finish(b)
        BY <2>3 DEF Promote, InstallOutcomes, Results
      <3>2. installed' \in [Parts -> Layouts] /\ \A p \in Parts : installed'[p] = coord.proposed
        BY <1>3, <3>1
      <3> HIDE DEF b
      <3>3. Lends(life, b, coord.proposed)
        BY <1>4, <2>1 DEF Lends
      <3>4. QED
        BY <1>1, <1>3, <1>4, <2>1, <3>1, <3>2, <3>3, FinishConsistent
    <2>4. QED
      BY <1>11, <2>2, <2>3 DEF CompositorAgreed, Promote
  <1>12. CASE RollbackPolicyAgreed
    <2>1. /\ run = "RollingBackPolicy" /\ bridge.tx = "PolicyReady"
          /\ coord.stage = "RollbackPending" /\ life.phase = "Idle"
          /\ acked["policy"] = coord.committed
      BY <1>2, <1>12 DEF RollbackPolicyAgreed, Stages
    <2>2. CASE Fatal
      BY <1>1, <2>2, FatalConsistent
    <2>3. CASE /\ bridge' = SendingScene(coord.committed)
               /\ run' = "RollingBackCompositor"
               /\ UNCHANGED <<tool, coord, owner, installed, life, acked, stopped>>
      <3>1. /\ bridge' \in Bridge /\ bridge'.tx = "Compositor"
            /\ bridge'.compositor = coord.committed
        BY <1>3, <2>3 DEF SendingScene, Bridge, CompositorStages
      <3>2. Stages'
        BY <1>2, <2>1, <2>3, <3>1 DEF Stages, CompositorStages
      <3>3. QED
        BY <1>1, <1>3, <2>1, <2>3, <3>1, <3>2, ProgressConsistent
    <2>4. QED
      BY <1>12, <2>2, <2>3 DEF RollbackPolicyAgreed
  <1>13. CASE RollbackRefused
    BY <1>1, <1>13, FatalConsistent DEF RollbackRefused
  <1>14. CASE RollbackDone
    <2>1. /\ run = "RollingBackCompositor" /\ bridge.tx = "Complete"
          /\ coord.stage # "Idle" /\ life.phase = "Idle"
          /\ acked["policy"] = coord.committed /\ acked["compositor"] = coord.committed
      BY <1>2, <1>14 DEF RollbackDone, Stages
    <2>2. CASE Fatal
      BY <1>1, <2>2, FatalConsistent
    <2>3. CASE ~Fatal
      <3>1. /\ installed' = [p \in Parts |-> coord.committed]
            /\ coord' = Cleared(coord.committed)
            /\ FinishTransaction(coord.result) /\ coord.result \in Results
            /\ acked' = acked /\ Finish(b)
        BY <1>3, <1>14, <2>3 DEF RollbackDone, Results, Coordinator
      <3>2. installed' \in [Parts -> Layouts] /\ \A p \in Parts : installed'[p] = coord.committed
        BY <1>3, <3>1
      <3> HIDE DEF b
      <3>3. Lends(life, b, coord.committed)
        BY <1>4, <2>1 DEF Lends
      <3>4. QED
        BY <1>1, <1>3, <1>4, <2>1, <3>1, <3>2, <3>3, FinishConsistent
    <2>4. QED
      BY <2>2, <2>3
  <1>15. QED
    BY <1>5, <1>6, <1>7, <1>8, <1>9, <1>10, <1>11, <1>12, <1>13, <1>14 DEF ServiceOutput

-----------------------------------------------------------------------------
(* What a configuration promises *)

\* Consistent is an invariant of the configuration.
THEOREM ConsistentHolds == Spec => []Consistent
  <1>1. Init => Consistent
    BY InitConsistent
  <1>2. Consistent /\ [Next]_vars => Consistent'
    <2>1. ASSUME Consistent, UNCHANGED vars
          PROVE  Consistent'
      <3>1. UNCHANGED <<tool, coord, owner, run, installed, life, bridge, acked, stopped>>
        BY <2>1 DEF vars
      <3>2. Typed'
        BY <2>1, <3>1 DEF Consistent, Typed, TypeOK
      <3>3. ~stopped => Waits' /\ Stages' /\ InForce'
        BY <2>1, <3>1 DEF Consistent, Waits, Stages, Lends, InForce
      <3>4. QED
        BY <3>1, <3>2, <3>3 DEF Consistent
    <2>2. QED
      BY <2>1, ToolsConsistent, RequestConsistent, ServeBridgeConsistent, FrameConsistent,
         LifecycleTurnConsistent, ContentTurnConsistent, ServiceOutputConsistent
         DEF Next, Environment, PeersReply, Reactor
  <1>3. QED
    BY <1>1, <1>2, PTL DEF Spec

\* Whatever is refused, lost or left behind, no part of the server and no peer
\* is on another layout than the committed one between two configurations.
THEOREM NoAuthorityIsLeftBehind == Spec => []AuthoritiesAgree
  <1>1. Consistent => AuthoritiesAgree
    BY DEF Consistent, Typed, Stages, InForce, AuthoritiesAgree, PeerNames
  <1>2. QED
    BY <1>1, ConsistentHolds, PTL


Answered(t) == tool[t].waiting /\ tool'[t].link = "up" /\ ~tool'[t].waiting

Applied(t) ==
    IF tool'[t].answer = "Accepted"
    THEN /\ coord'.committed = coord.proposed
         /\ coord'.committed.generation = tool[t].knows + 1
         /\ \A p \in Parts : installed'[p] = coord.proposed
         /\ \A p \in PeerNames : acked'[p] = coord.proposed
    ELSE coord'.committed = coord.committed

\* Reading the tools answers nobody who waits.
LEMMA ReadingAnswersNobody ==
    ASSUME Consistent, NEW t \in Tools, Answered(t), NEW u \in Tools,
           \/ AcceptPeer(u) \/ ToolLeaves(u) \/ ConsumeQuery(u)
           \/ \E s \in Snapshots : ConsumeSnapshot(u, s)
           \/ \E primary \in Outputs : ConsumeCommit(u, primary)
    PROVE  FALSE
  <1>1. ~stopped
    BY DEF AcceptPeer, ToolLeaves, ConsumeQuery, ConsumeSnapshot, ConsumeCommit, ReadTool
  <1>2. tool \in [Tools -> Tool] /\ owner = t /\ owner # None
    BY <1>1, Pieces, OutputAssumption DEF Consistent, Waits, Answered
  <1>3. CASE Disconnect(u)
    <2>1. tool'[u].link = "gone" /\ (t # u => tool'[t] = tool[t])
      BY <1>2, <1>3 DEF Disconnect, Closed
    <2>2. QED
      BY <2>1 DEF Answered
  <1>4. CASE ~Disconnect(u)
    <2>1. tool'[t].waiting = tool[t].waiting
      BY <1>2, <1>4 DEF AcceptPeer, ToolLeaves, ConsumeQuery, ConsumeSnapshot, ConsumeCommit, Tool
    <2>2. QED
      BY <2>1 DEF Answered
  <1>5. QED
    BY <1>3, <1>4

\* The tool that waits is answered by the end of its transaction alone.
LEMMA AnswerIsApplied ==
    ASSUME Consistent, [Next]_vars, NEW t \in Tools, Answered(t)
    PROVE  Applied(t)
  <1>1. tool' # tool
    BY DEF Answered
  <1>2. \/ OwnerLeftBeforeStart \/ PolicyRefused \/ RollbackDone
        \/ \E layouts \in InstallOutcomes(coord.proposed) :
              CompositorAgreed /\ layouts # installed /\ Promote(layouts)
    <2>1. \/ OwnerLeftBeforeStart \/ PolicyRefused \/ CompositorAgreed \/ RollbackDone
      <3>1. ~\E u \in Tools :
              \/ AcceptPeer(u) \/ ToolLeaves(u) \/ ConsumeQuery(u)
              \/ \E s \in Snapshots : ConsumeSnapshot(u, s)
              \/ \E primary \in Outputs : ConsumeCommit(u, primary)
        BY ReadingAnswersNobody
      <3>2. ~(ClientRequest \/ PeersReply \/ Woken \/ \E p \in PeerNames : PeerLost(p))
        BY <1>1 DEF ClientRequest, PeersReply, PeerLost, PolicyReplies, CompositorReplies,
                    FrameAnswered, PeersRecover, Woken, ServeBridge
      <3>3. ~(LifecycleTurn \/ \E damaged \in BOOLEAN : ContentTurn(damaged))
        BY <1>1 DEF LifecycleTurn, ContentTurn
      <3>4. ~(NothingToDo \/ StartConfiguration \/ PolicyAgreed \/ CompositorRefused
              \/ RollbackPolicyAgreed \/ RollbackRefused)
        BY <1>1 DEF NothingToDo, StartConfiguration, PolicyAgreed, CompositorRefused,
                    RollbackPolicyAgreed, RollbackRefused, BeginRollback, Fatal
      <3>5. ~UNCHANGED vars
        BY <1>1 DEF vars
      <3>6. QED
        BY <3>1, <3>2, <3>3, <3>4, <3>5 DEF Next, Environment, Reactor, ServiceOutput
    <2>2. CASE CompositorAgreed
      <3>1. ~(BeginRollback("CompositorRejected") \/ BeginRollback("PresenterRejected"))
        BY <1>1 DEF BeginRollback
      <3>2. QED
        BY <2>2, <3>1 DEF CompositorAgreed, Promote
    <2>3. QED
      BY <2>1, <2>2
  <1>3. ~stopped
    BY <1>2 DEF OwnerLeftBeforeStart, PolicyRefused, RollbackDone, CompositorAgreed, OutputTurn
  <1>4. /\ Typed /\ Waits /\ Stages /\ coord \in Coordinator
        /\ coord.committed \in Layouts /\ coord.proposed \in Layouts
    BY <1>3, Pieces DEF Consistent
  <1>5. owner = t /\ tool[t].knows = coord.committed.generation /\ coord.stage # "Idle"
        /\ coord.proposed.generation = coord.committed.generation + 1
    BY <1>4, OutputAssumption DEF Waits, Answered
  <1>6. CASE OwnerLeftBeforeStart
    BY <1>5, <1>6, OutputAssumption DEF OwnerLeftBeforeStart, OwnerConnected, Answered
  <1>7. CASE PolicyRefused
    <2>1. /\ coord' = Cleared(coord.committed) /\ FinishTransaction("PolicyRejected")
          /\ "PolicyRejected" \in Results
      BY <1>7 DEF PolicyRefused, Results
    <2>2. tool'[t].answer = "PolicyRejected" /\ coord'.committed = coord.committed
      BY <1>4, <1>5, <2>1, FinishTransactionAnswers, ClearedCoordinator DEF Answered
    <2>3. QED
      BY <2>2 DEF Applied
  <1>8. CASE RollbackDone
    <2>1. ~Fatal
      BY <1>1 DEF Fatal
    <2>2. /\ coord' = Cleared(coord.committed) /\ FinishTransaction(coord.result)
          /\ coord.result \in Results /\ coord.result # "Accepted"
      BY <1>4, <1>8, <2>1 DEF RollbackDone, Coordinator, Results
    <2>3. tool'[t].answer = coord.result /\ coord'.committed = coord.committed
      BY <1>4, <1>5, <2>2, FinishTransactionAnswers, ClearedCoordinator DEF Answered
    <2>4. QED
      BY <2>2, <2>3 DEF Applied
  <1>9. ASSUME NEW layouts \in InstallOutcomes(coord.proposed),
               CompositorAgreed, layouts # installed, Promote(layouts)
        PROVE  Applied(t)
    <2>1. /\ installed' = [p \in Parts |-> coord.proposed]
          /\ coord' = Cleared(coord.proposed) /\ FinishTransaction("Accepted")
          /\ "Accepted" \in Results /\ acked' = acked
      BY <1>9 DEF Promote, InstallOutcomes, Results
    <2>2. tool'[t].answer = "Accepted" /\ coord'.committed = coord.proposed
      BY <1>4, <1>5, <2>1, FinishTransactionAnswers, ClearedCoordinator DEF Answered
    <2>3. \A p \in PeerNames : acked'[p] = coord.proposed
      BY <1>4, <1>9, <2>1 DEF CompositorAgreed, Stages, PeerNames
    <2>4. QED
      BY <1>5, <2>1, <2>2, <2>3 DEF Applied
  <1>10. QED
    BY <1>2, <1>6, <1>7, <1>8, <1>9

\* A tool is told Accepted exactly when the layout it proposed is in force in
\* the server and at both peers; every other answer leaves the layout alone.
THEOREM AcceptanceIsHonest == Spec => AcceptedMeansApplied
  <1>1. Consistent /\ [Next]_vars =>
          [\A t \in Tools :
             tool[t].waiting /\ tool'[t].link = "up" /\ ~tool'[t].waiting =>
                IF tool'[t].answer = "Accepted"
                THEN /\ coord'.committed = coord.proposed
                     /\ coord'.committed.generation = tool[t].knows + 1
                     /\ \A p \in Parts : installed'[p] = coord.proposed
                     /\ \A p \in PeerNames : acked'[p] = coord.proposed
                ELSE coord'.committed = coord.committed]_vars
    BY AnswerIsApplied DEF Answered, Applied
  <1>2. QED
    BY <1>1, ConsistentHolds, PTL DEF Spec, AcceptedMeansApplied

=============================================================================
