--------------------- MODULE LifecycleCoordinatorProofs ---------------------
(***************************************************************************)
(* Proofs about the lifecycle coordinator, for every set of clients and    *)
(* windows, every queue length and every number of operations, frames and  *)
(* lost peers: its invariants, and that it implements AtomicLifecycle.     *)
(***************************************************************************)
EXTENDS LifecycleCoordinator, SequenceTheorems, TLAPS

-----------------------------------------------------------------------------
(* Proposing, rebasing and evaluating snapshots *)

\* A snapshot's windows are present with an intent or absent.
LEMMA SnapshotFields ==
    ASSUME NEW s \in Snapshot, NEW w \in Windows
    PROVE  /\ s.windows \in [Windows -> Intent \cup {Absent}]
           /\ s.focus \in Windows \cup {Root}
           /\ w \in Existing(s) <=> s.windows[w] # Absent
           /\ w \in Existing(s) => s.windows[w] \in Intent
           /\ w \in Existing(s) => \A a \in Attrs : s.windows[w][a] \in Serials
  BY DEF Snapshot, Existing, Intent

\* The start-up snapshot with no window.
LEMMA EmptySnapshotType == EmptySnapshot \in Snapshot
  BY DEF EmptySnapshot, Snapshot

\* Erasing windows, as Destroy and ClientCleanup do, leaves a snapshot of
\* exactly the others.
LEMMA RemoveProperties ==
    ASSUME NEW s \in Snapshot, NEW gone \in SUBSET Windows
    PROVE  /\ Remove(s, gone) \in Snapshot
           /\ Existing(Remove(s, gone)) = Existing(s) \ gone
           /\ Remove(s, gone).windows =
                 [w \in Windows |-> IF w \in gone THEN Absent ELSE s.windows[w]]
  BY DEF Remove, Snapshot, Existing

\* Setting one window's record.
LEMMA SetWindow ==
    ASSUME NEW s \in Snapshot, NEW w \in Windows, NEW i \in Intent
    PROVE  /\ [s EXCEPT !.windows[w] = i] \in Snapshot
           /\ [s EXCEPT !.windows[w] = i].focus = s.focus
           /\ [s EXCEPT !.windows[w] = i].windows = [s.windows EXCEPT ![w] = i]
           /\ [s EXCEPT !.windows[w] = i].windows[w] = i
           /\ Existing([s EXCEPT !.windows[w] = i]) = Existing(s) \cup {w}
  BY ConstantsAssumption DEF Snapshot, Existing

\* A proposal of defer_lifecycle is a snapshot, and it contains the window
\* unless that is being destroyed.
LEMMA ProposeProperties ==
    ASSUME NEW s \in Snapshot, NEW kind \in Kinds, NEW w \in Windows,
           NEW touched, NEW t \in Tokens,
           kind = "Create" \/ w \in Existing(s)
    PROVE  /\ Propose(s, kind, w, touched, t) \in Snapshot
           /\ kind # "Destroy" => w \in Existing(Propose(s, kind, w, touched, t))
  <1>1. CASE kind = "Create"
    <2>1. [a \in Attrs |-> t] \in Intent
      BY DEF Intent, Tokens, Serials
    <2> QED
      BY <1>1, <2>1, SetWindow DEF Propose
  <1>2. CASE kind = "Destroy"
    BY <1>2, RemoveProperties DEF Propose
  <1>3. CASE kind # "Create" /\ kind # "Destroy"
    <2> DEFINE i == [a \in Attrs |-> IF a \in touched THEN t ELSE s.windows[w][a]]
    <2>1. i \in Intent
      BY <1>3, SnapshotFields DEF Intent, Tokens, Serials
    <2>2. Propose(s, kind, w, touched, t) = [s EXCEPT !.windows[w] = i]
      BY <1>3 DEF Propose
    <2> HIDE DEF i
    <2> QED
      BY <2>1, <2>2, SetWindow
  <1> QED
    BY <1>1, <1>2, <1>3

\* The record that the field-copying kinds leave in the rebased snapshot.
Merged(s, op) ==
    [a \in Attrs |-> IF a \in CopiedBy(op.kind)
                     THEN op.proposed.windows[op.window][a] ELSE s.windows[op.window][a]]

\* rebase_lifecycle_operation yields a snapshot, and rebasing its result once
\* more on the same committed snapshot changes nothing: the proposal that
\* start_next stores in the active operation stays valid as long as nothing
\* commits.
LEMMA RebaseProperties ==
    ASSUME NEW s \in Snapshot, NEW op \in Operation, Rebasable(s, op)
    PROVE  LET r == Rebase(s, op)
               again == [op EXCEPT !.proposed = r]
           IN /\ r \in Snapshot
              /\ again \in Operation
              /\ Rebasable(s, again)
              /\ Rebase(s, again) = r
  <1> DEFINE r == Rebase(s, op)
             again == [op EXCEPT !.proposed = r]
             w == op.window
  <1>1. /\ w \in Windows
        /\ op.proposed \in Snapshot
        /\ op.kind \in Kinds
    BY DEF Operation
  <1>2. /\ again.kind = op.kind
        /\ again.window = w
        /\ again.proposed = r
    BY DEF Operation
  <1>3. CASE op.kind = "Create"
    <2>1. op.proposed.windows[w] \in Intent
      BY <1>1, <1>3, SnapshotFields DEF Rebasable
    <2>2. r = [s EXCEPT !.windows[w] = op.proposed.windows[w]]
      BY <1>3 DEF Rebase
    <2>3. r \in Snapshot /\ r.windows[w] = op.proposed.windows[w] /\ w \in Existing(r)
      BY <1>1, <2>1, <2>2, SetWindow
    <2> HIDE DEF r
    <2>4. again \in Operation
      BY <2>3 DEF Operation
    <2>5. Rebasable(s, again)
      BY <1>2, <1>3, <2>3 DEF Rebasable
    <2>6. Rebase(s, again) = [s EXCEPT !.windows[w] = r.windows[w]]
      BY <1>2, <1>3 DEF Rebase
    <2> QED
      BY <2>2, <2>3, <2>4, <2>5, <2>6 DEF r
  <1>4. CASE op.kind = "Destroy"
    <2>1. r = Remove(s, {w})
      BY <1>4 DEF Rebase
    <2> {w} \in SUBSET Windows
      BY <1>1
    <2>2. r \in Snapshot
      BY <2>1, RemoveProperties
    <2> HIDE DEF r
    <2>3. again \in Operation
      BY <2>2 DEF Operation
    <2>4. Rebasable(s, again) /\ Rebase(s, again) = Remove(s, {w})
      BY <1>2, <1>4 DEF Rebasable, Rebase
    <2> QED
      BY <2>1, <2>2, <2>3, <2>4 DEF r
  <1>5. CASE op.kind = "ClientCleanup"
    <2> DEFINE gone == Existing(s) \ Existing(op.proposed)
    <2>1. r = Remove(s, gone)
      BY <1>5 DEF Rebase
    <2>2. gone \in SUBSET Windows
      BY DEF Existing
    <2>3. r \in Snapshot /\ Existing(r) = Existing(s) \ gone
      BY <2>1, <2>2, RemoveProperties
    <2> HIDE DEF r
    <2>4. again \in Operation
      BY <2>3 DEF Operation
    <2>5. Existing(s) \ Existing(r) = gone
      BY <2>3
    <2>6. Rebasable(s, again) /\ Rebase(s, again) = Remove(s, Existing(s) \ Existing(r))
      BY <1>2, <1>5 DEF Rebasable, Rebase
    <2> QED
      BY <2>1, <2>3, <2>4, <2>5, <2>6 DEF r
  <1>6. CASE op.kind \notin {"Create", "Destroy", "ClientCleanup"}
    <2> DEFINE i == Merged(s, op)
    <2>1. w \in Existing(op.proposed) /\ w \in Existing(s)
      BY <1>6 DEF Rebasable
    <2>2. i \in Intent
      BY <1>1, <2>1, SnapshotFields DEF Merged, Intent
    <2>3. r = [s EXCEPT !.windows[w] = i]
      BY <1>6 DEF Rebase, Merged
    <2> HIDE DEF i
    <2>4. r \in Snapshot /\ r.windows[w] = i /\ w \in Existing(r)
      BY <1>1, <2>2, <2>3, SetWindow
    <2> HIDE DEF r
    <2>5. again \in Operation
      BY <2>4 DEF Operation
    <2>6. Rebasable(s, again)
      BY <1>2, <1>6, <2>1, <2>4 DEF Rebasable
    <2>7. Rebase(s, again) = [s EXCEPT !.windows[w] = Merged(s, again)]
      BY <1>2, <1>6 DEF Rebase, Merged
    <2>8. Merged(s, again) = i
      BY <1>2, <2>4 DEF Merged, i
    <2> QED
      BY <2>3, <2>4, <2>5, <2>6, <2>7, <2>8 DEF r
  <1> QED
    BY <1>3, <1>4, <1>5, <1>6

\* What the policy returns keeps the windows and their requests.
LEMMA EvaluationProperties ==
    ASSUME NEW s \in Snapshot, NEW e \in Evaluations(s)
    PROVE  /\ e \in Snapshot
           /\ e.windows = s.windows
           /\ Existing(e) = Existing(s)
  BY DEF Evaluations, Snapshot, Existing

\* Whether an operation was canceled plays no part in its rebase.
LEMMA CancelKeepsRebase ==
    ASSUME NEW s, NEW op \in Operation
    PROVE  LET c == [op EXCEPT !.canceled = TRUE]
           IN /\ c \in Operation
              /\ Rebasable(s, c) <=> Rebasable(s, op)
              /\ Rebase(s, c) = Rebase(s, op)
              /\ c.proposed = op.proposed
              /\ c.token = op.token
  <1> DEFINE c == [op EXCEPT !.canceled = TRUE]
  <1>1. /\ c \in Operation /\ c.kind = op.kind /\ c.window = op.window
        /\ c.proposed = op.proposed /\ c.token = op.token
    BY DEF Operation
  <1> HIDE DEF c
  <1>2. Rebasable(s, c) <=> Rebasable(s, op)
    BY <1>1 DEF Rebasable
  <1>3. Rebase(s, c) = Rebase(s, op)
    BY <1>1 DEF Rebase
  <1> QED
    BY <1>1, <1>2, <1>3 DEF c

-----------------------------------------------------------------------------

(***************************************************************************)
(* The inductive invariant.  Control says which of the coordinator's       *)
(* variables each phase uses, Awake what an idle coordinator's queue waits *)
(* for, Views what the peers have accepted, and Work what the active       *)
(* operation has become.                                                   *)
(***************************************************************************)

\* The request that each phase waits for the answer to.
Expected(p) ==
    CASE p = "AwaitingPolicy"     -> PolicyRequest(active.proposed)
      [] p = "RollingBackPolicy"  -> PolicyRequest(committed)
      [] p = "AwaitingCompositor" -> CompositorRequest(evaluated)
      [] OTHER                    -> CompositorRequest(committed)

Control ==
    /\ phase = "Idle" => active = NoOp
    /\ phase \in PeerPhases => active \in Operation
    /\ foreign # "none" => phase \in {"Idle", "Fatal"}
    /\ phase = "Fatal" => stopped
    /\ phase \in PeerPhases => wire = Expected(phase)
    /\ phase \notin PeerPhases => wire = NoRequest

Awake == phase = "Idle" /\ foreign = "none" /\ queue # <<>> =>
            configuring \/ dropped # "none"

Views ==
    /\ resources = Existing(committed)
    /\ phase \in {"Idle", "AwaitingPolicy"} =>
          /\ compositorView = committed
          /\ policyView = committed.windows \/ unapplied
    /\ phase = "AwaitingCompositor" =>
          policyView = evaluated.windows /\ compositorView = committed
    /\ phase = "RollingBackCompositor" => policyView = committed.windows

Work ==
    /\ phase \in {"AwaitingPolicy", "AwaitingCompositor"} =>
          /\ Rebasable(committed, active)
          /\ active.proposed = Rebase(committed, active)
    /\ phase = "AwaitingCompositor" => evaluated \in Evaluations(active.proposed)

Agreement == TypeOK /\ Control /\ Awake /\ Views /\ Work

-----------------------------------------------------------------------------
(***************************************************************************)
(* Requests and the private steps of the coordinator.                      *)
(***************************************************************************)

\* Requests to the peers are records of their type.
LEMMA RequestTypes ==
    /\ NoRequest \in RequestToPeer
    /\ \A s \in Snapshot : /\ PolicyRequest(s) \in RequestToPeer
                           /\ CompositorRequest(s) \in RequestToPeer
                           /\ PolicyRequest(s).peer = "policy"
                           /\ CompositorRequest(s).peer = "compositor"
                           /\ PolicyRequest(s).snapshot = s
                           /\ CompositorRequest(s).snapshot = s
    /\ NoRequest.peer = "none"
  BY EmptySnapshotType
     DEF NoRequest, PolicyRequest, CompositorRequest, RequestToPeer

\* What each phase waits for.
LEMMA ExpectedRequests ==
    /\ Expected("AwaitingPolicy") = PolicyRequest(active.proposed)
    /\ Expected("RollingBackPolicy") = PolicyRequest(committed)
    /\ Expected("AwaitingCompositor") = CompositorRequest(evaluated)
    /\ Expected("RollingBackCompositor") = CompositorRequest(committed)
  BY DEF Expected

\* The coordinator right after start_next: it is idle with an empty queue, or
\* a rebased operation is active, or the request could not be sent.
Started(s) ==
    /\ outcome' \in [Tokens -> Outcomes]
    /\ queue' \in Seq(Operation)
    /\ stopped' \in BOOLEAN
    /\ dropped' = "none"
    /\ \/ /\ phase' = "Idle"
          /\ active' = NoOp
          /\ queue' = <<>>
          /\ wire' = NoRequest
       \/ /\ phase' = "AwaitingPolicy"
          /\ active' \in Operation
          /\ Rebasable(s, active')
          /\ active'.proposed = Rebase(s, active')
          /\ wire' = PolicyRequest(active'.proposed)
       \/ /\ phase' = "Fatal"
          /\ active' \in Operation
          /\ wire' = NoRequest
          /\ stopped'

\* start_next, with the completions finish() makes on the way, starts an
\* operation that can be rebased or leaves nothing behind.
LEMMA StartNextStarts ==
    ASSUME NEW q \in Seq(Operation), NEW s \in Snapshot,
           NEW results \in [Tokens -> Outcomes],
           NEW sent \in BOOLEAN, NEW direct \in BOOLEAN,
           StartNext(q, s, results, sent, direct)
    PROVE  Started(s) /\ (phase' = "AwaitingPolicy" => sent)
  <1> PICK n \in 0..Len(q) :
        /\ n < Len(q) => ~Skipped(s, q[n + 1], direct /\ n = 0)
        /\ outcome' = [t \in Tokens |->
                         IF \E i \in 1..n : q[i].token = t THEN "failed" ELSE results[t]]
        /\ queue' = SubSeq(q, n + 2, Len(q))
        /\ dropped' = "none"
        /\ IF n = Len(q)
           THEN /\ active' = NoOp
                /\ phase' = "Idle"
                /\ wire' = NoRequest
                /\ stopped' = FALSE
           ELSE LET rebased == Rebase(s, q[n + 1])
                IN /\ active' = [q[n + 1] EXCEPT !.proposed = rebased]
                   /\ Send("AwaitingPolicy", PolicyRequest(rebased), sent)
    BY DEF StartNext
  <1>1. Len(q) \in Nat /\ \A i \in 1..Len(q) : q[i] \in Operation
    BY ElementOfSeq, LenProperties
  <1>2. outcome' \in [Tokens -> Outcomes]
    BY DEF Outcomes
  <1>3. queue' \in Seq(Operation)
    <2>1. \A i \in (n + 2)..Len(q) : q[i] \in Operation
      BY <1>1
    <2> QED
      BY <1>1, <2>1, SubSeqProperties
  <1>4. CASE n = Len(q)
    <2>1. queue' = <<>>
      BY <1>1, <1>4, SubSeqEmpty
    <2> QED
      BY <1>2, <1>3, <1>4, <2>1 DEF Started
  <1>5. CASE n # Len(q)
    <2> DEFINE op == q[n + 1]
    <2>1. op \in Operation
      BY <1>1, <1>5
    <2>2. Rebasable(s, op)
      BY <1>1, <1>5 DEF Skipped
    <2>3. /\ active' = [op EXCEPT !.proposed = Rebase(s, op)]
          /\ Send("AwaitingPolicy", PolicyRequest(Rebase(s, op)), sent)
      BY <1>5
    <2> HIDE DEF op
    <2>4. /\ Rebase(s, op) \in Snapshot
          /\ active' \in Operation
          /\ Rebasable(s, active')
          /\ Rebase(s, active') = Rebase(s, op)
      BY <2>1, <2>2, <2>3, RebaseProperties
    <2>5. active'.proposed = Rebase(s, op)
      BY <2>1, <2>3 DEF Operation
    <2> QED
      BY <1>2, <1>3, <2>3, <2>4, <2>5 DEF Started, Send
  <1> QED
    BY <1>4, <1>5

\* After start_next in a state where everybody holds the committed snapshot,
\* the invariant holds again.
LEMMA StartedAgrees ==
    ASSUME NEW s \in Snapshot, Started(s), committed' = s,
           phase' = "AwaitingPolicy" => foreign' = "none",
           resources' = Existing(s), compositorView' = s,
           policyView' = s.windows \/ unapplied'
    PROVE  Control' /\ Awake' /\ Views' /\ Work'
  <1>1. phase' \in {"Idle", "AwaitingPolicy", "Fatal"}
    BY DEF Started
  <1>2. Awake'
    BY DEF Awake, Started
  <1>3. Views'
    BY <1>1 DEF Views, Existing
  <1>4. Work'
    BY <1>1 DEF Work, Started
  <1>5. (phase \in PeerPhases => wire = Expected(phase))'
    <2>1. phase' \in PeerPhases => phase' = "AwaitingPolicy"
      BY <1>1 DEF PeerPhases
    <2>2. phase' = "AwaitingPolicy" => wire' = PolicyRequest(active'.proposed)
      BY DEF Started
    <2>3. Expected("AwaitingPolicy")' = PolicyRequest(active'.proposed)
      BY DEF Expected, PolicyRequest
    <2> QED
      BY <2>1, <2>2, <2>3
  <1> QED
    BY <1>1, <1>2, <1>3, <1>4, <1>5 DEF Control, Started, PeerPhases

\* A step that leaves the coordinator and its peers alone, and leaves nothing
\* behind in the queue of an idle one, keeps the rest of the invariant.
LEMMA KeepsAgreement ==
    ASSUME Control, Views, Work, Awake',
           UNCHANGED <<committed, evaluated, active, phase, wire, policyView,
                       compositorView, unapplied, resources>>,
           foreign' # "none" => phase \in {"Idle", "Fatal"},
           phase = "Fatal" => stopped'
    PROVE  Control' /\ Views' /\ Work'
  <1>1. Views'
    BY DEF Views, Existing
  <1>2. Rebasable(committed, active)' = Rebasable(committed, active)
    BY DEF Rebasable, Existing
  <1>3. Rebase(committed, active)' = Rebase(committed, active)
    BY DEF Rebase, Existing, Remove
  <1>4. Evaluations(active.proposed)' = Evaluations(active.proposed)
    BY DEF Evaluations, Existing
  <1>5. Work'
    BY <1>2, <1>3, <1>4 DEF Work
  <1>6. Expected(phase)' = Expected(phase)
    BY DEF Expected, PolicyRequest, CompositorRequest
  <1>7. Control'
    BY <1>6 DEF Control, NoRequest, EmptySnapshot
  <1> QED
    BY <1>1, <1>5, <1>7

\* The initial state satisfies the invariant.
LEMMA InitAgreement == Init => Agreement
  <1> SUFFICES ASSUME Init PROVE Agreement
    OBVIOUS
  <1>0. [a \in Attrs |-> 0] \in Intent
    BY ConstantsAssumption DEF Intent, Serials
  <1>1. committed \in Snapshot
    BY <1>0 DEF Init, Snapshot
  <1>2. TypeOK
    <2>1. queue \in Seq(Operation)
      BY EmptySeq DEF Init
    <2>2. policyView \in [Windows -> Intent \cup {Absent}]
      BY <1>1 DEF Init, Snapshot
    <2>3. nextToken \in 1..(MaxToken + 1) /\ restarts \in 0..MaxRestarts
      BY ConstantsAssumption, CoordinatorAssumption DEF Init
    <2>4. /\ children \in [Windows -> 0..MaxChildren]
          /\ blocked \in [Clients -> Serials]
          /\ outcome \in [Tokens -> Outcomes]
      BY ConstantsAssumption DEF Init, Serials, Outcomes
    <2>5. resources \in SUBSET Windows /\ connected \in SUBSET Clients
      BY CoordinatorAssumption DEF Init
    <2> QED
      BY <1>1, <2>1, <2>2, <2>3, <2>4, <2>5, EmptySnapshotType, RequestTypes
         DEF Init, TypeOK, Phases, ForeignUsers
  <1>3. resources = Existing(committed)
    BY ConstantsAssumption, CoordinatorAssumption DEF Init, Existing, Intent, Serials
  <1> QED
    BY <1>2, <1>3 DEF Init, Agreement, Control, Awake, Views, Work, PeerPhases

\* A request is handed over only to a bridge that is free.
LEMMA HandedProperties ==
    ASSUME NEW sent \in Handed
    PROVE  sent \in BOOLEAN /\ (sent => foreign = "none")
  BY DEF Handed, SendResults

\* defer_lifecycle and the server's own requests preserve the invariant.
LEMMA RequestPreserves ==
    ASSUME Agreement,
           NEW c \in Clients \cup {Internal}, NEW kind \in Kinds, NEW w \in Windows,
           NEW touched \in Touches(kind), NEW sent \in Handed,
           Request(c, kind, w, touched, sent)
    PROVE  Agreement'
  <1> DEFINE op == [token |-> nextToken, client |-> c, kind |-> kind, window |-> w,
                    targets |-> {}, subtree |-> children[w], canceled |-> FALSE,
                    proposed |-> Propose(committed, kind, w, touched, nextToken)]
             results == [outcome EXCEPT ![nextToken] = "pending"]
             full == PendingCount >= MaxPending
  <1> USE DEF Agreement
  <1>a. sent \in BOOLEAN /\ (sent => foreign = "none")
    BY HandedProperties
  <1>b. /\ ~stopped
        /\ nextToken \in Tokens
        /\ Requestable(c, kind, w)
        /\ nextToken' = nextToken + 1
        /\ UNCHANGED <<committed, evaluated, policyView, compositorView, unapplied,
                       resources, children, connected, others>>
    BY DEF Request
  <1>1. op \in Operation
    <2>1. kind = "Create" \/ w \in Existing(committed)
      BY <1>b DEF Requestable, Views
    <2>2. Propose(committed, kind, w, touched, nextToken) \in Snapshot
      BY <1>b, <2>1, ProposeProperties DEF TypeOK
    <2> QED
      BY <1>b, <2>2 DEF Operation, TypeOK
  <1>2. results \in [Tokens -> Outcomes]
    BY <1>b DEF TypeOK, Outcomes
  <1>3. Append(queue, op) \in Seq(Operation)
    BY <1>1, AppendProperties DEF TypeOK
  <1>4. nextToken' \in 1..(MaxToken + 1) /\ nextToken \in Serials
    BY <1>b, ConstantsAssumption DEF Tokens, Serials
  <1>5. CASE full
    <2>1. /\ outcome' = [outcome EXCEPT ![nextToken] = "refused"]
          /\ UNCHANGED <<queue, active, phase, wire, dropped, stopped, blocked>>
      BY <1>5 DEF Request
    <2>2. TypeOK'
      BY <1>b, <1>4, <2>1 DEF TypeOK, Outcomes, others
    <2>3. Awake'
      BY <1>b, <2>1 DEF Awake, others
    <2> QED
      BY <1>b, <2>1, <2>2, <2>3, KeepsAgreement DEF Control, others
  <1>6. CASE ~full
    <2>1. /\ Enqueue(Append(queue, op), kind, results, sent)
          /\ blocked' = IF c = Internal THEN blocked ELSE [blocked EXCEPT ![c] = nextToken]
      BY <1>6 DEF Request
    <2>2. blocked' \in [Clients -> Serials]
      BY <1>4, <2>1 DEF TypeOK
    <2> HIDE DEF op, results
    <2>3. CASE phase = "Idle" /\ ~Parked(kind)
      <3>1. StartNext(Append(queue, op), committed, results, sent, TRUE)
        BY <2>1, <2>3 DEF Enqueue
      <3>2. Started(committed) /\ (phase' = "AwaitingPolicy" => sent)
        BY <1>a, <1>2, <1>3, <3>1, StartNextStarts DEF TypeOK
      <3>3. TypeOK'
        BY <1>b, <1>4, <2>2, <3>2, RequestTypes
           DEF TypeOK, Started, Phases, Operation, others
      <3>4. compositorView = committed /\ (policyView = committed.windows \/ unapplied)
        BY <2>3 DEF Views
      <3> QED
        BY <1>a, <1>b, <2>3, <3>2, <3>3, <3>4, StartedAgrees DEF Views, TypeOK, others
    <2>4. CASE ~(phase = "Idle" /\ ~Parked(kind))
      <3>1. /\ queue' = Append(queue, op)
            /\ outcome' = results
            /\ UNCHANGED <<active, phase, wire, dropped, stopped>>
        BY <2>1, <2>4 DEF Enqueue
      <3>2. TypeOK'
        BY <1>b, <1>2, <1>3, <1>4, <2>2, <3>1 DEF TypeOK, others
      <3>3. Awake'
        BY <1>b, <2>4, <3>1 DEF Awake, Parked, others
      <3> QED
        BY <1>b, <3>1, <3>2, <3>3, KeepsAgreement DEF Control, others
    <2> QED
      BY <2>3, <2>4
  <1> QED
    BY <1>5, <1>6

\* cancel_client on the queue and on the active operation.
LEMMA CanceledTypes ==
    ASSUME NEW q \in Seq(Operation), NEW c
    PROVE  LET r == [i \in 1..Len(q) |-> Canceled(q[i], c)]
           IN /\ r \in Seq(Operation)
              /\ Len(r) = Len(q)
              /\ q = <<>> => r = <<>>
  <1> DEFINE r == [i \in 1..Len(q) |-> Canceled(q[i], c)]
  <1>1. Len(q) \in Nat /\ \A i \in 1..Len(q) : q[i] \in Operation
    BY ElementOfSeq, LenProperties
  <1>2. \A i \in 1..Len(q) : Canceled(q[i], c) \in Operation
    BY <1>1, CancelKeepsRebase DEF Canceled
  <1>3. r \in [1..Len(q) -> Operation]
    BY <1>2
  <1>4. r \in Seq(Operation)
    BY <1>1, <1>3, SeqDef
  <1>5. Len(r) = Len(q)
    BY <1>1, <1>3, <1>4, LenProperties
  <1>6. q = <<>> => r = <<>>
    BY <1>4, <1>5, EmptySeq
  <1> QED
    BY <1>4, <1>5, <1>6

\* Canceling the active operation changes nothing that the invariant says of it.
LEMMA CancelAgrees ==
    ASSUME TypeOK, Control, Views, Work, Awake', NEW c,
           active' = IF active = NoOp THEN NoOp ELSE Canceled(active, c),
           UNCHANGED <<committed, evaluated, phase, wire, policyView,
                       compositorView, unapplied, resources, foreign>>,
           phase = "Fatal" => stopped'
    PROVE  Control' /\ Views' /\ Work' /\ active' \in Operation \cup {NoOp}
  <1>1. CASE active' = active
    BY <1>1, KeepsAgreement DEF TypeOK, Control
  <1>2. CASE active' # active
    <2>1. active \in Operation /\ active' = [active EXCEPT !.canceled = TRUE]
      BY <1>2 DEF TypeOK, Canceled
    <2>2. /\ active' \in Operation
          /\ active'.proposed = active.proposed
          /\ Rebasable(committed, active') <=> Rebasable(committed, active)
          /\ Rebase(committed, active') = Rebase(committed, active)
      BY <2>1, CancelKeepsRebase
    <2>4. Views'
      BY DEF Views, Existing
    <2>5. Work'
      <3>1. Rebasable(committed, active)' <=> Rebasable(committed, active)
        BY <2>2 DEF Rebasable, Existing
      <3>2. Rebase(committed, active)' = Rebase(committed, active)
        BY <2>2 DEF Rebase, Existing, Remove
      <3>3. Evaluations(active.proposed)' = Evaluations(active.proposed)
        BY <2>2 DEF Evaluations, Existing
      <3> QED
        BY <2>2, <3>1, <3>2, <3>3 DEF Work
    <2>6. Expected(phase)' = Expected(phase)
      BY <2>2 DEF Expected, PolicyRequest, CompositorRequest
    <2>7. phase # "Idle"
      BY <2>1, ConstantsAssumption DEF Control
    <2>8. Control'
      BY <2>2, <2>6, <2>7 DEF Control, NoRequest, EmptySnapshot
    <2> QED
      BY <2>2, <2>4, <2>5, <2>8
  <1> QED
    BY <1>1, <1>2

\* cancel_client_lifecycle preserves the invariant.
LEMMA DisconnectPreserves ==
    ASSUME Agreement, NEW c \in Clients, NEW sent \in Handed, Disconnect(c, sent)
    PROVE  Agreement'
  <1> DEFINE targets == {w \in resources : Owner[w] = c}
             canceled == [i \in 1..Len(queue) |-> Canceled(queue[i], c)]
             canceledActive == IF active = NoOp THEN NoOp ELSE Canceled(active, c)
             cleanup == [token |-> nextToken, client |-> c, kind |-> "ClientCleanup",
                         window |-> CHOOSE w \in targets : TRUE, targets |-> targets,
                         subtree |-> 0, proposed |-> Remove(committed, targets),
                         canceled |-> FALSE]
             results == [outcome EXCEPT ![nextToken] = "pending"]
  <1> USE DEF Agreement
  <1>a. sent \in BOOLEAN /\ (sent => foreign = "none")
    BY HandedProperties
  <1>b. /\ connected' = connected \ {c}
        /\ blocked' = [blocked EXCEPT ![c] = 0]
        /\ ~stopped
        /\ UNCHANGED <<committed, evaluated, policyView, compositorView, unapplied,
                       resources, children, others>>
    BY DEF Disconnect
  <1>c. connected' \in SUBSET Clients /\ blocked' \in [Clients -> Serials]
    BY <1>b, ConstantsAssumption DEF TypeOK, Serials
  <1>1. canceled \in Seq(Operation) /\ (queue = <<>> => canceled = <<>>)
    BY CanceledTypes DEF TypeOK
  <1>2. CASE targets = {}
    <2>1. /\ queue' = canceled
          /\ active' = canceledActive
          /\ UNCHANGED <<phase, wire, outcome, nextToken, dropped, stopped>>
      BY <1>2 DEF Disconnect
    <2>2. Awake'
      BY <1>1, <1>b, <2>1 DEF Awake, others
    <2>3. Control' /\ Views' /\ Work' /\ active' \in Operation \cup {NoOp}
      BY <1>b, <2>1, <2>2, CancelAgrees DEF Control, others
    <2>4. TypeOK'
      BY <1>b, <1>c, <1>1, <2>1, <2>3 DEF TypeOK, others
    <2> QED
      BY <2>2, <2>3, <2>4
  <1>3. CASE targets # {}
    <2>a. nextToken \in Tokens /\ nextToken' = nextToken + 1
      BY <1>3 DEF Disconnect
    <2>b. nextToken' \in 1..(MaxToken + 1)
      BY <2>a, ConstantsAssumption DEF Tokens
    <2>c. results \in [Tokens -> Outcomes]
      BY <2>a DEF TypeOK, Outcomes
    <2>d. cleanup \in Operation
      <3>1. targets \in SUBSET Windows /\ (CHOOSE w \in targets : TRUE) \in targets
        BY <1>3 DEF TypeOK
      <3>2. Remove(committed, targets) \in Snapshot
        BY <3>1, RemoveProperties DEF TypeOK
      <3> HIDE DEF targets
      <3> QED
        BY <2>a, <3>1, <3>2, ConstantsAssumption DEF Operation, Kinds
    <2>e. <<cleanup>> \o canceled \in Seq(Operation)
      <3>1. <<cleanup>> \in Seq(Operation)
        BY <2>d
      <3> QED
        BY <1>1, <3>1, ConcatProperties
    <2>1. CASE PendingCount >= MaxPending
      <3>1. /\ queue' = canceled
            /\ active' = canceledActive
            /\ outcome' = [outcome EXCEPT ![nextToken] = "refused"]
            /\ stopped' = TRUE
            /\ UNCHANGED <<phase, wire, dropped>>
        BY <1>3, <2>1 DEF Disconnect
      <3>2. Awake'
        BY <1>1, <1>b, <3>1 DEF Awake, others
      <3>3. Control' /\ Views' /\ Work' /\ active' \in Operation \cup {NoOp}
        BY <1>b, <3>1, <3>2, CancelAgrees DEF others
      <3>4. TypeOK'
        BY <1>b, <1>c, <1>1, <2>b, <3>1, <3>3 DEF TypeOK, Outcomes, others
      <3> QED
        BY <3>2, <3>3, <3>4
    <2>2. CASE ~(PendingCount >= MaxPending) /\ phase = "Idle" /\ ~Parked("ClientCleanup")
      <3>1. StartNext(<<cleanup>> \o canceled, committed, results, sent, TRUE)
        BY <1>3, <2>2 DEF Disconnect
      <3> HIDE DEF results, cleanup, canceled
      <3>2. Started(committed) /\ (phase' = "AwaitingPolicy" => sent)
        BY <1>a, <2>c, <2>e, <3>1, StartNextStarts DEF TypeOK
      <3>3. TypeOK'
        BY <1>b, <1>c, <2>b, <3>2, RequestTypes
           DEF TypeOK, Started, Phases, Operation, others
      <3>4. compositorView = committed /\ (policyView = committed.windows \/ unapplied)
        BY <2>2 DEF Views
      <3> QED
        BY <1>a, <1>b, <2>2, <3>2, <3>3, <3>4, StartedAgrees DEF Views, TypeOK, others
    <2>3. CASE ~(PendingCount >= MaxPending) /\ ~(phase = "Idle" /\ ~Parked("ClientCleanup"))
      <3>1. /\ queue' = <<cleanup>> \o canceled
            /\ active' = canceledActive
            /\ outcome' = results
            /\ UNCHANGED <<phase, wire, dropped, stopped>>
        BY <1>3, <2>3 DEF Disconnect
      <3>a. Awake'
        BY <1>b, <2>3, <3>1 DEF Awake, Parked, others
      <3>2. Control' /\ Views' /\ Work' /\ active' \in Operation \cup {NoOp}
        BY <1>b, <3>1, <3>a, CancelAgrees DEF Control, others
      <3> HIDE DEF results, cleanup, canceled, canceledActive
      <3>3. TypeOK'
        BY <1>b, <1>c, <2>b, <2>c, <2>e, <3>1, <3>2 DEF TypeOK, others
      <3> QED
        BY <3>a, <3>2, <3>3
    <2> QED
      BY <2>1, <2>2, <2>3
  <1> QED
    BY <1>2, <1>3

-----------------------------------------------------------------------------
(***************************************************************************)
(* The answers of the peers preserve the invariant.                        *)
(***************************************************************************)

\* A rollback starts from any state of the peers.
LEMMA RollbackAgrees ==
    ASSUME TypeOK, Control, resources = Existing(committed), NEW sent \in BOOLEAN,
           phase \in PeerPhases, BeginRollback(sent),
           foreign' = foreign
    PROVE  /\ Control' /\ Awake' /\ Views' /\ Work'
           /\ phase' \in Phases /\ wire' \in RequestToPeer /\ stopped' \in BOOLEAN
  <1>1. /\ phase' = IF sent THEN "RollingBackPolicy" ELSE "Fatal"
        /\ wire' = IF sent THEN PolicyRequest(committed) ELSE NoRequest
        /\ stopped' = ~sent
        /\ UNCHANGED <<committed, queue, active, resources>>
    BY DEF BeginRollback, Send
  <1>2. Awake'
    BY <1>1 DEF Awake
  <1>3. Views' /\ Work'
    BY <1>1 DEF Views, Work, Existing
  <1>4. (phase \in PeerPhases => wire = Expected(phase))'
    <2>1. Expected("RollingBackPolicy")' = PolicyRequest(committed)
      BY <1>1 DEF Expected, PolicyRequest
    <2> QED
      BY <1>1, <2>1 DEF PeerPhases
  <1>5. Control'
    BY <1>1, <1>4 DEF Control, PeerPhases, NoRequest, EmptySnapshot
  <1> QED
    BY <1>1, <1>2, <1>3, <1>5, RequestTypes DEF Phases, TypeOK

LEMMA PolicyAcceptedPreserves ==
    ASSUME Agreement, NEW sent \in SendResults, PolicyAccepted(sent)
    PROVE  Agreement'
  <1> USE DEF Agreement
  <1>a. sent \in BOOLEAN
    BY DEF SendResults
  <1>b. /\ policyView' = wire.snapshot.windows
        /\ unapplied' = FALSE
        /\ UNCHANGED <<compositorView, connected, nextToken, others>>
        /\ active # NoOp
    BY DEF PolicyAccepted, Awaits
  <1>c. policyView' \in [Windows -> Intent \cup {Absent}]
    BY <1>b DEF TypeOK, RequestToPeer, Snapshot
  <1>1. CASE /\ phase = "RollingBackPolicy"
             /\ Send("RollingBackCompositor", CompositorRequest(committed), sent)
             /\ UNCHANGED <<committed, evaluated, queue, active, resources, children,
                            blocked, outcome, dropped>>
    <2>1. policyView' = committed.windows
      <3>1. wire = PolicyRequest(committed)
        BY <1>1, ExpectedRequests DEF Control, PeerPhases
      <3> QED
        BY <1>b, <3>1, RequestTypes DEF TypeOK
    <2>2. /\ phase' = IF sent THEN "RollingBackCompositor" ELSE "Fatal"
          /\ wire' = IF sent THEN CompositorRequest(committed) ELSE NoRequest
          /\ stopped' = ~sent
      BY <1>1 DEF Send
    <2>3. TypeOK'
      BY <1>a, <1>b, <1>c, <1>1, <2>2, RequestTypes DEF TypeOK, Phases, others
    <2>4. Awake'
      BY <2>2 DEF Awake
    <2>5. Views' /\ Work'
      BY <1>1, <2>1, <2>2 DEF Views, Work, Existing
    <2>6. Expected("RollingBackCompositor")' = CompositorRequest(committed)
      BY <1>1 DEF Expected, CompositorRequest
    <2>7. Control'
      BY <1>1, <1>b, <2>2, <2>6 DEF Control, PeerPhases, NoRequest, EmptySnapshot, others
    <2> QED
      BY <2>3, <2>4, <2>5, <2>7
  <1>2. ASSUME phase = "AwaitingPolicy", NEW e \in Evaluations(active.proposed),
               evaluated' = e,
               IF active.canceled
               THEN BeginRollback(sent)
               ELSE /\ Send("AwaitingCompositor", CompositorRequest(e), sent)
                    /\ UNCHANGED <<committed, queue, active, resources,
                                   children, blocked, outcome, dropped>>
        PROVE  Agreement'
    <2>1. active \in Operation /\ active.proposed \in Snapshot
      BY <1>2 DEF Control, PeerPhases, Operation
    <2>2. e \in Snapshot /\ e.windows = active.proposed.windows
      BY <2>1, EvaluationProperties
    <2>3. CASE active.canceled
      <3>1. Control' /\ Awake' /\ Views' /\ Work' /\ phase' \in Phases
            /\ wire' \in RequestToPeer /\ stopped' \in BOOLEAN
        BY <1>a, <1>b, <1>2, <2>3, RollbackAgrees DEF PeerPhases, Views, others
      <3>2. TypeOK'
        BY <1>b, <1>c, <1>2, <2>2, <2>3, <3>1 DEF TypeOK, BeginRollback, others
      <3> QED
        BY <3>1, <3>2
    <2>4. CASE ~active.canceled
      <3>1. /\ phase' = IF sent THEN "AwaitingCompositor" ELSE "Fatal"
            /\ wire' = IF sent THEN CompositorRequest(e) ELSE NoRequest
            /\ stopped' = ~sent
            /\ UNCHANGED <<committed, queue, active, resources, children, blocked,
                           outcome, dropped>>
        BY <1>2, <2>4 DEF Send
      <3>2. policyView' = e.windows
        <4>1. wire = PolicyRequest(active.proposed)
          BY <1>2, ExpectedRequests DEF Control, PeerPhases
        <4> QED
          BY <1>b, <2>1, <2>2, <4>1, RequestTypes
      <3>3. TypeOK'
        BY <1>a, <1>b, <1>c, <1>2, <2>2, <3>1, RequestTypes DEF TypeOK, Phases, others
      <3>4. Awake'
        BY <3>1 DEF Awake
      <3>6. Views'
        BY <1>b, <1>2, <3>1, <3>2 DEF Views, Existing
      <3>7. Work'
        <4>1. Rebasable(committed, active)' = Rebasable(committed, active)
          BY <3>1 DEF Rebasable, Existing
        <4>2. Rebase(committed, active)' = Rebase(committed, active)
          BY <3>1 DEF Rebase, Existing, Remove
        <4>3. Evaluations(active.proposed)' = Evaluations(active.proposed)
          BY <3>1 DEF Evaluations, Existing
        <4> QED
          BY <1>2, <3>1, <4>1, <4>2, <4>3 DEF Work
      <3>8. Expected("AwaitingCompositor")' = CompositorRequest(e)
        BY <1>2, <3>1 DEF Expected, CompositorRequest
      <3>9. Control'
        BY <1>b, <1>2, <2>1, <3>1, <3>8
           DEF Control, PeerPhases, NoRequest, EmptySnapshot, others
      <3> QED
        BY <3>3, <3>4, <3>6, <3>7, <3>9
    <2> QED
      BY <2>3, <2>4
  <1> QED
    BY <1>1, <1>2 DEF PolicyAccepted

\* finish() on a committed snapshot that both peers hold.
LEMMA FinishAgrees ==
    ASSUME TypeOK, NEW s \in Snapshot, NEW result \in Outcomes, NEW sent \in BOOLEAN,
           active \in Operation, Finish(s, result, sent),
           committed' = s, foreign' = "none",
           resources' = Existing(s), compositorView' = s,
           policyView' = s.windows \/ unapplied'
    PROVE  /\ Control' /\ Awake' /\ Views' /\ Work'
           /\ Started(s)
           /\ evaluated' \in Snapshot
           /\ blocked' \in [Clients -> Serials]
           /\ wire' \in RequestToPeer
           /\ active' \in Operation \cup {NoOp}
           /\ phase' \in Phases
  <1>1. [outcome EXCEPT ![active.token] = result] \in [Tokens -> Outcomes]
    BY DEF TypeOK
  <1>2. Started(s)
    BY <1>1, StartNextStarts DEF Finish, TypeOK
  <1>3. Control' /\ Awake' /\ Views' /\ Work'
    BY <1>2, StartedAgrees
  <1>4. blocked' \in [Clients -> Serials]
    BY ConstantsAssumption DEF Finish, Unblock, TypeOK, Serials
  <1> QED
    BY <1>2, <1>3, <1>4, EmptySnapshotType, RequestTypes
       DEF Finish, Started, Phases, Operation

LEMMA FailAtPolicyPreserves ==
    ASSUME Agreement, NEW sent \in SendResults, Awaits("policy"), FailAtPolicy(sent),
           \/ UNCHANGED <<policyView, unapplied>>
           \/ policyView' = wire.snapshot.windows /\ unapplied' = TRUE
    PROVE  Agreement'
  <1> USE DEF Agreement
  <1>a. sent \in BOOLEAN
    BY DEF SendResults
  <1>b. UNCHANGED <<committed, compositorView, resources, children, connected,
                    nextToken, others>>
    BY DEF FailAtPolicy
  <1>c. /\ policyView' \in [Windows -> Intent \cup {Absent}]
        /\ unapplied' \in BOOLEAN
    BY DEF TypeOK, RequestToPeer, Snapshot
  <1>d. active \in Operation
    BY DEF Awaits, TypeOK
  <1>1. CASE phase = "AwaitingPolicy"
    <2>1. /\ Finish(committed, "failed", sent)
          /\ foreign' = "none"
          /\ resources' = Existing(committed)
          /\ policyView' = committed.windows \/ unapplied'
          /\ compositorView' = committed
      BY <1>1, <1>b DEF FailAtPolicy, Control, Views, TypeOK, others
    <2>2. /\ Control' /\ Awake' /\ Views' /\ Work'
          /\ Started(committed)
          /\ evaluated' \in Snapshot
          /\ blocked' \in [Clients -> Serials]
          /\ wire' \in RequestToPeer
          /\ active' \in Operation \cup {NoOp}
          /\ phase' \in Phases
      BY <1>a, <1>b, <1>d, <2>1, FinishAgrees DEF TypeOK, Outcomes
    <2>3. TypeOK'
      BY <1>b, <1>c, <2>2 DEF TypeOK, Started, others
    <2> QED
      BY <2>2, <2>3
  <1>2. CASE phase # "AwaitingPolicy"
    <2>1. /\ stopped' = TRUE
          /\ UNCHANGED <<evaluated, queue, active, phase, wire, blocked, outcome, dropped>>
      BY <1>2 DEF FailAtPolicy
    <2>2. TypeOK'
      BY <1>b, <1>c, <2>1 DEF TypeOK, others
    <2>3. wire.peer = "policy"
      BY DEF Awaits
    <2>4. phase = "RollingBackPolicy"
      <3>1. phase \in PeerPhases /\ wire = Expected(phase)
        BY <2>3, RequestTypes DEF Control
      <3>2. active.proposed \in Snapshot
        BY <1>d DEF Operation
      <3> QED
        BY <1>2, <2>3, <3>1, <3>2, ExpectedRequests, RequestTypes DEF PeerPhases, TypeOK
    <2>5. Awake' /\ Views' /\ Work'
      BY <1>b, <2>1, <2>4 DEF Awake, Views, Work, Existing, others
    <2>6. Expected(phase)' = Expected(phase)
      BY <1>b, <2>1 DEF Expected, PolicyRequest, CompositorRequest
    <2>7. Control'
      BY <1>b, <1>d, <2>1, <2>4, <2>6
         DEF Control, PeerPhases, NoRequest, EmptySnapshot, others
    <2> QED
      BY <2>2, <2>5, <2>7
  <1> QED
    BY <1>1, <1>2

\* A refusal by the policy, and an answer of it that cannot be applied.
LEMMA PolicyRejectedPreserves ==
    ASSUME Agreement, NEW sent \in SendResults,
           PolicyRejected(sent) \/ PolicyUnusable(sent)
    PROVE  Agreement'
  BY FailAtPolicyPreserves DEF PolicyRejected, PolicyUnusable

LEMMA CompositorAcceptedPreserves ==
    ASSUME Agreement, NEW sent \in SendResults, CompositorAccepted(sent)
    PROVE  Agreement'
  <1> USE DEF Agreement
  <1>a. sent \in BOOLEAN
    BY DEF SendResults
  <1>b. /\ compositorView' = wire.snapshot
        /\ UNCHANGED <<policyView, unapplied, connected, nextToken, others>>
    BY DEF CompositorAccepted
  <1>c. compositorView' \in Snapshot
    BY <1>b DEF TypeOK, RequestToPeer
  <1>1. CASE /\ phase = "AwaitingCompositor" /\ active.canceled
             /\ BeginRollback(sent)
             /\ UNCHANGED evaluated
    <2>1. /\ Control' /\ Awake' /\ Views' /\ Work' /\ phase' \in Phases
          /\ wire' \in RequestToPeer /\ stopped' \in BOOLEAN
      BY <1>a, <1>b, <1>1, RollbackAgrees DEF PeerPhases, Views, others
    <2>2. TypeOK'
      BY <1>b, <1>c, <1>1, <2>1 DEF TypeOK, BeginRollback, others
    <2> QED
      BY <2>1, <2>2
  <1>2. CASE /\ phase = "AwaitingCompositor" /\ ~active.canceled
             /\ CommitSucceeds(active, evaluated)
             /\ resources' = Staged(active)
             /\ children' = [w \in Windows |-> IF w \in Staged(active)
                                               THEN children[w] ELSE 0]
             /\ committed' = evaluated
             /\ Finish(evaluated, "done", sent)
    <2>1. /\ wire = CompositorRequest(evaluated)
          /\ active \in Operation
          /\ foreign' = "none"
      BY <1>b, <1>2, ExpectedRequests DEF Control, PeerPhases, TypeOK, others
    <2>2. /\ compositorView' = evaluated
          /\ policyView' = evaluated.windows
          /\ resources' = Existing(evaluated)
      BY <1>b, <1>2, <2>1, RequestTypes DEF Views, CommitSucceeds, TypeOK
    <2>3. /\ Control' /\ Awake' /\ Views' /\ Work'
          /\ Started(evaluated)
          /\ evaluated' \in Snapshot
          /\ blocked' \in [Clients -> Serials]
          /\ wire' \in RequestToPeer
          /\ active' \in Operation \cup {NoOp}
          /\ phase' \in Phases
      BY <1>a, <1>b, <1>2, <2>1, <2>2, FinishAgrees DEF TypeOK, Outcomes
    <2>4. resources' \in SUBSET Windows /\ children' \in [Windows -> 0..MaxChildren]
      BY <1>2, <2>2, ConstantsAssumption DEF Existing, TypeOK
    <2>5. TypeOK'
      BY <1>b, <1>c, <1>2, <2>3, <2>4 DEF TypeOK, Started, others
    <2> QED
      BY <2>3, <2>5
  <1>3. CASE /\ phase = "AwaitingCompositor" /\ ~active.canceled
             /\ ~CommitSucceeds(active, evaluated)
             /\ phase' = "Fatal"
             /\ wire' = NoRequest
             /\ stopped' = TRUE
             /\ UNCHANGED <<committed, evaluated, queue, active, resources, children,
                            blocked, outcome, dropped>>
    <2>1. TypeOK'
      BY <1>b, <1>c, <1>3, RequestTypes DEF TypeOK, Phases, others
    <2>3. Awake' /\ Views' /\ Work'
      BY <1>3 DEF Awake, Views, Work, Existing
    <2>4. Control'
      BY <1>3, <1>b DEF Control, PeerPhases, NoRequest, EmptySnapshot, others
    <2> QED
      BY <2>1, <2>3, <2>4
  <1>4. CASE /\ phase = "RollingBackCompositor"
             /\ Finish(committed, "failed", sent)
             /\ UNCHANGED <<committed, resources, children>>
    <2>1. /\ wire = CompositorRequest(committed)
          /\ active \in Operation
          /\ foreign' = "none"
      BY <1>b, <1>4, ExpectedRequests DEF Control, PeerPhases, TypeOK, others
    <2>2. /\ compositorView' = committed
          /\ policyView' = committed.windows
          /\ resources' = Existing(committed)
      BY <1>b, <1>4, <2>1, RequestTypes DEF Views, TypeOK
    <2>3. /\ Control' /\ Awake' /\ Views' /\ Work'
          /\ Started(committed)
          /\ evaluated' \in Snapshot
          /\ blocked' \in [Clients -> Serials]
          /\ wire' \in RequestToPeer
          /\ active' \in Operation \cup {NoOp}
          /\ phase' \in Phases
      BY <1>a, <1>b, <1>4, <2>1, <2>2, FinishAgrees DEF TypeOK, Outcomes
    <2>4. TypeOK'
      BY <1>b, <1>c, <1>4, <2>3 DEF TypeOK, Started, others
    <2> QED
      BY <2>3, <2>4
  <1> QED
    BY <1>1, <1>2, <1>3, <1>4 DEF CompositorAccepted

LEMMA CompositorRejectedPreserves ==
    ASSUME Agreement, NEW sent \in SendResults, CompositorRejected(sent)
    PROVE  Agreement'
  <1> USE DEF Agreement
  <1>a. sent \in BOOLEAN
    BY DEF SendResults
  <1>b. UNCHANGED <<evaluated, policyView, compositorView, unapplied, connected,
                    nextToken, others>>
    BY DEF CompositorRejected
  <1>1. CASE phase = "AwaitingCompositor"
    <2>1. BeginRollback(sent)
      BY <1>1 DEF CompositorRejected
    <2>2. /\ Control' /\ Awake' /\ Views' /\ Work' /\ phase' \in Phases
          /\ wire' \in RequestToPeer /\ stopped' \in BOOLEAN
      BY <1>a, <1>b, <1>1, <2>1, RollbackAgrees DEF PeerPhases, Views, others
    <2>3. TypeOK'
      BY <1>b, <2>1, <2>2 DEF TypeOK, BeginRollback, others
    <2> QED
      BY <2>2, <2>3
  <1>2. CASE phase # "AwaitingCompositor"
    <2>1. /\ stopped' = TRUE
          /\ UNCHANGED <<committed, queue, active, phase, wire, resources, children,
                         blocked, outcome, dropped>>
      BY <1>2 DEF CompositorRejected
    <2>2. TypeOK'
      BY <1>b, <2>1 DEF TypeOK, others
    <2>3. Awake'
      BY <1>b, <2>1 DEF Awake, others
    <2> QED
      BY <1>b, <2>1, <2>2, <2>3, KeepsAgreement DEF Control, others
  <1> QED
    BY <1>1, <1>2

\* The loss of a peer, its return, the bridge's deadline, and the begin and
\* the failures of frames and output configurations leave the coordinator as
\* it is.
Aside ==
    \/ PeerLost \/ PeerBack \/ Deadline
    \/ \E user \in {"content", "cursor"} : BeginFrame(user)
    \/ CursorRefused \/ ForeignFails \/ Configure \/ BeginOutput

LEMMA AsideKeeps == Aside => UNCHANGED coordination
  BY DEF Aside, PeerLost, PeerBack, Deadline, BeginFrame, CursorRefused, ForeignFails,
         Configure, BeginOutput

LEMMA AsidePreserves ==
    ASSUME Agreement, Aside
    PROVE  Agreement'
  <1> USE DEF Agreement
  <1>1. UNCHANGED <<committed, evaluated, queue, active, phase, wire, policyView,
                    compositorView, unapplied, resources, children, connected,
                    blocked, outcome, nextToken>>
    BY AsideKeeps DEF coordination
  <1>2. /\ foreign' \in ForeignUsers
        /\ configuring' \in BOOLEAN
        /\ replayAttempted' \in BOOLEAN
        /\ dropped' \in {"none", "refused", "reset"}
        /\ ready' \in BOOLEAN
        /\ restarts' \in 0..MaxRestarts
        /\ stopped' \in BOOLEAN
        /\ stopped => stopped'
        /\ foreign' # "none" => phase \in {"Idle", "Fatal"}
        /\ Awake'
    <2> USE DEF TypeOK, ForeignUsers, others
    <2>1. CASE PeerLost
      <3>1. /\ foreign' = CASE foreign = "cursor"  -> "none"
                             [] foreign = "content" -> "replay"
                             [] OTHER               -> foreign
            /\ dropped' = IF foreign = "cursor" /\ queue # <<>> THEN "reset" ELSE dropped
            /\ restarts < MaxRestarts /\ restarts' = restarts + 1
            /\ ready' = FALSE
            /\ UNCHANGED <<configuring, replayAttempted, stopped>>
        BY <2>1 DEF PeerLost
      <3>2. restarts' \in 0..MaxRestarts
        BY <3>1, CoordinatorAssumption
      <3> QED
        BY <1>1, <3>1, <3>2 DEF Awake, Control
    <2>2. CASE PeerBack \/ Deadline \/ ForeignFails
      BY <1>1, <2>2 DEF PeerBack, Deadline, ForeignFails, Awake, Control
    <2>3. CASE \E user \in {"content", "cursor"} : BeginFrame(user)
      BY <1>1, <2>3 DEF BeginFrame, Awake, Control
    <2>4. CASE CursorRefused
      BY <1>1, <2>4 DEF CursorRefused, Awake, Control
    <2>5. CASE Configure \/ BeginOutput
      BY <1>1, <2>5 DEF Configure, BeginOutput, Awake, Control
    <2> QED
      BY <2>1, <2>2, <2>3, <2>4, <2>5 DEF Aside
  <1>3. TypeOK'
    BY <1>1, <1>2 DEF TypeOK
  <1> QED
    BY <1>1, <1>2, <1>3, KeepsAgreement DEF Control

\* What resume() starts when a frame, an output transaction or a leaving tool
\* hands the peers back, on a snapshot s that they hold.
LEMMA ResumePreserves ==
    ASSUME Agreement, NEW s \in Snapshot, NEW sent \in BOOLEAN,
           StartNext(queue, s, outcome, sent, TRUE), Unblock,
           sent => foreign' = "none",
           committed' = s, compositorView' = s, policyView' = s.windows \/ unapplied',
           policyView' \in [Windows -> Intent \cup {Absent}],
           Existing(s) = Existing(committed),
           UNCHANGED <<evaluated, resources, children, connected, nextToken, restarts>>,
           foreign' \in ForeignUsers, configuring' \in BOOLEAN,
           replayAttempted' \in BOOLEAN, ready' \in BOOLEAN, unapplied' \in BOOLEAN
    PROVE  Agreement'
  <1> USE DEF Agreement
  <1>1. Started(s) /\ (phase' = "AwaitingPolicy" => sent)
    BY StartNextStarts DEF TypeOK
  <1>2. resources' = Existing(s)
    BY DEF Views
  <1>3. Control' /\ Awake' /\ Views' /\ Work'
    BY <1>1, <1>2, StartedAgrees
  <1>4. blocked' \in [Clients -> Serials]
    BY ConstantsAssumption DEF Unblock, TypeOK, Serials
  <1>5. TypeOK'
    BY <1>1, <1>4, RequestTypes DEF TypeOK, Started, Phases, Operation
  <1> QED
    BY <1>3, <1>5

\* The accepted frame, the leaving tool and the end of an output transaction.
LEMMA ForeignPreserves ==
    ASSUME Agreement,
           \/ \E sent \in SendResults : FrameAccepted(sent) \/ OutputEnds(sent)
           \/ \E sent \in Handed : LeaveTool(sent)
    PROVE  Agreement'
  <1>a. /\ committed \in Snapshot /\ foreign \in ForeignUsers
        /\ configuring \in BOOLEAN /\ replayAttempted \in BOOLEAN
        /\ ready \in BOOLEAN /\ unapplied \in BOOLEAN
        /\ policyView \in [Windows -> Intent \cup {Absent}]
    BY DEF Agreement, TypeOK
  <1>b. foreign # "none" /\ ~stopped => phase = "Idle"
    BY DEF Agreement, Control
  <1>c. phase = "Idle" => compositorView = committed
                          /\ (policyView = committed.windows \/ unapplied)
    BY DEF Agreement, Views
  <1>1. ASSUME NEW sent \in SendResults, FrameAccepted(sent)
        PROVE  Agreement'
    <2>1. sent \in BOOLEAN /\ phase = "Idle"
      BY <1>b, <1>1 DEF SendResults, FrameAccepted
    <2>2. /\ StartNext(queue, committed, outcome, sent, TRUE)
          /\ Unblock
          /\ foreign' = "none" /\ replayAttempted' \in BOOLEAN
          /\ UNCHANGED <<committed, evaluated, policyView, compositorView, unapplied,
                         resources, children, connected, nextToken, configuring, ready,
                         restarts>>
      BY <1>1, <1>a DEF FrameAccepted
    <2> QED
      BY <1>a, <1>c, <2>1, <2>2, ResumePreserves DEF ForeignUsers
  <1>2. ASSUME NEW sent \in Handed, LeaveTool(sent)
        PROVE  Agreement'
    <2>1. /\ configuring' = FALSE
          /\ UNCHANGED <<committed, evaluated, policyView, compositorView, unapplied,
                         resources, children, connected, nextToken, foreign,
                         replayAttempted, ready, restarts>>
      BY <1>2 DEF LeaveTool
    <2>2. CASE phase = "Idle" /\ queue # <<>>
      <3>1. StartNext(queue, committed, outcome, sent, TRUE) /\ Unblock
        BY <1>2, <2>2 DEF LeaveTool
      <3>2. sent \in BOOLEAN /\ (sent => foreign' = "none")
        BY <2>1, HandedProperties
      <3> QED
        BY <1>a, <1>c, <2>1, <2>2, <3>1, <3>2, ResumePreserves
    <2>3. CASE ~(phase = "Idle" /\ queue # <<>>)
      <3>1. UNCHANGED <<queue, active, phase, wire, blocked, outcome, dropped, stopped>>
        BY <1>2, <2>3 DEF LeaveTool
      <3>2. Awake'
        BY <2>3, <3>1 DEF Awake
      <3>3. TypeOK'
        BY <2>1, <3>1 DEF Agreement, TypeOK
      <3> QED
        BY <2>1, <3>1, <3>2, <3>3, KeepsAgreement DEF Agreement, Control
    <2> QED
      BY <2>2, <2>3
  <1>3. ASSUME NEW sent \in SendResults, OutputEnds(sent)
        PROVE  Agreement'
    <2>1. sent \in BOOLEAN /\ phase = "Idle"
      BY <1>b, <1>3 DEF SendResults, OutputEnds
    <2>2. /\ StartNext(queue, committed', outcome, sent, TRUE)
          /\ Unblock
          /\ foreign' = "none" /\ configuring' = FALSE
          /\ UNCHANGED <<evaluated, resources, children, connected, nextToken,
                         replayAttempted, ready, restarts>>
      BY <1>3 DEF OutputEnds
    <2>3. /\ committed' \in Snapshot
          /\ Existing(committed') = Existing(committed)
          /\ compositorView' = committed'
          /\ policyView' = committed'.windows \/ unapplied'
          /\ policyView' \in [Windows -> Intent \cup {Absent}]
          /\ unapplied' \in BOOLEAN
      <3>1. CASE UNCHANGED <<committed, policyView, compositorView, unapplied>>
        BY <1>a, <1>c, <2>1, <3>1
      <3>2. CASE /\ committed' \in Evaluations(committed)
                 /\ compositorView' = committed'
                 /\ policyView' = committed.windows
                 /\ unapplied' = FALSE
        <4>1. /\ committed' \in Snapshot
              /\ committed'.windows = committed.windows
              /\ Existing(committed') = Existing(committed)
          BY <1>a, <3>2, EvaluationProperties
        <4> QED
          BY <1>a, <3>2, <4>1 DEF Snapshot
      <3> QED
        BY <1>3, <3>1, <3>2 DEF OutputEnds
    <2> DEFINE s == committed'
    <2>4. /\ s \in Snapshot /\ committed' = s /\ compositorView' = s
          /\ StartNext(queue, s, outcome, sent, TRUE)
          /\ Existing(s) = Existing(committed)
          /\ policyView' = s.windows \/ unapplied'
      BY <2>2, <2>3
    <2> HIDE DEF s
    <2> QED
      BY <1>a, <2>1, <2>2, <2>3, <2>4, ResumePreserves DEF ForeignUsers
  <1> QED
    BY <1>1, <1>2, <1>3

\* Subwindow requests change no top-level window.
LEMMA ChildPreserves ==
    ASSUME Agreement, NEW c \in Clients, NEW w \in Windows,
           CreateChild(c, w) \/ DestroyChild(c, w)
    PROVE  Agreement'
  <1> USE DEF Agreement
  <1>1. UNCHANGED <<committed, evaluated, queue, active, phase, wire, policyView,
                    compositorView, unapplied, resources, connected, blocked,
                    outcome, nextToken, dropped, stopped, others>>
    BY DEF CreateChild, DestroyChild
  <1>2. children' \in [Windows -> 0..MaxChildren]
    <2>1. children[w] \in 0..MaxChildren /\ children \in [Windows -> 0..MaxChildren]
      BY DEF TypeOK
    <2>2. \/ children[w] < MaxChildren /\ children' = [children EXCEPT ![w] = @ + 1]
          \/ children[w] > 0 /\ children' = [children EXCEPT ![w] = @ - 1]
      BY DEF CreateChild, DestroyChild
    <2> QED
      BY <2>1, <2>2, ConstantsAssumption
  <1>3. TypeOK'
    BY <1>1, <1>2 DEF TypeOK, others
  <1>4. Awake'
    BY <1>1 DEF Awake, others
  <1> QED
    BY <1>1, <1>3, <1>4, KeepsAgreement DEF Control, others

\* Every step preserves the invariant.
LEMMA NextPreserves == Agreement /\ [Next]_vars => Agreement'
  <1> SUFFICES ASSUME Agreement, [Next]_vars PROVE Agreement'
    OBVIOUS
  <1>1. CASE UNCHANGED vars
    <2>1. TypeOK'
      BY <1>1 DEF Agreement, TypeOK, vars
    <2>2. Awake'
      BY <1>1 DEF Agreement, Awake, vars
    <2> QED
      BY <1>1, <2>1, <2>2, KeepsAgreement DEF Agreement, Control, vars
  <1>2. CASE Next
    <2>1. CASE Aside
      BY <2>1, AsidePreserves
    <2>2. CASE \/ \E sent \in SendResults : FrameAccepted(sent) \/ OutputEnds(sent)
               \/ \E sent \in Handed : LeaveTool(sent)
      BY <2>2, ForeignPreserves
    <2>3. CASE \E sent \in SendResults :
                  \/ PolicyAccepted(sent) \/ PolicyRejected(sent) \/ PolicyUnusable(sent)
                  \/ CompositorAccepted(sent) \/ CompositorRejected(sent)
      BY <2>3, PolicyAcceptedPreserves, PolicyRejectedPreserves,
         CompositorAcceptedPreserves, CompositorRejectedPreserves
    <2>4. CASE \E c \in Clients \cup {Internal}, kind \in Kinds, w \in Windows,
                  sent \in Handed :
                  \E touched \in Touches(kind) : Request(c, kind, w, touched, sent)
      BY <2>4, RequestPreserves
    <2>5. CASE \/ \E c \in Clients, w \in Windows : CreateChild(c, w) \/ DestroyChild(c, w)
               \/ \E c \in Clients, sent \in Handed : Disconnect(c, sent)
      BY <2>5, ChildPreserves, DisconnectPreserves
    <2> QED
      BY <1>2, <2>1, <2>2, <2>3, <2>4, <2>5 DEF Next, Aside
  <1> QED
    BY <1>1, <1>2

\* The inductive invariant of the coordinator holds throughout.
THEOREM AgreementHolds == Spec => []Agreement
  BY InitAgreement, NextPreserves, PTL DEF Spec

\* Type correctness of the coordinator and its callbacks' state.
THEOREM TypeCorrect == Spec => []TypeOK
  <1>1. Agreement => TypeOK
    BY DEF Agreement
  <1> QED
    BY <1>1, AgreementHolds, PTL

\* Whenever the coordinator is idle, the resource table and the compositor hold
\* the committed snapshot, and so does the policy unless the server could not
\* apply its last answer, for any number of rejections, cancellations and lost
\* peers before it (PeersAgree).
THEOREM PeersAlwaysAgree == Spec => []PeersAgree
  <1>1. Agreement => PeersAgree
    BY DEF Agreement, Views, PeersAgree
  <1> QED
    BY <1>1, AgreementHolds, PTL

\* The compositor is only ever sent window state that the policy has accepted
\* (PolicyPrecedesPresentation).
THEOREM PolicyComesFirst == Spec => []PolicyPrecedesPresentation
  <1>1. Agreement => PolicyPrecedesPresentation
    <2> SUFFICES ASSUME Agreement, wire.peer = "compositor"
                 PROVE  wire.snapshot.windows = policyView
      BY DEF PolicyPrecedesPresentation
    <2> USE DEF Agreement
    <2>1. phase \in PeerPhases /\ wire = Expected(phase)
      BY RequestTypes DEF Control
    <2>2. active \in Operation /\ active.proposed \in Snapshot
      BY <2>1 DEF Control, Operation
    <2>3. phase \in {"AwaitingCompositor", "RollingBackCompositor"}
      BY <2>1, <2>2, ExpectedRequests, RequestTypes DEF PeerPhases, TypeOK
    <2> QED
      BY <2>1, <2>3, ExpectedRequests, RequestTypes DEF Views, TypeOK
  <1> QED
    BY <1>1, AgreementHolds, PTL

\* An operation is left in an idle coordinator's queue only behind a frame or an
\* output configuration that will resume it, or after a cursor frame that was
\* refused or lost with its peer (NoStrandedOperation): no other way in which a
\* frame, a configuration or an operation ends leaves one behind.
THEOREM NothingStranded == Spec => []NoStrandedOperation
  <1>1. Agreement => NoStrandedOperation
    BY DEF Agreement, Awake, NoStrandedOperation
  <1> QED
    BY <1>1, AgreementHolds, PTL

-----------------------------------------------------------------------------
(***************************************************************************)
(* The refinement: the coordinator implements AtomicLifecycle, and a       *)
(* rebase keeps what its own operation asked for.                          *)
(***************************************************************************)

(***************************************************************************)
(* Where the tokens are.  A token that has not been issued is unused; one  *)
(* that waits in the queue or is worked on is pending, and is in one place *)
(* only.  Without it a commit could find its own token failed already by   *)
(* the completions that finish() makes on the way to the next operation.   *)
(***************************************************************************)
Distinct(q) == \A i, j \in 1..Len(q) : q[i].token = q[j].token => i = j

Waiting(q, results) ==
    /\ Distinct(q)
    /\ \A i \in 1..Len(q) : results[q[i].token] = "pending"

Accounting ==
    /\ \A t \in Tokens : t >= nextToken => outcome[t] = "unused"
    /\ Waiting(queue, outcome)
    /\ active # NoOp =>
          /\ outcome[active.token] = "pending"
          /\ \A i \in 1..Len(queue) : queue[i].token # active.token

-----------------------------------------------------------------------------
(***************************************************************************)
(* start_next and the completions on its way.                              *)
(***************************************************************************)

\* start_next has passed over the first n operations of q and started the next
\* one, if there is one, rebased on s.
Taken(q, s, n) ==
    IF n = Len(q)
    THEN active' = NoOp /\ queue' = <<>>
    ELSE /\ active' \in Operation
         /\ active'.token = q[n + 1].token
         /\ Rebasable(s, q[n + 1])
         /\ active'.proposed = Rebase(s, q[n + 1])
         /\ Len(queue') = Len(q) - (n + 1)
         /\ \A i \in 1..Len(queue') : queue'[i] = q[n + 1 + i]

LEMMA StartNextTakes ==
    ASSUME NEW q \in Seq(Operation), NEW s \in Snapshot, NEW results,
           NEW sent, NEW direct, StartNext(q, s, results, sent, direct)
    PROVE  \E n \in 0..Len(q) :
              /\ \A i \in 1..n : Skipped(s, q[i], direct /\ i = 1)
              /\ outcome' = [t \in Tokens |->
                               IF \E i \in 1..n : q[i].token = t THEN "failed" ELSE results[t]]
              /\ Taken(q, s, n)
  <1> PICK n \in 0..Len(q) :
        /\ \A i \in 1..n : Skipped(s, q[i], direct /\ i = 1)
        /\ n < Len(q) => ~Skipped(s, q[n + 1], direct /\ n = 0)
        /\ outcome' = [t \in Tokens |->
                         IF \E i \in 1..n : q[i].token = t THEN "failed" ELSE results[t]]
        /\ queue' = SubSeq(q, n + 2, Len(q))
        /\ IF n = Len(q)
           THEN /\ active' = NoOp
                /\ phase' = "Idle"
                /\ wire' = NoRequest
                /\ stopped' = FALSE
           ELSE LET rebased == Rebase(s, q[n + 1])
                IN /\ active' = [q[n + 1] EXCEPT !.proposed = rebased]
                   /\ Send("AwaitingPolicy", PolicyRequest(rebased), sent)
    BY DEF StartNext
  <1>1. Len(q) \in Nat /\ \A i \in 1..Len(q) : q[i] \in Operation
    BY ElementOfSeq, LenProperties
  <1>2. CASE n = Len(q)
    <2>1. queue' = <<>>
      BY <1>1, <1>2, SubSeqEmpty
    <2> QED
      BY <1>2, <2>1 DEF Taken
  <1>3. CASE n # Len(q)
    <2> DEFINE op == q[n + 1]
    <2>1. n + 1 \in 1..Len(q) /\ op \in Operation
      BY <1>1, <1>3
    <2>2. active' = [op EXCEPT !.proposed = Rebase(s, op)]
      BY <1>3
    <2>3. Rebasable(s, op)
      BY <1>1, <1>3 DEF Skipped
    <2>4. active' \in Operation
      BY <2>1, <2>2, <2>3, RebaseProperties
    <2>5. active'.token = op.token /\ active'.proposed = Rebase(s, op)
      BY <2>1, <2>2 DEF Operation
    <2>6. /\ Len(queue') = Len(q) - (n + 1)
          /\ \A i \in 1..Len(queue') : queue'[i] = q[n + 1 + i]
      <3>1. \A i \in (n + 2)..Len(q) : q[i] \in Operation
        BY <1>1
      <3>2. CASE n + 1 = Len(q)
        <4>1. queue' = <<>>
          BY <1>1, <3>2, SubSeqEmpty
        <4> QED
          BY <1>1, <2>1, <3>2, <4>1
      <3>3. CASE n + 1 # Len(q)
        <4>1. n + 2 \in 1..(Len(q) + 1) /\ Len(q) \in (n + 2 - 1)..Len(q)
          BY <1>1, <2>1, <3>3
        <4>2. /\ Len(queue') = Len(q) - (n + 2) + 1
              /\ \A i \in 1..(Len(q) - (n + 2) + 1) : queue'[i] = q[n + 2 + i - 1]
          BY <1>1, <2>1, <3>1, <3>3, <4>1, SubSeqProperties
        <4> QED
          BY <1>1, <2>1, <4>2
      <3> QED
        BY <3>2, <3>3
    <2>7. Taken(q, s, n)
      BY <1>3, <2>3, <2>4, <2>5, <2>6 DEF Taken
    <2> QED
      BY <2>7
  <1> QED
    BY <1>2, <1>3

\* What it has passed over is not pending, the rest of q is.
Chosen(q, s) ==
    \E n \in 0..Len(q) :
        /\ Taken(q, s, n)
        /\ \A i \in 1..Len(q) : outcome'[q[i].token] = "pending" <=> i > n

\* start_next keeps the results it is given, except that what it passes over
\* fails; what it starts, what it leaves in the queue and all that it would
\* not pass over stay pending.
LEMMA StartNextChooses ==
    ASSUME NEW q \in Seq(Operation), NEW s \in Snapshot,
           NEW results \in [Tokens -> Outcomes],
           NEW sent \in BOOLEAN, NEW direct \in BOOLEAN,
           Waiting(q, results),
           StartNext(q, s, results, sent, direct)
    PROVE  /\ Chosen(q, s)
           /\ \A t \in Tokens :
                 \/ outcome'[t] = results[t]
                 \/ results[t] = "pending" /\ outcome'[t] = "failed"
           /\ \A k \in 1..Len(q) : ~Skipped(s, q[k], direct /\ k = 1)
                                     => outcome'[q[k].token] = "pending"
  <1> PICK n \in 0..Len(q) :
        /\ \A i \in 1..n : Skipped(s, q[i], direct /\ i = 1)
        /\ outcome' = [t \in Tokens |->
                         IF \E i \in 1..n : q[i].token = t THEN "failed" ELSE results[t]]
        /\ Taken(q, s, n)
    BY StartNextTakes
  <1>0. Len(q) \in Nat /\ \A i \in 1..Len(q) : q[i] \in Operation
    BY ElementOfSeq, LenProperties
  <1>1. /\ Len(q) \in Nat
        /\ \A i \in 1..Len(q) : q[i] \in Operation /\ q[i].token \in Tokens
    BY <1>0 DEF Operation
  <1>3. \A t \in Tokens : \/ outcome'[t] = results[t]
                          \/ results[t] = "pending" /\ outcome'[t] = "failed"
    BY <1>1 DEF Waiting
  <1>4. \A i \in 1..Len(q) : outcome'[q[i].token] = "pending" <=> i > n
    <2> SUFFICES ASSUME NEW i \in 1..Len(q)
                 PROVE  outcome'[q[i].token] = "pending" <=> i > n
      OBVIOUS
    <2>1. q[i].token \in Tokens /\ results[q[i].token] = "pending"
      BY <1>1 DEF Waiting
    <2>2. ASSUME NEW j \in 1..n, q[j].token = q[i].token
          PROVE  i \in 1..n
      <3>1. j \in 1..Len(q)
        BY <1>1
      <3> QED
        BY <2>2, <3>1 DEF Waiting, Distinct
    <2>3. outcome'[q[i].token] = IF i \in 1..n THEN "failed" ELSE "pending"
      <3>1. (\E j \in 1..n : q[j].token = q[i].token) <=> i \in 1..n
        BY <2>2
      <3> QED
        BY <2>1, <3>1
    <2>4. i \in 1..n <=> ~(i > n)
      BY <1>1
    <2> QED
      BY <2>3, <2>4
  <1>5. ASSUME NEW k \in 1..Len(q), ~Skipped(s, q[k], direct /\ k = 1)
        PROVE  outcome'[q[k].token] = "pending"
    <2>1. k \notin 1..n
      BY <1>5
    <2>2. k > n
      BY <1>1, <2>1
    <2> QED
      BY <1>4, <2>2
  <1> QED
    BY <1>3, <1>4, <1>5 DEF Chosen

\* The accounts balance after start_next on a queue whose tokens are pending.
LEMMA ChosenAccounts ==
    ASSUME NEW q \in Seq(Operation), NEW s, Distinct(q), Chosen(q, s),
           queue' \in Seq(Operation),
           \A t \in Tokens : t >= nextToken' => outcome'[t] = "unused"
    PROVE  Accounting'
  <1> PICK n \in 0..Len(q) :
        /\ Taken(q, s, n)
        /\ \A i \in 1..Len(q) : outcome'[q[i].token] = "pending" <=> i > n
    BY DEF Chosen
  <1>1. Len(q) \in Nat /\ Len(queue') \in Nat
    BY LenProperties
  <1>2. CASE n = Len(q)
    <2>1. active' = NoOp /\ queue' = <<>>
      BY <1>2 DEF Taken
    <2> QED
      BY <2>1 DEF Accounting, Waiting, Distinct
  <1>3. CASE n # Len(q)
    <2> DEFINE k == n + 1
    <2>1. /\ active'.token = q[k].token
          /\ Len(queue') = Len(q) - k
          /\ \A i \in 1..Len(queue') : queue'[i] = q[k + i]
      BY <1>3 DEF Taken
    <2>2. k \in 1..Len(q) /\ k > n
      BY <1>1, <1>3
    <2> HIDE DEF k
    <2>3. \A i \in 1..Len(queue') : /\ k + i \in 1..Len(q) /\ k + i > n /\ k + i # k
                                    /\ queue'[i] = q[k + i]
      BY <1>1, <2>1, <2>2
    <2>4. Distinct(queue')
      <3> SUFFICES ASSUME NEW i \in 1..Len(queue'), NEW j \in 1..Len(queue'),
                          queue'[i].token = queue'[j].token
                   PROVE  i = j
        BY DEF Distinct
      <3>1. /\ k + i \in 1..Len(q) /\ k + j \in 1..Len(q)
            /\ q[k + i].token = q[k + j].token
        BY <2>3
      <3>2. k + i = k + j
        BY <3>1 DEF Distinct
      <3> QED
        BY <1>1, <2>2, <3>2
    <2>5. \A i \in 1..Len(queue') : outcome'[queue'[i].token] = "pending"
      BY <2>3
    <2>6. outcome'[active'.token] = "pending"
      BY <2>1, <2>2
    <2>7. \A i \in 1..Len(queue') : queue'[i].token # active'.token
      <3> SUFFICES ASSUME NEW i \in 1..Len(queue'), queue'[i].token = active'.token
                   PROVE  FALSE
        OBVIOUS
      <3>1. k + i \in 1..Len(q) /\ k + i # k /\ q[k + i].token = q[k].token
        BY <2>1, <2>3
      <3> QED
        BY <2>2, <3>1 DEF Distinct
    <2> QED
      BY <2>4, <2>5, <2>6, <2>7 DEF Accounting, Waiting
  <1> QED
    BY <1>2, <1>3

-----------------------------------------------------------------------------
(***************************************************************************)
(* The steps of AtomicLifecycle.  A step of the coordinator that leaves    *)
(* the committed snapshot as it is and only settles tokens is its Keep.    *)
(***************************************************************************)

\* The instance's operators on snapshots are those of the coordinator.
LEMMA SameSnapshots ==
    /\ \A s : Atomic!Evaluations(s) = Evaluations(s)
    /\ \A s, op : Atomic!Rebasable(s, op) <=> Rebasable(s, op)
    /\ \A s, op : Atomic!Rebase(s, op) = Rebase(s, op)
    /\ Atomic!Tokens = Tokens
  <1>1. \A s : Atomic!Existing(s) = Existing(s)
    BY DEF Atomic!Existing, Existing
  <1>2. \A s, gone : Atomic!Remove(s, gone) = Remove(s, gone)
    BY DEF Atomic!Remove, Remove
  <1>3. \A kind : Atomic!CopiedBy(kind) = CopiedBy(kind)
    BY DEF Atomic!CopiedBy, CopiedBy, Atomic!Attrs, Attrs
  <1>4. \A s : Atomic!Evaluations(s) = Evaluations(s)
    BY <1>1 DEF Atomic!Evaluations, Evaluations
  <1>5. \A s, op : Atomic!Rebasable(s, op) <=> Rebasable(s, op)
    BY <1>1 DEF Atomic!Rebasable, Rebasable
  <1>6. \A s, op : Atomic!Rebase(s, op) = Rebase(s, op)
    BY <1>1, <1>2, <1>3 DEF Atomic!Rebase, Rebase, Atomic!Attrs, Attrs
  <1> QED
    BY <1>4, <1>5, <1>6 DEF Atomic!Tokens, Tokens

\* What becomes of every token in a step that completes none.
Settled(t) ==
    \/ outcome'[t] = outcome[t]
    \/ outcome[t] = "unused" /\ outcome'[t] \in {"pending", "refused"}
    \/ outcome[t] = "pending" /\ outcome'[t] = "failed"

LEMMA KeepStep ==
    ASSUME committed' = committed, \A t \in Tokens : Settled(t)
    PROVE  Atomic!Next
  BY SameSnapshots DEF Settled, Atomic!Settles, Atomic!Keep, Atomic!Next

\* What the queue holds are operations with tokens.
LEMMA QueuedTokens ==
    ASSUME TypeOK
    PROVE  \A i \in 1..Len(queue) : queue[i] \in Operation /\ queue[i].token \in Tokens
  <1>1. \A i \in 1..Len(queue) : queue[i] \in Operation
    BY ElementOfSeq DEF TypeOK
  <1> QED
    BY <1>1 DEF Operation

\* A step that touches neither tokens nor committed state.
LEMMA QuietStep ==
    ASSUME Accounting, UNCHANGED <<committed, queue, active, outcome, nextToken>>
    PROVE  Accounting' /\ Atomic!Next
  <1>1. Accounting'
    BY DEF Accounting, Waiting, Distinct
  <1> QED
    BY <1>1, KeepStep DEF Settled

\* A new token that is refused at once.
LEMMA RefusedAccounts ==
    ASSUME TypeOK, Accounting, UNCHANGED <<queue, active>>, nextToken \in Tokens,
           \A t \in Tokens : outcome'[t] = IF t = nextToken THEN "refused" ELSE outcome[t],
           \A t \in Tokens : t >= nextToken' => t # nextToken /\ outcome[t] = "unused"
    PROVE  Accounting'
  <1>0. outcome[nextToken] = "unused"
    BY DEF Accounting, Tokens
  <1>1. \A i \in 1..Len(queue) : queue[i].token \in Tokens
    BY QueuedTokens
  <1>2. \A i \in 1..Len(queue) : outcome'[queue[i].token] = "pending"
    BY <1>0, <1>1 DEF Accounting, Waiting
  <1>3. active # NoOp => active.token \in Tokens
    BY DEF TypeOK, Operation
  <1>4. active # NoOp => outcome'[active.token] = "pending"
    BY <1>0, <1>3 DEF Accounting
  <1>5. \A t \in Tokens : t >= nextToken' => outcome'[t] = "unused"
    OBVIOUS
  <1> QED
    BY <1>2, <1>4, <1>5 DEF Accounting, Waiting, Distinct

\* A new token behind the queue.
LEMMA AppendedWaits ==
    ASSUME TypeOK, Accounting, outcome[nextToken] = "unused",
           NEW op \in Operation, op.token = nextToken,
           NEW results, results[nextToken] = "pending",
           \A t \in Tokens \ {nextToken} : results[t] = outcome[t]
    PROVE  LET q == Append(queue, op)
           IN /\ q \in Seq(Operation)
              /\ Waiting(q, results)
              /\ Len(q) \in 1..Len(q)
              /\ q[Len(q)] = op
              /\ \A i \in 1..Len(queue) : i \in 1..Len(q) /\ q[i] = queue[i]
  <1> DEFINE q == Append(queue, op)
  <1>1. /\ Len(queue) \in Nat
        /\ \A i \in 1..Len(queue) : queue[i] \in Operation /\ queue[i].token \in Tokens
    BY QueuedTokens, LenProperties DEF TypeOK
  <1>2. /\ q \in Seq(Operation)
        /\ Len(q) = Len(queue) + 1
        /\ \A i \in 1..Len(queue) : q[i] = queue[i]
        /\ q[Len(queue) + 1] = op
    BY AppendProperties DEF TypeOK
  <1>3. \A i \in 1..Len(queue) : /\ queue[i].token # nextToken
                                 /\ results[queue[i].token] = "pending"
    BY <1>1 DEF Accounting, Waiting
  <1> HIDE DEF q
  <1>4. \A i \in 1..Len(q) : i \in 1..Len(queue) \/ i = Len(queue) + 1
    BY <1>1, <1>2
  <1>5. \A i \in 1..Len(q) : results[q[i].token] = "pending"
    BY <1>2, <1>3, <1>4
  <1>6. Distinct(q)
    BY <1>2, <1>3, <1>4 DEF Distinct, Accounting, Waiting
  <1>7. /\ Len(q) \in 1..Len(q)
        /\ \A i \in 1..Len(queue) : i \in 1..Len(q)
    BY <1>1, <1>2
  <1> QED
    BY <1>2, <1>5, <1>6, <1>7 DEF Waiting, q

\* A new token that is appended to the queue.
LEMMA AppendedAccounts ==
    ASSUME TypeOK, Accounting, UNCHANGED active, nextToken \in Tokens,
           NEW op \in Operation, op.token = nextToken, queue' = Append(queue, op),
           outcome'[nextToken] = "pending",
           \A t \in Tokens \ {nextToken} : outcome'[t] = outcome[t],
           \A t \in Tokens : t >= nextToken' => t # nextToken /\ outcome[t] = "unused"
    PROVE  Accounting'
  <1>0. outcome[nextToken] = "unused"
    BY DEF Accounting, Tokens
  <1>1. /\ Len(queue) \in Nat
        /\ \A i \in 1..Len(queue) : queue[i] \in Operation /\ queue[i].token \in Tokens
    BY QueuedTokens, LenProperties DEF TypeOK
  <1>2. /\ Len(queue') = Len(queue) + 1
        /\ \A i \in 1..Len(queue) : queue'[i] = queue[i]
        /\ queue'[Len(queue) + 1] = op
    BY AppendProperties DEF TypeOK
  <1>3. \A i \in 1..Len(queue) : /\ outcome[queue[i].token] = "pending"
                                 /\ queue[i].token # nextToken
                                 /\ outcome'[queue[i].token] = "pending"
    BY <1>0, <1>1 DEF Accounting, Waiting
  <1>4. \A i \in 1..Len(queue') : i \in 1..Len(queue) \/ i = Len(queue) + 1
    BY <1>1, <1>2
  <1>5. \A i \in 1..Len(queue') : outcome'[queue'[i].token] = "pending"
    BY <1>2, <1>3, <1>4
  <1>6. Distinct(queue')
    BY <1>2, <1>3, <1>4 DEF Distinct, Accounting, Waiting
  <1>7. active # NoOp => /\ outcome'[active.token] = "pending"
                         /\ \A i \in 1..Len(queue') : queue'[i].token # active.token
    <2> SUFFICES ASSUME active # NoOp
                 PROVE  /\ outcome'[active.token] = "pending"
                        /\ \A i \in 1..Len(queue') : queue'[i].token # active.token
      OBVIOUS
    <2>1. active.token \in Tokens
      BY DEF TypeOK, Operation
    <2>2. /\ outcome[active.token] = "pending" /\ active.token # nextToken
          /\ \A i \in 1..Len(queue) : queue[i].token # active.token
      BY <1>0 DEF Accounting
    <2> QED
      BY <1>2, <1>4, <2>1, <2>2
  <1>8. \A t \in Tokens : t >= nextToken' => outcome'[t] = "unused"
    OBVIOUS
  <1> QED
    BY <1>5, <1>6, <1>7, <1>8 DEF Accounting, Waiting

\* finish(): the active token gets its result, what is passed over fails, and
\* the accounts balance again.
LEMMA FinishSettles ==
    ASSUME TypeOK, Accounting, active \in Operation,
           NEW s \in Snapshot, NEW result \in {"done", "failed"},
           NEW sent \in BOOLEAN, Finish(s, result, sent),
           queue' \in Seq(Operation), UNCHANGED nextToken
    PROVE  /\ Accounting'
           /\ outcome'[active.token] = result
           /\ \A t \in Tokens \ {active.token} : Settled(t)
  <1> DEFINE results == [outcome EXCEPT ![active.token] = result]
  <1>0. active.token \in Tokens /\ active # NoOp
    BY ConstantsAssumption DEF Operation
  <1>1. StartNext(queue, s, results, sent, FALSE)
    BY DEF Finish
  <1>2. results \in [Tokens -> Outcomes]
    BY DEF TypeOK, Outcomes
  <1>3. Waiting(queue, results)
    <2>1. \A i \in 1..Len(queue) : queue[i].token \in Tokens
      BY QueuedTokens
    <2> QED
      BY <1>0, <2>1 DEF Accounting, Waiting, TypeOK
  <1>4. /\ results[active.token] = result
        /\ \A t \in Tokens \ {active.token} : results[t] = outcome[t]
        /\ outcome[active.token] = "pending"
    BY <1>0 DEF TypeOK, Accounting
  <1> HIDE DEF results
  <1>5. /\ Chosen(queue, s)
        /\ \A t \in Tokens : \/ outcome'[t] = results[t]
                             \/ results[t] = "pending" /\ outcome'[t] = "failed"
    <2> DEFINE direct == FALSE
    <2>1. queue \in Seq(Operation) /\ direct \in BOOLEAN
      BY DEF TypeOK
    <2>2. StartNext(queue, s, results, sent, direct)
      BY <1>1
    <2> HIDE DEF direct
    <2> QED
      BY <1>2, <1>3, <2>1, <2>2, StartNextChooses
  <1>6. \A t \in Tokens : t >= nextToken' => outcome'[t] = "unused"
    BY <1>0, <1>4, <1>5 DEF Accounting
  <1>7. Accounting'
    BY <1>3, <1>5, <1>6, ChosenAccounts DEF Waiting, TypeOK
  <1> QED
    BY <1>0, <1>4, <1>5, <1>7 DEF Settled

-----------------------------------------------------------------------------
(***************************************************************************)
(* Each action keeps the accounts and is a step of AtomicLifecycle.        *)
(***************************************************************************)

\* A new token is pending in the queue, and nowhere else.
LEMMA RequestRefines ==
    ASSUME Agreement, Accounting, Agreement',
           NEW c \in Clients \cup {Internal}, NEW kind \in Kinds, NEW w \in Windows,
           NEW touched \in Touches(kind), NEW sent \in Handed,
           Request(c, kind, w, touched, sent)
    PROVE  Accounting' /\ Atomic!Next
  <1> DEFINE op == [token |-> nextToken, client |-> c, kind |-> kind, window |-> w,
                    targets |-> {}, subtree |-> children[w], canceled |-> FALSE,
                    proposed |-> Propose(committed, kind, w, touched, nextToken)]
             results == [outcome EXCEPT ![nextToken] = "pending"]
  <1> USE DEF Agreement
  <1>a. /\ nextToken \in Tokens
        /\ Requestable(c, kind, w)
        /\ nextToken' = nextToken + 1
        /\ committed' = committed
        /\ sent \in BOOLEAN
    BY HandedProperties DEF Request
  <1>b. outcome[nextToken] = "unused"
    BY <1>a DEF Accounting, Tokens
  <1>c. \A t \in Tokens : t >= nextToken' => t # nextToken /\ outcome[t] = "unused"
    BY <1>a DEF Accounting, Tokens, TypeOK
  <1>d. /\ results[nextToken] = "pending"
        /\ \A t \in Tokens \ {nextToken} : results[t] = outcome[t]
        /\ results \in [Tokens -> Outcomes]
    BY <1>a DEF TypeOK, Outcomes
  <1>e. \A t \in Tokens : outcome[t] = "pending" => results[t] = "pending"
    BY <1>d
  <1>1. CASE PendingCount >= MaxPending
    <2>1. /\ outcome' = [outcome EXCEPT ![nextToken] = "refused"]
          /\ UNCHANGED <<queue, active>>
      BY <1>1 DEF Request
    <2>2. \A t \in Tokens : outcome'[t] = IF t = nextToken THEN "refused" ELSE outcome[t]
      BY <2>1 DEF TypeOK
    <2> QED
      BY <1>a, <1>b, <1>c, <2>1, <2>2, RefusedAccounts, KeepStep DEF Settled
  <1>2. CASE ~(PendingCount >= MaxPending)
    <2>1. Enqueue(Append(queue, op), kind, results, sent)
      BY <1>2 DEF Request
    <2>2. op \in Operation /\ Rebasable(committed, op)
      <3>1. kind # "Create" => w \in Existing(committed)
        BY <1>a DEF Requestable, Views
      <3>2. /\ op.proposed \in Snapshot
            /\ kind # "Destroy" => w \in Existing(op.proposed)
        BY <1>a, <3>1, ProposeProperties DEF TypeOK
      <3>3. op \in Operation
        BY <1>a, <3>2 DEF Operation, TypeOK
      <3>4. kind = "Create" => w \notin Existing(committed)
        BY <1>a DEF Requestable, Views
      <3>5. op.kind = kind /\ op.window = w
        OBVIOUS
      <3> HIDE DEF op
      <3> QED
        BY <3>1, <3>2, <3>3, <3>4, <3>5 DEF Rebasable
    <2>3. op.token = nextToken /\ ~op.canceled
      OBVIOUS
    <2> HIDE DEF op, results
    <2>4. CASE phase = "Idle" /\ ~Parked(kind)
      <3> DEFINE q == Append(queue, op)
      <3>1. StartNext(q, committed, results, sent, TRUE)
        BY <2>1, <2>4 DEF Enqueue
      <3>2. /\ q \in Seq(Operation)
            /\ Waiting(q, results)
            /\ Len(q) \in 1..Len(q)
            /\ q[Len(q)] = op
        BY <1>b, <1>d, <2>2, <2>3, AppendedWaits
      <3> HIDE DEF q
      <3>3. /\ Chosen(q, committed)
            /\ \A t \in Tokens : \/ outcome'[t] = results[t]
                                 \/ results[t] = "pending" /\ outcome'[t] = "failed"
            /\ outcome'[nextToken] = "pending"
        <4>1. \A first : ~Skipped(committed, q[Len(q)], first)
          BY <2>2, <2>3, <3>2 DEF Skipped
        <4>2. committed \in Snapshot
          BY DEF TypeOK
        <4> QED
          BY <1>a, <1>d, <2>3, <3>1, <3>2, <4>1, <4>2, StartNextChooses
      <3>4. \A t \in Tokens : t >= nextToken' => outcome'[t] = "unused"
        BY <1>c, <1>d, <3>3
      <3>5. Accounting'
        BY <3>2, <3>3, <3>4, ChosenAccounts DEF Waiting, TypeOK
      <3> QED
        BY <1>a, <1>b, <1>d, <3>3, <3>5, KeepStep DEF Settled
    <2>5. CASE ~(phase = "Idle" /\ ~Parked(kind))
      <3>1. queue' = Append(queue, op) /\ outcome' = results /\ UNCHANGED active
        BY <2>1, <2>5 DEF Enqueue
      <3>2. Accounting'
        BY <1>a, <1>b, <1>c, <1>d, <1>e, <2>2, <2>3, <3>1, AppendedAccounts
      <3> QED
        BY <1>a, <1>b, <1>d, <3>1, <3>2, KeepStep DEF Settled
    <2> QED
      BY <2>4, <2>5
  <1> QED
    BY <1>1, <1>2

\* cancel_client changes no token.
LEMMA CanceledTokens ==
    ASSUME NEW q \in Seq(Operation), NEW c
    PROVE  LET r == [i \in 1..Len(q) |-> Canceled(q[i], c)]
           IN /\ r \in Seq(Operation)
              /\ Len(r) = Len(q)
              /\ \A i \in 1..Len(q) : r[i].token = q[i].token
  <1>1. \A i \in 1..Len(q) : q[i] \in Operation
    BY ElementOfSeq
  <1>2. \A i \in 1..Len(q) : Canceled(q[i], c).token = q[i].token
    BY <1>1, CancelKeepsRebase DEF Canceled
  <1> QED
    BY <1>2, CanceledTypes

\* The cancellation of what a client has pending, without a new token in the
\* queue.
LEMMA CanceledAccounts ==
    ASSUME TypeOK, Accounting, NEW c,
           queue' = [i \in 1..Len(queue) |-> Canceled(queue[i], c)],
           active' = IF active = NoOp THEN NoOp ELSE Canceled(active, c),
           \A t \in Tokens : outcome[t] # "unused" => outcome'[t] = outcome[t],
           \A t \in Tokens : t >= nextToken' => outcome'[t] = "unused"
    PROVE  Accounting'
  <1>1. /\ Len(queue') = Len(queue)
        /\ \A i \in 1..Len(queue) : queue'[i].token = queue[i].token
    BY CanceledTokens DEF TypeOK
  <1>2. \A i \in 1..Len(queue) : queue[i].token \in Tokens
    BY QueuedTokens
  <1>3. Waiting(queue, outcome)'
    BY <1>1, <1>2 DEF Accounting, Waiting, Distinct
  <1>4. active' # NoOp => /\ active # NoOp
                          /\ active.token \in Tokens
                          /\ active'.token = active.token
    BY CancelKeepsRebase DEF TypeOK, Canceled, Operation
  <1> QED
    BY <1>1, <1>3, <1>4 DEF Accounting

\* A new token in front of the queue.
LEMMA PrependedWaits ==
    ASSUME TypeOK, Accounting, outcome[nextToken] = "unused", NEW q, NEW results,
           Len(q) = Len(queue) + 1,
           q[1].token = nextToken,
           \A i \in 1..Len(queue) : q[i + 1].token = queue[i].token,
           results[nextToken] = "pending",
           \A t \in Tokens \ {nextToken} : results[t] = outcome[t]
    PROVE  Waiting(q, results)
  <1>1. Len(queue) \in Nat
    BY LenProperties DEF TypeOK
  <1>2. \A i \in 1..Len(queue) : /\ queue[i].token \in Tokens
                                 /\ outcome[queue[i].token] = "pending"
                                 /\ queue[i].token # nextToken
                                 /\ results[queue[i].token] = "pending"
    BY QueuedTokens DEF Accounting, Waiting
  <1>3. \A i \in 1..Len(q) : i # 1 =>
           /\ i - 1 \in 1..Len(queue)
           /\ q[i].token = queue[i - 1].token
    <2> SUFFICES ASSUME NEW i \in 1..Len(q), i # 1
                 PROVE  i - 1 \in 1..Len(queue) /\ q[i].token = queue[i - 1].token
      OBVIOUS
    <2>1. i - 1 \in 1..Len(queue) /\ (i - 1) + 1 = i
      BY <1>1
    <2> QED
      BY <2>1
  <1>4. \A i \in 1..Len(q) : results[q[i].token] = "pending"
    BY <1>2, <1>3
  <1>5. ASSUME NEW i \in 1..Len(q), NEW j \in 1..Len(q),
               q[i].token = q[j].token
        PROVE  i = j
    <2>1. CASE i = 1 \/ j = 1
      BY <1>2, <1>3, <1>5, <2>1
    <2>2. CASE i # 1 /\ j # 1
      <3>1. i - 1 = j - 1
        BY <1>3, <1>5, <2>2 DEF Accounting, Waiting, Distinct
      <3> QED
        BY <1>1, <3>1
    <2> QED
      BY <2>1, <2>2
  <1> QED
    BY <1>4, <1>5 DEF Waiting, Distinct

\* A departure cancels, and puts a cleanup with a new token first.
LEMMA DisconnectRefines ==
    ASSUME Agreement, Accounting, Agreement',
           NEW c \in Clients, NEW sent \in Handed, Disconnect(c, sent)
    PROVE  Accounting' /\ Atomic!Next
  <1> DEFINE targets == {w \in resources : Owner[w] = c}
             canceled == [i \in 1..Len(queue) |-> Canceled(queue[i], c)]
             canceledActive == IF active = NoOp THEN NoOp ELSE Canceled(active, c)
             cleanup == [token |-> nextToken, client |-> c, kind |-> "ClientCleanup",
                         window |-> CHOOSE w \in targets : TRUE, targets |-> targets,
                         subtree |-> 0, proposed |-> Remove(committed, targets),
                         canceled |-> FALSE]
             results == [outcome EXCEPT ![nextToken] = "pending"]
  <1> USE DEF Agreement
  <1>a. committed' = committed /\ sent \in BOOLEAN
    BY HandedProperties DEF Disconnect
  <1>1. CASE targets = {}
    <2>1. /\ queue' = canceled
          /\ active' = canceledActive
          /\ UNCHANGED <<outcome, nextToken>>
      BY <1>1 DEF Disconnect
    <2>2. Accounting'
      BY <2>1, CanceledAccounts DEF Accounting
    <2> QED
      BY <1>a, <2>1, <2>2, KeepStep DEF Settled
  <1>2. CASE targets # {}
    <2>a. nextToken \in Tokens /\ nextToken' = nextToken + 1
      BY <1>2 DEF Disconnect
    <2>b. outcome[nextToken] = "unused"
      BY <2>a DEF Accounting, Tokens
    <2>c. \A t \in Tokens : t >= nextToken' => t # nextToken /\ outcome[t] = "unused"
      BY <2>a DEF Accounting, Tokens, TypeOK
    <2>d. /\ results[nextToken] = "pending"
          /\ \A t \in Tokens \ {nextToken} : results[t] = outcome[t]
          /\ results \in [Tokens -> Outcomes]
      BY <2>a DEF TypeOK, Outcomes
    <2>e. cleanup \in Operation
      <3>1. targets \in SUBSET Windows /\ (CHOOSE w \in targets : TRUE) \in targets
        BY <1>2 DEF TypeOK
      <3>2. Remove(committed, targets) \in Snapshot
        BY <3>1, RemoveProperties DEF TypeOK
      <3> HIDE DEF targets
      <3> QED
        BY <2>a, <3>1, <3>2, ConstantsAssumption DEF Operation, Kinds
    <2>f. cleanup.token = nextToken /\ cleanup.kind = "ClientCleanup" /\ ~cleanup.canceled
      OBVIOUS
    <2>g. /\ canceled \in Seq(Operation)
          /\ Len(canceled) = Len(queue)
          /\ \A i \in 1..Len(queue) : canceled[i].token = queue[i].token
      BY CanceledTokens DEF TypeOK
    <2>1. CASE PendingCount >= MaxPending
      <3>1. /\ queue' = canceled
            /\ active' = canceledActive
            /\ outcome' = [outcome EXCEPT ![nextToken] = "refused"]
        BY <1>2, <2>1 DEF Disconnect
      <3>2. \A t \in Tokens : outcome'[t] = IF t = nextToken THEN "refused" ELSE outcome[t]
        BY <3>1 DEF TypeOK
      <3>3. Accounting'
        BY <2>b, <2>c, <3>1, <3>2, CanceledAccounts
      <3> QED
        BY <1>a, <2>b, <3>2, <3>3, KeepStep DEF Settled
    <2>h. LET q == <<cleanup>> \o canceled
          IN /\ q \in Seq(Operation)
             /\ Len(q) = Len(queue) + 1
             /\ q[1] = cleanup
             /\ \A i \in 1..Len(queue) : q[i + 1].token = queue[i].token
      <3> HIDE DEF cleanup, canceled
      <3>1. <<cleanup>> \in Seq(Operation) /\ Len(<<cleanup>>) = 1 /\ <<cleanup>>[1] = cleanup
        BY <2>e
      <3>2. Len(queue) \in Nat
        BY LenProperties DEF TypeOK
      <3> QED
        BY <2>g, <3>1, <3>2, ConcatProperties
    <2>2. CASE ~(PendingCount >= MaxPending) /\ phase = "Idle" /\ ~Parked("ClientCleanup")
      <3> DEFINE q == <<cleanup>> \o canceled
      <3>1. StartNext(q, committed, results, sent, TRUE)
        BY <1>2, <2>2 DEF Disconnect
      <3> HIDE DEF results, cleanup, canceled
      <3>2. /\ q \in Seq(Operation)
            /\ Len(q) = Len(queue) + 1
            /\ q[1] = cleanup
            /\ \A i \in 1..Len(queue) : q[i + 1].token = queue[i].token
        BY <2>h
      <3> HIDE DEF q
      <3>3. Waiting(q, results) /\ 1 \in 1..Len(q)
        <4>1. Len(queue) \in Nat
          BY LenProperties DEF TypeOK
        <4>2. q[1].token = nextToken
          BY <2>f, <3>2
        <4> QED
          BY <2>b, <2>d, <3>2, <4>1, <4>2, PrependedWaits
      <3>4. /\ Chosen(q, committed)
            /\ \A t \in Tokens : \/ outcome'[t] = results[t]
                                 \/ results[t] = "pending" /\ outcome'[t] = "failed"
            /\ outcome'[nextToken] = "pending"
        <4> DEFINE direct == TRUE
        <4>1. ~Skipped(committed, q[1], direct /\ 1 = 1)
          BY <2>f, <3>2 DEF Skipped, Rebasable
        <4>2. committed \in Snapshot /\ direct \in BOOLEAN
          BY DEF TypeOK
        <4>3. StartNext(q, committed, results, sent, direct)
          BY <3>1
        <4> HIDE DEF direct
        <4>4. /\ Chosen(q, committed)
              /\ \A t \in Tokens : \/ outcome'[t] = results[t]
                                   \/ results[t] = "pending" /\ outcome'[t] = "failed"
              /\ outcome'[q[1].token] = "pending"
          BY <1>a, <2>d, <3>2, <3>3, <4>1, <4>2, <4>3, StartNextChooses
        <4> QED
          BY <2>f, <3>2, <4>4
      <3>5. \A t \in Tokens : t >= nextToken' => outcome'[t] = "unused"
        BY <2>c, <2>d, <3>4
      <3>6. Accounting'
        BY <3>2, <3>3, <3>4, <3>5, ChosenAccounts DEF Waiting, TypeOK
      <3> QED
        BY <1>a, <2>b, <2>d, <3>4, <3>6, KeepStep DEF Settled
    <2>3. CASE ~(PendingCount >= MaxPending) /\ ~(phase = "Idle" /\ ~Parked("ClientCleanup"))
      <3>1. /\ queue' = <<cleanup>> \o canceled
            /\ active' = canceledActive
            /\ outcome' = results
        BY <1>2, <2>3 DEF Disconnect
      <3> HIDE DEF results, cleanup, canceled
      <3>2. /\ Len(queue') = Len(queue) + 1
            /\ queue'[1].token = nextToken
            /\ \A i \in 1..Len(queue) : queue'[i + 1].token = queue[i].token
        BY <2>f, <2>h, <3>1
      <3>3. Waiting(queue, outcome)'
        <4> DEFINE q == queue'
        <4>1. /\ Len(q) = Len(queue) + 1
              /\ q[1].token = nextToken
              /\ \A i \in 1..Len(queue) : q[i + 1].token = queue[i].token
          BY <3>2
        <4> HIDE DEF q
        <4>2. Waiting(q, results)
          BY <2>b, <2>d, <4>1, PrependedWaits
        <4> QED
          BY <3>1, <4>2 DEF Waiting, Distinct, q
      <3>4. active' # NoOp => /\ outcome'[active'.token] = "pending"
                              /\ \A i \in 1..Len(queue') : queue'[i].token # active'.token
        <4> SUFFICES ASSUME active' # NoOp
                     PROVE  /\ outcome'[active'.token] = "pending"
                            /\ \A i \in 1..Len(queue') : queue'[i].token # active'.token
          OBVIOUS
        <4>1. /\ active # NoOp /\ active.token \in Tokens
              /\ active'.token = active.token
          BY <3>1, CancelKeepsRebase DEF TypeOK, Canceled, Operation
        <4>2. /\ outcome[active.token] = "pending"
              /\ \A i \in 1..Len(queue) : queue[i].token # active.token
          BY <4>1 DEF Accounting
        <4>3. \A i \in 1..Len(queue') : i = 1 \/ \E j \in 1..Len(queue) : i = j + 1
          <5>1. Len(queue) \in Nat
            BY LenProperties DEF TypeOK
          <5>2. \A i \in 1..Len(queue') : i # 1 => i - 1 \in 1..Len(queue) /\ i = (i - 1) + 1
            BY <3>2, <5>1
          <5> QED
            BY <5>2
        <4> QED
          BY <2>b, <2>d, <3>1, <3>2, <4>1, <4>2, <4>3
      <3>5. \A t \in Tokens : t >= nextToken' => outcome'[t] = "unused"
        BY <2>c, <2>d, <3>1
      <3> QED
        BY <1>a, <2>b, <2>d, <3>1, <3>3, <3>4, <3>5, KeepStep DEF Settled, Accounting
    <2> QED
      BY <2>1, <2>2, <2>3
  <1> QED
    BY <1>1, <1>2

\* The policy's answers: an acceptance settles nothing, a refusal fails the
\* active operation.
LEMMA PolicyRefines ==
    ASSUME Agreement, Accounting, Agreement', NEW sent \in SendResults,
           PolicyAccepted(sent) \/ PolicyRejected(sent) \/ PolicyUnusable(sent)
    PROVE  Accounting' /\ Atomic!Next
  <1> USE DEF Agreement
  <1>1. CASE PolicyAccepted(sent)
    <2>1. UNCHANGED <<committed, queue, active, outcome, nextToken>>
      BY <1>1 DEF PolicyAccepted, BeginRollback
    <2> QED
      BY <2>1, QuietStep
  <1>2. CASE FailAtPolicy(sent) /\ phase = "AwaitingPolicy"
    <2>1. /\ Finish(committed, "failed", sent)
          /\ UNCHANGED <<committed, nextToken>>
      BY <1>2 DEF FailAtPolicy
    <2>2. active \in Operation /\ sent \in BOOLEAN
      BY <1>2 DEF Control, PeerPhases, SendResults
    <2>3. /\ Accounting'
          /\ outcome'[active.token] = "failed"
          /\ \A t \in Tokens \ {active.token} : Settled(t)
      BY <2>1, <2>2, FinishSettles DEF TypeOK
    <2>4. outcome[active.token] = "pending"
      BY <2>2, ConstantsAssumption DEF Accounting
    <2> QED
      BY <2>1, <2>3, <2>4, KeepStep DEF Settled
  <1>3. CASE FailAtPolicy(sent) /\ phase # "AwaitingPolicy"
    <2>1. UNCHANGED <<committed, queue, active, outcome, nextToken>>
      BY <1>3 DEF FailAtPolicy
    <2> QED
      BY <2>1, QuietStep
  <1> QED
    BY <1>1, <1>2, <1>3 DEF PolicyRejected, PolicyUnusable

\* The compositor's answers.  The one that commits is Commit of the abstract
\* specification: what was evaluated is an evaluation of the operation's
\* rebase on the snapshot that is committed at this moment (Work).
LEMMA CompositorRefines ==
    ASSUME Agreement, Accounting, Agreement', NEW sent \in SendResults,
           CompositorAccepted(sent) \/ CompositorRejected(sent)
    PROVE  Accounting' /\ Atomic!Next
  <1> USE DEF Agreement
  <1>a. sent \in BOOLEAN
    BY DEF SendResults
  <1>b. /\ active \in Operation
        /\ active # NoOp
        /\ active.token \in Tokens
        /\ outcome[active.token] = "pending"
    <2>1. active # NoOp
      BY DEF CompositorAccepted, CompositorRejected, Awaits
    <2>2. active \in Operation
      BY <2>1 DEF TypeOK
    <2> QED
      BY <2>1, <2>2 DEF Accounting, Operation
  <1>c. nextToken' = nextToken
    BY DEF CompositorAccepted, CompositorRejected
  <1>1. CASE BeginRollback(sent)
    BY <1>1, <1>c, QuietStep DEF BeginRollback
  <1>2. CASE UNCHANGED <<committed, queue, active, outcome>>
    BY <1>2, <1>c, QuietStep
  <1>3. CASE /\ phase = "AwaitingCompositor" /\ ~active.canceled
             /\ committed' = evaluated
             /\ Finish(evaluated, "done", sent)
    <2>1. /\ Accounting'
          /\ outcome'[active.token] = "done"
          /\ \A t \in Tokens \ {active.token} : Settled(t)
      BY <1>a, <1>b, <1>c, <1>3, FinishSettles DEF TypeOK
    <2>2. /\ Rebasable(committed, active)
          /\ committed' \in Evaluations(Rebase(committed, active))
      BY <1>3 DEF Work
    <2>3. Atomic!Commit
      BY <1>b, <1>3, <2>1, <2>2, SameSnapshots DEF Settled, Atomic!Settles, Atomic!Commit
    <2> QED
      BY <2>1, <2>3 DEF Atomic!Next
  <1>4. CASE /\ phase = "RollingBackCompositor"
             /\ Finish(committed, "failed", sent)
             /\ committed' = committed
    <2>1. /\ Accounting'
          /\ outcome'[active.token] = "failed"
          /\ \A t \in Tokens \ {active.token} : Settled(t)
      BY <1>a, <1>b, <1>c, <1>4, FinishSettles DEF TypeOK
    <2> QED
      BY <1>b, <1>4, <2>1, KeepStep DEF Settled
  <1> QED
    BY <1>1, <1>2, <1>3, <1>4 DEF CompositorAccepted, CompositorRejected

\* resume(), on a snapshot that is the committed one or an evaluation of it.
LEMMA ResumeRefines ==
    ASSUME TypeOK, Accounting, Agreement', NEW sent \in BOOLEAN,
           StartNext(queue, committed', outcome, sent, TRUE), UNCHANGED nextToken,
           committed' = committed \/ committed' \in Evaluations(committed)
    PROVE  Accounting' /\ Atomic!Next
  <1>1. committed' \in Snapshot /\ queue' \in Seq(Operation)
    BY DEF Agreement, TypeOK
  <1> DEFINE e == committed'
  <1> DEFINE direct == TRUE
  <1>2. StartNext(queue, e, outcome, sent, direct) /\ e \in Snapshot /\ direct \in BOOLEAN
    BY <1>1
  <1>3. queue \in Seq(Operation) /\ outcome \in [Tokens -> Outcomes] /\ Waiting(queue, outcome)
    BY DEF TypeOK, Accounting
  <1> HIDE DEF e, direct
  <1>4. /\ Chosen(queue, e)
        /\ \A t \in Tokens : \/ outcome'[t] = outcome[t]
                             \/ outcome[t] = "pending" /\ outcome'[t] = "failed"
    BY <1>2, <1>3, StartNextChooses
  <1>5. Accounting'
    <2>1. \A t \in Tokens : t >= nextToken' => outcome'[t] = "unused"
      BY <1>4 DEF Accounting
    <2> QED
      BY <1>1, <1>3, <1>4, <2>1, ChosenAccounts DEF Waiting
  <1>6. \A t \in Tokens : Settled(t)
    BY <1>4 DEF Settled
  <1>7. CASE committed' \in Evaluations(committed)
    <2>1. Atomic!Reevaluate
      BY <1>6, <1>7, SameSnapshots DEF Settled, Atomic!Settles, Atomic!Reevaluate
    <2> QED
      BY <1>5, <2>1 DEF Atomic!Next
  <1>8. CASE committed' = committed
    BY <1>5, <1>6, <1>8, KeepStep
  <1> QED
    BY <1>7, <1>8

\* The end of a frame, of an output transaction, or of a tool's wait for one:
\* the second evaluates the committed windows anew.
LEMMA ForeignRefines ==
    ASSUME Agreement, Accounting, Agreement',
           \/ \E sent \in SendResults : FrameAccepted(sent) \/ OutputEnds(sent)
           \/ \E sent \in Handed : LeaveTool(sent)
    PROVE  Accounting' /\ Atomic!Next
  <1>a. TypeOK
    BY DEF Agreement
  <1>1. ASSUME NEW sent \in SendResults, FrameAccepted(sent)
        PROVE  Accounting' /\ Atomic!Next
    <2>1. /\ StartNext(queue, committed', outcome, sent, TRUE)
          /\ UNCHANGED <<committed, nextToken>>
          /\ sent \in BOOLEAN
      BY <1>1 DEF FrameAccepted, SendResults
    <2> QED
      BY <1>a, <2>1, ResumeRefines
  <1>2. ASSUME NEW sent \in SendResults, OutputEnds(sent)
        PROVE  Accounting' /\ Atomic!Next
    <2>1. /\ StartNext(queue, committed', outcome, sent, TRUE)
          /\ UNCHANGED nextToken
          /\ committed' = committed \/ committed' \in Evaluations(committed)
          /\ sent \in BOOLEAN
      BY <1>2 DEF OutputEnds, SendResults
    <2> QED
      BY <1>a, <2>1, ResumeRefines
  <1>3. ASSUME NEW sent \in Handed, LeaveTool(sent)
        PROVE  Accounting' /\ Atomic!Next
    <2>1. UNCHANGED <<committed, nextToken>>
      BY <1>3 DEF LeaveTool
    <2>2. CASE phase = "Idle" /\ queue # <<>>
      <3>1. StartNext(queue, committed', outcome, sent, TRUE) /\ sent \in BOOLEAN
        BY <1>3, <2>1, <2>2, HandedProperties DEF LeaveTool
      <3> QED
        BY <1>a, <2>1, <3>1, ResumeRefines
    <2>3. CASE ~(phase = "Idle" /\ queue # <<>>)
      BY <1>3, <2>1, <2>3, QuietStep DEF LeaveTool
    <2> QED
      BY <2>2, <2>3
  <1> QED
    BY <1>1, <1>2, <1>3

\* Every step of the coordinator keeps the accounts and is a step of the
\* atomic specification.
LEMMA NextRefines ==
    ASSUME Agreement, Accounting, Agreement', [Next]_vars
    PROVE  Accounting' /\ Atomic!Next
  <1>1. CASE UNCHANGED vars
    BY <1>1, QuietStep DEF vars
  <1>2. CASE \E c \in Clients, w \in Windows : CreateChild(c, w) \/ DestroyChild(c, w)
    BY <1>2, QuietStep DEF CreateChild, DestroyChild
  <1>3. CASE Aside
    BY <1>3, AsideKeeps, QuietStep DEF coordination
  <1>4. CASE \/ \E sent \in SendResults : FrameAccepted(sent) \/ OutputEnds(sent)
             \/ \E sent \in Handed : LeaveTool(sent)
    BY <1>4, ForeignRefines
  <1>5. CASE \E sent \in SendResults :
                \/ PolicyAccepted(sent) \/ PolicyRejected(sent) \/ PolicyUnusable(sent)
                \/ CompositorAccepted(sent) \/ CompositorRejected(sent)
    BY <1>5, PolicyRefines, CompositorRefines
  <1>6. CASE \E c \in Clients \cup {Internal}, kind \in Kinds, w \in Windows,
                sent \in Handed :
                \E touched \in Touches(kind) : Request(c, kind, w, touched, sent)
    BY <1>6, RequestRefines
  <1>7. CASE \E c \in Clients, sent \in Handed : Disconnect(c, sent)
    BY <1>7, DisconnectRefines
  <1> QED
    BY <1>1, <1>2, <1>3, <1>4, <1>5, <1>6, <1>7 DEF Next, Aside

\* The accounts balance in the initial state, which is that of AtomicLifecycle.
LEMMA InitRefines == Init => Accounting /\ Atomic!Init
  <1> SUFFICES ASSUME Init PROVE Accounting /\ Atomic!Init
    OBVIOUS
  <1>1. Accounting
    BY DEF Init, Accounting, Waiting, Distinct
  <1>2. Atomic!Init
    BY DEF Init, Atomic!Init, Atomic!Attrs, Attrs, Atomic!Tokens, Tokens
  <1> QED
    BY <1>1, <1>2

\* No token is lost or in two places: issued tokens of the queue and of the
\* active operation are pending, the others are not issued or settled.
THEOREM AccountsBalance == Spec => []Accounting
  BY InitRefines, NextRefines, AgreementHolds, PTL DEF Spec

\* The coordinator implements the atomic specification of window state
\* (ImplementsAtomic): whatever is refused, canceled, lost or repeated on the
\* way, an operation takes effect as a whole, once, on the state of its commit
\* (commit_lifecycle, finish), or not at all.
THEOREM Refinement == Spec => ImplementsAtomic
  <1>1. Agreement /\ Accounting /\ Agreement' /\ [Next]_vars => [Atomic!Next]_(Atomic!avars)
    BY NextRefines
  <1>2. Init => Atomic!Init
    BY InitRefines
  <1> QED
    BY <1>1, <1>2, AgreementHolds, AccountsBalance, PTL
       DEF Spec, ImplementsAtomic, Atomic!Spec

-----------------------------------------------------------------------------
(***************************************************************************)
(* What a rebase keeps.  A serial in a snapshot belongs to an operation    *)
(* that has been issued, so what a proposal marks with its own token is    *)
(* what the request asked for, and a rebase copies all of it (CopiedBy),   *)
(* but for the raise of an interactive press: the stack group of a Focus   *)
(* operation is not copied.                                                *)
(***************************************************************************)
Stamped(s, n) == \A w \in Existing(s) : \A a \in Attrs : s.windows[w][a] < n

\* The proposal marks with its token only what the rebase copies, the raise of
\* a Focus operation excepted.
Covered(op) ==
    \A a \in Attrs :
        /\ op.kind # "ClientCleanup"
        /\ op.window \in Existing(op.proposed)
        /\ op.proposed.windows[op.window][a] = op.token
        /\ ~(op.kind = "Focus" /\ a = "stack")
        => \/ op.kind = "Create"
           \/ op.kind # "Destroy" /\ a \in CopiedBy(op.kind)

Proposals ==
    /\ Stamped(committed, nextToken)
    /\ Stamped(evaluated, nextToken)
    /\ \A i \in 1..Len(queue) : Stamped(queue[i].proposed, nextToken) /\ Covered(queue[i])
    /\ active # NoOp => Stamped(active.proposed, nextToken)

\* Serials grow: what is stamped stays so.
LEMMA StampedLater ==
    ASSUME NEW s \in Snapshot, NEW m \in Int, NEW n \in Int, m <= n, Stamped(s, m)
    PROVE  Stamped(s, n)
  <1>1. \A w \in Existing(s), a \in Attrs : s.windows[w][a] \in Int
    BY SnapshotFields, ConstantsAssumption DEF Intent, Serials, Existing
  <1> QED
    BY <1>1 DEF Stamped

\* The snapshots that the coordinator makes from stamped ones are stamped.
LEMMA StampedResults ==
    /\ \A n : Stamped(EmptySnapshot, n)
    /\ \A n : \A s \in Snapshot, gone \in SUBSET Windows :
          Stamped(s, n) => Stamped(Remove(s, gone), n)
    /\ \A n : \A s \in Snapshot : \A e \in Evaluations(s) : Stamped(s, n) => Stamped(e, n)
  <1>1. \A n : Stamped(EmptySnapshot, n)
    BY DEF Stamped, EmptySnapshot, Existing
  <1>2. ASSUME NEW s \in Snapshot, NEW gone \in SUBSET Windows, NEW n, Stamped(s, n)
        PROVE  Stamped(Remove(s, gone), n)
    <2>1. \A w \in Existing(Remove(s, gone)) :
             w \in Existing(s) /\ Remove(s, gone).windows[w] = s.windows[w]
      BY DEF Remove, Existing, Snapshot
    <2> QED
      BY <1>2, <2>1 DEF Stamped
  <1>3. ASSUME NEW s \in Snapshot, NEW n, NEW e \in Evaluations(s), Stamped(s, n)
        PROVE  Stamped(e, n)
    BY <1>3, EvaluationProperties DEF Stamped
  <1> QED
    BY <1>1, <1>2, <1>3

LEMMA StampedWindow ==
    ASSUME NEW s \in Snapshot, NEW w \in Windows, NEW i \in Intent, NEW n,
           Stamped(s, n), \A a \in Attrs : i[a] < n
    PROVE  Stamped([s EXCEPT !.windows[w] = i], n)
  <1> DEFINE r == [s EXCEPT !.windows[w] = i]
  <1>1. \A v \in Existing(r) : \/ v = w /\ r.windows[v] = i
                               \/ v \in Existing(s) /\ r.windows[v] = s.windows[v]
    BY DEF Existing, Snapshot
  <1> HIDE DEF r
  <1>2. Stamped(r, n)
    BY <1>1 DEF Stamped
  <1> QED
    BY <1>2 DEF r

LEMMA RebaseStamped ==
    ASSUME NEW s \in Snapshot, NEW op \in Operation, Rebasable(s, op), NEW n,
           Stamped(s, n), Stamped(op.proposed, n)
    PROVE  Stamped(Rebase(s, op), n)
  <1> DEFINE w == op.window
  <1>1. w \in Windows /\ op.proposed \in Snapshot /\ op.kind \in Kinds
    BY DEF Operation
  <1>2. CASE op.kind = "Create"
    <2>1. w \in Existing(op.proposed) /\ op.proposed.windows[w] \in Intent
      BY <1>1, <1>2, SnapshotFields DEF Rebasable
    <2>2. Rebase(s, op) = [s EXCEPT !.windows[w] = op.proposed.windows[w]]
      BY <1>2 DEF Rebase
    <2>3. \A a \in Attrs : op.proposed.windows[w][a] < n
      BY <2>1 DEF Stamped
    <2> DEFINE i == op.proposed.windows[w]
    <2>4. i \in Intent /\ \A a \in Attrs : i[a] < n
      BY <2>1, <2>3
    <2>5. Rebase(s, op) = [s EXCEPT !.windows[w] = i]
      BY <2>2
    <2> HIDE DEF i, w
    <2> QED
      BY <1>1, <2>4, <2>5, StampedWindow
  <1>3. CASE op.kind = "Destroy"
    BY <1>1, <1>3, StampedResults DEF Rebase
  <1>4. CASE op.kind = "ClientCleanup"
    <2>1. Existing(s) \ Existing(op.proposed) \in SUBSET Windows
      BY DEF Existing
    <2>2. Rebase(s, op) = Remove(s, Existing(s) \ Existing(op.proposed))
      BY <1>4 DEF Rebase
    <2> QED
      BY <2>1, <2>2, StampedResults
  <1>5. CASE op.kind \notin {"Create", "Destroy", "ClientCleanup"}
    <2>1. w \in Existing(op.proposed) /\ w \in Existing(s)
      BY <1>5 DEF Rebasable
    <2>2. Merged(s, op) \in Intent
      <3>1. \A b \in Attrs : /\ op.proposed.windows[w][b] \in Serials
                             /\ s.windows[w][b] \in Serials
        BY <1>1, <2>1, SnapshotFields
      <3> QED
        BY <3>1 DEF Merged, Intent
    <2>3. Rebase(s, op) = [s EXCEPT !.windows[w] = Merged(s, op)]
      BY <1>5 DEF Rebase, Merged
    <2>4. \A a \in Attrs : Merged(s, op)[a] < n
      BY <2>1 DEF Merged, Stamped
    <2> QED
      BY <1>1, <2>2, <2>3, <2>4, StampedWindow
  <1> QED
    BY <1>2, <1>3, <1>4, <1>5

\* A covered operation keeps its own request when it is rebased.
LEMMA RebaseKeeps ==
    ASSUME NEW s \in Snapshot, NEW op \in Operation, Rebasable(s, op), Covered(op),
           op.kind # "ClientCleanup", NEW a \in Attrs,
           op.window \in Existing(op.proposed),
           op.proposed.windows[op.window][a] = op.token,
           ~(op.kind = "Focus" /\ a = "stack")
    PROVE  Rebase(s, op).windows[op.window][a] = op.token
  <1> DEFINE w == op.window
  <1>1. w \in Windows /\ op.proposed \in Snapshot
    BY DEF Operation
  <1>2. CASE op.kind = "Create"
    <2>1. op.proposed.windows[w] \in Intent
      BY <1>1, SnapshotFields
    <2>2. Rebase(s, op) = [s EXCEPT !.windows[w] = op.proposed.windows[w]]
      BY <1>2 DEF Rebase
    <2> DEFINE i == op.proposed.windows[w]
    <2>3. i \in Intent /\ Rebase(s, op) = [s EXCEPT !.windows[w] = i] /\ i[a] = op.token
      BY <2>1, <2>2
    <2> HIDE DEF i
    <2>4. Rebase(s, op).windows[w] = i
      BY <1>1, <2>3, SetWindow
    <2> QED
      BY <2>3, <2>4
  <1>3. CASE op.kind # "Create"
    <2>1. op.kind # "Destroy" /\ a \in CopiedBy(op.kind)
      BY <1>3 DEF Covered
    <2>2. w \in Existing(s)
      BY <1>3, <2>1 DEF Rebasable
    <2>3. Merged(s, op) \in Intent
      <3>1. \A b \in Attrs : /\ op.proposed.windows[w][b] \in Serials
                             /\ s.windows[w][b] \in Serials
        BY <1>1, <2>2, SnapshotFields
      <3> QED
        BY <3>1 DEF Merged, Intent
    <2>4. Rebase(s, op) = [s EXCEPT !.windows[w] = Merged(s, op)]
      BY <1>3, <2>1 DEF Rebase, Merged
    <2>5. Rebase(s, op).windows[w] = Merged(s, op)
      BY <1>1, <2>3, <2>4, SetWindow
    <2> QED
      BY <2>1, <2>5 DEF Merged
  <1> QED
    BY <1>2, <1>3

\* One step of RebaseKeepsOwnRequest.
KeepsOwn ==
    active' # NoOp /\ active' # active =>
         \A i \in 1..Len(queue) :
            queue[i].token = active'.token /\ queue[i].kind # "ClientCleanup" =>
               \A a \in Attrs :
                  LET w == queue[i].window IN
                  /\ w \in Existing(queue[i].proposed)
                  /\ queue[i].proposed.windows[w][a] = queue[i].token
                  /\ ~(queue[i].kind = "Focus" /\ a = "stack")
                  => active'.proposed.windows[w][a] = queue[i].token

\* The operation that start_next takes from a queue q keeps its request, when
\* q holds what was in the queue, canceled or not, and perhaps a new operation.
LEMMA TakenKeeps ==
    ASSUME NEW q \in Seq(Operation), Distinct(q), \A j \in 1..Len(q) : Covered(q[j]),
           \A i \in 1..Len(queue) : \E j \in 1..Len(q) :
              /\ q[j].token = queue[i].token
              /\ q[j].kind = queue[i].kind
              /\ q[j].window = queue[i].window
              /\ q[j].proposed = queue[i].proposed,
           NEW s \in Snapshot, NEW results, NEW sent, NEW direct,
           StartNext(q, s, results, sent, direct)
    PROVE  KeepsOwn
  <1> SUFFICES ASSUME active' # NoOp, NEW i \in 1..Len(queue),
                      queue[i].token = active'.token, queue[i].kind # "ClientCleanup",
                      NEW a \in Attrs,
                      queue[i].window \in Existing(queue[i].proposed),
                      queue[i].proposed.windows[queue[i].window][a] = queue[i].token,
                      ~(queue[i].kind = "Focus" /\ a = "stack")
               PROVE  active'.proposed.windows[queue[i].window][a] = queue[i].token
    BY DEF KeepsOwn
  <1>1. PICK n \in 0..Len(q) : Taken(q, s, n)
    BY StartNextTakes
  <1>2. Len(q) \in Nat
    BY LenProperties
  <1>3. n # Len(q)
    BY <1>1 DEF Taken
  <1>4. n + 1 \in 1..Len(q)
    BY <1>2, <1>3
  <1>5. /\ q[n + 1].token = active'.token
        /\ Rebasable(s, q[n + 1])
        /\ active'.proposed = Rebase(s, q[n + 1])
    BY <1>1, <1>3 DEF Taken
  <1>6. PICK j \in 1..Len(q) : /\ q[j].token = queue[i].token
                               /\ q[j].kind = queue[i].kind
                               /\ q[j].window = queue[i].window
                               /\ q[j].proposed = queue[i].proposed
    OBVIOUS
  <1>7. j = n + 1
    BY <1>4, <1>5, <1>6 DEF Distinct
  <1>8. q[j] \in Operation /\ Covered(q[j])
    BY ElementOfSeq
  <1>9. Rebase(s, q[j]).windows[q[j].window][a] = q[j].token
    BY <1>5, <1>6, <1>7, <1>8, RebaseKeeps
  <1> QED
    BY <1>5, <1>6, <1>7, <1>9

\* The proposals after start_next on a queue of stamped and covered ones.
LEMMA TakenProposals ==
    ASSUME NEW q \in Seq(Operation), NEW s \in Snapshot,
           NEW results, NEW sent, NEW direct,
           StartNext(q, s, results, sent, direct),
           committed' = s, Stamped(s, nextToken'), Stamped(evaluated', nextToken'),
           \A i \in 1..Len(q) : Stamped(q[i].proposed, nextToken') /\ Covered(q[i])
    PROVE  Proposals'
  <1>1. PICK n \in 0..Len(q) : Taken(q, s, n)
    BY StartNextTakes
  <1>2. Len(q) \in Nat /\ \A i \in 1..Len(q) : q[i] \in Operation
    BY ElementOfSeq, LenProperties
  <1>3. CASE n = Len(q)
    <2>1. active' = NoOp /\ queue' = <<>>
      BY <1>1, <1>3 DEF Taken
    <2> QED
      BY <2>1 DEF Proposals
  <1>4. CASE n # Len(q)
    <2>1. n + 1 \in 1..Len(q)
      BY <1>2, <1>4
    <2>2. Stamped(active'.proposed, nextToken')
      BY <1>1, <1>2, <1>4, <2>1, RebaseStamped DEF Taken
    <2>3. \A i \in 1..Len(queue') : n + 1 + i \in 1..Len(q) /\ queue'[i] = q[n + 1 + i]
      BY <1>1, <1>2, <1>4, <2>1 DEF Taken
    <2>4. \A i \in 1..Len(queue') : Stamped(queue'[i].proposed, nextToken') /\ Covered(queue'[i])
      BY <2>3
    <2> QED
      BY <2>2, <2>4 DEF Proposals
  <1> QED
    BY <1>3, <1>4

\* A step that changes no operation and no snapshot.
LEMMA QuietProposals ==
    ASSUME TypeOK, Proposals, UNCHANGED <<committed, queue, active, nextToken>>,
           Stamped(evaluated', nextToken)
    PROVE  Proposals' /\ KeepsOwn
  BY DEF Proposals, KeepsOwn

\* All that is stamped stays so when a token is issued.
LEMMA ProposalsLater ==
    ASSUME TypeOK, Proposals, nextToken' = nextToken + 1
    PROVE  /\ Stamped(committed, nextToken')
           /\ Stamped(evaluated, nextToken')
           /\ \A i \in 1..Len(queue) : Stamped(queue[i].proposed, nextToken')
           /\ active # NoOp => Stamped(active.proposed, nextToken')
  <1>1. nextToken \in Int /\ nextToken' \in Int /\ nextToken <= nextToken'
    BY DEF TypeOK
  <1>2. /\ \A i \in 1..Len(queue) : queue[i].proposed \in Snapshot
        /\ active # NoOp => active.proposed \in Snapshot
    <2>1. \A i \in 1..Len(queue) : queue[i] \in Operation
      BY QueuedTokens
    <2> QED
      BY <2>1 DEF TypeOK, Operation
  <1> QED
    BY <1>1, <1>2, StampedLater DEF TypeOK, Proposals

\* What a handler proposes is stamped and covered.
LEMMA ProposeCovered ==
    ASSUME Agreement, Proposals,
           NEW kind \in Kinds, NEW w \in Windows, NEW touched \in Touches(kind),
           kind = "Create" \/ w \in Existing(committed),
           nextToken \in Tokens, nextToken' = nextToken + 1,
           NEW op \in Operation, op.kind = kind, op.window = w, op.token = nextToken,
           op.proposed = Propose(committed, kind, w, touched, nextToken)
    PROVE  Stamped(op.proposed, nextToken') /\ Covered(op)
  <1>0. /\ nextToken \in Int /\ nextToken < nextToken'
        /\ committed \in Snapshot
        /\ Stamped(committed, nextToken')
    BY ProposalsLater DEF Agreement, TypeOK
  <1>1. CASE kind = "Create"
    <2> DEFINE i == [a \in Attrs |-> nextToken]
    <2>1. i \in Intent /\ \A a \in Attrs : i[a] < nextToken'
      BY <1>0 DEF Intent, Tokens, Serials
    <2>2. op.proposed = [committed EXCEPT !.windows[w] = i]
      BY <1>1 DEF Propose
    <2> HIDE DEF i
    <2>3. Stamped(op.proposed, nextToken')
      BY <1>0, <2>1, <2>2, StampedWindow
    <2> QED
      BY <1>1, <2>3 DEF Covered
  <1>2. CASE kind = "Destroy"
    <2>1. op.proposed = Remove(committed, {w})
      BY <1>2 DEF Propose
    <2>2. Stamped(op.proposed, nextToken')
      BY <1>0, <2>1, StampedResults
    <2>3. w \notin Existing(op.proposed)
      BY <2>1 DEF Remove, Existing
    <2> QED
      BY <2>2, <2>3 DEF Covered
  <1>3. CASE kind # "Create" /\ kind # "Destroy"
    <2> DEFINE i == [a \in Attrs |-> IF a \in touched THEN nextToken
                                                      ELSE committed.windows[w][a]]
    <2>1. w \in Existing(committed)
      BY <1>3
    <2>2. \A a \in Attrs : /\ committed.windows[w][a] \in Serials
                           /\ committed.windows[w][a] < nextToken
                           /\ committed.windows[w][a] < nextToken'
      <3>1. \A a \in Attrs : committed.windows[w][a] \in Serials
        BY <1>0, <2>1, SnapshotFields
      <3> QED
        BY <1>0, <2>1, <3>1 DEF Proposals, Stamped
    <2>3. i \in Intent /\ \A a \in Attrs : i[a] < nextToken'
      BY <1>0, <2>2 DEF Intent, Tokens, Serials
    <2>4. op.proposed = [committed EXCEPT !.windows[w] = i]
      BY <1>3 DEF Propose
    <2>5. \A a \in Attrs : i[a] = nextToken => a \in touched
      BY <1>0, <2>2 DEF Serials
    <2> HIDE DEF i
    <2>6. Stamped(op.proposed, nextToken') /\ op.proposed.windows[w] = i
      <3> DEFINE s == [committed EXCEPT !.windows[w] = i]
      <3>1. Stamped(s, nextToken')
        BY <1>0, <2>3, StampedWindow
      <3>2. s.windows[w] = i
        BY <1>0, SnapshotFields DEF Snapshot
      <3>3. op.proposed = s
        BY <2>4
      <3> HIDE DEF s
      <3> QED
        BY <3>1, <3>2, <3>3
    <2>7. kind # "ClientCleanup" =>
             \A a \in touched : a \in CopiedBy(kind) \/ (kind = "Focus" /\ a = "stack")
      <3>1. CASE kind = "Focus"
        <4>1. touched \in {{"focus"}, {"focus", "stack"}} /\ CopiedBy(kind) = {"focus"}
          BY <3>1 DEF Touches, CopiedBy
        <4> QED
          BY <3>1, <4>1
      <3>2. CASE kind # "Focus" /\ kind # "ClientCleanup"
        <4>1. touched \subseteq CopiedBy(kind)
          BY <1>3, <3>2 DEF Touches, CopiedBy, Kinds, Attrs
        <4> QED
          BY <4>1
      <3> QED
        BY <3>1, <3>2
    <2>8. ASSUME NEW a \in Attrs, op.kind # "ClientCleanup",
                 op.proposed.windows[op.window][a] = op.token,
                 ~(op.kind = "Focus" /\ a = "stack")
          PROVE  op.kind # "Destroy" /\ a \in CopiedBy(op.kind)
      BY <1>3, <2>5, <2>6, <2>7, <2>8
    <2> QED
      BY <2>6, <2>8 DEF Covered
  <1> QED
    BY <1>1, <1>2, <1>3

LEMMA RequestProposals ==
    ASSUME Agreement, Accounting, Proposals,
           NEW c \in Clients \cup {Internal}, NEW kind \in Kinds, NEW w \in Windows,
           NEW touched \in Touches(kind), NEW sent \in Handed,
           Request(c, kind, w, touched, sent)
    PROVE  Proposals' /\ KeepsOwn
  <1> DEFINE op == [token |-> nextToken, client |-> c, kind |-> kind, window |-> w,
                    targets |-> {}, subtree |-> children[w], canceled |-> FALSE,
                    proposed |-> Propose(committed, kind, w, touched, nextToken)]
             results == [outcome EXCEPT ![nextToken] = "pending"]
  <1> USE DEF Agreement
  <1>a. /\ nextToken \in Tokens /\ nextToken' = nextToken + 1
        /\ kind = "Create" \/ w \in Existing(committed)
        /\ UNCHANGED <<committed, evaluated>>
    BY DEF Request, Requestable, Views
  <1>b. op \in Operation
    <2>1. Propose(committed, kind, w, touched, nextToken) \in Snapshot
      BY <1>a, ProposeProperties DEF TypeOK
    <2> QED
      BY <1>a, <2>1 DEF Operation, TypeOK
  <1>c. Stamped(op.proposed, nextToken') /\ Covered(op)
    <2>1. /\ op.kind = kind /\ op.window = w /\ op.token = nextToken
          /\ op.proposed = Propose(committed, kind, w, touched, nextToken)
      OBVIOUS
    <2> HIDE DEF op
    <2> QED
      BY <1>a, <1>b, <2>1, ProposeCovered
  <1>d. /\ Stamped(committed', nextToken')
        /\ Stamped(evaluated', nextToken')
        /\ \A i \in 1..Len(queue) : Stamped(queue[i].proposed, nextToken') /\ Covered(queue[i])
        /\ active # NoOp => Stamped(active.proposed, nextToken')
    BY <1>a, ProposalsLater DEF Proposals
  <1>1. CASE UNCHANGED <<queue, active>>
    BY <1>d, <1>1 DEF Proposals, KeepsOwn
  <1>2. CASE Enqueue(Append(queue, op), kind, results, sent)
    <2> DEFINE q == Append(queue, op)
    <2>a. /\ outcome[nextToken] = "unused"
          /\ results[nextToken] = "pending"
          /\ \A t \in Tokens \ {nextToken} : results[t] = outcome[t]
          /\ op.token = nextToken
      BY <1>a DEF Accounting, Tokens, TypeOK
    <2> HIDE DEF op, results
    <2>b. /\ Waiting(q, results)
          /\ \A i \in 1..Len(queue) : i \in 1..Len(q) /\ q[i] = queue[i]
      BY <1>b, <2>a, AppendedWaits
    <2>1. /\ q \in Seq(Operation)
          /\ \A i \in 1..Len(q) : Stamped(q[i].proposed, nextToken') /\ Covered(q[i])
      <3>1. Len(queue) \in Nat /\ queue \in Seq(Operation)
        BY LenProperties DEF TypeOK
      <3>2. /\ q \in Seq(Operation)
            /\ Len(q) = Len(queue) + 1
            /\ \A i \in 1..Len(queue) : q[i] = queue[i]
            /\ q[Len(queue) + 1] = op
        BY <1>b, <3>1, AppendProperties
      <3>3. \A i \in 1..Len(q) : i \in 1..Len(queue) \/ i = Len(queue) + 1
        BY <3>1, <3>2
      <3> QED
        BY <1>c, <1>d, <3>2, <3>3
    <2>2. CASE phase = "Idle" /\ ~Parked(kind)
      <3>1. StartNext(q, committed, results, sent, TRUE)
        BY <1>2, <2>2 DEF Enqueue
      <3> HIDE DEF q
      <3>2. committed \in Snapshot /\ Distinct(q)
        BY <2>b DEF TypeOK, Waiting
      <3>3. Proposals'
        BY <1>a, <1>d, <2>1, <3>1, <3>2, TakenProposals
      <3>4. KeepsOwn
        BY <2>b, <2>1, <3>1, <3>2, TakenKeeps
      <3> QED
        BY <3>3, <3>4
    <2>3. CASE ~(phase = "Idle" /\ ~Parked(kind))
      <3>1. queue' = q /\ active' = active
        BY <1>2, <2>3 DEF Enqueue
      <3> HIDE DEF q
      <3> QED
        BY <1>d, <2>1, <3>1 DEF Proposals, KeepsOwn
    <2> QED
      BY <2>2, <2>3
  <1> QED
    BY <1>1, <1>2 DEF Request

LEMMA DisconnectProposals ==
    ASSUME Agreement, Accounting, Proposals,
           NEW c \in Clients, NEW sent \in Handed, Disconnect(c, sent)
    PROVE  Proposals' /\ KeepsOwn
  <1> DEFINE targets == {w \in resources : Owner[w] = c}
             canceled == [i \in 1..Len(queue) |-> Canceled(queue[i], c)]
             canceledActive == IF active = NoOp THEN NoOp ELSE Canceled(active, c)
             cleanup == [token |-> nextToken, client |-> c, kind |-> "ClientCleanup",
                         window |-> CHOOSE w \in targets : TRUE, targets |-> targets,
                         subtree |-> 0, proposed |-> Remove(committed, targets),
                         canceled |-> FALSE]
             results == [outcome EXCEPT ![nextToken] = "pending"]
  <1> USE DEF Agreement
  <1>a. UNCHANGED <<committed, evaluated>> /\ nextToken' \in {nextToken, nextToken + 1}
    BY DEF Disconnect
  <1>b. /\ Stamped(committed, nextToken')
        /\ Stamped(evaluated, nextToken')
        /\ \A i \in 1..Len(queue) : Stamped(queue[i].proposed, nextToken')
        /\ active # NoOp => Stamped(active.proposed, nextToken')
    BY <1>a, ProposalsLater DEF Proposals
  <1>c. /\ canceled \in Seq(Operation)
        /\ Len(canceled) = Len(queue)
        /\ \A i \in 1..Len(queue) : Stamped(canceled[i].proposed, nextToken') /\ Covered(canceled[i])
        /\ \A i \in 1..Len(queue) : /\ canceled[i].kind = queue[i].kind
                                     /\ canceled[i].window = queue[i].window
                                     /\ canceled[i].token = queue[i].token
                                     /\ canceled[i].proposed = queue[i].proposed
    <2>1. canceled \in Seq(Operation) /\ Len(canceled) = Len(queue)
      BY CanceledTypes DEF TypeOK
    <2>2. \A i \in 1..Len(queue) : /\ canceled[i].kind = queue[i].kind
                                   /\ canceled[i].window = queue[i].window
                                   /\ canceled[i].token = queue[i].token
                                   /\ canceled[i].proposed = queue[i].proposed
      <3>1. \A i \in 1..Len(queue) : queue[i] \in Operation /\ canceled[i] = Canceled(queue[i], c)
        BY QueuedTokens
      <3> HIDE DEF canceled
      <3> QED
        BY <3>1 DEF Canceled, Operation
    <2> HIDE DEF canceled
    <2> QED
      BY <1>b, <2>1, <2>2 DEF Proposals, Covered
  <1>d. /\ canceledActive # NoOp =>
              /\ active # NoOp
              /\ canceledActive.token = active.token
              /\ Stamped(canceledActive.proposed, nextToken')
    <2>1. canceledActive # NoOp => active \in Operation /\ active # NoOp
      BY DEF TypeOK
    <2> QED
      BY <1>b, <2>1, CancelKeepsRebase DEF Canceled
  <1>e. active' = canceledActive => KeepsOwn
    BY <1>d DEF KeepsOwn, Accounting
  <1>1. CASE queue' = canceled /\ active' = canceledActive
    <2> HIDE DEF canceled, canceledActive
    <2> QED
      BY <1>a, <1>b, <1>c, <1>d, <1>e, <1>1 DEF Proposals
  <1>2. CASE /\ targets # {} /\ nextToken \in Tokens
             /\ \/ /\ phase = "Idle" /\ ~Parked("ClientCleanup")
                   /\ StartNext(<<cleanup>> \o canceled, committed, results, sent, TRUE)
                \/ /\ queue' = <<cleanup>> \o canceled
                   /\ active' = canceledActive
    <2> DEFINE q == <<cleanup>> \o canceled
    <2>1. cleanup \in Operation /\ Stamped(cleanup.proposed, nextToken') /\ Covered(cleanup)
      <3>1. targets \in SUBSET Windows /\ (CHOOSE w \in targets : TRUE) \in targets
        BY <1>2 DEF TypeOK
      <3>2. Remove(committed, targets) \in Snapshot
        BY <3>1, RemoveProperties DEF TypeOK
      <3>3. Stamped(Remove(committed, targets), nextToken')
        BY <1>b, <3>1, StampedResults DEF TypeOK
      <3> HIDE DEF targets
      <3>4. cleanup \in Operation
        BY <1>2, <3>1, <3>2, ConstantsAssumption DEF Operation, Kinds
      <3>5. cleanup.kind = "ClientCleanup" /\ cleanup.proposed = Remove(committed, targets)
        OBVIOUS
      <3> HIDE DEF cleanup
      <3> QED
        BY <3>3, <3>4, <3>5 DEF Covered
    <2>a. /\ outcome[nextToken] = "unused"
          /\ results[nextToken] = "pending"
          /\ \A t \in Tokens \ {nextToken} : results[t] = outcome[t]
          /\ cleanup.token = nextToken
      BY <1>2 DEF Accounting, Tokens, TypeOK
    <2> HIDE DEF cleanup, canceled, results, canceledActive
    <2>2. /\ q \in Seq(Operation)
          /\ Len(q) = Len(queue) + 1
          /\ q[1] = cleanup
          /\ \A i \in 1..Len(queue) : i + 1 \in 1..Len(q) /\ q[i + 1] = canceled[i]
          /\ \A i \in 1..Len(q) : Stamped(q[i].proposed, nextToken') /\ Covered(q[i])
      <3>1. <<cleanup>> \in Seq(Operation) /\ Len(<<cleanup>>) = 1 /\ <<cleanup>>[1] = cleanup
        BY <2>1
      <3>2. Len(canceled) \in Nat
        BY <1>c, LenProperties
      <3>3. /\ q \in Seq(Operation)
            /\ Len(q) = 1 + Len(canceled)
            /\ \A i \in 1..Len(q) : q[i] = IF i <= 1 THEN <<cleanup>>[i] ELSE canceled[i - 1]
        BY <1>c, <3>1, <3>2, ConcatProperties
      <3>4. \A i \in 1..Len(q) : \/ q[i] = cleanup
                                 \/ i - 1 \in 1..Len(canceled) /\ q[i] = canceled[i - 1]
        BY <3>1, <3>2, <3>3
      <3>5. q[1] = cleanup
        BY <3>1, <3>2, <3>3
      <3>6. \A i \in 1..Len(queue) : i + 1 \in 1..Len(q) /\ q[i + 1] = canceled[i]
        BY <1>c, <3>2, <3>3
      <3>7. \A i \in 1..Len(q) : Stamped(q[i].proposed, nextToken') /\ Covered(q[i])
        BY <1>c, <2>1, <3>4
      <3> QED
        BY <1>c, <3>2, <3>3, <3>5, <3>6, <3>7
    <2>3. CASE /\ phase = "Idle" /\ ~Parked("ClientCleanup")
               /\ StartNext(q, committed, results, sent, TRUE)
      <3> HIDE DEF q
      <3>1. Distinct(q)
        <4>1. \A i \in 1..Len(queue) : q[i + 1].token = queue[i].token
          BY <1>c, <2>2
        <4>2. q[1].token = nextToken
          BY <2>a, <2>2
        <4>3. Waiting(q, results)
          BY <2>a, <2>2, <4>1, <4>2, PrependedWaits
        <4> QED
          BY <4>3 DEF Waiting
      <3>2. committed \in Snapshot
        BY DEF TypeOK
      <3>3. Proposals'
        BY <1>a, <1>b, <2>2, <2>3, <3>2, TakenProposals
      <3>4. \A i \in 1..Len(queue) : \E j \in 1..Len(q) :
               /\ q[j].token = queue[i].token
               /\ q[j].kind = queue[i].kind
               /\ q[j].window = queue[i].window
               /\ q[j].proposed = queue[i].proposed
        <4> SUFFICES ASSUME NEW i \in 1..Len(queue)
                     PROVE  \E j \in 1..Len(q) : /\ q[j].token = queue[i].token
                                                 /\ q[j].kind = queue[i].kind
                                                 /\ q[j].window = queue[i].window
                                                 /\ q[j].proposed = queue[i].proposed
          OBVIOUS
        <4>1. i + 1 \in 1..Len(q) /\ q[i + 1] = canceled[i]
          BY <2>2
        <4>2. /\ q[i + 1].token = queue[i].token
              /\ q[i + 1].kind = queue[i].kind
              /\ q[i + 1].window = queue[i].window
              /\ q[i + 1].proposed = queue[i].proposed
          BY <1>c, <4>1
        <4> QED
          BY <4>1, <4>2
      <3>5. KeepsOwn
        BY <2>2, <2>3, <3>1, <3>2, <3>4, TakenKeeps
      <3> QED
        BY <3>3, <3>5
    <2>4. CASE queue' = q /\ active' = canceledActive
      <3> HIDE DEF q
      <3> QED
        BY <1>a, <1>b, <1>d, <1>e, <2>2, <2>4 DEF Proposals
    <2> QED
      BY <1>2, <2>3, <2>4
  <1> HIDE DEF canceled, canceledActive, cleanup, results
  <1> QED
    BY <1>1, <1>2 DEF Disconnect, canceled, canceledActive, cleanup, results

\* finish() and resume() take the next operation from the queue.
LEMMA AnswerProposals ==
    ASSUME Agreement, Accounting, Proposals, NEW sent \in BOOLEAN,
           \/ PolicyAccepted(sent) \/ PolicyRejected(sent) \/ PolicyUnusable(sent)
           \/ CompositorAccepted(sent) \/ CompositorRejected(sent)
           \/ FrameAccepted(sent) \/ LeaveTool(sent) \/ OutputEnds(sent)
    PROVE  Proposals' /\ KeepsOwn
  <1> USE DEF Agreement
  <1>a. nextToken' = nextToken
    BY DEF PolicyAccepted, PolicyRejected, PolicyUnusable, FailAtPolicy, CompositorAccepted,
           CompositorRejected, FrameAccepted, LeaveTool, OutputEnds
  <1>b. \A i \in 1..Len(queue) : Stamped(queue[i].proposed, nextToken') /\ Covered(queue[i])
    BY <1>a DEF Proposals
  <1>1. ASSUME NEW s \in Snapshot, NEW results, NEW direct,
               StartNext(queue, s, results, sent, direct),
               committed' = s, Stamped(s, nextToken), Stamped(evaluated', nextToken)
        PROVE  Proposals' /\ KeepsOwn
    <2>1. queue \in Seq(Operation) /\ Distinct(queue)
      BY DEF TypeOK, Accounting, Waiting
    <2>2. KeepsOwn
      BY <1>b, <1>1, <2>1, TakenKeeps
    <2>3. Proposals'
      BY <1>a, <1>b, <1>1, <2>1, TakenProposals
    <2> QED
      BY <2>2, <2>3
  <1>2. ASSUME UNCHANGED <<committed, queue, active>>, Stamped(evaluated', nextToken)
        PROVE  Proposals' /\ KeepsOwn
    BY <1>a, <1>2, QuietProposals
  <1>3. ASSUME NEW s \in {committed, evaluated}, NEW result, Finish(s, result, sent),
               committed' = s
        PROVE  Proposals' /\ KeepsOwn
    <2>1. /\ StartNext(queue, s, [outcome EXCEPT ![active.token] = result], sent, FALSE)
          /\ evaluated' = EmptySnapshot
      BY <1>3 DEF Finish
    <2>2. Stamped(evaluated', nextToken) /\ s \in Snapshot /\ Stamped(s, nextToken)
      BY <2>1, StampedResults DEF TypeOK, Proposals
    <2> QED
      BY <1>1, <1>3, <2>1, <2>2
  <1>4. CASE PolicyAccepted(sent)
    <2>1. CASE phase = "RollingBackPolicy"
      BY <1>2, <1>4, <2>1 DEF PolicyAccepted, Proposals
    <2>2. CASE phase = "AwaitingPolicy"
      <3>1. /\ evaluated' \in Evaluations(active.proposed)
            /\ UNCHANGED <<committed, queue, active>>
            /\ active # NoOp
        BY <1>4, <2>2 DEF PolicyAccepted, BeginRollback, Awaits
      <3>2. active.proposed \in Snapshot /\ Stamped(active.proposed, nextToken)
        BY <3>1 DEF TypeOK, Operation, Proposals
      <3>3. Stamped(evaluated', nextToken)
        BY <3>1, <3>2, StampedResults
      <3> QED
        BY <1>2, <3>1, <3>3
    <2> QED
      BY <1>4, <2>1, <2>2 DEF PolicyAccepted
  <1>5. CASE FailAtPolicy(sent)
    <2>1. CASE phase = "AwaitingPolicy"
      BY <1>3, <1>5, <2>1 DEF FailAtPolicy
    <2>2. CASE phase # "AwaitingPolicy"
      BY <1>2, <1>5, <2>2 DEF FailAtPolicy, Proposals
    <2> QED
      BY <2>1, <2>2
  <1>6. CASE CompositorAccepted(sent)
    <2>1. CASE UNCHANGED <<committed, queue, active, evaluated>>
      BY <1>2, <2>1 DEF Proposals
    <2>2. CASE \E s \in {committed, evaluated}, result \in {"done", "failed"} :
                  Finish(s, result, sent) /\ committed' = s
      BY <1>3, <2>2
    <2> QED
      BY <1>6, <2>1, <2>2 DEF CompositorAccepted, BeginRollback
  <1>7. CASE CompositorRejected(sent)
    <2>1. UNCHANGED <<committed, queue, active, evaluated>>
      BY <1>7 DEF CompositorRejected, BeginRollback
    <2> QED
      BY <1>2, <2>1 DEF Proposals
  <1>8. CASE FrameAccepted(sent)
    <2>1. StartNext(queue, committed, outcome, sent, TRUE) /\ UNCHANGED <<committed, evaluated>>
      BY <1>8 DEF FrameAccepted
    <2> QED
      BY <1>1, <2>1 DEF TypeOK, Proposals
  <1>9. CASE LeaveTool(sent)
    <2>1. UNCHANGED <<committed, evaluated>>
      BY <1>9 DEF LeaveTool
    <2>2. CASE phase = "Idle" /\ queue # <<>>
      <3>1. StartNext(queue, committed, outcome, sent, TRUE)
        BY <1>9, <2>2 DEF LeaveTool
      <3> QED
        BY <1>1, <2>1, <3>1 DEF TypeOK, Proposals
    <2>3. CASE ~(phase = "Idle" /\ queue # <<>>)
      <3>1. UNCHANGED <<queue, active>>
        BY <1>9, <2>3 DEF LeaveTool
      <3> QED
        BY <1>2, <2>1, <3>1 DEF Proposals
    <2> QED
      BY <2>2, <2>3
  <1>10. CASE OutputEnds(sent)
    <2>1. /\ StartNext(queue, committed', outcome, sent, TRUE)
          /\ evaluated' = evaluated
          /\ committed' = committed \/ committed' \in Evaluations(committed)
      BY <1>10 DEF OutputEnds
    <2>2. committed' \in Snapshot /\ Stamped(committed', nextToken)
      BY <2>1, EvaluationProperties, StampedResults DEF TypeOK, Proposals
    <2> DEFINE s == committed'
    <2>3. /\ StartNext(queue, s, outcome, sent, TRUE) /\ s \in Snapshot /\ Stamped(s, nextToken)
          /\ committed' = s
      BY <2>1, <2>2
    <2>4. Stamped(evaluated', nextToken)
      BY <2>1 DEF Proposals
    <2> HIDE DEF s
    <2> QED
      BY <1>1, <2>3, <2>4
  <1> QED
    BY <1>4, <1>5, <1>6, <1>7, <1>8, <1>9, <1>10 DEF PolicyRejected, PolicyUnusable

LEMMA NextProposals ==
    ASSUME Agreement, Accounting, Proposals, [Next]_vars
    PROVE  Proposals' /\ KeepsOwn
  <1>0. TypeOK
    BY DEF Agreement
  <1>1. ASSUME UNCHANGED <<committed, evaluated, queue, active, nextToken>>
        PROVE  Proposals' /\ KeepsOwn
    BY <1>0, <1>1, QuietProposals DEF Proposals
  <1>2. CASE UNCHANGED vars
    BY <1>1, <1>2 DEF vars
  <1>3. CASE \E c \in Clients, w \in Windows : CreateChild(c, w) \/ DestroyChild(c, w)
    BY <1>1, <1>3 DEF CreateChild, DestroyChild
  <1>4. CASE Aside
    BY <1>1, <1>4, AsideKeeps DEF coordination
  <1>5. CASE \E c \in Clients \cup {Internal}, kind \in Kinds, w \in Windows, sent \in Handed :
                \E touched \in Touches(kind) : Request(c, kind, w, touched, sent)
    BY <1>5, RequestProposals
  <1>6. CASE \E c \in Clients, sent \in Handed : Disconnect(c, sent)
    BY <1>6, DisconnectProposals
  <1>7. CASE \/ \E sent \in SendResults :
                    \/ PolicyAccepted(sent) \/ PolicyRejected(sent) \/ PolicyUnusable(sent)
                    \/ CompositorAccepted(sent) \/ CompositorRejected(sent)
                    \/ FrameAccepted(sent) \/ OutputEnds(sent)
             \/ \E sent \in Handed : LeaveTool(sent)
    BY <1>7, AnswerProposals, HandedProperties DEF SendResults
  <1> QED
    BY <1>2, <1>3, <1>4, <1>5, <1>6, <1>7 DEF Next, Aside

LEMMA InitProposals == Init => Proposals
  <1> SUFFICES ASSUME Init PROVE Proposals
    OBVIOUS
  <1>1. Stamped(committed, nextToken)
    BY DEF Init, Stamped, Existing
  <1>2. Stamped(evaluated, nextToken)
    BY StampedResults DEF Init
  <1> QED
    BY <1>1, <1>2 DEF Init, Proposals

\* When a queued operation is started, its rebased proposal carries every
\* field group it asked for, but for the raise of an interactive press
\* (RebaseKeepsOwnRequest, start_next and rebase_lifecycle_operation).
THEOREM RebaseKeepsRequests == Spec => RebaseKeepsOwnRequest
  <1>1. Agreement /\ Accounting /\ Proposals /\ [Next]_vars => Proposals' /\ KeepsOwn
    BY NextProposals
  <1>2. KeepsOwn => [KeepsOwn]_vars
    OBVIOUS
  <1>3. Spec => [][KeepsOwn]_vars
    BY <1>1, <1>2, InitProposals, AgreementHolds, AccountsBalance, PTL DEF Spec
  <1> QED
    BY <1>3, PTL DEF RebaseKeepsOwnRequest, KeepsOwn
=============================================================================
