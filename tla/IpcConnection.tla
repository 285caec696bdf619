---------------------------- MODULE IpcConnection ----------------------------
(***************************************************************************)
(* libgwipc: the two ends of one connection (src/src/ipc).  A client       *)
(* connects, the two ends negotiate (hello, welcome or reject), and then   *)
(* exchange sequenced records: requests that must be answered, replies,    *)
(* snapshots and plain messages.  Both ends run the library; the kernel    *)
(* carries the records in order through a buffer of bounded size, and an   *)
(* application may destroy its end at any time.                            *)
(*                                                                         *)
(* conn[e] is the gwipc_connection structure of end e; the operators on it *)
(* are the library's functions.  Payloads are reduced to what validation   *)
(* looks at: a kind, an identity, an item count and a size.  The requests  *)
(* with an acknowledgement of their own (frame and policy commits,         *)
(* synthetic input, session states, output queries and configurations)     *)
(* are treated alike by the code; RequestKinds holds one for each rule     *)
(* that tells them apart.                                                  *)
(***************************************************************************)
EXTENDS Integers, Sequences, SequencesExt, FiniteSets

CONSTANTS
  ClientConfigs,      \* configurations a client may connect with
  ServerConfigs,      \* configurations the listener may have
  SocketCapacity,     \* records the kernel holds in one direction
  MaxMessages,        \* bound: messages each application sends
  Vocabulary          \* the kinds of message each application sends

\* validate_config, of a configuration in which listener_config or client_config
\* has put the defaults where the caller left a zero.
ValidConfig(c) ==
  /\ c.role # "UNKNOWN" /\ c.peer_roles # {}
  /\ c.maximum_payload \in Nat \ {0} /\ c.maximum_queued_messages \in Nat \ {0}

ASSUME IpcAssumption ==
  /\ \A c \in ClientConfigs \cup ServerConfigs : ValidConfig(c)
  /\ SocketCapacity \in Nat

Ends == {"client", "server"}
Peer(e) == IF e = "client" THEN "server" ELSE "client"

RequestKinds == {"FRAME_COMMIT", "SESSION_STATE_CHANGE", "OUTPUT_STATE_QUERY"}
ReplyOf(kind) ==
  CASE kind = "FRAME_COMMIT" -> "FRAME_ACKNOWLEDGED"
    [] kind = "SESSION_STATE_CHANGE" -> "SESSION_STATE_ACKNOWLEDGED"
    [] kind = "OUTPUT_STATE_QUERY" -> "OUTPUT_CONFIGURATION_ACKNOWLEDGED"
ReplyKinds == {ReplyOf(kind) : kind \in RequestKinds}
SnapshotControl == {"SNAPSHOT_BEGIN", "SNAPSHOT_END", "SNAPSHOT_ABORT"}
Automatic == {"PING", "PONG", "PROTOCOL_ERROR", "UNKNOWN", "CRITICAL_UNKNOWN"}

VARIABLES
  conn,        \* the connection structure of each end
  wire,        \* records the kernel holds for an end
  gone,        \* the other end's descriptor is closed
  reset,       \* ... and it left records unread
  turn,        \* the events of the poll call an end is handling, if any
  accepted,    \* history: the messages an end's application enqueued
  delivered    \* history: the messages an end's application took

vars == <<conn, wire, gone, reset, turn, accepted, delivered>>

NoPeer == [capabilities |-> {}, maximum_payload |-> 0, role |-> "UNKNOWN"]
NoSnapshot == [active |-> FALSE, expected |-> 0, count |-> 0]

\* A message as an application builds it.
Message(kind, id, size, replyTo) ==
  [kind |-> kind, id |-> id, size |-> size, reply_to |-> replyTo]
Numbered(m, n) ==
  [kind |-> m.kind, id |-> m.id, size |-> m.size, reply_to |-> m.reply_to,
   sequence |-> n]

Fresh(config, st) ==
  [state |-> st, config |-> config, peer |-> NoPeer,
   close_after_flush |-> FALSE, snapshot_aborted |-> FALSE,
   next_send |-> 1, next_receive |-> 1, outgoing |-> <<>>, incoming |-> <<>>,
   pending_replies |-> {}, pending |-> {}, incoming_requests |-> {},
   last_outgoing |-> 0, last_incoming |-> 0,
   outgoing_snapshot |-> NoSnapshot, incoming_snapshot |-> NoSnapshot,
   status |-> "OK", failures |-> {}]

States == {"NOT_ACCEPTED", "CONNECTING", "AWAITING_WELCOME", "AWAITING_HELLO",
           "ESTABLISHED", "REJECTING", "CLOSING", "CLOSED"}

TypeOK ==
  /\ \A e \in Ends :
       /\ conn[e].state \in States
       /\ conn[e].next_send \in Nat \ {0} /\ conn[e].next_receive \in Nat \ {0}
       /\ Len(conn[e].outgoing) <= conn[e].config.maximum_queued_messages
       /\ Len(conn[e].incoming) <= conn[e].config.maximum_queued_messages
       /\ Len(wire[e]) <= SocketCapacity
  /\ gone \in [Ends -> BOOLEAN] /\ reset \in [Ends -> BOOLEAN]

\* connect_endpoint: a connect that does not complete at once is in progress.
AfterConnect == {"CONNECTING", "AWAITING_WELCOME"}

Init ==
  /\ \E cc \in ClientConfigs, sc \in ServerConfigs,
        st \in AfterConnect :
       conn = [e \in Ends |-> IF e = "client" THEN Fresh(cc, st)
                                              ELSE Fresh(sc, "NOT_ACCEPTED")]
  /\ wire = [e \in Ends |-> <<>>]
  /\ gone = [e \in Ends |-> FALSE]
  /\ reset = [e \in Ends |-> FALSE]
  /\ turn = [e \in Ends |-> {}]
  /\ accepted = [e \in Ends |-> <<>>]
  /\ delivered = [e \in Ends |-> <<>>]

-----------------------------------------------------------------------------
(* The connection structure *)

With(k, st) == [k EXCEPT !.status = st]

\* set_closed: the queue to the peer is dropped, received messages stay.
SetClosed(k, st) ==
  [k EXCEPT !.snapshot_aborted = @ \/ k.incoming_snapshot.active
                                   \/ k.outgoing_snapshot.active,
            !.state = "CLOSED", !.outgoing = <<>>, !.status = st]

\* The limit in force before and after negotiation.
MaximumPayload(k) == IF k.state = "ESTABLISHED" THEN k.peer.maximum_payload
                                                ELSE k.config.maximum_payload

\* queue_limit_exceeded; the byte limit acts as the message limit does.
QueueLimitExceeded(k) ==
  Len(k.outgoing) >= k.config.maximum_queued_messages

\* queue_internal: number a record and append it to the queue.
AckRequired(kind) == kind \in RequestKinds \cup {"PING"}
QueueInternal(k, m) ==
  IF m.size > MaximumPayload(k) THEN With(k, "LIMIT_EXCEEDED")
  ELSE IF \/ QueueLimitExceeded(k)
          \/ /\ AckRequired(m.kind)
             /\ Cardinality(k.pending_replies)
                  >= k.config.maximum_queued_messages
    THEN SetClosed(k, "LIMIT_EXCEEDED")
  ELSE [k EXCEPT
          !.outgoing = Append(@, Numbered(m, k.next_send)),
          !.pending_replies = IF AckRequired(m.kind) THEN @ \cup {k.next_send}
                                                     ELSE @,
          !.next_send = @ + 1, !.status = "OK"]

\* protocol_failure: tell an established peer and close once it is told.
ProtocolFailure(k, code, r, result) ==
  LET q == QueueInternal(k, Message("PROTOCOL_ERROR", 0, 1, r.sequence))
      f == [q EXCEPT !.failures = @ \cup {code}]
  IN IF k.state # "ESTABLISHED"
       THEN SetClosed([k EXCEPT !.failures = @ \cup {code}], result)
     ELSE IF q.status # "OK" THEN SetClosed(f, result)
     ELSE [f EXCEPT !.state = "CLOSING", !.close_after_flush = TRUE,
                    !.status = result]

-----------------------------------------------------------------------------
(* The handshake *)

\* queue_hello: the configuration travels with the record.
QueueHello(k) ==
  QueueInternal(k, Message("HELLO", k.config, 1, 0))

\* reject: the reason is queued and the connection closes behind it.
Reject(k, reason, result) ==
  LET q == QueueInternal(k, Message("REJECT", reason, 1, 1))
  IN IF q.status # "OK" THEN SetClosed(k, result)
     ELSE [q EXCEPT !.state = "REJECTING", !.close_after_flush = TRUE,
                    !.status = result]

RejectionStatus(reason) ==
  CASE reason = "RoleNotAllowed" -> "ROLE_REJECTED"
    [] reason = "CapabilityMismatch" -> "CAPABILITY_MISMATCH"
    [] OTHER -> "PROTOCOL_ERROR"

Least(a, b) == IF a <= b THEN a ELSE b

\* handle_hello: check the offer and answer with what both can do.
HandleHello(k, r) ==
  LET hello == r.id
      negotiated == hello.offered \cap k.config.offered
      peer == [capabilities |-> negotiated, role |-> hello.role,
               maximum_payload |-> Least(k.config.maximum_payload,
                                         hello.maximum_payload)]
      q == QueueInternal([k EXCEPT !.peer = peer],
             Message("WELCOME", [peer EXCEPT !.role = k.config.role], 1,
                     r.sequence))
  IN IF r.kind # "HELLO" THEN Reject(k, "InvalidHello", "PROTOCOL_ERROR")
     ELSE IF hello.role \notin k.config.peer_roles
       THEN Reject(k, "RoleNotAllowed", "ROLE_REJECTED")
     ELSE IF ~ (hello.required \cup k.config.required \subseteq negotiated)
       THEN Reject(k, "CapabilityMismatch", "CAPABILITY_MISMATCH")
     ELSE IF q.status = "OK" THEN [q EXCEPT !.state = "ESTABLISHED"] ELSE q

\* Mutant: the client keeps its own limit rather than the negotiated one.
HandleWelcomeOwnLimit(k, r) ==
  IF r.kind # "WELCOME" THEN SetClosed(k, "PROTOCOL_ERROR")
  ELSE [k EXCEPT !.peer = [r.id EXCEPT !.maximum_payload =
                                         k.config.maximum_payload],
                 !.state = "ESTABLISHED", !.status = "OK"]

\* handle_welcome: accept the answer only within what was offered.
HandleWelcome(k, r) ==
  IF r.kind = "REJECT" THEN SetClosed(k, RejectionStatus(r.id))
  ELSE IF r.kind # "WELCOME" THEN SetClosed(k, "PROTOCOL_ERROR")
  ELSE IF r.id.role \notin k.config.peer_roles
    THEN SetClosed(k, "ROLE_REJECTED")
  ELSE IF \/ ~ (r.id.capabilities \subseteq k.config.offered)
          \/ ~ (k.config.required \subseteq r.id.capabilities)
          \/ r.id.maximum_payload > k.config.maximum_payload
    THEN SetClosed(k, "PROTOCOL_ERROR")
  ELSE [k EXCEPT !.peer = r.id, !.pending_replies = @ \ {1},
                 !.state = "ESTABLISHED", !.status = "OK"]

-----------------------------------------------------------------------------
(* What may be sent or received once established *)

RequiredCapability(kind) ==
  CASE kind \in SnapshotControl \cup {"ITEM"} -> {"SNAPSHOTS"}
    [] kind \in {"SESSION_STATE_CHANGE", "SESSION_STATE_ACKNOWLEDGED"}
         -> {"SESSION_STATE"}
    [] OTHER -> {}

\* valid_direction: session states come from the compositor.
ValidDirection(kind, sender, receiver) ==
  CASE kind = "SESSION_STATE_CHANGE" ->
         sender = "COMPOSITOR" /\ receiver = "PROTOCOL_SERVER"
    [] kind = "SESSION_STATE_ACKNOWLEDGED" ->
         sender = "PROTOCOL_SERVER" /\ receiver = "COMPOSITOR"
    [] OTHER -> TRUE

\* validate_roles_and_capabilities: the same for the output messages.
ValidOutputRoles(kind, sender, receiver) ==
  CASE kind = "OUTPUT_STATE_QUERY" ->
         sender = "PROTOCOL_SERVER" /\ receiver = "COMPOSITOR"
    [] kind = "OUTPUT_CONFIGURATION_ACKNOWLEDGED" ->
         sender = "COMPOSITOR" /\ receiver = "PROTOCOL_SERVER"
    [] OTHER -> TRUE

\* Requests and replies that may not stand inside a snapshot.
OutsideSnapshot(kind) ==
  kind \in {"OUTPUT_STATE_QUERY", "OUTPUT_CONFIGURATION_ACKNOWLEDGED"}

\* validate_snapshot: m.id is the item count of a begin or an end; a begin
\* may leave it open (-1).
SnapshotAllows(s, m) ==
  CASE m.kind = "SNAPSHOT_BEGIN" -> ~ s.active
    [] m.kind = "SNAPSHOT_END" ->
         s.active /\ m.id = s.count /\ s.expected \in {-1, s.count}
    [] m.kind \in {"SNAPSHOT_ABORT", "ITEM"} -> s.active
    [] OTHER -> TRUE
SnapshotAfter(s, m) ==
  CASE m.kind = "SNAPSHOT_BEGIN" ->
         [active |-> TRUE, expected |-> m.id, count |-> 0]
    [] m.kind \in {"SNAPSHOT_END", "SNAPSHOT_ABORT"} -> NoSnapshot
    [] m.kind = "ITEM" -> [s EXCEPT !.count = @ + 1]
    [] OTHER -> s

\* validate_application, in its order: the status is the first rule broken.
ValidateApplication(k, m, s, sender, receiver) ==
  IF ~ (RequiredCapability(m.kind) \subseteq k.peer.capabilities)
    THEN "CAPABILITY_MISMATCH"
  ELSE IF \/ ~ ValidDirection(m.kind, sender, receiver)
          \/ ~ ValidOutputRoles(m.kind, sender, receiver)
          \/ OutsideSnapshot(m.kind) /\ s.active
          \/ ~ SnapshotAllows(s, m)
    THEN "PROTOCOL_ERROR"
  ELSE "OK"

\* Correlation entries with a given sequence, and of a given kind.
Entry(entries, n) == {x \in entries : x.sequence = n}
OfKind(entries, kind) == {x \in entries : x.kind = kind}

\* prepare_request and prepare_reply: the rules of the sender's tables.
MayPrepare(k, m) ==
  /\ m.kind \in RequestKinds =>
       Cardinality(OfKind(k.pending, m.kind))
         < k.config.maximum_queued_messages
  /\ m.kind = "SESSION_STATE_CHANGE" => m.id > k.last_outgoing
  /\ m.kind \in ReplyKinds =>
       \E x \in Entry(k.incoming_requests, m.reply_to) :
         ReplyOf(x.kind) = m.kind /\ x.id = m.id

\* commit_replies: an answered request is not answered twice.
CommitReplies(k, m) ==
  IF m.kind \in ReplyKinds
    THEN [k EXCEPT !.incoming_requests = @ \ Entry(@, m.reply_to)]
    ELSE k

\* enqueue_with_sequence: queue first, and keep the tables' changes only if
\* the record was queued.
EnqueueWithSequence(k, m) ==
  LET q == QueueInternal(k, m)
      tracked == [q EXCEPT
        !.outgoing_snapshot = SnapshotAfter(@, m),
        !.pending = IF AckRequired(m.kind)
                      THEN @ \cup {[sequence |-> k.next_send, kind |-> m.kind,
                                    id |-> m.id]}
                      ELSE @,
        !.last_outgoing = IF m.kind = "SESSION_STATE_CHANGE" THEN m.id ELSE @]
  IN IF q.status # "OK" THEN q ELSE CommitReplies(tracked, m)

-----------------------------------------------------------------------------
(* Receiving *)

\* validate_incoming_reply: a reply names an outstanding request and repeats
\* its identity; a protocol error may name any record that was sent.
ReplyExpected(k, r) ==
  CASE r.kind \in ReplyKinds \cup {"PONG"} ->
         /\ r.reply_to \in k.pending_replies
         /\ \E x \in Entry(k.pending, r.reply_to) :
              /\ x.id = r.id
              /\ r.kind = IF x.kind = "PING" THEN "PONG" ELSE ReplyOf(x.kind)
    [] r.kind = "PROTOCOL_ERROR" -> r.reply_to \in 1 .. k.next_send - 1
    [] OTHER -> TRUE
TakeReply(k, r) ==
  IF r.kind \in ReplyKinds \cup {"PONG"}
    THEN [k EXCEPT !.pending = @ \ Entry(@, r.reply_to),
                   !.pending_replies = @ \ {r.reply_to}]
  ELSE IF r.kind = "PROTOCOL_ERROR"
    THEN [k EXCEPT !.pending_replies = @ \ {r.reply_to}]
  ELSE k

\* unsupported_message: answered, and fatal only when marked critical.
UnsupportedMessage(k, r) ==
  LET q == QueueInternal(k, Message("PROTOCOL_ERROR", 0, 1, r.sequence))
  IN IF q.status # "OK" THEN SetClosed(k, q.status)
     ELSE IF r.kind = "CRITICAL_UNKNOWN"
       THEN [q EXCEPT !.state = "CLOSING", !.close_after_flush = TRUE,
                      !.status = "PROTOCOL_ERROR",
                      !.failures = @ \cup {"UnsupportedMessage"}]
     ELSE q

\* Mutant: a message that finds the queue full is dropped.
QueueReceivedDropping(k, r) ==
  IF Len(k.incoming) >= k.config.maximum_queued_messages THEN With(k, "OK")
  ELSE [k EXCEPT !.incoming = Append(@, r), !.status = "OK"]

\* track_incoming_request: a stale generation is an error of the peer, a
\* full table a limit.
Stale(k, r) == r.kind = "SESSION_STATE_CHANGE" /\ r.id <= k.last_incoming
TableFull(k, r) ==
  /\ r.kind \in RequestKinds
  /\ Cardinality(OfKind(k.incoming_requests, r.kind))
       >= k.config.maximum_queued_messages
TrackIncomingRequest(k, r) ==
  IF r.kind \in RequestKinds
    THEN [k EXCEPT !.incoming_requests = @ \cup
            {[sequence |-> r.sequence, kind |-> r.kind, id |-> r.id]}]
    ELSE k
CommitIncomingRequest(k, r) ==
  IF r.kind = "SESSION_STATE_CHANGE" THEN [k EXCEPT !.last_incoming = r.id]
                                     ELSE k

\* queue_received: a full queue is a failure of the connection, and the
\* request is not tracked.
QueueReceived(k, r) ==
  LET full == TableFull(k, r)
              \/ Len(k.incoming) >= k.config.maximum_queued_messages
      kept == [k EXCEPT !.incoming = Append(@, r), !.status = "OK"]
  IN IF Stale(k, r)
       THEN ProtocolFailure(k, "MalformedPayload", r, "PROTOCOL_ERROR")
     ELSE IF full THEN ProtocolFailure(k, "LimitExceeded", r, "LIMIT_EXCEEDED")
     ELSE CommitIncomingRequest(TrackIncomingRequest(kept, r), r)

\* supported_established_type.
Supported(kind) == kind \notin {"UNKNOWN", "CRITICAL_UNKNOWN"}

\* validate_established, and queue_received for what applications see.
ReceiveEstablished(k, r) ==
  LET taken == TakeReply(k, r)
      status == ValidateApplication(taken, r, k.incoming_snapshot,
                                    k.peer.role, k.config.role)
      code == IF status = "CAPABILITY_MISMATCH" THEN "MissingCapability"
              ELSE IF r.kind \in SnapshotControl \cup {"ITEM"}
                THEN "SnapshotViolation" ELSE "MalformedPayload"
  IN IF r.kind \in {"HELLO", "WELCOME", "REJECT"}
       THEN ProtocolFailure(k, "MalformedEnvelope", r, "PROTOCOL_ERROR")
     ELSE IF ~ ReplyExpected(k, r)
       THEN ProtocolFailure(k, "UnexpectedReply", r, "PROTOCOL_ERROR")
     ELSE IF r.kind = "PING"
       THEN QueueInternal(taken, Message("PONG", r.id, 1, r.sequence))
     ELSE IF ~ Supported(r.kind) THEN UnsupportedMessage(taken, r)
     ELSE IF status # "OK" THEN ProtocolFailure(taken, code, r, status)
     ELSE QueueReceived([taken EXCEPT
            !.incoming_snapshot = SnapshotAfter(@, r)], r)

\* receive_one, of a record that could be read: what arrives while the
\* connection closes is discarded.
Dispatch(k, r) ==
  CASE k.state = "AWAITING_HELLO" -> HandleHello(k, r)
    [] k.state = "AWAITING_WELCOME" -> HandleWelcome(k, r)
    [] k.state = "ESTABLISHED" -> ReceiveEstablished(k, r)
    [] OTHER -> With(k, "INVALID_STATE")

\* decode_record: records come in sequence and within the limit.
ReceiveOne(k, r) ==
  IF r.size > MaximumPayload(k)
    THEN ProtocolFailure(k, "LimitExceeded", r, "PROTOCOL_ERROR")
  ELSE IF r.sequence # k.next_receive
    THEN ProtocolFailure(k, "OutOfOrderSequence", r, "PROTOCOL_ERROR")
  ELSE Dispatch([k EXCEPT !.next_receive = @ + 1], r)

\* flush: move what fits; close behind the last record if that was asked.
Flush(k, e) ==
  LET room == SocketCapacity - Len(wire[Peer(e)])
      n == Least(room, Len(k.outgoing))
      rest == SubSeq(k.outgoing, n + 1, Len(k.outgoing))
  IN IF gone[e] THEN [k |-> SetClosed(k, "SYSTEM_ERROR"), sent |-> <<>>]
     ELSE [k |-> IF rest = <<>> /\ k.close_after_flush
                   THEN SetClosed([k EXCEPT !.outgoing = <<>>], k.status)
                   ELSE [k EXCEPT !.outgoing = rest],
           sent |-> SubSeq(k.outgoing, 1, n)]

\* gwipc_connection_wanted_poll_events.
MustSayHello(k) == k.state = "AWAITING_WELCOME" /\ k.next_send = 1
\* Mutant: only queued records and a pending connect ask for POLLOUT.
WantsOutQueuedOnly(k) == k.state = "CONNECTING" \/ k.outgoing # <<>>
WantsOut(k) == k.state = "CONNECTING" \/ MustSayHello(k) \/ k.outgoing # <<>>

\* External: what poll() reports of the socket for the wanted events.
Ready(e) ==
  LET k == conn[e]
      accepting == e = "server" \/ conn["server"].state # "NOT_ACCEPTED"
  IN (IF wire[e] # <<>> \/ gone[e] \/ reset[e] THEN {"in"} ELSE {})
     \cup (IF WantsOut(k) /\ (gone[e] \/ Len(wire[Peer(e)]) < SocketCapacity)
                          /\ (k.state = "CONNECTING" => accepting)
             THEN {"out"} ELSE {})
     \cup (IF gone[e] THEN {"hup"} ELSE {})

\* External: the kernel's part of a step of end e that leaves structure k,
\* takes records from its buffer and sends others.
Kernel(e, k, taken, sent) ==
  LET p == Peer(e)
      closed == k.state = "CLOSED" /\ conn[e].state # "CLOSED"
      unread == SubSeq(wire[e], taken + 1, Len(wire[e]))
  IN /\ conn' = [conn EXCEPT ![e] = k]
     /\ wire' = [wire EXCEPT ![e] = IF closed THEN <<>> ELSE unread,
                             ![p] = IF gone[e] THEN @ ELSE @ \o sent]
     /\ gone' = [gone EXCEPT ![p] = @ \/ closed]
     /\ reset' = [reset EXCEPT ![p] = @ \/ (closed /\ unread # <<>>)]

\* finish_connect, when it succeeds.
FinishConnect(k) == [k EXCEPT !.state = "AWAITING_WELCOME"]

\* process_poll_events, up to its reads: finish connecting and say hello.
BeginPoll(e) ==
  LET revents == Ready(e)
      connected == IF conn[e].state = "CONNECTING" /\ "out" \in revents
                     THEN FinishConnect(conn[e]) ELSE conn[e]
  IN /\ conn[e].state \notin {"NOT_ACCEPTED", "CLOSED"}
     /\ turn[e] = {} /\ revents # {}
     /\ turn' = [turn EXCEPT ![e] = revents]
     /\ conn' = [conn EXCEPT ![e] =
          IF MustSayHello(connected) THEN QueueHello(connected)
                                     ELSE With(connected, "OK")]
     /\ UNCHANGED <<wire, gone, reset, accepted, delivered>>

\* finish_connect, when the connection was refused or its other end belongs to
\* another user: process_poll_events stops there.
RefuseConnect(e) ==
  /\ conn[e].state = "CONNECTING" /\ turn[e] = {} /\ "out" \in Ready(e)
  /\ \E status \in {"SYSTEM_ERROR", "CREDENTIAL_REJECTED"} :
       Kernel(e, SetClosed(conn[e], status), 0, <<>>)
  /\ UNCHANGED <<turn, accepted, delivered>>

\* drain_incoming: one record, or the end of the stream, at a time, until the
\* buffer is empty or the connection is lost.
Stops(k) == k.state = "CLOSED" \/ k.status = "PROTOCOL_ERROR"
DrainIncoming(e) ==
  /\ "in" \in turn[e]
  /\ \E k \in {IF reset[e] THEN SetClosed(conn[e], "SYSTEM_ERROR")
               ELSE IF wire[e] # <<>> THEN ReceiveOne(conn[e], Head(wire[e]))
               ELSE SetClosed(conn[e], "DISCONNECTED")} :
       /\ wire[e] # <<>> \/ gone[e] \/ reset[e]
       /\ Kernel(e, k, IF reset[e] THEN Len(wire[e])
                       ELSE Least(1, Len(wire[e])), <<>>)
       /\ turn' = [turn EXCEPT ![e] = IF Stops(k) THEN @ \ {"in"} ELSE @]
  /\ UNCHANGED <<accepted, delivered>>

\* process_poll_events, after its reads: write and hang up.
EndPoll(e) ==
  LET k == conn[e]
      flushes == /\ k.outgoing # <<>>
                 /\ "out" \in turn[e] \/ k.state = "REJECTING"
      f == IF flushes THEN Flush(k, e) ELSE [k |-> k, sent |-> <<>>]
      hangsUp == /\ "hup" \in turn[e] /\ f.k.outgoing = <<>>
                 /\ f.k.state # "CLOSED"
  IN /\ turn[e] # {}
     /\ "in" \in turn[e] => wire[e] = <<>> /\ ~ gone[e] /\ ~ reset[e]
     /\ Kernel(e, IF hangsUp THEN SetClosed(f.k, "DISCONNECTED") ELSE f.k,
               0, f.sent)
     /\ turn' = [turn EXCEPT ![e] = {}]
     /\ UNCHANGED <<accepted, delivered>>

-----------------------------------------------------------------------------
(* The applications *)

\* gwipc_listener_accept: a peer of another user is turned away.
Accept(sameUser) ==
  LET k == conn["server"]
  IN /\ k.state = "NOT_ACCEPTED"
     /\ Kernel("server",
               [k EXCEPT !.state = IF sameUser THEN "AWAITING_HELLO"
                                               ELSE "CLOSED"],
               0, <<>>)
     /\ UNCHANGED <<turn, accepted, delivered>>

\* The messages the application at e may build next: replies answer requests
\* it has taken, requests and snapshots carry fresh identities.
Messages(e) ==
  LET n == Len(accepted[e]) + 1
      s == conn[e].outgoing_snapshot
  IN {m \in
     {Message("NOTE", n, size, 0) : size \in {1, 2}}
     \cup {Message(kind, n, 1, 0) : kind \in RequestKinds \cup {"PING"}}
     \cup {Message("SNAPSHOT_BEGIN", count, 1, 0) : count \in {-1, 1}}
     \cup {Message("ITEM", n, 1, 0), Message("SNAPSHOT_END", s.count, 1, 0),
           Message("SNAPSHOT_ABORT", n, 1, 0)}
     \cup {Message(ReplyOf(r.kind), r.id, 1, r.sequence) :
             r \in {x \in ToSet(delivered[e]) : x.kind \in RequestKinds}} :
     m.kind \in Vocabulary[e] \cup ReplyKinds}

\* gwipc_connection_enqueue: a message the rules refuse changes nothing.
Enqueue(e, m) ==
  LET k == conn[e]
      q == EnqueueWithSequence(k, m)
  IN /\ k.state = "ESTABLISHED" /\ turn[e] = {}
     /\ Len(accepted[e]) < MaxMessages[e]
     /\ ValidateApplication(k, m, k.outgoing_snapshot, k.config.role,
                            k.peer.role) = "OK"
     /\ MayPrepare(k, m)
     /\ q # With(k, q.status)
     /\ Kernel(e, q, 0, <<>>)
     /\ accepted' = [accepted EXCEPT ![e] = IF q.status = "OK" THEN Append(@, m)
                                                              ELSE @]
     /\ UNCHANGED <<turn, delivered>>

\* External: a later version of the library sends a type this one lacks.
EnqueueUnknown(e, kind) ==
  LET q == QueueInternal(conn[e], Message(kind, 0, 1, 0))
  IN /\ kind \in Vocabulary[e] /\ conn[e].state = "ESTABLISHED" /\ turn[e] = {}
     /\ Len(accepted[e]) < MaxMessages[e]
     /\ q.status = "OK"
     /\ Kernel(e, q, 0, <<>>)
     /\ accepted' = [accepted EXCEPT ![e] = Append(@, Message(kind, 0, 1, 0))]
     /\ UNCHANGED <<turn, delivered>>

\* gwipc_connection_receive: messages can be taken after the connection ends.
Receive(e) ==
  /\ conn[e].incoming # <<>> /\ turn[e] = {}
  /\ conn' = [conn EXCEPT ![e].incoming = Tail(@)]
  /\ delivered' = [delivered EXCEPT ![e] = Append(@, Head(conn[e].incoming))]
  /\ UNCHANGED <<wire, gone, reset, turn, accepted>>

\* gwipc_connection_destroy: the process leaves or has crashed.
Destroy(e) ==
  /\ conn[e].state \notin {"NOT_ACCEPTED", "CLOSED"}
  /\ Kernel(e, [conn[e] EXCEPT !.state = "CLOSED", !.outgoing = <<>>,
                               !.incoming = <<>>, !.status = "DESTROYED"],
            0, <<>>)
  /\ turn' = [turn EXCEPT ![e] = {}]
  /\ UNCHANGED <<accepted, delivered>>

Send(e) == \E m \in Messages(e) : Enqueue(e, m)

Next ==
  \/ \E sameUser \in BOOLEAN : Accept(sameUser)
  \/ \E e \in Ends : BeginPoll(e)
  \/ \E e \in Ends : RefuseConnect(e)
  \/ \E e \in Ends : DrainIncoming(e)
  \/ \E e \in Ends : EndPoll(e)
  \/ \E e \in Ends : Send(e)
  \/ \E e \in Ends, kind \in {"UNKNOWN", "CRITICAL_UNKNOWN"} :
       EnqueueUnknown(e, kind)
  \/ \E e \in Ends : Receive(e)
  \/ \E e \in Ends : Destroy(e)

Spec == Init /\ [][Next]_vars

\* Both programs poll for what the library wants and take what it received.
Fairness ==
  /\ WF_vars(Accept(TRUE))
  /\ \A e \in Ends : /\ WF_vars(BeginPoll(e)) /\ WF_vars(DrainIncoming(e))
                     /\ WF_vars(EndPoll(e)) /\ WF_vars(Receive(e))

FairSpec == Spec /\ Fairness

-----------------------------------------------------------------------------
(* Properties *)

\* What applications see of a sequence of records: neither the handshake nor
\* what the library answers by itself, and no sequence numbers.
Hidden == Automatic \cup {"HELLO", "WELCOME", "REJECT"}
Extended(shown, m) ==
  IF m.kind \in Hidden THEN shown
  ELSE Append(shown, Message(m.kind, m.id, m.size, m.reply_to))
Shown(s) ==
  LET shown[n \in 0 .. Len(s)] ==
        IF n = 0 THEN <<>> ELSE Extended(shown[n - 1], s[n])
  IN shown
Visible(s) == Shown(s)[Len(s)]
Seen(e) == Visible(delivered[e] \o conn[e].incoming)

\* Two ends that run the library never call each other's records wrong: the
\* tables of handle_hello and handle_welcome, of the requests in flight, of
\* the sequence numbers and of the snapshots agree, whatever is in the
\* buffers.  Only a full queue or a critical unknown type ends a connection.
PeersUnderstandEachOther ==
  /\ TypeOK
  /\ \A e \in Ends :
       /\ conn[e].failures \subseteq {"LimitExceeded", "UnsupportedMessage"}
       /\ "UnsupportedMessage" \in conn[e].failures =>
            "CRITICAL_UNKNOWN" \in Vocabulary[Peer(e)]
  /\ \A e \in Ends : conn[e].state = "ESTABLISHED" =>
       /\ conn[e].config.required \subseteq conn[e].peer.capabilities
       /\ conn[Peer(e)].state = "ESTABLISHED" =>
            /\ conn[e].peer.capabilities = conn[Peer(e)].peer.capabilities
            /\ conn[e].peer.maximum_payload = conn[Peer(e)].peer.maximum_payload
            /\ conn[e].peer.role = conn[Peer(e)].config.role

\* Messages arrive once, in order and without gaps, also when a queue was
\* full, a send was cut short or an end was closed between two of them; and
\* none is missing when both ends are open and nothing is under way.
DeliveredInOrder ==
  \A e \in Ends : conn[e].status # "DESTROYED" =>
    /\ IsPrefix(Seen(e), Visible(accepted[Peer(e)]))
    /\ (/\ \A d \in Ends : conn[d].state = "ESTABLISHED" /\ conn[d].outgoing = <<>>
        /\ wire[e] = <<>>)
       => Seen(e) = Visible(accepted[Peer(e)])

\* Nobody waits for ever in a handshake, and no queue of a living connection
\* stays full of what its peer could take.
ConnectionsSettle ==
  /\ <>[](\A e \in Ends : conn[e].state \in {"ESTABLISHED", "CLOSED"})
  /\ \A e \in Ends : []<>(wire[e] = <<>> /\ conn[e].outgoing = <<>>)

\* GWIPC_WIRE_V1 says of a connection that ends: "Disconnect reports an active
\* incoming snapshot as aborted."  An application that has seen a begin
\* without its end must find snapshot_aborted set.
Unfinished(s) ==
  \E i \in DOMAIN s :
    /\ s[i].kind = "SNAPSHOT_BEGIN"
    /\ \A j \in i + 1 .. Len(s) : s[j].kind \notin SnapshotControl
DisconnectReportsSnapshot ==
  \A e \in Ends :
    conn[e].state = "CLOSED" /\ conn[e].status # "DESTROYED" /\ Unfinished(Seen(e))
      => conn[e].snapshot_aborted
=============================================================================
