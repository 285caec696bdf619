------------------------- MODULE IpcConnectionProofs -------------------------
(***************************************************************************)
(* Proofs about a libgwipc connection, for any configurations of the two   *)
(* ends, any capacity of the socket and whatever the applications send:    *)
(* two ends that run the library never call each other's records wrong,    *)
(* and what an application sends arrives once, in order and without gaps.  *)
(***************************************************************************)
EXTENDS IpcConnection, SequenceTheorems, FiniteSetTheorems, WellFoundedInduction, TLAPS

-----------------------------------------------------------------------------
(* The types *)

Configs == ClientConfigs \cup ServerConfigs
Kinds == RequestKinds \cup ReplyKinds \cup SnapshotControl \cup Automatic
           \cup {"NOTE", "ITEM", "HELLO", "WELCOME", "REJECT"}
PeerFacts == [capabilities : SUBSET UNION {c.offered : c \in Configs},
              maximum_payload : Nat, role : {c.role : c \in Configs} \cup {"UNKNOWN"}]
Identities == Int \cup Configs \cup PeerFacts \cup {"InvalidHello", "RoleNotAllowed", "CapabilityMismatch"}
Snapshot == [active : BOOLEAN, expected : Identities, count : Nat]
Letter == {m \in [kind : Kinds, id : Identities, size : Nat, reply_to : Nat] :
             m.kind = "SESSION_STATE_CHANGE" => m.id \in Nat}
Record == {r \in [kind : Kinds, id : Identities, size : Nat, reply_to : Nat,
                  sequence : Nat \ {0}] :
             r.kind = "SESSION_STATE_CHANGE" => r.id \in Nat}
Entries == [sequence : Nat \ {0}, kind : Kinds, id : Identities]
Statuses == {"OK", "LIMIT_EXCEEDED", "PROTOCOL_ERROR", "ROLE_REJECTED", "CAPABILITY_MISMATCH",
             "INVALID_STATE", "SYSTEM_ERROR", "CREDENTIAL_REJECTED", "DISCONNECTED", "DESTROYED"}
Codes == {"LimitExceeded", "UnsupportedMessage", "MalformedEnvelope", "UnexpectedReply",
          "MissingCapability", "SnapshotViolation", "MalformedPayload", "OutOfOrderSequence"}
Connection ==
  [state : States, config : Configs, peer : PeerFacts,
   close_after_flush : BOOLEAN, snapshot_aborted : BOOLEAN,
   next_send : Nat \ {0}, next_receive : Nat \ {0}, outgoing : Seq(Record), incoming : Seq(Record),
   pending_replies : SUBSET Nat, pending : SUBSET Entries, incoming_requests : SUBSET Entries,
   last_outgoing : Nat, last_incoming : Nat,
   outgoing_snapshot : Snapshot, incoming_snapshot : Snapshot,
   status : Statuses, failures : SUBSET Codes]

Types ==
  /\ conn \in [Ends -> Connection] /\ wire \in [Ends -> Seq(Record)]
  /\ gone \in [Ends -> BOOLEAN] /\ reset \in [Ends -> BOOLEAN]
  /\ turn \in [Ends -> SUBSET {"in", "out", "hup"}]
  /\ accepted \in [Ends -> Seq(Letter)] /\ delivered \in [Ends -> Seq(Record)]

-----------------------------------------------------------------------------
(* The inductive invariant *)

Answers == ReplyKinds \cup {"PONG", "PROTOCOL_ERROR"}
AnswerTo(kind) == IF kind = "PING" THEN "PONG" ELSE ReplyOf(kind)
Opening == {"HELLO", "WELCOME", "REJECT"}

\* What the two configurations agree on.
Client == conn["client"].config
Server == conn["server"].config
Negotiated == Client.offered \cap Server.offered
Limit == Least(Server.maximum_payload, Client.maximum_payload)
Agreed(e) == [capabilities |-> Negotiated, role |-> conn[Peer(e)].config.role,
              maximum_payload |-> Limit]
Compatible == /\ Client.role \in Server.peer_roles
              /\ Client.required \cup Server.required \subseteq Negotiated

\* The records on their way to e.
Transit(e) == ToSet(wire[e]) \cup ToSet(conn[Peer(e)].outgoing)

\* e still follows the protocol.
Hearing(e) == conn[e].state \notin {"REJECTING", "CLOSING", "CLOSED"}
Early(e) == conn[e].state \in {"NOT_ACCEPTED", "CONNECTING", "AWAITING_WELCOME",
                               "AWAITING_HELLO"}
Unused(k) ==
  /\ k.next_receive = 1 /\ k.pending = {} /\ k.pending_replies = {}
  /\ k.incoming_requests = {} /\ k.last_incoming = 0 /\ k.last_outgoing = 0
  /\ k.incoming_snapshot = NoSnapshot /\ k.outgoing_snapshot = NoSnapshot

\* The room in the queues.
BoundedAt(e) ==
  /\ Len(conn[e].outgoing) <= conn[e].config.maximum_queued_messages
  /\ Len(conn[e].incoming) <= conn[e].config.maximum_queued_messages
  /\ Len(wire[e]) <= SocketCapacity
Bounded == \A e \in Ends : BoundedAt(e)

\* The states of an end, and what the socket knows of it.
StatesOf(e) == IF e = "client" THEN States \ {"NOT_ACCEPTED", "AWAITING_HELLO", "REJECTING"}
                               ELSE States \ {"CONNECTING", "AWAITING_WELCOME"}
StageOf(e) ==
  /\ conn[e].state \in StatesOf(e)
  /\ conn[e].state = "CLOSED" => wire[e] = <<>> /\ conn[e].outgoing = <<>>
  /\ turn[e] # {} => conn[e].state # "NOT_ACCEPTED"
  /\ "in" \in turn[e] => conn[e].state # "CLOSED"
  /\ Early(e) =>
       /\ Unused(conn[e])
       /\ \/ conn[e].next_send = 1
          \/ conn[e].state = "AWAITING_WELCOME" /\ conn[e].next_send = 2
  /\ e = "server" /\ conn[e].next_receive = 1 => conn[e].next_send = 1
  /\ conn[e].state \in {"ESTABLISHED", "REJECTING", "CLOSING"} =>
       conn[e].next_receive >= 2 /\ conn[e].next_send >= 2
  /\ conn[e].state = "ESTABLISHED" => conn[e].peer = Agreed(e) /\ Compatible
Stages == \A e \in Ends :
  StageOf(e) /\ (gone[e] <=> conn[Peer(e)].state = "CLOSED")

\* Records are numbered without gaps.
OrderOf(e) ==
  LET k == conn[e]
      o == conn[Peer(e)]
  IN  /\ \A i \in 1 .. Len(k.outgoing) :
           k.outgoing[i].sequence = k.next_send - Len(k.outgoing) + i - 1
      /\ \A i \in 1 .. Len(wire[e]) : wire[e][i].sequence = k.next_receive + i - 1
      /\ k.next_receive + Len(wire[e]) + Len(o.outgoing) <= o.next_send
      /\ k.state # "CLOSED" /\ o.state # "CLOSED" =>
           k.next_receive + Len(wire[e]) + Len(o.outgoing) = o.next_send
Order == \A e \in Ends : OrderOf(e)

\* Every record is one that its receiver may be sent.
LegalRecord(e, r) ==
  /\ r.kind \in Opening <=> r.sequence = 1
  /\ r.kind \in Opening => r.size = 1
  /\ r.kind = "HELLO" => e = "server" /\ r.id = Client
  /\ r.kind \in {"WELCOME", "REJECT"} => e = "client"
  /\ r.kind = "WELCOME" => Compatible /\ r.id = Agreed("client")
  /\ r.kind \notin Opening =>
       /\ r.size <= Limit
       /\ RequiredCapability(r.kind) \subseteq Negotiated
       /\ ValidDirection(r.kind, conn[Peer(e)].config.role, conn[e].config.role)
       /\ ValidOutputRoles(r.kind, conn[Peer(e)].config.role, conn[e].config.role)
  /\ r.kind = "CRITICAL_UNKNOWN" => r.kind \in Vocabulary[Peer(e)]
Legal == \A e \in Ends : conn[e].state # "CLOSED" => \A r \in Transit(e) : LegalRecord(e, r)

\* The requests a sender waits for, those its peer may still answer, and the
\* answers on their way belong together.
EntryOf(r) == [sequence |-> r.sequence, kind |-> r.kind, id |-> r.id]
Remembered(e) == \A r \in Transit(Peer(e)) :
  AckRequired(r.kind) =>
    r.sequence \in conn[e].pending_replies /\ EntryOf(r) \in conn[e].pending
Answerable(e) == \A x \in conn[Peer(e)].incoming_requests :
  /\ x.sequence < conn[Peer(e)].next_receive
  /\ x.sequence \in conn[e].pending_replies /\ x \in conn[e].pending
  /\ x.kind \in RequestKinds
  /\ \A r \in Transit(e) : r.kind \in Answers => r.reply_to # x.sequence
Answering(e) == \A r \in Transit(e) : r.kind \in Answers =>
  /\ r.reply_to \in 1 .. conn[Peer(e)].next_receive - 1
  /\ \A s \in Transit(e) : s.kind \in Answers /\ s.reply_to = r.reply_to => s = r
  /\ r.kind # "PROTOCOL_ERROR" =>
       /\ r.reply_to \in conn[e].pending_replies
       /\ \E x \in conn[e].pending :
            x.sequence = r.reply_to /\ x.id = r.id /\ r.kind = AnswerTo(x.kind)
Correlated == \A e \in Ends : Hearing(e) =>
  Remembered(e) /\ (Hearing(Peer(e)) => Answerable(e)) /\ Answering(e)

\* Session states have growing generations.
GenerationsOf(e) ==
  LET o == conn[Peer(e)]
  IN  /\ conn[e].last_incoming <= o.last_outgoing
      /\ \A r \in Transit(e) : r.kind = "SESSION_STATE_CHANGE" =>
           /\ conn[e].last_incoming < r.id /\ r.id <= o.last_outgoing
           /\ \A s \in Transit(e) :
                s.kind = "SESSION_STATE_CHANGE" /\ r.sequence < s.sequence => r.id < s.id
Generations == \A e \in Ends : Hearing(e) => GenerationsOf(e)

\* The receiver's view of a snapshot is the sender's when the record it reads
\* next was sent: h gives the view after each record.
Fits(s, r) == SnapshotAllows(s, r) /\ (OutsideSnapshot(r.kind) => ~ s.active)
Follows(e, h) ==
  LET k == conn[e]
      o == conn[Peer(e)]
  IN  /\ h[k.next_receive - 1] = k.incoming_snapshot
      /\ o.state # "CLOSED" => h[o.next_send - 1] = o.outgoing_snapshot
      /\ \A r \in Transit(e) :
           /\ h[r.sequence] = SnapshotAfter(h[r.sequence - 1], r)
           /\ Fits(h[r.sequence - 1], r)
Chained == \A e \in Ends : Hearing(e) => \E h \in [Nat -> Snapshot] : Follows(e, h)

FailuresOf(e) ==
  /\ conn[e].failures \subseteq {"LimitExceeded", "UnsupportedMessage"}
  /\ "UnsupportedMessage" \in conn[e].failures => "CRITICAL_UNKNOWN" \in Vocabulary[Peer(e)]
Failures == \A e \in Ends : FailuresOf(e)

Inductive ==
  /\ Types /\ Bounded /\ Stages /\ Order /\ Legal /\ Correlated /\ Generations
  /\ Chained /\ Failures

-----------------------------------------------------------------------------
(* The operators on a connection *)

SameTables(k, q) ==
    /\ q.pending = k.pending /\ q.pending_replies = k.pending_replies
    /\ q.incoming_requests = k.incoming_requests
    /\ q.last_outgoing = k.last_outgoing /\ q.last_incoming = k.last_incoming
    /\ q.outgoing_snapshot = k.outgoing_snapshot /\ q.incoming_snapshot = k.incoming_snapshot

\* All but the status.
Same(k, q) ==
    /\ q \in Connection /\ q.state = k.state /\ q.config = k.config /\ q.peer = k.peer
    /\ q.next_send = k.next_send /\ q.next_receive = k.next_receive
    /\ q.outgoing = k.outgoing /\ q.incoming = k.incoming /\ q.failures = k.failures
    /\ SameTables(k, q)

\* A closed connection: what it had queued is gone.
Ended(k, q) ==
    /\ q \in Connection /\ q.state = "CLOSED" /\ q.outgoing = <<>> /\ q.config = k.config
    /\ q.next_send = k.next_send /\ q.next_receive = k.next_receive
    /\ q.incoming \in {k.incoming, <<>>} /\ q.last_outgoing = k.last_outgoing

\* One more record in the queue to the peer.
Queued(k, q, r) ==
    /\ q \in Connection /\ q.config = k.config /\ q.peer = k.peer
    /\ r \in Record /\ r.sequence = k.next_send
    /\ q.outgoing = Append(k.outgoing, r) /\ q.next_send = k.next_send + 1
    /\ Len(k.outgoing) < k.config.maximum_queued_messages
    /\ q.next_receive = k.next_receive /\ q.incoming = k.incoming

\* validate_config gives every limit a value above zero.
LEMMA ConfigFacts ==
    ASSUME NEW k \in Connection
    PROVE  /\ k.config.maximum_queued_messages \in Nat \ {0}
           /\ k.config.maximum_payload \in Nat \ {0}
           /\ k.peer.maximum_payload \in Nat /\ MaximumPayload(k) \in Nat
  <1>1. k.config \in Configs /\ k.peer \in PeerFacts
    BY DEF Connection
  <1> QED
    BY <1>1, IpcAssumption DEF ValidConfig, Configs, PeerFacts, MaximumPayload

\* A refused call changes the status alone.
LEMMA WithFacts ==
    ASSUME NEW k \in Connection, NEW st \in Statuses
    PROVE  Same(k, With(k, st)) /\ With(k, st).status = st
  BY DEF With, Same, SameTables, Connection

\* set_closed drops what was queued and keeps counters and received messages.
LEMMA SetClosedFacts ==
    ASSUME NEW k \in Connection, NEW st \in Statuses
    PROVE  /\ Ended(k, SetClosed(k, st)) /\ SetClosed(k, st).status = st
           /\ SetClosed(k, st).failures = k.failures
           /\ SetClosed(k, st).incoming = k.incoming
  <1>1. "CLOSED" \in States /\ <<>> \in Seq(Record)
    BY EmptySeq DEF States
  <1>2. k.snapshot_aborted \/ k.incoming_snapshot.active \/ k.outgoing_snapshot.active \in BOOLEAN
    BY DEF Connection, Snapshot
  <1> QED
    BY <1>1, <1>2 DEF SetClosed, Ended, Connection

\* queue_internal refuses a record that is too large, closes a connection whose
\* queue or table is full, or appends the next number.
LEMMA QueueFacts ==
    ASSUME NEW k \in Connection, NEW m \in Letter
    PROVE  LET q == QueueInternal(k, m)
               r == Numbered(m, k.next_send)
           IN  \/ /\ q.status # "OK" /\ Same(k, q) /\ m.size > MaximumPayload(k)
               \/ /\ q.status # "OK" /\ Ended(k, q) /\ q.failures = k.failures
                  /\ q.incoming = k.incoming
                  /\ AckRequired(m.kind) \/ QueueLimitExceeded(k)
               \/ /\ q.status = "OK" /\ Queued(k, q, r) /\ m.size <= MaximumPayload(k)
                  /\ q.state = k.state /\ q.failures = k.failures
                  /\ q.pending_replies = IF AckRequired(m.kind)
                                         THEN k.pending_replies \cup {k.next_send}
                                         ELSE k.pending_replies
                  /\ q.pending = k.pending /\ q.incoming_requests = k.incoming_requests
                  /\ q.last_outgoing = k.last_outgoing /\ q.last_incoming = k.last_incoming
                  /\ q.outgoing_snapshot = k.outgoing_snapshot
                  /\ q.incoming_snapshot = k.incoming_snapshot
  <1> DEFINE q == QueueInternal(k, m)
             r == Numbered(m, k.next_send)
             kept == IF AckRequired(m.kind) THEN k.pending_replies \cup {k.next_send}
                     ELSE k.pending_replies
             n == [k EXCEPT !.outgoing = Append(k.outgoing, r), !.pending_replies = kept,
                            !.next_send = k.next_send + 1, !.status = "OK"]
  <1>0. k.next_send \in Nat \ {0} /\ k.outgoing \in Seq(Record) /\ k.pending_replies \in SUBSET Nat
        /\ m.size \in Nat
    BY DEF Connection, Letter
  <1>1. r \in Record /\ r.sequence = k.next_send
    <2>1. /\ r.kind = m.kind /\ r.id = m.id
          /\ r \in [kind : Kinds, id : Identities, size : Nat, reply_to : Nat,
                    sequence : Nat \ {0}]
      BY <1>0 DEF Numbered, Letter
    <2> QED
      BY <2>1 DEF Numbered, Letter, Record
  <1>2. Append(k.outgoing, r) \in Seq(Record) /\ kept \in SUBSET Nat /\ k.next_send + 1 \in Nat \ {0}
    BY <1>0, <1>1, AppendProperties
  <1>3. MaximumPayload(k) \in Nat /\ k.config.maximum_queued_messages \in Nat
        /\ Len(k.outgoing) \in Nat
    BY <1>0, ConfigFacts, LenProperties
  <1>4. CASE m.size > MaximumPayload(k)
    <2>1. q = With(k, "LIMIT_EXCEEDED")
      BY <1>4 DEF QueueInternal
    <2> QED
      BY <2>1, <1>4, WithFacts DEF Statuses
  <1>5. CASE /\ ~(m.size > MaximumPayload(k))
             /\ \/ QueueLimitExceeded(k)
                \/ /\ AckRequired(m.kind)
                   /\ Cardinality(k.pending_replies) >= k.config.maximum_queued_messages
    <2>1. q = SetClosed(k, "LIMIT_EXCEEDED")
      BY <1>5 DEF QueueInternal
    <2> QED
      BY <2>1, <1>5, SetClosedFacts DEF Statuses
  <1>6. CASE /\ ~(m.size > MaximumPayload(k))
             /\ ~(\/ QueueLimitExceeded(k)
                  \/ /\ AckRequired(m.kind)
                     /\ Cardinality(k.pending_replies) >= k.config.maximum_queued_messages)
    <2>1. q = n
      BY <1>6 DEF QueueInternal
    <2>2. Len(k.outgoing) < k.config.maximum_queued_messages
      BY <1>3, <1>6 DEF QueueLimitExceeded
    <2>3. n \in Connection
      BY <1>2 DEF Connection, Statuses
    <2>4. m.size <= MaximumPayload(k)
      BY <1>0, <1>3, <1>6
    <2> HIDE DEF r, kept
    <2>5. /\ n.outgoing = Append(k.outgoing, r) /\ n.next_send = k.next_send + 1
          /\ n.pending_replies = kept /\ n.status = "OK" /\ n.config = k.config
          /\ n.peer = k.peer /\ n.state = k.state /\ n.next_receive = k.next_receive
          /\ n.incoming = k.incoming /\ n.failures = k.failures
          /\ n.pending = k.pending /\ n.incoming_requests = k.incoming_requests
          /\ n.last_outgoing = k.last_outgoing /\ n.last_incoming = k.last_incoming
          /\ n.outgoing_snapshot = k.outgoing_snapshot /\ n.incoming_snapshot = k.incoming_snapshot
      BY DEF Connection
    <2> QED
      BY <1>1, <2>1, <2>2, <2>3, <2>4, <2>5 DEF Queued, kept, r
  <1> QED
    BY <1>4, <1>5, <1>6

-----------------------------------------------------------------------------
(* The two ends and the records between them *)

\* There are two ends, each the peer of the other.
LEMMA EndFacts ==
    /\ "client" \in Ends /\ "server" \in Ends
    /\ \A e \in Ends : /\ Peer(e) \in Ends /\ Peer(Peer(e)) = e /\ Peer(e) # e
                       /\ \A d \in Ends : d = e \/ d = Peer(e)
  BY DEF Ends, Peer

\* The records of a sequence are those at its positions.
LEMMA ToSetFacts ==
    ASSUME NEW S, NEW s \in Seq(S)
    PROVE  /\ ToSet(s) \subseteq S
           /\ \A i \in 1 .. Len(s) : s[i] \in ToSet(s)
           /\ \A r \in ToSet(s) : \E i \in 1 .. Len(s) : r = s[i]
           /\ s = <<>> => ToSet(s) = {}
  <1>1. DOMAIN s = 1 .. Len(s) /\ \A i \in 1 .. Len(s) : s[i] \in S
    BY LenProperties, ElementOfSeq
  <1>2. Len(s) = 0 => 1 .. Len(s) = {}
    OBVIOUS
  <1> QED
    BY <1>1, <1>2, LenProperties, EmptySeq DEF ToSet

\* Appending adds one record.
LEMMA ToSetOfAppend ==
    ASSUME NEW S, NEW s \in Seq(S), NEW r \in S
    PROVE  Append(s, r) \in Seq(S) /\ ToSet(Append(s, r)) = ToSet(s) \cup {r}
  <1> DEFINE a == Append(s, r)
  <1>1. /\ a \in Seq(S) /\ Len(a) = Len(s) + 1 /\ a[Len(s) + 1] = r
        /\ \A i \in 1 .. Len(s) : a[i] = s[i]
    BY AppendProperties
  <1>2. Len(s) \in Nat
    BY LenProperties
  <1> HIDE DEF a
  <1>3. ASSUME NEW x \in ToSet(a)  PROVE x \in ToSet(s) \cup {r}
    <2>1. PICK i \in 1 .. Len(a) : x = a[i]
      BY <1>1, ToSetFacts
    <2>2. CASE i = Len(s) + 1
      BY <2>1, <2>2, <1>1
    <2>3. CASE i # Len(s) + 1
      <3>1. i \in 1 .. Len(s)
        BY <2>1, <2>3, <1>1, <1>2
      <3> QED
        BY <2>1, <3>1, <1>1, ToSetFacts
    <2> QED
      BY <2>2, <2>3
  <1>4. ASSUME NEW x \in ToSet(s) \cup {r}  PROVE x \in ToSet(a)
    <2>1. CASE x = r
      <3>1. Len(s) + 1 \in 1 .. Len(a)
        BY <1>1, <1>2
      <3> QED
        BY <2>1, <3>1, <1>1, ToSetFacts
    <2>2. CASE x \in ToSet(s)
      <3>1. PICK i \in 1 .. Len(s) : x = s[i]
        BY <2>2, ToSetFacts
      <3>2. i \in 1 .. Len(a)
        BY <3>1, <1>1, <1>2
      <3> QED
        BY <3>1, <3>2, <1>1, ToSetFacts
    <2> QED
      BY <2>1, <2>2
  <1> QED
    BY <1>1, <1>3, <1>4 DEF a

\* Putting two sequences together adds no record.
LEMMA ToSetOfConcatenation ==
    ASSUME NEW S, NEW s \in Seq(S), NEW t \in Seq(S)
    PROVE  s \o t \in Seq(S) /\ ToSet(s \o t) \subseteq ToSet(s) \cup ToSet(t)
  <1>1. /\ s \o t \in Seq(S) /\ Len(s \o t) = Len(s) + Len(t)
        /\ \A i \in 1 .. Len(s) + Len(t) :
             (s \o t)[i] = IF i <= Len(s) THEN s[i] ELSE t[i - Len(s)]
    BY ConcatProperties
  <1>2. Len(s) \in Nat /\ Len(t) \in Nat
    BY LenProperties
  <1>3. ASSUME NEW x \in ToSet(s \o t)  PROVE x \in ToSet(s) \cup ToSet(t)
    <2>1. PICK i \in 1 .. Len(s) + Len(t) : x = (s \o t)[i]
      BY <1>1, ToSetFacts
    <2>2. CASE i <= Len(s)
      <3>1. i \in 1 .. Len(s) /\ x = s[i]
        BY <2>1, <2>2, <1>1, <1>2
      <3> QED
        BY <3>1, ToSetFacts
    <2>3. CASE ~ (i <= Len(s))
      <3>1. i - Len(s) \in 1 .. Len(t) /\ x = t[i - Len(s)]
        BY <2>1, <2>3, <1>1, <1>2
      <3> QED
        BY <3>1, ToSetFacts
    <2> QED
      BY <2>2, <2>3
  <1> QED
    BY <1>1, <1>3

\* What an end expects has been numbered, or is the next to be.
LEMMA Advance ==
    ASSUME Types, Order, NEW e \in Ends
    PROVE  conn[e].next_receive <= conn[Peer(e)].next_send
  <1>1. wire[e] \in Seq(Record) /\ conn[Peer(e)].outgoing \in Seq(Record)
        /\ conn[e].next_receive \in Nat /\ conn[Peer(e)].next_send \in Nat
    BY EndFacts DEF Types, Connection
  <1>2. Len(wire[e]) \in Nat /\ Len(conn[Peer(e)].outgoing) \in Nat
    BY <1>1, LenProperties
  <1> QED
    BY <1>1, <1>2 DEF Order, OrderOf

\* The records on their way to an end lie between what it has read and what was
\* sent, and the sequence number tells them apart.
LEMMA Positions ==
    ASSUME Types, Order, NEW e \in Ends
    PROVE  /\ \A r \in Transit(e) : /\ r \in Record
                                    /\ conn[e].next_receive <= r.sequence
                                    /\ r.sequence <= conn[Peer(e)].next_send - 1
           /\ \A r, s \in Transit(e) : r.sequence = s.sequence => r = s
  <1> DEFINE k == conn[e]
             o == conn[Peer(e)]
             w == wire[e]
             g == o.outgoing
  <1>1. /\ k \in Connection /\ o \in Connection /\ w \in Seq(Record)
        /\ Peer(e) \in Ends
    BY EndFacts DEF Types
  <1>2. /\ g \in Seq(Record) /\ k.next_receive \in Nat /\ o.next_send \in Nat
        /\ Len(w) \in Nat /\ Len(g) \in Nat
    BY <1>1, LenProperties DEF Connection
  <1>3. /\ \A i \in 1 .. Len(w) : w[i].sequence = k.next_receive + i - 1
        /\ k.next_receive + Len(w) + Len(g) <= o.next_send
        /\ \A i \in 1 .. Len(g) : g[i].sequence = o.next_send - Len(g) + i - 1
    BY <1>1 DEF Order, OrderOf
  <1>4. ASSUME NEW i \in 1 .. Len(g)
        PROVE  k.next_receive + Len(w) <= g[i].sequence /\ g[i].sequence <= o.next_send - 1
    <2> HIDE DEF k, o, w, g
    <2>1. g[i].sequence = o.next_send - Len(g) + i - 1
      BY <1>3
    <2> QED
      BY <2>1, <1>2, <1>3
  <1>5. \A r \in Transit(e) : \/ \E i \in 1 .. Len(w) : r = w[i]
                              \/ \E i \in 1 .. Len(g) : r = g[i]
    BY <1>1, <1>2, ToSetFacts DEF Transit
  <1>6. Transit(e) \subseteq Record
    BY <1>1, <1>2, ToSetFacts DEF Transit
  <1> HIDE DEF k, o, w, g
  <1>7. ASSUME NEW r \in Transit(e)
        PROVE  k.next_receive <= r.sequence /\ r.sequence <= o.next_send - 1
    <2>1. CASE \E i \in 1 .. Len(w) : r = w[i]
      <3>1. PICK i \in 1 .. Len(w) : r = w[i]
        BY <2>1
      <3>2. r.sequence = k.next_receive + i - 1
        BY <3>1, <1>3
      <3> QED
        BY <3>2, <1>2, <1>3
    <2>2. CASE \E i \in 1 .. Len(g) : r = g[i]
      <3>1. PICK i \in 1 .. Len(g) : r = g[i]
        BY <2>2
      <3>2. k.next_receive + Len(w) <= r.sequence /\ r.sequence <= o.next_send - 1
        BY <3>1, <1>4
      <3>3. r.sequence \in Nat
        BY <1>6 DEF Record
      <3> QED
        BY <3>2, <3>3, <1>2
    <2> QED
      BY <2>1, <2>2, <1>5
  <1>8. ASSUME NEW r \in Transit(e), NEW s \in Transit(e), r.sequence = s.sequence
        PROVE  r = s
    <2>1. CASE \E i \in 1 .. Len(w) : r = w[i]
      <3>1. PICK i \in 1 .. Len(w) : r = w[i]
        BY <2>1
      <3>2. CASE \E j \in 1 .. Len(w) : s = w[j]
        <4>1. PICK j \in 1 .. Len(w) : s = w[j]
          BY <3>2
        <4>2. i = j
          BY <3>1, <4>1, <1>8, <1>2, <1>3
        <4> QED
          BY <3>1, <4>1, <4>2
      <3>3. CASE \E j \in 1 .. Len(g) : s = g[j]
        BY <3>1, <3>3, <1>8, <1>2, <1>3, <1>4
      <3> QED
        BY <3>2, <3>3, <1>5
    <2>2. CASE \E i \in 1 .. Len(g) : r = g[i]
      <3>1. PICK i \in 1 .. Len(g) : r = g[i]
        BY <2>2
      <3>2. CASE \E j \in 1 .. Len(g) : s = g[j]
        <4>1. PICK j \in 1 .. Len(g) : s = g[j]
          BY <3>2
        <4>2. o.next_send - Len(g) + i - 1 = o.next_send - Len(g) + j - 1
          BY <3>1, <4>1, <1>8, <1>3
        <4>3. i = j
          BY <4>2, <1>2
        <4> QED
          BY <3>1, <4>1, <4>3
      <3>3. CASE \E j \in 1 .. Len(w) : s = w[j]
        BY <3>1, <3>3, <1>8, <1>2, <1>3, <1>4
      <3> QED
        BY <3>2, <3>3, <1>5
    <2> QED
      BY <2>1, <2>2, <1>5
  <1> QED
    BY <1>6, <1>7, <1>8 DEF k, o

-----------------------------------------------------------------------------
(* What one step of an end does to the records between the ends: it takes   *)
(* those in T, none or the next it expects, and queues those in N, none or  *)
(* one with its next number.                                                *)

Moves(e, T, N) ==
    LET p == Peer(e)
        k == conn[e]
        q == conn'[e]
    IN  /\ conn'[p] = conn[p] /\ q.config = k.config
        /\ Transit(e)' \subseteq Transit(e) \ T
        /\ Transit(p)' \subseteq Transit(p) \cup N
        /\ q.state # "CLOSED" => k.state # "CLOSED"
        /\ q.state = "CLOSED" => N = {}
        /\ T \subseteq Transit(e)
        /\ \A t \in T : t.sequence = k.next_receive /\ q.next_receive = k.next_receive + 1
        /\ k.next_receive <= q.next_receive
        /\ T = {} /\ q.state # "CLOSED" => q.next_receive = k.next_receive
        /\ N \subseteq Record
        /\ \A r \in N : r.sequence = k.next_send /\ q.next_send = k.next_send + 1
        /\ \A r, s \in N : r = s
        /\ N = {} /\ q.state # "CLOSED" => q.next_send = k.next_send

\* What the configurations agree on never changes.
LEMMA Agreement ==
    ASSUME NEW e \in Ends, conn'[Peer(e)] = conn[Peer(e)], conn'[e].config = conn[e].config
    PROVE  /\ Client' = Client /\ Server' = Server /\ Negotiated' = Negotiated
           /\ Limit' = Limit /\ Compatible' = Compatible
           /\ \A d \in Ends : Agreed(d)' = Agreed(d)
           /\ \A d \in Ends : conn'[d].config = conn[d].config
  <1>1. \A d \in Ends : conn'[d].config = conn[d].config
    BY EndFacts
  <1>2. Client' = Client /\ Server' = Server
    BY <1>1, EndFacts DEF Client, Server
  <1>3. Negotiated' = Negotiated /\ Limit' = Limit /\ Compatible' = Compatible
    BY <1>2 DEF Negotiated, Limit, Compatible
  <1>4. \A d \in Ends : Agreed(d)' = Agreed(d)
    BY <1>1, <1>3, EndFacts DEF Agreed
  <1> QED
    BY <1>1, <1>2, <1>3, <1>4

\* Records stay legal when the added ones are.
LEMMA LegalStep ==
    ASSUME Legal, NEW e \in Ends, NEW T, NEW N, Moves(e, T, N),
           \A r \in N : LegalRecord(Peer(e), r)
    PROVE  Legal'
  <1>1. \A d \in Ends : conn'[d].config = conn[d].config
    BY Agreement DEF Moves
  <1>2. \A d \in Ends : \A r : LegalRecord(d, r) => LegalRecord(d, r)'
    <2> SUFFICES ASSUME NEW d \in Ends, NEW r, LegalRecord(d, r) PROVE LegalRecord(d, r)'
      OBVIOUS
    <2>1. /\ Client' = Client /\ Negotiated' = Negotiated /\ Limit' = Limit
          /\ Compatible' = Compatible /\ Agreed("client")' = Agreed("client")
      BY Agreement, EndFacts DEF Moves
    <2>2. conn'[Peer(d)].config = conn[Peer(d)].config /\ conn'[d].config = conn[d].config
      BY <1>1, EndFacts
    <2> QED
      BY <2>1, <2>2 DEF LegalRecord
  <1>3. conn'[e].state # "CLOSED" => \A r \in Transit(e)' : LegalRecord(e, r)
    BY DEF Moves, Legal
  <1>4. conn'[Peer(e)].state # "CLOSED" => \A r \in Transit(Peer(e))' : LegalRecord(Peer(e), r)
    BY EndFacts DEF Moves, Legal
  <1> QED
    BY <1>2, <1>3, <1>4, EndFacts DEF Legal

\* Generations keep growing when a sender adds a larger one and a receiver takes
\* the next.
LEMMA GenerationsStep ==
    ASSUME Types, Stages, Order, Generations,
           NEW e \in Ends, NEW T, NEW N, Moves(e, T, N),
           Hearing(e)' => Hearing(e),
           Hearing(e)' => \/ conn'[e].last_incoming = conn[e].last_incoming
                          \/ \E t \in T : /\ t.kind = "SESSION_STATE_CHANGE"
                                          /\ conn'[e].last_incoming = t.id,
           \/ /\ conn'[e].last_outgoing = conn[e].last_outgoing
              /\ \A r \in N : r.kind # "SESSION_STATE_CHANGE"
           \/ \E r \in N : /\ r.kind = "SESSION_STATE_CHANGE" /\ r.id > conn[e].last_outgoing
                           /\ conn'[e].last_outgoing = r.id
    PROVE  Generations'
  <1> DEFINE p == Peer(e)
  <1>0. /\ p \in Ends /\ Peer(p) = e /\ conn[e] \in Connection /\ conn[p] \in Connection
        /\ conn'[p] = conn[p]
    BY EndFacts DEF Types, Moves
  <1>1. /\ conn[e].last_incoming \in Nat /\ conn[p].last_incoming \in Nat
        /\ conn[e].last_outgoing \in Nat /\ conn[p].last_outgoing \in Nat
        /\ conn[e].next_send \in Nat /\ conn[e].next_receive \in Nat
    BY <1>0 DEF Connection
  <1>2. ASSUME Hearing(e)'  PROVE GenerationsOf(e)'
    <2>1. Hearing(e) /\ GenerationsOf(e) /\ conn[e].state # "CLOSED"
      BY <1>2 DEF Generations, Hearing
    <2>2. \A r \in Transit(e) : /\ r \in Record /\ conn[e].next_receive <= r.sequence
                                /\ r.sequence \in Nat
      BY <2>1, Positions DEF Record
    <2>3. \A r, s \in Transit(e) : r.sequence = s.sequence => r = s
      BY <2>1, Positions
    <2>4. \A r \in Transit(e) : r.kind = "SESSION_STATE_CHANGE" =>
            /\ r.id \in Nat /\ conn[e].last_incoming < r.id /\ r.id <= conn[p].last_outgoing
            /\ \A s \in Transit(e) :
                 s.kind = "SESSION_STATE_CHANGE" /\ r.sequence < s.sequence => r.id < s.id
      BY <2>1, <2>2 DEF GenerationsOf, Record
    <2>5. Transit(e)' \subseteq Transit(e) \ T /\ T \subseteq Transit(e)
          /\ \A t \in T : t.sequence = conn[e].next_receive
      BY DEF Moves
    <2>6. /\ conn'[e].last_incoming <= conn[p].last_outgoing
          /\ \A r \in Transit(e)' : r.kind = "SESSION_STATE_CHANGE" =>
               conn'[e].last_incoming < r.id
      <3>1. CASE conn'[e].last_incoming = conn[e].last_incoming
        BY <3>1, <2>1, <2>4, <2>5 DEF GenerationsOf
      <3>2. CASE \E t \in T : /\ t.kind = "SESSION_STATE_CHANGE"
                              /\ conn'[e].last_incoming = t.id
        <4>1. PICK t \in T : /\ t.kind = "SESSION_STATE_CHANGE"
                             /\ conn'[e].last_incoming = t.id
          BY <3>2
        <4>2. t \in Transit(e) /\ t.sequence = conn[e].next_receive
          BY <2>5
        <4>3. ASSUME NEW r \in Transit(e)', r.kind = "SESSION_STATE_CHANGE"
              PROVE  t.id < r.id
          <5>1. r \in Transit(e) /\ r # t
            BY <4>1, <4>3, <2>5
          <5>2. t.sequence < r.sequence
            BY <5>1, <4>2, <2>2, <2>3, <1>1
          <5> QED
            BY <5>1, <5>2, <4>1, <4>2, <4>3, <2>4
        <4> QED
          BY <4>1, <4>2, <4>3, <2>4
      <3> QED
        BY <3>1, <3>2, <1>2
    <2> QED
      BY <2>4, <2>5, <2>6, <1>0 DEF GenerationsOf
  <1>3. ASSUME Hearing(p)'  PROVE GenerationsOf(p)'
    <2>1. Hearing(p) /\ GenerationsOf(p) /\ conn[p].state # "CLOSED"
      BY <1>0, <1>3 DEF Generations, Hearing
    <2>2. \A r \in Transit(p) : /\ r \in Record /\ r.sequence <= conn[e].next_send - 1
                                /\ r.sequence \in Nat
      BY <2>1, <1>0, Positions DEF Record
    <2>3. \A r \in Transit(p) : r.kind = "SESSION_STATE_CHANGE" =>
            /\ r.id \in Nat /\ conn[p].last_incoming < r.id /\ r.id <= conn[e].last_outgoing
            /\ \A s \in Transit(p) :
                 s.kind = "SESSION_STATE_CHANGE" /\ r.sequence < s.sequence => r.id < s.id
      BY <2>1, <2>2, <1>0 DEF GenerationsOf, Record
    <2>4. /\ Transit(p)' \subseteq Transit(p) \cup N /\ N \subseteq Record
          /\ \A r \in N : r.sequence = conn[e].next_send
          /\ \A r, s \in N : r = s
      BY DEF Moves
    <2>5. conn[p].last_incoming <= conn[e].last_outgoing
      BY <2>1, <1>0 DEF GenerationsOf
    <2>6. CASE /\ conn'[e].last_outgoing = conn[e].last_outgoing
               /\ \A r \in N : r.kind # "SESSION_STATE_CHANGE"
      <3>1. \A r \in Transit(p)' : r.kind = "SESSION_STATE_CHANGE" => r \in Transit(p)
        BY <2>4, <2>6
      <3> QED
        BY <3>1, <2>3, <2>5, <2>6, <1>0 DEF GenerationsOf
    <2>7. CASE \E r \in N : /\ r.kind = "SESSION_STATE_CHANGE" /\ r.id > conn[e].last_outgoing
                            /\ conn'[e].last_outgoing = r.id
      <3>1. PICK n \in N : /\ n.kind = "SESSION_STATE_CHANGE" /\ n.id > conn[e].last_outgoing
                           /\ conn'[e].last_outgoing = n.id
        BY <2>7
      <3>2. n.id \in Nat /\ n.sequence = conn[e].next_send
        BY <3>1, <2>4 DEF Record
      <3>3. \A r \in Transit(p)' : r = n \/ r \in Transit(p)
        BY <2>4
      <3>4. conn[p].last_incoming < n.id
        BY <3>1, <3>2, <2>5, <1>1
      <3>5. ASSUME NEW r \in Transit(p)', r.kind = "SESSION_STATE_CHANGE"
            PROVE  /\ conn[p].last_incoming < r.id /\ r.id <= n.id
                   /\ \A s \in Transit(p)' :
                        s.kind = "SESSION_STATE_CHANGE" /\ r.sequence < s.sequence => r.id < s.id
        <4>1. CASE r = n
          <5>1. \A s \in Transit(p)' : ~ (r.sequence < s.sequence)
            BY <4>1, <3>2, <3>3, <2>2, <1>1
          <5> QED
            BY <4>1, <5>1, <3>2, <3>4
        <4>2. CASE r # n
          <5>1. r \in Transit(p) /\ r.id \in Nat /\ r.id < n.id /\ conn[p].last_incoming < r.id
            BY <4>2, <3>1, <3>2, <3>3, <3>5, <2>3, <1>1
          <5> QED
            BY <5>1, <3>2, <3>3, <3>5, <2>3
        <4> QED
          BY <4>1, <4>2
      <3> QED
        BY <3>1, <3>2, <3>4, <3>5, <1>0, <1>1 DEF GenerationsOf
    <2> QED
      BY <2>6, <2>7
  <1> QED
    BY <1>0, <1>2, <1>3, EndFacts DEF Generations

\* The two views of a snapshot stay on one chain when a sender adds a record that
\* fits its own view and a receiver takes the next one.
LEMMA ChainedStep ==
    ASSUME Types, Stages, Order, Chained,
           NEW e \in Ends, NEW T, NEW N, Moves(e, T, N), conn'[e] \in Connection,
           Hearing(e)' => Hearing(e),
           Hearing(e)' =>
             \/ T = {} /\ conn'[e].incoming_snapshot = conn[e].incoming_snapshot
             \/ \E t \in T : conn'[e].incoming_snapshot
                               = SnapshotAfter(conn[e].incoming_snapshot, t),
           conn'[e].state # "CLOSED" =>
             \/ N = {} /\ conn'[e].outgoing_snapshot = conn[e].outgoing_snapshot
             \/ \E r \in N : /\ conn'[e].outgoing_snapshot
                                  = SnapshotAfter(conn[e].outgoing_snapshot, r)
                             /\ Fits(conn[e].outgoing_snapshot, r)
    PROVE  Chained'
  <1> DEFINE p == Peer(e)
  <1>0. /\ p \in Ends /\ Peer(p) = e /\ conn[e] \in Connection /\ conn[p] \in Connection
        /\ conn'[p] = conn[p]
    BY EndFacts DEF Types, Moves
  <1>1. /\ conn[e].next_send \in Nat \ {0} /\ conn[e].next_receive \in Nat \ {0}
        /\ conn[p].next_send \in Nat \ {0} /\ conn[p].next_receive \in Nat \ {0}
    BY <1>0 DEF Connection
  <1>2. ASSUME Hearing(e)'  PROVE (\E h \in [Nat -> Snapshot] : Follows(e, h))'
    <2>1. Hearing(e) /\ conn'[e].state # "CLOSED"
      BY <1>2 DEF Hearing
    <2>2. PICK h \in [Nat -> Snapshot] : Follows(e, h)
      BY <2>1 DEF Chained
    <2>3. /\ h[conn[e].next_receive - 1] = conn[e].incoming_snapshot
          /\ conn[p].state # "CLOSED" => h[conn[p].next_send - 1] = conn[p].outgoing_snapshot
          /\ \A r \in Transit(e) : /\ h[r.sequence] = SnapshotAfter(h[r.sequence - 1], r)
                                   /\ Fits(h[r.sequence - 1], r)
      BY <2>2 DEF Follows
    <2>4. h[conn'[e].next_receive - 1] = conn'[e].incoming_snapshot
      <3>1. CASE T = {} /\ conn'[e].incoming_snapshot = conn[e].incoming_snapshot
        BY <3>1, <2>1, <2>3 DEF Moves
      <3>2. CASE \E t \in T : conn'[e].incoming_snapshot
                                = SnapshotAfter(conn[e].incoming_snapshot, t)
        <4>1. PICK t \in T : conn'[e].incoming_snapshot
                               = SnapshotAfter(conn[e].incoming_snapshot, t)
          BY <3>2
        <4>2. /\ t \in Transit(e) /\ t.sequence = conn[e].next_receive
              /\ conn'[e].next_receive = conn[e].next_receive + 1
          BY DEF Moves
        <4>3. conn'[e].next_receive - 1 = t.sequence
          BY <4>2, <1>1
        <4>4. h[t.sequence] = SnapshotAfter(h[t.sequence - 1], t)
          BY <4>2, <2>3
        <4> QED
          BY <4>1, <4>2, <4>3, <4>4, <2>3
      <3> QED
        BY <3>1, <3>2, <1>2
    <2>5. Transit(e)' \subseteq Transit(e)
      BY DEF Moves
    <2>6. Follows(e, h)'
      BY <2>3, <2>4, <2>5, <1>0 DEF Follows
    <2> QED
      BY <2>2, <2>6
  <1>3. ASSUME Hearing(p)'  PROVE (\E h \in [Nat -> Snapshot] : Follows(p, h))'
    <2>1. Hearing(p) /\ conn[p].state # "CLOSED"
      BY <1>0, <1>3 DEF Hearing
    <2>2. PICK h \in [Nat -> Snapshot] : Follows(p, h)
      BY <2>1, <1>0 DEF Chained
    <2>3. /\ h[conn[p].next_receive - 1] = conn[p].incoming_snapshot
          /\ conn[e].state # "CLOSED" => h[conn[e].next_send - 1] = conn[e].outgoing_snapshot
          /\ \A r \in Transit(p) : /\ h[r.sequence] = SnapshotAfter(h[r.sequence - 1], r)
                                   /\ Fits(h[r.sequence - 1], r)
      BY <2>2, <1>0 DEF Follows
    <2>4. /\ Transit(p)' \subseteq Transit(p) \cup N
          /\ conn'[e].state # "CLOSED" => conn[e].state # "CLOSED"
          /\ conn'[e].state = "CLOSED" => N = {}
          /\ N = {} /\ conn'[e].state # "CLOSED" => conn'[e].next_send = conn[e].next_send
      BY DEF Moves
    <2>5. CASE N = {}
      <3>1. conn'[e].state # "CLOSED" => h[conn'[e].next_send - 1] = conn'[e].outgoing_snapshot
        BY <2>3, <2>4, <2>5
      <3>2. Follows(p, h)'
        BY <3>1, <2>3, <2>4, <2>5, <1>0 DEF Follows
      <3> QED
        BY <2>2, <3>2
    <2>6. CASE N # {}
      <3>1. conn'[e].state # "CLOSED" /\ conn[e].state # "CLOSED"
        BY <2>4, <2>6
      <3>2. PICK n \in N : /\ conn'[e].outgoing_snapshot
                                = SnapshotAfter(conn[e].outgoing_snapshot, n)
                           /\ Fits(conn[e].outgoing_snapshot, n)
        BY <3>1, <2>6
      <3>3. /\ n.sequence = conn[e].next_send /\ conn'[e].next_send = conn[e].next_send + 1
            /\ \A r \in Transit(p)' : r = n \/ r \in Transit(p)
        BY <2>4 DEF Moves
      <3> DEFINE s == conn'[e].outgoing_snapshot
                 g == [h EXCEPT ![n.sequence] = s]
      <3>4. s \in Snapshot
        BY DEF Connection
      <3>5. g \in [Nat -> Snapshot] /\ g[n.sequence] = s
            /\ \A i \in Nat : i # n.sequence => g[i] = h[i]
        BY <3>3, <3>4, <2>2, <1>1
      <3>6. conn[p].next_receive <= conn[e].next_send
        BY <1>0, Advance
      <3> HIDE DEF s, g
      <3>7. g[conn[p].next_receive - 1] = conn[p].incoming_snapshot
        <4>1. conn[p].next_receive - 1 \in Nat /\ conn[p].next_receive - 1 # n.sequence
          BY <3>3, <3>6, <1>1
        <4> QED
          BY <4>1, <3>5, <2>3
      <3>8. g[conn'[e].next_send - 1] = s
        <4>1. conn'[e].next_send - 1 = n.sequence
          BY <3>3, <1>1
        <4> QED
          BY <4>1, <3>5
      <3>9. ASSUME NEW r \in Transit(p)'
            PROVE  /\ g[r.sequence] = SnapshotAfter(g[r.sequence - 1], r)
                   /\ Fits(g[r.sequence - 1], r)
        <4>1. CASE r = n
          <5>1. n.sequence - 1 \in Nat /\ n.sequence - 1 # n.sequence
                /\ n.sequence - 1 = conn[e].next_send - 1
            BY <3>3, <1>1
          <5>2. g[n.sequence - 1] = conn[e].outgoing_snapshot
            BY <5>1, <3>1, <3>5, <2>3
          <5> QED
            BY <4>1, <5>2, <3>2, <3>5 DEF s
        <4>2. CASE r \in Transit(p)
          <5>1. r.sequence \in Nat \ {0} /\ r.sequence <= conn[e].next_send - 1
            BY <4>2, <2>1, <1>0, Positions DEF Record
          <5>2. /\ r.sequence \in Nat /\ r.sequence - 1 \in Nat
                /\ r.sequence # n.sequence /\ r.sequence - 1 # n.sequence
            BY <5>1, <3>3, <1>1
          <5>3. g[r.sequence] = h[r.sequence] /\ g[r.sequence - 1] = h[r.sequence - 1]
            BY <5>2, <3>5
          <5> QED
            BY <5>3, <4>2, <2>3
        <4> QED
          BY <4>1, <4>2, <3>3
      <3>10. PICK f \in [Nat -> Snapshot] : f = g
        BY <3>5
      <3>11. Follows(p, f)'
        BY <3>7, <3>8, <3>9, <3>10, <1>0 DEF Follows, s
      <3> QED
        BY <3>11
    <2> QED
      BY <2>5, <2>6
  <1> QED
    BY <1>0, <1>2, <1>3, EndFacts DEF Chained

\* Requests, replies and the opening of a connection are different kinds.
LEMMA KindFacts ==
    /\ \A x \in RequestKinds : ReplyOf(x) \in ReplyKinds /\ AnswerTo(x) = ReplyOf(x)
    /\ AnswerTo("PING") = "PONG"
    /\ \A x \in RequestKinds : x # "PING" /\ x \notin Answers /\ AckRequired(x)
    /\ \A x \in Answers : ~ AckRequired(x) /\ x \notin Opening
    /\ \A x \in ReplyKinds : x # "PONG" /\ x # "PROTOCOL_ERROR" /\ x # "SESSION_STATE_CHANGE"
    /\ RequestKinds \cup ReplyKinds \subseteq Kinds
    /\ "PING" \notin Answers /\ AckRequired("PING")
  BY DEF RequestKinds, ReplyKinds, ReplyOf, AnswerTo, Answers, AckRequired, Opening, Kinds

\* The requests an end waits for may be forgotten when it takes their answers.
Forgets(e, T) ==
  /\ \A n \in conn[e].pending_replies : n \notin conn'[e].pending_replies =>
       \E t \in T : t.kind \in Answers /\ t.reply_to = n
  /\ \A x \in conn[e].pending : x \notin conn'[e].pending =>
       \E t \in T : t.kind \in Answers /\ t.reply_to = x.sequence
\* The requests it queues are remembered.
Remembers(e, N) ==
  \A r \in N : AckRequired(r.kind) =>
    r.sequence \in conn'[e].pending_replies /\ EntryOf(r) \in conn'[e].pending
\* The requests it may answer are those it has taken and not yet answered.
Owes(e, T, N) ==
  \A x \in conn'[e].incoming_requests :
    \/ /\ x \in conn[e].incoming_requests
       /\ \A r \in N : r.kind \in ReplyKinds => r.reply_to # x.sequence
    \/ N = {} /\ \E t \in T : x = EntryOf(t) /\ t.kind \in RequestKinds
\* What it answers was asked.
Replies(e, T, N) ==
  \A r \in N : r.kind \in Answers =>
    /\ Hearing(e)
    /\ \/ \E t \in T : /\ r.reply_to = t.sequence
                       /\ \/ r.kind = "PROTOCOL_ERROR"
                          \/ r.kind = "PONG" /\ t.kind = "PING" /\ r.id = t.id
       \/ /\ r.kind \in ReplyKinds
          /\ \E x \in conn[e].incoming_requests :
               r.reply_to = x.sequence /\ r.id = x.id /\ r.kind = ReplyOf(x.kind)

\* The tables stay correlated when a request is entered as it is sent, an answer
\* is for a request that was read, and an entry is dropped with its answer.
LEMMA CorrelatedStep ==
    ASSUME Types, Order, Correlated,
           NEW e \in Ends, NEW T, NEW N, Moves(e, T, N), conn'[e] \in Connection,
           Hearing(e)' => Hearing(e),
           Hearing(e)' => Forgets(e, T) /\ Remembers(e, N) /\ Owes(e, T, N),
           Replies(e, T, N)
    PROVE  Correlated'
  <1> DEFINE p == Peer(e)
  <1>0. /\ p \in Ends /\ Peer(p) = e /\ conn[e] \in Connection /\ conn[p] \in Connection
        /\ conn'[p] = conn[p]
    BY EndFacts DEF Types, Moves
  <1>1. /\ conn[e].next_send \in Nat \ {0} /\ conn[e].next_receive \in Nat \ {0}
        /\ conn[p].next_send \in Nat \ {0} /\ conn[p].next_receive \in Nat \ {0}
        /\ conn'[e].next_receive \in Nat
    BY <1>0 DEF Connection
  <1>2. /\ Transit(e)' \subseteq Transit(e) \ T /\ Transit(p)' \subseteq Transit(p) \cup N
        /\ T \subseteq Transit(e) /\ N \subseteq Record
        /\ \A t \in T : /\ t.sequence = conn[e].next_receive
                        /\ conn'[e].next_receive = conn[e].next_receive + 1
        /\ conn[e].next_receive <= conn'[e].next_receive
        /\ \A r, s \in N : r = s
    BY DEF Moves
  <1>3. ASSUME Hearing(e)'
        PROVE  Remembered(e)' /\ Answering(e)' /\ (Hearing(p)' => Answerable(e)')
    <2>1. /\ Hearing(e) /\ Remembered(e) /\ Answering(e) /\ (Hearing(p) => Answerable(e))
          /\ Forgets(e, T) /\ Remembers(e, N)
      BY <1>3 DEF Correlated
    <2>2. ASSUME NEW r \in Transit(p)', AckRequired(r.kind)
          PROVE  r.sequence \in conn'[e].pending_replies /\ EntryOf(r) \in conn'[e].pending
      <3>1. CASE r \in N
        BY <2>1, <2>2, <3>1 DEF Remembers
      <3>2. CASE r \in Transit(p)
        <4>1. r.sequence \in conn[e].pending_replies /\ EntryOf(r) \in conn[e].pending
          BY <2>1, <2>2, <3>2 DEF Remembered
        <4>2. \A t \in T : t.kind \in Answers => t.reply_to # r.sequence
          <5> SUFFICES ASSUME NEW t \in T, t.kind \in Answers, t.reply_to = r.sequence PROVE FALSE
            OBVIOUS
          <5>1. r.sequence \in 1 .. conn[p].next_receive - 1
            BY <1>2, <2>1 DEF Answering
          <5>2. conn[p].next_receive <= r.sequence
            BY <1>0, <3>2, Positions
          <5> QED
            BY <5>1, <5>2, <1>1
        <4>3. EntryOf(r).sequence = r.sequence
          BY DEF EntryOf
        <4> QED
          BY <4>1, <4>2, <4>3, <2>1 DEF Forgets
      <3> QED
        BY <3>1, <3>2, <1>2
    <2>3. ASSUME NEW r \in Transit(e)', r.kind \in Answers
          PROVE  /\ r.reply_to \in 1 .. conn[p].next_receive - 1
                 /\ \A s \in Transit(e)' : s.kind \in Answers /\ s.reply_to = r.reply_to => s = r
                 /\ r.kind # "PROTOCOL_ERROR" =>
                      /\ r.reply_to \in conn'[e].pending_replies
                      /\ \E x \in conn'[e].pending :
                           x.sequence = r.reply_to /\ x.id = r.id /\ r.kind = AnswerTo(x.kind)
      <3>1. r \in Transit(e) /\ r \notin T
        BY <1>2
      <3>2. /\ r.reply_to \in 1 .. conn[p].next_receive - 1
            /\ \A s \in Transit(e) : s.kind \in Answers /\ s.reply_to = r.reply_to => s = r
        BY <2>1, <2>3, <3>1 DEF Answering
      <3>3. \A t \in T : t.kind \in Answers => t.reply_to # r.reply_to
        BY <3>1, <3>2, <1>2
      <3>4. ASSUME r.kind # "PROTOCOL_ERROR"
            PROVE  /\ r.reply_to \in conn'[e].pending_replies
                   /\ \E x \in conn'[e].pending :
                        x.sequence = r.reply_to /\ x.id = r.id /\ r.kind = AnswerTo(x.kind)
        <4>1. /\ r.reply_to \in conn[e].pending_replies
              /\ \E x \in conn[e].pending :
                   x.sequence = r.reply_to /\ x.id = r.id /\ r.kind = AnswerTo(x.kind)
          BY <2>1, <2>3, <3>1, <3>4 DEF Answering
        <4> QED
          BY <4>1, <3>3, <2>1 DEF Forgets
      <3> QED
        BY <3>2, <3>4, <1>2
    <2>4. ASSUME Hearing(p), NEW x \in conn[p].incoming_requests
          PROVE  /\ x.sequence < conn[p].next_receive
                 /\ x.sequence \in conn'[e].pending_replies /\ x \in conn'[e].pending
                 /\ x.kind \in RequestKinds
                 /\ \A r \in Transit(e)' : r.kind \in Answers => r.reply_to # x.sequence
      <3>1. /\ x.sequence < conn[p].next_receive
            /\ x.sequence \in conn[e].pending_replies /\ x \in conn[e].pending
            /\ x.kind \in RequestKinds
            /\ \A r \in Transit(e) : r.kind \in Answers => r.reply_to # x.sequence
        BY <2>1, <2>4 DEF Answerable
      <3> QED
        BY <3>1, <2>1, <1>2 DEF Forgets
    <2>5. Remembered(e)'
      BY <2>2 DEF Remembered
    <2>6. Answering(e)'
      BY <2>3, <1>0 DEF Answering
    <2>7. Hearing(p)' => Answerable(e)'
      BY <2>4, <1>0 DEF Answerable, Hearing
    <2> QED
      BY <2>5, <2>6, <2>7
  <1>4. ASSUME Hearing(p)'
        PROVE  Remembered(p)' /\ Answering(p)' /\ (Hearing(e)' => Answerable(p)')
    <2>1. /\ Hearing(p) /\ Remembered(p) /\ Answering(p) /\ (Hearing(e) => Answerable(p))
      BY <1>4, <1>0 DEF Correlated, Hearing
    <2>2. Remembered(p)'
      BY <2>1, <1>0, <1>2 DEF Remembered
    <2>3. \A r \in Transit(p) : r.kind \in Answers =>
            /\ r.reply_to \in 1 .. conn[e].next_receive - 1
            /\ \A s \in Transit(p) : s.kind \in Answers /\ s.reply_to = r.reply_to => s = r
            /\ r.kind # "PROTOCOL_ERROR" =>
                 /\ r.reply_to \in conn[p].pending_replies
                 /\ \E x \in conn[p].pending :
                      x.sequence = r.reply_to /\ x.id = r.id /\ r.kind = AnswerTo(x.kind)
      BY <2>1, <1>0 DEF Answering
    <2>4. Hearing(e) => \A x \in conn[e].incoming_requests :
            /\ x.sequence < conn[e].next_receive /\ x.sequence \in Nat \ {0}
            /\ x.sequence \in conn[p].pending_replies /\ x \in conn[p].pending
            /\ x.kind \in RequestKinds
            /\ \A r \in Transit(p) : r.kind \in Answers => r.reply_to # x.sequence
      <3>1. conn[e].incoming_requests \subseteq Entries
        BY <1>0 DEF Connection
      <3> QED
        BY <3>1, <2>1, <1>0 DEF Answerable, Entries
    <2>5. \A t \in T : AckRequired(t.kind) =>
            t.sequence \in conn[p].pending_replies /\ EntryOf(t) \in conn[p].pending
      BY <2>1, <1>0, <1>2 DEF Remembered
    <2>6. ASSUME NEW r \in N, r.kind \in Answers
          PROVE  /\ r.reply_to \in 1 .. conn'[e].next_receive - 1
                 /\ \A s \in Transit(p) : s.kind \in Answers => s.reply_to # r.reply_to
                 /\ r.kind # "PROTOCOL_ERROR" =>
                      /\ r.reply_to \in conn[p].pending_replies
                      /\ \E x \in conn[p].pending :
                           x.sequence = r.reply_to /\ x.id = r.id /\ r.kind = AnswerTo(x.kind)
      <3>1. CASE \E t \in T : /\ r.reply_to = t.sequence
                              /\ \/ r.kind = "PROTOCOL_ERROR"
                                 \/ r.kind = "PONG" /\ t.kind = "PING" /\ r.id = t.id
        <4>1. PICK t \in T : /\ r.reply_to = t.sequence
                             /\ \/ r.kind = "PROTOCOL_ERROR"
                                \/ r.kind = "PONG" /\ t.kind = "PING" /\ r.id = t.id
          BY <3>1
        <4>2. /\ r.reply_to = conn[e].next_receive
              /\ conn'[e].next_receive = conn[e].next_receive + 1
          BY <4>1, <1>2
        <4>3. \A s \in Transit(p) : s.kind \in Answers => s.reply_to # r.reply_to
          BY <4>2, <2>3, <1>1
        <4>4. r.reply_to \in 1 .. conn'[e].next_receive - 1
          BY <4>2, <1>1
        <4>5. ASSUME r.kind # "PROTOCOL_ERROR"
              PROVE  /\ r.reply_to \in conn[p].pending_replies
                     /\ \E x \in conn[p].pending :
                          x.sequence = r.reply_to /\ x.id = r.id /\ r.kind = AnswerTo(x.kind)
          <5>1. t.sequence \in conn[p].pending_replies /\ EntryOf(t) \in conn[p].pending
            BY <4>1, <4>5, <2>5, KindFacts
          <5>2. EntryOf(t).sequence = t.sequence /\ EntryOf(t).id = t.id /\ EntryOf(t).kind = t.kind
            BY DEF EntryOf
          <5> QED
            BY <5>1, <5>2, <4>1, <4>5, KindFacts
        <4> QED
          BY <4>3, <4>4, <4>5
      <3>2. CASE /\ r.kind \in ReplyKinds /\ Hearing(e)
                 /\ \E x \in conn[e].incoming_requests :
                      r.reply_to = x.sequence /\ r.id = x.id /\ r.kind = ReplyOf(x.kind)
        <4>1. PICK x \in conn[e].incoming_requests :
                     r.reply_to = x.sequence /\ r.id = x.id /\ r.kind = ReplyOf(x.kind)
          BY <3>2
        <4>2. /\ x.sequence < conn[e].next_receive /\ x.sequence \in Nat \ {0}
              /\ x.sequence \in conn[p].pending_replies /\ x \in conn[p].pending
              /\ x.kind \in RequestKinds
              /\ \A s \in Transit(p) : s.kind \in Answers => s.reply_to # x.sequence
          BY <3>2, <2>4
        <4>3. r.reply_to \in 1 .. conn'[e].next_receive - 1
          BY <4>1, <4>2, <1>1, <1>2
        <4> QED
          BY <4>1, <4>2, <4>3, KindFacts
      <3> QED
        BY <3>1, <3>2, <2>6 DEF Replies
    <2>7. Answering(p)'
      <3>1. ASSUME NEW r \in Transit(p)', r.kind \in Answers
            PROVE  /\ r.reply_to \in 1 .. conn'[e].next_receive - 1
                   /\ \A s \in Transit(p)' : s.kind \in Answers /\ s.reply_to = r.reply_to => s = r
                   /\ r.kind # "PROTOCOL_ERROR" =>
                        /\ r.reply_to \in conn[p].pending_replies
                        /\ \E x \in conn[p].pending :
                             x.sequence = r.reply_to /\ x.id = r.id /\ r.kind = AnswerTo(x.kind)
        <4>1. CASE r \in N
          BY <4>1, <3>1, <2>6, <1>2
        <4>2. CASE r \in Transit(p)
          <5>1. r.reply_to \in 1 .. conn'[e].next_receive - 1
            BY <4>2, <3>1, <2>3, <1>1, <1>2
          <5>2. \A s \in Transit(p)' : s.kind \in Answers /\ s.reply_to = r.reply_to => s = r
            BY <4>2, <3>1, <2>3, <2>6, <1>2
          <5> QED
            BY <5>1, <5>2, <4>2, <3>1, <2>3
        <4> QED
          BY <4>1, <4>2, <1>2
      <3> QED
        BY <3>1, <1>0 DEF Answering
    <2>8. ASSUME Hearing(e)', NEW x \in conn'[e].incoming_requests
          PROVE  /\ x.sequence < conn'[e].next_receive
                 /\ x.sequence \in conn[p].pending_replies /\ x \in conn[p].pending
                 /\ x.kind \in RequestKinds
                 /\ \A r \in Transit(p)' : r.kind \in Answers => r.reply_to # x.sequence
      <3>0. Hearing(e) /\ Owes(e, T, N)
        BY <2>8
      <3>1. CASE /\ x \in conn[e].incoming_requests
                 /\ \A r \in N : r.kind \in ReplyKinds => r.reply_to # x.sequence
        <4>1. /\ x.sequence < conn[e].next_receive /\ x.sequence \in Nat \ {0}
              /\ x.sequence \in conn[p].pending_replies /\ x \in conn[p].pending
              /\ x.kind \in RequestKinds
              /\ \A r \in Transit(p) : r.kind \in Answers => r.reply_to # x.sequence
          BY <3>0, <3>1, <2>4
        <4>2. \A r \in N : r.kind \in Answers => r.reply_to # x.sequence
          BY <4>1, <3>1, <1>1, <1>2 DEF Replies
        <4> QED
          BY <4>1, <4>2, <1>1, <1>2
      <3>2. CASE N = {} /\ \E t \in T : x = EntryOf(t) /\ t.kind \in RequestKinds
        <4>1. PICK t \in T : x = EntryOf(t) /\ t.kind \in RequestKinds
          BY <3>2
        <4>2. /\ x.sequence = conn[e].next_receive /\ x.kind = t.kind
              /\ conn'[e].next_receive = conn[e].next_receive + 1 /\ x.sequence = t.sequence
          BY <4>1, <1>2 DEF EntryOf
        <4>3. x.sequence \in conn[p].pending_replies /\ x \in conn[p].pending
          BY <4>1, <4>2, <2>5, KindFacts
        <4>4. \A r \in Transit(p)' : r.kind \in Answers => r.reply_to # x.sequence
          BY <4>2, <3>2, <2>3, <1>1, <1>2
        <4> QED
          BY <4>1, <4>2, <4>3, <4>4, <1>1
      <3> QED
        BY <3>0, <3>1, <3>2 DEF Owes
    <2>9. Hearing(e)' => Answerable(p)'
      BY <2>8, <1>0 DEF Answerable
    <2> QED
      BY <2>2, <2>7, <2>9
  <1> QED
    BY <1>0, <1>3, <1>4, EndFacts DEF Correlated

-----------------------------------------------------------------------------
(* The three ways a step treats the queues: it takes and queues records,    *)
(* it sends queued ones, or it ends the connection.                         *)

\* The parts of a typed state that belong to one end.
LEMMA EndTypes ==
    ASSUME Types, NEW e \in Ends
    PROVE  /\ conn[e] \in Connection /\ wire[e] \in Seq(Record)
           /\ conn[e].outgoing \in Seq(Record) /\ conn[e].incoming \in Seq(Record)
           /\ Len(wire[e]) \in Nat /\ Len(conn[e].outgoing) \in Nat
           /\ conn[e].next_receive \in Nat \ {0} /\ conn[e].next_send \in Nat \ {0}
           /\ Peer(e) \in Ends /\ Peer(Peer(e)) = e /\ Peer(e) # e
  BY EndFacts, LenProperties DEF Types, Connection

\* An end that becomes q takes the records in T from the kernel, ...
Takes(e, q, T) ==
  \/ T = {} /\ wire'[e] = wire[e] /\ q.next_receive = conn[e].next_receive
  \/ /\ wire[e] # <<>> /\ T = {Head(wire[e])} /\ wire'[e] = Tail(wire[e])
     /\ q.next_receive = conn[e].next_receive + 1
\* ... and queues those in N.
Queues(e, q, N) ==
  \/ N = {} /\ q.outgoing = conn[e].outgoing /\ q.next_send = conn[e].next_send
  \/ \E r \in Record : /\ N = {r} /\ r.sequence = conn[e].next_send
                       /\ q.outgoing = Append(conn[e].outgoing, r)
                       /\ q.next_send = conn[e].next_send + 1

\* Both, in a step that does not end the connection of e.
Exchanges(e, q, T, N) ==
  /\ conn' = [conn EXCEPT ![e] = q] /\ wire' \in [Ends -> Seq(Record)]
  /\ wire'[Peer(e)] = wire[Peer(e)] /\ q.config = conn[e].config
  /\ q.state = "CLOSED" <=> conn[e].state = "CLOSED"
  /\ q.state = "CLOSED" => N = {}
  /\ Takes(e, q, T) /\ Queues(e, q, N)

\* Reading the next record and queueing another one keeps the numbering.
LEMMA Exchange ==
    ASSUME Types, Order, NEW e \in Ends, NEW q \in Connection, NEW T, NEW N,
           Exchanges(e, q, T, N)
    PROVE  Moves(e, T, N) /\ Order' /\ conn' \in [Ends -> Connection]
  <1> DEFINE k == conn[e]
             p == Peer(e)
             o == conn[p]
             w == wire[e]
             v == wire'[e]
  <1>1. /\ k \in Connection /\ w \in Seq(Record) /\ k.outgoing \in Seq(Record)
        /\ Len(w) \in Nat /\ Len(k.outgoing) \in Nat
        /\ k.next_receive \in Nat \ {0} /\ k.next_send \in Nat \ {0}
        /\ p \in Ends /\ Peer(p) = e /\ p # e
    BY EndTypes
  <1>2. /\ o \in Connection /\ wire[p] \in Seq(Record) /\ o.outgoing \in Seq(Record)
        /\ Len(wire[p]) \in Nat /\ Len(o.outgoing) \in Nat
        /\ o.next_receive \in Nat \ {0} /\ o.next_send \in Nat \ {0}
    BY <1>1, EndTypes
  <1>3. conn' \in [Ends -> Connection] /\ conn'[e] = q /\ conn'[p] = o
    BY <1>1 DEF Types, Exchanges
  <1>4. /\ \A i \in 1 .. Len(k.outgoing) :
             k.outgoing[i].sequence = k.next_send - Len(k.outgoing) + i - 1
        /\ \A i \in 1 .. Len(w) : w[i].sequence = k.next_receive + i - 1
        /\ k.next_receive + Len(w) + Len(o.outgoing) <= o.next_send
        /\ k.state # "CLOSED" /\ o.state # "CLOSED" =>
             k.next_receive + Len(w) + Len(o.outgoing) = o.next_send
    BY DEF Order, OrderOf
  <1>5. /\ \A i \in 1 .. Len(o.outgoing) :
             o.outgoing[i].sequence = o.next_send - Len(o.outgoing) + i - 1
        /\ \A i \in 1 .. Len(wire[p]) : wire[p][i].sequence = o.next_receive + i - 1
        /\ o.next_receive + Len(wire[p]) + Len(k.outgoing) <= k.next_send
        /\ k.state # "CLOSED" /\ o.state # "CLOSED" =>
             o.next_receive + Len(wire[p]) + Len(k.outgoing) = k.next_send
    BY <1>1 DEF Order, OrderOf
  <1>a. \/ T = {} /\ v = w /\ q.next_receive = k.next_receive
        \/ /\ w # <<>> /\ T = {Head(w)} /\ v = Tail(w)
           /\ q.next_receive = k.next_receive + 1
    BY DEF Takes, Exchanges
  <1>b. \/ N = {} /\ q.outgoing = k.outgoing /\ q.next_send = k.next_send
        \/ \E r \in Record : /\ N = {r} /\ r.sequence = k.next_send
                             /\ q.outgoing = Append(k.outgoing, r)
                             /\ q.next_send = k.next_send + 1
    BY DEF Queues, Exchanges
  <1>c. q.next_send \in Nat /\ v \in Seq(Record) /\ Len(v) \in Nat /\ q.next_receive \in Nat
    BY LenProperties DEF Connection, Exchanges
  <1>d. /\ q.state = "CLOSED" <=> k.state = "CLOSED"
        /\ q.state = "CLOSED" => N = {}
        /\ wire'[p] = wire[p] /\ q.config = k.config
    BY DEF Exchanges
  <1>h. q.state = "CLOSED" <=> k.state = "CLOSED"
    BY DEF Exchanges
  <1> HIDE DEF p, k, o, w, v
  <1>e. k.next_receive + Len(w) + Len(o.outgoing) <= o.next_send
    BY <1>4
  <1>f. o.next_receive + Len(wire[p]) + Len(k.outgoing) <= k.next_send
    BY <1>5
  <1>g. /\ k.next_receive \in Nat /\ k.next_send \in Nat /\ Len(w) \in Nat
        /\ Len(k.outgoing) \in Nat /\ Len(wire[p]) \in Nat /\ Len(o.outgoing) \in Nat
        /\ o.next_receive \in Nat /\ o.next_send \in Nat
    BY <1>1, <1>2
  <1>6. /\ v \in Seq(Record) /\ Len(v) \in Nat
        /\ q.next_receive + Len(v) = k.next_receive + Len(w)
        /\ \A i \in 1 .. Len(v) : v[i].sequence = q.next_receive + i - 1
        /\ ToSet(v) \subseteq ToSet(w)
        /\ T \subseteq ToSet(w)
        /\ \A t \in T : t.sequence = k.next_receive /\ q.next_receive = k.next_receive + 1
        /\ k.next_receive <= q.next_receive
        /\ \A r \in ToSet(v) : r.sequence >= q.next_receive
        /\ T = {} => q.next_receive = k.next_receive
    <2>0. v \in Seq(Record) /\ Len(v) \in Nat
      BY <1>c
    <2>1. CASE T = {} /\ v = w /\ q.next_receive = k.next_receive
      <3>1. \A r \in ToSet(v) : r.sequence >= q.next_receive
        <4> SUFFICES ASSUME NEW r \in ToSet(v) PROVE r.sequence >= q.next_receive
          OBVIOUS
        <4>1. PICK i \in 1 .. Len(w) : r = w[i]
          BY <2>1, <1>1, ToSetFacts
        <4>2. r.sequence = k.next_receive + i - 1
          BY <4>1, <1>4
        <4> QED
          BY <4>2, <2>1, <1>1
      <3> QED
        BY <2>0, <2>1, <3>1, <1>1, <1>4
    <2>2. CASE /\ w # <<>> /\ T = {Head(w)} /\ v = Tail(w)
               /\ q.next_receive = k.next_receive + 1
      <3>1. /\ Len(v) = Len(w) - 1 /\ \A i \in 1 .. Len(v) : v[i] = w[i + 1]
            /\ Head(w) = w[1] /\ Len(w) >= 1
        <4>1. Len(w) # 0
          BY <2>2, <1>1, EmptySeq
        <4> QED
          BY <2>2, <4>1, <1>1, HeadTailProperties
      <3>2. ASSUME NEW i \in 1 .. Len(v)
            PROVE  /\ i + 1 \in 1 .. Len(w) /\ v[i] = w[i + 1]
                   /\ v[i].sequence = q.next_receive + i - 1
                   /\ v[i].sequence >= q.next_receive /\ v[i] \in ToSet(w)
        <4>1. i + 1 \in 1 .. Len(w)
          BY <3>1, <1>1
        <4>2. w[i + 1].sequence = k.next_receive + (i + 1) - 1
          BY <4>1, <1>4
        <4>3. v[i] = w[i + 1]
          BY <3>1
        <4>4. v[i] \in ToSet(w)
          BY <4>1, <4>3, <1>1, ToSetFacts
        <4>5. q.next_receive = k.next_receive + 1
          BY <2>2
        <4>6. v[i].sequence = k.next_receive + (i + 1) - 1
          BY <4>2, <4>3
        <4>7. v[i].sequence = q.next_receive + i - 1 /\ v[i].sequence >= q.next_receive
          BY <4>5, <4>6, <1>g
        <4> QED
          BY <4>1, <4>3, <4>4, <4>7
      <3>3. \A r \in ToSet(v) : \E i \in 1 .. Len(v) : r = v[i]
        BY <2>0, ToSetFacts
      <3>4. Head(w) \in ToSet(w) /\ Head(w).sequence = k.next_receive
        <4>1. 1 \in 1 .. Len(w)
          BY <3>1, <1>1
        <4>2. w[1].sequence = k.next_receive + 1 - 1
          BY <4>1, <1>4
        <4> QED
          BY <4>1, <4>2, <3>1, <1>1, ToSetFacts
      <3>5. q.next_receive + Len(v) = k.next_receive + Len(w)
        <4>1. q.next_receive = k.next_receive + 1 /\ Len(v) = Len(w) - 1
          BY <3>1, <2>2
        <4> QED
          BY <4>1, <1>g
      <3>6. k.next_receive <= q.next_receive /\ \A r \in ToSet(v) : r.sequence >= q.next_receive
        <4>1. q.next_receive = k.next_receive + 1
          BY <2>2
        <4>2. k.next_receive <= q.next_receive
          BY <4>1, <1>g
        <4> QED
          BY <4>2, <3>2, <3>3
      <3>7. /\ \A t \in T : t.sequence = k.next_receive /\ t \in ToSet(w)
            /\ ToSet(v) \subseteq ToSet(w)
        BY <3>2, <3>3, <3>4, <2>2
      <3> QED
        BY <3>6, <3>7, <2>0, <2>2, <3>2, <3>3, <3>4, <3>5, <1>1
    <2> QED
      BY <2>1, <2>2, <1>a
  <1>7. /\ q.outgoing \in Seq(Record) /\ Len(q.outgoing) \in Nat
        /\ q.next_send - Len(q.outgoing) = k.next_send - Len(k.outgoing)
        /\ \A i \in 1 .. Len(q.outgoing) :
             q.outgoing[i].sequence = q.next_send - Len(q.outgoing) + i - 1
        /\ ToSet(q.outgoing) \subseteq ToSet(k.outgoing) \cup N
        /\ N \subseteq Record
        /\ \A r \in N : r.sequence = k.next_send /\ q.next_send = k.next_send + 1
        /\ \A r, s \in N : r = s
        /\ N = {} => q.next_send = k.next_send
    <2>1. CASE N = {} /\ q.outgoing = k.outgoing /\ q.next_send = k.next_send
      BY <2>1, <1>1, <1>4
    <2>2. CASE \E r \in Record : /\ N = {r} /\ r.sequence = k.next_send
                                 /\ q.outgoing = Append(k.outgoing, r)
                                 /\ q.next_send = k.next_send + 1
      <3>1. PICK r \in Record : /\ N = {r} /\ r.sequence = k.next_send
                                /\ q.outgoing = Append(k.outgoing, r)
                                /\ q.next_send = k.next_send + 1
        BY <2>2
      <3>2. /\ q.outgoing \in Seq(Record) /\ Len(q.outgoing) = Len(k.outgoing) + 1
            /\ q.outgoing[Len(k.outgoing) + 1] = r
            /\ \A i \in 1 .. Len(k.outgoing) : q.outgoing[i] = k.outgoing[i]
        BY <3>1, <1>1, AppendProperties
      <3>3. ToSet(q.outgoing) = ToSet(k.outgoing) \cup {r}
        BY <3>1, <1>1, ToSetOfAppend
      <3>5. q.next_send = k.next_send + 1 /\ Len(q.outgoing) = Len(k.outgoing) + 1
        BY <3>1, <3>2
      <3>4. ASSUME NEW i \in 1 .. Len(q.outgoing)
            PROVE  q.outgoing[i].sequence = q.next_send - Len(q.outgoing) + i - 1
        <4>1. CASE i \in 1 .. Len(k.outgoing)
          <5>1. k.outgoing[i].sequence = k.next_send - Len(k.outgoing) + i - 1
            BY <4>1, <1>4
          <5>2. q.outgoing[i].sequence = k.next_send - Len(k.outgoing) + i - 1
            BY <5>1, <4>1, <3>2
          <5> QED
            BY <5>2, <3>5, <1>c, <1>g
        <4>2. CASE i = Len(k.outgoing) + 1
          <5>1. q.outgoing[i].sequence = k.next_send
            BY <4>2, <3>1, <3>2
          <5> DEFINE a == k.next_send
                     b == Len(k.outgoing)
                     x == q.next_send
                     y == Len(q.outgoing)
          <5>2. a \in Nat /\ b \in Nat /\ x = a + 1 /\ y = b + 1 /\ i = b + 1
            BY <4>2, <3>5, <1>g
          <5> HIDE DEF a, b, x, y
          <5>3. x - y + i - 1 = a
            BY <5>2
          <5> QED
            BY <5>1, <5>3 DEF a, b, x, y
        <4> QED
          BY <4>1, <4>2, <3>5, <1>g
      <3> QED
        <4> DEFINE a == k.next_send
                   b == Len(k.outgoing)
                   x == q.next_send
                   y == Len(q.outgoing)
        <4>0. a \in Nat /\ b \in Nat /\ x = a + 1 /\ y = b + 1
          BY <3>5, <1>g
        <4> HIDE DEF a, b, x, y
        <4>3. x - y = a - b
          BY <4>0
        <4>1. q.next_send - Len(q.outgoing) = k.next_send - Len(k.outgoing)
          BY <4>3 DEF a, b, x, y
        <4>2. Len(q.outgoing) \in Nat
          BY <3>5, <1>c, <1>g
        <4> QED
          BY <4>1, <4>2, <3>1, <3>2, <3>3, <3>4
    <2> QED
      BY <2>1, <2>2, <1>b
  <1>8. OrderOf(e)'
    <2>1. q.next_receive + Len(v) + Len(o.outgoing) <= o.next_send
      BY <1>1, <1>2, <1>4, <1>6, <1>c, <1>d
    <2>2. q.state # "CLOSED" /\ o.state # "CLOSED" =>
            q.next_receive + Len(v) + Len(o.outgoing) = o.next_send
      BY <1>1, <1>2, <1>4, <1>6, <1>c, <1>d
    <2> QED
      BY <2>1, <2>2, <1>3, <1>6, <1>7 DEF OrderOf, p, o, v
  <1>9. OrderOf(p)'
    <2> DEFINE a == o.next_receive
               b == Len(wire[p])
               c == Len(k.outgoing)
               d == k.next_send
               x == q.next_send
               y == Len(q.outgoing)
    <2>0. /\ a \in Nat /\ b \in Nat /\ c \in Nat /\ d \in Nat /\ x \in Nat /\ y \in Nat
          /\ x - y = d - c /\ a + b + c <= d
          /\ k.state # "CLOSED" /\ o.state # "CLOSED" => a + b + c = d
      BY <1>5, <1>7, <1>c, <1>f, <1>g
    <2> HIDE DEF a, b, c, d, x, y
    <2>3. /\ a + b + y <= x
          /\ k.state # "CLOSED" /\ o.state # "CLOSED" => a + b + y = x
      BY <2>0
    <2>1. o.next_receive + Len(wire[p]) + Len(q.outgoing) <= q.next_send
      BY <2>3 DEF a, b, x, y
    <2>2. q.state # "CLOSED" /\ o.state # "CLOSED" =>
            o.next_receive + Len(wire[p]) + Len(q.outgoing) = q.next_send
      BY <2>3, <1>h DEF a, b, x, y
    <2> QED
      BY <2>1, <2>2, <1>1, <1>3, <1>5, <1>d DEF OrderOf, p, o
  <1>10. Transit(e)' \subseteq Transit(e) \ T
    <2>1. Transit(e)' = ToSet(v) \cup ToSet(o.outgoing)
      BY <1>3 DEF Transit, p, v, o
    <2>2. Transit(e) = ToSet(w) \cup ToSet(o.outgoing)
      BY DEF Transit, p, w, o
    <2>3. ASSUME NEW r \in Transit(e)', r \in T  PROVE FALSE
      <3>1. r.sequence = k.next_receive /\ q.next_receive = k.next_receive + 1 /\ Len(w) >= 1
        <4>1. r \in ToSet(w)
          BY <2>3, <1>6
        <4>2. PICK i \in 1 .. Len(w) : r = w[i]
          BY <4>1, <1>1, ToSetFacts
        <4> QED
          BY <4>2, <2>3, <1>6, <1>1
      <3>2. CASE r \in ToSet(v)
        BY <3>1, <3>2, <1>6, <1>1
      <3>3. CASE r \in ToSet(o.outgoing)
        <4>0. o.outgoing \in Seq(Record)
          BY <1>2
        <4>1. PICK i \in 1 .. Len(o.outgoing) : r = o.outgoing[i]
          BY <4>0, <3>3, ToSetFacts
        <4>2. r.sequence = o.next_send - Len(o.outgoing) + i - 1
          BY <4>1, <1>5
        <4>3. k.next_receive = o.next_send - Len(o.outgoing) + i - 1 /\ Len(w) >= 1
          BY <4>2, <3>1
        <4>4. ASSUME NEW a \in Nat, NEW b \in Nat, NEW c \in Nat, NEW d \in Nat,
                     a + b + c <= d, b >= 1, a = d - c + i - 1
              PROVE  FALSE
          BY <4>4
        <4> QED
          BY <4>3, <4>4, <1>e, <1>g
      <3> QED
        BY <3>2, <3>3, <2>1, <2>3
    <2> QED
      BY <2>1, <2>2, <2>3, <1>6
  <1>11. Transit(p)' \subseteq Transit(p) \cup N
    <2>1. Transit(p)' = ToSet(wire[p]) \cup ToSet(q.outgoing)
      BY <1>1, <1>3, <1>d DEF Transit
    <2>2. Transit(p) = ToSet(wire[p]) \cup ToSet(k.outgoing)
      BY <1>1 DEF Transit, k
    <2> QED
      BY <2>1, <2>2, <1>7
  <1>12. T \subseteq Transit(e)
    BY <1>6 DEF Transit, w
  <1>13. Moves(e, T, N)
    BY <1>3, <1>6, <1>7, <1>d, <1>10, <1>11, <1>12 DEF Moves, p, k, o
  <1> QED
    BY <1>1, <1>3, <1>8, <1>9, <1>13, EndFacts DEF Order, p

\* The first n queued records, behind those the kernel holds.
Sent(e, n) == wire[Peer(e)] \o SubSeq(conn[e].outgoing, 1, n)
Unsent(e, n) == SubSeq(conn[e].outgoing, n + 1, Len(conn[e].outgoing))

\* flush moves a front part of the queue behind what the kernel holds.
LEMMA SentFacts ==
    ASSUME Types, Order, NEW e \in Ends, NEW n \in 0 .. Len(conn[e].outgoing),
           conn[e].state # "CLOSED", conn[Peer(e)].state = "CLOSED" => n = 0
    PROVE  /\ Sent(e, n) \in Seq(Record) /\ Len(Sent(e, n)) = Len(wire[Peer(e)]) + n
           /\ \A i \in 1 .. Len(Sent(e, n)) :
                Sent(e, n)[i].sequence = conn[Peer(e)].next_receive + i - 1
           /\ ToSet(Sent(e, n)) \subseteq Transit(Peer(e))
           /\ Unsent(e, n) \in Seq(Record) /\ Len(Unsent(e, n)) = Len(conn[e].outgoing) - n
           /\ \A i \in 1 .. Len(Unsent(e, n)) :
                Unsent(e, n)[i].sequence = conn[e].next_send - Len(Unsent(e, n)) + i - 1
           /\ ToSet(Unsent(e, n)) \subseteq Transit(Peer(e))
  <1> DEFINE p == Peer(e)
             w == wire[p]
             g == conn[e].outgoing
             f == SubSeq(g, 1, n)
             u == SubSeq(g, n + 1, Len(g))
             s == conn[e].next_send
             r == conn[p].next_receive
  <1>1. /\ w \in Seq(Record) /\ g \in Seq(Record) /\ Len(w) \in Nat /\ Len(g) \in Nat
        /\ s \in Nat /\ r \in Nat /\ n \in Nat /\ n <= Len(g)
        /\ p \in Ends /\ Peer(p) = e /\ p # e
    <2>1. Len(g) \in Nat /\ n \in 0 .. Len(g)
      BY EndTypes
    <2>2. n \in Nat /\ n <= Len(g)
      BY <2>1
    <2> QED
      BY <2>1, <2>2, EndTypes
  <1>2. /\ \A i \in 1 .. Len(g) : g[i].sequence = s - Len(g) + i - 1
        /\ \A i \in 1 .. Len(w) : w[i].sequence = r + i - 1
        /\ n # 0 => r + Len(w) + Len(g) = s
    BY <1>1 DEF Order, OrderOf
  <1>3. Transit(p) = ToSet(w) \cup ToSet(g)
    BY <1>1 DEF Transit
  <1>4. Sent(e, n) = w \o f /\ Unsent(e, n) = u
    BY DEF Sent, Unsent
  <1> HIDE DEF p, w, g, s, r
  <1>5. f \in Seq(Record) /\ Len(f) = n /\ \A i \in 1 .. n : f[i] = g[i]
    BY <1>1, SubSeqProperties
  <1>6. /\ u \in Seq(Record) /\ Len(u) = Len(g) - n
        /\ \A i \in 1 .. Len(g) - n : u[i] = g[n + i]
    BY <1>1, SubSeqProperties
  <1> HIDE DEF f, u
  <1>7. /\ w \o f \in Seq(Record) /\ Len(w \o f) = Len(w) + n
        /\ \A i \in 1 .. Len(w) + n : (w \o f)[i] = IF i <= Len(w) THEN w[i] ELSE f[i - Len(w)]
    <2>1. /\ w \o f \in Seq(Record) /\ Len(w \o f) = Len(w) + Len(f)
          /\ \A i \in 1 .. Len(w) + Len(f) :
               (w \o f)[i] = IF i <= Len(w) THEN w[i] ELSE f[i - Len(w)]
      <3>1. w \in Seq(Record) /\ f \in Seq(Record)
        BY <1>1, <1>5
      <3> QED
        BY <3>1, ConcatProperties
    <2> QED
      BY <2>1, <1>5
  <1>8. ASSUME NEW i \in 1 .. Len(w) + n  PROVE (w \o f)[i].sequence = r + i - 1
    <2>1. CASE i <= Len(w)
      BY <2>1, <1>1, <1>2, <1>7
    <2>2. CASE ~ (i <= Len(w))
      <3>1. i - Len(w) \in 1 .. n /\ i - Len(w) \in 1 .. Len(g) /\ n # 0
        BY <2>2, <1>1
      <3>2. (w \o f)[i] = g[i - Len(w)]
        BY <2>2, <3>1, <1>5, <1>7
      <3>3. g[i - Len(w)].sequence = s - Len(g) + (i - Len(w)) - 1
        BY <3>1, <1>2
      <3>4. r + Len(w) + Len(g) = s
        BY <3>1, <1>2
      <3>5. s - Len(g) + (i - Len(w)) - 1 = r + i - 1
        BY <3>4, <1>1
      <3> QED
        BY <3>2, <3>3, <3>5
    <2> QED
      BY <2>1, <2>2
  <1>9. ASSUME NEW i \in 1 .. Len(g) - n
        PROVE  u[i].sequence = s - (Len(g) - n) + i - 1
    <2>1. n + i \in 1 .. Len(g)
      BY <1>1
    <2>2. g[n + i].sequence = s - Len(g) + (n + i) - 1
      BY <2>1, <1>2
    <2>3. s - Len(g) + (n + i) - 1 = s - (Len(g) - n) + i - 1
      BY <1>1
    <2>4. u[i] = g[n + i]
      BY <1>6
    <2> QED
      BY <2>2, <2>3, <2>4
  <1>10. ToSet(f) \subseteq ToSet(g)
    <2> SUFFICES ASSUME NEW x \in ToSet(f) PROVE x \in ToSet(g)
      OBVIOUS
    <2>1. PICK i \in 1 .. n : x = f[i]
      BY <1>5, ToSetFacts
    <2>2. i \in 1 .. Len(g) /\ x = g[i]
      BY <2>1, <1>1, <1>5
    <2> QED
      BY <2>2, <1>1, ToSetFacts
  <1>11. ToSet(u) \subseteq ToSet(g)
    <2> SUFFICES ASSUME NEW x \in ToSet(u) PROVE x \in ToSet(g)
      OBVIOUS
    <2>1. PICK i \in 1 .. Len(g) - n : x = u[i]
      BY <1>6, ToSetFacts
    <2>2. n + i \in 1 .. Len(g) /\ x = g[n + i]
      BY <2>1, <1>1, <1>6
    <2> QED
      BY <2>2, <1>1, ToSetFacts
  <1>12. ToSet(w \o f) \subseteq ToSet(w) \cup ToSet(f)
    BY <1>1, <1>5, ToSetOfConcatenation
  <1> QED
    <2>1. /\ Len(w \o f) = Len(w) + n /\ \A i \in 1 .. Len(w \o f) : (w \o f)[i].sequence = r + i - 1
          /\ ToSet(w \o f) \subseteq Transit(p) /\ ToSet(u) \subseteq Transit(p)
      BY <1>3, <1>7, <1>8, <1>10, <1>11, <1>12
    <2>2. \A i \in 1 .. Len(u) : u[i].sequence = s - Len(u) + i - 1
      BY <1>6, <1>9
    <2> QED
      BY <2>1, <2>2, <1>4, <1>6, <1>7 DEF p, w, g, s, r

\* A step that sends the first n records, and one that ends the connection of
\* e after sending them and perhaps taking a record.
Sends(e, q, n) ==
  /\ conn' = [conn EXCEPT ![e] = q] /\ wire' \in [Ends -> Seq(Record)]
  /\ wire'[e] = wire[e] /\ wire'[Peer(e)] = Sent(e, n)
  /\ conn[Peer(e)].state = "CLOSED" => n = 0
  /\ conn[e].state # "CLOSED" /\ q.state # "CLOSED" /\ q.config = conn[e].config
  /\ q.outgoing = Unsent(e, n) /\ q.next_send = conn[e].next_send
  /\ q.next_receive = conn[e].next_receive
Finishes(e, q, n) ==
  /\ conn' = [conn EXCEPT ![e] = q] /\ wire' \in [Ends -> Seq(Record)]
  /\ wire'[e] = <<>> /\ wire'[Peer(e)] = Sent(e, n)
  /\ conn[Peer(e)].state = "CLOSED" => n = 0
  /\ conn[e].state # "CLOSED" /\ q.state = "CLOSED" /\ q.config = conn[e].config
  /\ q.outgoing = <<>> /\ q.next_send \in {conn[e].next_send, conn[e].next_send + 1}
  /\ \/ q.next_receive = conn[e].next_receive
     \/ wire[e] # <<>> /\ q.next_receive = conn[e].next_receive + 1

\* Flushing keeps the numbering, and neither adds nor takes a record.
LEMMA Sending ==
    ASSUME Types, Order, NEW e \in Ends, NEW q \in Connection,
           NEW n \in 0 .. Len(conn[e].outgoing), Sends(e, q, n)
    PROVE  Moves(e, {}, {}) /\ Order' /\ conn' \in [Ends -> Connection]
  <1> DEFINE p == Peer(e)
  <1>1. /\ conn[e] \in Connection /\ wire[e] \in Seq(Record) /\ Len(wire[e]) \in Nat
        /\ Len(conn[e].outgoing) \in Nat /\ conn[e].next_send \in Nat
        /\ conn[e].next_receive \in Nat
        /\ p \in Ends /\ Peer(p) = e /\ p # e
    BY EndTypes
  <1>2. /\ Len(wire[p]) \in Nat /\ Len(conn[p].outgoing) \in Nat /\ conn[p].next_receive \in Nat
    BY <1>1, EndTypes
  <1>3. /\ conn' \in [Ends -> Connection] /\ conn'[e] = q /\ conn'[p] = conn[p]
        /\ wire'[e] = wire[e] /\ wire'[p] = Sent(e, n) /\ q.outgoing = Unsent(e, n)
        /\ q.next_send = conn[e].next_send /\ q.next_receive = conn[e].next_receive
        /\ conn[e].state # "CLOSED" /\ q.state # "CLOSED" /\ q.config = conn[e].config
        /\ conn[p].state = "CLOSED" => n = 0
    BY <1>1 DEF Types, Sends
  <1>4. /\ Sent(e, n) \in Seq(Record) /\ Len(Sent(e, n)) = Len(wire[p]) + n
        /\ \A i \in 1 .. Len(Sent(e, n)) :
             Sent(e, n)[i].sequence = conn[p].next_receive + i - 1
        /\ ToSet(Sent(e, n)) \subseteq Transit(p)
        /\ Unsent(e, n) \in Seq(Record) /\ Len(Unsent(e, n)) = Len(conn[e].outgoing) - n
        /\ \A i \in 1 .. Len(Unsent(e, n)) :
             Unsent(e, n)[i].sequence = conn[e].next_send - Len(Unsent(e, n)) + i - 1
        /\ ToSet(Unsent(e, n)) \subseteq Transit(p)
    BY <1>3, SentFacts
  <1>5. OrderOf(e) /\ OrderOf(p)
    BY <1>1 DEF Order
  <1>6. OrderOf(e)'
    BY <1>3, <1>4, <1>5 DEF OrderOf
  <1>7. OrderOf(p)'
    <2> DEFINE a == conn[p].next_receive
               b == Len(wire[p])
               c == Len(conn[e].outgoing)
               d == conn[e].next_send
               x == Len(Sent(e, n))
               y == Len(Unsent(e, n))
    <2>1. /\ a + b + c <= d
          /\ conn[p].state # "CLOSED" => a + b + c = d
          /\ x = b + n /\ y = c - n
          /\ a \in Nat /\ b \in Nat /\ c \in Nat /\ d \in Nat /\ n \in Int
      BY <1>1, <1>2, <1>3, <1>4, <1>5 DEF OrderOf
    <2> HIDE DEF a, b, c, d, x, y
    <2>2. a + x + y <= d /\ (conn[p].state # "CLOSED" => a + x + y = d)
      BY <2>1
    <2>3. /\ conn[p].next_receive + Len(Sent(e, n)) + Len(Unsent(e, n)) <= conn[e].next_send
          /\ conn[p].state # "CLOSED" =>
               conn[p].next_receive + Len(Sent(e, n)) + Len(Unsent(e, n)) = conn[e].next_send
      BY <2>2 DEF a, d, x, y
    <2>4. \A i \in 1 .. Len(conn[p].outgoing) :
            conn[p].outgoing[i].sequence = conn[p].next_send - Len(conn[p].outgoing) + i - 1
      BY <1>5 DEF OrderOf
    <2> QED
      BY <2>3, <2>4, <1>1, <1>3, <1>4 DEF OrderOf
  <1>8. Transit(e)' \subseteq Transit(e) /\ Transit(p)' \subseteq Transit(p)
    BY <1>1, <1>3, <1>4 DEF Transit
  <1>9. Moves(e, {}, {})
    <2>1. conn[e].next_receive <= q.next_receive
      BY <1>1, <1>3
    <2> QED
      BY <2>1, <1>3, <1>8 DEF Moves
  <1> QED
    BY <1>1, <1>3, <1>6, <1>7, <1>9, EndFacts DEF Order

\* Closing, behind what was flushed, keeps the numbering.
LEMMA Finishing ==
    ASSUME Types, Order, NEW e \in Ends, NEW q \in Connection,
           NEW n \in 0 .. Len(conn[e].outgoing), Finishes(e, q, n)
    PROVE  Moves(e, {}, {}) /\ Order' /\ conn' \in [Ends -> Connection]
  <1> DEFINE p == Peer(e)
  <1>1. /\ conn[e] \in Connection /\ wire[e] \in Seq(Record) /\ Len(wire[e]) \in Nat
        /\ Len(conn[e].outgoing) \in Nat /\ conn[e].next_send \in Nat
        /\ conn[e].next_receive \in Nat
        /\ p \in Ends /\ Peer(p) = e /\ p # e
    BY EndTypes
  <1>2. /\ Len(wire[p]) \in Nat /\ Len(conn[p].outgoing) \in Nat /\ conn[p].next_receive \in Nat
        /\ conn[p].next_send \in Nat /\ conn[p].outgoing \in Seq(Record)
    BY <1>1, EndTypes
  <1>3. /\ conn' \in [Ends -> Connection] /\ conn'[e] = q /\ conn'[p] = conn[p]
        /\ wire'[e] = <<>> /\ wire'[p] = Sent(e, n) /\ q.outgoing = <<>>
        /\ q.next_send \in {conn[e].next_send, conn[e].next_send + 1}
        /\ \/ q.next_receive = conn[e].next_receive
           \/ wire[e] # <<>> /\ q.next_receive = conn[e].next_receive + 1
        /\ conn[e].state # "CLOSED" /\ q.state = "CLOSED" /\ q.config = conn[e].config
        /\ conn[p].state = "CLOSED" => n = 0
    BY <1>1 DEF Types, Finishes
  <1>4. /\ Sent(e, n) \in Seq(Record) /\ Len(Sent(e, n)) = Len(wire[p]) + n
        /\ \A i \in 1 .. Len(Sent(e, n)) :
             Sent(e, n)[i].sequence = conn[p].next_receive + i - 1
        /\ ToSet(Sent(e, n)) \subseteq Transit(p)
    BY <1>3, SentFacts
  <1>5. OrderOf(e) /\ OrderOf(p)
    BY <1>1 DEF Order
  <1>6. Len(<<>>) = 0 /\ ToSet(<<>>) = {} /\ <<>> \in Seq(Record)
        /\ (wire[e] # <<>> => Len(wire[e]) >= 1)
    <2>1. <<>> \in Seq(Record) /\ Len(<<>>) = 0
      BY EmptySeq
    <2>2. wire[e] # <<>> => Len(wire[e]) # 0
      BY <1>1, EmptySeq
    <2>3. ToSet(<<>>) = {}
      BY <2>1, ToSetFacts
    <2>4. wire[e] # <<>> => Len(wire[e]) >= 1
      BY <2>2, <1>1
    <2> QED
      BY <2>1, <2>3, <2>4
  <1>7. OrderOf(e)'
    <2> DEFINE a == conn[e].next_receive
               b == Len(wire[e])
               c == Len(conn[p].outgoing)
               d == conn[p].next_send
               x == q.next_receive
    <2>1. /\ a + b + c <= d
          /\ x = a \/ (b >= 1 /\ x = a + 1)
          /\ a \in Nat /\ b \in Nat /\ c \in Nat /\ d \in Nat
      BY <1>1, <1>2, <1>3, <1>5, <1>6 DEF OrderOf
    <2> HIDE DEF a, b, c, d, x
    <2>2. x + 0 + c <= d
      BY <2>1
    <2>3. q.next_receive + Len(<<>>) + Len(conn[p].outgoing) <= conn[p].next_send
      BY <2>2, <1>6 DEF c, d, x
    <2>4. 1 .. Len(<<>>) = {}
      BY <1>6
    <2> QED
      BY <2>3, <2>4, <1>3 DEF OrderOf
  <1>8. OrderOf(p)'
    <2> DEFINE a == conn[p].next_receive
               b == Len(wire[p])
               c == Len(conn[e].outgoing)
               d == conn[e].next_send
               x == Len(Sent(e, n))
               y == q.next_send
    <2>1. /\ a + b + c <= d /\ x = b + n /\ y \in {d, d + 1} /\ n \in 0 .. c
          /\ a \in Nat /\ b \in Nat /\ c \in Nat /\ d \in Nat
      BY <1>1, <1>2, <1>3, <1>4, <1>5 DEF OrderOf
    <2> HIDE DEF a, b, c, d, x, y
    <2>2. a + x + 0 <= y
      BY <2>1
    <2>3. conn[p].next_receive + Len(Sent(e, n)) + Len(<<>>) <= q.next_send
      BY <2>2, <1>6 DEF a, x, y
    <2>4. \A i \in 1 .. Len(conn[p].outgoing) :
            conn[p].outgoing[i].sequence = conn[p].next_send - Len(conn[p].outgoing) + i - 1
      BY <1>5 DEF OrderOf
    <2> QED
      BY <2>3, <2>4, <1>1, <1>3, <1>4 DEF OrderOf
  <1>9. Transit(e)' \subseteq Transit(e) /\ Transit(p)' \subseteq Transit(p)
    BY <1>1, <1>3, <1>4, <1>6 DEF Transit
  <1>10. conn[e].next_receive <= q.next_receive
    BY <1>1, <1>3
  <1>11. Moves(e, {}, {})
    BY <1>1, <1>3, <1>9, <1>10 DEF Moves
  <1> QED
    BY <1>1, <1>3, <1>7, <1>8, <1>11, EndFacts DEF Order

-----------------------------------------------------------------------------
(* What the tables of an end that moves must still say *)

Lawful(e, T, N) ==
  /\ Hearing(e)' =>
       /\ Hearing(e) /\ Forgets(e, T) /\ Remembers(e, N) /\ Owes(e, T, N)
       /\ \/ conn'[e].last_incoming = conn[e].last_incoming
          \/ \E t \in T : t.kind = "SESSION_STATE_CHANGE" /\ conn'[e].last_incoming = t.id
       /\ \/ T = {} /\ conn'[e].incoming_snapshot = conn[e].incoming_snapshot
          \/ \E t \in T : conn'[e].incoming_snapshot = SnapshotAfter(conn[e].incoming_snapshot, t)
  /\ Replies(e, T, N)
  /\ \/ /\ conn'[e].last_outgoing = conn[e].last_outgoing
        /\ \A r \in N : r.kind # "SESSION_STATE_CHANGE"
     \/ \E r \in N : /\ r.kind = "SESSION_STATE_CHANGE" /\ r.id > conn[e].last_outgoing
                     /\ conn'[e].last_outgoing = r.id
  /\ conn'[e].state # "CLOSED" =>
       \/ N = {} /\ conn'[e].outgoing_snapshot = conn[e].outgoing_snapshot
       \/ \E r \in N : /\ conn'[e].outgoing_snapshot
                            = SnapshotAfter(conn[e].outgoing_snapshot, r)
                       /\ Fits(conn[e].outgoing_snapshot, r)
  /\ \A r \in N : LegalRecord(Peer(e), r)

\* The invariants on records and tables, for a step whose parts are as they ask.
LEMMA LawfulStep ==
    ASSUME Inductive, NEW e \in Ends, NEW T, NEW N, Moves(e, T, N), conn'[e] \in Connection,
           Lawful(e, T, N)
    PROVE  Legal' /\ Correlated' /\ Generations' /\ Chained'
  <1>1. Types /\ Stages /\ Order /\ Legal /\ Correlated /\ Generations /\ Chained
    BY DEF Inductive
  <1>2. Legal'
    BY <1>1, LegalStep DEF Lawful
  <1>3. Generations'
    BY <1>1, GenerationsStep DEF Lawful
  <1>4. Chained'
    BY <1>1, ChainedStep DEF Lawful
  <1>5. Correlated'
    BY <1>1, CorrelatedStep DEF Lawful
  <1> QED
    BY <1>2, <1>3, <1>4, <1>5

\* An end that takes and queues nothing keeps its tables, one that has closed
\* has none to keep.
LEMMA SilentIsLawful ==
    ASSUME NEW e \in Ends, SameTables(conn[e], conn'[e]), Hearing(e)' => Hearing(e)
    PROVE  Lawful(e, {}, {})
  BY DEF Lawful, SameTables, Forgets, Remembers, Owes, Replies

\* An end that closes owes its peer nothing more.
LEMMA ClosedIsLawful ==
    ASSUME NEW e \in Ends, conn'[e].state = "CLOSED",
           conn'[e].last_outgoing = conn[e].last_outgoing
    PROVE  Lawful(e, {}, {})
  BY DEF Lawful, Hearing, Replies

-----------------------------------------------------------------------------
(* The stage an end reaches *)

\* The stage of the other end is not disturbed.
LEMMA StagesStep ==
    ASSUME Types, Stages, NEW e \in Ends, conn'[Peer(e)] = conn[Peer(e)],
           conn'[e].config = conn[e].config, StageOf(e)',
           wire'[Peer(e)] = wire[Peer(e)] \/ conn[Peer(e)].state # "CLOSED",
           turn'[Peer(e)] = turn[Peer(e)], gone'[e] = gone[e],
           gone'[Peer(e)] <=> conn'[e].state = "CLOSED"
    PROVE  Stages'
  <1> DEFINE p == Peer(e)
  <1>1. p \in Ends /\ Peer(p) = e
    BY EndFacts
  <1>2. StageOf(p) /\ (gone[e] <=> conn[p].state = "CLOSED")
    BY <1>1 DEF Stages
  <1>3. Agreed(p)' = Agreed(p) /\ Compatible' = Compatible
    BY <1>1, Agreement
  <1>4. StageOf(p)'
    BY <1>2, <1>3 DEF StageOf, Early
  <1> QED
    BY <1>1, <1>2, <1>4, EndFacts DEF Stages

\* A stage that was reached stays reached: of an end past the handshake, of one
\* that has ended, and of one that did nothing.
LEMMA LateStage ==
    ASSUME Types, Stages, NEW e \in Ends, conn'[Peer(e)] = conn[Peer(e)],
           conn'[e].config = conn[e].config,
           conn[e].state \in {"ESTABLISHED", "REJECTING", "CLOSING"},
           \/ conn'[e].state = conn[e].state
           \/ conn[e].state = "ESTABLISHED" /\ conn'[e].state = "CLOSING",
           conn'[e].peer = conn[e].peer,
           conn'[e] \in Connection, conn[e].next_receive <= conn'[e].next_receive,
           conn[e].next_send <= conn'[e].next_send
    PROVE  StageOf(e)'
  <1>1. StageOf(e)
    BY DEF Stages
  <1>2. Agreed(e)' = Agreed(e) /\ Compatible' = Compatible
    BY Agreement
  <1>3. conn[e].next_receive >= 2 /\ conn[e].next_send >= 2
    BY <1>1 DEF StageOf
  <1>4. /\ conn[e].next_receive \in Nat /\ conn[e].next_send \in Nat
        /\ conn'[e].next_receive \in Nat /\ conn'[e].next_send \in Nat
    BY EndTypes DEF Connection
  <1>5. /\ conn'[e].next_receive >= 2 /\ conn'[e].next_send >= 2 /\ conn'[e].next_receive # 1
    BY <1>3, <1>4
  <1>6. /\ conn'[e].state \in StatesOf(e) /\ conn'[e].state # "CLOSED"
        /\ conn'[e].state # "NOT_ACCEPTED" /\ ~ Early(e)'
    BY <1>1 DEF StageOf, StatesOf, States, Early
  <1>7. conn'[e].state = "ESTABLISHED" => conn'[e].peer = Agreed(e)' /\ Compatible'
    BY <1>1, <1>2 DEF StageOf
  <1>8. StatesOf(e)' = StatesOf(e)
    BY DEF StatesOf
  <1> QED
    BY <1>5, <1>6, <1>7, <1>8 DEF StageOf

\* An end that closes leaves nothing in its buffers.
LEMMA ClosedStage ==
    ASSUME Types, Stages, NEW e \in Ends, conn'[e].state = "CLOSED", wire'[e] = <<>>,
           conn'[e].outgoing = <<>>, "in" \notin turn'[e],
           conn'[e].next_receive \in {conn[e].next_receive, conn[e].next_receive + 1},
           conn'[e].next_send = conn[e].next_send
    PROVE  StageOf(e)'
  <1>1. StageOf(e) /\ conn[e].next_receive \in Nat \ {0}
    BY EndTypes DEF Stages
  <1>2. conn'[e].next_receive = 1 => conn[e].next_receive = 1
    BY <1>1
  <1>3. conn'[e].state \in StatesOf(e)'
    BY DEF StatesOf, States
  <1> QED
    BY <1>1, <1>2, <1>3 DEF StageOf, Early

\* An end that only changed its status or its poll turn is where it was.
LEMMA IdleStage ==
    ASSUME Types, Stages, NEW e \in Ends, conn'[Peer(e)] = conn[Peer(e)],
           conn'[e].config = conn[e].config,
           conn'[e].state = conn[e].state, SameTables(conn[e], conn'[e]),
           conn'[e].peer = conn[e].peer, conn'[e].next_receive = conn[e].next_receive,
           conn'[e].next_send = conn[e].next_send,
           conn[e].state = "CLOSED" =>
             wire'[e] = wire[e] /\ conn'[e].outgoing = conn[e].outgoing,
           turn'[e] \subseteq turn[e] \/ conn[e].state \notin {"CLOSED", "NOT_ACCEPTED"}
    PROVE  StageOf(e)'
  <1>1. StageOf(e)
    BY DEF Stages
  <1>2. Agreed(e)' = Agreed(e) /\ Compatible' = Compatible
    BY Agreement
  <1>3. Early(e)' => Early(e) /\ Unused(conn'[e])
    BY <1>1 DEF Early, Unused, SameTables, StageOf
  <1>4. conn'[e].state \in StatesOf(e)'
    BY <1>1 DEF StageOf, StatesOf
  <1>5. /\ turn'[e] # {} => conn'[e].state # "NOT_ACCEPTED"
        /\ "in" \in turn'[e] => conn'[e].state # "CLOSED"
    BY <1>1 DEF StageOf
  <1>6. conn'[e].state = "CLOSED" => wire'[e] = <<>> /\ conn'[e].outgoing = <<>>
    BY <1>1 DEF StageOf
  <1> QED
    BY <1>1, <1>2, <1>3, <1>4, <1>5, <1>6 DEF StageOf

-----------------------------------------------------------------------------
(* What a connection makes of a record *)

\* The fields of a message.
LEMMA MessageFacts ==
    \A kind, id, size, n : LET m == Message(kind, id, size, n)
                           IN  m.kind = kind /\ m.id = id /\ m.size = size /\ m.reply_to = n
  BY DEF Message

\* The messages an application can build are typed.
LEMMA LetterFacts ==
    \A kind \in Kinds, id \in Identities, size \in Nat, n \in Nat :
      (kind = "SESSION_STATE_CHANGE" => id \in Nat) => Message(kind, id, size, n) \in Letter
  BY DEF Message, Letter

\* Numbering a message adds a field.
LEMMA NumberedFacts ==
    \A m, n : LET r == Numbered(m, n)
              IN  /\ r.kind = m.kind /\ r.id = m.id /\ r.size = m.size
                  /\ r.reply_to = m.reply_to /\ r.sequence = n
  BY DEF Numbered

\* A record that answers another one by itself: nothing waits for it.
Reaction(k, q, a) == Queued(k, q, a) /\ SameTables(k, q)

\* A record that needs no answer and fits is queued, or the queue was full.
LEMMA SmallQueueFacts ==
    ASSUME NEW k \in Connection, NEW m \in Letter, ~ AckRequired(m.kind),
           m.size <= MaximumPayload(k)
    PROVE  LET q == QueueInternal(k, m)
           IN  \/ q.status # "OK" /\ Ended(k, q) /\ q.failures = k.failures
                  /\ QueueLimitExceeded(k) /\ q.incoming = k.incoming
               \/ /\ q.status = "OK" /\ q.state = k.state /\ q.failures = k.failures
                  /\ Reaction(k, q, Numbered(m, k.next_send))
  <1>1. m.size \in Nat /\ MaximumPayload(k) \in Nat
    BY ConfigFacts DEF Letter
  <1>2. ~ (m.size > MaximumPayload(k))
    BY <1>1
  <1> QED
    BY <1>2, QueueFacts DEF Reaction, SameTables

\* The fields of a record, and the automatic answers to it.
LEMMA RecordFacts ==
    ASSUME NEW r \in Record
    PROVE  /\ r.kind \in Kinds /\ r.id \in Identities /\ r.size \in Nat /\ r.reply_to \in Nat
           /\ r.sequence \in Nat \ {0} /\ r.sequence \in Nat
           /\ r.kind = "SESSION_STATE_CHANGE" => r.id \in Nat
           /\ Message("PROTOCOL_ERROR", 0, 1, r.sequence) \in Letter
           /\ Message("PONG", r.id, 1, r.sequence) \in Letter
  <1>1. /\ r.kind \in Kinds /\ r.id \in Identities /\ r.size \in Nat /\ r.reply_to \in Nat
        /\ r.sequence \in Nat \ {0} /\ r.sequence \in Nat
        /\ r.kind = "SESSION_STATE_CHANGE" => r.id \in Nat
    BY DEF Record
  <1>2. "PROTOCOL_ERROR" \in Kinds /\ "PONG" \in Kinds /\ 0 \in Identities /\ 1 \in Nat
    BY DEF Kinds, Automatic, Identities
  <1> QED
    BY <1>1, <1>2, LetterFacts

\* protocol_failure tells an established peer and closes behind it, or closes.
LEMMA ProtocolFailureFacts ==
    ASSUME NEW k \in Connection, NEW code \in Codes, NEW r \in Record, NEW result \in Statuses
    PROVE  LET q == ProtocolFailure(k, code, r, result)
               a == Numbered(Message("PROTOCOL_ERROR", 0, 1, r.sequence), k.next_send)
           IN  \/ Ended(k, q) /\ q.failures \subseteq k.failures \cup {code}
               \/ /\ k.state = "ESTABLISHED" /\ q.state = "CLOSING" /\ Reaction(k, q, a)
                  /\ q.failures \subseteq k.failures \cup {code}
  <1> DEFINE m == Message("PROTOCOL_ERROR", 0, 1, r.sequence)
             i == QueueInternal(k, m)
             f == [i EXCEPT !.failures = i.failures \cup {code}]
             g == [k EXCEPT !.failures = k.failures \cup {code}]
             c == [f EXCEPT !.state = "CLOSING", !.close_after_flush = TRUE, !.status = result]
             q == ProtocolFailure(k, code, r, result)
  <1>1. m \in Letter /\ m.kind = "PROTOCOL_ERROR" /\ m.size = 1 /\ ~ AckRequired(m.kind)
    BY RecordFacts, MessageFacts, KindFacts DEF Answers
  <1>2. k.failures \in SUBSET Codes /\ k.failures \cup {code} \in SUBSET Codes
    BY DEF Connection
  <1>3. CASE k.state # "ESTABLISHED"
    <2>1. q = SetClosed(g, result)
      BY <1>3 DEF ProtocolFailure
    <2>2. g \in Connection
      BY <1>2 DEF Connection
    <2>3. /\ g.failures = k.failures \cup {code} /\ g.config = k.config
          /\ g.next_send = k.next_send /\ g.next_receive = k.next_receive
          /\ g.incoming = k.incoming /\ g.last_outgoing = k.last_outgoing
      BY DEF Connection
    <2> HIDE DEF g
    <2>4. Ended(g, q) /\ q.failures = g.failures
      BY <2>1, <2>2, SetClosedFacts
    <2> QED
      BY <2>3, <2>4 DEF Ended
  <1>4. CASE k.state = "ESTABLISHED"
    <2>1. \/ /\ i.status # "OK" /\ (Same(k, i) \/ Ended(k, i)) /\ i.failures = k.failures
          \/ /\ i.status = "OK" /\ i.failures = k.failures
             /\ Reaction(k, i, Numbered(m, k.next_send))
      <3> HIDE DEF m
      <3> QED
        BY <1>1, QueueFacts DEF Reaction, SameTables, Same
    <2>2. i \in Connection
      BY <2>1 DEF Same, Ended, Reaction, Queued
    <2>3. q = IF i.status # "OK" THEN SetClosed(f, result) ELSE c
      BY <1>4 DEF ProtocolFailure
    <2> HIDE DEF i, m
    <2>4. f \in Connection /\ f.failures = i.failures \cup {code}
      BY <1>2, <2>1, <2>2 DEF Connection
    <2>5. /\ f.config = i.config /\ f.peer = i.peer /\ f.outgoing = i.outgoing
          /\ f.next_send = i.next_send /\ f.next_receive = i.next_receive
          /\ f.incoming = i.incoming /\ f.last_outgoing = i.last_outgoing
          /\ SameTables(i, f)
      BY <2>2 DEF Connection, SameTables
    <2> HIDE DEF f
    <2>6. CASE i.status # "OK"
      <3>1. q = SetClosed(f, result)
        BY <2>3, <2>6
      <3>2. Ended(f, q) /\ q.failures = f.failures
        BY <3>1, <2>4, SetClosedFacts
      <3>3. Same(k, i) \/ Ended(k, i)
        BY <2>1, <2>6
      <3>4. Ended(k, q)
        BY <3>2, <3>3, <2>5 DEF Ended, Same, SameTables
      <3> QED
        BY <3>2, <3>4, <2>1, <2>4
    <2>7. CASE i.status = "OK"
      <3>1. q = c
        BY <2>3, <2>7
      <3>2. c \in Connection
        BY <2>4 DEF Connection, States
      <3>3. /\ c.state = "CLOSING" /\ c.failures = f.failures
            /\ c.config = f.config /\ c.peer = f.peer /\ c.outgoing = f.outgoing
            /\ c.next_send = f.next_send /\ c.next_receive = f.next_receive
            /\ c.incoming = f.incoming /\ SameTables(f, c)
        BY <2>4 DEF Connection, SameTables
      <3> HIDE DEF c
      <3>4. Reaction(k, c, Numbered(m, k.next_send))
        BY <3>2, <3>3, <2>1, <2>5, <2>7 DEF Reaction, Queued, SameTables
      <3> QED
        BY <3>1, <3>3, <3>4, <1>4, <2>1, <2>4 DEF m
    <2> QED
      BY <2>6, <2>7
  <1> QED
    BY <1>3, <1>4

\* unsupported_message answers; only a critical type ends the connection.
LEMMA UnsupportedFacts ==
    ASSUME NEW k \in Connection, NEW r \in Record, 1 <= MaximumPayload(k)
    PROVE  LET q == UnsupportedMessage(k, r)
               a == Numbered(Message("PROTOCOL_ERROR", 0, 1, r.sequence), k.next_send)
           IN  \/ Ended(k, q) /\ q.failures = k.failures
               \/ q.state = k.state /\ Reaction(k, q, a) /\ q.failures = k.failures
               \/ /\ r.kind = "CRITICAL_UNKNOWN" /\ q.state = "CLOSING" /\ Reaction(k, q, a)
                  /\ q.failures = k.failures \cup {"UnsupportedMessage"}
  <1> DEFINE m == Message("PROTOCOL_ERROR", 0, 1, r.sequence)
             i == QueueInternal(k, m)
             c == [i EXCEPT !.state = "CLOSING", !.close_after_flush = TRUE,
                            !.status = "PROTOCOL_ERROR",
                            !.failures = i.failures \cup {"UnsupportedMessage"}]
             q == UnsupportedMessage(k, r)
  <1>1. m \in Letter /\ m.kind = "PROTOCOL_ERROR" /\ m.size = 1 /\ ~ AckRequired(m.kind)
    BY RecordFacts, MessageFacts, KindFacts DEF Answers
  <1>2. q = IF i.status # "OK" THEN SetClosed(k, i.status)
            ELSE IF r.kind = "CRITICAL_UNKNOWN" THEN c ELSE i
    BY DEF UnsupportedMessage
  <1>3. \/ i.status # "OK" /\ Ended(k, i) /\ i.failures = k.failures
        \/ /\ i.status = "OK" /\ i.state = k.state /\ i.failures = k.failures
           /\ Reaction(k, i, Numbered(m, k.next_send))
    <2> HIDE DEF m
    <2> QED
      BY <1>1, SmallQueueFacts
  <1>4. i \in Connection
    BY <1>3 DEF Ended, Reaction, Queued
  <1> HIDE DEF i, m
  <1>5. CASE i.status # "OK"
    <2>1. i.status \in Statuses
      BY <1>4 DEF Connection
    <2> QED
      BY <1>2, <1>5, <2>1, SetClosedFacts
  <1>6. CASE i.status = "OK" /\ r.kind # "CRITICAL_UNKNOWN"
    BY <1>2, <1>3, <1>6 DEF m
  <1>7. CASE i.status = "OK" /\ r.kind = "CRITICAL_UNKNOWN"
    <2>1. i.failures \cup {"UnsupportedMessage"} \in SUBSET Codes
      BY <1>4 DEF Connection, Codes
    <2>2. c \in Connection
      BY <1>4, <2>1 DEF Connection, States, Statuses
    <2>3. /\ c.state = "CLOSING" /\ c.failures = i.failures \cup {"UnsupportedMessage"}
          /\ c.config = i.config /\ c.peer = i.peer /\ c.outgoing = i.outgoing
          /\ c.next_send = i.next_send /\ c.next_receive = i.next_receive
          /\ c.incoming = i.incoming /\ SameTables(i, c)
      BY <1>4 DEF Connection, SameTables
    <2>4. q = c
      BY <1>2, <1>7
    <2> HIDE DEF c
    <2>5. Reaction(k, c, Numbered(m, k.next_send))
      BY <2>2, <2>3, <1>3, <1>7 DEF Reaction, Queued, SameTables
    <2> QED
      BY <2>3, <2>4, <2>5, <1>3, <1>7 DEF m
  <1> QED
    BY <1>5, <1>6, <1>7

\* Only the snapshot messages and items move a snapshot.
LEMMA SnapshotAfterFacts ==
    ASSUME NEW s \in Snapshot, NEW r \in Record
    PROVE  /\ SnapshotAfter(s, r) \in Snapshot
           /\ r.kind \notin SnapshotControl \cup {"ITEM"} => SnapshotAfter(s, r) = s
  <1>1. r.id \in Identities
    BY RecordFacts
  <1>2. NoSnapshot \in Snapshot
    BY DEF NoSnapshot, Snapshot, Identities
  <1>3. [active |-> TRUE, expected |-> r.id, count |-> 0] \in Snapshot
    BY <1>1 DEF Snapshot
  <1>4. [s EXCEPT !.count = s.count + 1] \in Snapshot
    BY DEF Snapshot
  <1> QED
    BY <1>2, <1>3, <1>4 DEF SnapshotAfter, SnapshotControl

\* What TakeReply forgets.
LEMMA TakeReplyFacts ==
    ASSUME NEW k \in Connection, NEW r \in Record
    PROVE  LET t == TakeReply(k, r)
           IN  /\ t \in Connection /\ t.state = k.state /\ t.config = k.config /\ t.peer = k.peer
               /\ t.next_send = k.next_send /\ t.next_receive = k.next_receive
               /\ t.outgoing = k.outgoing /\ t.incoming = k.incoming /\ t.failures = k.failures
               /\ t.incoming_requests = k.incoming_requests
               /\ t.last_outgoing = k.last_outgoing /\ t.last_incoming = k.last_incoming
               /\ t.outgoing_snapshot = k.outgoing_snapshot
               /\ t.incoming_snapshot = k.incoming_snapshot
               /\ r.kind \notin Answers => t = k
               /\ \A n \in k.pending_replies :
                    n \in t.pending_replies \/ (r.kind \in Answers /\ n = r.reply_to)
               /\ \A x \in k.pending :
                    x \in t.pending \/ (r.kind \in Answers /\ x.sequence = r.reply_to)
  <1> DEFINE t == TakeReply(k, r)
             c == k.pending \ Entry(k.pending, r.reply_to)
             d == k.pending_replies \ {r.reply_to}
             a == [k EXCEPT !.pending = c, !.pending_replies = d]
             b == [k EXCEPT !.pending_replies = d]
  <1>1. /\ r.kind \in ReplyKinds \cup {"PONG"} => t = a
        /\ r.kind = "PROTOCOL_ERROR" => t = b
        /\ r.kind \notin Answers => t = k
    BY KindFacts DEF TakeReply, Answers
  <1>2. k.pending \in SUBSET Entries /\ k.pending_replies \in SUBSET Nat
    BY DEF Connection
  <1>3. /\ c \in SUBSET Entries /\ d \in SUBSET Nat
        /\ \A n \in k.pending_replies : n \in d \/ n = r.reply_to
        /\ \A x \in k.pending : x \in c \/ x.sequence = r.reply_to
    BY <1>2 DEF Entry
  <1> HIDE DEF c, d
  <1>4. /\ a \in Connection /\ a.state = k.state /\ a.config = k.config /\ a.peer = k.peer
        /\ a.next_send = k.next_send /\ a.next_receive = k.next_receive
        /\ a.outgoing = k.outgoing /\ a.incoming = k.incoming /\ a.failures = k.failures
        /\ a.incoming_requests = k.incoming_requests
        /\ a.last_outgoing = k.last_outgoing /\ a.last_incoming = k.last_incoming
        /\ a.outgoing_snapshot = k.outgoing_snapshot
        /\ a.incoming_snapshot = k.incoming_snapshot
        /\ a.pending = c /\ a.pending_replies = d
    BY <1>3 DEF Connection
  <1>5. /\ b \in Connection /\ b.state = k.state /\ b.config = k.config /\ b.peer = k.peer
        /\ b.next_send = k.next_send /\ b.next_receive = k.next_receive
        /\ b.outgoing = k.outgoing /\ b.incoming = k.incoming /\ b.failures = k.failures
        /\ b.incoming_requests = k.incoming_requests
        /\ b.last_outgoing = k.last_outgoing /\ b.last_incoming = k.last_incoming
        /\ b.outgoing_snapshot = k.outgoing_snapshot
        /\ b.incoming_snapshot = k.incoming_snapshot
        /\ b.pending = k.pending /\ b.pending_replies = d
    BY <1>3 DEF Connection
  <1> HIDE DEF a, b, t
  <1>6. CASE r.kind \in ReplyKinds \cup {"PONG"}
    <2>1. t = a /\ r.kind \in Answers
      BY <1>1, <1>6 DEF Answers
    <2> QED
      BY <2>1, <1>3, <1>4 DEF t
  <1>7. CASE r.kind = "PROTOCOL_ERROR"
    <2>1. t = b /\ r.kind \in Answers
      BY <1>1, <1>7 DEF Answers
    <2> QED
      BY <2>1, <1>3, <1>5 DEF t
  <1>8. CASE r.kind \notin Answers
    <2>1. t = k
      BY <1>1, <1>8
    <2> QED
      BY <2>1, <1>8 DEF t
  <1> QED
    BY <1>6, <1>7, <1>8 DEF Answers

\* A connection that gives up answers once more and sends nothing else.
Breaks(k, q, a) ==
  /\ q.state = "CLOSING" /\ Queued(k, q, a)
  /\ q.last_outgoing = k.last_outgoing /\ q.outgoing_snapshot = k.outgoing_snapshot

\* A record an application will see.
Absorbs(k, q, r) ==
  /\ q \in Connection /\ q.state = k.state /\ q.config = k.config /\ q.peer = k.peer
  /\ q.next_send = k.next_send /\ q.next_receive = k.next_receive
  /\ q.outgoing = k.outgoing /\ q.failures = k.failures
  /\ q.incoming = Append(k.incoming, r)
  /\ Len(k.incoming) < k.config.maximum_queued_messages
  /\ q.last_outgoing = k.last_outgoing /\ q.outgoing_snapshot = k.outgoing_snapshot
  /\ q.incoming_snapshot = k.incoming_snapshot
  /\ q.pending = k.pending /\ q.pending_replies = k.pending_replies
  /\ \A x \in q.incoming_requests :
       x \in k.incoming_requests \/ (x = EntryOf(r) /\ r.kind \in RequestKinds)
  /\ \/ q.last_incoming = k.last_incoming
     \/ r.kind = "SESSION_STATE_CHANGE" /\ q.last_incoming = r.id

\* queue_received keeps a request that is not stale, or fails on a full queue.
LEMMA QueueReceivedFacts ==
    ASSUME NEW k \in Connection, NEW r \in Record, ~ Stale(k, r), k.state = "ESTABLISHED"
    PROVE  LET q == QueueReceived(k, r)
               a == Numbered(Message("PROTOCOL_ERROR", 0, 1, r.sequence), k.next_send)
           IN  \/ Ended(k, q) /\ q.failures \subseteq k.failures \cup {"LimitExceeded"}
               \/ Breaks(k, q, a) /\ q.failures \subseteq k.failures \cup {"LimitExceeded"}
               \/ Absorbs(k, q, r)
  <1> DEFINE full == TableFull(k, r) \/ Len(k.incoming) >= k.config.maximum_queued_messages
             b == [k EXCEPT !.incoming = Append(k.incoming, r), !.status = "OK"]
             c == TrackIncomingRequest(b, r)
             d == CommitIncomingRequest(c, r)
             q == QueueReceived(k, r)
  <1>1. q = IF full THEN ProtocolFailure(k, "LimitExceeded", r, "LIMIT_EXCEEDED") ELSE d
    BY DEF QueueReceived
  <1>2. CASE full
    <2>1. q = ProtocolFailure(k, "LimitExceeded", r, "LIMIT_EXCEEDED")
      BY <1>1, <1>2
    <2>2. "LimitExceeded" \in Codes /\ "LIMIT_EXCEEDED" \in Statuses
      BY DEF Codes, Statuses
    <2> HIDE DEF q, full
    <2> QED
      BY <2>1, <2>2, ProtocolFailureFacts DEF Breaks, Reaction, SameTables, q
  <1>3. CASE ~ full
    <2>1. Len(k.incoming) < k.config.maximum_queued_messages
      <3>1. Len(k.incoming) \in Nat /\ k.config.maximum_queued_messages \in Nat
        BY ConfigFacts, LenProperties DEF Connection
      <3> QED
        BY <3>1, <1>3
    <2>2. Append(k.incoming, r) \in Seq(Record)
      BY AppendProperties DEF Connection
    <2>3. /\ b \in Connection /\ b.state = k.state /\ b.config = k.config /\ b.peer = k.peer
          /\ b.next_send = k.next_send /\ b.next_receive = k.next_receive
          /\ b.outgoing = k.outgoing /\ b.failures = k.failures
          /\ b.incoming = Append(k.incoming, r)
          /\ b.last_outgoing = k.last_outgoing /\ b.last_incoming = k.last_incoming
          /\ b.outgoing_snapshot = k.outgoing_snapshot
          /\ b.incoming_snapshot = k.incoming_snapshot
          /\ b.pending = k.pending /\ b.pending_replies = k.pending_replies
          /\ b.incoming_requests = k.incoming_requests
      BY <2>2 DEF Connection, Statuses
    <2> HIDE DEF b
    <2> DEFINE more == b.incoming_requests \cup {EntryOf(r)}
    <2>4. more \in SUBSET Entries
      <3>1. EntryOf(r) \in Entries
        BY RecordFacts DEF EntryOf, Entries
      <3> QED
        BY <3>1, <2>3 DEF Connection
    <2>5. \/ c = b
          \/ c = [b EXCEPT !.incoming_requests = more] /\ r.kind \in RequestKinds
      BY DEF TrackIncomingRequest, EntryOf
    <2> HIDE DEF more, c
    <2>6. /\ c \in Connection /\ c.state = b.state /\ c.config = b.config /\ c.peer = b.peer
          /\ c.next_send = b.next_send /\ c.next_receive = b.next_receive
          /\ c.outgoing = b.outgoing /\ c.failures = b.failures
          /\ c.incoming = b.incoming
          /\ c.last_outgoing = b.last_outgoing /\ c.last_incoming = b.last_incoming
          /\ c.outgoing_snapshot = b.outgoing_snapshot
          /\ c.incoming_snapshot = b.incoming_snapshot
          /\ c.pending = b.pending /\ c.pending_replies = b.pending_replies
          /\ \/ c.incoming_requests = b.incoming_requests
             \/ c.incoming_requests = more /\ r.kind \in RequestKinds
      <3>1. CASE c = b
        BY <3>1, <2>3
      <3>2. CASE c = [b EXCEPT !.incoming_requests = more] /\ r.kind \in RequestKinds
        BY <3>2, <2>3, <2>4 DEF Connection
      <3> QED
        BY <3>1, <3>2, <2>5
    <2>7. \/ d = c
          \/ d = [c EXCEPT !.last_incoming = r.id] /\ r.kind = "SESSION_STATE_CHANGE"
      BY DEF CommitIncomingRequest
    <2> HIDE DEF d
    <2>8. /\ d \in Connection /\ d.state = c.state /\ d.config = c.config /\ d.peer = c.peer
          /\ d.next_send = c.next_send /\ d.next_receive = c.next_receive
          /\ d.outgoing = c.outgoing /\ d.failures = c.failures
          /\ d.incoming = c.incoming
          /\ d.last_outgoing = c.last_outgoing
          /\ d.outgoing_snapshot = c.outgoing_snapshot
          /\ d.incoming_snapshot = c.incoming_snapshot
          /\ d.pending = c.pending /\ d.pending_replies = c.pending_replies
          /\ d.incoming_requests = c.incoming_requests
          /\ \/ d.last_incoming = c.last_incoming
             \/ r.kind = "SESSION_STATE_CHANGE" /\ d.last_incoming = r.id
      <3>1. CASE d = c
        BY <3>1, <2>6
      <3>2. CASE d = [c EXCEPT !.last_incoming = r.id] /\ r.kind = "SESSION_STATE_CHANGE"
        <4>1. r.id \in Nat
          BY <3>2, RecordFacts
        <4> QED
          BY <4>1, <3>2, <2>6 DEF Connection
      <3> QED
        BY <3>1, <3>2, <2>7
    <2>9. \A x \in d.incoming_requests :
            x \in k.incoming_requests \/ (x = EntryOf(r) /\ r.kind \in RequestKinds)
      BY <2>3, <2>6, <2>8 DEF more
    <2>10. q = d
      BY <1>1, <1>3
    <2> HIDE DEF q, full
    <2>11. Absorbs(k, d, r)
      BY <2>1, <2>3, <2>6, <2>8, <2>9 DEF Absorbs
    <2> QED
      BY <2>10, <2>11 DEF q
  <1> QED
    BY <1>2, <1>3

\* A record an established end takes without complaint.
Acceptable(k, r) ==
  /\ k.state = "ESTABLISHED" /\ 1 <= MaximumPayload(k)
  /\ r.kind \notin Opening /\ ReplyExpected(k, r) /\ ~ Stale(k, r)
  /\ ValidateApplication(TakeReply(k, r), r, k.incoming_snapshot,
                         k.peer.role, k.config.role) = "OK"

\* ... and what becomes of it.
Absorbed(k, q, r) ==
  /\ q \in Connection /\ q.state = k.state /\ q.config = k.config /\ q.peer = k.peer
  /\ q.next_send = k.next_send /\ q.next_receive = k.next_receive
  /\ q.outgoing = k.outgoing /\ q.failures = k.failures
  /\ q.incoming = Append(k.incoming, r)
  /\ Len(k.incoming) < k.config.maximum_queued_messages
  /\ q.last_outgoing = k.last_outgoing /\ q.outgoing_snapshot = k.outgoing_snapshot
  /\ q.incoming_snapshot = SnapshotAfter(k.incoming_snapshot, r)
  /\ \A n \in k.pending_replies :
       n \in q.pending_replies \/ (r.kind \in Answers /\ n = r.reply_to)
  /\ \A x \in k.pending : x \in q.pending \/ (r.kind \in Answers /\ x.sequence = r.reply_to)
  /\ \A x \in q.incoming_requests :
       x \in k.incoming_requests \/ (x = EntryOf(r) /\ r.kind \in RequestKinds)
  /\ \/ q.last_incoming = k.last_incoming
     \/ r.kind = "SESSION_STATE_CHANGE" /\ q.last_incoming = r.id

\* An acceptable record is taken, answered or met by a full queue; nothing else
\* ends the connection but a critical unknown type.
LEMMA ReceiveEstablishedFacts ==
    ASSUME NEW k \in Connection, NEW r \in Record, Acceptable(k, r)
    PROVE  LET q == ReceiveEstablished(k, r)
               a == Numbered(Message("PROTOCOL_ERROR", 0, 1, r.sequence), k.next_send)
               b == Numbered(Message("PONG", r.id, 1, r.sequence), k.next_send)
           IN  \/ Ended(k, q) /\ q.failures \subseteq k.failures \cup {"LimitExceeded"}
               \/ /\ Breaks(k, q, a)
                  /\ \/ q.failures \subseteq k.failures \cup {"LimitExceeded"}
                     \/ /\ r.kind = "CRITICAL_UNKNOWN"
                        /\ q.failures = k.failures \cup {"UnsupportedMessage"}
               \/ /\ q.state = k.state /\ q.failures = k.failures
                  /\ \/ r.kind = "PING" /\ Reaction(k, q, b)
                     \/ r.kind \in {"UNKNOWN", "CRITICAL_UNKNOWN"} /\ Reaction(k, q, a)
               \/ Absorbed(k, q, r)
  <1> DEFINE t == TakeReply(k, r)
             u == [t EXCEPT !.incoming_snapshot = SnapshotAfter(t.incoming_snapshot, r)]
             a == Numbered(Message("PROTOCOL_ERROR", 0, 1, r.sequence), k.next_send)
             b == Numbered(Message("PONG", r.id, 1, r.sequence), k.next_send)
             q == ReceiveEstablished(k, r)
  <1>1. q = IF r.kind = "PING"
              THEN QueueInternal(t, Message("PONG", r.id, 1, r.sequence))
            ELSE IF r.kind \in {"UNKNOWN", "CRITICAL_UNKNOWN"} THEN UnsupportedMessage(t, r)
            ELSE QueueReceived(u, r)
    BY DEF ReceiveEstablished, Supported, Acceptable, Opening
  <1>2. /\ k.state = "ESTABLISHED" /\ 1 <= MaximumPayload(k) /\ ~ Stale(k, r)
    BY DEF Acceptable
  <1>3. CASE r.kind = "PING"
    <2>1. t = k
      BY <1>3, TakeReplyFacts, KindFacts
    <2>2. q = QueueInternal(k, Message("PONG", r.id, 1, r.sequence))
      BY <1>1, <1>3, <2>1
    <2> DEFINE m == Message("PONG", r.id, 1, r.sequence)
    <2>3. m \in Letter /\ ~ AckRequired(m.kind) /\ m.size <= MaximumPayload(k)
      BY <1>2, RecordFacts, MessageFacts, KindFacts DEF Answers
    <2> HIDE DEF m, q
    <2>4. \/ q.status # "OK" /\ Ended(k, q) /\ q.failures = k.failures
          \/ /\ q.status = "OK" /\ q.state = k.state /\ q.failures = k.failures
             /\ Reaction(k, q, Numbered(m, k.next_send))
      BY <2>2, <2>3, SmallQueueFacts DEF m
    <2> QED
      BY <1>3, <2>4 DEF m, q
  <1>4. CASE r.kind \in {"UNKNOWN", "CRITICAL_UNKNOWN"}
    <2>1. t = k /\ r.kind # "PING"
      <3>1. r.kind \notin Answers
        BY <1>4 DEF Answers, ReplyKinds, RequestKinds, ReplyOf
      <3> QED
        BY <3>1, <1>4, TakeReplyFacts
    <2>2. q = UnsupportedMessage(k, r)
      BY <1>1, <1>4, <2>1
    <2> HIDE DEF q
    <2>3. \/ Ended(k, q) /\ q.failures = k.failures
          \/ q.state = k.state /\ Reaction(k, q, a) /\ q.failures = k.failures
          \/ /\ r.kind = "CRITICAL_UNKNOWN" /\ q.state = "CLOSING" /\ Reaction(k, q, a)
             /\ q.failures = k.failures \cup {"UnsupportedMessage"}
      BY <2>2, <1>2, UnsupportedFacts
    <2> QED
      BY <1>4, <2>3 DEF Breaks, Reaction, SameTables, q
  <1>5. CASE r.kind \notin {"PING", "UNKNOWN", "CRITICAL_UNKNOWN"}
    <2>1. q = QueueReceived(u, r)
      BY <1>1, <1>5
    <2>2. /\ t \in Connection /\ t.state = k.state /\ t.config = k.config /\ t.peer = k.peer
          /\ t.next_send = k.next_send /\ t.next_receive = k.next_receive
          /\ t.outgoing = k.outgoing /\ t.incoming = k.incoming /\ t.failures = k.failures
          /\ t.incoming_requests = k.incoming_requests
          /\ t.last_outgoing = k.last_outgoing /\ t.last_incoming = k.last_incoming
          /\ t.outgoing_snapshot = k.outgoing_snapshot
          /\ t.incoming_snapshot = k.incoming_snapshot
          /\ \A n \in k.pending_replies :
               n \in t.pending_replies \/ (r.kind \in Answers /\ n = r.reply_to)
          /\ \A x \in k.pending :
               x \in t.pending \/ (r.kind \in Answers /\ x.sequence = r.reply_to)
      BY TakeReplyFacts
    <2>3. SnapshotAfter(t.incoming_snapshot, r) \in Snapshot
      BY <2>2, SnapshotAfterFacts DEF Connection
    <2> DEFINE s == SnapshotAfter(t.incoming_snapshot, r)
    <2> HIDE DEF s, t
    <2>4. /\ u \in Connection /\ u.state = t.state /\ u.config = t.config /\ u.peer = t.peer
          /\ u.next_send = t.next_send /\ u.next_receive = t.next_receive
          /\ u.outgoing = t.outgoing /\ u.incoming = t.incoming /\ u.failures = t.failures
          /\ u.incoming_requests = t.incoming_requests
          /\ u.last_outgoing = t.last_outgoing /\ u.last_incoming = t.last_incoming
          /\ u.outgoing_snapshot = t.outgoing_snapshot /\ u.incoming_snapshot = s
          /\ u.pending = t.pending /\ u.pending_replies = t.pending_replies
      BY <2>2, <2>3 DEF Connection, s
    <2>5. ~ Stale(u, r)
      BY <1>2, <2>2, <2>4 DEF Stale
    <2> HIDE DEF u, q, a
    <2>6. \/ Ended(u, q) /\ q.failures \subseteq u.failures \cup {"LimitExceeded"}
          \/ Breaks(u, q, a) /\ q.failures \subseteq u.failures \cup {"LimitExceeded"}
          \/ Absorbs(u, q, r)
      BY <2>1, <2>2, <2>4, <2>5, <1>2, QueueReceivedFacts DEF a
    <2>7. Ended(u, q) => Ended(k, q)
      BY <2>2, <2>4 DEF Ended
    <2>8. Breaks(u, q, a) => Breaks(k, q, a)
      BY <2>2, <2>4 DEF Breaks, Queued
    <2>9. Absorbs(u, q, r) => Absorbed(k, q, r)
      BY <2>2, <2>4 DEF Absorbs, Absorbed, s
    <2> QED
      BY <2>2, <2>4, <2>6, <2>7, <2>8, <2>9 DEF a, q
  <1> QED
    BY <1>3, <1>4, <1>5

-----------------------------------------------------------------------------
(* The record an end takes is one it expects *)

\* The limit of an established end is the smaller of the two configured ones.
LEMMA LimitFacts ==
    ASSUME Types, Stages, NEW e \in Ends
    PROVE  /\ Limit \in Nat /\ 1 <= Limit /\ Limit <= conn[e].config.maximum_payload
           /\ conn[e].state = "ESTABLISHED" => MaximumPayload(conn[e]) = Limit
           /\ 1 <= MaximumPayload(conn[e]) /\ Limit <= MaximumPayload(conn[e])
  <1>1. /\ Client.maximum_payload \in Nat \ {0} /\ Server.maximum_payload \in Nat \ {0}
    BY EndFacts, EndTypes, ConfigFacts DEF Client, Server
  <1>2. /\ Limit \in Nat /\ 1 <= Limit /\ Limit <= Client.maximum_payload
        /\ Limit <= Server.maximum_payload
    BY <1>1 DEF Limit, Least
  <1>3. e = "client" \/ e = "server"
    BY DEF Ends
  <1>4. Limit <= conn[e].config.maximum_payload
    BY <1>2, <1>3 DEF Client, Server
  <1>5. conn[e].state = "ESTABLISHED" => MaximumPayload(conn[e]) = Limit
    <2>1. conn[e].state = "ESTABLISHED" => conn[e].peer = Agreed(e)
      BY DEF Stages, StageOf
    <2> QED
      BY <2>1 DEF MaximumPayload, Agreed
  <1>6. conn[e].state # "ESTABLISHED" =>
          MaximumPayload(conn[e]) = conn[e].config.maximum_payload
    BY DEF MaximumPayload
  <1>7. MaximumPayload(conn[e]) \in {Limit, conn[e].config.maximum_payload}
        /\ conn[e].config.maximum_payload \in Nat
    BY <1>5, <1>6, EndTypes, ConfigFacts
  <1> DEFINE L == Limit
             M == MaximumPayload(conn[e])
             C == conn[e].config.maximum_payload
  <1>8. L \in Nat /\ C \in Nat /\ 1 <= L /\ L <= C /\ M \in {L, C}
    BY <1>2, <1>4, <1>7
  <1> HIDE DEF L, M, C
  <1>9. 1 <= M /\ L <= M
    BY <1>8
  <1> QED
    BY <1>2, <1>4, <1>5, <1>9 DEF L, M

\* The record read next is the one expected, legal and within the limit.
LEMMA HeadFacts ==
    ASSUME Inductive, NEW e \in Ends, wire[e] # <<>>
    PROVE  LET h == Head(wire[e])
           IN  /\ conn[e].state # "CLOSED" /\ h \in Transit(e) /\ h \in Record
               /\ h.sequence = conn[e].next_receive /\ LegalRecord(e, h)
               /\ h.size <= MaximumPayload(conn[e])
               /\ Tail(wire[e]) \in Seq(Record) /\ Len(Tail(wire[e])) = Len(wire[e]) - 1
               /\ Len(wire[e]) >= 1
  <1> DEFINE h == Head(wire[e])
             w == wire[e]
  <1>0. Types /\ Stages /\ Order /\ Legal
    BY DEF Inductive
  <1>1. /\ w \in Seq(Record) /\ Len(w) \in Nat /\ conn[e].next_receive \in Nat
    BY <1>0, EndTypes
  <1>2. conn[e].state # "CLOSED"
    BY <1>0 DEF Stages, StageOf
  <1>3. h \in Record /\ Tail(w) \in Seq(Record) /\ Len(Tail(w)) = Len(w) - 1
    BY <1>1, HeadTailProperties
  <1>4. Len(w) >= 1 /\ h = w[1]
    <2>1. Len(w) # 0
      BY <1>1, EmptySeq
    <2> QED
      BY <2>1, <1>1
  <1>5. 1 \in 1 .. Len(w)
    BY <1>4, <1>1
  <1>6. h \in Transit(e)
    BY <1>1, <1>4, <1>5, ToSetFacts DEF Transit
  <1>7. h.sequence = conn[e].next_receive
    <2>1. w[1].sequence = conn[e].next_receive + 1 - 1
      BY <1>0, <1>5 DEF Order, OrderOf
    <2> QED
      BY <2>1, <1>1, <1>4
  <1>8. LegalRecord(e, h)
    BY <1>0, <1>2, <1>6 DEF Legal
  <1>9. h.size <= MaximumPayload(conn[e])
    <2>1. /\ Limit \in Nat /\ 1 <= MaximumPayload(conn[e]) /\ Limit <= MaximumPayload(conn[e])
          /\ MaximumPayload(conn[e]) \in Nat
      BY <1>0, LimitFacts, EndTypes, ConfigFacts
    <2>2. h.size \in Nat /\ (h.size = 1 \/ h.size <= Limit)
      BY <1>3, <1>8, RecordFacts DEF LegalRecord
    <2> QED
      BY <2>1, <2>2
  <1> QED
    BY <1>2, <1>3, <1>4, <1>6, <1>7, <1>8, <1>9

\* The connection that has counted the record.
Counted(k) == [k EXCEPT !.next_receive = k.next_receive + 1]

\* Counting a record changes one counter.
LEMMA CountedFacts ==
    ASSUME NEW k \in Connection
    PROVE  LET n == Counted(k)
           IN  /\ n \in Connection /\ n.state = k.state /\ n.config = k.config /\ n.peer = k.peer
               /\ n.next_send = k.next_send /\ n.next_receive = k.next_receive + 1
               /\ n.outgoing = k.outgoing /\ n.incoming = k.incoming /\ n.failures = k.failures
               /\ SameTables(k, n) /\ MaximumPayload(n) = MaximumPayload(k)
  <1> DEFINE n == Counted(k)
  <1>1. k.next_receive + 1 \in Nat \ {0}
    BY DEF Connection
  <1>2. /\ n \in Connection /\ n.state = k.state /\ n.config = k.config /\ n.peer = k.peer
        /\ n.next_send = k.next_send /\ n.next_receive = k.next_receive + 1
        /\ n.outgoing = k.outgoing /\ n.incoming = k.incoming /\ n.failures = k.failures
        /\ SameTables(k, n)
    BY <1>1 DEF Counted, Connection, SameTables
  <1>3. MaximumPayload(n) = MaximumPayload(k)
    BY <1>2 DEF MaximumPayload
  <1> QED
    BY <1>2, <1>3

\* An established end finds nothing wrong with the next record.
LEMMA HeadIsAcceptable ==
    ASSUME Inductive, NEW e \in Ends, wire[e] # <<>>, conn[e].state = "ESTABLISHED"
    PROVE  Acceptable(Counted(conn[e]), Head(wire[e]))
  <1> DEFINE h == Head(wire[e])
             k == conn[e]
             p == Peer(e)
             n == Counted(k)
  <1>0. /\ Types /\ Stages /\ Order /\ Correlated /\ Generations /\ Chained
    BY DEF Inductive
  <1>1. /\ h \in Transit(e) /\ h \in Record /\ h.sequence = k.next_receive /\ LegalRecord(e, h)
    BY HeadFacts
  <1>2. /\ k \in Connection /\ k.next_receive \in Nat \ {0} /\ k.next_send \in Nat \ {0}
        /\ p \in Ends /\ Peer(p) = e /\ conn[p].next_receive \in Nat \ {0}
    BY <1>0, EndTypes
  <1>3. k.next_receive >= 2 /\ k.peer = Agreed(e)
    BY <1>0 DEF Stages, StageOf
  <1>4. /\ n \in Connection /\ n.state = "ESTABLISHED" /\ n.config = k.config /\ n.peer = k.peer
        /\ n.next_send = k.next_send /\ SameTables(k, n)
        /\ MaximumPayload(n) = MaximumPayload(k)
    BY <1>2, CountedFacts
  <1> HIDE DEF n
  <1>5. 1 <= MaximumPayload(n)
    BY <1>0, <1>4, LimitFacts
  <1>6. h.kind \notin Opening
    <2>1. h.sequence # 1
      BY <1>1, <1>2, <1>3
    <2> QED
      BY <2>1, <1>1 DEF LegalRecord
  <1>7. Hearing(e)
    BY DEF Hearing
  <1>8. ReplyExpected(n, h)
    <2>1. CASE h.kind \in ReplyKinds \cup {"PONG"}
      <3>1. h.kind \in Answers /\ h.kind # "PROTOCOL_ERROR"
        BY <2>1, KindFacts DEF Answers
      <3>2. /\ h.reply_to \in k.pending_replies
            /\ \E x \in k.pending :
                 x.sequence = h.reply_to /\ x.id = h.id /\ h.kind = AnswerTo(x.kind)
        BY <3>1, <1>0, <1>1, <1>7 DEF Correlated, Answering
      <3>3. n.pending_replies = k.pending_replies /\ n.pending = k.pending
        BY <1>4 DEF SameTables
      <3>4. PICK x \in n.pending :
              x.sequence = h.reply_to /\ x.id = h.id /\ h.kind = AnswerTo(x.kind)
        BY <3>2, <3>3
      <3>5. x \in Entry(n.pending, h.reply_to)
        BY <3>4 DEF Entry
      <3>6. h.kind = IF x.kind = "PING" THEN "PONG" ELSE ReplyOf(x.kind)
        BY <3>4 DEF AnswerTo
      <3>7. /\ h.reply_to \in n.pending_replies
            /\ \E y \in Entry(n.pending, h.reply_to) :
                 /\ y.id = h.id
                 /\ h.kind = IF y.kind = "PING" THEN "PONG" ELSE ReplyOf(y.kind)
        BY <3>2, <3>3, <3>4, <3>5, <3>6
      <3> QED
        BY <2>1, <3>1, <3>7 DEF ReplyExpected
    <2>2. CASE h.kind = "PROTOCOL_ERROR"
      <3>1. h.reply_to \in 1 .. conn[p].next_receive - 1
        BY <2>2, <1>0, <1>1, <1>7 DEF Correlated, Answering, Answers
      <3>2. conn[p].next_receive <= k.next_send
        BY <1>0, <1>2, Advance
      <3>3. h.reply_to \in 1 .. n.next_send - 1
        BY <3>1, <3>2, <1>2, <1>4
      <3>4. h.kind \notin ReplyKinds \cup {"PONG"}
        BY <2>2, KindFacts
      <3> QED
        BY <2>2, <3>3, <3>4 DEF ReplyExpected
    <2>3. CASE h.kind \notin Answers
      BY <2>3 DEF ReplyExpected, Answers
    <2> QED
      BY <2>1, <2>2, <2>3 DEF Answers
  <1>9. ~ Stale(n, h)
    <2>1. h.kind = "SESSION_STATE_CHANGE" => k.last_incoming < h.id /\ h.id \in Nat
      BY <1>0, <1>1, <1>7, RecordFacts DEF Generations, GenerationsOf
    <2>2. n.last_incoming = k.last_incoming /\ k.last_incoming \in Nat
      BY <1>2, <1>4 DEF SameTables, Connection
    <2> QED
      BY <2>1, <2>2 DEF Stale
  <1>10. ValidateApplication(TakeReply(n, h), h, n.incoming_snapshot, n.peer.role, n.config.role)
           = "OK"
    <2>1. TakeReply(n, h).peer = k.peer
      BY <1>1, <1>4, TakeReplyFacts
    <2>2. /\ RequiredCapability(h.kind) \subseteq Negotiated
          /\ ValidDirection(h.kind, conn[p].config.role, k.config.role)
          /\ ValidOutputRoles(h.kind, conn[p].config.role, k.config.role)
      BY <1>1, <1>6 DEF LegalRecord
    <2>3. k.peer.capabilities = Negotiated /\ k.peer.role = conn[p].config.role
      BY <1>3 DEF Agreed
    <2>4. Fits(n.incoming_snapshot, h)
      <3>1. PICK g \in [Nat -> Snapshot] : Follows(e, g)
        BY <1>0, <1>7 DEF Chained
      <3>2. g[k.next_receive - 1] = k.incoming_snapshot /\ Fits(g[h.sequence - 1], h)
        BY <3>1, <1>1 DEF Follows
      <3>3. n.incoming_snapshot = k.incoming_snapshot
        BY <1>4 DEF SameTables
      <3> QED
        BY <3>2, <3>3, <1>1
    <2> QED
      BY <2>1, <2>2, <2>3, <2>4, <1>4 DEF ValidateApplication, Fits
  <1> QED
    BY <1>4, <1>5, <1>6, <1>8, <1>9, <1>10 DEF Acceptable, n

-----------------------------------------------------------------------------
(* A step of one end *)

\* The kernel's part: what it took is gone, what was sent is there.
LEMMA KernelFacts ==
    ASSUME Types, NEW e \in Ends, NEW q \in Connection, NEW taken \in Nat,
           NEW sent \in Seq(Record), Kernel(e, q, taken, sent)
    PROVE  LET closes == q.state = "CLOSED" /\ conn[e].state # "CLOSED"
           IN  /\ conn' = [conn EXCEPT ![e] = q] /\ conn' \in [Ends -> Connection]
               /\ conn'[e] = q /\ conn'[Peer(e)] = conn[Peer(e)]
               /\ wire' \in [Ends -> Seq(Record)]
               /\ wire'[e] = IF closes THEN <<>> ELSE SubSeq(wire[e], taken + 1, Len(wire[e]))
               /\ wire'[Peer(e)] = IF gone[e] THEN wire[Peer(e)] ELSE wire[Peer(e)] \o sent
               /\ gone' \in [Ends -> BOOLEAN] /\ reset' \in [Ends -> BOOLEAN]
               /\ gone'[e] = gone[e] /\ (gone'[Peer(e)] <=> (gone[Peer(e)] \/ closes))
  <1> DEFINE p == Peer(e)
             closes == q.state = "CLOSED" /\ conn[e].state # "CLOSED"
             unread == SubSeq(wire[e], taken + 1, Len(wire[e]))
             kept == IF closes THEN <<>> ELSE unread
             with == IF gone[e] THEN wire[p] ELSE wire[p] \o sent
             lost == reset[p] \/ (closes /\ unread # <<>>)
             shut == gone[p] \/ closes
  <1>1. p \in Ends /\ p # e
    BY EndFacts
  <1>2. wire[e] \in Seq(Record) /\ wire[p] \in Seq(Record) /\ Len(wire[e]) \in Nat
    BY <1>1, EndTypes
  <1>3. unread \in Seq(Record)
    <2>1. \A i \in taken + 1 .. Len(wire[e]) : wire[e][i] \in Record
      <3>1. \A i \in 1 .. Len(wire[e]) : wire[e][i] \in Record
        BY <1>2, ElementOfSeq
      <3> QED
        BY <3>1, <1>2
    <2> QED
      BY <2>1, <1>2, SubSeqProperties
  <1>4. kept \in Seq(Record)
    BY <1>3, EmptySeq
  <1>5. with \in Seq(Record)
    BY <1>2, ConcatProperties
  <1>6. /\ conn' = [conn EXCEPT ![e] = q]
        /\ wire' = [wire EXCEPT ![e] = kept, ![p] = with]
        /\ gone' = [gone EXCEPT ![p] = shut] /\ reset' = [reset EXCEPT ![p] = lost]
    BY <1>1 DEF Kernel, Types
  <1>7. closes \in BOOLEAN /\ shut \in BOOLEAN /\ lost \in BOOLEAN
    BY <1>1 DEF Types
  <1> HIDE DEF kept, with, shut, lost, closes
  <1>8. /\ conn' \in [Ends -> Connection] /\ conn'[e] = q /\ conn'[p] = conn[p]
    BY <1>1, <1>6 DEF Types
  <1>9. wire' \in [Ends -> Seq(Record)] /\ wire'[e] = kept /\ wire'[p] = with
    BY <1>1, <1>4, <1>5, <1>6 DEF Types
  <1>10. /\ gone' \in [Ends -> BOOLEAN] /\ reset' \in [Ends -> BOOLEAN]
         /\ gone'[e] = gone[e] /\ gone'[p] = shut
    BY <1>1, <1>6, <1>7 DEF Types
  <1> QED
    BY <1>6, <1>8, <1>9, <1>10 DEF kept, with, shut, closes

\* What a step of e does besides exchanging records.
Rest(e) ==
  /\ wire' \in [Ends -> Seq(Record)]
  /\ gone' \in [Ends -> BOOLEAN] /\ reset' \in [Ends -> BOOLEAN]
  /\ turn' \in [Ends -> SUBSET {"in", "out", "hup"}]
  /\ accepted' \in [Ends -> Seq(Letter)] /\ delivered' \in [Ends -> Seq(Record)]
  /\ wire'[Peer(e)] = wire[Peer(e)] \/ conn[Peer(e)].state # "CLOSED"
  /\ turn'[Peer(e)] = turn[Peer(e)] /\ gone'[e] = gone[e]
  /\ gone'[Peer(e)] <=> conn'[e].state = "CLOSED"
  /\ Len(wire'[e]) <= SocketCapacity /\ Len(wire'[Peer(e)]) <= SocketCapacity
  /\ Len(conn'[e].outgoing) <= conn[e].config.maximum_queued_messages
  /\ Len(conn'[e].incoming) <= conn[e].config.maximum_queued_messages
  /\ StageOf(e)' /\ FailuresOf(e)'

\* A step of one end keeps the inductive invariant if its parts are kept.
LEMMA Preservation ==
    ASSUME Inductive, NEW e \in Ends, NEW T, NEW N, Moves(e, T, N), Order',
           conn' \in [Ends -> Connection], Lawful(e, T, N), Rest(e)
    PROVE  Inductive'
  <1> DEFINE p == Peer(e)
  <1>1. /\ p \in Ends /\ Peer(p) = e /\ \A d \in Ends : d = e \/ d = p
    BY EndFacts
  <1>2. conn'[p] = conn[p] /\ conn'[e].config = conn[e].config /\ conn'[e] \in Connection
    BY DEF Moves
  <1>3. Legal' /\ Correlated' /\ Generations' /\ Chained'
    BY <1>2, LawfulStep
  <1>4. Types'
    BY DEF Types, Rest
  <1>5. Stages'
    BY <1>2, StagesStep DEF Inductive, Rest
  <1>6. Bounded'
    <2>1. BoundedAt(e)'
      BY <1>2 DEF BoundedAt, Rest
    <2>2. BoundedAt(p)'
      BY <1>1, <1>2 DEF BoundedAt, Rest, Inductive, Bounded
    <2> QED
      BY <2>1, <2>2, <1>1 DEF Bounded
  <1>7. Failures'
    <2>1. FailuresOf(p)'
      BY <1>1, <1>2 DEF Inductive, Failures, FailuresOf
    <2> QED
      BY <2>1, <1>1 DEF Failures, Rest
  <1> QED
    BY <1>3, <1>4, <1>5, <1>6, <1>7 DEF Inductive

\* A step of e that exchanges records, ...
Carries(e, q, T, N) ==
  /\ Exchanges(e, q, T, N) /\ Lawful(e, T, N)
  /\ gone' \in [Ends -> BOOLEAN] /\ gone'[e] = gone[e] /\ gone'[Peer(e)] = gone[Peer(e)]
  /\ reset' \in [Ends -> BOOLEAN]
  /\ turn' \in [Ends -> SUBSET {"in", "out", "hup"}] /\ turn'[Peer(e)] = turn[Peer(e)]
  /\ accepted' \in [Ends -> Seq(Letter)] /\ delivered' \in [Ends -> Seq(Record)]
  /\ Len(q.outgoing) <= conn[e].config.maximum_queued_messages
  /\ Len(q.incoming) <= conn[e].config.maximum_queued_messages
  /\ StageOf(e)' /\ FailuresOf(e)'
\* ... and one that ends its connection, sending n records first.
Closes(e, q, taken, n) ==
  /\ Kernel(e, q, taken, SubSeq(conn[e].outgoing, 1, n))
  /\ conn[e].state # "CLOSED"
  /\ Ended(conn[e], q) \/ (wire[e] # <<>> /\ Ended(Counted(conn[e]), q))
  /\ conn[Peer(e)].state = "CLOSED" => n = 0
  /\ Len(wire[Peer(e)]) + n <= SocketCapacity
  /\ turn' \in [Ends -> SUBSET {"in", "out", "hup"}] /\ turn'[Peer(e)] = turn[Peer(e)]
  /\ "in" \notin turn'[e]
  /\ accepted' \in [Ends -> Seq(Letter)] /\ delivered' \in [Ends -> Seq(Record)]
  /\ FailuresOf(e)'

\* ... where the end reads or queues records and stays open,
LEMMA Carrying ==
    ASSUME Inductive, NEW e \in Ends, NEW q \in Connection, NEW T, NEW N, Carries(e, q, T, N)
    PROVE  Inductive'
  <1> DEFINE p == Peer(e)
  <1>1. /\ p \in Ends /\ Peer(p) = e /\ Types /\ Order /\ Stages /\ Bounded
    BY EndFacts DEF Inductive
  <1>2. Moves(e, T, N) /\ Order' /\ conn' \in [Ends -> Connection]
    BY <1>1, Exchange DEF Carries
  <1>3. /\ conn'[e] = q /\ wire' \in [Ends -> Seq(Record)] /\ wire'[p] = wire[p]
        /\ q.state = "CLOSED" <=> conn[e].state = "CLOSED"
        /\ Takes(e, q, T)
    BY <1>1 DEF Carries, Exchanges, Types
  <1>4. gone'[p] <=> conn'[e].state = "CLOSED"
    <2>1. gone[p] <=> conn[e].state = "CLOSED"
      BY <1>1 DEF Stages
    <2> QED
      BY <2>1, <1>3 DEF Carries
  <1>5. Len(wire'[p]) <= SocketCapacity /\ Len(wire[e]) <= SocketCapacity
    BY <1>1, <1>3 DEF Bounded, BoundedAt
  <1>6. Len(wire'[e]) <= SocketCapacity
    <2>1. CASE wire'[e] = wire[e]
      BY <2>1, <1>5
    <2>2. CASE wire[e] # <<>> /\ wire'[e] = Tail(wire[e])
      <3>1. wire[e] \in Seq(Record) /\ Len(wire[e]) \in Nat
        BY <1>1, EndTypes
      <3>2. Len(Tail(wire[e])) = Len(wire[e]) - 1
        BY <2>2, <3>1, HeadTailProperties
      <3>3. Len(wire'[e]) = Len(wire[e]) - 1
        BY <2>2, <3>2
      <3> QED
        BY <3>1, <3>3, <1>5, IpcAssumption
    <2> QED
      BY <2>1, <2>2, <1>3 DEF Takes
  <1>7. Rest(e)
    BY <1>3, <1>4, <1>5, <1>6 DEF Rest, Carries
  <1>8. Lawful(e, T, N)
    BY DEF Carries
  <1> QED
    BY <1>2, <1>7, <1>8, Preservation

\* ... and where it closes behind what it could still send.
LEMMA Closing ==
    ASSUME Inductive, NEW e \in Ends, NEW q \in Connection, NEW taken \in Nat,
           NEW n \in 0 .. Len(conn[e].outgoing), Closes(e, q, taken, n)
    PROVE  Inductive'
  <1> DEFINE p == Peer(e)
             k == conn[e]
             f == SubSeq(k.outgoing, 1, n)
  <1>1. /\ p \in Ends /\ Peer(p) = e /\ Types /\ Order /\ Stages /\ Bounded
    BY EndFacts DEF Inductive
  <1>2. /\ k \in Connection /\ k.outgoing \in Seq(Record) /\ Len(k.outgoing) \in Nat
        /\ k.next_receive \in Nat \ {0} /\ wire[p] \in Seq(Record) /\ Len(wire[p]) \in Nat
        /\ k.incoming \in Seq(Record)
    BY <1>1, EndTypes
  <1>3. /\ q.state = "CLOSED" /\ q.outgoing = <<>> /\ q.config = k.config
        /\ q.next_send = k.next_send /\ q.incoming \in {k.incoming, <<>>}
        /\ q.last_outgoing = k.last_outgoing
        /\ \/ q.next_receive = k.next_receive
           \/ wire[e] # <<>> /\ q.next_receive = k.next_receive + 1
    BY <1>2, CountedFacts DEF Closes, Ended, SameTables
  <1>4. /\ n \in Nat /\ n <= Len(k.outgoing)
    BY <1>2
  <1>5. f \in Seq(Record) /\ Len(f) = n
    <2>1. \A i \in 1 .. n : k.outgoing[i] \in Record
      <3>1. \A i \in 1 .. Len(k.outgoing) : k.outgoing[i] \in Record
        BY <1>2, ElementOfSeq
      <3> QED
        BY <3>1, <1>2, <1>4
    <2> QED
      BY <2>1, <1>4, SubSeqProperties
  <1>6. Kernel(e, q, taken, f) /\ k.state # "CLOSED" /\ (conn[p].state = "CLOSED" => n = 0)
    BY DEF Closes
  <1> HIDE DEF f
  <1>7. /\ conn' = [conn EXCEPT ![e] = q] /\ conn' \in [Ends -> Connection]
        /\ conn'[e] = q /\ conn'[p] = conn[p]
        /\ wire' \in [Ends -> Seq(Record)] /\ wire'[e] = <<>>
        /\ wire'[p] = IF gone[e] THEN wire[p] ELSE wire[p] \o f
        /\ gone' \in [Ends -> BOOLEAN] /\ reset' \in [Ends -> BOOLEAN]
        /\ gone'[e] = gone[e] /\ gone'[p]
    BY <1>1, <1>3, <1>5, <1>6, KernelFacts
  <1>8. wire'[p] = wire[p] \o f
    <2>1. CASE ~ gone[e]
      BY <2>1, <1>7
    <2>2. CASE gone[e]
      <3>1. n = 0
        BY <2>2, <1>1, <1>6 DEF Stages
      <3>2. f = <<>>
        BY <3>1, <1>5, EmptySeq
      <3> QED
        BY <3>2, <2>2, <1>2, <1>7, ConcatEmptySeq
    <2> QED
      BY <2>1, <2>2
  <1>9. Finishes(e, q, n)
    BY <1>3, <1>6, <1>7, <1>8 DEF Finishes, Sent, f
  <1>10. Moves(e, {}, {}) /\ Order'
    BY <1>1, <1>9, Finishing
  <1>11. Lawful(e, {}, {})
    BY <1>3, <1>7, ClosedIsLawful
  <1>12. StageOf(e)'
    <2>1. "in" \notin turn'[e]
      BY DEF Closes
    <2> QED
      BY <2>1, <1>1, <1>3, <1>7, ClosedStage
  <1>13. Len(wire'[p]) <= SocketCapacity
    <2>1. Len(wire[p] \o f) = Len(wire[p]) + Len(f)
      BY <1>2, <1>5, ConcatProperties
    <2> QED
      BY <2>1, <1>5, <1>8 DEF Closes
  <1>14. wire'[p] = wire[p] \/ conn[p].state # "CLOSED"
    <2>1. CASE conn[p].state = "CLOSED"
      <3>1. f = <<>>
        BY <2>1, <1>5, <1>6, EmptySeq
      <3> QED
        BY <3>1, <1>2, <1>8, ConcatEmptySeq
    <2> QED
      BY <2>1
  <1>15. /\ Len(wire'[e]) <= SocketCapacity
         /\ Len(conn'[e].outgoing) <= k.config.maximum_queued_messages
         /\ Len(conn'[e].incoming) <= k.config.maximum_queued_messages
    <2>1. Len(<<>>) = 0 /\ SocketCapacity \in Nat
          /\ k.config.maximum_queued_messages \in Nat \ {0}
      BY <1>2, ConfigFacts, IpcAssumption, EmptySeq
    <2>2. Len(k.incoming) <= k.config.maximum_queued_messages
      BY <1>1 DEF Bounded, BoundedAt
    <2>3. Len(conn'[e].outgoing) = 0 /\ Len(wire'[e]) = 0
          /\ Len(conn'[e].incoming) \in {0, Len(k.incoming)}
      BY <1>3, <1>7, <2>1
    <2> DEFINE M == k.config.maximum_queued_messages
               i == Len(conn'[e].incoming)
    <2>4. M \in Nat /\ 0 <= M /\ i <= M
      <3>1. M \in Nat
        BY <2>1
      <3>2. CASE i = 0
        BY <3>1, <3>2
      <3>3. CASE i = Len(k.incoming)
        BY <3>1, <3>3, <2>2
      <3> QED
        BY <3>1, <3>2, <3>3, <2>3
    <2> QED
      BY <2>1, <2>3, <2>4
  <1>16. Rest(e)
    BY <1>3, <1>7, <1>12, <1>13, <1>14, <1>15 DEF Rest, Closes
  <1> QED
    BY <1>7, <1>10, <1>11, <1>16, Preservation

\* The kernel does nothing to the peer unless the end closes.
LEMMA KernelQuiet ==
    ASSUME Types, NEW e \in Ends, NEW q \in Connection, NEW taken \in {0, 1},
           Kernel(e, q, taken, <<>>), q.state = "CLOSED" => conn[e].state = "CLOSED"
    PROVE  /\ conn' = [conn EXCEPT ![e] = q] /\ conn'[e] = q /\ conn'[Peer(e)] = conn[Peer(e)]
           /\ wire' \in [Ends -> Seq(Record)] /\ wire'[Peer(e)] = wire[Peer(e)]
           /\ taken = 0 => wire'[e] = wire[e]
           /\ taken = 1 /\ wire[e] # <<>> => wire'[e] = Tail(wire[e])
           /\ gone' \in [Ends -> BOOLEAN] /\ reset' \in [Ends -> BOOLEAN]
           /\ gone'[e] = gone[e] /\ gone'[Peer(e)] = gone[Peer(e)]
  <1> DEFINE none == <<>>
  <1>1. none \in Seq(Record) /\ taken \in Nat /\ Kernel(e, q, taken, none)
    BY EmptySeq
  <1>2. /\ conn' = [conn EXCEPT ![e] = q] /\ conn'[e] = q /\ conn'[Peer(e)] = conn[Peer(e)]
        /\ wire' \in [Ends -> Seq(Record)]
        /\ wire'[e] = SubSeq(wire[e], taken + 1, Len(wire[e]))
        /\ wire'[Peer(e)] = IF gone[e] THEN wire[Peer(e)] ELSE wire[Peer(e)] \o <<>>
        /\ gone' \in [Ends -> BOOLEAN] /\ reset' \in [Ends -> BOOLEAN]
        /\ gone'[e] = gone[e] /\ (gone'[Peer(e)] <=> gone[Peer(e)])
    <2> DEFINE closes == q.state = "CLOSED" /\ conn[e].state # "CLOSED"
    <2>1. /\ conn' = [conn EXCEPT ![e] = q] /\ conn'[e] = q /\ conn'[Peer(e)] = conn[Peer(e)]
          /\ wire' \in [Ends -> Seq(Record)]
          /\ wire'[e] = IF closes THEN <<>> ELSE SubSeq(wire[e], taken + 1, Len(wire[e]))
          /\ wire'[Peer(e)] = IF gone[e] THEN wire[Peer(e)] ELSE wire[Peer(e)] \o <<>>
          /\ gone' \in [Ends -> BOOLEAN] /\ reset' \in [Ends -> BOOLEAN]
          /\ gone'[e] = gone[e] /\ (gone'[Peer(e)] <=> (gone[Peer(e)] \/ closes))
      <3> HIDE DEF none
      <3>1. /\ conn' = [conn EXCEPT ![e] = q] /\ conn'[e] = q /\ conn'[Peer(e)] = conn[Peer(e)]
            /\ wire' \in [Ends -> Seq(Record)]
            /\ wire'[e] = IF closes THEN <<>> ELSE SubSeq(wire[e], taken + 1, Len(wire[e]))
            /\ wire'[Peer(e)] = IF gone[e] THEN wire[Peer(e)] ELSE wire[Peer(e)] \o none
            /\ gone' \in [Ends -> BOOLEAN] /\ reset' \in [Ends -> BOOLEAN]
            /\ gone'[e] = gone[e] /\ (gone'[Peer(e)] <=> (gone[Peer(e)] \/ closes))
        BY <1>1, KernelFacts
      <3> QED
        BY <3>1 DEF none
    <2>2. ~ closes
      OBVIOUS
    <2> HIDE DEF closes
    <2> QED
      BY <2>1, <2>2
  <1>3. wire[e] \in Seq(Record) /\ wire[Peer(e)] \in Seq(Record) /\ Peer(e) \in Ends
    BY EndTypes DEF Types
  <1>4. wire'[Peer(e)] = wire[Peer(e)]
    BY <1>2, <1>3, ConcatEmptySeq
  <1>5. taken = 0 => wire'[e] = wire[e]
    <2>1. taken = 0 => taken + 1 = 1
      OBVIOUS
    <2> QED
      BY <2>1, <1>2, <1>3, SubSeqFull
  <1>6. taken = 1 /\ wire[e] # <<>> => wire'[e] = Tail(wire[e])
    <2>1. taken = 1 => taken + 1 = 2
      OBVIOUS
    <2> QED
      BY <2>1, <1>2, <1>3, TailIsSubSeq
  <1>7. gone'[Peer(e)] = gone[Peer(e)]
    BY <1>2, <1>3 DEF Types
  <1> QED
    BY <1>2, <1>4, <1>5, <1>6, <1>7

\* An end that has sent nothing has nothing to send.
LEMMA NothingSent ==
    ASSUME Types, Order, NEW e \in Ends, conn[e].next_send = 1
    PROVE  conn[e].outgoing = <<>> /\ wire[Peer(e)] = <<>> /\ conn[Peer(e)].next_receive = 1
  <1> DEFINE p == Peer(e)
             a == conn[p].next_receive
             b == Len(wire[p])
             c == Len(conn[e].outgoing)
  <1>1. /\ p \in Ends /\ Peer(p) = e /\ conn[e].outgoing \in Seq(Record) /\ c \in Nat
    BY EndTypes
  <1>2. /\ a \in Nat \ {0} /\ b \in Nat /\ wire[p] \in Seq(Record)
    BY <1>1, EndTypes
  <1>3. a + b + c <= 1
    BY <1>1 DEF Order, OrderOf
  <1> HIDE DEF a, b, c
  <1>4. a = 1 /\ b = 0 /\ c = 0
    BY <1>1, <1>2, <1>3
  <1> QED
    BY <1>1, <1>2, <1>4, EmptySeq DEF a, b, c

\* gwipc_listener_accept.
LEMMA AcceptKeeps ==
    ASSUME Inductive, NEW sameUser \in BOOLEAN, Accept(sameUser)
    PROVE  Inductive'
  <1> DEFINE k == conn["server"]
             q == [k EXCEPT !.state = IF sameUser THEN "AWAITING_HELLO" ELSE "CLOSED"]
  <1>1. /\ "server" \in Ends /\ Peer("server") = "client" /\ "client" \in Ends
        /\ Types /\ Order /\ Stages /\ Bounded /\ Failures
    BY EndFacts DEF Peer, Inductive
  <1>2. /\ k.state = "NOT_ACCEPTED" /\ Kernel("server", q, 0, <<>>)
        /\ turn' = turn /\ accepted' = accepted /\ delivered' = delivered
    BY DEF Accept
  <1>3. k \in Connection /\ Len(k.outgoing) \in Nat
    BY <1>1, EndTypes
  <1>4. /\ Unused(k) /\ k.next_send = 1 /\ turn["server"] = {}
    BY <1>1, <1>2 DEF Stages, StageOf, Early
  <1>5. k.outgoing = <<>>
    BY <1>1, <1>4, NothingSent
  <1>6. /\ q \in Connection /\ q.state = (IF sameUser THEN "AWAITING_HELLO" ELSE "CLOSED")
        /\ q.config = k.config /\ q.peer = k.peer /\ q.next_send = k.next_send
        /\ q.next_receive = k.next_receive /\ q.outgoing = k.outgoing
        /\ q.incoming = k.incoming /\ q.failures = k.failures /\ SameTables(k, q)
    BY <1>3 DEF Connection, States, SameTables
  <1> HIDE DEF q
  <1>7. FailuresOf("server") /\ BoundedAt("server")
    BY <1>1 DEF Failures, Bounded
  <1>8. CASE sameUser
    <2>1. /\ conn' = [conn EXCEPT !["server"] = q] /\ conn'["server"] = q
          /\ wire' \in [Ends -> Seq(Record)] /\ wire'["client"] = wire["client"]
          /\ wire'["server"] = wire["server"]
          /\ gone' \in [Ends -> BOOLEAN] /\ reset' \in [Ends -> BOOLEAN]
          /\ gone'["server"] = gone["server"] /\ gone'["client"] = gone["client"]
      BY <1>1, <1>2, <1>6, <1>8, KernelQuiet
    <2>2. Exchanges("server", q, {}, {})
      BY <1>1, <1>2, <1>6, <1>8, <2>1 DEF Exchanges, Takes, Queues
    <2>3. Lawful("server", {}, {})
      BY <1>1, <1>2, <1>6, <2>1, SilentIsLawful DEF Hearing
    <2>4. StageOf("server")'
      BY <1>2, <1>4, <1>6, <1>8, <2>1 DEF StageOf, StatesOf, States, Early, Unused, SameTables
    <2>5. FailuresOf("server")'
      BY <1>6, <1>7, <2>1 DEF FailuresOf
    <2>6. Carries("server", q, {}, {})
      BY <1>1, <1>2, <1>6, <1>7, <2>1, <2>2, <2>3, <2>4, <2>5 DEF Carries, Types, BoundedAt
    <2> QED
      BY <1>1, <1>6, <2>6, Carrying
  <1>9. CASE ~ sameUser
    <2>1. Ended(k, q)
      BY <1>5, <1>6, <1>9 DEF Ended, SameTables
    <2>2. SubSeq(k.outgoing, 1, 0) = <<>>
      BY SubSeqEmpty
    <2>3. conn'["server"] = q
      BY <1>1, <1>2, <1>6 DEF Kernel, Types
    <2>4. FailuresOf("server")'
      BY <1>6, <1>7, <2>3 DEF FailuresOf
    <2>5. Len(wire["client"]) + 0 <= SocketCapacity
      <3>1. Len(wire["client"]) <= SocketCapacity /\ Len(wire["client"]) \in Nat
        BY <1>1, EndTypes DEF Bounded, BoundedAt
      <3> QED
        BY <3>1
    <2>6. Closes("server", q, 0, 0)
      BY <1>1, <1>2, <1>4, <2>1, <2>2, <2>4, <2>5 DEF Closes, Types
    <2>7. 0 \in 0 .. Len(k.outgoing) /\ 0 \in Nat
      BY <1>3
    <2> QED
      BY <1>1, <1>6, <2>6, <2>7, Closing
  <1> QED
    BY <1>8, <1>9

\* gwipc_connection_receive.
LEMMA ReceiveKeeps ==
    ASSUME Inductive, NEW e \in Ends, Receive(e)
    PROVE  Inductive'
  <1> DEFINE k == conn[e]
             q == [k EXCEPT !.incoming = Tail(k.incoming)]
             p == Peer(e)
  <1>1. Types /\ Order /\ Stages /\ Bounded /\ Failures /\ p \in Ends /\ p # e
    BY EndFacts DEF Inductive
  <1>2. /\ k.incoming # <<>> /\ conn' = [conn EXCEPT ![e] = q]
        /\ delivered' = [delivered EXCEPT ![e] = Append(delivered[e], Head(k.incoming))]
        /\ wire' = wire /\ gone' = gone /\ reset' = reset /\ turn' = turn /\ accepted' = accepted
    BY <1>1 DEF Receive, Types
  <1>3. /\ k \in Connection /\ k.incoming \in Seq(Record) /\ Len(k.incoming) \in Nat
        /\ k.config.maximum_queued_messages \in Nat
    BY <1>1, EndTypes, ConfigFacts
  <1>4. /\ Head(k.incoming) \in Record /\ Tail(k.incoming) \in Seq(Record)
        /\ Len(Tail(k.incoming)) = Len(k.incoming) - 1
    BY <1>2, <1>3, HeadTailProperties
  <1>5. /\ q \in Connection /\ q.state = k.state /\ q.config = k.config /\ q.peer = k.peer
        /\ q.next_send = k.next_send /\ q.next_receive = k.next_receive
        /\ q.outgoing = k.outgoing /\ q.incoming = Tail(k.incoming)
        /\ q.failures = k.failures /\ SameTables(k, q)
    BY <1>3, <1>4 DEF Connection, SameTables
  <1> HIDE DEF q
  <1>6. conn'[e] = q /\ conn'[p] = conn[p]
    BY <1>1, <1>2 DEF Types
  <1>7. Exchanges(e, q, {}, {})
    BY <1>1, <1>2, <1>5 DEF Exchanges, Takes, Queues, Types
  <1>8. Lawful(e, {}, {})
    BY <1>5, <1>6, SilentIsLawful DEF Hearing
  <1>9. StageOf(e)'
    BY <1>1, <1>2, <1>5, <1>6, IdleStage
  <1>10. FailuresOf(e)'
    BY <1>1, <1>5, <1>6 DEF Failures, FailuresOf
  <1>11. /\ Len(q.outgoing) <= k.config.maximum_queued_messages
         /\ Len(q.incoming) <= k.config.maximum_queued_messages
    <2>1. /\ Len(k.outgoing) <= k.config.maximum_queued_messages
          /\ Len(k.incoming) <= k.config.maximum_queued_messages
      BY <1>1 DEF Bounded, BoundedAt
    <2>2. Len(q.incoming) = Len(k.incoming) - 1
      BY <1>4, <1>5
    <2> QED
      BY <1>3, <1>5, <2>1, <2>2
  <1>12. delivered' \in [Ends -> Seq(Record)]
    <2>1. delivered[e] \in Seq(Record)
      BY <1>1 DEF Types
    <2>2. Append(delivered[e], Head(k.incoming)) \in Seq(Record)
      BY <2>1, <1>4, AppendProperties
    <2> QED
      BY <2>2, <1>1, <1>2 DEF Types
  <1>13. Carries(e, q, {}, {})
    BY <1>1, <1>2, <1>7, <1>8, <1>9, <1>10, <1>11, <1>12 DEF Carries, Types
  <1> QED
    BY <1>5, <1>13, Carrying

\* gwipc_connection_destroy.
LEMMA DestroyKeeps ==
    ASSUME Inductive, NEW e \in Ends, Destroy(e)
    PROVE  Inductive'
  <1> DEFINE k == conn[e]
             q == [k EXCEPT !.state = "CLOSED", !.outgoing = <<>>, !.incoming = <<>>,
                            !.status = "DESTROYED"]
             p == Peer(e)
  <1>1. Types /\ Order /\ Stages /\ Bounded /\ Failures /\ p \in Ends /\ p # e
    BY EndFacts DEF Inductive
  <1>2. /\ k.state # "CLOSED" /\ Kernel(e, q, 0, <<>>) /\ turn' = [turn EXCEPT ![e] = {}]
        /\ accepted' = accepted /\ delivered' = delivered
    BY DEF Destroy
  <1>3. k \in Connection /\ Len(k.outgoing) \in Nat /\ <<>> \in Seq(Record)
    BY <1>1, EndTypes, EmptySeq
  <1>4. Ended(k, q) /\ q.failures = k.failures
    BY <1>3 DEF Ended, Connection, States, Statuses
  <1>5. q \in Connection
    BY <1>4 DEF Ended
  <1> HIDE DEF q
  <1>6. conn'[e] = q
    BY <1>1, <1>2 DEF Kernel, Types
  <1>7. FailuresOf(e)'
    BY <1>1, <1>4, <1>6 DEF Failures, FailuresOf
  <1>8. SubSeq(k.outgoing, 1, 0) = <<>>
    BY SubSeqEmpty
  <1>9. Len(wire[p]) + 0 <= SocketCapacity
    <2>1. Len(wire[p]) <= SocketCapacity /\ Len(wire[p]) \in Nat
      BY <1>1, EndTypes DEF Bounded, BoundedAt
    <2> QED
      BY <2>1
  <1>10. turn' \in [Ends -> SUBSET {"in", "out", "hup"}] /\ turn'[e] = {} /\ turn'[p] = turn[p]
    BY <1>1, <1>2 DEF Types
  <1>11. Closes(e, q, 0, 0)
    BY <1>1, <1>2, <1>4, <1>7, <1>8, <1>9, <1>10 DEF Closes, Types
  <1>12. 0 \in 0 .. Len(k.outgoing) /\ 0 \in Nat
    BY <1>3
  <1> QED
    BY <1>5, <1>11, <1>12, Closing

\* finish_connect, when the connection is refused.
LEMMA RefuseConnectKeeps ==
    ASSUME Inductive, NEW e \in Ends, RefuseConnect(e)
    PROVE  Inductive'
  <1>1. /\ conn[e].state = "CONNECTING" /\ turn[e] = {}
        /\ UNCHANGED <<turn, accepted, delivered>>
    BY DEF RefuseConnect
  <1>2. PICK st \in {"SYSTEM_ERROR", "CREDENTIAL_REJECTED"} :
          Kernel(e, SetClosed(conn[e], st), 0, <<>>)
    BY DEF RefuseConnect
  <1> DEFINE k == conn[e]
             q == SetClosed(k, st)
             p == Peer(e)
  <1>3. Types /\ Order /\ Stages /\ Bounded /\ Failures /\ p \in Ends /\ p # e
    BY EndFacts DEF Inductive
  <1>4. k \in Connection /\ Len(k.outgoing) \in Nat
    BY <1>3, EndTypes
  <1>5. Ended(k, q) /\ q.failures = k.failures
    BY <1>4, SetClosedFacts DEF Statuses
  <1>6. q \in Connection
    BY <1>5 DEF Ended
  <1> HIDE DEF q
  <1>7. conn'[e] = q
    BY <1>2, <1>3 DEF Kernel, Types, q
  <1>8. FailuresOf(e)'
    BY <1>3, <1>5, <1>7 DEF Failures, FailuresOf
  <1>9. SubSeq(k.outgoing, 1, 0) = <<>>
    BY SubSeqEmpty
  <1>10. Len(wire[p]) + 0 <= SocketCapacity
    <2>1. Len(wire[p]) <= SocketCapacity /\ Len(wire[p]) \in Nat
      BY <1>3, EndTypes DEF Bounded, BoundedAt
    <2> QED
      BY <2>1
  <1>11. Kernel(e, q, 0, SubSeq(k.outgoing, 1, 0))
    BY <1>2, <1>9 DEF q
  <1>12. Closes(e, q, 0, 0)
    BY <1>1, <1>3, <1>5, <1>8, <1>10, <1>11 DEF Closes, Types
  <1>13. 0 \in 0 .. Len(k.outgoing) /\ 0 \in Nat
    BY <1>4
  <1> QED
    BY <1>6, <1>12, <1>13, Closing

\* A queued record is one more, and there was room for it.
LEMMA QueuedFits ==
    ASSUME Types, NEW e \in Ends, NEW k \in Connection, NEW q, NEW a, Queued(k, q, a),
           k.outgoing = conn[e].outgoing, k.next_send = conn[e].next_send,
           k.config = conn[e].config
    PROVE  /\ Queues(e, q, {a}) /\ a \in Record /\ a.sequence = conn[e].next_send
           /\ Len(q.outgoing) <= conn[e].config.maximum_queued_messages
  <1>1. /\ q.outgoing = Append(k.outgoing, a) /\ q.next_send = k.next_send + 1
        /\ a \in Record /\ a.sequence = k.next_send
        /\ Len(k.outgoing) < k.config.maximum_queued_messages
    BY DEF Queued
  <1>2. /\ k.outgoing \in Seq(Record) /\ Len(k.outgoing) \in Nat
        /\ k.config.maximum_queued_messages \in Nat
    BY ConfigFacts, LenProperties DEF Connection
  <1>3. Len(q.outgoing) = Len(k.outgoing) + 1
    BY <1>1, <1>2, AppendProperties
  <1>4. Len(q.outgoing) <= k.config.maximum_queued_messages
    BY <1>1, <1>2, <1>3
  <1> QED
    BY <1>1, <1>4 DEF Queues

\* process_poll_events, before it reads: finish_connect and queue_hello.
LEMMA BeginPollKeeps ==
    ASSUME Inductive, NEW e \in Ends, BeginPoll(e)
    PROVE  Inductive'
  <1> DEFINE k == conn[e]
             p == Peer(e)
             c == IF k.state = "CONNECTING" /\ "out" \in Ready(e) THEN FinishConnect(k) ELSE k
             q == IF MustSayHello(c) THEN QueueHello(c) ELSE With(c, "OK")
  <1>1. /\ Types /\ Order /\ Stages /\ Bounded /\ Failures /\ p \in Ends /\ p # e /\ Peer(p) = e
    BY EndFacts DEF Inductive
  <1>2. /\ k.state \notin {"NOT_ACCEPTED", "CLOSED"} /\ turn[e] = {}
        /\ turn' = [turn EXCEPT ![e] = Ready(e)] /\ conn' = [conn EXCEPT ![e] = q]
        /\ wire' = wire /\ gone' = gone /\ reset' = reset
        /\ accepted' = accepted /\ delivered' = delivered
    BY DEF BeginPoll
  <1>3. /\ k \in Connection /\ Len(k.outgoing) \in Nat /\ k.config \in Configs
    BY <1>1, EndTypes DEF Connection
  <1>4. /\ turn' \in [Ends -> SUBSET {"in", "out", "hup"}] /\ turn'[p] = turn[p]
    <2>1. Ready(e) \in SUBSET {"in", "out", "hup"}
      BY DEF Ready
    <2> QED
      BY <2>1, <1>1, <1>2 DEF Types
  <1>5. /\ c \in Connection /\ c.config = k.config /\ c.peer = k.peer
        /\ c.next_send = k.next_send /\ c.next_receive = k.next_receive
        /\ c.outgoing = k.outgoing /\ c.incoming = k.incoming /\ c.failures = k.failures
        /\ SameTables(k, c)
        /\ \/ c = k
           \/ k.state = "CONNECTING" /\ c.state = "AWAITING_WELCOME"
    <2>1. CASE c = k
      BY <2>1, <1>3 DEF SameTables
    <2>2. CASE k.state = "CONNECTING" /\ c = [k EXCEPT !.state = "AWAITING_WELCOME"]
      BY <2>2, <1>3 DEF Connection, States, SameTables
    <2> QED
      BY <2>1, <2>2 DEF FinishConnect
  <1>6. StageOf(e) /\ FailuresOf(e) /\ BoundedAt(e)
    BY <1>1 DEF Stages, Failures, Bounded
  <1>7. CASE MustSayHello(c)
    <2>1. c.state = "AWAITING_WELCOME" /\ k.next_send = 1
      BY <1>5, <1>7 DEF MustSayHello
    <2>2. e = "client" /\ Early(e) /\ Unused(k) /\ k.state \in {"CONNECTING", "AWAITING_WELCOME"}
      <3>1. k.state \in {"CONNECTING", "AWAITING_WELCOME"}
        BY <2>1, <1>5
      <3>2. e = "client"
        BY <3>1, <1>6 DEF StageOf, StatesOf, Ends
      <3> QED
        BY <3>1, <3>2, <1>6 DEF StageOf, Early
    <2> DEFINE m == Message("HELLO", k.config, 1, 0)
               a == Numbered(m, k.next_send)
    <2>3. q = QueueInternal(c, m)
      BY <1>5, <1>7 DEF QueueHello
    <2>4. m \in Letter /\ ~ AckRequired(m.kind) /\ m.size = 1 /\ m.kind = "HELLO"
          /\ m.id = k.config
      <3>1. k.config \in Identities /\ "HELLO" \in Kinds
        BY <1>3 DEF Identities, Kinds
      <3> QED
        BY <3>1, LetterFacts, MessageFacts DEF AckRequired, RequestKinds
    <2>5. 1 <= MaximumPayload(c) /\ c.config.maximum_queued_messages \in Nat \ {0}
      BY <1>5, <2>1, ConfigFacts DEF MaximumPayload
    <2>6. ~ QueueLimitExceeded(c)
      <3>1. c.outgoing = <<>>
        BY <1>1, <1>5, <2>1, NothingSent
      <3>2. Len(c.outgoing) = 0
        BY <3>1, EmptySeq
      <3> QED
        BY <3>2, <2>5 DEF QueueLimitExceeded
    <2> HIDE DEF c, q, m
    <2>7. q.state = c.state /\ q.failures = c.failures /\ Reaction(c, q, a)
      BY <1>5, <2>1, <2>3, <2>4, <2>5, <2>6, SmallQueueFacts
    <2>8. /\ q \in Connection /\ q.config = k.config /\ q.peer = k.peer
          /\ q.next_receive = k.next_receive /\ q.next_send = k.next_send + 1
          /\ q.incoming = k.incoming /\ SameTables(k, q) /\ Queued(c, q, a)
      BY <2>7, <1>5 DEF Reaction, Queued, SameTables
    <2>9. /\ Queues(e, q, {a}) /\ a \in Record /\ a.sequence = k.next_send
          /\ Len(q.outgoing) <= k.config.maximum_queued_messages
      BY <1>1, <1>5, <2>8, QueuedFits
    <2>10. a.kind = "HELLO" /\ a.size = 1 /\ a.id = k.config
      BY <2>4, NumberedFacts
    <2> HIDE DEF a
    <2>11. conn'[e] = q /\ conn'[p] = conn[p]
      BY <1>1, <1>2, <2>8 DEF Types
    <2>12. Exchanges(e, q, {}, {a})
      BY <1>1, <1>2, <2>1, <2>7, <2>8, <2>9 DEF Exchanges, Takes, Types
    <2>13. Lawful(e, {}, {a})
      <3>1. Forgets(e, {}) /\ Remembers(e, {a}) /\ Owes(e, {}, {a})
        <4>1. ~ AckRequired(a.kind) /\ a.kind \notin ReplyKinds
          BY <2>10, KindFacts DEF AckRequired, RequestKinds, ReplyKinds, ReplyOf
        <4> QED
          BY <4>1, <2>8, <2>11 DEF Forgets, Remembers, Owes, SameTables
      <3>2. Replies(e, {}, {a})
        BY <2>10, KindFacts DEF Replies, Answers, ReplyKinds, RequestKinds, ReplyOf
      <3>3. LegalRecord(p, a)
        BY <2>1, <2>2, <2>9, <2>10 DEF LegalRecord, Opening, Peer, Client
      <3>4. Hearing(e)
        BY <2>2 DEF Hearing
      <3>5. /\ conn'[e].last_incoming = k.last_incoming
            /\ conn'[e].last_outgoing = k.last_outgoing
            /\ conn'[e].incoming_snapshot = k.incoming_snapshot
            /\ conn'[e].outgoing_snapshot = k.outgoing_snapshot
        BY <2>8, <2>11 DEF SameTables
      <3>6. /\ k.outgoing_snapshot \in Snapshot
            /\ SnapshotAfter(k.outgoing_snapshot, a) = k.outgoing_snapshot
            /\ Fits(k.outgoing_snapshot, a)
        <4>1. k.outgoing_snapshot \in Snapshot
          BY <1>3 DEF Connection
        <4> QED
          BY <4>1, <2>9, <2>10, SnapshotAfterFacts
          DEF Fits, SnapshotAllows, OutsideSnapshot, SnapshotControl
      <3> QED
        BY <3>1, <3>2, <3>3, <3>4, <3>5, <3>6, <2>10 DEF Lawful
    <2>14. StageOf(e)'
      <3>1. q.state = "AWAITING_WELCOME" /\ q.next_send = 2 /\ Unused(q)
        BY <2>1, <2>2, <2>7, <2>8 DEF Unused, SameTables
      <3> QED
        BY <3>1, <2>2, <2>11 DEF StageOf, StatesOf, States, Early
    <2>15. FailuresOf(e)'
      BY <1>5, <1>6, <2>7, <2>11 DEF FailuresOf
    <2>16. Carries(e, q, {}, {a})
      BY <1>1, <1>2, <1>4, <1>6, <2>8, <2>9, <2>12, <2>13, <2>14, <2>15
      DEF Carries, Types, BoundedAt
    <2> QED
      BY <2>8, <2>16, Carrying
  <1>8. CASE ~ MustSayHello(c)
    <2>1. c = k
      <3>1. k.state = "CONNECTING" => k.next_send = 1
        BY <1>6 DEF StageOf, Early
      <3> QED
        BY <3>1, <1>5, <1>8 DEF MustSayHello
    <2>2. q = With(k, "OK")
      BY <1>8, <2>1
    <2> HIDE DEF q
    <2>3. Same(k, q)
      BY <1>3, <2>2, WithFacts DEF Statuses
    <2>4. /\ q \in Connection /\ q.state = k.state /\ q.config = k.config /\ q.peer = k.peer
          /\ q.next_send = k.next_send /\ q.next_receive = k.next_receive
          /\ q.outgoing = k.outgoing /\ q.incoming = k.incoming /\ q.failures = k.failures
          /\ SameTables(k, q)
      BY <2>3 DEF Same
    <2>5. conn'[e] = q /\ conn'[p] = conn[p]
      BY <1>1, <1>2 DEF Types
    <2>6. Exchanges(e, q, {}, {})
      BY <1>1, <1>2, <2>4 DEF Exchanges, Takes, Queues, Types
    <2>7. Lawful(e, {}, {})
      BY <2>4, <2>5, SilentIsLawful DEF Hearing
    <2>8. StageOf(e)'
      BY <1>1, <1>2, <2>4, <2>5, IdleStage
    <2>9. FailuresOf(e)'
      BY <1>6, <2>4, <2>5 DEF FailuresOf
    <2>10. Carries(e, q, {}, {})
      BY <1>1, <1>2, <1>4, <1>6, <2>4, <2>6, <2>7, <2>8, <2>9 DEF Carries, Types, BoundedAt
    <2> QED
      BY <2>4, <2>10, Carrying
  <1> QED
    BY <1>7, <1>8

-----------------------------------------------------------------------------
(* Reading a record *)

\* e becomes q and takes the next record; it stays open.
Reads(e, q) ==
  /\ wire[e] # <<>> /\ wire'[e] = Tail(wire[e]) /\ wire'[Peer(e)] = wire[Peer(e)]
  /\ wire' \in [Ends -> Seq(Record)] /\ conn' = [conn EXCEPT ![e] = q]
  /\ gone' \in [Ends -> BOOLEAN] /\ gone'[e] = gone[e] /\ gone'[Peer(e)] = gone[Peer(e)]
  /\ reset' \in [Ends -> BOOLEAN]
  /\ turn' \in [Ends -> SUBSET {"in", "out", "hup"}] /\ turn'[Peer(e)] = turn[Peer(e)]
  /\ accepted' = accepted /\ delivered' = delivered
  /\ conn[e].state \notin {"CLOSED", "NOT_ACCEPTED"}
  /\ q \in Connection /\ q.config = conn[e].config /\ q.state # "CLOSED"
  /\ q.next_receive = conn[e].next_receive + 1
  /\ q.failures \subseteq {"LimitExceeded", "UnsupportedMessage"}
  /\ "UnsupportedMessage" \in q.failures => "CRITICAL_UNKNOWN" \in Vocabulary[Peer(e)]

\* What is left to show of such a step.
Handles(e, q, N) ==
  /\ Queues(e, q, N) /\ Lawful(e, {Head(wire[e])}, N) /\ StageOf(e)'
  /\ Len(q.outgoing) <= conn[e].config.maximum_queued_messages
  /\ Len(q.incoming) <= conn[e].config.maximum_queued_messages

\* Reading one record, as one of the handlers does.
LEMMA Reading ==
    ASSUME Inductive, NEW e \in Ends, NEW q \in Connection, NEW N, Reads(e, q), Handles(e, q, N)
    PROVE  Inductive'
  <1> DEFINE h == Head(wire[e])
  <1>1. Types /\ conn'[e] = q
    BY DEF Inductive, Types, Reads
  <1>2. Exchanges(e, q, {h}, N)
    BY DEF Exchanges, Takes, Reads, Handles
  <1>3. FailuresOf(e)'
    BY <1>1 DEF FailuresOf, Reads
  <1>4. Carries(e, q, {h}, N)
    BY <1>1, <1>2, <1>3 DEF Carries, Types, Reads, Handles
  <1> QED
    BY <1>4, Carrying

\* What a connection that has counted the record has in common with e.
LEMMA CountedAt ==
    ASSUME Inductive, NEW e \in Ends, NEW q \in Connection, Reads(e, q)
    PROVE  LET n == Counted(conn[e])
           IN  /\ n \in Connection /\ n.state = conn[e].state /\ n.config = conn[e].config
               /\ n.peer = conn[e].peer
               /\ n.next_send = conn[e].next_send /\ n.next_receive = conn[e].next_receive + 1
               /\ n.outgoing = conn[e].outgoing /\ n.incoming = conn[e].incoming
               /\ SameTables(conn[e], n) /\ conn'[e] = q /\ conn'[Peer(e)] = conn[Peer(e)]
               /\ conn[e].next_receive \in Nat \ {0} /\ conn[e].next_send \in Nat \ {0}
               /\ Len(conn[e].incoming) <= conn[e].config.maximum_queued_messages
               /\ Len(conn[e].outgoing) <= conn[e].config.maximum_queued_messages
  <1>1. Types /\ BoundedAt(e) /\ Peer(e) \in Ends /\ Peer(e) # e
    BY EndFacts DEF Inductive, Bounded
  <1>2. conn[e] \in Connection /\ conn[e].next_receive \in Nat \ {0}
        /\ conn[e].next_send \in Nat \ {0}
    BY <1>1, EndTypes
  <1>3. conn'[e] = q /\ conn'[Peer(e)] = conn[Peer(e)]
    BY <1>1 DEF Reads, Types
  <1> QED
    BY <1>1, <1>2, <1>3, CountedFacts DEF BoundedAt

\* Nothing that a connection sends by itself is illegal.
LEMMA AnswerIsLegal ==
    ASSUME Inductive, NEW e \in Ends, NEW a \in Record,
           a.kind \in {"PROTOCOL_ERROR", "PONG"}, a.size = 1, a.sequence = conn[e].next_send,
           conn[e].state = "ESTABLISHED"
    PROVE  LegalRecord(Peer(e), a)
  <1>1. Types /\ Stages
    BY DEF Inductive
  <1>2. a.sequence # 1
    <2>1. conn[e].next_send >= 2 /\ conn[e].next_send \in Nat
      BY <1>1, EndTypes DEF Stages, StageOf
    <2> QED
      BY <2>1
  <1>3. a.size <= Limit
    BY <1>1, LimitFacts
  <1> QED
    BY <1>2, <1>3
    DEF LegalRecord, Opening, RequiredCapability, ValidDirection, ValidOutputRoles, SnapshotControl

\* The connection gives up.
LEMMA ReadAndBreak ==
    ASSUME Inductive, NEW e \in Ends, NEW q \in Connection, Reads(e, q),
           conn[e].state = "ESTABLISHED", NEW a,
           a = Numbered(Message("PROTOCOL_ERROR", 0, 1, conn[e].next_receive), conn[e].next_send),
           Breaks(Counted(conn[e]), q, a)
    PROVE  Inductive'
  <1> DEFINE k == conn[e]
             h == Head(wire[e])
             n == Counted(k)
  <1>1. Types /\ Stages /\ wire[e] # <<>>
    BY DEF Inductive, Reads
  <1>2. /\ n \in Connection /\ n.state = k.state /\ n.config = k.config
        /\ n.next_send = k.next_send /\ n.next_receive = k.next_receive + 1
        /\ n.outgoing = k.outgoing /\ n.incoming = k.incoming
        /\ SameTables(k, n) /\ conn'[e] = q /\ conn'[Peer(e)] = conn[Peer(e)]
        /\ n.peer = k.peer
        /\ k.next_receive \in Nat \ {0} /\ k.next_send \in Nat \ {0}
        /\ Len(k.incoming) <= k.config.maximum_queued_messages
    BY CountedAt
  <1> HIDE DEF n
  <1>3. /\ q.state = "CLOSING" /\ q.config = k.config /\ q.incoming = k.incoming
        /\ q.last_outgoing = k.last_outgoing /\ q.outgoing_snapshot = k.outgoing_snapshot
        /\ q.next_receive = k.next_receive + 1 /\ q.next_send = k.next_send + 1
        /\ q.peer = k.peer /\ Queued(n, q, a)
    BY <1>2 DEF Breaks, Queued, SameTables, n
  <1>4. /\ Queues(e, q, {a}) /\ a \in Record /\ a.sequence = k.next_send
        /\ Len(q.outgoing) <= k.config.maximum_queued_messages
    BY <1>1, <1>2, <1>3, QueuedFits
  <1>5. a.kind = "PROTOCOL_ERROR" /\ a.size = 1 /\ a.reply_to = k.next_receive
    BY NumberedFacts, MessageFacts
  <1>6. LegalRecord(Peer(e), a)
    BY <1>4, <1>5, AnswerIsLegal
  <1>7. h.sequence = k.next_receive
    BY <1>1, HeadFacts
  <1>8. Lawful(e, {h}, {a})
    <2>1. ~ Hearing(e)' /\ Hearing(e)
      BY <1>2, <1>3 DEF Hearing
    <2>2. Replies(e, {h}, {a})
      BY <2>1, <1>5, <1>7 DEF Replies
    <2>3. Fits(k.outgoing_snapshot, a) /\ k.outgoing_snapshot = SnapshotAfter(k.outgoing_snapshot, a)
      <3>1. k.outgoing_snapshot \in Snapshot
        BY <1>1, EndTypes DEF Connection
      <3> QED
        BY <3>1, <1>4, <1>5, SnapshotAfterFacts
        DEF Fits, SnapshotAllows, OutsideSnapshot, SnapshotControl
    <2> QED
      BY <2>1, <2>2, <2>3, <1>2, <1>3, <1>5, <1>6 DEF Lawful
  <1>9. StageOf(e)'
    <2>1. k.next_receive <= q.next_receive /\ k.next_send <= q.next_send
      BY <1>2, <1>3
    <2> QED
      BY <2>1, <1>1, <1>2, <1>3, LateStage
  <1>10. Handles(e, q, {a})
    BY <1>2, <1>3, <1>4, <1>8, <1>9 DEF Handles
  <1> QED
    BY <1>10, Reading

\* The connection answers by itself.
LEMMA ReadAndReact ==
    ASSUME Inductive, NEW e \in Ends, NEW q \in Connection, Reads(e, q),
           conn[e].state = "ESTABLISHED", q.state = "ESTABLISHED", NEW a, NEW h, h = Head(wire[e]),
           \/ /\ h.kind \in {"UNKNOWN", "CRITICAL_UNKNOWN"}
              /\ a = Numbered(Message("PROTOCOL_ERROR", 0, 1, h.sequence), conn[e].next_send)
           \/ /\ h.kind = "PING"
              /\ a = Numbered(Message("PONG", h.id, 1, h.sequence), conn[e].next_send),
           Reaction(Counted(conn[e]), q, a)
    PROVE  Inductive'
  <1> DEFINE k == conn[e]
             n == Counted(k)
  <1>1. Types /\ Stages /\ wire[e] # <<>>
    BY DEF Inductive, Reads
  <1>2. /\ n \in Connection /\ n.state = k.state /\ n.config = k.config
        /\ n.next_send = k.next_send /\ n.next_receive = k.next_receive + 1
        /\ n.outgoing = k.outgoing /\ n.incoming = k.incoming
        /\ SameTables(k, n) /\ conn'[e] = q /\ conn'[Peer(e)] = conn[Peer(e)]
        /\ n.peer = k.peer
        /\ k.next_receive \in Nat \ {0} /\ k.next_send \in Nat \ {0}
        /\ Len(k.incoming) <= k.config.maximum_queued_messages
    BY CountedAt
  <1> HIDE DEF n
  <1>3. /\ q.config = k.config /\ q.incoming = k.incoming /\ SameTables(k, q)
        /\ q.next_receive = k.next_receive + 1 /\ q.next_send = k.next_send + 1
        /\ q.peer = k.peer /\ Queued(n, q, a)
    BY <1>2 DEF Reaction, Queued, SameTables, n
  <1>4. /\ Queues(e, q, {a}) /\ a \in Record /\ a.sequence = k.next_send
        /\ Len(q.outgoing) <= k.config.maximum_queued_messages
    BY <1>1, <1>2, <1>3, QueuedFits
  <1>5. /\ a.kind \in {"PROTOCOL_ERROR", "PONG"} /\ a.size = 1 /\ a.reply_to = h.sequence
        /\ a.kind = "PONG" => h.kind = "PING" /\ a.id = h.id
    BY NumberedFacts, MessageFacts
  <1>6. LegalRecord(Peer(e), a)
    BY <1>4, <1>5, AnswerIsLegal
  <1>7. h.sequence = k.next_receive /\ h \in Record
    BY <1>1, HeadFacts
  <1>8. Lawful(e, {h}, {a})
    <2>1. Hearing(e)
      BY DEF Hearing
    <2>2. Replies(e, {h}, {a})
      BY <2>1, <1>5 DEF Replies
    <2>3. ~ AckRequired(a.kind) /\ a.kind \notin ReplyKinds /\ a.kind # "SESSION_STATE_CHANGE"
      BY <1>5, KindFacts DEF AckRequired, RequestKinds
    <2>4. Forgets(e, {h}) /\ Remembers(e, {a}) /\ Owes(e, {h}, {a})
      BY <2>3, <1>2, <1>3 DEF Forgets, Remembers, Owes, SameTables
    <2>5. /\ k.outgoing_snapshot \in Snapshot /\ k.incoming_snapshot \in Snapshot
      BY <1>1, EndTypes DEF Connection
    <2>6. /\ Fits(k.outgoing_snapshot, a)
          /\ k.outgoing_snapshot = SnapshotAfter(k.outgoing_snapshot, a)
      BY <2>5, <1>4, <1>5, SnapshotAfterFacts
      DEF Fits, SnapshotAllows, OutsideSnapshot, SnapshotControl
    <2>7. k.incoming_snapshot = SnapshotAfter(k.incoming_snapshot, h)
      BY <2>5, <1>7, SnapshotAfterFacts DEF SnapshotControl
    <2>8. /\ conn'[e].last_incoming = k.last_incoming
          /\ conn'[e].last_outgoing = k.last_outgoing
          /\ conn'[e].incoming_snapshot = k.incoming_snapshot
          /\ conn'[e].outgoing_snapshot = k.outgoing_snapshot
      BY <1>2, <1>3 DEF SameTables
    <2> QED
      BY <2>1, <2>2, <2>3, <2>4, <2>6, <2>7, <2>8, <1>6 DEF Lawful
  <1>9. StageOf(e)'
    <2>1. k.next_receive <= q.next_receive /\ k.next_send <= q.next_send
      BY <1>2, <1>3
    <2> QED
      BY <2>1, <1>1, <1>2, <1>3, LateStage
  <1>10. Handles(e, q, {a})
    BY <1>2, <1>3, <1>4, <1>8, <1>9 DEF Handles
  <1> QED
    BY <1>10, Reading

\* The application will see the record.
LEMMA ReadAndKeep ==
    ASSUME Inductive, NEW e \in Ends, NEW q \in Connection, Reads(e, q),
           conn[e].state = "ESTABLISHED", NEW h, h = Head(wire[e]),
           Absorbed(Counted(conn[e]), q, h)
    PROVE  Inductive'
  <1> DEFINE k == conn[e]
             n == Counted(k)
  <1>1. Types /\ Stages /\ wire[e] # <<>>
    BY DEF Inductive, Reads
  <1>2. /\ n \in Connection /\ n.state = k.state /\ n.config = k.config
        /\ n.next_send = k.next_send /\ n.next_receive = k.next_receive + 1
        /\ n.outgoing = k.outgoing /\ n.incoming = k.incoming
        /\ SameTables(k, n) /\ conn'[e] = q /\ conn'[Peer(e)] = conn[Peer(e)]
        /\ n.peer = k.peer
        /\ k.next_receive \in Nat \ {0} /\ k.next_send \in Nat \ {0}
        /\ Len(k.outgoing) <= k.config.maximum_queued_messages
    BY CountedAt
  <1> HIDE DEF n
  <1>3. /\ q.state = k.state /\ q.config = k.config /\ q.peer = k.peer
        /\ q.next_send = k.next_send /\ q.next_receive = k.next_receive + 1
        /\ q.outgoing = k.outgoing /\ q.incoming = Append(k.incoming, h)
        /\ Len(k.incoming) < k.config.maximum_queued_messages
        /\ q.last_outgoing = k.last_outgoing /\ q.outgoing_snapshot = k.outgoing_snapshot
        /\ q.incoming_snapshot = SnapshotAfter(k.incoming_snapshot, h)
        /\ \/ q.last_incoming = k.last_incoming
           \/ h.kind = "SESSION_STATE_CHANGE" /\ q.last_incoming = h.id
    BY <1>2 DEF Absorbed, SameTables, n
  <1>4. /\ \A i \in k.pending_replies :
             i \in q.pending_replies \/ (h.kind \in Answers /\ i = h.reply_to)
        /\ \A x \in k.pending : x \in q.pending \/ (h.kind \in Answers /\ x.sequence = h.reply_to)
        /\ \A x \in q.incoming_requests :
             x \in k.incoming_requests \/ (x = EntryOf(h) /\ h.kind \in RequestKinds)
    BY <1>2 DEF Absorbed, SameTables, n
  <1>5. h \in Record
    BY <1>1, HeadFacts
  <1>6. Len(q.incoming) <= k.config.maximum_queued_messages
    <2>1. /\ k.incoming \in Seq(Record) /\ Len(k.incoming) \in Nat
          /\ k.config.maximum_queued_messages \in Nat
      BY <1>1, EndTypes, ConfigFacts, LenProperties
    <2>2. Len(q.incoming) = Len(k.incoming) + 1
      BY <2>1, <1>3, <1>5, AppendProperties
    <2> QED
      BY <2>1, <2>2, <1>3
  <1>7. Lawful(e, {h}, {})
    <2>1. Hearing(e)
      BY DEF Hearing
    <2>2. Forgets(e, {h}) /\ Remembers(e, {}) /\ Owes(e, {h}, {}) /\ Replies(e, {h}, {})
      BY <1>2, <1>4 DEF Forgets, Remembers, Owes, Replies
    <2> QED
      BY <2>1, <2>2, <1>2, <1>3 DEF Lawful
  <1>8. StageOf(e)'
    <2>1. k.next_receive <= q.next_receive /\ k.next_send <= q.next_send
      BY <1>2, <1>3
    <2> QED
      BY <2>1, <1>1, <1>2, <1>3, LateStage
  <1>9. Handles(e, q, {})
    BY <1>2, <1>3, <1>6, <1>7, <1>8 DEF Handles, Queues
  <1> QED
    BY <1>9, Reading

\* A server that will not have a client says so.
LEMMA RejectFacts ==
    ASSUME NEW n \in Connection, NEW reason \in {"InvalidHello", "RoleNotAllowed", "CapabilityMismatch"},
           NEW result \in Statuses, 1 <= MaximumPayload(n)
    PROVE  LET q == Reject(n, reason, result)
               a == Numbered(Message("REJECT", reason, 1, 1), n.next_send)
           IN  \/ Ended(n, q) /\ q.failures = n.failures
               \/ q.state = "REJECTING" /\ Reaction(n, q, a) /\ q.failures = n.failures
  <1> DEFINE m == Message("REJECT", reason, 1, 1)
             i == QueueInternal(n, m)
             c == [i EXCEPT !.state = "REJECTING", !.close_after_flush = TRUE, !.status = result]
             q == Reject(n, reason, result)
  <1>1. m \in Letter /\ m.size = 1 /\ ~ AckRequired(m.kind)
    <2>1. reason \in Identities /\ "REJECT" \in Kinds
      BY DEF Identities, Kinds
    <2> QED
      BY <2>1, LetterFacts, MessageFacts DEF AckRequired, RequestKinds
  <1>2. q = IF i.status # "OK" THEN SetClosed(n, result) ELSE c
    BY DEF Reject
  <1>3. \/ i.status # "OK" /\ Ended(n, i) /\ i.failures = n.failures
        \/ /\ i.status = "OK" /\ i.state = n.state /\ i.failures = n.failures
           /\ Reaction(n, i, Numbered(m, n.next_send))
    <2> HIDE DEF m
    <2> QED
      BY <1>1, SmallQueueFacts
  <1>4. i \in Connection
    BY <1>3 DEF Ended, Reaction, Queued
  <1> HIDE DEF i, m
  <1>5. CASE i.status # "OK"
    BY <1>2, <1>5, SetClosedFacts
  <1>6. CASE i.status = "OK"
    <2>1. c \in Connection
      BY <1>4 DEF Connection, States
    <2>2. /\ c.state = "REJECTING" /\ c.failures = i.failures
          /\ c.config = i.config /\ c.peer = i.peer /\ c.outgoing = i.outgoing
          /\ c.next_send = i.next_send /\ c.next_receive = i.next_receive
          /\ c.incoming = i.incoming /\ SameTables(i, c)
      BY <1>4 DEF Connection, SameTables
    <2>3. q = c
      BY <1>2, <1>6
    <2> HIDE DEF c
    <2>4. Reaction(n, c, Numbered(m, n.next_send))
      BY <2>1, <2>2, <1>3, <1>6 DEF Reaction, Queued, SameTables
    <2> QED
      BY <2>2, <2>3, <2>4, <1>3, <1>6 DEF m
  <1> QED
    BY <1>5, <1>6

\* What a server settles with a client of configuration c.
Settled(n, c) ==
  [capabilities |-> c.offered \cap n.config.offered, role |-> c.role,
   maximum_payload |-> Least(n.config.maximum_payload, c.maximum_payload)]
Welcome(n, r) ==
  Numbered(Message("WELCOME", [Settled(n, r.id) EXCEPT !.role = n.config.role], 1, r.sequence),
           n.next_send)
Welcomes(n, q, r) ==
  /\ q.state = "ESTABLISHED" /\ q.peer = Settled(n, r.id)
  /\ r.id.role \in n.config.peer_roles
  /\ r.id.required \cup n.config.required \subseteq r.id.offered \cap n.config.offered
  /\ Reaction([n EXCEPT !.peer = Settled(n, r.id)], q, Welcome(n, r))
Rejects(n, q) ==
  /\ q.state = "REJECTING"
  /\ \E reason \in {"InvalidHello", "RoleNotAllowed", "CapabilityMismatch"} :
       Reaction(n, q, Numbered(Message("REJECT", reason, 1, 1), n.next_send))

\* What handle_hello settles is typed.
LEMMA SettledFacts ==
    ASSUME NEW n \in Connection, NEW c \in Configs
    PROVE  /\ Settled(n, c) \in PeerFacts
           /\ [Settled(n, c) EXCEPT !.role = n.config.role] \in PeerFacts
           /\ [Settled(n, c) EXCEPT !.role = n.config.role]
                = [capabilities |-> c.offered \cap n.config.offered, role |-> n.config.role,
                   maximum_payload |-> Least(n.config.maximum_payload, c.maximum_payload)]
  <1>1. n.config \in Configs /\ n.config.maximum_payload \in Nat /\ c.maximum_payload \in Nat
    BY IpcAssumption DEF ValidConfig, Connection, Configs
  <1>2. Least(n.config.maximum_payload, c.maximum_payload) \in Nat
    BY <1>1 DEF Least
  <1>3. c.offered \cap n.config.offered \in SUBSET UNION {d.offered : d \in Configs}
    BY <1>1
  <1>4. c.role \in {d.role : d \in Configs} /\ n.config.role \in {d.role : d \in Configs}
    BY <1>1
  <1> DEFINE l == Least(n.config.maximum_payload, c.maximum_payload)
             o == c.offered \cap n.config.offered
             w == [capabilities |-> o, role |-> n.config.role, maximum_payload |-> l]
  <1>5. Settled(n, c) = [capabilities |-> o, role |-> c.role, maximum_payload |-> l]
    BY DEF Settled
  <1>6. o \in SUBSET UNION {d.offered : d \in Configs} /\ l \in Nat
    BY <1>2, <1>3
  <1> HIDE DEF l, o
  <1>7. [Settled(n, c) EXCEPT !.role = n.config.role] = w
    BY <1>5
  <1>8. Settled(n, c) \in PeerFacts /\ w \in PeerFacts
    BY <1>4, <1>5, <1>6 DEF PeerFacts
  <1> QED
    BY <1>7, <1>8 DEF l, o

\* handle_hello closes, rejects or welcomes.
LEMMA HelloFacts ==
    ASSUME NEW n \in Connection, NEW r \in Record, r.kind = "HELLO", r.id \in Configs,
           n.state = "AWAITING_HELLO"
    PROVE  LET q == HandleHello(n, r)
           IN  /\ q.failures = n.failures
               /\ Ended(n, q) \/ Rejects(n, q) \/ Welcomes(n, q, r)
  <1> DEFINE q == HandleHello(n, r)
             s == Settled(n, r.id)
             w == [s EXCEPT !.role = n.config.role]
             u == [n EXCEPT !.peer = s]
             m == Message("WELCOME", w, 1, r.sequence)
             i == QueueInternal(u, m)
             c == [i EXCEPT !.state = "ESTABLISHED"]
  <1>1. 1 <= MaximumPayload(n) /\ n.config.maximum_payload \in Nat \ {0}
    BY ConfigFacts DEF MaximumPayload
  <1>2. s \in PeerFacts /\ w \in PeerFacts
    BY SettledFacts
  <1>3. s.capabilities = r.id.offered \cap n.config.offered
    BY DEF Settled
  <1>4. q = IF r.id.role \notin n.config.peer_roles
              THEN Reject(n, "RoleNotAllowed", "ROLE_REJECTED")
            ELSE IF ~ (r.id.required \cup n.config.required
                         \subseteq r.id.offered \cap n.config.offered)
              THEN Reject(n, "CapabilityMismatch", "CAPABILITY_MISMATCH")
            ELSE IF i.status = "OK" THEN c ELSE i
    BY DEF HandleHello, Settled
  <1>5. m \in Letter /\ m.size = 1 /\ ~ AckRequired(m.kind)
    <2>1. w \in Identities /\ "WELCOME" \in Kinds
      BY <1>2 DEF Identities, Kinds
    <2>2. r.sequence \in Nat
      BY RecordFacts
    <2> HIDE DEF w
    <2> QED
      BY <2>1, <2>2, LetterFacts, MessageFacts DEF AckRequired, RequestKinds
  <1> HIDE DEF s, w
  <1>6. u \in Connection /\ u.state = n.state /\ u.config = n.config
        /\ u.failures = n.failures /\ u.next_send = n.next_send
        /\ u.next_receive = n.next_receive /\ u.incoming = n.incoming
        /\ u.last_outgoing = n.last_outgoing /\ u.peer = s
    BY <1>2 DEF Connection
  <1>7. 1 <= MaximumPayload(u)
    BY <1>1, <1>6 DEF MaximumPayload
  <1> HIDE DEF m, u
  <1>8. \/ i.status # "OK" /\ Ended(u, i) /\ i.failures = u.failures
        \/ /\ i.status = "OK" /\ i.state = u.state /\ i.failures = u.failures
           /\ Reaction(u, i, Numbered(m, u.next_send))
    BY <1>5, <1>6, <1>7, SmallQueueFacts
  <1> HIDE DEF i, q
  <1>9. CASE r.id.role \notin n.config.peer_roles
    BY <1>1, <1>4, <1>9, RejectFacts DEF Rejects, Statuses, q
  <1>10. CASE /\ r.id.role \in n.config.peer_roles
              /\ ~ (r.id.required \cup n.config.required \subseteq r.id.offered \cap n.config.offered)
    BY <1>1, <1>4, <1>10, RejectFacts DEF Rejects, Statuses, q
  <1>11. CASE /\ r.id.role \in n.config.peer_roles
              /\ r.id.required \cup n.config.required \subseteq r.id.offered \cap n.config.offered
              /\ i.status # "OK"
    <2>1. q = i /\ Ended(u, i) /\ i.failures = u.failures
      BY <1>4, <1>8, <1>11
    <2> QED
      BY <2>1, <1>6 DEF Ended, q
  <1>12. CASE /\ r.id.role \in n.config.peer_roles
              /\ r.id.required \cup n.config.required \subseteq r.id.offered \cap n.config.offered
              /\ i.status = "OK"
    <2>1. q = c
      BY <1>4, <1>12
    <2>2. Reaction(u, i, Numbered(m, u.next_send)) /\ i.failures = n.failures
      BY <1>6, <1>8, <1>12
    <2>3. i \in Connection
      BY <2>2 DEF Reaction, Queued
    <2>4. /\ c \in Connection /\ c.state = "ESTABLISHED" /\ c.failures = i.failures
          /\ c.config = i.config /\ c.peer = i.peer /\ c.outgoing = i.outgoing
          /\ c.next_send = i.next_send /\ c.next_receive = i.next_receive
          /\ c.incoming = i.incoming /\ SameTables(i, c)
      BY <2>3 DEF Connection, States, SameTables
    <2> HIDE DEF c
    <2>5. Reaction(u, c, Numbered(m, u.next_send)) /\ c.peer = s
      BY <2>2, <2>4, <1>6 DEF Reaction, Queued, SameTables
    <2>6. Numbered(m, u.next_send) = Welcome(n, r)
      BY <1>6 DEF Welcome, m, w, s
    <2>7. Welcomes(n, c, r)
      BY <2>4, <2>5, <2>6, <1>12 DEF Welcomes, u, s
    <2> QED
      BY <2>1, <2>2, <2>4, <2>7 DEF q
  <1> QED
    BY <1>9, <1>10, <1>11, <1>12

\* The first record a server reads is its client's hello.
LEMMA HelloIsFirst ==
    ASSUME Inductive, NEW e \in Ends, wire[e] # <<>>, conn[e].state = "AWAITING_HELLO"
    PROVE  LET h == Head(wire[e])
           IN  /\ e = "server" /\ h \in Record /\ h.kind = "HELLO" /\ h.id = Client
               /\ h.id \in Configs /\ h.sequence = 1
               /\ Unused(conn[e]) /\ conn[e].next_send = 1
  <1> DEFINE h == Head(wire[e])
  <1>1. Types /\ Stages /\ StageOf(e)
    BY DEF Inductive, Stages
  <1>2. e = "server" /\ Unused(conn[e]) /\ conn[e].next_send = 1
    BY <1>1 DEF StageOf, StatesOf, Ends, Early
  <1>3. h \in Record /\ h.sequence = 1 /\ LegalRecord(e, h)
    BY <1>2, HeadFacts DEF Unused
  <1>4. h.kind = "HELLO" /\ h.id = Client
    BY <1>2, <1>3 DEF LegalRecord, Opening
  <1>5. Client \in Configs
    BY <1>1, EndFacts, EndTypes DEF Client, Connection
  <1> QED
    BY <1>2, <1>3, <1>4, <1>5

\* A hello that is turned away.
LEMMA ReadAndReject ==
    ASSUME Inductive, NEW e \in Ends, NEW q \in Connection, Reads(e, q),
           conn[e].state = "AWAITING_HELLO", Rejects(Counted(conn[e]), q)
    PROVE  Inductive'
  <1> DEFINE k == conn[e]
             n == Counted(k)
             h == Head(wire[e])
  <1>1. Types /\ Stages /\ wire[e] # <<>>
    BY DEF Inductive, Reads
  <1>2. /\ n \in Connection /\ n.state = k.state /\ n.config = k.config
        /\ n.next_send = k.next_send /\ n.next_receive = k.next_receive + 1
        /\ n.outgoing = k.outgoing /\ n.incoming = k.incoming
        /\ SameTables(k, n) /\ conn'[e] = q /\ conn'[Peer(e)] = conn[Peer(e)]
        /\ n.peer = k.peer
        /\ Len(k.incoming) <= k.config.maximum_queued_messages
    BY CountedAt
  <1>3. /\ e = "server" /\ Unused(k) /\ k.next_send = 1
    BY <1>1, HelloIsFirst
  <1> HIDE DEF n
  <1>4. PICK reason \in {"InvalidHello", "RoleNotAllowed", "CapabilityMismatch"} :
          Reaction(n, q, Numbered(Message("REJECT", reason, 1, 1), n.next_send))
    BY DEF Rejects, n
  <1> DEFINE a == Numbered(Message("REJECT", reason, 1, 1), n.next_send)
  <1>5. a.kind = "REJECT" /\ a.size = 1
    BY NumberedFacts, MessageFacts
  <1>6. Reaction(n, q, a)
    BY <1>4
  <1> HIDE DEF a
  <1>7. /\ q.config = k.config /\ q.incoming = k.incoming /\ SameTables(k, q)
        /\ q.next_receive = 2 /\ q.next_send = 2 /\ Queued(n, q, a) /\ q.state = "REJECTING"
    <2>1. q.state = "REJECTING"
      BY DEF Rejects
    <2> QED
      BY <2>1, <1>2, <1>3, <1>6 DEF Reaction, Queued, SameTables, Unused
  <1>8. /\ Queues(e, q, {a}) /\ a \in Record /\ a.sequence = 1
        /\ Len(q.outgoing) <= k.config.maximum_queued_messages
    BY <1>1, <1>2, <1>3, <1>7, QueuedFits
  <1>9. LegalRecord(Peer(e), a)
    BY <1>3, <1>5, <1>8 DEF LegalRecord, Opening, Peer
  <1>10. Lawful(e, {h}, {a})
    <2>1. ~ Hearing(e)'
      BY <1>2, <1>7 DEF Hearing
    <2>2. Replies(e, {h}, {a})
      BY <1>5 DEF Replies, Answers, ReplyKinds, RequestKinds, ReplyOf
    <2>3. k.outgoing_snapshot \in Snapshot
      BY <1>1, EndTypes DEF Connection
    <2>4. /\ Fits(k.outgoing_snapshot, a)
          /\ k.outgoing_snapshot = SnapshotAfter(k.outgoing_snapshot, a)
      BY <2>3, <1>5, <1>8, SnapshotAfterFacts
      DEF Fits, SnapshotAllows, OutsideSnapshot, SnapshotControl
    <2>5. /\ conn'[e].last_outgoing = k.last_outgoing
          /\ conn'[e].outgoing_snapshot = k.outgoing_snapshot
      BY <1>2, <1>7 DEF SameTables
    <2> QED
      BY <2>1, <2>2, <2>4, <2>5, <1>5, <1>9 DEF Lawful
  <1>11. StageOf(e)'
    BY <1>2, <1>3, <1>7 DEF StageOf, StatesOf, States, Early
  <1>12. Handles(e, q, {a})
    BY <1>2, <1>7, <1>8, <1>10, <1>11 DEF Handles
  <1> QED
    BY <1>12, Reading

\* A hello that is welcomed: the server is established with what both can do.
LEMMA ReadAndWelcome ==
    ASSUME Inductive, NEW e \in Ends, NEW q \in Connection, Reads(e, q),
           conn[e].state = "AWAITING_HELLO", Welcomes(Counted(conn[e]), q, Head(wire[e]))
    PROVE  Inductive'
  <1> DEFINE k == conn[e]
             n == Counted(k)
             h == Head(wire[e])
             a == Welcome(n, h)
             u == [n EXCEPT !.peer = Settled(n, h.id)]
  <1>1. Types /\ Stages /\ wire[e] # <<>>
    BY DEF Inductive, Reads
  <1>2. /\ n \in Connection /\ n.state = k.state /\ n.config = k.config
        /\ n.next_send = k.next_send /\ n.next_receive = k.next_receive + 1
        /\ n.outgoing = k.outgoing /\ n.incoming = k.incoming
        /\ SameTables(k, n) /\ conn'[e] = q /\ conn'[Peer(e)] = conn[Peer(e)]
        /\ n.peer = k.peer
        /\ Len(k.incoming) <= k.config.maximum_queued_messages
    BY CountedAt
  <1>3. /\ e = "server" /\ Unused(k) /\ k.next_send = 1 /\ h.kind = "HELLO" /\ h.id = Client
        /\ h.sequence = 1 /\ h \in Record /\ h.id \in Configs
    BY <1>1, HelloIsFirst
  <1> HIDE DEF n
  <1>4. /\ q.state = "ESTABLISHED" /\ q.peer = Settled(n, Client)
        /\ Client.role \in n.config.peer_roles
        /\ Client.required \cup n.config.required \subseteq Client.offered \cap n.config.offered
        /\ Reaction(u, q, a)
    BY <1>3 DEF Welcomes, n
  <1>5. n.config = Server
    BY <1>2, <1>3 DEF Server
  <1>6. /\ q.peer = Agreed(e) /\ Compatible
    BY <1>3, <1>4, <1>5 DEF Settled, Agreed, Compatible, Negotiated, Limit, Client, Peer
  <1>7. /\ a.kind = "WELCOME" /\ a.size = 1 /\ a.id = Agreed("client")
    <2>1. a.kind = "WELCOME" /\ a.size = 1 /\ a.id = [Settled(n, h.id) EXCEPT !.role = n.config.role]
      BY NumberedFacts, MessageFacts DEF Welcome
    <2> QED
      BY <2>1, <1>2, <1>3, <1>5, SettledFacts DEF Agreed, Negotiated, Limit, Client, Server, Peer
  <1>8. /\ u \in Connection /\ u.config = k.config /\ u.next_send = k.next_send
        /\ u.next_receive = k.next_receive + 1 /\ u.outgoing = k.outgoing
        /\ u.incoming = k.incoming /\ SameTables(k, u)
    <2>1. Settled(n, h.id) \in PeerFacts
      BY <1>2, <1>3, SettledFacts
    <2> QED
      BY <2>1, <1>2 DEF Connection, SameTables
  <1> HIDE DEF a, u
  <1>9. /\ q.config = k.config /\ q.incoming = k.incoming /\ SameTables(k, q)
        /\ q.next_receive = 2 /\ q.next_send = 2 /\ Queued(u, q, a)
    BY <1>3, <1>4, <1>8 DEF Reaction, Queued, SameTables, Unused
  <1>10. /\ Queues(e, q, {a}) /\ a \in Record /\ a.sequence = 1
         /\ Len(q.outgoing) <= k.config.maximum_queued_messages
    BY <1>1, <1>3, <1>8, <1>9, QueuedFits
  <1>11. LegalRecord(Peer(e), a)
    BY <1>3, <1>6, <1>7, <1>10 DEF LegalRecord, Opening, Peer
  <1>12. Lawful(e, {h}, {a})
    <2>1. Hearing(e)
      BY DEF Hearing
    <2>2. Forgets(e, {h}) /\ Remembers(e, {a}) /\ Owes(e, {h}, {a}) /\ Replies(e, {h}, {a})
      <3>1. a.kind \notin Answers /\ a.kind \notin ReplyKinds /\ ~ AckRequired(a.kind)
        BY <1>7 DEF Answers, AckRequired, ReplyKinds, RequestKinds, ReplyOf
      <3> QED
        BY <3>1, <1>2, <1>9 DEF Forgets, Remembers, Owes, Replies, SameTables
    <2>3. k.outgoing_snapshot \in Snapshot /\ k.incoming_snapshot \in Snapshot
      BY <1>1, EndTypes DEF Connection
    <2>4. /\ Fits(k.outgoing_snapshot, a)
          /\ k.outgoing_snapshot = SnapshotAfter(k.outgoing_snapshot, a)
      BY <2>3, <1>7, <1>10, SnapshotAfterFacts
      DEF Fits, SnapshotAllows, OutsideSnapshot, SnapshotControl
    <2>5. k.incoming_snapshot = SnapshotAfter(k.incoming_snapshot, h)
      BY <2>3, <1>3, SnapshotAfterFacts DEF SnapshotControl
    <2>6. /\ conn'[e].last_incoming = k.last_incoming
          /\ conn'[e].last_outgoing = k.last_outgoing
          /\ conn'[e].incoming_snapshot = k.incoming_snapshot
          /\ conn'[e].outgoing_snapshot = k.outgoing_snapshot
      BY <1>2, <1>9 DEF SameTables
    <2> QED
      BY <2>1, <2>2, <2>4, <2>5, <2>6, <1>7, <1>11 DEF Lawful
  <1>13. StageOf(e)'
    <2>1. conn'[e].config = k.config
      BY <1>2, <1>9
    <2>2. Agreed(e)' = Agreed(e) /\ Compatible' = Compatible
      BY <2>1, <1>2, Agreement
    <2> QED
      BY <2>2, <1>2, <1>3, <1>4, <1>6, <1>9 DEF StageOf, StatesOf, States, Early
  <1>14. Handles(e, q, {a})
    BY <1>2, <1>9, <1>10, <1>12, <1>13 DEF Handles
  <1> QED
    BY <1>14, Reading

\* What arrives while the connection ends is dropped.
LEMMA ReadAndDiscard ==
    ASSUME Inductive, NEW e \in Ends, NEW q \in Connection, Reads(e, q),
           conn[e].state \in {"REJECTING", "CLOSING"}, Same(Counted(conn[e]), q)
    PROVE  Inductive'
  <1> DEFINE k == conn[e]
             n == Counted(k)
             h == Head(wire[e])
  <1>1. Types /\ Stages
    BY DEF Inductive
  <1>2. /\ n \in Connection /\ n.state = k.state /\ n.config = k.config
        /\ n.next_send = k.next_send /\ n.next_receive = k.next_receive + 1
        /\ n.outgoing = k.outgoing /\ n.incoming = k.incoming
        /\ SameTables(k, n) /\ conn'[e] = q /\ conn'[Peer(e)] = conn[Peer(e)]
        /\ n.peer = k.peer
        /\ k.next_receive \in Nat \ {0} /\ k.next_send \in Nat \ {0}
        /\ Len(k.incoming) <= k.config.maximum_queued_messages
        /\ Len(k.outgoing) <= k.config.maximum_queued_messages
    BY CountedAt
  <1> HIDE DEF n
  <1>3. /\ q.state = k.state /\ q.config = k.config /\ q.peer = k.peer
        /\ q.next_send = k.next_send /\ q.next_receive = k.next_receive + 1
        /\ q.outgoing = k.outgoing /\ q.incoming = k.incoming /\ SameTables(k, q)
    BY <1>2 DEF Same, SameTables, n
  <1>4. Lawful(e, {h}, {})
    <2>1. ~ Hearing(e)'
      BY <1>2, <1>3 DEF Hearing
    <2> QED
      BY <2>1, <1>2, <1>3 DEF Lawful, Replies, SameTables
  <1>5. StageOf(e)'
    <2>1. k.next_receive <= q.next_receive /\ k.next_send <= q.next_send
      BY <1>2, <1>3
    <2> QED
      BY <2>1, <1>1, <1>2, <1>3, LateStage
  <1>6. Handles(e, q, {})
    BY <1>2, <1>3, <1>4, <1>5 DEF Handles, Queues
  <1> QED
    BY <1>6, Reading

\* The first record a client reads answers its hello.
LEMMA WelcomeIsFirst ==
    ASSUME Inductive, NEW e \in Ends, wire[e] # <<>>, conn[e].state = "AWAITING_WELCOME"
    PROVE  LET h == Head(wire[e])
           IN  /\ e = "client" /\ h \in Record /\ h.kind \in {"WELCOME", "REJECT"}
               /\ h.kind = "WELCOME" => Compatible /\ h.id = Agreed(e) /\ h.id \in PeerFacts
               /\ Unused(conn[e]) /\ conn[e].next_send = 2
  <1> DEFINE h == Head(wire[e])
             p == Peer(e)
  <1>1. /\ Types /\ Order /\ Stages /\ StageOf(e) /\ p \in Ends /\ Peer(p) = e
    BY EndFacts DEF Inductive, Stages
  <1>2. e = "client" /\ p = "server"
    BY <1>1 DEF StageOf, StatesOf, Ends, Peer
  <1>3. Unused(conn[e]) /\ conn[e].next_send \in {1, 2}
    BY <1>1 DEF StageOf, Early
  <1>4. conn[e].next_send # 1
    <2>1. SUFFICES ASSUME conn[e].next_send = 1  PROVE FALSE
      OBVIOUS
    <2>2. conn[p].next_receive = 1
      BY <2>1, <1>1, NothingSent
    <2>3. conn[p].next_send = 1
      BY <2>2, <1>1, <1>2 DEF Stages, StageOf
    <2> QED
      BY <2>3, <1>1, NothingSent
  <1>5. h \in Record /\ h.sequence = 1 /\ LegalRecord(e, h)
    BY <1>3, HeadFacts DEF Unused
  <1>6. /\ h.kind \in {"WELCOME", "REJECT"}
        /\ h.kind = "WELCOME" => Compatible /\ h.id = Agreed(e)
    BY <1>2, <1>5 DEF LegalRecord, Opening
  <1>7. Agreed(e) \in PeerFacts
    <2>1. Client \in Configs /\ Server \in Configs /\ conn[p].config \in Configs
      BY <1>1, EndFacts, EndTypes DEF Client, Server, Connection
    <2>2. Limit \in Nat
      BY <1>1, LimitFacts
    <2>3. Negotiated \in SUBSET UNION {d.offered : d \in Configs}
      BY <2>1 DEF Negotiated
    <2>4. conn[p].config.role \in {d.role : d \in Configs}
      BY <2>1
    <2> QED
      BY <2>2, <2>3, <2>4 DEF Agreed, PeerFacts
  <1> QED
    BY <1>2, <1>3, <1>4, <1>5, <1>6, <1>7

Welcomed(n, q, r) ==
  /\ q \in Connection /\ q.state = "ESTABLISHED" /\ q.peer = r.id /\ q.config = n.config
  /\ q.next_send = n.next_send /\ q.next_receive = n.next_receive
  /\ q.outgoing = n.outgoing /\ q.incoming = n.incoming
  /\ q.pending = n.pending /\ q.pending_replies = n.pending_replies \ {1}
  /\ q.incoming_requests = n.incoming_requests
  /\ q.last_outgoing = n.last_outgoing /\ q.last_incoming = n.last_incoming
  /\ q.outgoing_snapshot = n.outgoing_snapshot /\ q.incoming_snapshot = n.incoming_snapshot

\* handle_welcome closes or accepts what was settled.
LEMMA WelcomeFacts ==
    ASSUME NEW n \in Connection, NEW r \in Record, r.kind \in {"WELCOME", "REJECT"},
           r.kind = "WELCOME" => r.id \in PeerFacts
    PROVE  LET q == HandleWelcome(n, r)
           IN  /\ q.failures = n.failures
               /\ Ended(n, q) \/ (r.kind = "WELCOME" /\ Welcomed(n, q, r))
  <1> DEFINE q == HandleWelcome(n, r)
             w == [n EXCEPT !.peer = r.id, !.pending_replies = n.pending_replies \ {1},
                            !.state = "ESTABLISHED", !.status = "OK"]
  <1>1. (\E st \in Statuses : q = SetClosed(n, st)) \/ (r.kind = "WELCOME" /\ q = w)
    <2>1. RejectionStatus(r.id) \in Statuses
      BY DEF RejectionStatus, Statuses
    <2> HIDE DEF w
    <2>2. /\ "PROTOCOL_ERROR" \in Statuses /\ "ROLE_REJECTED" \in Statuses
      BY DEF Statuses
    <2>3. q \in {SetClosed(n, RejectionStatus(r.id)), SetClosed(n, "PROTOCOL_ERROR"),
                 SetClosed(n, "ROLE_REJECTED")}
          \/ (r.kind = "WELCOME" /\ q = w)
      BY DEF HandleWelcome, w
    <2> QED
      BY <2>1, <2>2, <2>3
  <1>2. ASSUME NEW st \in Statuses, q = SetClosed(n, st)  PROVE q.failures = n.failures /\ Ended(n, q)
    <2> HIDE DEF q
    <2> QED
      BY <1>2, SetClosedFacts
  <1>3. CASE r.kind = "WELCOME" /\ q = w
    <2>1. r.id \in PeerFacts /\ n.pending_replies \ {1} \in SUBSET Nat
      BY <1>3 DEF Connection
    <2>2. Welcomed(n, w, r) /\ w.failures = n.failures
      BY <2>1 DEF Welcomed, Connection, States, Statuses
    <2> QED
      BY <2>2, <1>3
  <1> QED
    BY <1>1, <1>2, <1>3

\* A welcome that is accepted: the client is established with the same.
LEMMA ReadAndEstablish ==
    ASSUME Inductive, NEW e \in Ends, NEW q \in Connection, Reads(e, q),
           conn[e].state = "AWAITING_WELCOME", NEW h, h = Head(wire[e]),
           h.kind = "WELCOME", Welcomed(Counted(conn[e]), q, h)
    PROVE  Inductive'
  <1> DEFINE k == conn[e]
             n == Counted(k)
  <1>1. Types /\ Stages /\ wire[e] # <<>>
    BY DEF Inductive, Reads
  <1>2. /\ n \in Connection /\ n.state = k.state /\ n.config = k.config
        /\ n.next_send = k.next_send /\ n.next_receive = k.next_receive + 1
        /\ n.outgoing = k.outgoing /\ n.incoming = k.incoming
        /\ SameTables(k, n) /\ conn'[e] = q /\ conn'[Peer(e)] = conn[Peer(e)]
        /\ Len(k.incoming) <= k.config.maximum_queued_messages
        /\ Len(k.outgoing) <= k.config.maximum_queued_messages
    BY CountedAt
  <1> HIDE DEF n
  <1>3. /\ e = "client" /\ h \in Record /\ Compatible /\ h.id = Agreed(e)
        /\ Unused(k) /\ k.next_send = 2
    BY <1>1, WelcomeIsFirst
  <1>4. /\ q.state = "ESTABLISHED" /\ q.peer = Agreed(e) /\ q.config = k.config
        /\ q.next_send = k.next_send /\ q.next_receive = 2 /\ q.outgoing = k.outgoing
        /\ q.incoming = k.incoming /\ SameTables(k, q)
    BY <1>2, <1>3 DEF Welcomed, SameTables, Unused, n
  <1>5. Lawful(e, {h}, {})
    <2>1. Hearing(e)
      BY DEF Hearing
    <2>2. k.incoming_snapshot \in Snapshot
      BY <1>1, EndTypes DEF Connection
    <2>3. k.incoming_snapshot = SnapshotAfter(k.incoming_snapshot, h)
      BY <2>2, <1>3, SnapshotAfterFacts DEF SnapshotControl
    <2> QED
      BY <2>1, <2>3, <1>2, <1>4 DEF Lawful, Forgets, Remembers, Owes, Replies, SameTables
  <1>6. StageOf(e)'
    <2>1. Agreed(e)' = Agreed(e) /\ Compatible' = Compatible
      BY <1>2, <1>4, Agreement
    <2> QED
      BY <2>1, <1>2, <1>3, <1>4 DEF StageOf, StatesOf, States, Early
  <1>7. Handles(e, q, {})
    BY <1>2, <1>4, <1>5, <1>6 DEF Handles, Queues
  <1> QED
    BY <1>7, Reading

\* What becomes of an end that reads the next record and stays open.
Outcome(e, q) ==
  LET k == conn[e]
      n == Counted(k)
      h == Head(wire[e])
      a == Numbered(Message("PROTOCOL_ERROR", 0, 1, k.next_receive), k.next_send)
      b == Numbered(Message("PONG", h.id, 1, h.sequence), k.next_send)
  IN  \/ k.state = "ESTABLISHED" /\ Breaks(n, q, a)
      \/ /\ k.state = "ESTABLISHED" /\ q.state = "ESTABLISHED"
         /\ \/ h.kind \in {"UNKNOWN", "CRITICAL_UNKNOWN"} /\ Reaction(n, q, a)
            \/ h.kind = "PING" /\ Reaction(n, q, b)
      \/ k.state = "ESTABLISHED" /\ Absorbed(n, q, h)
      \/ k.state = "AWAITING_HELLO" /\ (Rejects(n, q) \/ Welcomes(n, q, h))
      \/ k.state = "AWAITING_WELCOME" /\ h.kind = "WELCOME" /\ Welcomed(n, q, h)
      \/ k.state \in {"REJECTING", "CLOSING"} /\ Same(n, q)

\* Whatever a record led to keeps the inductive invariant.
LEMMA OutcomeKeeps ==
    ASSUME Inductive, NEW e \in Ends, NEW q \in Connection, Reads(e, q), Outcome(e, q)
    PROVE  Inductive'
  <1> DEFINE k == conn[e]
             n == Counted(k)
             h == Head(wire[e])
             a == Numbered(Message("PROTOCOL_ERROR", 0, 1, k.next_receive), k.next_send)
             b == Numbered(Message("PONG", h.id, 1, h.sequence), k.next_send)
  <1>1. h.sequence = k.next_receive
    BY HeadFacts DEF Reads
  <1>2. CASE k.state = "ESTABLISHED" /\ Breaks(n, q, a)
    BY <1>2, ReadAndBreak
  <1>3. CASE /\ k.state = "ESTABLISHED" /\ q.state = "ESTABLISHED"
             /\ h.kind \in {"UNKNOWN", "CRITICAL_UNKNOWN"} /\ Reaction(n, q, a)
    BY <1>1, <1>3, ReadAndReact
  <1>4. CASE /\ k.state = "ESTABLISHED" /\ q.state = "ESTABLISHED"
             /\ h.kind = "PING" /\ Reaction(n, q, b)
    BY <1>1, <1>4, ReadAndReact
  <1>5. CASE k.state = "ESTABLISHED" /\ Absorbed(n, q, h)
    BY <1>5, ReadAndKeep
  <1>6. CASE k.state = "AWAITING_HELLO" /\ Rejects(n, q)
    BY <1>6, ReadAndReject
  <1>7. CASE k.state = "AWAITING_HELLO" /\ Welcomes(n, q, h)
    BY <1>7, ReadAndWelcome
  <1>8. CASE k.state = "AWAITING_WELCOME" /\ h.kind = "WELCOME" /\ Welcomed(n, q, h)
    BY <1>8, ReadAndEstablish
  <1>9. CASE k.state \in {"REJECTING", "CLOSING"} /\ Same(n, q)
    BY <1>9, ReadAndDiscard
  <1> QED
    BY <1>2, <1>3, <1>4, <1>5, <1>6, <1>7, <1>8, <1>9 DEF Outcome

\* The failures an end may report.
FailuresAt(e, q) ==
  /\ q.failures \subseteq {"LimitExceeded", "UnsupportedMessage"}
  /\ "UnsupportedMessage" \in q.failures => "CRITICAL_UNKNOWN" \in Vocabulary[Peer(e)]

\* receive_one ends the connection or leads to one of the outcomes.
LEMMA ReceiveOneFacts ==
    ASSUME Inductive, NEW e \in Ends, wire[e] # <<>>,
           conn[e].state \notin {"CLOSED", "NOT_ACCEPTED"}
    PROVE  LET q == ReceiveOne(conn[e], Head(wire[e]))
           IN  /\ q \in Connection /\ q.config = conn[e].config /\ FailuresAt(e, q)
               /\ \/ Ended(Counted(conn[e]), q)
                  \/ /\ q.state # "CLOSED" /\ q.next_receive = conn[e].next_receive + 1
                     /\ Outcome(e, q)
  <1> DEFINE k == conn[e]
             n == Counted(k)
             h == Head(wire[e])
             q == ReceiveOne(k, h)
             a == Numbered(Message("PROTOCOL_ERROR", 0, 1, k.next_receive), k.next_send)
             b == Numbered(Message("PONG", h.id, 1, h.sequence), k.next_send)
             done == Ended(n, q)
             open == q.state # "CLOSED" /\ q.next_receive = k.next_receive + 1 /\ Outcome(e, q)
  <1>1. /\ h \in Transit(e) /\ h \in Record /\ h.sequence = k.next_receive /\ LegalRecord(e, h)
        /\ h.size <= MaximumPayload(k)
    BY HeadFacts
  <1>2. /\ Types /\ Order /\ Stages /\ StageOf(e) /\ FailuresOf(e) /\ k \in Connection
    BY EndTypes DEF Inductive, Stages, Failures
  <1>3. /\ n \in Connection /\ n.state = k.state /\ n.config = k.config
        /\ n.next_send = k.next_send /\ n.next_receive = k.next_receive + 1
        /\ n.failures = k.failures /\ MaximumPayload(n) = MaximumPayload(k)
    BY <1>2, CountedFacts
  <1>4. q = CASE k.state = "AWAITING_HELLO" -> HandleHello(n, h)
              [] k.state = "AWAITING_WELCOME" -> HandleWelcome(n, h)
              [] k.state = "ESTABLISHED" -> ReceiveEstablished(n, h)
              [] OTHER -> With(n, "INVALID_STATE")
    <2>1. ~ (h.size > MaximumPayload(k))
      <3>1. h.size \in Nat /\ MaximumPayload(k) \in Nat
        BY <1>1, <1>2, ConfigFacts, RecordFacts
      <3> QED
        BY <3>1, <1>1
    <2> QED
      BY <2>1, <1>1 DEF ReceiveOne, Dispatch, Counted
  <1>5. ASSUME n.failures = q.failures \/ q.failures \subseteq n.failures \cup {"LimitExceeded"}
        PROVE  FailuresAt(e, q)
    BY <1>2, <1>3, <1>5 DEF FailuresOf, FailuresAt
  <1>6. ASSUME Ended(n, q)  PROVE q \in Connection /\ q.config = k.config
    BY <1>3, <1>6 DEF Ended
  <1> HIDE DEF q, n
  <1>7. CASE k.state = "AWAITING_HELLO"
    <2>1. q = HandleHello(n, h)
      BY <1>4, <1>7
    <2>2. h.kind = "HELLO" /\ h.id \in Configs
      BY <1>7, HelloIsFirst
    <2>3. q.failures = n.failures /\ (Ended(n, q) \/ Rejects(n, q) \/ Welcomes(n, q, h))
      BY <2>1, <2>2, <1>1, <1>3, <1>7, HelloFacts
    <2>4. Rejects(n, q) => /\ q \in Connection /\ q.config = k.config /\ q.state # "CLOSED"
                           /\ q.next_receive = k.next_receive + 1
      BY <1>3 DEF Rejects, Reaction, Queued
    <2>5. Welcomes(n, q, h) => /\ q \in Connection /\ q.config = k.config /\ q.state # "CLOSED"
                               /\ q.next_receive = k.next_receive + 1
      <3> DEFINE u == [n EXCEPT !.peer = Settled(n, h.id)]
      <3>1. u.config = n.config /\ u.next_receive = n.next_receive
        BY <1>3 DEF Connection
      <3> HIDE DEF u
      <3>2. Reaction(u, q, Welcome(n, h)) => q \in Connection /\ q.config = u.config
                                             /\ q.next_receive = u.next_receive
        BY DEF Reaction, Queued
      <3> QED
        BY <3>1, <3>2, <1>3 DEF Welcomes, u
    <2>6. Rejects(n, q) \/ Welcomes(n, q, h) => Outcome(e, q)
      BY <1>7 DEF Outcome, n
    <2> QED
      BY <2>3, <2>4, <2>5, <2>6, <1>5, <1>6 DEF q, n
  <1>8. CASE k.state = "AWAITING_WELCOME"
    <2>1. q = HandleWelcome(n, h)
      BY <1>4, <1>8
    <2>2. h.kind \in {"WELCOME", "REJECT"} /\ (h.kind = "WELCOME" => h.id \in PeerFacts)
      BY <1>8, WelcomeIsFirst
    <2>3. q.failures = n.failures /\ (Ended(n, q) \/ (h.kind = "WELCOME" /\ Welcomed(n, q, h)))
      BY <2>1, <2>2, <1>1, <1>3, WelcomeFacts
    <2>4. Welcomed(n, q, h) => /\ q \in Connection /\ q.config = k.config /\ q.state # "CLOSED"
                               /\ q.next_receive = k.next_receive + 1
      BY <1>3 DEF Welcomed
    <2>5. h.kind = "WELCOME" /\ Welcomed(n, q, h) => Outcome(e, q)
      BY <1>8 DEF Outcome, n
    <2> QED
      BY <2>3, <2>4, <2>5, <1>5, <1>6 DEF q, n
  <1>9. CASE k.state = "ESTABLISHED"
    <2>1. q = ReceiveEstablished(n, h)
      BY <1>4, <1>9
    <2>2. Acceptable(n, h)
      BY <1>9, HeadIsAcceptable DEF n
    <2>3. \/ Ended(n, q) /\ q.failures \subseteq n.failures \cup {"LimitExceeded"}
          \/ /\ Breaks(n, q, a)
             /\ \/ q.failures \subseteq n.failures \cup {"LimitExceeded"}
                \/ /\ h.kind = "CRITICAL_UNKNOWN"
                   /\ q.failures = n.failures \cup {"UnsupportedMessage"}
          \/ /\ h.kind \in {"UNKNOWN", "CRITICAL_UNKNOWN"}
             /\ q.state = n.state /\ Reaction(n, q, a) /\ q.failures = n.failures
          \/ /\ h.kind = "PING" /\ q.state = n.state /\ Reaction(n, q, b)
             /\ q.failures = n.failures
          \/ Absorbed(n, q, h)
      BY <2>1, <2>2, <1>1, <1>3, ReceiveEstablishedFacts
    <2>4. Breaks(n, q, a) => /\ q \in Connection /\ q.config = k.config /\ q.state # "CLOSED"
                             /\ q.next_receive = k.next_receive + 1 /\ Outcome(e, q)
      BY <1>3, <1>9 DEF Breaks, Queued, Outcome, n
    <2>5. ASSUME NEW c, Reaction(n, q, c)
          PROVE  /\ q \in Connection /\ q.config = k.config
                 /\ q.next_receive = k.next_receive + 1
      BY <2>5, <1>3 DEF Reaction, Queued
    <2>6. Absorbed(n, q, h) => /\ q \in Connection /\ q.config = k.config /\ q.state # "CLOSED"
                               /\ q.next_receive = k.next_receive + 1 /\ Outcome(e, q)
                               /\ q.failures = n.failures
      BY <1>3, <1>9 DEF Absorbed, Outcome, n
    <2>7. h.kind = "CRITICAL_UNKNOWN" /\ q.failures = n.failures \cup {"UnsupportedMessage"}
            => FailuresAt(e, q)
      BY <1>1, <1>2, <1>3 DEF LegalRecord, FailuresOf, FailuresAt
    <2>8. (/\ h.kind \in {"UNKNOWN", "CRITICAL_UNKNOWN"} /\ q.state = n.state
           /\ Reaction(n, q, a)) => Outcome(e, q) /\ q.state # "CLOSED"
      BY <1>3, <1>9 DEF Outcome, n
    <2>9. h.kind = "PING" /\ q.state = n.state /\ Reaction(n, q, b)
            => Outcome(e, q) /\ q.state # "CLOSED"
      BY <1>3, <1>9 DEF Outcome, n
    <2> HIDE DEF a, b
    <2> QED
      BY <2>3, <2>4, <2>5, <2>6, <2>7, <2>8, <2>9, <1>5, <1>6 DEF q, n
  <1>10. CASE k.state \in {"REJECTING", "CLOSING"}
    <2>1. q = With(n, "INVALID_STATE")
      BY <1>4, <1>10
    <2>2. Same(n, q)
      BY <2>1, <1>3, WithFacts DEF Statuses
    <2>3. /\ q \in Connection /\ q.config = k.config /\ q.state # "CLOSED"
          /\ q.next_receive = k.next_receive + 1 /\ q.failures = n.failures
      BY <2>2, <1>3, <1>10 DEF Same
    <2>4. Outcome(e, q)
      BY <2>2, <1>10 DEF Outcome, n
    <2> QED
      BY <2>3, <2>4, <1>5 DEF q
  <1>11. k.state # "CONNECTING"
    <2>1. SUFFICES ASSUME k.state = "CONNECTING"  PROVE FALSE
      OBVIOUS
    <2> DEFINE p == Peer(e)
    <2>2. e = "client" /\ k.next_send = 1 /\ p = "server" /\ p \in Ends /\ Peer(p) = e
      BY <2>1, <1>2, EndFacts DEF StageOf, StatesOf, Early, Peer, Ends
    <2>3. conn[p].next_receive = 1
      BY <2>2, <1>2, NothingSent
    <2>4. conn[p].next_send = 1
      BY <2>2, <2>3, <1>2 DEF Stages, StageOf
    <2> QED
      BY <2>2, <2>4, <1>2, NothingSent
  <1> QED
    BY <1>2, <1>7, <1>8, <1>9, <1>10, <1>11 DEF Connection, States

\* drain_incoming.
LEMMA DrainIncomingKeeps ==
    ASSUME Inductive, NEW e \in Ends, DrainIncoming(e)
    PROVE  Inductive'
  <1> DEFINE k == conn[e]
             p == Peer(e)
             w == wire[e]
             h == Head(wire[e])
             q == IF reset[e] THEN SetClosed(k, "SYSTEM_ERROR")
                  ELSE IF w # <<>> THEN ReceiveOne(k, h) ELSE SetClosed(k, "DISCONNECTED")
             taken == IF reset[e] THEN Len(w) ELSE Least(1, Len(w))
  <1>1. /\ Types /\ Order /\ Stages /\ StageOf(e) /\ FailuresOf(e) /\ BoundedAt(p)
        /\ p \in Ends /\ p # e /\ Peer(p) = e
    BY EndFacts DEF Inductive, Stages, Failures, Bounded
  <1>2. /\ "in" \in turn[e] /\ Kernel(e, q, taken, <<>>)
        /\ turn' = [turn EXCEPT ![e] = IF Stops(q) THEN turn[e] \ {"in"} ELSE turn[e]]
        /\ accepted' = accepted /\ delivered' = delivered
    BY <1>1 DEF DrainIncoming, Types
  <1>3. k.state # "CLOSED" /\ k.state # "NOT_ACCEPTED"
    BY <1>1, <1>2 DEF StageOf
  <1>4. k \in Connection /\ w \in Seq(Record) /\ Len(w) \in Nat /\ Len(k.outgoing) \in Nat
    BY <1>1, EndTypes
  <1>5. taken \in Nat /\ (~ reset[e] /\ w # <<>> => taken = 1)
    <2>1. w # <<>> => Len(w) >= 1
      <3>1. w # <<>> => Len(w) # 0
        BY <1>4, EmptySeq
      <3> QED
        BY <3>1, <1>4
    <2> QED
      BY <2>1, <1>4 DEF Least
  <1>6. /\ turn' \in [Ends -> SUBSET {"in", "out", "hup"}] /\ turn'[p] = turn[p]
        /\ q.state = "CLOSED" => "in" \notin turn'[e]
    <2> HIDE DEF q
    <2>1. turn[e] \in SUBSET {"in", "out", "hup"}
      BY <1>1 DEF Types
    <2> DEFINE t == IF Stops(q) THEN turn[e] \ {"in"} ELSE turn[e]
    <2>2. t \in SUBSET {"in", "out", "hup"} /\ (q.state = "CLOSED" => "in" \notin t)
      BY <2>1 DEF Stops
    <2> HIDE DEF t
    <2>3. turn' = [turn EXCEPT ![e] = t]
      BY <1>2 DEF t
    <2> QED
      BY <2>2, <2>3, <1>1 DEF Types
  <1>7. ASSUME q \in Connection, Ended(k, q) \/ (w # <<>> /\ Ended(Counted(k), q)),
               FailuresAt(e, q)
        PROVE  Inductive'
    <2> HIDE DEF q, taken
    <2>1. SubSeq(k.outgoing, 1, 0) = <<>>
      BY SubSeqEmpty
    <2>2. conn'[e] = q
      BY <1>1, <1>2 DEF Kernel, Types
    <2>3. FailuresOf(e)'
      BY <1>7, <2>2 DEF FailuresOf, FailuresAt
    <2>4. Len(wire[p]) + 0 <= SocketCapacity
      <3>1. Len(wire[p]) <= SocketCapacity /\ Len(wire[p]) \in Nat
        BY <1>1, EndTypes DEF BoundedAt
      <3> QED
        BY <3>1
    <2>5. q.state = "CLOSED"
      BY <1>7 DEF Ended
    <2>6. Closes(e, q, taken, 0)
      BY <1>1, <1>2, <1>3, <1>6, <1>7, <2>1, <2>3, <2>4, <2>5 DEF Closes, Types
    <2>7. 0 \in 0 .. Len(k.outgoing)
      BY <1>4
    <2> QED
      BY <1>5, <1>7, <2>6, <2>7, Closing
  <1>8. ASSUME NEW st \in Statuses, q = SetClosed(k, st)
        PROVE  Inductive'
    <2>1. Ended(k, q) /\ q.failures = k.failures
      <3> HIDE DEF q
      <3> QED
        BY <1>4, <1>8, SetClosedFacts
    <2>2. q \in Connection /\ FailuresAt(e, q)
      <3> HIDE DEF q
      <3> QED
        BY <2>1, <1>1 DEF Ended, FailuresAt, FailuresOf
    <2> QED
      BY <2>1, <2>2, <1>7
  <1>9. CASE reset[e]
    <2>1. q = SetClosed(k, "SYSTEM_ERROR") /\ "SYSTEM_ERROR" \in Statuses
      BY <1>9 DEF Statuses
    <2> QED
      BY <2>1, <1>8
  <1>10. CASE ~ reset[e] /\ w = <<>>
    <2>1. q = SetClosed(k, "DISCONNECTED") /\ "DISCONNECTED" \in Statuses
      BY <1>10 DEF Statuses
    <2> QED
      BY <2>1, <1>8
  <1>11. CASE ~ reset[e] /\ w # <<>>
    <2>1. q = ReceiveOne(k, h) /\ taken = 1
      BY <1>5, <1>11
    <2>2. /\ q \in Connection /\ q.config = k.config /\ FailuresAt(e, q)
          /\ \/ Ended(Counted(k), q)
             \/ /\ q.state # "CLOSED" /\ q.next_receive = k.next_receive + 1 /\ Outcome(e, q)
      BY <2>1, <1>3, <1>11, ReceiveOneFacts
    <2>3. CASE Ended(Counted(k), q)
      BY <2>2, <2>3, <1>7, <1>11
    <2>4. CASE q.state # "CLOSED" /\ q.next_receive = k.next_receive + 1 /\ Outcome(e, q)
      <3>1. Kernel(e, q, 1, <<>>)
        BY <1>2, <2>1
      <3> HIDE DEF q
      <3>2. /\ conn' = [conn EXCEPT ![e] = q]
            /\ wire' \in [Ends -> Seq(Record)] /\ wire'[p] = wire[p] /\ wire'[e] = Tail(w)
            /\ gone' \in [Ends -> BOOLEAN] /\ reset' \in [Ends -> BOOLEAN]
            /\ gone'[e] = gone[e] /\ gone'[p] = gone[p]
        BY <3>1, <2>2, <2>4, <1>1, <1>11, KernelQuiet
      <3>3. Reads(e, q)
        BY <3>2, <2>2, <2>4, <1>2, <1>3, <1>6, <1>11 DEF Reads, FailuresAt
      <3> QED
        BY <3>3, <2>2, <2>4, OutcomeKeeps
    <2> QED
      BY <2>2, <2>3, <2>4
  <1> QED
    BY <1>9, <1>10, <1>11

-----------------------------------------------------------------------------
(* Writing *)

\* An end that writes nothing, one that ends after writing n records, and one
\* that keeps what it could not write.
Writes(e, q) ==
  LET k == conn[e]
  IN  \/ q = k /\ Kernel(e, q, 0, <<>>)
      \/ \E n \in 0 .. Len(k.outgoing) :
           /\ Kernel(e, q, 0, SubSeq(k.outgoing, 1, n)) /\ k.state # "CLOSED"
           /\ gone[e] => n = 0
           /\ Len(wire[Peer(e)]) + n <= SocketCapacity
           /\ \/ q \in Connection /\ Ended(k, q) /\ q.failures = k.failures
              \/ ~ gone[e] /\ q = [k EXCEPT !.outgoing = Unsent(e, n)]

\* process_poll_events, after its reads, writes a front part of the queue or closes.
LEMMA EndPollWrites ==
    ASSUME Inductive, NEW e \in Ends, EndPoll(e)
    PROVE  \E q \in Connection : Writes(e, q)
  <1> DEFINE k == conn[e]
             p == Peer(e)
             flushes == k.outgoing # <<>> /\ ("out" \in turn[e] \/ k.state = "REJECTING")
             f == IF flushes THEN Flush(k, e) ELSE [k |-> k, sent |-> <<>>]
             hangsUp == "hup" \in turn[e] /\ f.k.outgoing = <<>> /\ f.k.state # "CLOSED"
             q == IF hangsUp THEN SetClosed(f.k, "DISCONNECTED") ELSE f.k
             room == SocketCapacity - Len(wire[p])
             n == Least(room, Len(k.outgoing))
             rest == SubSeq(k.outgoing, n + 1, Len(k.outgoing))
             u == [k EXCEPT !.outgoing = rest]
  <1>1. /\ Types /\ Order /\ Stages /\ StageOf(e) /\ BoundedAt(p) /\ p \in Ends /\ Peer(p) = e
    BY EndFacts DEF Inductive, Stages, Bounded
  <1>2. Kernel(e, q, 0, f.sent)
    BY DEF EndPoll
  <1>3. /\ k \in Connection /\ Len(k.outgoing) \in Nat /\ k.outgoing \in Seq(Record)
    BY <1>1, EndTypes
  <1>4. Len(wire[p]) \in Nat /\ Len(wire[p]) <= SocketCapacity
    BY <1>1, EndTypes DEF BoundedAt
  <1>5. 0 \in 0 .. Len(k.outgoing) /\ Len(wire[p]) + 0 <= SocketCapacity
        /\ SubSeq(k.outgoing, 1, 0) = <<>>
    BY <1>3, <1>4, SubSeqEmpty
  <1>6. flushes => k.state # "CLOSED"
    BY <1>1 DEF StageOf
  <1>7. k.state \in States /\ k.status \in Statuses
    BY <1>3 DEF Connection
  <1> HIDE DEF n, rest
  <1>8. CASE ~ flushes
    <2>1. f = [k |-> k, sent |-> <<>>]
      BY <1>8
    <2> HIDE DEF f
    <2>2. f.k = k /\ f.sent = <<>>
      BY <2>1
    <2>3. CASE ~ hangsUp
      <3>1. q = k
        BY <2>2, <2>3
      <3>2. Writes(e, k)
        BY <1>2, <2>2, <3>1 DEF Writes
      <3> QED
        BY <3>2, <1>3
    <2>4. CASE hangsUp
      <3>1. q = SetClosed(k, "DISCONNECTED") /\ k.state # "CLOSED"
        BY <2>2, <2>4
      <3>2. Ended(k, q) /\ q.failures = k.failures
        <4> HIDE DEF q
        <4> QED
          BY <3>1, <1>3, SetClosedFacts DEF Statuses
      <3> HIDE DEF q
      <3>3. q \in Connection
        BY <3>2 DEF Ended
      <3>4. Writes(e, q)
        BY <1>2, <1>5, <2>2, <3>1, <3>2, <3>3 DEF Writes
      <3> QED
        BY <3>3, <3>4
    <2> QED
      BY <2>3, <2>4
  <1>9. CASE flushes /\ gone[e]
    <2>1. f = [k |-> SetClosed(k, "SYSTEM_ERROR"), sent |-> <<>>]
      BY <1>9 DEF Flush
    <2> DEFINE z == SetClosed(k, "SYSTEM_ERROR")
    <2>2. Ended(k, z) /\ z.failures = k.failures
      <3> HIDE DEF z
      <3> QED
        BY <1>3, SetClosedFacts DEF Statuses, z
    <2> HIDE DEF z, f
    <2>3. f.k = z /\ f.sent = <<>>
      BY <2>1 DEF z
    <2>4. z \in Connection /\ z.state = "CLOSED"
      BY <2>2 DEF Ended
    <2>5. q = z
      BY <2>3, <2>4
    <2>6. Writes(e, z)
      BY <1>2, <1>5, <1>6, <1>9, <2>2, <2>3, <2>4, <2>5 DEF Writes
    <2> QED
      BY <2>4, <2>6
  <1>10. CASE flushes /\ ~ gone[e]
    <2>1. /\ n \in 0 .. Len(k.outgoing) /\ Len(wire[p]) + n <= SocketCapacity
      <3> DEFINE L == Len(k.outgoing)
                 W == Len(wire[p])
                 C == SocketCapacity
      <3>1. L \in Nat /\ W \in Nat /\ C \in Nat /\ W <= C /\ n = Least(C - W, L)
        BY <1>3, <1>4, IpcAssumption DEF n
      <3> HIDE DEF L, W, C
      <3>2. n \in 0 .. L /\ W + n <= C
        BY <3>1 DEF Least
      <3> QED
        BY <3>2 DEF L, W, C
    <2>2. f = [k |-> IF rest = <<>> /\ k.close_after_flush
                       THEN SetClosed([k EXCEPT !.outgoing = <<>>], k.status) ELSE u,
               sent |-> SubSeq(k.outgoing, 1, n)]
      BY <1>10 DEF Flush, n, rest
    <2>3. rest = Unsent(e, n)
      BY DEF rest, Unsent
    <2>4. rest \in Seq(Record)
      <3>1. \A i \in n + 1 .. Len(k.outgoing) : k.outgoing[i] \in Record
        <4>1. \A i \in 1 .. Len(k.outgoing) : k.outgoing[i] \in Record
          BY <1>3, ElementOfSeq
        <4> QED
          BY <4>1, <1>3, <2>1
      <3>2. n + 1 \in Int /\ Len(k.outgoing) \in Int
        BY <1>3, <2>1
      <3> QED
        BY <3>1, <3>2, SubSeqProperties DEF rest
    <2>5. ASSUME NEW v \in Connection, NEW st \in Statuses, v.config = k.config,
                 v.next_send = k.next_send, v.next_receive = k.next_receive,
                 v.incoming = k.incoming, v.last_outgoing = k.last_outgoing,
                 v.failures = k.failures, q = SetClosed(v, st),
                 f.sent = SubSeq(k.outgoing, 1, n)
          PROVE  \E z \in Connection : Writes(e, z)
      <3> HIDE DEF f, q
      <3>1. Ended(v, q) /\ q.failures = k.failures
        BY <2>5, SetClosedFacts
      <3>2. Ended(k, q) /\ q \in Connection
        BY <2>5, <3>1 DEF Ended
      <3>3. Kernel(e, q, 0, SubSeq(k.outgoing, 1, n))
        BY <1>2, <2>5 DEF q
      <3>4. Writes(e, q)
        BY <3>1, <3>2, <3>3, <2>1, <1>6, <1>10 DEF Writes
      <3> QED
        BY <3>2, <3>4
    <2>6. CASE rest = <<>> /\ k.close_after_flush
      <3> DEFINE v == [k EXCEPT !.outgoing = <<>>]
      <3>1. /\ v \in Connection /\ v.config = k.config /\ v.next_send = k.next_send
            /\ v.next_receive = k.next_receive /\ v.incoming = k.incoming
            /\ v.last_outgoing = k.last_outgoing /\ v.failures = k.failures
        BY <1>3, <2>4, <2>6 DEF Connection
      <3> HIDE DEF v
      <3>2. f.k = SetClosed(v, k.status) /\ f.sent = SubSeq(k.outgoing, 1, n)
        <4>1. f = [k |-> SetClosed(v, k.status), sent |-> SubSeq(k.outgoing, 1, n)]
          BY <2>2, <2>6 DEF v
        <4> HIDE DEF f
        <4> QED
          BY <4>1
      <3> HIDE DEF f
      <3>3. f.k.state = "CLOSED"
        BY <3>1, <3>2, <1>7, SetClosedFacts DEF Ended
      <3>4. q = SetClosed(v, k.status)
        BY <3>2, <3>3
      <3> USE DEF f
      <3> QED
        BY <3>1, <3>2, <3>4, <2>5, <1>7
    <2>7. CASE ~ (rest = <<>> /\ k.close_after_flush)
      <3>1. /\ u \in Connection /\ u.config = k.config /\ u.next_send = k.next_send
            /\ u.next_receive = k.next_receive /\ u.incoming = k.incoming
            /\ u.last_outgoing = k.last_outgoing /\ u.failures = k.failures
        BY <1>3, <2>4 DEF Connection
      <3>2. f.k = u /\ f.sent = SubSeq(k.outgoing, 1, n)
        <4>1. f = [k |-> u, sent |-> SubSeq(k.outgoing, 1, n)]
          BY <2>2, <2>7
        <4> HIDE DEF f, u
        <4> QED
          BY <4>1
      <3>3. CASE hangsUp
        <4>1. q = SetClosed(u, "DISCONNECTED")
          <5> HIDE DEF f, u
          <5> QED
            BY <3>2, <3>3
        <4> HIDE DEF u
        <4> QED
          BY <4>1, <3>1, <3>2, <2>5 DEF Statuses
      <3>4. CASE ~ hangsUp
        <4>1. q = u
          <5> HIDE DEF f, u
          <5> QED
            BY <3>2, <3>4
        <4>2. Kernel(e, u, 0, SubSeq(k.outgoing, 1, n))
          <5> HIDE DEF f, q, u
          <5> QED
            BY <1>2, <3>2, <4>1
        <4>3. Writes(e, u)
          BY <4>2, <1>6, <1>10, <2>1, <2>3 DEF Writes
        <4> QED
          BY <4>3, <3>1
      <3> QED
        BY <3>3, <3>4
    <2> QED
      BY <2>6, <2>7
  <1> QED
    BY <1>8, <1>9, <1>10

\* process_poll_events, after its reads.
LEMMA EndPollKeeps ==
    ASSUME Inductive, NEW e \in Ends, EndPoll(e)
    PROVE  Inductive'
  <1> DEFINE k == conn[e]
             p == Peer(e)
  <1>1. /\ Types /\ Order /\ Stages /\ Bounded /\ StageOf(e) /\ FailuresOf(e)
        /\ BoundedAt(e) /\ BoundedAt(p) /\ p \in Ends /\ p # e /\ Peer(p) = e
    BY EndFacts DEF Inductive, Stages, Failures, Bounded
  <1>2. /\ turn[e] # {} /\ turn' = [turn EXCEPT ![e] = {}]
        /\ accepted' = accepted /\ delivered' = delivered
    BY DEF EndPoll
  <1>3. turn' \in [Ends -> SUBSET {"in", "out", "hup"}] /\ turn'[p] = turn[p] /\ turn'[e] = {}
    BY <1>1, <1>2 DEF Types
  <1>4. /\ k \in Connection /\ k.outgoing \in Seq(Record) /\ Len(k.outgoing) \in Nat
        /\ wire[p] \in Seq(Record) /\ Len(wire[p]) \in Nat
    BY <1>1, EndTypes
  <1>5. PICK q \in Connection : Writes(e, q)
    BY EndPollWrites
  <1>6. CASE q = k /\ Kernel(e, q, 0, <<>>)
    <2>1. SameTables(k, q)
      BY <1>6 DEF SameTables
    <2>2. /\ conn' = [conn EXCEPT ![e] = q] /\ conn'[e] = q /\ conn'[p] = conn[p]
          /\ wire' \in [Ends -> Seq(Record)] /\ wire'[p] = wire[p] /\ wire'[e] = wire[e]
          /\ gone' \in [Ends -> BOOLEAN] /\ reset' \in [Ends -> BOOLEAN]
          /\ gone'[e] = gone[e] /\ gone'[p] = gone[p]
      BY <1>1, <1>6, KernelQuiet
    <2>3. Exchanges(e, q, {}, {})
      BY <1>6, <2>2 DEF Exchanges, Takes, Queues
    <2>4. Lawful(e, {}, {})
      BY <1>6, <2>1, <2>2, SilentIsLawful DEF Hearing
    <2>5. StageOf(e)'
      BY <1>1, <1>3, <1>6, <2>1, <2>2, IdleStage
    <2>6. FailuresOf(e)'
      BY <1>1, <1>6, <2>2 DEF FailuresOf
    <2>7. Carries(e, q, {}, {})
      BY <1>1, <1>2, <1>3, <1>6, <2>2, <2>3, <2>4, <2>5, <2>6 DEF Carries, Types, BoundedAt
    <2> QED
      BY <2>7, Carrying
  <1>7. ASSUME NEW n \in 0 .. Len(k.outgoing), k.state # "CLOSED", gone[e] => n = 0,
               Kernel(e, q, 0, SubSeq(k.outgoing, 1, n)),
               Len(wire[p]) + n <= SocketCapacity, Ended(k, q), q.failures = k.failures
        PROVE  Inductive'
    <2>1. conn'[e] = q
      BY <1>1, <1>7 DEF Kernel, Types
    <2>2. FailuresOf(e)'
      BY <1>1, <1>7, <2>1 DEF FailuresOf
    <2>3. conn[p].state = "CLOSED" => n = 0
      BY <1>1, <1>7 DEF Stages
    <2>4. Closes(e, q, 0, n)
      BY <1>1, <1>2, <1>3, <1>7, <2>2, <2>3 DEF Closes, Types
    <2> QED
      BY <1>7, <2>4, Closing
  <1>8. ASSUME NEW n \in 0 .. Len(k.outgoing), k.state # "CLOSED", ~ gone[e],
               Kernel(e, q, 0, SubSeq(k.outgoing, 1, n)),
               Len(wire[p]) + n <= SocketCapacity, q = [k EXCEPT !.outgoing = Unsent(e, n)]
        PROVE  Inductive'
    <2> DEFINE f == SubSeq(k.outgoing, 1, n)
    <2>1. conn[p].state # "CLOSED"
      BY <1>1, <1>8 DEF Stages
    <2>2. /\ Sent(e, n) \in Seq(Record) /\ Len(Sent(e, n)) = Len(wire[p]) + n
          /\ Unsent(e, n) \in Seq(Record) /\ Len(Unsent(e, n)) = Len(k.outgoing) - n
      BY <1>1, <1>8, <2>1, SentFacts
    <2>3. /\ q.state = k.state /\ q.config = k.config /\ q.peer = k.peer
          /\ q.next_send = k.next_send /\ q.next_receive = k.next_receive
          /\ q.outgoing = Unsent(e, n) /\ q.incoming = k.incoming
          /\ q.failures = k.failures /\ SameTables(k, q)
      BY <1>4, <1>8 DEF Connection, SameTables
    <2>4. f \in Seq(Record)
      <3>1. \A i \in 1 .. n : k.outgoing[i] \in Record
        <4>1. \A i \in 1 .. Len(k.outgoing) : k.outgoing[i] \in Record
          BY <1>4, ElementOfSeq
        <4>2. n \in Nat /\ n <= Len(k.outgoing)
          BY <1>4, <1>8
        <4> QED
          BY <1>4, <4>1, <4>2
      <3>2. n \in Int
        BY <1>8
      <3> QED
        BY <3>1, <3>2, SubSeqProperties
    <2>5. Kernel(e, q, 0, f)
      BY <1>8
    <2> HIDE DEF f
    <2>6. /\ conn' = [conn EXCEPT ![e] = q] /\ conn' \in [Ends -> Connection]
          /\ conn'[e] = q /\ conn'[p] = conn[p]
          /\ wire' \in [Ends -> Seq(Record)]
          /\ wire'[e] = SubSeq(wire[e], 0 + 1, Len(wire[e]))
          /\ wire'[p] = wire[p] \o f
          /\ gone' \in [Ends -> BOOLEAN] /\ reset' \in [Ends -> BOOLEAN]
          /\ gone'[e] = gone[e] /\ (gone'[p] <=> gone[p])
      <3> DEFINE closes == q.state = "CLOSED" /\ k.state # "CLOSED"
      <3>1. /\ conn' = [conn EXCEPT ![e] = q] /\ conn' \in [Ends -> Connection]
            /\ conn'[e] = q /\ conn'[p] = conn[p]
            /\ wire' \in [Ends -> Seq(Record)]
            /\ wire'[e] = IF closes THEN <<>> ELSE SubSeq(wire[e], 0 + 1, Len(wire[e]))
            /\ wire'[p] = IF gone[e] THEN wire[p] ELSE wire[p] \o f
            /\ gone' \in [Ends -> BOOLEAN] /\ reset' \in [Ends -> BOOLEAN]
            /\ gone'[e] = gone[e] /\ (gone'[p] <=> (gone[p] \/ closes))
        BY <1>1, <2>4, <2>5, KernelFacts
      <3>2. ~ closes
        BY <2>3, <1>8
      <3> HIDE DEF closes
      <3> QED
        BY <3>1, <3>2, <1>8
    <2>7. wire'[e] = wire[e] /\ wire'[p] = Sent(e, n)
      <3>1. wire[e] \in Seq(Record)
        BY <1>1, EndTypes
      <3>2. 0 + 1 = 1
        OBVIOUS
      <3>3. wire'[e] = wire[e]
        BY <3>1, <3>2, <2>6, SubSeqFull
      <3> QED
        BY <3>3, <2>6 DEF Sent, f
    <2>8. Sends(e, q, n)
      BY <1>8, <2>1, <2>3, <2>6, <2>7 DEF Sends
    <2>9. Moves(e, {}, {}) /\ Order'
      BY <1>1, <1>8, <2>8, Sending
    <2>10. Lawful(e, {}, {})
      BY <2>3, <2>6, SilentIsLawful DEF Hearing
    <2>11. StageOf(e)'
      BY <1>1, <1>3, <1>8, <2>3, <2>6, IdleStage
    <2>12. FailuresOf(e)'
      BY <1>1, <2>3, <2>6 DEF FailuresOf
    <2>13. gone'[p] <=> conn'[e].state = "CLOSED"
      BY <1>1, <2>3, <2>6 DEF Stages
    <2>14. Len(conn'[e].outgoing) <= k.config.maximum_queued_messages
      <3> DEFINE L == Len(k.outgoing)
                 M == k.config.maximum_queued_messages
      <3>1. L \in Nat /\ M \in Nat /\ L <= M /\ n \in 0 .. L /\ Len(Unsent(e, n)) = L - n
        BY <1>1, <1>4, <1>8, <2>2, ConfigFacts DEF BoundedAt
      <3> HIDE DEF L, M
      <3>2. L - n <= M
        BY <3>1
      <3>3. Len(conn'[e].outgoing) = L - n
        BY <3>1, <2>3, <2>6
      <3> QED
        BY <3>2, <3>3 DEF M
    <2>15. /\ Len(wire'[e]) <= SocketCapacity /\ Len(wire'[p]) <= SocketCapacity
           /\ Len(conn'[e].incoming) <= k.config.maximum_queued_messages
      BY <1>1, <1>8, <2>2, <2>3, <2>6, <2>7 DEF BoundedAt
    <2>16. Rest(e)
      BY <1>1, <1>2, <1>3, <2>1, <2>6, <2>11, <2>12, <2>13, <2>14, <2>15 DEF Rest, Types
    <2> QED
      BY <2>6, <2>9, <2>10, <2>16, Preservation
  <1> QED
    BY <1>5, <1>6, <1>7, <1>8 DEF Writes

-----------------------------------------------------------------------------
(* Sending *)

\* A message the application sends is queued and entered in the tables.
Enqueued(k, q, r) ==
  /\ Queued(k, q, r) /\ q.state = k.state /\ q.failures = k.failures
  /\ k.pending_replies \subseteq q.pending_replies /\ k.pending \subseteq q.pending
  /\ AckRequired(r.kind) => r.sequence \in q.pending_replies /\ EntryOf(r) \in q.pending
  /\ \A x \in q.incoming_requests :
       x \in k.incoming_requests /\ (r.kind \in ReplyKinds => x.sequence # r.reply_to)
  /\ q.last_incoming = k.last_incoming /\ q.incoming_snapshot = k.incoming_snapshot
  /\ q.outgoing_snapshot = SnapshotAfter(k.outgoing_snapshot, r)
  /\ q.last_outgoing = IF r.kind = "SESSION_STATE_CHANGE" THEN r.id ELSE k.last_outgoing

\* enqueue_with_sequence refuses, closes a full connection, or queues the message
\* with its entries in the tables.
LEMMA EnqueueFacts ==
    ASSUME NEW k \in Connection, NEW m \in Letter
    PROVE  LET q == EnqueueWithSequence(k, m)
           IN  \/ q = With(k, "LIMIT_EXCEEDED")
               \/ q.status # "OK" /\ Ended(k, q) /\ q.failures = k.failures
               \/ /\ q.status = "OK" /\ m.size <= MaximumPayload(k)
                  /\ Enqueued(k, q, Numbered(m, k.next_send))
  <1> DEFINE i == QueueInternal(k, m)
             r == Numbered(m, k.next_send)
             q == EnqueueWithSequence(k, m)
             S == SnapshotAfter(i.outgoing_snapshot, m)
             P == IF AckRequired(m.kind)
                    THEN i.pending \cup {[sequence |-> k.next_send, kind |-> m.kind, id |-> m.id]}
                    ELSE i.pending
             L == IF m.kind = "SESSION_STATE_CHANGE" THEN m.id ELSE i.last_outgoing
             t == [i EXCEPT !.outgoing_snapshot = S, !.pending = P, !.last_outgoing = L]
             D == t.incoming_requests \ Entry(t.incoming_requests, m.reply_to)
             c == [t EXCEPT !.incoming_requests = D]
  <1>1. q = IF i.status # "OK" THEN i ELSE IF m.kind \in ReplyKinds THEN c ELSE t
    BY DEF EnqueueWithSequence, CommitReplies
  <1>2. /\ r.kind = m.kind /\ r.id = m.id /\ r.size = m.size /\ r.reply_to = m.reply_to
        /\ r.sequence = k.next_send
    BY NumberedFacts
  <1>3. \/ i = With(k, "LIMIT_EXCEEDED")
        \/ i.status # "OK" /\ Ended(k, i) /\ i.failures = k.failures
        \/ /\ i.status = "OK" /\ Queued(k, i, r) /\ m.size <= MaximumPayload(k)
           /\ i.state = k.state /\ i.failures = k.failures
           /\ i.pending_replies = IF AckRequired(m.kind)
                                  THEN k.pending_replies \cup {k.next_send}
                                  ELSE k.pending_replies
           /\ i.pending = k.pending /\ i.incoming_requests = k.incoming_requests
           /\ i.last_outgoing = k.last_outgoing /\ i.last_incoming = k.last_incoming
           /\ i.outgoing_snapshot = k.outgoing_snapshot
           /\ i.incoming_snapshot = k.incoming_snapshot
    <2>1. m.size > MaximumPayload(k) => i = With(k, "LIMIT_EXCEEDED")
      BY DEF QueueInternal
    <2>2. m.size > MaximumPayload(k) \/ m.size <= MaximumPayload(k)
      BY ConfigFacts DEF Letter
    <2>3. m.size <= MaximumPayload(k) => ~ (m.size > MaximumPayload(k))
      BY ConfigFacts DEF Letter
    <2> HIDE DEF i, r
    <2> QED
      BY <2>1, <2>2, <2>3, QueueFacts DEF i, r
  <1> HIDE DEF i, r
  <1>4. CASE i = With(k, "LIMIT_EXCEEDED")
    <2>1. i.status # "OK"
      BY <1>4, WithFacts DEF Statuses
    <2> QED
      BY <1>1, <1>4, <2>1
  <1>5. CASE i.status # "OK" /\ Ended(k, i) /\ i.failures = k.failures
    BY <1>1, <1>5
  <1>6. CASE /\ i.status = "OK" /\ Queued(k, i, r) /\ m.size <= MaximumPayload(k)
             /\ i.state = k.state /\ i.failures = k.failures
             /\ i.pending_replies = IF AckRequired(m.kind)
                                    THEN k.pending_replies \cup {k.next_send}
                                    ELSE k.pending_replies
             /\ i.pending = k.pending /\ i.incoming_requests = k.incoming_requests
             /\ i.last_outgoing = k.last_outgoing /\ i.last_incoming = k.last_incoming
             /\ i.outgoing_snapshot = k.outgoing_snapshot
             /\ i.incoming_snapshot = k.incoming_snapshot
    <2>1. i \in Connection /\ r \in Record
      BY <1>6 DEF Queued
    <2>2. S = SnapshotAfter(k.outgoing_snapshot, r) /\ S \in Snapshot
      <3>1. S = SnapshotAfter(k.outgoing_snapshot, r)
        BY <1>2, <1>6 DEF SnapshotAfter
      <3>2. k.outgoing_snapshot \in Snapshot
        BY DEF Connection
      <3> QED
        BY <3>1, <3>2, <2>1, SnapshotAfterFacts
    <2>3. P \in SUBSET Entries /\ k.pending \subseteq P /\ (AckRequired(r.kind) => EntryOf(r) \in P)
      <3>1. k.next_send \in Nat \ {0} /\ k.pending \in SUBSET Entries
        BY DEF Connection
      <3>2. m.kind \in Kinds /\ m.id \in Identities
        BY DEF Letter
      <3>3. EntryOf(r) = [sequence |-> k.next_send, kind |-> m.kind, id |-> m.id]
        BY <1>2 DEF EntryOf
      <3> QED
        BY <3>1, <3>2, <3>3, <1>2, <1>6 DEF Entries
    <2>4. /\ L = (IF r.kind = "SESSION_STATE_CHANGE" THEN r.id ELSE k.last_outgoing)
          /\ L \in Nat
      <3>1. k.last_outgoing \in Nat
        BY DEF Connection
      <3>2. m.kind = "SESSION_STATE_CHANGE" => m.id \in Nat
        BY DEF Letter
      <3> QED
        BY <3>1, <3>2, <1>2, <1>6
    <2> HIDE DEF S, P, L
    <2>5. /\ t \in Connection /\ t.state = i.state /\ t.config = i.config /\ t.peer = i.peer
          /\ t.next_send = i.next_send /\ t.next_receive = i.next_receive
          /\ t.outgoing = i.outgoing /\ t.incoming = i.incoming /\ t.failures = i.failures
          /\ t.status = i.status
          /\ t.pending_replies = i.pending_replies /\ t.pending = P
          /\ t.incoming_requests = i.incoming_requests
          /\ t.last_outgoing = L /\ t.last_incoming = i.last_incoming
          /\ t.outgoing_snapshot = S /\ t.incoming_snapshot = i.incoming_snapshot
      BY <2>1, <2>2, <2>3, <2>4 DEF Connection
    <2> HIDE DEF t
    <2>6. D \in SUBSET Entries /\ D \subseteq k.incoming_requests
          /\ \A x \in D : x.sequence # r.reply_to
      BY <1>2, <1>6, <2>5 DEF Entry, Connection
    <2> HIDE DEF D
    <2>7. /\ c \in Connection /\ c.state = t.state /\ c.config = t.config /\ c.peer = t.peer
          /\ c.next_send = t.next_send /\ c.next_receive = t.next_receive
          /\ c.outgoing = t.outgoing /\ c.incoming = t.incoming /\ c.failures = t.failures
          /\ c.status = t.status
          /\ c.pending_replies = t.pending_replies /\ c.pending = t.pending
          /\ c.incoming_requests = D
          /\ c.last_outgoing = t.last_outgoing /\ c.last_incoming = t.last_incoming
          /\ c.outgoing_snapshot = t.outgoing_snapshot
          /\ c.incoming_snapshot = t.incoming_snapshot
      BY <2>5, <2>6 DEF Connection
    <2> HIDE DEF c
    <2>8. k.pending_replies \subseteq i.pending_replies
          /\ (AckRequired(r.kind) => r.sequence \in i.pending_replies)
      BY <1>2, <1>6
    <2>9. CASE m.kind \in ReplyKinds
      <3>1. q = c
        BY <1>1, <1>6, <2>9
      <3>2. Enqueued(k, c, r)
        BY <1>6, <2>2, <2>3, <2>4, <2>5, <2>6, <2>7, <2>8 DEF Enqueued, Queued
      <3> QED
        BY <3>1, <3>2, <2>5, <2>7, <1>6 DEF r
    <2>10. CASE m.kind \notin ReplyKinds
      <3>1. q = t
        BY <1>1, <1>6, <2>10
      <3>2. Enqueued(k, t, r)
        BY <1>2, <1>6, <2>2, <2>3, <2>4, <2>5, <2>8, <2>10 DEF Enqueued, Queued
      <3> QED
        BY <3>1, <3>2, <2>5, <1>6 DEF r
    <2> QED
      BY <2>9, <2>10
  <1> QED
    BY <1>3, <1>4, <1>5, <1>6

\* What an established end says.
Speaks(e, q, r) ==
  /\ Kernel(e, q, 0, <<>>) /\ conn[e].state = "ESTABLISHED" /\ Enqueued(conn[e], q, r)
  /\ LegalRecord(Peer(e), r) /\ Fits(conn[e].outgoing_snapshot, r)
  /\ r.kind = "SESSION_STATE_CHANGE" => r.id > conn[e].last_outgoing
  /\ r.kind \in Answers =>
       /\ r.kind \in ReplyKinds
       /\ \E x \in conn[e].incoming_requests :
            r.reply_to = x.sequence /\ r.id = x.id /\ r.kind = ReplyOf(x.kind)
  /\ turn' = turn /\ delivered' = delivered /\ accepted' \in [Ends -> Seq(Letter)]

\* What the rules let an established end say keeps the inductive invariant.
LEMMA SpeakingKeeps ==
    ASSUME Inductive, NEW e \in Ends, NEW q, NEW r, Speaks(e, q, r)
    PROVE  Inductive'
  <1> DEFINE k == conn[e]
             p == Peer(e)
  <1>1. /\ Types /\ Order /\ Stages /\ StageOf(e) /\ FailuresOf(e) /\ BoundedAt(e)
        /\ p \in Ends /\ p # e /\ Peer(p) = e
    BY EndFacts DEF Inductive, Stages, Failures, Bounded
  <1>2. k \in Connection /\ k.next_send \in Nat /\ k.next_receive \in Nat
    BY <1>1, EndTypes
  <1>3. /\ q \in Connection /\ q.state = k.state /\ q.config = k.config /\ q.peer = k.peer
        /\ q.next_send = k.next_send + 1 /\ q.next_receive = k.next_receive
        /\ q.incoming = k.incoming /\ q.failures = k.failures /\ k.state = "ESTABLISHED"
        /\ Queued(k, q, r)
    BY DEF Speaks, Enqueued, Queued
  <1>4. /\ Queues(e, q, {r}) /\ r \in Record /\ r.sequence = k.next_send
        /\ Len(q.outgoing) <= k.config.maximum_queued_messages
    BY <1>1, <1>2, <1>3, QueuedFits
  <1>5. /\ conn' = [conn EXCEPT ![e] = q] /\ conn'[e] = q /\ conn'[p] = conn[p]
        /\ wire' \in [Ends -> Seq(Record)] /\ wire'[p] = wire[p] /\ wire'[e] = wire[e]
        /\ gone' \in [Ends -> BOOLEAN] /\ reset' \in [Ends -> BOOLEAN]
        /\ gone'[e] = gone[e] /\ gone'[p] = gone[p]
    <2>1. Kernel(e, q, 0, <<>>)
      BY DEF Speaks
    <2> QED
      BY <2>1, <1>1, <1>3, KernelQuiet
  <1>6. Exchanges(e, q, {}, {r})
    BY <1>3, <1>4, <1>5 DEF Exchanges, Takes
  <1>7. Lawful(e, {}, {r})
    <2>1. Hearing(e)
      BY <1>3 DEF Hearing
    <2>2. Forgets(e, {}) /\ Remembers(e, {r}) /\ Owes(e, {}, {r}) /\ Replies(e, {}, {r})
      BY <2>1, <1>5 DEF Speaks, Enqueued, Forgets, Remembers, Owes, Replies
    <2>3. /\ q.last_incoming = k.last_incoming /\ q.incoming_snapshot = k.incoming_snapshot
          /\ q.outgoing_snapshot = SnapshotAfter(k.outgoing_snapshot, r)
          /\ q.last_outgoing = IF r.kind = "SESSION_STATE_CHANGE" THEN r.id ELSE k.last_outgoing
          /\ Fits(k.outgoing_snapshot, r) /\ LegalRecord(p, r)
          /\ r.kind = "SESSION_STATE_CHANGE" => r.id > k.last_outgoing
      BY DEF Speaks, Enqueued
    <2> QED
      BY <2>1, <2>2, <2>3, <1>5 DEF Lawful
  <1>8. StageOf(e)'
    <2>1. k.next_receive <= q.next_receive /\ k.next_send <= q.next_send
      BY <1>2, <1>3
    <2> QED
      BY <2>1, <1>1, <1>3, <1>5, LateStage
  <1>9. FailuresOf(e)'
    BY <1>1, <1>3, <1>5 DEF FailuresOf
  <1>10. Carries(e, q, {}, {r})
    BY <1>1, <1>3, <1>4, <1>5, <1>6, <1>7, <1>8, <1>9 DEF Carries, Types, BoundedAt, Speaks
  <1> QED
    BY <1>3, <1>10, Carrying

\* What an application says is neither an opening nor an automatic answer.
Spoken == {"NOTE", "ITEM", "PING"} \cup RequestKinds \cup ReplyKinds \cup SnapshotControl

\* The kinds an application builds.
LEMMA SpokenFacts ==
    /\ Spoken \subseteq Kinds /\ Spoken \cap Opening = {} /\ "CRITICAL_UNKNOWN" \notin Spoken
    /\ Spoken \cap Answers = ReplyKinds
  BY DEF Spoken, Kinds, Opening, Answers, Automatic, RequestKinds, ReplyKinds, ReplyOf,
         SnapshotControl

\* The messages an application builds.
LEMMA MessagesFacts ==
    ASSUME Types, NEW e \in Ends, NEW m \in Messages(e)
    PROVE  m \in Letter /\ m.kind \in Spoken
  <1> DEFINE n == Len(accepted[e]) + 1
             s == conn[e].outgoing_snapshot
  <1>1. \/ \E size \in {1, 2} : m = Message("NOTE", n, size, 0)
        \/ \E kind \in RequestKinds \cup {"PING"} : m = Message(kind, n, 1, 0)
        \/ \E count \in {-1, 1} : m = Message("SNAPSHOT_BEGIN", count, 1, 0)
        \/ m = Message("ITEM", n, 1, 0)
        \/ m = Message("SNAPSHOT_END", s.count, 1, 0)
        \/ m = Message("SNAPSHOT_ABORT", n, 1, 0)
        \/ \E r \in ToSet(delivered[e]) :
             r.kind \in RequestKinds /\ m = Message(ReplyOf(r.kind), r.id, 1, r.sequence)
    BY DEF Messages
  <1>2. n \in Nat /\ n \in Identities
    <2>1. Len(accepted[e]) \in Nat
      BY LenProperties DEF Types
    <2> QED
      BY <2>1 DEF Identities
  <1>3. s.count \in Nat /\ s.count \in Identities
    <2>1. s \in Snapshot
      BY EndTypes DEF Connection
    <2> QED
      BY <2>1 DEF Snapshot, Identities
  <1>4. {-1, 1} \subseteq Identities
    BY DEF Identities
  <1>5. Spoken \subseteq Kinds /\ "SESSION_STATE_CHANGE" \notin SnapshotControl
    BY SpokenFacts DEF SnapshotControl
  <1> HIDE DEF n, s
  <1>6. ASSUME NEW size \in {1, 2}, m = Message("NOTE", n, size, 0)  PROVE m \in Letter /\ m.kind \in Spoken
    BY <1>2, <1>5, <1>6, LetterFacts, MessageFacts DEF Spoken
  <1>7. ASSUME NEW kind \in RequestKinds \cup {"PING"}, m = Message(kind, n, 1, 0)
        PROVE  m \in Letter /\ m.kind \in Spoken
    BY <1>2, <1>5, <1>7, LetterFacts, MessageFacts DEF Spoken
  <1>8. ASSUME NEW kind \in SnapshotControl \cup {"ITEM"}, NEW id \in Identities,
               m = Message(kind, id, 1, 0)
        PROVE  m \in Letter /\ m.kind \in Spoken
    <2>1. kind \in Spoken /\ kind # "SESSION_STATE_CHANGE"
      BY DEF Spoken, SnapshotControl
    <2>2. kind \in Kinds /\ 0 \in Nat
      BY <2>1, <1>5
    <2> QED
      BY <1>8, <2>1, <2>2, LetterFacts, MessageFacts
  <1>9. /\ "SNAPSHOT_BEGIN" \in SnapshotControl \cup {"ITEM"}
        /\ "SNAPSHOT_END" \in SnapshotControl \cup {"ITEM"}
        /\ "SNAPSHOT_ABORT" \in SnapshotControl \cup {"ITEM"}
        /\ "ITEM" \in SnapshotControl \cup {"ITEM"}
    BY DEF SnapshotControl
  <1>10. ASSUME NEW r \in ToSet(delivered[e]), r.kind \in RequestKinds,
                m = Message(ReplyOf(r.kind), r.id, 1, r.sequence)
         PROVE  m \in Letter /\ m.kind \in Spoken
    <2>1. delivered[e] \in Seq(Record)
      BY DEF Types
    <2>2. r \in Record
      BY <2>1, <1>10, ToSetFacts
    <2>3. r.id \in Identities /\ r.sequence \in Nat
      BY <2>2, RecordFacts
    <2>4. ReplyOf(r.kind) \in ReplyKinds /\ ReplyOf(r.kind) # "SESSION_STATE_CHANGE"
      BY <1>10, KindFacts
    <2>5. ReplyOf(r.kind) \in Kinds /\ ReplyOf(r.kind) \in Spoken
      BY <2>4, <1>5 DEF Spoken
    <2> DEFINE kind == ReplyOf(r.kind)
    <2> HIDE DEF kind
    <2>6. m = Message(kind, r.id, 1, r.sequence)
      BY <1>10 DEF kind
    <2>7. kind \in Kinds /\ kind \in Spoken /\ kind # "SESSION_STATE_CHANGE"
      BY <2>4, <2>5 DEF kind
    <2> QED
      BY <2>3, <2>6, <2>7, LetterFacts, MessageFacts
  <1>11. CASE \E count \in {-1, 1} : m = Message("SNAPSHOT_BEGIN", count, 1, 0)
    BY <1>4, <1>8, <1>9, <1>11
  <1>12. CASE m = Message("ITEM", n, 1, 0) \/ m = Message("SNAPSHOT_ABORT", n, 1, 0)
    BY <1>2, <1>8, <1>9, <1>12
  <1>13. CASE m = Message("SNAPSHOT_END", s.count, 1, 0)
    BY <1>3, <1>8, <1>9, <1>13
  <1> QED
    BY <1>1, <1>6, <1>7, <1>10, <1>11, <1>12, <1>13

\* gwipc_connection_enqueue.
LEMMA EnqueueKeeps ==
    ASSUME Inductive, NEW e \in Ends, NEW m \in Messages(e), Enqueue(e, m)
    PROVE  Inductive'
  <1> DEFINE k == conn[e]
             p == Peer(e)
             q == EnqueueWithSequence(k, m)
             r == Numbered(m, k.next_send)
  <1>1. /\ Types /\ Order /\ Stages /\ StageOf(e) /\ FailuresOf(e) /\ BoundedAt(p)
        /\ p \in Ends /\ p # e /\ Peer(p) = e
    BY EndFacts DEF Inductive, Stages, Failures, Bounded
  <1>2. k \in Connection /\ k.next_send \in Nat /\ Len(k.outgoing) \in Nat
    BY <1>1, EndTypes
  <1>3. m \in Letter /\ m.kind \in Spoken
    BY <1>1, MessagesFacts
  <1>4. /\ k.state = "ESTABLISHED" /\ turn[e] = {} /\ q # With(k, q.status)
        /\ ValidateApplication(k, m, k.outgoing_snapshot, k.config.role, k.peer.role) = "OK"
        /\ MayPrepare(k, m) /\ Kernel(e, q, 0, <<>>)
        /\ accepted' = [accepted EXCEPT ![e] = IF q.status = "OK" THEN Append(accepted[e], m)
                                               ELSE accepted[e]]
        /\ turn' = turn /\ delivered' = delivered
    BY <1>1 DEF Enqueue, Types
  <1>5. \/ q = With(k, "LIMIT_EXCEEDED")
        \/ q.status # "OK" /\ Ended(k, q) /\ q.failures = k.failures
        \/ q.status = "OK" /\ m.size <= MaximumPayload(k) /\ Enqueued(k, q, r)
    BY <1>2, <1>3, EnqueueFacts
  <1> HIDE DEF q
  <1>6. q # With(k, "LIMIT_EXCEEDED")
    <2>1. With(k, "LIMIT_EXCEEDED").status = "LIMIT_EXCEEDED"
      BY <1>2, WithFacts DEF Statuses
    <2> QED
      BY <2>1, <1>4
  <1>7. accepted' \in [Ends -> Seq(Letter)]
    <2>1. accepted[e] \in Seq(Letter) /\ Append(accepted[e], m) \in Seq(Letter)
      BY <1>1, <1>3, AppendProperties DEF Types
    <2> QED
      BY <2>1, <1>1, <1>4 DEF Types
  <1>8. CASE q.status # "OK" /\ Ended(k, q) /\ q.failures = k.failures
    <2>1. SubSeq(k.outgoing, 1, 0) = <<>>
      BY SubSeqEmpty
    <2>2. conn'[e] = q /\ q \in Connection
      BY <1>1, <1>4, <1>8 DEF Kernel, Types, Ended
    <2>3. FailuresOf(e)'
      BY <1>1, <1>8, <2>2 DEF FailuresOf
    <2>4. Len(wire[p]) + 0 <= SocketCapacity
      <3>1. Len(wire[p]) <= SocketCapacity /\ Len(wire[p]) \in Nat
        BY <1>1, EndTypes DEF BoundedAt
      <3> QED
        BY <3>1
    <2>5. Closes(e, q, 0, 0)
      BY <1>1, <1>4, <1>7, <1>8, <2>1, <2>3, <2>4 DEF Closes, Types
    <2>6. 0 \in 0 .. Len(k.outgoing) /\ 0 \in Nat
      BY <1>2
    <2> QED
      BY <2>2, <2>5, <2>6, Closing
  <1>9. CASE q.status = "OK" /\ m.size <= MaximumPayload(k) /\ Enqueued(k, q, r)
    <2>1. /\ r.kind = m.kind /\ r.id = m.id /\ r.size = m.size /\ r.reply_to = m.reply_to
          /\ r.sequence = k.next_send
      BY NumberedFacts
    <2> HIDE DEF r
    <2>2. /\ RequiredCapability(m.kind) \subseteq k.peer.capabilities
          /\ ValidDirection(m.kind, k.config.role, k.peer.role)
          /\ ValidOutputRoles(m.kind, k.config.role, k.peer.role)
          /\ ~ (OutsideSnapshot(m.kind) /\ k.outgoing_snapshot.active)
          /\ SnapshotAllows(k.outgoing_snapshot, m)
      BY <1>4 DEF ValidateApplication
    <2>3. k.peer = Agreed(e) /\ k.next_send >= 2
      BY <1>1, <1>4 DEF StageOf
    <2>4. LegalRecord(p, r)
      <3>1. r.kind \notin Opening /\ r.kind # "CRITICAL_UNKNOWN"
        BY <1>3, <2>1, SpokenFacts
      <3>2. r.sequence # 1
        BY <1>2, <2>1, <2>3
      <3>3. r.size <= Limit
        <4>1. MaximumPayload(k) = Limit
          BY <1>1, <1>4, LimitFacts
        <4> QED
          BY <4>1, <1>9, <2>1
      <3>4. /\ RequiredCapability(r.kind) \subseteq Negotiated
            /\ ValidDirection(r.kind, k.config.role, conn[p].config.role)
            /\ ValidOutputRoles(r.kind, k.config.role, conn[p].config.role)
        BY <2>1, <2>2, <2>3 DEF Agreed
      <3> QED
        BY <3>1, <3>2, <3>3, <3>4, <1>1 DEF LegalRecord, Opening
    <2>5. Fits(k.outgoing_snapshot, r)
      BY <2>1, <2>2 DEF Fits, SnapshotAllows
    <2>6. r.kind = "SESSION_STATE_CHANGE" => r.id > k.last_outgoing
      BY <1>4, <2>1 DEF MayPrepare
    <2>7. r.kind \in Answers =>
            /\ r.kind \in ReplyKinds
            /\ \E x \in k.incoming_requests :
                 r.reply_to = x.sequence /\ r.id = x.id /\ r.kind = ReplyOf(x.kind)
      BY <1>3, <1>4, <2>1, SpokenFacts DEF MayPrepare, Entry
    <2>8. Speaks(e, q, r)
      BY <1>4, <1>7, <1>9, <2>4, <2>5, <2>6, <2>7 DEF Speaks
    <2> QED
      BY <2>8, SpeakingKeeps
  <1> QED
    BY <1>5, <1>6, <1>8, <1>9

\* A record of a later version of the library.
LEMMA EnqueueUnknownKeeps ==
    ASSUME Inductive, NEW e \in Ends, NEW kind \in {"UNKNOWN", "CRITICAL_UNKNOWN"},
           EnqueueUnknown(e, kind)
    PROVE  Inductive'
  <1> DEFINE k == conn[e]
             p == Peer(e)
             m == Message(kind, 0, 1, 0)
             q == QueueInternal(k, m)
             r == Numbered(m, k.next_send)
  <1>1. /\ Types /\ Order /\ Stages /\ StageOf(e) /\ p \in Ends /\ Peer(p) = e
    BY EndFacts DEF Inductive, Stages
  <1>2. k \in Connection /\ k.next_send \in Nat
    BY <1>1, EndTypes
  <1>3. /\ kind \in Vocabulary[e] /\ k.state = "ESTABLISHED" /\ q.status = "OK"
        /\ Kernel(e, q, 0, <<>>) /\ accepted' = [accepted EXCEPT ![e] = Append(accepted[e], m)]
        /\ turn' = turn /\ delivered' = delivered
    BY <1>1 DEF EnqueueUnknown, Types
  <1>4. m \in Letter /\ m.kind = kind /\ m.size = 1 /\ ~ AckRequired(m.kind)
    <2>1. kind \in Kinds /\ 0 \in Identities /\ kind # "SESSION_STATE_CHANGE"
      BY DEF Kinds, Automatic, Identities
    <2> QED
      BY <2>1, LetterFacts, MessageFacts DEF AckRequired, RequestKinds
  <1>5. 1 <= Limit /\ 1 <= MaximumPayload(k)
    BY <1>1, LimitFacts
  <1>6. /\ r.kind = kind /\ r.size = 1 /\ r.sequence = k.next_send
    BY <1>4, NumberedFacts
  <1> HIDE DEF m
  <1>7. q.state = k.state /\ q.failures = k.failures /\ Reaction(k, q, r)
    BY <1>2, <1>3, <1>4, <1>5, SmallQueueFacts
  <1> HIDE DEF q, r
  <1>8. /\ kind \notin Opening /\ kind \notin Answers /\ kind \notin ReplyKinds
        /\ kind # "SESSION_STATE_CHANGE" /\ kind \notin SnapshotControl \cup {"ITEM"}
        /\ ~ AckRequired(kind)
    BY DEF Opening, Answers, ReplyKinds, RequestKinds, ReplyOf, SnapshotControl, AckRequired
  <1>9. r \in Record /\ k.outgoing_snapshot \in Snapshot
    BY <1>2, <1>7 DEF Reaction, Queued, Connection
  <1>10. Enqueued(k, q, r)
    <2>1. SnapshotAfter(k.outgoing_snapshot, r) = k.outgoing_snapshot
      BY <1>6, <1>8, <1>9, SnapshotAfterFacts
    <2> QED
      BY <2>1, <1>6, <1>7, <1>8 DEF Enqueued, Reaction, SameTables
  <1>11. LegalRecord(p, r)
    <2>1. r.sequence # 1
      BY <1>1, <1>2, <1>3, <1>6 DEF StageOf
    <2> QED
      BY <2>1, <1>1, <1>3, <1>5, <1>6, <1>8
      DEF LegalRecord, Opening, RequiredCapability, ValidDirection, ValidOutputRoles,
          SnapshotControl
  <1>12. Fits(k.outgoing_snapshot, r)
    BY <1>6 DEF Fits, SnapshotAllows, OutsideSnapshot
  <1>13. accepted' \in [Ends -> Seq(Letter)]
    <2>1. Append(accepted[e], m) \in Seq(Letter)
      BY <1>1, <1>4, AppendProperties DEF Types
    <2> QED
      BY <2>1, <1>1, <1>3 DEF Types
  <1>14. Speaks(e, q, r)
    BY <1>3, <1>6, <1>8, <1>10, <1>11, <1>12, <1>13 DEF Speaks
  <1> QED
    BY <1>14, SpeakingKeeps

-----------------------------------------------------------------------------
(* The theorems *)

\* A connection structure as it is created has an empty table of everything.
LEMMA FreshFacts ==
    ASSUME NEW c \in Configs, NEW st \in States
    PROVE  LET k == Fresh(c, st)
           IN  /\ k \in Connection /\ k.state = st /\ k.config = c /\ Unused(k)
               /\ k.next_send = 1 /\ k.outgoing = <<>> /\ k.incoming = <<>> /\ k.failures = {}
  <1>1. <<>> \in Seq(Record)
    BY EmptySeq
  <1>2. NoPeer \in PeerFacts /\ NoSnapshot \in Snapshot
    BY DEF NoPeer, PeerFacts, NoSnapshot, Snapshot, Identities
  <1> QED
    BY <1>1, <1>2 DEF Fresh, Unused, Connection, Statuses

\* Nobody has sent anything, and nobody has left.
LEMMA InitiallyInductive == Init => Inductive
  <1> SUFFICES ASSUME Init PROVE Inductive
    OBVIOUS
  <1>1. PICK cc \in ClientConfigs, sc \in ServerConfigs,
             st \in {"CONNECTING", "AWAITING_WELCOME"} :
          conn = [e \in Ends |-> IF e = "client" THEN Fresh(cc, st)
                                                 ELSE Fresh(sc, "NOT_ACCEPTED")]
    BY DEF Init, AfterConnect
  <1>2. /\ wire = [e \in Ends |-> <<>>] /\ gone = [e \in Ends |-> FALSE]
        /\ reset = [e \in Ends |-> FALSE] /\ turn = [e \in Ends |-> {}]
        /\ accepted = [e \in Ends |-> <<>>] /\ delivered = [e \in Ends |-> <<>>]
    BY DEF Init
  <1>3. /\ cc \in Configs /\ sc \in Configs
        /\ st \in States \ {"NOT_ACCEPTED", "AWAITING_HELLO", "REJECTING"}
        /\ "NOT_ACCEPTED" \in States \ {"CONNECTING", "AWAITING_WELCOME"}
        /\ st \in States /\ "NOT_ACCEPTED" \in States
    BY DEF Configs, States
  <1>4. ASSUME NEW e \in Ends
        PROVE  /\ conn[e] \in Connection /\ Unused(conn[e]) /\ conn[e].state \in StatesOf(e)
               /\ conn[e].state \in {"CONNECTING", "AWAITING_WELCOME", "NOT_ACCEPTED"}
               /\ conn[e].next_send = 1 /\ conn[e].next_receive = 1
               /\ conn[e].outgoing = <<>> /\ conn[e].incoming = <<>> /\ conn[e].failures = {}
               /\ wire[e] = <<>> /\ turn[e] = {} /\ ~ gone[e]
    <2>1. CASE e = "client"
      <3>1. conn[e] = Fresh(cc, st) /\ StatesOf(e) = States \ {"NOT_ACCEPTED", "AWAITING_HELLO", "REJECTING"}
        BY <1>1, <2>1 DEF StatesOf
      <3>2. Unused(Fresh(cc, st))
        BY <1>3, FreshFacts
      <3>3. conn[e].next_receive = 1
        BY <3>1, <3>2 DEF Unused
      <3> QED
        BY <1>2, <1>3, <3>1, <3>2, <3>3, FreshFacts
    <2>2. CASE e # "client"
      <3>1. /\ conn[e] = Fresh(sc, "NOT_ACCEPTED")
            /\ StatesOf(e) = States \ {"CONNECTING", "AWAITING_WELCOME"}
        BY <1>1, <2>2 DEF StatesOf
      <3>2. Unused(Fresh(sc, "NOT_ACCEPTED"))
        BY <1>3, FreshFacts
      <3>3. conn[e].next_receive = 1
        BY <3>1, <3>2 DEF Unused
      <3> QED
        BY <1>2, <1>3, <3>1, <3>2, <3>3, FreshFacts
    <2> QED
      BY <2>1, <2>2
  <1>5. Types
    <2>1. conn \in [Ends -> Connection]
      <3>1. conn = [e \in Ends |-> conn[e]]
        BY <1>1
      <3> QED
        BY <3>1, <1>4
    <2>2. <<>> \in Seq(Record) /\ <<>> \in Seq(Letter)
      BY EmptySeq
    <2> QED
      BY <1>2, <2>1, <2>2 DEF Types
  <1>6. ASSUME NEW e \in Ends
        PROVE  Peer(e) \in Ends /\ Transit(e) = {}
    <2>1. Peer(e) \in Ends
      BY EndFacts
    <2>2. ToSet(wire[e]) = {} /\ ToSet(conn[Peer(e)].outgoing) = {}
      <3>1. wire[e] \in Seq(Record) /\ conn[Peer(e)].outgoing \in Seq(Record)
        BY <1>5, <2>1 DEF Types, Connection
      <3> QED
        BY <3>1, <2>1, <1>4, ToSetFacts
    <2> QED
      BY <2>1, <2>2 DEF Transit
  <1>7. Len(<<>>) = 0
    BY EmptySeq
  <1>8. Bounded
    <2>1. SUFFICES ASSUME NEW e \in Ends PROVE BoundedAt(e)
      BY DEF Bounded
    <2>2. conn[e].config.maximum_queued_messages \in Nat
      BY <1>4, ConfigFacts
    <2>3. SocketCapacity \in Nat
      BY IpcAssumption
    <2> QED
      BY <1>4, <1>7, <2>2, <2>3 DEF BoundedAt
  <1>9. Stages
    <2>1. SUFFICES ASSUME NEW e \in Ends
                   PROVE  StageOf(e) /\ (gone[e] <=> conn[Peer(e)].state = "CLOSED")
      BY DEF Stages
    <2>2. conn[Peer(e)].state # "CLOSED"
      BY <1>4, <1>6
    <2>3. conn[e].state \notin {"ESTABLISHED", "REJECTING", "CLOSING", "CLOSED"}
      BY <1>4
    <2> QED
      BY <1>4, <2>2, <2>3 DEF StageOf
  <1>10. Order
    <2>1. SUFFICES ASSUME NEW e \in Ends PROVE OrderOf(e)
      BY DEF Order
    <2>2. /\ Len(conn[e].outgoing) = 0 /\ Len(wire[e]) = 0
          /\ Len(conn[Peer(e)].outgoing) = 0 /\ conn[e].next_receive = 1
          /\ conn[Peer(e)].next_send = 1
      BY <1>4, <1>6, <1>7
    <2> QED
      BY <2>2 DEF OrderOf
  <1>11. Legal
    BY <1>6 DEF Legal
  <1>12. Correlated
    <2>1. SUFFICES ASSUME NEW e \in Ends
                   PROVE  Remembered(e) /\ Answerable(e) /\ Answering(e)
      BY DEF Correlated
    <2>2. Transit(e) = {} /\ Transit(Peer(e)) = {} /\ conn[Peer(e)].incoming_requests = {}
      BY <1>4, <1>6 DEF Unused
    <2> QED
      BY <2>2 DEF Remembered, Answerable, Answering
  <1>13. Generations
    <2>1. SUFFICES ASSUME NEW e \in Ends PROVE GenerationsOf(e)
      BY DEF Generations
    <2>2. conn[e].last_incoming = 0 /\ conn[Peer(e)].last_outgoing = 0
      BY <1>4, <1>6 DEF Unused
    <2> QED
      BY <2>2, <1>6 DEF GenerationsOf
  <1>14. Chained
    <2>1. SUFFICES ASSUME NEW e \in Ends PROVE \E h \in [Nat -> Snapshot] : Follows(e, h)
      BY DEF Chained
    <2> DEFINE h == [n \in Nat |-> NoSnapshot]
    <2>2. h \in [Nat -> Snapshot]
      BY DEF NoSnapshot, Snapshot, Identities
    <2>3. /\ conn[e].next_receive - 1 = 0 /\ conn[Peer(e)].next_send - 1 = 0
          /\ conn[e].incoming_snapshot = NoSnapshot
          /\ conn[Peer(e)].outgoing_snapshot = NoSnapshot
      BY <1>4, <1>6 DEF Unused
    <2>4. h[0] = NoSnapshot
      OBVIOUS
    <2> HIDE DEF h
    <2>5. Follows(e, h)
      BY <1>6, <2>3, <2>4 DEF Follows
    <2> QED
      BY <2>2, <2>5
  <1>15. Failures
    BY <1>4 DEF Failures, FailuresOf
  <1> QED
    BY <1>5, <1>8, <1>9, <1>10, <1>11, <1>12, <1>13, <1>14, <1>15 DEF Inductive

\* Every handler of the library, and every call of an application, keeps it.
LEMMA StepsAreInductive == Inductive /\ [Next]_vars => Inductive'
  <1> SUFFICES ASSUME Inductive, [Next]_vars PROVE Inductive'
    OBVIOUS
  <1>1. CASE UNCHANGED vars
    <2>1. /\ conn' = conn /\ wire' = wire /\ gone' = gone /\ reset' = reset /\ turn' = turn
          /\ accepted' = accepted /\ delivered' = delivered
      BY <1>1 DEF vars
    <2>2. \A e : Transit(e)' = Transit(e)
      BY <2>1 DEF Transit
    <2>3. (Types /\ Bounded /\ Failures /\ Order)'
      <3>1. Types'
        BY <2>1 DEF Inductive, Types
      <3>2. Bounded'
        BY <2>1 DEF Inductive, Bounded, BoundedAt
      <3>3. Failures'
        BY <2>1 DEF Inductive, Failures, FailuresOf
      <3>4. Order'
        BY <2>1 DEF Inductive, Order, OrderOf
      <3> QED
        BY <3>1, <3>2, <3>3, <3>4
    <2>4. Stages'
      <3>1. (\A e : Agreed(e)' = Agreed(e)) /\ (Compatible' <=> Compatible)
        BY <2>1 DEF Agreed, Compatible, Client, Server, Negotiated, Limit
      <3>2. ASSUME NEW e \in Ends, StageOf(e)  PROVE StageOf(e)'
        BY <2>1, <3>1, <3>2 DEF StageOf, Early
      <3>3. PICK e \in Ends : Peer(e) \in Ends /\ Peer(Peer(e)) = e
        BY EndFacts
      <3>4. Types /\ Stages /\ StageOf(e) /\ StageOf(Peer(e))
        BY <3>3 DEF Inductive, Stages
      <3>5. StageOf(e)'
        BY <3>2, <3>4
      <3>6. gone[Peer(e)] <=> conn[e].state = "CLOSED"
        BY <3>3, <3>4 DEF Stages
      <3> QED
        BY <2>1, <3>4, <3>5, <3>6, StagesStep
    <2>5. Legal'
      <3>1. /\ Client' = Client /\ Negotiated' = Negotiated /\ Limit' = Limit
            /\ (\A e : Agreed(e)' = Agreed(e)) /\ (Compatible' <=> Compatible)
        BY <2>1 DEF Agreed, Compatible, Client, Server, Negotiated, Limit
      <3>2. ASSUME NEW e, NEW r, LegalRecord(e, r)  PROVE LegalRecord(e, r)'
        BY <2>1, <3>1, <3>2 DEF LegalRecord
      <3>3. ASSUME NEW e \in Ends, conn[e].state # "CLOSED", NEW r \in Transit(e)
            PROVE  LegalRecord(e, r)'
        BY <3>2, <3>3 DEF Inductive, Legal
      <3> QED
        BY <2>1, <2>2, <3>3 DEF Legal
    <2>6. Correlated'
      BY <2>1, <2>2
      DEF Inductive, Correlated, Hearing, Remembered, Answerable, Answering
    <2>7. Generations'
      BY <2>1, <2>2 DEF Inductive, Generations, GenerationsOf, Hearing
    <2>8. Chained'
      BY <2>1, <2>2 DEF Inductive, Chained, Follows, Hearing
    <2> QED
      BY <2>3, <2>4, <2>5, <2>6, <2>7, <2>8 DEF Inductive
  <1>2. ASSUME NEW sameUser \in BOOLEAN, Accept(sameUser)  PROVE Inductive'
    BY <1>2, AcceptKeeps
  <1>3. ASSUME NEW e \in Ends, BeginPoll(e)  PROVE Inductive'
    BY <1>3, BeginPollKeeps
  <1>10. ASSUME NEW e \in Ends, RefuseConnect(e)  PROVE Inductive'
    BY <1>10, RefuseConnectKeeps
  <1>4. ASSUME NEW e \in Ends, DrainIncoming(e)  PROVE Inductive'
    BY <1>4, DrainIncomingKeeps
  <1>5. ASSUME NEW e \in Ends, EndPoll(e)  PROVE Inductive'
    BY <1>5, EndPollKeeps
  <1>6. ASSUME NEW e \in Ends, Send(e)  PROVE Inductive'
    <2>1. PICK m \in Messages(e) : Enqueue(e, m)
      BY <1>6 DEF Send
    <2> QED
      BY <2>1, EnqueueKeeps
  <1>7. ASSUME NEW e \in Ends, NEW kind \in {"UNKNOWN", "CRITICAL_UNKNOWN"},
               EnqueueUnknown(e, kind)
        PROVE  Inductive'
    BY <1>7, EnqueueUnknownKeeps
  <1>8. ASSUME NEW e \in Ends, Receive(e)  PROVE Inductive'
    BY <1>8, ReceiveKeeps
  <1>9. ASSUME NEW e \in Ends, Destroy(e)  PROVE Inductive'
    BY <1>9, DestroyKeeps
  <1> QED
    BY <1>1, <1>2, <1>3, <1>4, <1>5, <1>6, <1>7, <1>8, <1>9, <1>10 DEF Next

\* The inductive invariant of a connection: whatever the two ends do with it,
\* their counters, their tables of requests, their generations and their
\* snapshots fit the records that are queued in the library and in the kernel.
THEOREM InductiveHolds == Spec => []Inductive
  <1> QED
    BY InitiallyInductive, StepsAreInductive, PTL DEF Spec

\* The inductive invariant says what is wanted, and more.
LEMMA InductiveIsUnderstanding == Inductive => PeersUnderstandEachOther
  <1> SUFFICES ASSUME Inductive PROVE PeersUnderstandEachOther
    OBVIOUS
  <1>1. Types /\ Bounded /\ Stages /\ Failures
    BY DEF Inductive
  <1>2. TypeOK
    <2>1. ASSUME NEW e \in Ends
          PROVE  /\ conn[e].state \in States
                 /\ conn[e].next_send \in Nat \ {0} /\ conn[e].next_receive \in Nat \ {0}
      <3>1. conn[e] \in Connection
        BY <1>1 DEF Types
      <3> QED
        BY <3>1 DEF Connection
    <2> QED
      BY <1>1, <2>1 DEF TypeOK, Bounded, BoundedAt, Types
  <1>3. ASSUME NEW e \in Ends, conn[e].state = "ESTABLISHED"
        PROVE  /\ conn[e].config.required \subseteq conn[e].peer.capabilities
               /\ conn[e].peer = Agreed(e)
    <2>1. conn[e].peer = Agreed(e) /\ Compatible
      BY <1>1, <1>3 DEF Stages, StageOf
    <2>2. conn[e].config = Client \/ conn[e].config = Server
      BY DEF Ends, Client, Server
    <2>3. Client.required \subseteq Negotiated /\ Server.required \subseteq Negotiated
      BY <2>1 DEF Compatible
    <2>4. conn[e].peer.capabilities = Negotiated
      BY <2>1 DEF Agreed
    <2>5. conn[e].config.required \subseteq Negotiated
      BY <2>2, <2>3
    <2> QED
      BY <2>1, <2>4, <2>5
  <1>4. ASSUME NEW e \in Ends
        PROVE  /\ Agreed(e).capabilities = Negotiated /\ Agreed(e).maximum_payload = Limit
               /\ Agreed(e).role = conn[Peer(e)].config.role /\ Peer(e) \in Ends
    BY EndFacts DEF Agreed
  <1>5. \A e \in Ends : FailuresOf(e)
    BY <1>1 DEF Failures
  <1> QED
    BY <1>2, <1>3, <1>4, <1>5 DEF PeersUnderstandEachOther, FailuresOf

\* Two ends that run the library never call each other's records wrong: only a
\* full queue or a critical unknown type ends a connection, and what
\* handle_hello and handle_welcome settled is the same at both ends.
THEOREM PeersAlwaysUnderstandEachOther == Spec => []PeersUnderstandEachOther
  <1> QED
    BY InductiveHolds, InductiveIsUnderstanding, PTL

-----------------------------------------------------------------------------
(* What applications see of a sequence *)

Posts == [kind : Kinds, id : Identities, size : Nat, reply_to : Nat]
Texts == Letter \cup Record

\* A set that holds zero and every successor holds every number.
LEMMA SetInduction ==
    ASSUME NEW S, 0 \in S, \A n \in Nat : n \in S => n + 1 \in S
    PROVE  \A n \in Nat : n \in S
  <1> DEFINE T == Nat \ S
             R == {p \in Nat \X Nat : p[1] < p[2]}
  <1>1. IsWellFoundedOn(R, Nat)
    BY NatLessThanWellFounded DEF OpToRel
  <1>2. SUFFICES ASSUME T # {} PROVE FALSE
    OBVIOUS
  <1>3. T \subseteq Nat
    OBVIOUS
  <1> HIDE DEF R
  <1>4. PICK x \in T : \A y \in T : ~ (<<y, x>> \in R)
    BY <1>1, <1>2, <1>3, WFMin
  <1>5. x \in Nat /\ x # 0 /\ x - 1 \in Nat /\ x - 1 < x /\ (x - 1) + 1 = x
    OBVIOUS
  <1>6. x - 1 \in T
    <2>1. x - 1 \in S => (x - 1) + 1 \in S
      BY <1>5
    <2> QED
      BY <2>1, <1>5
  <1>7. <<x - 1, x>> \in R
    BY <1>5 DEF R
  <1> QED
    BY <1>4, <1>6, <1>7

\* The recursive definition of Shown has a solution, so that it is one.
LEMMA ShownDefinition ==
    ASSUME NEW s \in Seq(Texts)
    PROVE  /\ Shown(s)[0] = <<>>
           /\ \A n \in 1 .. Len(s) : Shown(s)[n] = Extended(Shown(s)[n - 1], s[n])
  <1> DEFINE Solves(f, n) ==
               f = [i \in 0 .. n |-> IF i = 0 THEN <<>> ELSE Extended(f[i - 1], s[i])]
             S == {n \in Nat : \E f : Solves(f, n)}
  <1>1. 0 \in S
    <2> DEFINE f == [i \in 0 .. 0 |-> <<>>]
    <2>1. f = [i \in 0 .. 0 |-> IF i = 0 THEN <<>> ELSE Extended(f[i - 1], s[i])]
      OBVIOUS
    <2> QED
      BY <2>1
  <1>2. ASSUME NEW n \in Nat, n \in S  PROVE n + 1 \in S
    <2>1. PICK f : Solves(f, n)
      BY <1>2
    <2> DEFINE last == Extended(f[n], s[n + 1])
               g == [i \in 0 .. n + 1 |-> IF i = n + 1 THEN last ELSE f[i]]
    <2>2. ASSUME NEW i \in 0 .. n + 1
          PROVE  g[i] = IF i = 0 THEN <<>> ELSE Extended(g[i - 1], s[i])
      <3>1. CASE i = n + 1
        <4>1. g[i] = last /\ g[i - 1] = f[n] /\ i # 0
          BY <3>1
        <4> QED
          BY <4>1, <3>1
      <3>2. CASE i \in 0 .. n /\ i = 0
        BY <2>1, <3>2
      <3>3. CASE i \in 0 .. n /\ i # 0
        <4>1. g[i] = f[i] /\ g[i - 1] = f[i - 1]
          BY <3>3
        <4>2. f[i] = Extended(f[i - 1], s[i])
          BY <2>1, <3>3
        <4> QED
          BY <3>3, <4>1, <4>2
      <3> QED
        BY <3>1, <3>2, <3>3
    <2>3. Solves(g, n + 1)
      <3> DEFINE h == [i \in 0 .. n + 1 |-> IF i = 0 THEN <<>> ELSE Extended(g[i - 1], s[i])]
      <3>1. \A i \in 0 .. n + 1 : g[i] = h[i]
        BY <2>2
      <3>2. g = h
        BY <3>1
      <3> QED
        BY <3>2
    <2>4. n + 1 \in Nat
      OBVIOUS
    <2> HIDE DEF g, Solves
    <2> QED
      BY <2>3, <2>4
  <1>3. Len(s) \in S
    <2> HIDE DEF S
    <2>1. Len(s) \in Nat
      BY LenProperties
    <2> QED
      BY <1>1, <1>2, <2>1, SetInduction
  <1>4. Solves(Shown(s), Len(s))
    BY <1>3 DEF Shown
  <1>5. Len(s) \in Nat
    BY LenProperties
  <1> QED
    BY <1>4, <1>5

\* Joining sequences of posts gives sequences of posts, and the empty one is neutral.
LEMMA PostsFacts ==
    /\ <<>> \in Seq(Posts)
    /\ \A u \in Seq(Posts) : u \o <<>> = u /\ <<>> \o u = u
    /\ \A u, v \in Seq(Posts) : u \o v \in Seq(Posts)
  BY EmptySeq, ConcatEmptySeq, ConcatProperties

\* The brackets do not matter: named, so that it is only used where it is asked for.
Associate(u, v, w) == (u \o v) \o w = u \o (v \o w)

LEMMA SequencesAssociate ==
    ASSUME NEW S, NEW u \in Seq(S), NEW v \in Seq(S), NEW w \in Seq(S)
    PROVE  Associate(u, v, w)
  BY ConcatAssociative DEF Associate

LEMMA PostsAssociate ==
    ASSUME NEW u \in Seq(Posts), NEW v \in Seq(Posts), NEW w \in Seq(Posts)
    PROVE  Associate(u, v, w)
  BY SequencesAssociate

\* What applications see of one record.
Trace(m) == IF m.kind \in Hidden THEN <<>>
            ELSE <<Message(m.kind, m.id, m.size, m.reply_to)>>

\* A record lengthens what has been seen by what is seen of it.
LEMMA TraceFacts ==
    ASSUME NEW m \in Texts, NEW v \in Seq(Posts)
    PROVE  Trace(m) \in Seq(Posts) /\ Extended(v, m) = v \o Trace(m)
  <1> DEFINE post == Message(m.kind, m.id, m.size, m.reply_to)
  <1>1. post \in Posts
    BY DEF Texts, Letter, Record, Posts, Message
  <1> HIDE DEF post
  <1>2. <<>> \in Seq(Posts) /\ <<post>> \in Seq(Posts) /\ v \o <<>> = v
    BY <1>1, EmptySeq, ConcatEmptySeq
  <1>3. Append(v, post) = v \o <<post>>
    BY <1>1, AppendIsConcat
  <1> QED
    BY <1>2, <1>3 DEF Trace, Extended, post

\* What is seen of a sequence grows by what is seen of each record.
LEMMA ShownFacts ==
    ASSUME NEW s \in Seq(Texts)
    PROVE  /\ Shown(s)[0] = <<>>
           /\ \A n \in 0 .. Len(s) : Shown(s)[n] \in Seq(Posts)
           /\ \A n \in 1 .. Len(s) : Shown(s)[n] = Shown(s)[n - 1] \o Trace(s[n])
  <1> DEFINE S == {n \in Nat : n <= Len(s) => Shown(s)[n] \in Seq(Posts)}
  <1>1. Len(s) \in Nat /\ \A n \in 1 .. Len(s) : s[n] \in Texts
    BY LenProperties, ElementOfSeq
  <1>2. 0 \in S
    BY ShownDefinition, EmptySeq
  <1>3. ASSUME NEW n \in Nat, n \in S  PROVE n + 1 \in S
    <2>1. SUFFICES ASSUME n + 1 <= Len(s)  PROVE Shown(s)[n + 1] \in Seq(Posts)
      OBVIOUS
    <2>2. n + 1 \in 1 .. Len(s) /\ (n + 1) - 1 = n /\ Shown(s)[n] \in Seq(Posts)
      BY <1>1, <1>3, <2>1
    <2>3. Shown(s)[n + 1] = Extended(Shown(s)[n], s[n + 1])
      BY <2>2, ShownDefinition
    <2>4. Extended(Shown(s)[n], s[n + 1]) = Shown(s)[n] \o Trace(s[n + 1])
          /\ Trace(s[n + 1]) \in Seq(Posts)
      BY <1>1, <2>2, TraceFacts
    <2> QED
      BY <2>2, <2>3, <2>4, ConcatProperties
  <1>4. \A n \in Nat : n \in S
    <2> HIDE DEF S
    <2> QED
      BY <1>2, <1>3, SetInduction
  <1>5. \A n \in 0 .. Len(s) : Shown(s)[n] \in Seq(Posts)
    BY <1>1, <1>4
  <1>6. ASSUME NEW n \in 1 .. Len(s)
        PROVE  Shown(s)[n] = Shown(s)[n - 1] \o Trace(s[n])
    <2>1. n - 1 \in 0 .. Len(s) /\ s[n] \in Texts
      BY <1>1
    <2> QED
      BY <1>5, <2>1, ShownDefinition, TraceFacts
  <1> QED
    BY <1>5, <1>6, ShownDefinition

\* What is seen of two sequences is what is seen of each.
LEMMA VisibleConcat ==
    ASSUME NEW s \in Seq(Texts), NEW t \in Seq(Texts)
    PROVE  /\ s \o t \in Seq(Texts) /\ Visible(s) \in Seq(Posts)
           /\ Visible(s \o t) = Visible(s) \o Visible(t)
  <1> DEFINE u == s \o t
             k == Len(s)
             l == Len(t)
             A == {n \in Nat : n <= k => Shown(u)[n] = Shown(s)[n]}
             B == {n \in Nat : n <= l => Shown(u)[k + n] = Visible(s) \o Shown(t)[n]}
  <1>1. /\ k \in Nat /\ l \in Nat /\ u \in Seq(Texts) /\ Len(u) = k + l
        /\ \A i \in 1 .. k + l : u[i] = IF i <= k THEN s[i] ELSE t[i - k]
    BY LenProperties, ConcatProperties
  <1>2. \A i \in 1 .. l : t[i] \in Texts
    BY ElementOfSeq
  <1> HIDE DEF u, k, l
  <1>3. 0 \in A
    BY <1>1, ShownDefinition
  <1>4. ASSUME NEW n \in Nat, n \in A  PROVE n + 1 \in A
    <2>1. SUFFICES ASSUME n + 1 <= k  PROVE Shown(u)[n + 1] = Shown(s)[n + 1]
      OBVIOUS
    <2>2. /\ n + 1 \in 1 .. k /\ n + 1 \in 1 .. k + l /\ (n + 1) - 1 = n /\ u[n + 1] = s[n + 1]
          /\ Shown(u)[n] = Shown(s)[n]
      BY <1>1, <1>4, <2>1
    <2>3. Shown(u)[n + 1] = Shown(u)[n] \o Trace(u[n + 1])
      BY <1>1, <2>2, ShownFacts
    <2>4. Shown(s)[n + 1] = Shown(s)[n] \o Trace(s[n + 1])
      BY <1>1, <2>2, ShownFacts DEF k
    <2> QED
      BY <2>2, <2>3, <2>4
  <1>5. k \in A
    <2> HIDE DEF A
    <2> QED
      BY <1>1, <1>3, <1>4, SetInduction
  <1>6. Shown(u)[k] = Visible(s) /\ Visible(s) \in Seq(Posts)
    <2>1. k \in 0 .. k
      BY <1>1
    <2>2. Shown(s)[k] \in Seq(Posts)
      BY <2>1, ShownFacts DEF k
    <2>3. Visible(s) = Shown(s)[k]
      BY DEF Visible, k
    <2> QED
      BY <1>1, <1>5, <2>2, <2>3
  <1>7. 0 \in B
    <2>1. Shown(t)[0] = <<>> 
      BY ShownFacts
    <2>2. Visible(s) \o <<>> = Visible(s) /\ k + 0 = k
      BY <1>1, <1>6, PostsFacts
    <2> QED
      BY <1>6, <2>1, <2>2
  <1>8. ASSUME NEW n \in Nat, n \in B  PROVE n + 1 \in B
    <2>1. SUFFICES ASSUME n + 1 <= l
                   PROVE  Shown(u)[k + (n + 1)] = Visible(s) \o Shown(t)[n + 1]
      OBVIOUS
    <2>2. /\ n \in 0 .. l /\ n + 1 \in 1 .. l /\ k + (n + 1) \in 1 .. k + l /\ (n + 1) - 1 = n
          /\ (k + (n + 1)) - 1 = k + n /\ u[k + (n + 1)] = t[n + 1]
          /\ Shown(u)[k + n] = Visible(s) \o Shown(t)[n]
      BY <1>1, <1>8, <2>1
    <2>3. Shown(u)[k + (n + 1)] = Shown(u)[k + n] \o Trace(u[k + (n + 1)])
      BY <1>1, <2>2, ShownFacts
    <2>4. Shown(t)[n + 1] = Shown(t)[n] \o Trace(t[n + 1]) /\ Shown(t)[n] \in Seq(Posts)
      BY <2>2, ShownFacts DEF l
    <2>5. Trace(t[n + 1]) \in Seq(Posts)
      BY <1>2, <1>6, <2>2, TraceFacts
    <2>6. (Visible(s) \o Shown(t)[n]) \o Trace(t[n + 1])
            = Visible(s) \o (Shown(t)[n] \o Trace(t[n + 1]))
      <3>1. Associate(Visible(s), Shown(t)[n], Trace(t[n + 1]))
        BY <1>6, <2>4, <2>5, PostsAssociate
      <3> QED
        BY <3>1 DEF Associate
    <2> QED
      BY <2>2, <2>3, <2>4, <2>6
  <1>9. l \in B
    <2> HIDE DEF B
    <2> QED
      BY <1>1, <1>7, <1>8, SetInduction
  <1>10. Shown(u)[k + l] = Visible(s) \o Shown(t)[l]
    BY <1>1, <1>9
  <1>11. Visible(u) = Shown(u)[k + l] /\ Visible(t) = Shown(t)[l]
    BY <1>1 DEF Visible, l
  <1> QED
    BY <1>1, <1>6, <1>10, <1>11 DEF u

\* Nothing is seen of nothing, and one record adds what is seen of it.
LEMMA VisibleFacts ==
    /\ <<>> \in Seq(Texts) /\ Visible(<<>>) = <<>>
    /\ \A s \in Seq(Texts) : Visible(s) \in Seq(Posts)
    /\ \A s \in Seq(Texts), m \in Texts : /\ Trace(m) \in Seq(Posts)
                                          /\ Visible(Append(s, m)) = Visible(s) \o Trace(m)
  <1>1. <<>> \in Seq(Texts) /\ Len(<<>>) = 0 /\ Visible(<<>>) = <<>>
    BY EmptySeq, ShownFacts DEF Visible
  <1>2. \A s \in Seq(Texts) : Visible(s) \in Seq(Posts)
    BY <1>1, VisibleConcat
  <1>3. ASSUME NEW s \in Seq(Texts), NEW m \in Texts
        PROVE  Trace(m) \in Seq(Posts) /\ Visible(Append(s, m)) = Visible(s) \o Trace(m)
    <2> DEFINE t == Append(s, m)
               n == Len(s)
    <2>1. /\ t \in Seq(Texts) /\ Len(t) = n + 1 /\ t[n + 1] = m /\ n \in Nat
          /\ \A i \in 1 .. n : t[i] = s[i]
      BY AppendProperties, LenProperties
    <2>2. Trace(m) \in Seq(Posts)
      BY <1>2, TraceFacts
    <2>3. t = s \o <<m>> /\ <<m>> \in Seq(Texts) /\ Len(<<m>>) = 1 /\ <<m>>[1] = m
      BY AppendIsConcat
    <2>4. Visible(<<m>>) = <<>> \o Trace(m)
      <3>1. 1 \in 1 .. 1 /\ 1 - 1 = 0
        OBVIOUS
      <3> QED
        BY <2>3, <3>1, ShownFacts DEF Visible
    <2>5. Visible(<<m>>) = Trace(m)
      BY <2>2, <2>4, ConcatEmptySeq
    <2> QED
      BY <2>2, <2>3, <2>5, VisibleConcat
  <1> QED
    BY <1>1, <1>2, <1>3

-----------------------------------------------------------------------------
(* Delivery *)

\* What the application at the other end sent is what this one has seen, what
\* the kernel holds and what the other end has queued, in that order; an end
\* that no longer reads has seen a front part of it.
InOrderOf(e) ==
  LET p == Peer(e)
      all == Visible(accepted[p])
      held == Visible(wire[e])
  IN  /\ \E u \in Seq(Posts) : all = Seen(e) \o u
      /\ Hearing(e) => \E u \in Seq(Posts) : all = Seen(e) \o (held \o u)
      /\ Hearing(e) /\ conn[p].state # "CLOSED" =>
           all = Seen(e) \o (held \o Visible(conn[p].outgoing))
InOrder == \A e \in Ends : InOrderOf(e)

\* A step of e moves what it reads from the kernel to its application, unless
\* it has stopped reading, ...
Hears(e) ==
  \/ /\ Hearing(e) /\ Hearing(e)'
     /\ Seen(e)' \o Visible(wire'[e]) = Seen(e) \o Visible(wire[e])
  \/ ~ Hearing(e)' /\ \E u \in Seq(Posts) : Seen(e) = Seen(e)' \o u
\* ... adds what its application sends to its queue, and moves the queue's front
\* to the kernel.
Says(e) ==
  LET p == Peer(e)
      under == Visible(wire[p]) \o Visible(conn[e].outgoing)
  IN  \/ /\ conn[e].state # "CLOSED" /\ conn'[e].state # "CLOSED"
         /\ \E z \in Seq(Posts) :
              /\ Visible(accepted'[e]) = Visible(accepted[e]) \o z
              /\ Visible(wire'[p]) \o Visible(conn'[e].outgoing) = under \o z
      \/ /\ conn'[e].state = "CLOSED" /\ accepted'[e] = accepted[e]
         /\ \/ wire'[p] = wire[p]
            \/ /\ conn[e].state # "CLOSED"
               /\ \E u \in Seq(Posts) : under = Visible(wire'[p]) \o u
\* Nothing else happens.
Alone(e) ==
  LET p == Peer(e)
  IN  conn'[p] = conn[p] /\ accepted'[p] = accepted[p] /\ delivered'[p] = delivered[p]

\* Records and letters are texts.
LEMMA TextFacts ==
    /\ \A s \in Seq(Record) : s \in Seq(Texts) /\ Visible(s) \in Seq(Posts)
    /\ \A s \in Seq(Letter) : s \in Seq(Texts) /\ Visible(s) \in Seq(Posts)
  <1>1. Letter \subseteq Texts /\ Record \subseteq Texts
    BY DEF Texts
  <1>2. /\ \A s \in Seq(Record) : s \in Seq(Texts)
        /\ \A s \in Seq(Letter) : s \in Seq(Texts)
    BY <1>1, SeqMonotonic
  <1> QED
    BY <1>2, VisibleFacts

\* What an application has taken and what it may take next.
LEMMA SeenFacts ==
    \A s, t \in Seq(Record) :
      Visible(s \o t) = Visible(s) \o Visible(t) /\ Visible(s \o t) \in Seq(Posts)
  BY TextFacts, VisibleConcat

\* The sequences of an end are texts, and what is seen of them are posts.
LEMMA TextTypes ==
    ASSUME Types, NEW e \in Ends
    PROVE  /\ delivered[e] \in Seq(Texts) /\ accepted[e] \in Seq(Texts)
           /\ wire[e] \in Seq(Texts) /\ conn[e].outgoing \in Seq(Texts)
           /\ conn[e].incoming \in Seq(Texts)
           /\ Seen(e) = Visible(delivered[e]) \o Visible(conn[e].incoming)
           /\ Seen(e) \in Seq(Posts) /\ Visible(wire[e]) \in Seq(Posts)
           /\ Visible(conn[e].outgoing) \in Seq(Posts) /\ Visible(accepted[e]) \in Seq(Posts)
           /\ Visible(delivered[e]) \in Seq(Posts) /\ Visible(conn[e].incoming) \in Seq(Posts)
  <1>1. /\ delivered[e] \in Seq(Record) /\ accepted[e] \in Seq(Letter)
        /\ wire[e] \in Seq(Record) /\ conn[e].outgoing \in Seq(Record)
        /\ conn[e].incoming \in Seq(Record)
    BY DEF Types, Connection
  <1> QED
    BY <1>1, TextFacts, SeenFacts DEF Seen

\* What the other end has still to hear.
LEMMA HearingKeepsOrder ==
    ASSUME Types, Types', NEW e \in Ends, InOrderOf(e), Hears(e), Alone(e)
    PROVE  InOrderOf(e)'
  <1> DEFINE p == Peer(e)
             A == Visible(accepted[p])
             O == Visible(conn[p].outgoing)
             D == Seen(e)
             W == Visible(wire[e])
             D2 == Seen(e)'
             W2 == Visible(wire'[e])
  <1>1. p \in Ends
    BY EndFacts
  <1>2. /\ A \in Seq(Posts) /\ O \in Seq(Posts) /\ D \in Seq(Posts) /\ W \in Seq(Posts)
    BY <1>1, TextTypes
  <1>3. D2 \in Seq(Posts) /\ W2 \in Seq(Posts)
    <2>1. conn'[e].incoming \in Seq(Record) /\ delivered'[e] \in Seq(Record)
          /\ wire'[e] \in Seq(Record)
      BY DEF Types, Connection
    <2> QED
      BY <2>1, TextFacts, SeenFacts DEF Seen
  <1>4. /\ conn'[p] = conn[p] /\ accepted'[p] = accepted[p]
    BY DEF Alone
  <1>5. /\ \E u \in Seq(Posts) : A = D \o u
        /\ Hearing(e) => \E u \in Seq(Posts) : A = D \o (W \o u)
        /\ Hearing(e) /\ conn[p].state # "CLOSED" => A = D \o (W \o O)
    BY DEF InOrderOf
  <1>6. \/ Hearing(e) /\ Hearing(e)' /\ D2 \o W2 = D \o W
        \/ ~ Hearing(e)' /\ \E u \in Seq(Posts) : D = D2 \o u
    BY DEF Hears
  <1> SUFFICES /\ \E u \in Seq(Posts) : A = D2 \o u
               /\ Hearing(e)' => \E u \in Seq(Posts) : A = D2 \o (W2 \o u)
               /\ Hearing(e)' /\ conn[p].state # "CLOSED" => A = D2 \o (W2 \o O)
    BY <1>4 DEF InOrderOf
  <1> HIDE DEF A, O, D, W, D2, W2
  <1>7. CASE Hearing(e) /\ Hearing(e)' /\ D2 \o W2 = D \o W
    <2>1. ASSUME NEW u \in Seq(Posts)  PROVE D \o (W \o u) = D2 \o (W2 \o u)
      <3>1. Associate(D, W, u)
        BY <1>2, <2>1, PostsAssociate
      <3>2. Associate(D2, W2, u)
        BY <1>3, <2>1, PostsAssociate
      <3> QED
        BY <3>1, <3>2, <1>7 DEF Associate
    <2>2. PICK u \in Seq(Posts) : A = D \o (W \o u)
      BY <1>5, <1>7
    <2>3. W2 \o u \in Seq(Posts)
      BY <1>3, PostsFacts
    <2> QED
      BY <1>2, <1>5, <1>7, <2>1, <2>2, <2>3
  <1>8. CASE ~ Hearing(e)' /\ \E u \in Seq(Posts) : D = D2 \o u
    <2>1. PICK u \in Seq(Posts) : A = D \o u
      BY <1>5
    <2>2. PICK v \in Seq(Posts) : D = D2 \o v
      BY <1>8
    <2>3. v \o u \in Seq(Posts)
      BY <2>1, <2>2, PostsFacts
    <2>4. A = D2 \o (v \o u)
      <3>1. Associate(D2, v, u)
        BY <1>3, <2>1, <2>2, PostsAssociate
      <3> QED
        BY <3>1, <2>1, <2>2 DEF Associate
    <2> QED
      BY <1>8, <2>3, <2>4
  <1> QED
    BY <1>6, <1>7, <1>8

\* A step that moves what an end says keeps the order of what the other one hears.
LEMMA SayingKeepsOrder ==
    ASSUME Types, Types', NEW e \in Ends, InOrderOf(Peer(e)), Says(e), Alone(e)
    PROVE  InOrderOf(Peer(e))'
  <1> DEFINE p == Peer(e)
             D == Seen(p)
             A == Visible(accepted[e])
             W == Visible(wire[p])
             O == Visible(conn[e].outgoing)
             A2 == Visible(accepted'[e])
             W2 == Visible(wire'[p])
             O2 == Visible(conn'[e].outgoing)
             open == conn[e].state # "CLOSED"
             open2 == conn'[e].state # "CLOSED"
             hears == Hearing(p)
  <1>1. p \in Ends /\ Peer(p) = e
    BY EndFacts
  <1>2. /\ A \in Seq(Posts) /\ O \in Seq(Posts) /\ D \in Seq(Posts) /\ W \in Seq(Posts)
    BY <1>1, TextTypes
  <1>3. A2 \in Seq(Posts) /\ W2 \in Seq(Posts) /\ O2 \in Seq(Posts)
    <2>1. conn'[e].outgoing \in Seq(Record) /\ accepted'[e] \in Seq(Letter)
          /\ wire'[p] \in Seq(Record)
      BY <1>1 DEF Types, Connection
    <2> QED
      BY <2>1, TextFacts
  <1>4. /\ conn'[p] = conn[p] /\ delivered'[p] = delivered[p]
    BY DEF Alone
  <1>5. (hears <=> Hearing(p)') /\ Seen(p)' = D
    BY <1>4 DEF Hearing, Seen
  <1>6. /\ \E u \in Seq(Posts) : A = D \o u
        /\ hears => \E u \in Seq(Posts) : A = D \o (W \o u)
        /\ hears /\ open => A = D \o (W \o O)
    BY <1>1 DEF InOrderOf
  <1>7. \/ /\ open /\ open2
           /\ \E z \in Seq(Posts) : A2 = A \o z /\ W2 \o O2 = (W \o O) \o z
        \/ /\ ~ open2 /\ A2 = A
           /\ W2 = W \/ (open /\ \E u \in Seq(Posts) : W \o O = W2 \o u)
    BY DEF Says
  <1> SUFFICES /\ \E u \in Seq(Posts) : A2 = D \o u
               /\ hears => \E u \in Seq(Posts) : A2 = D \o (W2 \o u)
               /\ hears /\ open2 => A2 = D \o (W2 \o O2)
    BY <1>1, <1>5, Zenon DEF InOrderOf
  <1> HIDE DEF A, O, D, W, A2, W2, O2, open, open2, hears
  <1>8. CASE open /\ open2 /\ \E z \in Seq(Posts) : A2 = A \o z /\ W2 \o O2 = (W \o O) \o z
    <2>1. PICK z \in Seq(Posts) : A2 = A \o z /\ W2 \o O2 = (W \o O) \o z
      BY <1>8
    <2>2. PICK u \in Seq(Posts) : A = D \o u
      BY <1>6
    <2>3. A2 = D \o (u \o z) /\ u \o z \in Seq(Posts)
      <3>1. u \o z \in Seq(Posts)
        BY <2>1, <2>2, PostsFacts
      <3>2. Associate(D, u, z)
        BY <1>2, <2>1, <2>2, PostsAssociate
      <3> QED
        BY <3>1, <3>2, <2>1, <2>2 DEF Associate
    <2>4. hears => A2 = D \o (W2 \o O2)
      <3> DEFINE X == W \o O
      <3>1. X \in Seq(Posts)
        BY <1>2, PostsFacts
      <3>2. (hears => A = D \o X) /\ W2 \o O2 = X \o z /\ A2 = A \o z
        BY <1>6, <1>8, <2>1
      <3> HIDE DEF X
      <3>3. (D \o X) \o z = D \o (X \o z)
        <4>1. Associate(D, X, z)
          BY <1>2, <3>1, PostsAssociate
        <4> QED
          BY <4>1 DEF Associate
      <3> QED
        BY <3>2, <3>3
    <2> QED
      BY <1>3, <2>3, <2>4
  <1>9. CASE ~ open2 /\ A2 = A /\ W2 = W
    BY <1>6, <1>9
  <1>10. CASE ~ open2 /\ A2 = A /\ open /\ \E u \in Seq(Posts) : W \o O = W2 \o u
    BY <1>6, <1>10
  <1> QED
    BY <1>7, <1>8, <1>9, <1>10

\* Together: a step of one end keeps the order in both directions.
LEMMA StepKeepsOrder ==
    ASSUME Types, Types', NEW e \in Ends, InOrder, Hears(e), Says(e), Alone(e)
    PROVE  InOrder'
  <1>1. \A d \in Ends : d = e \/ d = Peer(e)
    BY EndFacts
  <1>2. InOrderOf(e) /\ InOrderOf(Peer(e))
    BY EndFacts DEF InOrder
  <1>3. InOrderOf(e)'
    BY <1>2, HearingKeepsOrder
  <1>4. InOrderOf(Peer(e))'
    BY <1>2, SayingKeepsOrder
  <1>5. \A d \in Ends : InOrderOf(d)'
    <2> SUFFICES ASSUME NEW d \in Ends PROVE InOrderOf(d)'
      OBVIOUS
    <2>1. CASE d = e
      BY <2>1, <1>3
    <2>2. CASE d = Peer(e)
      BY <2>2, <1>4
    <2> QED
      BY <1>1, <2>1, <2>2
  <1> QED
    BY <1>5 DEF InOrder

\* An end that reads nothing.
LEMMA HearsNothing ==
    ASSUME Types, NEW e \in Ends, Seen(e)' = Seen(e), wire'[e] = wire[e] \/ ~ Hearing(e)',
           Hearing(e)' => Hearing(e)
    PROVE  Hears(e)
  <1>1. Seen(e) = Seen(e) \o <<>> /\ <<>> \in Seq(Posts)
    BY TextTypes, PostsFacts
  <1> QED
    BY <1>1 DEF Hears

\* An end that reads the next record, which is hidden or goes to its application.
LEMMA HearsHead ==
    ASSUME Types, NEW e \in Ends, wire[e] # <<>>, wire'[e] = Tail(wire[e]),
           Hearing(e), Hearing(e)', delivered'[e] = delivered[e],
           \/ Head(wire[e]).kind \in Hidden /\ conn'[e].incoming = conn[e].incoming
           \/ conn'[e].incoming = Append(conn[e].incoming, Head(wire[e]))
    PROVE  Hears(e)
  <1> DEFINE h == Head(wire[e])
             t == Tail(wire[e])
             D == Seen(e)
             g == delivered[e]
             i == conn[e].incoming
  <1>1. /\ g \in Seq(Texts) /\ wire[e] \in Seq(Texts) /\ i \in Seq(Texts)
        /\ D = Visible(g) \o Visible(i) /\ D \in Seq(Posts)
        /\ Visible(g) \in Seq(Posts) /\ Visible(i) \in Seq(Posts)
    BY TextTypes
  <1>2. h \in Texts /\ t \in Seq(Texts) /\ wire[e] = <<h>> \o t
    <2>1. wire[e] = <<h>> \o t
      <3> DEFINE w == wire[e]
      <3>1. w \in Seq(Texts) /\ w # <<>> /\ Len(w) \in Nat /\ Len(w) # 0
        BY <1>1, EmptySeq, LenProperties
      <3> HIDE DEF w
      <3>2. SubSeq(w, 1, Len(w)) = <<w[1]>> \o SubSeq(w, 1 + 1, Len(w))
        <4>1. 1 \in 1 .. Len(w) /\ Len(w) \in 1 .. Len(w)
          BY <3>1
        <4> QED
          BY <3>1, <4>1, SubSeqRecursiveFirst
      <3>3. SubSeq(w, 1, Len(w)) = w /\ Tail(w) = SubSeq(w, 2, Len(w)) /\ Head(w) = w[1]
        BY <3>1, SubSeqFull, TailIsSubSeq
      <3>4. 1 + 1 = 2
        OBVIOUS
      <3> QED
        BY <3>2, <3>3, <3>4 DEF w
    <2> QED
      BY <1>1, <2>1, HeadTailProperties
  <1>0. \/ h.kind \in Hidden /\ conn'[e].incoming = i
        \/ conn'[e].incoming = Append(i, h)
    OBVIOUS
  <1> HIDE DEF h, t, g, i, D
  <1>3. /\ Visible(<<h>>) = Trace(h) /\ Trace(h) \in Seq(Posts) /\ <<h>> \in Seq(Texts)
        /\ Visible(t) \in Seq(Posts)
    <2>1. Append(<<>>, h) = <<h>>
      OBVIOUS
    <2>2. Visible(Append(<<>>, h)) = Visible(<<>>) \o Trace(h) /\ Trace(h) \in Seq(Posts)
          /\ Visible(<<>>) = <<>> /\ Visible(t) \in Seq(Posts)
      BY <1>2, VisibleFacts
    <2>3. <<h>> \in Seq(Texts)
      BY <1>2
    <2> QED
      BY <2>1, <2>2, <2>3, PostsFacts
  <1>4. Visible(wire[e]) = Trace(h) \o Visible(t)
    BY <1>2, <1>3, VisibleConcat
  <1>5. Seen(e)' = D \o Trace(h)
    <2>1. CASE h.kind \in Hidden /\ conn'[e].incoming = i
      <3>1. Trace(h) = <<>> /\ Seen(e)' = D
        BY <2>1 DEF Trace, Seen, D, g, i
      <3> QED
        BY <1>1, <3>1, PostsFacts
    <2>2. CASE conn'[e].incoming = Append(i, h)
      <3>1. Seen(e)' = Visible(g \o Append(i, h))
        BY <2>2 DEF Seen, g
      <3> DEFINE j == Append(i, h)
      <3>2. j \in Seq(Texts)
        BY <1>1, <1>2, AppendProperties
      <3>3. Visible(j) = Visible(i) \o Trace(h)
        BY <1>1, <1>2, VisibleFacts
      <3>5. Visible(g \o j) = Visible(g) \o (Visible(i) \o Trace(h))
        <4> HIDE DEF j
        <4>1. Visible(g \o j) = Visible(g) \o Visible(j)
          BY <1>1, <3>2, VisibleConcat
        <4> QED
          BY <3>3, <4>1
      <3>4. Visible(g) \o (Visible(i) \o Trace(h)) = (Visible(g) \o Visible(i)) \o Trace(h)
        <4> DEFINE u == Visible(g)
                   v == Visible(i)
                   w == Trace(h)
        <4>1. u \in Seq(Posts) /\ v \in Seq(Posts) /\ w \in Seq(Posts)
          BY <1>1, <1>3
        <4> HIDE DEF u, v, w
        <4>2. Associate(u, v, w)
          BY <4>1, PostsAssociate
        <4>3. u \o (v \o w) = (u \o v) \o w
          BY <4>2 DEF Associate
        <4> QED
          BY <4>3 DEF u, v, w
      <3> QED
        BY <1>1, <3>1, <3>5, <3>4
    <2> QED
      BY <1>0, <2>1, <2>2
  <1>6. (D \o Trace(h)) \o Visible(t) = D \o (Trace(h) \o Visible(t))
    <2> DEFINE v == Trace(h)
               w == Visible(t)
    <2>1. D \in Seq(Posts) /\ v \in Seq(Posts) /\ w \in Seq(Posts)
      BY <1>1, <1>3
    <2> HIDE DEF v, w
    <2>2. (D \o v) \o w = D \o (v \o w)
      <3>1. Associate(D, v, w)
        BY <2>1, PostsAssociate
      <3> QED
        BY <3>1 DEF Associate
    <2> QED
      BY <2>2 DEF v, w
  <1>7. wire'[e] = t
    BY DEF t
  <1>8. Seen(e)' \o Visible(wire'[e]) = D \o Visible(wire[e])
    BY <1>4, <1>5, <1>6, <1>7
  <1> QED
    BY <1>8 DEF Hears, D

\* An end that stops reading, and perhaps forgets what its application has not
\* taken.
LEMMA HearsNoMore ==
    ASSUME Types, NEW e \in Ends, ~ Hearing(e)', delivered'[e] = delivered[e],
           conn'[e].incoming \in {conn[e].incoming, <<>>}
    PROVE  Hears(e)
  <1> DEFINE g == delivered[e]
             i == conn[e].incoming
  <1>1. /\ g \in Seq(Texts) /\ i \in Seq(Texts) /\ Seen(e) = Visible(g) \o Visible(i)
        /\ Visible(g) \in Seq(Posts) /\ Visible(i) \in Seq(Posts) /\ Seen(e) \in Seq(Posts)
    BY TextTypes
  <1>2. CASE conn'[e].incoming = i
    <2>1. Seen(e)' = Seen(e)
      BY <1>2 DEF Seen
    <2> QED
      BY <2>1, HearsNothing
  <1>3. CASE conn'[e].incoming = <<>>
    <2>1. g \o <<>> = g
      BY <1>1, ConcatEmptySeq
    <2>2. Seen(e)' = Visible(g)
      BY <1>3, <2>1 DEF Seen
    <2> QED
      BY <1>1, <2>2 DEF Hears
  <1> QED
    BY <1>2, <1>3

\* An end that queues at most a record applications do not see.
LEMMA SaysNothing ==
    ASSUME Types, NEW e \in Ends, wire'[Peer(e)] = wire[Peer(e)], accepted'[e] = accepted[e],
           conn'[e].state # "CLOSED" => conn[e].state # "CLOSED",
           \/ conn'[e].state = "CLOSED"
           \/ conn'[e].outgoing = conn[e].outgoing
           \/ \E a \in Record : a.kind \in Hidden /\ conn'[e].outgoing = Append(conn[e].outgoing, a)
    PROVE  Says(e)
  <1> DEFINE p == Peer(e)
             under == Visible(wire[p]) \o Visible(conn[e].outgoing)
  <1>1. /\ Visible(wire[p]) \in Seq(Posts) /\ Visible(accepted[e]) \in Seq(Posts)
        /\ Visible(conn[e].outgoing) \in Seq(Posts) /\ conn[e].outgoing \in Seq(Texts)
    BY EndFacts, TextTypes
  <1>2. CASE conn'[e].state = "CLOSED"
    BY <1>2 DEF Says
  <1>3. CASE conn'[e].state # "CLOSED"
    <2>1. Visible(conn'[e].outgoing) = Visible(conn[e].outgoing)
      <3>1. CASE conn'[e].outgoing = conn[e].outgoing
        BY <3>1
      <3>2. CASE \E a \in Record : a.kind \in Hidden
                                   /\ conn'[e].outgoing = Append(conn[e].outgoing, a)
        <4>1. PICK a \in Record : a.kind \in Hidden
                                  /\ conn'[e].outgoing = Append(conn[e].outgoing, a)
          BY <3>2
        <4>2. Trace(a) = <<>> /\ a \in Texts
          BY <4>1 DEF Trace, Texts
        <4>3. Visible(Append(conn[e].outgoing, a)) = Visible(conn[e].outgoing) \o <<>>
          BY <1>1, <4>2, VisibleFacts
        <4> QED
          BY <1>1, <4>1, <4>3, PostsFacts
      <3> QED
        BY <1>3, <3>1, <3>2
    <2>2. under \in Seq(Posts) /\ <<>> \in Seq(Posts) /\ under = under \o <<>>
          /\ Visible(accepted[e]) = Visible(accepted[e]) \o <<>>
      BY <1>1, PostsFacts
    <2>3. Visible(wire'[p]) \o Visible(conn'[e].outgoing) = under
      BY <2>1
    <2> HIDE DEF under
    <2> QED
      BY <1>3, <2>2, <2>3 DEF Says, under
  <1> QED
    BY <1>2, <1>3

\* An end that queues what its application sends.
LEMMA SaysMessage ==
    ASSUME Types, NEW e \in Ends, NEW m \in Letter, NEW r \in Record, r = Numbered(m, r.sequence),
           wire'[Peer(e)] = wire[Peer(e)], accepted'[e] = Append(accepted[e], m),
           conn[e].state # "CLOSED", conn'[e].state # "CLOSED",
           conn'[e].outgoing = Append(conn[e].outgoing, r)
    PROVE  Says(e)
  <1> DEFINE p == Peer(e)
             W == Visible(wire[p])
             O == Visible(conn[e].outgoing)
  <1>1. /\ W \in Seq(Posts) /\ accepted[e] \in Seq(Texts)
        /\ O \in Seq(Posts) /\ conn[e].outgoing \in Seq(Texts)
    BY EndFacts, TextTypes
  <1>2. Trace(r) = Trace(m) /\ r \in Texts /\ m \in Texts
    <2>1. r.kind = m.kind /\ r.id = m.id /\ r.size = m.size /\ r.reply_to = m.reply_to
      BY NumberedFacts
    <2> QED
      BY <2>1 DEF Trace, Texts
  <1>3. /\ Visible(accepted'[e]) = Visible(accepted[e]) \o Trace(m)
        /\ Visible(conn'[e].outgoing) = O \o Trace(m) /\ Trace(m) \in Seq(Posts)
    BY <1>1, <1>2, VisibleFacts
  <1> HIDE DEF W, O
  <1>4. W \o (O \o Trace(m)) = (W \o O) \o Trace(m)
    <2>1. Associate(W, O, Trace(m))
      BY <1>1, <1>3, PostsAssociate
    <2> QED
      BY <2>1 DEF Associate
  <1> QED
    BY <1>3, <1>4 DEF Says, W, O

\* What a step of one end has to show.
Delivers(e) == Hears(e) /\ Says(e) /\ Alone(e)

\* An end that closes, with or without sending a front part of its queue.
LEMMA ClosingDelivers ==
    ASSUME Types, NEW e \in Ends, NEW q \in Connection, NEW taken \in Nat,
           NEW n \in 0 .. Len(conn[e].outgoing),
           Kernel(e, q, taken, SubSeq(conn[e].outgoing, 1, n)), conn[e].state # "CLOSED",
           Ended(conn[e], q) \/ Ended(Counted(conn[e]), q),
           accepted' = accepted, delivered' = delivered
    PROVE  Delivers(e)
  <1> DEFINE k == conn[e]
             p == Peer(e)
             o == k.outgoing
             sent == SubSeq(o, 1, n)
             rest == SubSeq(o, n + 1, Len(o))
  <1>1. /\ k \in Connection /\ o \in Seq(Record) /\ Len(o) \in Nat /\ p \in Ends
        /\ wire[p] \in Seq(Record)
    BY EndTypes
  <1>2. sent \in Seq(Record) /\ rest \in Seq(Record)
    <2>1. \A i \in 1 .. Len(o) : o[i] \in Record
      BY <1>1, ElementOfSeq
    <2>2. n \in Nat /\ n <= Len(o)
      BY <1>1
    <2> HIDE DEF o
    <2>3. \A i \in 1 .. n : o[i] \in Record
      BY <1>1, <2>1, <2>2
    <2>4. \A i \in n + 1 .. Len(o) : o[i] \in Record
      BY <1>1, <2>1, <2>2
    <2>5. sent \in Seq(Record)
      BY <2>2, <2>3, SubSeqProperties
    <2>6. rest \in Seq(Record)
      BY <1>1, <2>2, <2>4, SubSeqProperties
    <2> QED
      BY <2>5, <2>6
  <1>3. o = sent \o rest
    <2>1. 1 \in 1 .. Len(o) + 1 /\ n \in 1 - 1 .. Len(o) /\ Len(o) \in n .. Len(o)
      BY <1>1
    <2> HIDE DEF o
    <2>2. SubSeq(o, 1, Len(o)) = SubSeq(o, 1, n) \o SubSeq(o, n + 1, Len(o))
      BY <1>1, <2>1, ConcatAdjacentSubSeq
    <2> QED
      BY <1>1, <2>2, SubSeqFull
  <1>4. /\ q.state = "CLOSED" /\ q.incoming \in {k.incoming, <<>>}
    BY <1>1, CountedFacts DEF Ended
  <1> HIDE DEF sent, rest
  <1>5. /\ conn'[e] = q /\ conn'[p] = conn[p]
        /\ wire'[p] = IF gone[e] THEN wire[p] ELSE wire[p] \o sent
    <2>1. Kernel(e, q, taken, sent)
      BY DEF sent
    <2> QED
      BY <1>2, <2>1, KernelFacts
  <1>6. Hears(e)
    BY <1>4, <1>5, HearsNoMore DEF Hearing
  <1>7. Says(e)
    <2>1. CASE gone[e]
      BY <2>1, <1>4, <1>5 DEF Says
    <2>2. CASE ~ gone[e]
      <3> DEFINE w == Visible(wire[p])
                 s == Visible(sent)
                 r == Visible(rest)
      <3>1. Visible(o) = s \o r /\ Visible(wire'[p]) = w \o s
        BY <1>1, <1>2, <1>3, <1>5, <2>2, TextFacts, VisibleConcat
      <3>2. w \in Seq(Posts) /\ s \in Seq(Posts) /\ r \in Seq(Posts)
        BY <1>1, <1>2, TextFacts
      <3> HIDE DEF w, s, r
      <3>3. w \o (s \o r) = (w \o s) \o r
        <4>1. Associate(w, s, r)
          BY <3>2, PostsAssociate
        <4> QED
          BY <4>1 DEF Associate
      <3>4. w \o Visible(o) = Visible(wire'[p]) \o r
        BY <3>1, <3>3
      <3>5. Visible(wire[p]) \o Visible(conn[e].outgoing) = Visible(wire'[p]) \o r
        BY <3>4 DEF w
      <3> QED
        BY <1>4, <1>5, <3>2, <3>5 DEF Says
    <2> QED
      BY <2>1, <2>2
  <1> QED
    BY <1>5, <1>6, <1>7 DEF Delivers, Alone

\* An end that closes and sends nothing.
LEMMA LeavingDelivers ==
    ASSUME Types, NEW e \in Ends, NEW q \in Connection, NEW taken \in Nat,
           Kernel(e, q, taken, <<>>), conn[e].state # "CLOSED",
           Ended(conn[e], q) \/ Ended(Counted(conn[e]), q),
           accepted' = accepted, delivered' = delivered
    PROVE  Delivers(e)
  <1>1. SubSeq(conn[e].outgoing, 1, 0) = <<>>
    BY SubSeqEmpty
  <1>2. 0 \in 0 .. Len(conn[e].outgoing)
    BY EndTypes
  <1> QED
    BY <1>1, <1>2, ClosingDelivers

\* gwipc_listener_accept.
LEMMA AcceptDelivers ==
    ASSUME Inductive, NEW sameUser \in BOOLEAN, Accept(sameUser)
    PROVE  Delivers("server")
  <1> DEFINE k == conn["server"]
             q == [k EXCEPT !.state = IF sameUser THEN "AWAITING_HELLO" ELSE "CLOSED"]
  <1>1. /\ "server" \in Ends /\ Peer("server") = "client" /\ Types
    BY EndFacts DEF Peer, Inductive
  <1>2. /\ k.state = "NOT_ACCEPTED" /\ Kernel("server", q, 0, <<>>)
        /\ accepted' = accepted /\ delivered' = delivered
    BY DEF Accept
  <1>3. k \in Connection
    BY <1>1, EndTypes
  <1>4. /\ q \in Connection /\ q.state = (IF sameUser THEN "AWAITING_HELLO" ELSE "CLOSED")
        /\ q.outgoing = k.outgoing /\ q.incoming = k.incoming
    BY <1>3 DEF Connection, States
  <1> HIDE DEF q
  <1>5. /\ conn'["server"] = q /\ conn'["client"] = conn["client"]
        /\ wire'["client"] = wire["client"]
        /\ sameUser => wire'["server"] = wire["server"]
    <2>1. <<>> \in Seq(Record)
      BY EmptySeq
    <2>2. CASE sameUser
      <3>1. q.state = "CLOSED" => k.state = "CLOSED"
        BY <1>4, <2>2
      <3> QED
        BY <1>1, <1>2, <1>4, <3>1, KernelQuiet
    <2>3. CASE ~ sameUser
      <3> DEFINE none == <<>>
      <3>1. none \in Seq(Record) /\ Kernel("server", q, 0, none)
        BY <1>2, <2>1
      <3>2. wire["client"] \in Seq(Record) /\ wire["client"] \o none = wire["client"]
        BY <1>1, EndFacts, EndTypes, ConcatEmptySeq
      <3> HIDE DEF none
      <3>3. /\ conn'["server"] = q /\ conn'["client"] = conn["client"]
            /\ wire'["client"] = IF gone["server"] THEN wire["client"] ELSE wire["client"] \o none
        BY <1>1, <1>4, <3>1, KernelFacts
      <3> QED
        BY <2>3, <3>2, <3>3
    <2> QED
      BY <2>2, <2>3
  <1>6. Hears("server")
    <2>1. Seen("server")' = Seen("server")
      BY <1>2, <1>4, <1>5 DEF Seen
    <2> QED
      BY <1>1, <1>2, <1>4, <1>5, <2>1, HearsNothing DEF Hearing
  <1>7. Says("server")
    BY <1>1, <1>2, <1>4, <1>5, SaysNothing
  <1> QED
    BY <1>1, <1>2, <1>5, <1>6, <1>7 DEF Delivers, Alone

\* gwipc_connection_destroy forgets what was not taken.
LEMMA DestroyDelivers ==
    ASSUME Inductive, NEW e \in Ends, Destroy(e)
    PROVE  Delivers(e)
  <1> DEFINE k == conn[e]
             q == [k EXCEPT !.state = "CLOSED", !.outgoing = <<>>, !.incoming = <<>>,
                            !.status = "DESTROYED"]
  <1>1. Types /\ k \in Connection /\ <<>> \in Seq(Record)
    BY EndTypes, EmptySeq DEF Inductive
  <1>2. /\ k.state # "CLOSED" /\ Kernel(e, q, 0, <<>>)
        /\ accepted' = accepted /\ delivered' = delivered
    BY DEF Destroy
  <1>3. Ended(k, q)
    BY <1>1 DEF Ended, Connection, States, Statuses
  <1>4. q \in Connection
    BY <1>3 DEF Ended
  <1> HIDE DEF q
  <1> QED
    BY <1>1, <1>2, <1>3, <1>4, LeavingDelivers

\* finish_connect, when the connection is refused.
LEMMA RefuseConnectDelivers ==
    ASSUME Inductive, NEW e \in Ends, RefuseConnect(e)
    PROVE  Delivers(e)
  <1>1. conn[e].state = "CONNECTING" /\ accepted' = accepted /\ delivered' = delivered
    BY DEF RefuseConnect
  <1>2. PICK st \in {"SYSTEM_ERROR", "CREDENTIAL_REJECTED"} :
          Kernel(e, SetClosed(conn[e], st), 0, <<>>)
    BY DEF RefuseConnect
  <1> DEFINE q == SetClosed(conn[e], st)
  <1>3. Types /\ conn[e] \in Connection
    BY EndTypes DEF Inductive
  <1>4. Ended(conn[e], q)
    BY <1>3, SetClosedFacts DEF Statuses
  <1>5. q \in Connection /\ Kernel(e, q, 0, <<>>)
    BY <1>2, <1>4 DEF Ended
  <1> HIDE DEF q
  <1> QED
    BY <1>1, <1>3, <1>4, <1>5, LeavingDelivers

\* gwipc_connection_receive moves a message from one history to the other.
LEMMA ReceiveDelivers ==
    ASSUME Inductive, NEW e \in Ends, Receive(e)
    PROVE  Delivers(e)
  <1> DEFINE k == conn[e]
             p == Peer(e)
             i == k.incoming
             g == delivered[e]
             q == [k EXCEPT !.incoming = Tail(i)]
  <1>1. /\ Types /\ p \in Ends /\ p # e /\ k \in Connection /\ i \in Seq(Record)
        /\ g \in Seq(Record)
    BY EndFacts, EndTypes DEF Inductive, Types
  <1>2. /\ i # <<>> /\ conn' = [conn EXCEPT ![e] = q] /\ wire' = wire /\ accepted' = accepted
        /\ delivered' = [delivered EXCEPT ![e] = Append(g, Head(i))]
    BY <1>1 DEF Receive, Types
  <1>3. /\ conn'[e] = q /\ conn'[p] = conn[p] /\ delivered'[p] = delivered[p]
        /\ delivered'[e] = Append(g, Head(i))
        /\ q.state = k.state /\ q.outgoing = k.outgoing /\ q.incoming = Tail(i)
    BY <1>1, <1>2 DEF Types, Connection
  <1> HIDE DEF q
  <1>4. Append(g, Head(i)) \o Tail(i) = g \o i
    <2> HIDE DEF g, i
    <2>1. Head(i) \in Record /\ Tail(i) \in Seq(Record) /\ Len(i) \in Nat /\ Len(i) # 0
      BY <1>1, <1>2, HeadTailProperties, EmptySeq
    <2>2. i = <<Head(i)>> \o Tail(i)
      <3>1. 1 \in 1 .. Len(i) /\ Len(i) \in 1 .. Len(i) /\ 1 + 1 = 2
        BY <2>1
      <3>2. SubSeq(i, 1, Len(i)) = <<i[1]>> \o SubSeq(i, 2, Len(i))
        BY <1>1, <3>1, SubSeqRecursiveFirst
      <3>3. SubSeq(i, 1, Len(i)) = i /\ Tail(i) = SubSeq(i, 2, Len(i)) /\ Head(i) = i[1]
        BY <1>1, <1>2, SubSeqFull, TailIsSubSeq
      <3> QED
        BY <3>2, <3>3
    <2> DEFINE h == <<Head(i)>>
               t == Tail(i)
    <2>3. h \in Seq(Record) /\ t \in Seq(Record) /\ Append(g, Head(i)) = g \o h
      BY <1>1, <2>1, AppendIsConcat
    <2> HIDE DEF h, t
    <2>4. (g \o h) \o t = g \o (h \o t)
      <3>1. g \in Seq(Record)
        BY <1>1
      <3> HIDE DEF g
      <3>2. Associate(g, h, t)
        BY <2>3, <3>1, SequencesAssociate
      <3> QED
        BY <3>2 DEF Associate
    <2> QED
      BY <2>2, <2>3, <2>4 DEF h, t
  <1>5. Seen(e)' = Seen(e)
    BY <1>3, <1>4 DEF Seen
  <1>6. Hears(e)
    BY <1>1, <1>2, <1>3, <1>5, HearsNothing DEF Hearing
  <1>7. Says(e)
    BY <1>1, <1>2, <1>3, SaysNothing
  <1> QED
    BY <1>2, <1>3, <1>6, <1>7 DEF Delivers, Alone

\* process_poll_events, up to its reads: a hello is nothing applications see.
LEMMA BeginPollDelivers ==
    ASSUME Inductive, NEW e \in Ends, BeginPoll(e)
    PROVE  Delivers(e)
  <1> DEFINE k == conn[e]
             p == Peer(e)
             c == IF k.state = "CONNECTING" /\ "out" \in Ready(e) THEN FinishConnect(k) ELSE k
             q == IF MustSayHello(c) THEN QueueHello(c) ELSE With(c, "OK")
             m == Message("HELLO", k.config, 1, 0)
             a == Numbered(m, k.next_send)
  <1>1. Types /\ k \in Connection /\ p \in Ends /\ p # e /\ k.config \in Configs
    BY EndFacts, EndTypes DEF Inductive, Connection
  <1>2. /\ k.state # "CLOSED" /\ conn' = [conn EXCEPT ![e] = q] /\ wire' = wire
        /\ accepted' = accepted /\ delivered' = delivered
    BY DEF BeginPoll
  <1>3. /\ c \in Connection /\ c.config = k.config /\ c.next_send = k.next_send
        /\ c.outgoing = k.outgoing /\ c.incoming = k.incoming
        /\ c.state \in {k.state, "AWAITING_WELCOME"} /\ (c.state = k.state \/ k.state = "CONNECTING")
    BY <1>1 DEF FinishConnect, Connection, States
  <1>4. m \in Letter /\ a.kind = "HELLO"
    <2>1. k.config \in Identities /\ "HELLO" \in Kinds
      BY <1>1 DEF Identities, Kinds
    <2> QED
      BY <2>1, LetterFacts, MessageFacts, NumberedFacts
  <1>5. q = IF MustSayHello(c) THEN QueueInternal(c, m) ELSE With(c, "OK")
    BY <1>3 DEF QueueHello
  <1> HIDE DEF c, m
  <1>6. \/ Same(c, q)
        \/ Ended(c, q) /\ q.incoming = c.incoming
        \/ Queued(c, q, a) /\ q.state = c.state
    <2>1. CASE MustSayHello(c)
      BY <1>3, <1>4, <1>5, <2>1, QueueFacts
    <2>2. CASE ~ MustSayHello(c)
      <3>1. Same(c, With(c, "OK"))
        BY <1>3, WithFacts DEF Statuses
      <3> QED
        BY <1>5, <2>2, <3>1
    <2> QED
      BY <2>1, <2>2
  <1> HIDE DEF q, a
  <1>7. /\ q.incoming = k.incoming /\ (q.state = "CLOSED" \/ q.state = c.state)
        /\ \/ q.state = "CLOSED" \/ q.outgoing = k.outgoing
           \/ a \in Record /\ q.outgoing = Append(k.outgoing, a)
    BY <1>3, <1>6 DEF Same, Ended, Queued
  <1>8. conn'[e] = q /\ conn'[p] = conn[p]
    BY <1>1, <1>2 DEF Types
  <1>9. Seen(e)' = Seen(e)
    BY <1>2, <1>7, <1>8 DEF Seen
  <1>10. Hearing(e)' => Hearing(e)
    BY <1>3, <1>7, <1>8 DEF Hearing
  <1>11. Hears(e)
    BY <1>1, <1>2, <1>9, <1>10, HearsNothing
  <1>12. a.kind \in Hidden
    BY <1>4 DEF Hidden, a
  <1>13. Says(e)
    BY <1>1, <1>2, <1>7, <1>8, <1>12, SaysNothing
  <1> QED
    BY <1>2, <1>8, <1>11, <1>13 DEF Delivers, Alone

\* An end that reads a record shows it to its application or hides it.
LEMMA ReadingDelivers ==
    ASSUME Inductive, NEW e \in Ends, NEW q \in Connection, Reads(e, q), Outcome(e, q)
    PROVE  Delivers(e)
  <1> DEFINE k == conn[e]
             p == Peer(e)
             n == Counted(k)
             h == Head(wire[e])
             a == Numbered(Message("PROTOCOL_ERROR", 0, 1, k.next_receive), k.next_send)
             b == Numbered(Message("PONG", h.id, 1, h.sequence), k.next_send)
  <1>1. /\ Types /\ StageOf(e) /\ p \in Ends /\ p # e
    BY EndFacts DEF Inductive, Stages
  <1>2. /\ n \in Connection /\ n.outgoing = k.outgoing /\ n.incoming = k.incoming
        /\ n.config = k.config /\ n.next_send = k.next_send
        /\ conn'[e] = q /\ conn'[p] = conn[p] /\ k \in Connection
    BY <1>1, CountedAt, EndTypes
  <1>3. /\ wire[e] # <<>> /\ wire'[e] = Tail(wire[e]) /\ wire'[p] = wire[p]
        /\ accepted' = accepted /\ delivered' = delivered
        /\ k.state # "CLOSED" /\ q.state # "CLOSED"
    BY DEF Reads
  <1>4. /\ h.sequence = k.next_receive /\ LegalRecord(e, h)
    BY <1>3, HeadFacts
  <1>5. a.kind = "PROTOCOL_ERROR" /\ b.kind = "PONG"
    BY NumberedFacts, MessageFacts
  <1> DEFINE quiet == q.incoming = k.incoming
             answered == \/ q.outgoing = k.outgoing
                         \/ \E x \in Record : /\ x.kind \in Hidden
                                              /\ q.outgoing = Append(k.outgoing, x)
             deaf == q.state \in {"REJECTING", "CLOSING"}
  <1>6. /\ answered
        /\ \/ deaf /\ quiet
           \/ /\ Hearing(e) /\ ~ deaf
              /\ \/ quiet /\ h.kind \in Hidden
                 \/ q.incoming = Append(k.incoming, h)
    <2> HIDE DEF n, a, b
    <2>1. ASSUME NEW x, Queued(n, q, x), x.kind \in Hidden  PROVE quiet /\ answered
      BY <1>2, <2>1 DEF Queued
    <2>2. {"PROTOCOL_ERROR", "PONG", "REJECT", "WELCOME", "HELLO", "PING", "UNKNOWN",
           "CRITICAL_UNKNOWN"} \subseteq Hidden
      BY DEF Hidden, Automatic
    <2>3. CASE k.state = "ESTABLISHED" /\ Breaks(n, q, a)
      BY <1>5, <2>1, <2>2, <2>3 DEF Breaks
    <2>4. CASE /\ k.state = "ESTABLISHED" /\ q.state = "ESTABLISHED"
               /\ h.kind \in {"UNKNOWN", "CRITICAL_UNKNOWN"} /\ Reaction(n, q, a)
      BY <1>5, <2>1, <2>2, <2>4 DEF Reaction, Hearing
    <2>5. CASE /\ k.state = "ESTABLISHED" /\ q.state = "ESTABLISHED"
               /\ h.kind = "PING" /\ Reaction(n, q, b)
      BY <1>5, <2>1, <2>2, <2>5 DEF Reaction, Hearing
    <2>6. CASE k.state = "ESTABLISHED" /\ Absorbed(n, q, h)
      <3>1. n.state = k.state
        BY <1>2, CountedFacts DEF n
      <3> QED
        BY <1>2, <2>6, <3>1 DEF Absorbed, Hearing
    <2>7. CASE k.state = "AWAITING_HELLO" /\ Rejects(n, q)
      <3>1. PICK reason : Reaction(n, q, Numbered(Message("REJECT", reason, 1, 1), n.next_send))
        BY <2>7 DEF Rejects
      <3> DEFINE x == Numbered(Message("REJECT", reason, 1, 1), n.next_send)
      <3>2. x.kind = "REJECT"
        BY NumberedFacts, MessageFacts
      <3>3. Queued(n, q, x)
        BY <3>1 DEF Reaction
      <3> HIDE DEF x
      <3>4. quiet /\ answered
        BY <2>1, <2>2, <3>2, <3>3
      <3> QED
        BY <2>7, <3>4 DEF Rejects
    <2>8. CASE k.state = "AWAITING_HELLO" /\ Welcomes(n, q, h)
      <3> DEFINE x == Welcome(n, h)
                 o == [n EXCEPT !.peer = Settled(n, h.id)]
      <3>1. x.kind = "WELCOME"
        BY NumberedFacts, MessageFacts DEF Welcome
      <3>2. Queued(o, q, x)
        BY <2>8 DEF Welcomes, Reaction
      <3>3. o.outgoing = n.outgoing /\ o.incoming = n.incoming
        BY <1>2 DEF Connection
      <3> HIDE DEF x, o
      <3>4. quiet /\ answered
        BY <1>2, <2>2, <3>1, <3>2, <3>3 DEF Queued
      <3>5. h.kind \in Opening
        <4>1. k.next_receive = 1
          BY <1>1, <2>8 DEF StageOf, Early, Unused
        <4> QED
          BY <1>4, <4>1 DEF LegalRecord
      <3>6. h.kind \in Hidden
        BY <2>2, <3>5 DEF Opening
      <3> QED
        BY <2>8, <3>4, <3>6 DEF Welcomes, Hearing
    <2>9. CASE k.state = "AWAITING_WELCOME" /\ h.kind = "WELCOME" /\ Welcomed(n, q, h)
      BY <1>2, <2>2, <2>9 DEF Welcomed, Hearing
    <2>10. CASE k.state \in {"REJECTING", "CLOSING"} /\ Same(n, q)
      <3>1. n.state = k.state
        BY <1>2, CountedFacts DEF n
      <3> QED
        BY <1>2, <2>10, <3>1 DEF Same
    <2> QED
      BY <2>3, <2>4, <2>5, <2>6, <2>7, <2>8, <2>9, <2>10 DEF Outcome, n, a, b
  <1>7. Says(e)
    BY <1>1, <1>2, <1>3, <1>6, SaysNothing
  <1>8. Hears(e)
    <2>1. CASE deaf /\ quiet
      BY <1>1, <1>2, <1>3, <2>1, HearsNoMore DEF Hearing
    <2>2. CASE /\ Hearing(e) /\ ~ deaf
               /\ ((quiet /\ h.kind \in Hidden) \/ q.incoming = Append(k.incoming, h))
      <3>1. Hearing(e)'
        BY <1>2, <1>3, <2>2 DEF Hearing
      <3> QED
        BY <1>1, <1>2, <1>3, <2>2, <3>1, HearsHead
    <2> QED
      BY <1>6, <2>1, <2>2
  <1> QED
    BY <1>2, <1>3, <1>7, <1>8 DEF Delivers, Alone

\* drain_incoming reads a record or ends the connection.
LEMMA DrainIncomingDelivers ==
    ASSUME Inductive, NEW e \in Ends, DrainIncoming(e)
    PROVE  Delivers(e)
  <1> DEFINE k == conn[e]
             p == Peer(e)
             w == wire[e]
             h == Head(wire[e])
             q == IF reset[e] THEN SetClosed(k, "SYSTEM_ERROR")
                  ELSE IF w # <<>> THEN ReceiveOne(k, h) ELSE SetClosed(k, "DISCONNECTED")
             taken == IF reset[e] THEN Len(w) ELSE Least(1, Len(w))
  <1>1. Types /\ StageOf(e) /\ p \in Ends /\ p # e
    BY EndFacts DEF Inductive, Stages
  <1>2. /\ "in" \in turn[e] /\ Kernel(e, q, taken, <<>>)
        /\ turn' = [turn EXCEPT ![e] = IF Stops(q) THEN turn[e] \ {"in"} ELSE turn[e]]
        /\ accepted' = accepted /\ delivered' = delivered
    BY <1>1 DEF DrainIncoming, Types
  <1>3. k.state # "CLOSED" /\ k.state # "NOT_ACCEPTED"
    BY <1>1, <1>2 DEF StageOf
  <1>4. k \in Connection /\ w \in Seq(Record) /\ Len(w) \in Nat
    BY <1>1, EndTypes
  <1>5. taken \in Nat /\ (~ reset[e] /\ w # <<>> => taken = 1)
    <2>1. w # <<>> => Len(w) >= 1
      <3>1. w # <<>> => Len(w) # 0
        BY <1>4, EmptySeq
      <3> QED
        BY <3>1, <1>4
    <2> QED
      BY <2>1, <1>4 DEF Least
  <1>6. ASSUME q \in Connection, Ended(k, q) \/ Ended(Counted(k), q)
        PROVE  Delivers(e)
    <2> HIDE DEF q, taken
    <2> QED
      BY <1>1, <1>2, <1>3, <1>5, <1>6, LeavingDelivers
  <1>7. CASE reset[e] \/ w = <<>>
    <2>1. PICK st \in Statuses : q = SetClosed(k, st)
      BY <1>7 DEF Statuses
    <2>2. Ended(k, q) /\ q \in Connection
      <3> HIDE DEF q
      <3> QED
        BY <1>4, <2>1, SetClosedFacts DEF Ended
    <2> QED
      BY <2>2, <1>6
  <1>8. CASE ~ reset[e] /\ w # <<>>
    <2>1. q = ReceiveOne(k, h) /\ taken = 1
      BY <1>5, <1>8
    <2>2. /\ q \in Connection /\ q.config = k.config /\ FailuresAt(e, q)
          /\ \/ Ended(Counted(k), q)
             \/ /\ q.state # "CLOSED" /\ q.next_receive = k.next_receive + 1 /\ Outcome(e, q)
      BY <2>1, <1>3, <1>8, ReceiveOneFacts
    <2>3. CASE Ended(Counted(k), q)
      BY <2>2, <2>3, <1>6
    <2>4. CASE q.state # "CLOSED" /\ q.next_receive = k.next_receive + 1 /\ Outcome(e, q)
      <3>1. Kernel(e, q, 1, <<>>)
        BY <1>2, <2>1
      <3> HIDE DEF q
      <3>2. /\ conn' = [conn EXCEPT ![e] = q]
            /\ wire' \in [Ends -> Seq(Record)] /\ wire'[p] = wire[p] /\ wire'[e] = Tail(w)
            /\ gone' \in [Ends -> BOOLEAN] /\ reset' \in [Ends -> BOOLEAN]
            /\ gone'[e] = gone[e] /\ gone'[p] = gone[p]
        BY <3>1, <2>2, <2>4, <1>1, <1>8, KernelQuiet
      <3>3. turn' \in [Ends -> SUBSET {"in", "out", "hup"}] /\ turn'[p] = turn[p]
        BY <1>1, <1>2 DEF Types
      <3>4. Reads(e, q)
        BY <3>2, <3>3, <2>2, <2>4, <1>2, <1>3, <1>8 DEF Reads, FailuresAt
      <3> QED
        BY <3>4, <2>2, <2>4, ReadingDelivers
    <2> QED
      BY <2>2, <2>3, <2>4
  <1> QED
    BY <1>7, <1>8

\* process_poll_events, after its reads.
LEMMA EndPollDelivers ==
    ASSUME Inductive, NEW e \in Ends, EndPoll(e)
    PROVE  Delivers(e)
  <1> DEFINE k == conn[e]
             p == Peer(e)
             o == k.outgoing
  <1>1. /\ Types /\ Stages /\ p \in Ends /\ p # e /\ Peer(p) = e
    BY EndFacts DEF Inductive
  <1>2. accepted' = accepted /\ delivered' = delivered
    BY DEF EndPoll
  <1>3. /\ k \in Connection /\ o \in Seq(Record) /\ Len(o) \in Nat
        /\ wire[p] \in Seq(Record) /\ wire[e] \in Seq(Record)
    BY <1>1, EndTypes
  <1>4. PICK q \in Connection : Writes(e, q)
    BY EndPollWrites
  <1>5. CASE q = k /\ Kernel(e, q, 0, <<>>)
    <2>1. /\ conn'[e] = k /\ conn'[p] = conn[p] /\ wire'[p] = wire[p] /\ wire'[e] = wire[e]
      BY <1>1, <1>5, KernelQuiet
    <2>2. Seen(e)' = Seen(e)
      BY <1>2, <2>1 DEF Seen
    <2>3. Hears(e)
      BY <1>1, <2>1, <2>2, HearsNothing DEF Hearing
    <2>4. Says(e)
      BY <1>1, <1>2, <2>1, SaysNothing
    <2> QED
      BY <1>2, <2>1, <2>3, <2>4 DEF Delivers, Alone
  <1>6. ASSUME NEW n \in 0 .. Len(k.outgoing), k.state # "CLOSED",
               Kernel(e, q, 0, SubSeq(k.outgoing, 1, n)), Ended(k, q)
        PROVE  Delivers(e)
    BY <1>1, <1>2, <1>6, ClosingDelivers
  <1>7. ASSUME NEW n \in 0 .. Len(k.outgoing), k.state # "CLOSED", ~ gone[e],
               Kernel(e, q, 0, SubSeq(k.outgoing, 1, n)),
               q = [k EXCEPT !.outgoing = Unsent(e, n)]
        PROVE  Delivers(e)
    <2> DEFINE f == SubSeq(o, 1, n)
               u == Unsent(e, n)
    <2>1. f \in Seq(Record) /\ u \in Seq(Record) /\ o = f \o u
      <3>1. \A i \in 1 .. Len(o) : o[i] \in Record
        BY <1>3, ElementOfSeq
      <3>2. n \in Nat /\ n <= Len(o) /\ 1 \in 1 .. Len(o) + 1 /\ n \in 1 - 1 .. Len(o)
            /\ Len(o) \in n .. Len(o)
        BY <1>3, <1>7
      <3>3. u = SubSeq(o, n + 1, Len(o))
        BY DEF Unsent
      <3> HIDE DEF o, u
      <3>4. \A i \in 1 .. n : o[i] \in Record
        BY <1>3, <3>1, <3>2
      <3>5. \A i \in n + 1 .. Len(o) : o[i] \in Record
        BY <1>3, <3>1, <3>2
      <3>6. f \in Seq(Record)
        BY <3>2, <3>4, SubSeqProperties
      <3>7. SubSeq(o, n + 1, Len(o)) \in Seq(Record)
        BY <1>3, <3>2, <3>5, SubSeqProperties
      <3>8. SubSeq(o, 1, Len(o)) = SubSeq(o, 1, n) \o SubSeq(o, n + 1, Len(o))
        BY <1>3, <3>2, ConcatAdjacentSubSeq
      <3> QED
        BY <1>3, <3>3, <3>6, <3>7, <3>8, SubSeqFull
    <2>2. Kernel(e, q, 0, f)
      BY <1>7
    <2>3. /\ q.state = k.state /\ q.outgoing = u /\ q.incoming = k.incoming
      BY <1>3, <1>7 DEF Connection
    <2> HIDE DEF f, u
    <2>4. /\ conn'[e] = q /\ conn'[p] = conn[p]
          /\ wire'[e] = SubSeq(wire[e], 0 + 1, Len(wire[e]))
          /\ wire'[p] = wire[p] \o f
      <3> DEFINE closes == q.state = "CLOSED" /\ k.state # "CLOSED"
      <3>1. /\ conn'[e] = q /\ conn'[p] = conn[p]
            /\ wire'[e] = IF closes THEN <<>> ELSE SubSeq(wire[e], 0 + 1, Len(wire[e]))
            /\ wire'[p] = IF gone[e] THEN wire[p] ELSE wire[p] \o f
        BY <1>1, <2>1, <2>2, KernelFacts
      <3>2. ~ closes
        BY <2>3, <1>7
      <3> HIDE DEF closes
      <3> QED
        BY <3>1, <3>2, <1>7
    <2>5. wire'[e] = wire[e]
      <3>1. 0 + 1 = 1
        OBVIOUS
      <3> QED
        BY <3>1, <1>3, <2>4, SubSeqFull
    <2>6. Hears(e)
      <3>1. Seen(e)' = Seen(e)
        BY <1>2, <2>3, <2>4 DEF Seen
      <3> QED
        BY <1>1, <2>3, <2>4, <2>5, <3>1, HearsNothing DEF Hearing
    <2>7. Says(e)
      <3> DEFINE w == Visible(wire[p])
                 x == Visible(f)
                 y == Visible(u)
                 a == Visible(accepted[e])
      <3>1. Visible(o) = x \o y /\ Visible(wire'[p]) = w \o x
        BY <1>3, <2>1, <2>4, TextFacts, VisibleConcat
      <3>2. w \in Seq(Posts) /\ x \in Seq(Posts) /\ y \in Seq(Posts) /\ a \in Seq(Posts)
        BY <1>1, <1>3, <2>1, TextFacts, TextTypes
      <3> HIDE DEF w, x, y, a
      <3>6. w \o (x \o y) = (w \o x) \o y
        <4>1. Associate(w, x, y)
          BY <3>2, PostsAssociate
        <4> QED
          BY <4>1 DEF Associate
      <3>7. (w \o x) \o y \in Seq(Posts) /\ a = a \o <<>> /\ <<>> \in Seq(Posts)
        BY <3>2, PostsFacts
      <3>3. /\ w \o (x \o y) = (w \o x) \o y /\ (w \o x) \o y \in Seq(Posts)
            /\ a = a \o <<>> /\ <<>> \in Seq(Posts)
        BY <3>6, <3>7
      <3>4. ((w \o x) \o y) \o <<>> = (w \o x) \o y
        BY <3>3, PostsFacts
      <3>5. /\ Visible(accepted'[e]) = Visible(accepted[e]) \o <<>>
            /\ Visible(wire'[p]) \o Visible(conn'[e].outgoing)
                 = (Visible(wire[p]) \o Visible(conn[e].outgoing)) \o <<>>
        <4>1. Visible(conn'[e].outgoing) = y
          BY <2>3, <2>4 DEF y
        <4>2. Visible(wire[p]) \o Visible(conn[e].outgoing) = (w \o x) \o y
          BY <3>1, <3>3 DEF w
        <4>3. Visible(accepted'[e]) = a
          BY <1>2 DEF a
        <4> QED
          BY <3>1, <3>3, <3>4, <4>1, <4>2, <4>3 DEF a
      <3> QED
        BY <1>7, <2>3, <2>4, <3>3, <3>5 DEF Says
    <2> QED
      BY <1>2, <2>4, <2>6, <2>7 DEF Delivers, Alone
  <1> QED
    BY <1>4, <1>5, <1>6, <1>7 DEF Writes

\* What an application sends is the last of what is under way.
LEMMA SpeakingDelivers ==
    ASSUME Inductive, NEW e \in Ends, NEW m \in Letter, NEW q \in Connection,
           Kernel(e, q, 0, <<>>), conn[e].state # "CLOSED", q.state = conn[e].state,
           Queued(conn[e], q, Numbered(m, conn[e].next_send)),
           accepted' = [accepted EXCEPT ![e] = Append(accepted[e], m)], delivered' = delivered
    PROVE  Delivers(e)
  <1> DEFINE k == conn[e]
             p == Peer(e)
             r == Numbered(m, k.next_send)
  <1>1. Types /\ p \in Ends /\ p # e
    BY EndFacts DEF Inductive
  <1>2. /\ conn'[e] = q /\ conn'[p] = conn[p] /\ wire'[p] = wire[p] /\ wire'[e] = wire[e]
    BY <1>1, KernelQuiet
  <1>3. /\ r \in Record /\ r = Numbered(m, r.sequence) /\ q.outgoing = Append(k.outgoing, r)
        /\ q.incoming = k.incoming
    BY DEF Queued
  <1> HIDE DEF r
  <1>4. accepted'[e] = Append(accepted[e], m) /\ accepted'[p] = accepted[p]
    BY <1>1 DEF Types
  <1>5. Seen(e)' = Seen(e)
    BY <1>2, <1>3 DEF Seen
  <1>6. Hears(e)
    BY <1>1, <1>2, <1>5, HearsNothing DEF Hearing
  <1>7. Says(e)
    BY <1>1, <1>2, <1>3, <1>4, SaysMessage
  <1> QED
    BY <1>2, <1>4, <1>6, <1>7 DEF Delivers, Alone

\* gwipc_connection_enqueue.
LEMMA EnqueueDelivers ==
    ASSUME Inductive, NEW e \in Ends, NEW m \in Messages(e), Enqueue(e, m)
    PROVE  Delivers(e)
  <1> DEFINE k == conn[e]
             q == EnqueueWithSequence(k, m)
             r == Numbered(m, k.next_send)
  <1>1. Types /\ k \in Connection /\ m \in Letter
    BY EndTypes, MessagesFacts DEF Inductive
  <1>2. /\ k.state = "ESTABLISHED" /\ q # With(k, q.status) /\ Kernel(e, q, 0, <<>>)
        /\ accepted' = [accepted EXCEPT ![e] = IF q.status = "OK" THEN Append(accepted[e], m)
                                               ELSE accepted[e]]
        /\ delivered' = delivered
    BY <1>1 DEF Enqueue, Types
  <1>3. \/ q = With(k, "LIMIT_EXCEEDED")
        \/ q.status # "OK" /\ Ended(k, q)
        \/ q.status = "OK" /\ Enqueued(k, q, r)
    BY <1>1, EnqueueFacts
  <1> HIDE DEF q
  <1>4. q # With(k, "LIMIT_EXCEEDED")
    <2>1. With(k, "LIMIT_EXCEEDED").status = "LIMIT_EXCEEDED"
      BY <1>1, WithFacts DEF Statuses
    <2> QED
      BY <2>1, <1>2
  <1>5. CASE q.status # "OK" /\ Ended(k, q)
    <2>1. accepted' = accepted
      BY <1>1, <1>2, <1>5 DEF Types
    <2> QED
      BY <1>1, <1>2, <1>5, <2>1, LeavingDelivers DEF Ended
  <1>6. CASE q.status = "OK" /\ Enqueued(k, q, r)
    BY <1>1, <1>2, <1>6, SpeakingDelivers DEF Enqueued, Queued
  <1> QED
    BY <1>3, <1>4, <1>5, <1>6

\* A record of a later version of the library.
LEMMA EnqueueUnknownDelivers ==
    ASSUME Inductive, NEW e \in Ends, NEW kind \in {"UNKNOWN", "CRITICAL_UNKNOWN"},
           EnqueueUnknown(e, kind)
    PROVE  Delivers(e)
  <1> DEFINE k == conn[e]
             m == Message(kind, 0, 1, 0)
             q == QueueInternal(k, m)
             r == Numbered(m, k.next_send)
  <1>1. Types /\ k \in Connection
    BY EndTypes DEF Inductive
  <1>2. m \in Letter
    <2>1. kind \in Kinds /\ 0 \in Identities /\ kind # "SESSION_STATE_CHANGE"
      BY DEF Kinds, Automatic, Identities
    <2> QED
      BY <2>1, LetterFacts
  <1>3. /\ k.state = "ESTABLISHED" /\ q.status = "OK" /\ Kernel(e, q, 0, <<>>)
        /\ accepted' = [accepted EXCEPT ![e] = Append(accepted[e], m)] /\ delivered' = delivered
    BY <1>1 DEF EnqueueUnknown, Types
  <1> HIDE DEF m
  <1>4. Queued(k, q, r) /\ q.state = k.state
    BY <1>1, <1>2, <1>3, QueueFacts
  <1> HIDE DEF q
  <1>5. q \in Connection
    BY <1>4 DEF Queued
  <1> QED
    BY <1>2, <1>3, <1>4, <1>5, SpeakingDelivers

\* Nothing has been sent, and nothing seen.
LEMMA InitiallyInOrder == Init => InOrder
  <1> SUFFICES ASSUME Init, NEW e \in Ends PROVE InOrderOf(e)
    BY DEF InOrder
  <1>1. PICK cc \in ClientConfigs, sc \in ServerConfigs, st \in AfterConnect :
          conn = [d \in Ends |-> IF d = "client" THEN Fresh(cc, st)
                                                 ELSE Fresh(sc, "NOT_ACCEPTED")]
    BY DEF Init
  <1>2. conn[e].incoming = <<>> /\ conn[Peer(e)].outgoing = <<>> /\ Peer(e) \in Ends
    BY <1>1, EndFacts DEF Fresh
  <1>3. wire[e] = <<>> /\ delivered[e] = <<>> /\ accepted[Peer(e)] = <<>>
    BY <1>2 DEF Init
  <1>4. <<>> \o <<>> = <<>> /\ <<>> \in Seq(Posts) /\ Visible(<<>>) = <<>>
    BY PostsFacts, VisibleFacts
  <1>5. Seen(e) = <<>>
    BY <1>2, <1>3, <1>4 DEF Seen
  <1> QED
    BY <1>2, <1>3, <1>4, <1>5 DEF InOrderOf

\* Every handler of the library, and every call of an application, keeps the order.
LEMMA StepsKeepOrder == Inductive /\ Inductive' /\ InOrder /\ [Next]_vars => InOrder'
  <1> SUFFICES ASSUME Inductive, Inductive', InOrder, [Next]_vars PROVE InOrder'
    OBVIOUS
  <1>1. Types /\ Types'
    BY DEF Inductive
  <1>2. CASE UNCHANGED vars
    BY <1>2 DEF vars, InOrder, InOrderOf, Seen, Hearing
  <1>3. ASSUME NEW e \in Ends, Delivers(e)  PROVE InOrder'
    BY <1>1, <1>3, StepKeepsOrder DEF Delivers
  <1>4. ASSUME NEW sameUser \in BOOLEAN, Accept(sameUser)  PROVE InOrder'
    BY <1>3, <1>4, AcceptDelivers, EndFacts
  <1>5. ASSUME NEW e \in Ends, BeginPoll(e)  PROVE InOrder'
    BY <1>3, <1>5, BeginPollDelivers
  <1>6. ASSUME NEW e \in Ends, RefuseConnect(e)  PROVE InOrder'
    BY <1>3, <1>6, RefuseConnectDelivers
  <1>7. ASSUME NEW e \in Ends, DrainIncoming(e)  PROVE InOrder'
    BY <1>3, <1>7, DrainIncomingDelivers
  <1>8. ASSUME NEW e \in Ends, EndPoll(e)  PROVE InOrder'
    BY <1>3, <1>8, EndPollDelivers
  <1>9. ASSUME NEW e \in Ends, Send(e)  PROVE InOrder'
    <2>1. PICK m \in Messages(e) : Enqueue(e, m)
      BY <1>9 DEF Send
    <2> QED
      BY <1>3, <2>1, EnqueueDelivers
  <1>10. ASSUME NEW e \in Ends, NEW kind \in {"UNKNOWN", "CRITICAL_UNKNOWN"},
                EnqueueUnknown(e, kind)
         PROVE  InOrder'
    BY <1>3, <1>10, EnqueueUnknownDelivers
  <1>11. ASSUME NEW e \in Ends, Receive(e)  PROVE InOrder'
    BY <1>3, <1>11, ReceiveDelivers
  <1>12. ASSUME NEW e \in Ends, Destroy(e)  PROVE InOrder'
    BY <1>3, <1>12, DestroyDelivers
  <1> QED
    BY <1>2, <1>4, <1>5, <1>6, <1>7, <1>8, <1>9, <1>10, <1>11, <1>12 DEF Next

\* A sequence that continues another one has it as a prefix.
LEMMA ContinuedIsPrefix ==
    ASSUME NEW s \in Seq(Posts), NEW u \in Seq(Posts)
    PROVE  IsPrefix(s, s \o u)
  <1> DEFINE t == s \o u
             n == Len(s)
  <1>1. /\ t \in Seq(Posts) /\ Len(t) = n + Len(u) /\ n \in Nat /\ Len(u) \in Nat
        /\ \A i \in 1 .. n + Len(u) : t[i] = IF i <= n THEN s[i] ELSE u[i - n]
    BY ConcatProperties, LenProperties
  <1>2. \A i \in 1 .. n : s[i] \in Posts
    BY ElementOfSeq
  <1> HIDE DEF t
  <1>3. \A i \in 1 .. n : t[i] \in Posts /\ t[i] = s[i]
    BY <1>1, <1>2
  <1>4. /\ SubSeq(t, 1, n) \in Seq(Posts)
        /\ Len(SubSeq(t, 1, n)) = IF 1 <= n THEN n - 1 + 1 ELSE 0
        /\ \A i \in 1 .. n - 1 + 1 : SubSeq(t, 1, n)[i] = t[1 + i - 1]
    BY <1>1, <1>3, SubSeqProperties
  <1>5. /\ Len(SubSeq(t, 1, n)) = n
        /\ \A i \in 1 .. n : SubSeq(t, 1, n)[i] = s[i]
    BY <1>1, <1>3, <1>4
  <1>6. SubSeq(t, 1, n) = s
    BY <1>4, <1>5, SeqEqual
  <1>7. SubSeq(s, 1, n) = s /\ n <= Len(t)
    BY <1>1, SubSeqFull
  <1> QED
    BY <1>6, <1>7 DEF IsPrefix, t

\* The order is what is wanted, and more.
LEMMA InOrderIsDelivered == Inductive /\ InOrder => DeliveredInOrder
  <1> SUFFICES ASSUME Inductive, InOrder, NEW e \in Ends
               PROVE  /\ IsPrefix(Seen(e), Visible(accepted[Peer(e)]))
                      /\ (/\ \A d \in Ends : conn[d].state = "ESTABLISHED" /\ conn[d].outgoing = <<>>
                          /\ wire[e] = <<>>)
                         => Seen(e) = Visible(accepted[Peer(e)])
    BY DEF DeliveredInOrder
  <1> DEFINE p == Peer(e)
             A == Visible(accepted[p])
  <1>1. InOrderOf(e) /\ Types /\ p \in Ends
    BY EndFacts DEF InOrder, Inductive
  <1>2. Seen(e) \in Seq(Posts)
    BY <1>1, TextTypes
  <1>3. IsPrefix(Seen(e), A)
    BY <1>1, <1>2, ContinuedIsPrefix DEF InOrderOf
  <1>4. ASSUME \A d \in Ends : conn[d].state = "ESTABLISHED" /\ conn[d].outgoing = <<>>,
               wire[e] = <<>>
        PROVE  Seen(e) = A
    <2>1. A = Seen(e) \o (Visible(wire[e]) \o Visible(conn[p].outgoing))
      BY <1>1, <1>4 DEF InOrderOf, Hearing
    <2>2. Visible(wire[e]) = <<>> /\ Visible(conn[p].outgoing) = <<>>
      BY <1>1, <1>4, VisibleFacts
    <2>3. <<>> \o <<>> = <<>> /\ Seen(e) \o <<>> = Seen(e)
      BY <1>2, PostsFacts
    <2> QED
      BY <2>1, <2>2, <2>3
  <1> QED
    BY <1>3, <1>4

\* Messages arrive once, in order and without gaps, whatever the two ends send,
\* however queues and the socket fill up and whenever an end goes; and none is
\* missing when both are open and nothing is under way.
THEOREM MessagesArriveInOrder == Spec => []DeliveredInOrder
  <1>1. Init => Inductive /\ InOrder
    BY InitiallyInductive, InitiallyInOrder
  <1>2. Inductive /\ InOrder /\ [Next]_vars => (Inductive /\ InOrder)'
    BY StepsAreInductive, StepsKeepOrder
  <1> QED
    BY <1>1, <1>2, InOrderIsDelivered, PTL DEF Spec
=============================================================================
