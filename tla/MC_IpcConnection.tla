--------------------------- MODULE MC_IpcConnection ---------------------------
EXTENDS IpcConnection

Config(role, peers, offered, required, payload, queued) ==
  [role |-> role, peer_roles |-> peers, offered |-> offered,
   required |-> required, maximum_payload |-> payload,
   maximum_queued_messages |-> queued]

Both == {"SNAPSHOTS", "SESSION_STATE"}

MCClientConfigs ==
  {Config("PROTOCOL_SERVER", {"COMPOSITOR"}, Both, {"SNAPSHOTS"}, 2, 2),
   Config("WINDOW_MANAGER", {"COMPOSITOR"}, Both, {}, 1, 1)}

MCServerConfigs ==
  {Config("COMPOSITOR", {"PROTOCOL_SERVER"}, Both, {}, 1, 2)}

MCVocabulary == [e \in Ends |->
  IF e = "client" THEN {"SNAPSHOT_BEGIN", "ITEM", "SNAPSHOT_END",
                        "FRAME_COMMIT", "OUTPUT_STATE_QUERY"}
  ELSE {"SESSION_STATE_CHANGE", "PING", "UNKNOWN", "CRITICAL_UNKNOWN"}]

MCMaxMessages == [e \in Ends |-> IF e = "client" THEN 3 ELSE 1]

\* The instance of the snapshot that overflows the receiver's queue.
SnapshotVocabulary == [e \in Ends |->
  IF e = "client" THEN {"SNAPSHOT_BEGIN", "ITEM", "SNAPSHOT_END"} ELSE {}]
===============================================================================
