--------------------------- MODULE LRURefinesCache ---------------------------
(* The step by which an insertion takes effect is the one that links its    *)
(* node: until then its element is write-locked and outside the order.      *)
EXTENDS ConcurrentLRUCache

Visible(k) == k \in m_map /\ ~ \E c \in Clients : Fresh(c) /\ key[c] = k

Abstract ==
  INSTANCE CacheSpec WITH
    MaxSize <- m_max_size,
    Timeout <- m_timeout,
    store <- [k \in Keys |-> IF Visible(k) THEN m_value[k] ELSE NoValue],
    stamp <- [k \in Keys |-> IF Visible(k) THEN m_timestamp[m_list_node[k]] ELSE 0],
    recency <- snapshot_keys,
    pinned <- accessor,
    hit <- found

\* Seen through its finds and its snapshots, the cache behaves as CacheSpec: a
\* find returns what the last insert of the key stored, only the cold end of the
\* order is ever evicted, never below m_max_size unless expired, and nothing a
\* client reads is dropped or overwritten under it.
RefinesCacheSpec == Abstract!Spec
=============================================================================
