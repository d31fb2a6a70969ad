---------------------------- MODULE ScalableCache ----------------------------
(***************************************************************************)
(* cpp_lib/cache/concurrent_scalable_cache.h: a cache split into shards by *)
(* the hash of the key.  The operations that concern all shards visit one  *)
(* after the other, while other clients and the evictions of the shards go *)
(* on.                                                                     *)
(*                                                                         *)
(* A shard is a ConcurrentLRUCache, taken here at the level of CacheSpec,  *)
(* which ConcurrentLRUCache implements, with the two moments of an         *)
(* insertion and of an eviction that snapshot_keys and size tell apart:    *)
(* a new element is linked before it is counted, and an evicted one is     *)
(* delinked, then erased, then no longer counted.  A shard may evict       *)
(* whenever it is over its size; whether a skipped eviction leaves it over *)
(* its size is a matter of ConcurrentLRUCache.  There is no clock: with a  *)
(* m_timeout an element may expire at any moment after it was put in the   *)
(* list, also before one that was put there earlier.  The accessors of     *)
(* finds, which only delay inserts and evictions, are left out.            *)
(***************************************************************************)
EXTENDS Integers, Sequences, SequencesExt, FiniteSets, FiniteSetsExt

CONSTANTS
  Keys, NoKey,
  Clients,
  m_max_size, m_num_shards,
  m_timeout,   \* 0 if nothing ever expires
  Batches,     \* the sets of keys inserts and mgets are called with
  ShardOf      \* (hash(key) >> shift) % m_num_shards of every key

Shards == 0 .. m_num_shards - 1

ASSUME ShardAssumption ==
  /\ m_max_size \in Nat
  /\ m_timeout \in Nat
  /\ m_num_shards \in Nat \ {0}
  /\ ShardOf \in [Keys -> Shards]
  /\ NoKey \notin Keys
  /\ Batches \subseteq SUBSET Keys

VARIABLES
  order,       \* the list of every shard, most recent first
  moribund,    \* the key every shard is evicting, or NoKey
  erased,      \* whether its element is out of the map
  expired,     \* the keys whose time stamps are older than m_timeout
  pc,          \* what a client is doing
  ind,         \* the shard it visits next
  data_vec,    \* what its insert has still to insert, by shard
  counting,    \* the key it has linked and not counted yet, or NoKey
  keys,        \* what its snapshot has copied
  total,       \* what its size() has added up
  throughout,  \* the keys that were in the lists since its call
  sometime,    \* the keys that were in the maps at a time since its call; for
               \* an mget, a key that has expired is in neither
  latest       \* the key put at the front of its list last, if it has not
               \* expired since, or NoKey

cacheVars == <<order, moribund, erased, expired, latest>>
callVars == <<pc, ind, data_vec, counting, keys, total>>
historyVars == <<throughout, sometime>>
vars == <<order, moribund, erased, expired, pc, ind, data_vec, counting, keys,
          total, throughout, sometime, latest>>

-----------------------------------------------------------------------------
get_shard_ind(k) == ShardOf[k]

\* The m_max_size of a shard; the first one takes the rest of the division.
shard_max_size(i) ==
  (m_max_size \div m_num_shards)
    + (IF i = 0 THEN m_max_size % m_num_shards ELSE 0)

Listed(i) == ToSet(order[i])
Dying(i) == IF moribund[i] # NoKey /\ ~ erased[i] THEN {moribund[i]} ELSE {}

\* The list without the node of a key.
delink(list, k) ==
  IF \E n \in 1 .. Len(list) : list[n] = k
    THEN RemoveAt(list, CHOOSE n \in 1 .. Len(list) : list[n] = k)
    ELSE list

InLists == UNION {Listed(i) : i \in Shards}
InMaps == InLists \cup UNION {Dying(i) : i \in Shards}

\* The m_size of a shard: not yet the nodes that are being inserted, still
\* the one that is being evicted.
m_size(i) ==
  Len(order[i]) + (IF moribund[i] # NoKey THEN 1 ELSE 0)
    - Cardinality({c \in Clients : counting[c] # NoKey /\ get_shard_ind(counting[c]) = i})

\* snapshot_keys and size do not look at time stamps, finds do.
Visible(ks, call) == IF call = "mget" THEN ks \ expired ELSE ks

\* The calls in progress see the cache change.
Observe ==
  /\ throughout' = [c \in Clients |-> throughout[c] \cap Visible(InLists, pc[c])']
  /\ sometime' = [c \in Clients |->
                    IF pc[c] \notin {"idle", "insert"}
                      THEN sometime[c] \cup Visible(InMaps, pc[c])' ELSE {}]

NoData == [i \in Shards |-> {}]

Init ==
  /\ order = [i \in Shards |-> <<>>]
  /\ moribund = [i \in Shards |-> NoKey]
  /\ erased = [i \in Shards |-> FALSE]
  /\ expired = {}
  /\ pc = [c \in Clients |-> "idle"]
  /\ ind = [c \in Clients |-> 0]
  /\ data_vec = [c \in Clients |-> NoData]
  /\ counting = [c \in Clients |-> NoKey]
  /\ keys = [c \in Clients |-> <<>>]
  /\ total = [c \in Clients |-> 0]
  /\ throughout = [c \in Clients |-> {}]
  /\ sometime = [c \in Clients |-> {}]
  /\ latest = NoKey

-----------------------------------------------------------------------------
(* insert, of one pair or of a batch.                                      *)

\* Mutant: the batch is not split.
Split_Whole(batch) == [i \in Shards |-> IF i = 0 THEN batch ELSE {}]

Split(batch) == [i \in Shards |-> {k \in batch : get_shard_ind(k) = i}]

Insert(c, batch) ==
  /\ pc[c] = "idle"
  /\ pc' = [pc EXCEPT ![c] = "insert"]
  /\ data_vec' = [data_vec EXCEPT ![c] = Split(batch)]
  /\ UNCHANGED <<cacheVars, ind, counting, keys, total, historyVars>>

\* The next pair of the current shard.  An element that is being inserted is
\* locked.  An element that is there gets a new time stamp and moves to the
\* front, unless it is being evicted; one that is not there is linked and has
\* still to be counted.
SetEntry(c) ==
  LET i == ind[c] IN
  /\ pc[c] = "insert"
  /\ counting[c] = NoKey
  /\ i \in Shards
  /\ \E k \in data_vec[c][i] :
       /\ \A d \in Clients : counting[d] # k
       /\ data_vec' = [data_vec EXCEPT ![c][i] = @ \ {k}]
       /\ IF k \in Dying(i)
            THEN UNCHANGED <<order, expired, latest>>
            ELSE /\ order' = [order EXCEPT ![i] = <<k>> \o delink(@, k)]
                 /\ expired' = expired \ {k}
                 /\ latest' = k
       /\ counting' = [counting EXCEPT ![c] =
                         IF k \in Listed(i) \cup Dying(i) THEN NoKey ELSE k]
  /\ UNCHANGED <<moribund, erased, pc, ind, keys, total>>
  /\ Observe

CountEntry(c) ==
  /\ counting[c] # NoKey
  /\ counting' = [counting EXCEPT ![c] = NoKey]
  /\ UNCHANGED <<cacheVars, pc, ind, data_vec, keys, total, historyVars>>

InsertNextShard(c) ==
  /\ pc[c] = "insert"
  /\ counting[c] = NoKey
  /\ ind[c] \in Shards
  /\ data_vec[c][ind[c]] = {}
  /\ ind' = [ind EXCEPT ![c] = @ + 1]
  /\ UNCHANGED <<cacheVars, pc, data_vec, counting, keys, total, historyVars>>

-----------------------------------------------------------------------------
(* The eviction of a shard; its m_evict_flag admits one at a time.         *)

\* Time passes, and the time stamp of k is too old now.
Expire(k) ==
  /\ m_timeout # 0
  /\ k \in InMaps \ expired
  /\ expired' = expired \cup {k}
  /\ latest' = IF latest = k THEN NoKey ELSE latest
  /\ UNCHANGED <<order, moribund, erased, callVars>>
  /\ Observe

\* Mutant: with a timeout the last node goes without a look at its time stamp.
Evict_Unchecked(i) ==
  /\ moribund[i] = NoKey
  /\ order[i] # <<>>
  /\ m_size(i) > shard_max_size(i) \/ m_timeout # 0
  /\ moribund' = [moribund EXCEPT ![i] = Last(order[i])]
  /\ order' = [order EXCEPT ![i] = Front(@)]
  /\ UNCHANGED <<erased, expired, callVars, latest>>
  /\ Observe

\* The last node goes if the shard is over its size, or if it has expired; the
\* time stamp is looked at with the list locked.
Evict(i) ==
  /\ moribund[i] = NoKey
  /\ order[i] # <<>>
  /\ m_size(i) > shard_max_size(i) \/ Last(order[i]) \in expired
  /\ moribund' = [moribund EXCEPT ![i] = Last(order[i])]
  /\ order' = [order EXCEPT ![i] = Front(@)]
  /\ UNCHANGED <<erased, expired, callVars, latest>>
  /\ Observe

\* The element is erased once it is unlocked.
EraseMoribund(i) ==
  /\ Dying(i) # {}
  /\ \A c \in Clients : counting[c] # moribund[i]
  /\ erased' = [erased EXCEPT ![i] = TRUE]
  /\ expired' = expired \ {moribund[i]}
  /\ UNCHANGED <<order, moribund, callVars, latest>>
  /\ Observe

UncountMoribund(i) ==
  /\ erased[i]
  /\ moribund' = [moribund EXCEPT ![i] = NoKey]
  /\ erased' = [erased EXCEPT ![i] = FALSE]
  /\ UNCHANGED <<order, expired, callVars, historyVars, latest>>

-----------------------------------------------------------------------------
(* snapshot_keys and size, shard by shard.                                 *)

Begin(c, call) ==
  /\ pc[c] = "idle"
  /\ pc' = [pc EXCEPT ![c] = call]
  /\ throughout' = [throughout EXCEPT ![c] = Visible(InLists, call)]
  /\ sometime' = [sometime EXCEPT ![c] = Visible(InMaps, call)]
  /\ UNCHANGED <<cacheVars, ind, data_vec, counting, keys, total>>

\* Mutant: every shard assigns its keys to the vector.
SnapshotShard_Assigns(c) ==
  /\ pc[c] = "snapshot_keys"
  /\ ind[c] \in Shards
  /\ keys' = [keys EXCEPT ![c] = order[ind[c]]]
  /\ ind' = [ind EXCEPT ![c] = @ + 1]
  /\ UNCHANGED <<cacheVars, pc, data_vec, counting, total, historyVars>>

\* The list mutex of the shard is held while its keys are copied.
SnapshotShard(c) ==
  /\ pc[c] = "snapshot_keys"
  /\ ind[c] \in Shards
  /\ keys' = [keys EXCEPT ![c] = @ \o order[ind[c]]]
  /\ ind' = [ind EXCEPT ![c] = @ + 1]
  /\ UNCHANGED <<cacheVars, pc, data_vec, counting, total, historyVars>>

\* Mutant: the last shard is left out.
SizeShard_Short(c) ==
  /\ pc[c] = "size"
  /\ ind[c] \in Shards
  /\ total' = [total EXCEPT ![c] =
                 IF ind[c] = m_num_shards - 1 THEN @ ELSE @ + m_size(ind[c])]
  /\ ind' = [ind EXCEPT ![c] = @ + 1]
  /\ UNCHANGED <<cacheVars, pc, data_vec, counting, keys, historyVars>>

SizeShard(c) ==
  /\ pc[c] = "size"
  /\ ind[c] \in Shards
  /\ total' = [total EXCEPT ![c] = @ + m_size(ind[c])]
  /\ ind' = [ind EXCEPT ![c] = @ + 1]
  /\ UNCHANGED <<cacheVars, pc, data_vec, counting, keys, historyVars>>

-----------------------------------------------------------------------------
Finishing(c, call) == pc[c] = call /\ ind[c] = m_num_shards

Return(c) ==
  /\ pc[c] # "idle" /\ ind[c] = m_num_shards
  /\ pc' = [pc EXCEPT ![c] = "idle"]
  /\ ind' = [ind EXCEPT ![c] = 0]
  /\ keys' = [keys EXCEPT ![c] = <<>>]
  /\ total' = [total EXCEPT ![c] = 0]
  /\ throughout' = [throughout EXCEPT ![c] = {}]
  /\ sometime' = [sometime EXCEPT ![c] = {}]
  /\ UNCHANGED <<cacheVars, data_vec, counting>>

\* clear() is documented as not thread safe: nothing else goes on.
Clear ==
  /\ \A c \in Clients : pc[c] = "idle"
  /\ \A i \in Shards : moribund[i] = NoKey
  /\ order' = [i \in Shards |-> <<>>]
  /\ expired' = {}
  /\ latest' = NoKey
  /\ UNCHANGED <<moribund, erased, callVars, historyVars>>

Next ==
  \/ \E c \in Clients :
       \/ \E batch \in Batches : Insert(c, batch)
       \/ SetEntry(c) \/ CountEntry(c) \/ InsertNextShard(c)
       \/ \E call \in {"snapshot_keys", "size"} : Begin(c, call)
       \/ SnapshotShard(c) \/ SizeShard(c)
       \/ Return(c)
  \/ \E i \in Shards : Evict(i) \/ EraseMoribund(i) \/ UncountMoribund(i)
  \/ \E k \in Keys : Expire(k)
  \/ Clear

Spec == Init /\ [][Next]_vars

-----------------------------------------------------------------------------
\* Every variable has its type, and a key is only ever in the shard find
\* looks for it in: insert, batch insert and find agree on get_shard_ind.
TypeOK ==
  /\ \A i \in Shards :
       order[i] \in Seq({k \in Keys : get_shard_ind(k) = i}) /\ IsInjective(order[i])
  /\ moribund \in [Shards -> Keys \cup {NoKey}]
  /\ erased \in [Shards -> BOOLEAN]
  /\ expired \subseteq Keys
  /\ pc \in [Clients -> {"idle", "insert", "snapshot_keys", "size", "mget"}]
  /\ ind \in [Clients -> 0 .. m_num_shards]
  /\ data_vec \in [Clients -> [Shards -> SUBSET Keys]]
  /\ counting \in [Clients -> Keys \cup {NoKey}]
  /\ keys \in [Clients -> Seq(Keys)]
  /\ total \in [Clients -> Nat]
  /\ throughout \in [Clients -> SUBSET Keys]
  /\ sometime \in [Clients -> SUBSET Keys]
  /\ latest \in Keys \cup {NoKey}

\* A snapshot is taken shard by shard, yet it holds every key that stayed in
\* the eviction lists all the while, only keys the cache had at some time in
\* the call, and no key twice.
SnapshotRegular ==
  \A c \in Clients : Finishing(c, "snapshot_keys") =>
    /\ throughout[c] \subseteq ToSet(keys[c])
    /\ ToSet(keys[c]) \subseteq sometime[c]
    /\ IsInjective(keys[c])

\* size() misses at most one key per other client, the one it is inserting,
\* and counts at most one element too many per shard, the one being evicted.
SizeRegular ==
  \A c \in Clients : Finishing(c, "size") =>
    /\ Cardinality(throughout[c]) - (Cardinality(Clients) - 1) <= total[c]
    /\ total[c] <= Cardinality(sometime[c]) + m_num_shards

\* concurrent_scalable_cache.h:11-13, "When it is full, it evicts a rough
\* approximation to the least recently used item": the key that was moved to
\* the front last is not evicted before it expires, whatever else expires.
LatestStays == latest # NoKey => latest \in InLists
=============================================================================
