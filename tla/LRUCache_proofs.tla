--------------------------- MODULE LRUCache_proofs ---------------------------
(***************************************************************************)
(* What mget, snapshot_keys and size promise, for any numbers of keys,     *)
(* clients and shards.  MgetInv keeps throughout within the lists and the  *)
(* maps within sometime; a key is reported on at a moment when it is in a  *)
(* map or in no list, so that the report is true of one moment of the      *)
(* call.  For a find a key that has expired is in none.  Copying and       *)
(* AddingInv say what is right of the shards visited.                      *)
(***************************************************************************)
EXTENDS LRUCache, FiniteSetTheorems, TLAPS

Labels == {"idle", "insert", "snapshot_keys", "size", "mget"}

\* The calls that observe the cache.
Observing(c) == pc[c] \notin {"idle", "insert"}

Typed ==
  /\ pc \in [Clients -> Labels]
  /\ ind \in [Clients -> Int]
  /\ throughout \in [Clients -> SUBSET InLists]
  /\ sometime = [c \in Clients |-> sometime[c]]
  /\ asked \in [Clients -> SUBSET Keys]
  /\ found \in [Clients -> SUBSET Keys]
  /\ not_find_keys \in [Clients -> SUBSET Keys]

Resting ==
  \A c \in Clients :
    /\ pc[c] \in {"idle", "mget"} => ind[c] = 0
    /\ ~ Observing(c) => throughout[c] = {}
    /\ pc[c] # "mget" => found[c] = {} /\ not_find_keys[c] = {}

Regular ==
  \A c \in Clients :
    /\ Observing(c) => Visible(InMaps, pc[c]) \subseteq sometime[c]
    /\ pc[c] = "mget" => throughout[c] \cap expired = {}
    /\ not_find_keys[c] \cap throughout[c] = {}
    /\ pc[c] = "mget" => found[c] \subseteq sometime[c]
    /\ found[c] \cap not_find_keys[c] = {}

MgetInv == Typed /\ Resting /\ Regular

\* Every key is in the shard where find looks for it, and an insert takes it
\* there.
Sharded ==
  /\ order \in [Shards -> Seq(Keys)]
  /\ moribund \in [Shards -> Keys \cup {NoKey}]
  /\ erased \in [Shards -> BOOLEAN]
  /\ expired \subseteq Keys
  /\ data_vec \in [Clients -> [Shards -> SUBSET Keys]]
  /\ \A i \in Shards : \A n \in 1 .. Len(order[i]) : ShardOf[order[i][n]] = i
  /\ \A c \in Clients, i \in Shards : \A k \in data_vec[c][i] : ShardOf[k] = i

-----------------------------------------------------------------------------
(* A step that changes the lists or maps tells the calls in progress; one  *)
(* that does not leaves what they have seen.                               *)

LEMMA ObservedStep ==
  ASSUME MgetInv, Observe, UNCHANGED <<pc, ind, mgetVars>>
  PROVE  MgetInv'
<1>1. Typed'
  BY DEF MgetInv, Typed, Observe, Visible, mgetVars
<1>2. Resting'
  BY DEF MgetInv, Typed, Resting, Observing, Observe, Visible, mgetVars
<1>3. Regular'
  BY DEF MgetInv, Typed, Resting, Regular, Observing, Observe, Visible, mgetVars
<1> QED BY <1>1, <1>2, <1>3 DEF MgetInv

LEMMA QuietStep ==
  ASSUME MgetInv, InLists' = InLists, InMaps' = InMaps,
         UNCHANGED <<expired, historyVars, mgetVars>>,
         pc' \in [Clients -> Labels],
         ind' \in [Clients -> Int],
         \A c \in Clients : pc'[c] = pc[c] \/ {pc[c], pc'[c]} = {"idle", "insert"},
         \A c \in Clients : pc'[c] \in {"idle", "mget"} => ind'[c] = 0
  PROVE  MgetInv'
<1>1. Typed'
  BY DEF MgetInv, Typed, historyVars, mgetVars
<1>2. \A c \in Clients : Observing(c)' <=> Observing(c)
  BY DEF Observing
<1>3. Resting'
  BY <1>2 DEF MgetInv, Resting, historyVars, mgetVars
<1>4. \A c \in Clients : Observing(c) => pc'[c] = pc[c]
  BY DEF Observing
<1>5. Regular'
  <2>1. \A c \in Clients : pc'[c] = "mget" <=> pc[c] = "mget"
    OBVIOUS
  <2> QED BY <1>2, <1>4, <2>1 DEF MgetInv, Regular, Visible, historyVars, mgetVars
<1> QED BY <1>1, <1>3, <1>5 DEF MgetInv

LEMMA SameCache ==
  ASSUME UNCHANGED cacheVars
  PROVE  InLists' = InLists /\ InMaps' = InMaps /\ expired' = expired
BY DEF cacheVars, InLists, InMaps, Listed, Dying

LEMMA InitInv == LRUInit => MgetInv
<1> SUFFICES ASSUME LRUInit PROVE MgetInv
  OBVIOUS
<1> USE DEF LRUInit, Init
<1>1. Typed
  <2>1. throughout \in [Clients -> SUBSET InLists]
    OBVIOUS
  <2>2. sometime = [c \in Clients |-> sometime[c]]
    OBVIOUS
  <2> QED BY <2>1, <2>2 DEF Typed, Labels
<1>2. Resting
  BY DEF Resting, Observing
<1>3. Regular
  BY DEF Regular, Observing
<1> QED BY <1>1, <1>2, <1>3 DEF MgetInv

-----------------------------------------------------------------------------
(* The steps of ScalableCache: those of insert, of the evictions, and of   *)
(* the calls that visit the shards.                                        *)

LEMMA InsertSteps ==
  ASSUME MgetInv, UNCHANGED mgetVars, NEW c \in Clients,
         \/ \E batch \in Batches : Insert(c, batch)
         \/ SetEntry(c) \/ CountEntry(c) \/ InsertNextShard(c)
  PROVE  MgetInv'
<1> USE DEF MgetInv, Typed
<1>1. CASE \E batch \in Batches : Insert(c, batch)
  <2>1. /\ pc[c] = "idle"
        /\ pc' = [pc EXCEPT ![c] = "insert"]
        /\ UNCHANGED <<cacheVars, ind, historyVars>>
    BY <1>1 DEF Insert
  <2>2. InLists' = InLists /\ InMaps' = InMaps /\ expired' = expired
    BY <2>1, SameCache
  <2>3. \A d \in Clients : pc'[d] = pc[d] \/ {pc[d], pc'[d]} = {"idle", "insert"}
    BY <2>1
  <2>4. \A d \in Clients : pc'[d] \in {"idle", "mget"} => ind'[d] = 0
    BY <2>1 DEF Resting
  <2>5. pc' \in [Clients -> Labels] /\ ind' \in [Clients -> Int]
    BY <2>1 DEF Labels
  <2> QED
    BY <2>1, <2>2, <2>3, <2>4, <2>5, QuietStep
<1>2. CASE SetEntry(c)
  BY <1>2, ObservedStep DEF SetEntry
<1>3. CASE CountEntry(c)
  BY <1>3, SameCache, QuietStep DEF CountEntry, Resting
<1>4. CASE InsertNextShard(c)
  BY <1>4, SameCache, QuietStep DEF InsertNextShard, Resting, Shards
<1> QED BY <1>1, <1>2, <1>3, <1>4

LEMMA EvictionSteps ==
  ASSUME MgetInv, Sharded, UNCHANGED mgetVars, NEW i \in Shards,
         Evict(i) \/ EraseMoribund(i) \/ UncountMoribund(i)
  PROVE  MgetInv'
<1>1. CASE Evict(i)
  BY <1>1, ObservedStep DEF Evict, callVars
<1>2. CASE EraseMoribund(i)
  BY <1>2, ObservedStep DEF EraseMoribund, callVars
<1>3. CASE UncountMoribund(i)
  <2>1. InLists' = InLists
    BY <1>3 DEF UncountMoribund, InLists, Listed
  <2>2. \A j \in Shards : Dying(j)' = Dying(j)
    BY <1>3 DEF UncountMoribund, Dying, Sharded
  <2>3. InMaps' = InMaps
    BY <2>1, <2>2 DEF InMaps
  <2> QED
    BY <1>3, <2>1, <2>3, QuietStep
       DEF UncountMoribund, callVars, MgetInv, Typed, Resting
<1> QED BY <1>1, <1>2, <1>3

LEMMA ExpiryStep ==
  ASSUME MgetInv, UNCHANGED mgetVars, NEW k \in Keys, Expire(k)
  PROVE  MgetInv'
BY ObservedStep DEF Expire, callVars

LEMMA VisitSteps ==
  ASSUME MgetInv, UNCHANGED mgetVars, NEW c \in Clients,
         SnapshotShard(c) \/ SizeShard(c)
  PROVE  MgetInv'
<1> USE DEF MgetInv, Typed, Resting, Shards
<1>1. CASE SnapshotShard(c)
  BY <1>1, SameCache, QuietStep DEF SnapshotShard
<1>2. CASE SizeShard(c)
  BY <1>2, SameCache, QuietStep DEF SizeShard
<1> QED BY <1>1, <1>2

\* A call begins: it has seen the cache as it is.
LEMMA BeginStep ==
  ASSUME MgetInv, NEW c \in Clients, NEW op \in Labels,
         op \notin {"idle", "insert"},
         Begin(c, op), UNCHANGED <<found, not_find_keys>>,
         asked' \in [Clients -> SUBSET Keys]
  PROVE  MgetInv'
<1> USE DEF Begin
<1>1. InLists' = InLists /\ InMaps' = InMaps /\ expired' = expired
  BY SameCache
<1>2. Typed'
  BY <1>1 DEF MgetInv, Typed, Visible
<1>3. Resting'
  BY DEF MgetInv, Typed, Resting, Observing
<1>4. Regular'
  BY <1>1 DEF MgetInv, Typed, Resting, Regular, Observing, Visible
<1> QED BY <1>2, <1>3, <1>4 DEF MgetInv

\* A call ends, and what it has seen is forgotten.
LEMMA EndStep ==
  ASSUME MgetInv, NEW c \in Clients, UNCHANGED cacheVars,
         pc' = [pc EXCEPT ![c] = "idle"],
         ind' = [ind EXCEPT ![c] = 0],
         throughout' = [throughout EXCEPT ![c] = {}],
         sometime' = [sometime EXCEPT ![c] = {}],
         asked' = [asked EXCEPT ![c] = {}],
         found' = [found EXCEPT ![c] = {}],
         not_find_keys' = [not_find_keys EXCEPT ![c] = {}]
  PROVE  MgetInv'
<1>1. InLists' = InLists /\ InMaps' = InMaps /\ expired' = expired
  BY SameCache
<1>2. Typed'
  <2>1. throughout' \in [Clients -> SUBSET InLists']
    BY <1>1 DEF MgetInv, Typed
  <2>2. pc' \in [Clients -> Labels] /\ ind' \in [Clients -> Int]
    BY DEF MgetInv, Typed, Labels
  <2>3. sometime' = [d \in Clients |-> sometime'[d]]
    BY DEF MgetInv, Typed
  <2>4. /\ asked' \in [Clients -> SUBSET Keys]
        /\ found' \in [Clients -> SUBSET Keys]
        /\ not_find_keys' \in [Clients -> SUBSET Keys]
    BY DEF MgetInv, Typed
  <2> QED BY <2>1, <2>2, <2>3, <2>4 DEF Typed
<1>3. Resting'
  BY DEF MgetInv, Typed, Resting, Observing
<1>4. Regular'
  BY <1>1 DEF MgetInv, Typed, Resting, Regular, Observing, Visible
<1> QED BY <1>2, <1>3, <1>4 DEF MgetInv

LEMMA ClearStep ==
  ASSUME MgetInv, Clear, UNCHANGED mgetVars
  PROVE  MgetInv'
<1>1. /\ \A c \in Clients : pc[c] = "idle"
      /\ UNCHANGED <<pc, ind, throughout, sometime, asked, found, not_find_keys>>
  BY DEF Clear, callVars, historyVars, mgetVars
<1>2. \A c \in Clients : throughout[c] = {}
  BY <1>1 DEF MgetInv, Resting, Observing
<1>3. Typed'
  BY <1>1, <1>2 DEF MgetInv, Typed
<1>4. Resting'
  BY <1>1 DEF MgetInv, Resting, Observing
<1>5. Regular'
  BY <1>1 DEF MgetInv, Regular, Observing
<1> QED BY <1>3, <1>4, <1>5 DEF MgetInv

LEMMA NextStep ==
  ASSUME MgetInv, Sharded, Next, UNCHANGED mgetVars
  PROVE  MgetInv'
<1>1. ASSUME NEW c \in Clients,
             \/ \E batch \in Batches : Insert(c, batch)
             \/ SetEntry(c) \/ CountEntry(c) \/ InsertNextShard(c)
      PROVE  MgetInv'
  BY <1>1, InsertSteps
<1>2. ASSUME NEW c \in Clients, NEW op \in {"snapshot_keys", "size"}, Begin(c, op)
      PROVE  MgetInv'
  BY <1>2, BeginStep DEF mgetVars, MgetInv, Typed, Labels
<1>3. ASSUME NEW c \in Clients, SnapshotShard(c) \/ SizeShard(c)
      PROVE  MgetInv'
  BY <1>3, VisitSteps
<1>4. ASSUME NEW c \in Clients, Return(c)
      PROVE  MgetInv'
  <2>1. m_num_shards # 0
    BY ShardAssumption
  <2>2. pc[c] # "mget"
    BY <1>4, <2>1 DEF Return, MgetInv, Resting
  <2>3. found[c] = {} /\ not_find_keys[c] = {}
    BY <2>2 DEF MgetInv, Resting
  <2>4. InLists' = InLists /\ InMaps' = InMaps /\ expired' = expired
    BY <1>4, SameCache DEF Return
  <2>5. Typed'
    <3>1. throughout' \in [Clients -> SUBSET InLists']
      BY <1>4, <2>4 DEF Return, MgetInv, Typed
    <3>2. pc' \in [Clients -> Labels] /\ ind' \in [Clients -> Int]
      BY <1>4 DEF Return, MgetInv, Typed, Labels
    <3>3. sometime' = [d \in Clients |-> sometime'[d]]
      BY <1>4 DEF Return, MgetInv, Typed
    <3> QED BY <3>1, <3>2, <3>3 DEF mgetVars, MgetInv, Typed
  <2>6. Resting'
    BY <1>4, <2>3 DEF Return, mgetVars, MgetInv, Typed, Resting, Observing
  <2>7. Regular'
    BY <1>4, <2>3, <2>4 DEF Return, mgetVars, MgetInv, Typed, Resting, Regular, Observing,
                                Visible
  <2> QED BY <2>5, <2>6, <2>7 DEF MgetInv
<1>5. ASSUME NEW i \in Shards, Evict(i) \/ EraseMoribund(i) \/ UncountMoribund(i)
      PROVE  MgetInv'
  BY <1>5, EvictionSteps
<1>6. CASE Clear
  BY <1>6, ClearStep
<1>7. ASSUME NEW k \in Keys, Expire(k) PROVE MgetInv'
  BY <1>7, ExpiryStep
<1> QED BY <1>1, <1>2, <1>3, <1>4, <1>5, <1>6, <1>7 DEF Next

-----------------------------------------------------------------------------
(* The steps of mget.                                                       *)

LEMMA mgetStep ==
  ASSUME MgetInv, NEW c \in Clients, mget(c)
  PROVE  MgetInv'
<1>1. asked' \in [Clients -> SUBSET Keys]
  BY ShardAssumption DEF mget, MgetInv, Typed
<1> QED BY <1>1, BeginStep DEF mget, Labels

LEMMA NextKeyStep ==
  ASSUME MgetInv, Sharded, NEW c \in Clients, NextKey(c)
  PROVE  MgetInv'
<1> USE DEF MgetInv
<1>1. PICK k \in asked[c] \ (found[c] \cup not_find_keys[c]) :
        IF find(k)
          THEN found' = [found EXCEPT ![c] = @ \cup {k}] /\ UNCHANGED not_find_keys
          ELSE /\ not_find_keys' = [not_find_keys EXCEPT ![c] = @ \cup {k}]
               /\ UNCHANGED found
  BY DEF NextKey
<1>2. pc[c] = "mget" /\ UNCHANGED <<vars, asked>>
  BY DEF NextKey
<1>3. UNCHANGED <<cacheVars, pc, ind, throughout, sometime, asked>>
  BY <1>2 DEF vars, cacheVars
<1>4. InLists' = InLists /\ InMaps' = InMaps /\ expired' = expired
  BY <1>3, SameCache
<1>5. k \in Keys
  BY DEF Typed
<1>6. get_shard_ind(k) \in Shards
  BY <1>5, ShardAssumption DEF get_shard_ind
<1>7. find(k) => k \in Visible(InMaps, "mget")
  BY <1>6 DEF find, InMaps, InLists, Visible
<1>8. k \in InLists \ expired => find(k)
  <2>1. SUFFICES ASSUME NEW j \in Shards, k \in Listed(j), k \notin expired PROVE find(k)
    BY DEF InLists
  <2>2. PICK n \in 1 .. Len(order[j]) : k = order[j][n]
    BY <2>1 DEF Listed, ToSet, Sharded
  <2>3. get_shard_ind(k) = j
    BY <2>2 DEF Sharded, get_shard_ind
  <2> QED BY <2>1, <2>3 DEF find
<1>9. Typed'
  BY <1>1, <1>3, <1>4, <1>5 DEF Typed
<1>10. Resting'
  BY <1>1, <1>2, <1>3 DEF Resting, Observing, Typed
<1>11. found' \in [Clients -> SUBSET Keys] /\ not_find_keys' \in [Clients -> SUBSET Keys]
  BY <1>9 DEF Typed
<1>12. Regular'
  <2> SUFFICES ASSUME NEW d \in Clients
               PROVE  /\ Observing(d)' => Visible(InMaps, pc[d])' \subseteq sometime'[d]
                      /\ pc'[d] = "mget" => throughout'[d] \cap expired' = {}
                      /\ not_find_keys'[d] \cap throughout'[d] = {}
                      /\ pc'[d] = "mget" => found'[d] \subseteq sometime'[d]
                      /\ found'[d] \cap not_find_keys'[d] = {}
    BY DEF Regular
  <2>1. /\ Observing(c) /\ Visible(InMaps, "mget") \subseteq sometime[c]
        /\ throughout[c] \subseteq InLists \ expired
    BY <1>2 DEF Observing, Regular, Typed
  <2>2. CASE find(k)
    BY <1>1, <1>2, <1>3, <1>4, <1>7, <2>1, <2>2 DEF Regular, Observing, Typed, Visible
  <2>3. CASE ~ find(k)
    BY <1>1, <1>2, <1>3, <1>4, <1>8, <2>1, <2>3 DEF Regular, Observing, Typed, Visible
  <2> QED BY <2>2, <2>3
<1> QED BY <1>9, <1>10, <1>12

LEMMA mgetReturnStep ==
  ASSUME MgetInv, NEW c \in Clients, mgetReturn(c)
  PROVE  MgetInv'
<1>1. UNCHANGED cacheVars /\ ind' = ind /\ pc[c] = "mget"
  BY DEF mgetReturn, Answered
<1>2. ind' = [ind EXCEPT ![c] = 0]
  BY <1>1 DEF MgetInv, Typed, Resting
<1> QED BY <1>1, <1>2, EndStep DEF mgetReturn

-----------------------------------------------------------------------------
(* Every key is in its own shard.                                           *)

LEMMA DelinkKeeps ==
  ASSUME NEW i \in Shards, NEW list \in Seq(Keys), NEW k \in Keys,
         \A n \in 1 .. Len(list) : ShardOf[list[n]] = i
  PROVE  /\ delink(list, k) \in Seq(Keys)
         /\ \A n \in 1 .. Len(delink(list, k)) : ShardOf[delink(list, k)[n]] = i
<1>1. CASE \E n \in 1 .. Len(list) : list[n] = k
  <2>1. PICK m \in 1 .. Len(list) : delink(list, k) = RemoveAt(list, m)
    BY <1>1 DEF delink
  <2> DEFINE before == SubSeq(list, 1, m - 1)
             after  == SubSeq(list, m + 1, Len(list))
  <2>2. /\ before \in Seq(Keys) /\ Len(before) = m - 1
        /\ \A n \in 1 .. Len(before) : before[n] = list[n]
    OBVIOUS
  <2>3. /\ after \in Seq(Keys) /\ Len(after) = Len(list) - m
        /\ \A n \in 1 .. Len(after) : after[n] = list[m + n]
    OBVIOUS
  <2>4. delink(list, k) = before \o after
    BY <2>1 DEF RemoveAt
  <2>5. /\ \A n \in 1 .. Len(before) : ShardOf[before[n]] = i
        /\ \A n \in 1 .. Len(after) : ShardOf[after[n]] = i
    BY <2>2, <2>3
  <2> HIDE DEF before, after
  <2> QED BY <2>2, <2>3, <2>4, <2>5
<1>2. CASE ~ \E n \in 1 .. Len(list) : list[n] = k
  BY <1>2 DEF delink
<1> QED BY <1>1, <1>2

LEMMA InitSharded == LRUInit => Sharded
BY ShardAssumption DEF LRUInit, Init, NoData, Sharded

LEMMA ShardedStep == Sharded /\ [LRUNext]_facadeVars => Sharded'
<1> SUFFICES ASSUME Sharded, [LRUNext]_facadeVars PROVE Sharded'
  OBVIOUS
<1> USE DEF Sharded
<1>1. ASSUME NEW c \in Clients, NEW batch \in Batches, Insert(c, batch)
      PROVE  Sharded'
  <2>1. /\ Split(batch) \in [Shards -> SUBSET Keys]
        /\ \A i \in Shards : \A k \in Split(batch)[i] : ShardOf[k] = i
    BY ShardAssumption DEF Split, get_shard_ind
  <2> QED BY <1>1, <2>1 DEF Insert, cacheVars
<1>2. ASSUME NEW c \in Clients, SetEntry(c)
      PROVE  Sharded'
  <2> DEFINE i == ind[c]
  <2>1. PICK k \in data_vec[c][i] :
          /\ data_vec' = [data_vec EXCEPT ![c][i] = @ \ {k}]
          /\ \/ order' = order
             \/ order' = [order EXCEPT ![i] = <<k>> \o delink(@, k)]
    BY <1>2 DEF SetEntry
  <2>2. i \in Shards /\ UNCHANGED <<moribund, erased>> /\ expired' \subseteq expired
    BY <1>2 DEF SetEntry
  <2>3. k \in Keys /\ ShardOf[k] = i
    BY <2>2
  <2>4. /\ delink(order[i], k) \in Seq(Keys)
        /\ \A n \in 1 .. Len(delink(order[i], k)) : ShardOf[delink(order[i], k)[n]] = i
    BY <2>2, <2>3, DelinkKeeps, SMTT(30)
  <2> DEFINE new == <<k>> \o delink(order[i], k)
  <2>5. new \in Seq(Keys) /\ \A n \in 1 .. Len(new) : ShardOf[new[n]] = i
    <3> DEFINE rest == delink(order[i], k)
    <3>1. rest \in Seq(Keys) /\ \A n \in 1 .. Len(rest) : ShardOf[rest[n]] = i
      BY <2>4
    <3> HIDE DEF rest
    <3>2. LET s == <<k>> \o rest IN
            /\ s \in Seq(Keys) /\ Len(s) = Len(rest) + 1
            /\ s[1] = k
            /\ \A n \in 2 .. Len(s) : n - 1 \in 1 .. Len(rest) /\ s[n] = rest[n - 1]
      BY <2>3, <3>1
    <3> QED BY <2>3, <3>1, <3>2 DEF rest
  <2>6. /\ data_vec' \in [Clients -> [Shards -> SUBSET Keys]]
        /\ \A d \in Clients, j \in Shards : data_vec'[d][j] \subseteq data_vec[d][j]
    BY <2>1, <2>2
  <2> HIDE DEF new
  <2>7. /\ order' \in [Shards -> Seq(Keys)]
        /\ \A j \in Shards : \A n \in 1 .. Len(order'[j]) : ShardOf[order'[j][n]] = j
    BY <2>1, <2>2, <2>5, ZenonT(40) DEF new
  <2> QED BY <2>2, <2>6, <2>7
<1>3. ASSUME NEW c \in Clients,
             \/ CountEntry(c) \/ InsertNextShard(c) \/ SnapshotShard(c) \/ SizeShard(c)
             \/ Return(c) \/ mgetReturn(c)
      PROVE  Sharded'
  BY <1>3 DEF CountEntry, InsertNextShard, SnapshotShard, SizeShard, Return, mgetReturn,
              cacheVars
<1>4. ASSUME NEW c \in Clients, NEW op, Begin(c, op)
      PROVE  Sharded'
  BY <1>4 DEF Begin, cacheVars
<1>5. ASSUME NEW j \in Shards, Evict(j)
      PROVE  Sharded'
  <2>1. /\ order[j] \in Seq(Keys) /\ order[j] # <<>>
        /\ moribund' = [moribund EXCEPT ![j] = Last(order[j])]
        /\ order' = [order EXCEPT ![j] = Front(order[j])]
        /\ UNCHANGED <<erased, expired, data_vec>>
    BY <1>5 DEF Evict, callVars
  <2>2. Last(order[j]) \in Keys
    BY <2>1 DEF Last
  <2> DEFINE front == Front(order[j])
  <2>3. /\ front \in Seq(Keys)
        /\ \A n \in 1 .. Len(front) : n \in 1 .. Len(order[j]) /\ front[n] = order[j][n]
    BY <2>1 DEF Front
  <2>4. \A n \in 1 .. Len(front) : ShardOf[front[n]] = j
    BY <2>3
  <2> HIDE DEF front
  <2>5. /\ order' \in [Shards -> Seq(Keys)]
        /\ \A i \in Shards : \A n \in 1 .. Len(order'[i]) : ShardOf[order'[i][n]] = i
    BY <2>1, <2>3, <2>4 DEF front
  <2>6. moribund' \in [Shards -> Keys \cup {NoKey}]
    BY <2>1, <2>2
  <2> QED BY <2>1, <2>5, <2>6
<1>6. ASSUME NEW j \in Shards, EraseMoribund(j) \/ UncountMoribund(j)
      PROVE  Sharded'
  <2>1. UNCHANGED <<order, data_vec>>
    BY <1>6 DEF EraseMoribund, UncountMoribund, callVars
  <2>2. CASE EraseMoribund(j)
    BY <2>1, <2>2 DEF EraseMoribund
  <2>3. CASE UncountMoribund(j)
    BY <2>1, <2>3 DEF UncountMoribund
  <2> QED BY <1>6, <2>2, <2>3
<1>7. CASE Clear
  BY <1>7 DEF Clear, callVars
<1>8. ASSUME NEW c \in Clients, NextKey(c)
      PROVE  Sharded'
  BY <1>8 DEF NextKey, vars
<1>9. CASE UNCHANGED facadeVars
  BY <1>9 DEF facadeVars, vars
<1>10. ASSUME NEW k \in Keys, Expire(k)
       PROVE  Sharded'
  BY <1>10 DEF Expire, callVars
<1> QED
  BY <1>1, <1>2, <1>3, <1>4, <1>5, <1>6, <1>7, <1>8, <1>9, <1>10 DEF LRUNext, Next, mget

-----------------------------------------------------------------------------
LEMMA LRUNextStep == MgetInv /\ Sharded /\ [LRUNext]_facadeVars => MgetInv'
<1> SUFFICES ASSUME MgetInv, Sharded, [LRUNext]_facadeVars PROVE MgetInv'
  OBVIOUS
<1>1. CASE Next /\ UNCHANGED mgetVars
  BY <1>1, NextStep
<1>2. ASSUME NEW c \in Clients, mget(c) PROVE MgetInv'
  BY <1>2, mgetStep
<1>3. ASSUME NEW c \in Clients, NextKey(c) PROVE MgetInv'
  BY <1>3, NextKeyStep
<1>4. ASSUME NEW c \in Clients, mgetReturn(c) PROVE MgetInv'
  BY <1>4, mgetReturnStep
<1>5. CASE UNCHANGED facadeVars
  <2>1. InLists' = InLists /\ InMaps' = InMaps /\ expired' = expired
    BY <1>5, SameCache DEF facadeVars, vars, cacheVars
  <2> QED
    BY <1>5, <2>1, QuietStep
       DEF facadeVars, vars, historyVars, mgetVars, MgetInv, Typed, Resting
<1> QED BY <1>1, <1>2, <1>3, <1>4, <1>5 DEF LRUNext

\* A key is only ever in the shard find looks for it in: insert, the batch
\* insert and find agree on get_shard_ind.
THEOREM KeysInTheirShards == LRUSpec => []Sharded
BY InitSharded, ShardedStep, PTL DEF LRUSpec

\* What mget has reported of the keys so far is true of moments of the call.
THEOREM MgetInvariance == LRUSpec => []MgetInv
BY InitInv, LRUNextStep, KeysInTheirShards, PTL DEF LRUSpec

\* mget reports as missing only what was out of the lists, or had expired, at
\* some time in the call, and as found only what was in the maps, and had not
\* expired, at some time in it.
THEOREM MgetIsRegular == LRUSpec => []MgetRegular
<1>1. MgetInv => MgetRegular
  BY DEF MgetInv, Regular, MgetRegular, Answered
<1> QED BY <1>1, MgetInvariance, PTL

-----------------------------------------------------------------------------
(* Snapshots.  A key that stayed in its list is copied with its shard, and *)
(* shards that have been visited are not visited again, so that a key      *)
(* inserted twice meanwhile is copied once.                                *)

NoKeyTwice(list) ==
  \A m, n \in 1 .. Len(list) : list[m] = list[n] => m = n

Distinct == \A i \in Shards : NoKeyTwice(order[i])

Copied(c) ==
  /\ NoKeyTwice(keys[c])
  /\ \A n \in 1 .. Len(keys[c]) :
       keys[c][n] \in sometime[c] /\ ShardOf[keys[c][n]] < ind[c]
  /\ \A k \in throughout[c] :
       ShardOf[k] < ind[c] => \E n \in 1 .. Len(keys[c]) : keys[c][n] = k

Copying ==
  /\ keys \in [Clients -> Seq(Keys)]
  /\ \A c \in Clients :
       IF pc[c] = "snapshot_keys" THEN Copied(c) ELSE keys[c] = <<>>

\* Every element of a concatenation is one of its parts'.
LEMMA Concatenation ==
  ASSUME NEW s \in Seq(Keys), NEW t \in Seq(Keys)
  PROVE  /\ s \o t \in Seq(Keys) /\ Len(s \o t) = Len(s) + Len(t)
         /\ \A n \in 1 .. Len(s) : (s \o t)[n] = s[n]
         /\ \A n \in 1 .. Len(t) : (s \o t)[Len(s) + n] = t[n]
         /\ \A n \in 1 .. Len(s \o t) :
              \/ n \in 1 .. Len(s) /\ (s \o t)[n] = s[n]
              \/ n - Len(s) \in 1 .. Len(t) /\ (s \o t)[n] = t[n - Len(s)]
OBVIOUS

LEMMA DelinkDistinct ==
  ASSUME NEW list \in Seq(Keys), NEW k \in Keys, NoKeyTwice(list)
  PROVE  /\ delink(list, k) \in Seq(Keys)
         /\ NoKeyTwice(delink(list, k))
         /\ \A n \in 1 .. Len(delink(list, k)) : delink(list, k)[n] # k
<1>1. CASE \E n \in 1 .. Len(list) : list[n] = k
  <2>1. PICK m \in 1 .. Len(list) : delink(list, k) = RemoveAt(list, m) /\ list[m] = k
    BY <1>1 DEF delink
  <2> DEFINE before == SubSeq(list, 1, m - 1)
             after  == SubSeq(list, m + 1, Len(list))
  <2>2. /\ before \in Seq(Keys) /\ Len(before) = m - 1
        /\ \A n \in 1 .. Len(before) : before[n] = list[n]
    OBVIOUS
  <2>3. /\ after \in Seq(Keys) /\ Len(after) = Len(list) - m
        /\ \A n \in 1 .. Len(after) : after[n] = list[m + n]
    OBVIOUS
  <2>4. delink(list, k) = before \o after
    BY <2>1 DEF RemoveAt
  <2> HIDE DEF before, after
  <2> DEFINE short == before \o after
  <2>5. /\ short \in Seq(Keys) /\ Len(short) = Len(before) + Len(after)
        /\ \A n \in 1 .. Len(before) : short[n] = before[n]
        /\ \A n \in 1 .. Len(after) : short[Len(before) + n] = after[n]
        /\ \A n \in 1 .. Len(short) :
             \/ n \in 1 .. Len(before) /\ short[n] = before[n]
             \/ n - Len(before) \in 1 .. Len(after) /\ short[n] = after[n - Len(before)]
    BY <2>2, <2>3, Concatenation
  <2> HIDE DEF short
  <2>6. \A n \in 1 .. Len(short) : \E p \in 1 .. Len(list) \ {m} :
          short[n] = list[p] /\ n = IF p < m THEN p ELSE p - 1
    <3> SUFFICES ASSUME NEW n \in 1 .. Len(short)
                 PROVE  \E p \in 1 .. Len(list) \ {m} :
                          short[n] = list[p] /\ n = IF p < m THEN p ELSE p - 1
      OBVIOUS
    <3>1. CASE n \in 1 .. Len(before) /\ short[n] = before[n]
      BY <2>2, <3>1
    <3>2. CASE n - Len(before) \in 1 .. Len(after) /\ short[n] = after[n - Len(before)]
      <4> DEFINE p == m + (n - Len(before))
      <4>1. short[n] = list[p]
        BY <2>3, <3>2
      <4>2. p = n + 1 /\ p \in 1 .. Len(list) /\ p > m
        BY <2>2, <2>3, <3>2
      <4> QED BY <4>1, <4>2
    <3> QED BY <2>5, <3>1, <3>2
  <2>7. NoKeyTwice(short)
    <3> SUFFICES ASSUME NEW n \in 1 .. Len(short), NEW q \in 1 .. Len(short),
                        short[n] = short[q]
                 PROVE  n = q
      BY DEF NoKeyTwice
    <3>1. PICK p \in 1 .. Len(list) \ {m} :
            short[n] = list[p] /\ n = IF p < m THEN p ELSE p - 1
      BY <2>6
    <3>2. PICK r \in 1 .. Len(list) \ {m} :
            short[q] = list[r] /\ q = IF r < m THEN r ELSE r - 1
      BY <2>6
    <3> QED BY <3>1, <3>2 DEF NoKeyTwice
  <2>8. \A n \in 1 .. Len(short) : short[n] # k
    BY <2>1, <2>6 DEF NoKeyTwice
  <2> QED BY <2>4, <2>5, <2>7, <2>8 DEF short
<1>2. CASE ~ \E n \in 1 .. Len(list) : list[n] = k
  BY <1>2 DEF delink
<1> QED BY <1>1, <1>2

LEMMA InitDistinct == LRUInit => Distinct
BY DEF LRUInit, Init, Distinct, NoKeyTwice

\* Only set_entry, remove_node and clear() change a list.
LEMMA ListSteps ==
  ASSUME Sharded, [LRUNext]_facadeVars
  PROVE  \/ order' = order
         \/ \E i \in Shards, k \in Keys :
              order' = [order EXCEPT ![i] = <<k>> \o delink(@, k)]
         \/ \E i \in Shards :
              order[i] # <<>> /\ order' = [order EXCEPT ![i] = Front(@)]
         \/ order' = [i \in Shards |-> <<>>]
<1>1. ASSUME NEW c \in Clients, SetEntry(c)
      PROVE  \/ order' = order
             \/ \E i \in Shards, k \in Keys :
                  order' = [order EXCEPT ![i] = <<k>> \o delink(@, k)]
  <2>1. ind[c] \in Shards
    BY <1>1 DEF SetEntry
  <2>2. data_vec[c][ind[c]] \subseteq Keys
    BY <2>1 DEF Sharded
  <2> QED BY <1>1, <2>1, <2>2 DEF SetEntry
<1>2. ASSUME NEW c \in Clients,
             \/ \E batch \in Batches : Insert(c, batch)
             \/ CountEntry(c) \/ InsertNextShard(c) \/ SnapshotShard(c) \/ SizeShard(c)
             \/ \E op \in {"snapshot_keys", "size"} : Begin(c, op)
             \/ Return(c) \/ mget(c) \/ NextKey(c) \/ mgetReturn(c)
      PROVE  order' = order
  BY <1>2 DEF Insert, CountEntry, InsertNextShard, SnapshotShard, SizeShard, Begin, Return,
              mget, NextKey, mgetReturn, cacheVars, vars
<1>3. ASSUME NEW i \in Shards, Evict(i) \/ EraseMoribund(i) \/ UncountMoribund(i)
      PROVE  \/ order' = order
             \/ order[i] # <<>> /\ order' = [order EXCEPT ![i] = Front(@)]
  BY <1>3 DEF Evict, EraseMoribund, UncountMoribund
<1>4. CASE Clear
  BY <1>4 DEF Clear
<1>5. CASE UNCHANGED facadeVars
  BY <1>5 DEF facadeVars, vars
<1>6. ASSUME NEW k \in Keys, Expire(k)
      PROVE  order' = order
  BY <1>6 DEF Expire
<1> QED BY <1>1, <1>2, <1>3, <1>4, <1>5, <1>6 DEF LRUNext, Next

LEMMA DistinctStep == Sharded /\ Distinct /\ [LRUNext]_facadeVars => Distinct'
<1> SUFFICES ASSUME Sharded, Distinct, [LRUNext]_facadeVars,
                    NEW j \in Shards
             PROVE  NoKeyTwice(order'[j])
  BY DEF Distinct, NoKeyTwice
<1>1. order[j] \in Seq(Keys) /\ NoKeyTwice(order[j])
  BY DEF Sharded, Distinct
<1>2. CASE order' = order
  BY <1>1, <1>2
<1>3. ASSUME NEW i \in Shards, NEW k \in Keys,
             order' = [order EXCEPT ![i] = <<k>> \o delink(@, k)]
      PROVE  NoKeyTwice(order'[j])
  <2> DEFINE rest == delink(order[j], k)
  <2>1. /\ rest \in Seq(Keys) /\ NoKeyTwice(rest)
        /\ \A n \in 1 .. Len(rest) : rest[n] # k
    BY <1>1, DelinkDistinct
  <2> HIDE DEF rest
  <2>2. LET s == <<k>> \o rest IN
          /\ Len(s) = Len(rest) + 1 /\ s[1] = k
          /\ \A n \in 2 .. Len(s) : n - 1 \in 1 .. Len(rest) /\ s[n] = rest[n - 1]
    BY <2>1
  <2>3. NoKeyTwice(<<k>> \o rest)
    BY <2>1, <2>2 DEF NoKeyTwice
  <2>4. order'[j] = order[j] \/ order'[j] = <<k>> \o rest
    BY <1>3 DEF Sharded, rest
  <2> QED BY <1>1, <2>3, <2>4
<1>4. ASSUME NEW i \in Shards, order[i] # <<>>, order' = [order EXCEPT ![i] = Front(@)]
      PROVE  NoKeyTwice(order'[j])
  <2>1. order[j] # <<>> => NoKeyTwice(Front(order[j]))
    BY <1>1 DEF Front, NoKeyTwice
  <2>2. order'[j] = order[j] \/ (order[j] # <<>> /\ order'[j] = Front(order[j]))
    BY <1>4 DEF Sharded
  <2> QED BY <1>1, <2>1, <2>2
<1>5. CASE order' = [i \in Shards |-> <<>>]
  BY <1>5 DEF NoKeyTwice
<1> QED BY <1>2, <1>3, <1>4, <1>5, ListSteps

LEMMA InitCopying == LRUInit => Copying
BY DEF LRUInit, Init, Copying

\* The copies stay right while the cache changes and other calls go on.
LEMMA CopiesKept ==
  ASSUME Copying, keys' = keys,
         \A c \in Clients : (pc'[c] = "snapshot_keys") <=> (pc[c] = "snapshot_keys"),
         \A c \in Clients : pc[c] = "snapshot_keys" =>
           /\ ind'[c] = ind[c]
           /\ throughout'[c] \subseteq throughout[c]
           /\ sometime[c] \subseteq sometime'[c]
  PROVE  Copying'
BY DEF Copying, Copied, NoKeyTwice

LEMMA SnapshotShardCopies ==
  ASSUME MgetInv, Sharded, Distinct, Copying, NEW c \in Clients, SnapshotShard(c)
  PROVE  keys'[c] \in Seq(Keys) /\ Copied(c)'
<1> DEFINE i    == ind[c]
           old  == keys[c]
           more == order[i]
<1>1. /\ pc[c] = "snapshot_keys" /\ i \in Shards /\ i \in Nat
      /\ keys'[c] = old \o more /\ ind'[c] = i + 1
      /\ throughout' = throughout /\ sometime' = sometime
  BY ShardAssumption, SMTT(30) DEF SnapshotShard, historyVars, MgetInv, Typed, Copying, Shards
<1>2. /\ old \in Seq(Keys) /\ NoKeyTwice(old)
      /\ \A n \in 1 .. Len(old) : old[n] \in sometime[c] /\ ShardOf[old[n]] < i
      /\ \A k \in throughout[c] :
           ShardOf[k] < i => \E n \in 1 .. Len(old) : old[n] = k
  BY <1>1 DEF Copying, Copied
<1>3. /\ more \in Seq(Keys) /\ NoKeyTwice(more)
      /\ \A n \in 1 .. Len(more) : more[n] \in InMaps /\ ShardOf[more[n]] = i
  BY <1>1 DEF Sharded, Distinct, InMaps, InLists, Listed, ToSet
<1>4. InMaps \subseteq sometime[c]
  BY <1>1 DEF MgetInv, Regular, Observing, Visible
<1>5. \A k \in throughout[c] :
        ShardOf[k] = i => \E n \in 1 .. Len(more) : more[n] = k
  <2> SUFFICES ASSUME NEW k \in throughout[c], ShardOf[k] = i
               PROVE  \E n \in 1 .. Len(more) : more[n] = k
    OBVIOUS
  <2>1. k \in InLists
    BY DEF MgetInv, Typed
  <2>2. PICK j \in Shards : k \in Listed(j)
    BY <2>1 DEF InLists
  <2>3. PICK n \in 1 .. Len(order[j]) : k = order[j][n]
    BY <2>2 DEF Listed, ToSet, Sharded
  <2>4. j = i
    BY <2>3 DEF Sharded
  <2> QED BY <2>3, <2>4
<1>6. \A k \in throughout[c] : ShardOf[k] \in Int
  <2> SUFFICES ASSUME NEW k \in throughout[c] PROVE ShardOf[k] \in Int
    OBVIOUS
  <2>1. PICK j \in Shards : k \in Listed(j)
    BY DEF MgetInv, Typed, InLists
  <2>2. ShardOf[k] = j
    <3>1. PICK n \in 1 .. Len(order[j]) : k = order[j][n]
      BY <2>1 DEF Listed, ToSet, Sharded
    <3> QED BY <3>1 DEF Sharded
  <2> QED BY <2>2, ShardAssumption DEF Shards
<1>7. \A n \in 1 .. Len(old) : ShardOf[old[n]] \in Int
  BY <1>2, ShardAssumption DEF Shards
<1> HIDE DEF i, old, more
<1> DEFINE all == old \o more
<1>8. /\ all \in Seq(Keys) /\ Len(all) = Len(old) + Len(more)
      /\ \A n \in 1 .. Len(old) : all[n] = old[n]
      /\ \A n \in 1 .. Len(more) : all[Len(old) + n] = more[n]
      /\ \A n \in 1 .. Len(all) :
           \/ n \in 1 .. Len(old) /\ all[n] = old[n]
           \/ n - Len(old) \in 1 .. Len(more) /\ all[n] = more[n - Len(old)]
  BY <1>2, <1>3, Concatenation
<1> HIDE DEF all
<1>9. NoKeyTwice(all)
  <2> SUFFICES ASSUME NEW m \in 1 .. Len(all), NEW n \in 1 .. Len(all), all[m] = all[n]
               PROVE  m = n
    BY DEF NoKeyTwice
  <2>1. Len(old) \in Nat /\ Len(more) \in Nat
    BY <1>2, <1>3
  <2>2. CASE /\ m \in 1 .. Len(old) /\ all[m] = old[m]
             /\ n \in 1 .. Len(old) /\ all[n] = old[n]
    BY <1>2, <2>2 DEF NoKeyTwice
  <2>3. CASE /\ m \in 1 .. Len(old) /\ all[m] = old[m]
             /\ n - Len(old) \in 1 .. Len(more) /\ all[n] = more[n - Len(old)]
    <3>1. ShardOf[all[m]] < i /\ ShardOf[all[n]] = i
      BY <1>2, <1>3, <2>3
    <3> QED BY <1>1, <3>1
  <2>4. CASE /\ n \in 1 .. Len(old) /\ all[n] = old[n]
             /\ m - Len(old) \in 1 .. Len(more) /\ all[m] = more[m - Len(old)]
    <3>1. ShardOf[all[n]] < i /\ ShardOf[all[m]] = i
      BY <1>2, <1>3, <2>4
    <3> QED BY <1>1, <3>1
  <2>5. CASE /\ m - Len(old) \in 1 .. Len(more) /\ all[m] = more[m - Len(old)]
             /\ n - Len(old) \in 1 .. Len(more) /\ all[n] = more[n - Len(old)]
    <3>1. m - Len(old) = n - Len(old)
      BY <1>3, <2>5 DEF NoKeyTwice
    <3> QED BY <2>1, <3>1
  <2> QED BY <1>8, <2>2, <2>3, <2>4, <2>5
<1>10. \A n \in 1 .. Len(all) : all[n] \in sometime[c] /\ ShardOf[all[n]] < i + 1
  <2> SUFFICES ASSUME NEW n \in 1 .. Len(all)
               PROVE  all[n] \in sometime[c] /\ ShardOf[all[n]] < i + 1
    OBVIOUS
  <2>1. CASE n \in 1 .. Len(old) /\ all[n] = old[n]
    <3>1. old[n] \in sometime[c] /\ ShardOf[old[n]] < i /\ ShardOf[old[n]] \in Int
      BY <1>2, <1>7, <2>1
    <3> QED BY <1>1, <2>1, <3>1
  <2>2. CASE n - Len(old) \in 1 .. Len(more) /\ all[n] = more[n - Len(old)]
    <3>1. all[n] \in InMaps /\ ShardOf[all[n]] = i
      BY <1>3, <2>2
    <3> QED BY <1>1, <1>4, <3>1
  <2> QED BY <1>8, <2>1, <2>2
<1>11. ASSUME NEW k \in throughout[c], ShardOf[k] < i + 1
       PROVE  \E n \in 1 .. Len(all) : all[n] = k
  <2>1. CASE ShardOf[k] < i
    BY <1>2, <1>8, <2>1
  <2>2. CASE ShardOf[k] = i
    <3>1. PICK n \in 1 .. Len(more) : more[n] = k
      BY <1>5, <2>2
    <3>2. Len(old) \in Nat /\ Len(more) \in Nat
      BY <1>2, <1>3
    <3>3. Len(old) + n \in 1 .. Len(all) /\ all[Len(old) + n] = k
      BY <1>8, <3>1, <3>2
    <3> QED BY <3>3
  <2> QED BY <1>1, <1>6, <1>11, <2>1, <2>2
<1> QED BY <1>1, <1>8, <1>9, <1>10, <1>11 DEF all, Copied

LEMMA CopyingStep ==
  MgetInv /\ Sharded /\ Distinct /\ Copying /\ [LRUNext]_facadeVars => Copying'
<1> SUFFICES ASSUME MgetInv, Sharded, Distinct, Copying, [LRUNext]_facadeVars
             PROVE  Copying'
  OBVIOUS
<1>1. pc \in [Clients -> Labels] /\ ind \in [Clients -> Int]
  BY DEF MgetInv, Typed
<1>2. ASSUME Observe, UNCHANGED <<keys, pc, ind>>
      PROVE  Copying'
  BY <1>2, CopiesKept DEF Observe
<1>3. ASSUME NEW c \in Clients,
             \/ SetEntry(c) \/ CountEntry(c) \/ InsertNextShard(c) \/ SizeShard(c)
             \/ \E batch \in Batches : Insert(c, batch)
      PROVE  Copying'
  <2>1. CASE SetEntry(c)
    BY <1>2, <2>1 DEF SetEntry
  <2>2. CASE CountEntry(c)
    BY <2>2, CopiesKept DEF CountEntry, historyVars
  <2>3. CASE InsertNextShard(c)
    BY <1>1, <2>3, CopiesKept DEF InsertNextShard, historyVars
  <2>4. CASE SizeShard(c)
    BY <1>1, <2>4, CopiesKept DEF SizeShard, historyVars
  <2>5. CASE \E batch \in Batches : Insert(c, batch)
    BY <1>1, <2>5, CopiesKept DEF Insert, historyVars
  <2> QED BY <1>3, <2>1, <2>2, <2>3, <2>4, <2>5
<1>4. ASSUME NEW i \in Shards, Evict(i) \/ EraseMoribund(i) \/ UncountMoribund(i)
      PROVE  Copying'
  <2>1. CASE Evict(i)
    BY <1>2, <2>1 DEF Evict, callVars
  <2>2. CASE EraseMoribund(i)
    BY <1>2, <2>2 DEF EraseMoribund, callVars
  <2>3. CASE UncountMoribund(i)
    BY <2>3, CopiesKept DEF UncountMoribund, callVars, historyVars
  <2> QED BY <1>4, <2>1, <2>2, <2>3
<1>5. CASE Clear
  BY <1>5, CopiesKept DEF Clear, callVars, historyVars
<1>6. ASSUME NEW c \in Clients, NEW op \in {"size", "mget"}, Begin(c, op)
      PROVE  Copying'
  <2>1. \A d \in Clients : (pc'[d] = "snapshot_keys") <=> (pc[d] = "snapshot_keys")
    BY <1>1, <1>6 DEF Begin
  <2>2. \A d \in Clients : pc[d] = "snapshot_keys" =>
          throughout'[d] = throughout[d] /\ sometime'[d] = sometime[d]
    BY <1>6 DEF Begin, MgetInv, Typed
  <2> QED BY <1>6, <2>1, <2>2, CopiesKept DEF Begin
<1>7. ASSUME NEW c \in Clients, Begin(c, "snapshot_keys")
      PROVE  Copying'
  <2>1. /\ keys' = keys /\ keys[c] = <<>> /\ ind' = ind /\ ind[c] = 0
        /\ throughout'[c] = InLists
    BY <1>7 DEF Begin, Visible, MgetInv, Typed, Resting, Copying
  <2>2. \A k \in InLists : ~ (ShardOf[k] < 0)
    BY ShardAssumption DEF InLists, Listed, ToSet, Sharded, Shards
  <2>3. Copied(c)'
    BY <2>1, <2>2 DEF Copied, NoKeyTwice
  <2>4. ASSUME NEW d \in Clients, d # c
        PROVE  IF pc'[d] = "snapshot_keys" THEN Copied(d)' ELSE keys'[d] = <<>>
    <3>1. /\ pc'[d] = pc[d] /\ ind'[d] = ind[d] /\ keys'[d] = keys[d]
          /\ throughout'[d] = throughout[d] /\ sometime'[d] = sometime[d]
      BY <1>1, <1>7, <2>1, <2>4 DEF Begin, MgetInv, Typed
    <3>2. Copied(d)' <=> Copied(d)
      BY <3>1 DEF Copied, NoKeyTwice
    <3> QED BY <3>1, <3>2 DEF Copying
  <2> QED BY <1>1, <1>7, <2>1, <2>3, <2>4 DEF Begin, Copying
<1>8. ASSUME NEW c \in Clients, Return(c) \/ mgetReturn(c)
      PROVE  Copying'
  <2>1. /\ keys' \in [Clients -> Seq(Keys)] /\ keys'[c] = <<>> /\ pc'[c] = "idle"
    <3>1. CASE Return(c)
      BY <1>1, <3>1 DEF Return, Copying
    <3>2. CASE mgetReturn(c)
      BY <1>1, <3>2 DEF mgetReturn, Answered, Copying
    <3> QED BY <1>8, <3>1, <3>2
  <2>2. ASSUME NEW d \in Clients, d # c
        PROVE  IF pc'[d] = "snapshot_keys" THEN Copied(d)' ELSE keys'[d] = <<>>
    <3>1. /\ pc'[d] = pc[d] /\ ind'[d] = ind[d] /\ keys'[d] = keys[d]
          /\ throughout'[d] = throughout[d] /\ sometime'[d] = sometime[d]
      BY <1>1, <1>8, <2>2 DEF Return, mgetReturn, MgetInv, Typed, Copying
    <3>2. Copied(d)' <=> Copied(d)
      BY <3>1 DEF Copied, NoKeyTwice
    <3> QED BY <3>1, <3>2 DEF Copying
  <2> QED BY <2>1, <2>2 DEF Copying
<1>9. ASSUME NEW c \in Clients, SnapshotShard(c)
      PROVE  Copying'
  <2>1. keys'[c] \in Seq(Keys) /\ Copied(c)'
    BY <1>9, SnapshotShardCopies
  <2>2. /\ pc' = pc /\ pc[c] = "snapshot_keys" /\ UNCHANGED <<throughout, sometime>>
        /\ \A d \in Clients : d # c => keys'[d] = keys[d] /\ ind'[d] = ind[d]
    BY <1>1, <1>9 DEF SnapshotShard, historyVars, Copying
  <2>3. keys' = [d \in Clients |-> keys'[d]]
    BY <1>9 DEF SnapshotShard, Copying
  <2>4. \A d \in Clients : keys'[d] \in Seq(Keys)
    BY <2>1, <2>2 DEF Copying
  <2>5. ASSUME NEW d \in Clients, d # c
        PROVE  IF pc'[d] = "snapshot_keys" THEN Copied(d)' ELSE keys'[d] = <<>>
    <3>1. /\ pc'[d] = pc[d] /\ ind'[d] = ind[d] /\ keys'[d] = keys[d]
          /\ throughout'[d] = throughout[d] /\ sometime'[d] = sometime[d]
      BY <2>2, <2>5
    <3>2. Copied(d)' <=> Copied(d)
      BY <3>1 DEF Copied, NoKeyTwice
    <3> QED BY <3>1, <3>2 DEF Copying
  <2>6. keys' \in [Clients -> Seq(Keys)]
    BY <2>3, <2>4
  <2> QED BY <2>1, <2>2, <2>5, <2>6 DEF Copying
<1>10. ASSUME NEW c \in Clients, NextKey(c)
       PROVE  Copying'
  BY <1>10, CopiesKept DEF NextKey, vars
<1>11. CASE UNCHANGED facadeVars
  BY <1>11, CopiesKept DEF facadeVars, vars
<1>12. ASSUME NEW k \in Keys, Expire(k)
       PROVE  Copying'
  BY <1>2, <1>12 DEF Expire, callVars
<1> QED
  BY <1>3, <1>4, <1>5, <1>6, <1>7, <1>8, <1>9, <1>10, <1>11, <1>12 DEF LRUNext, Next, mget

\* snapshot_keys visits one shard after the other while the cache changes:
\* it returns every key that stayed in the lists, only keys that were there
\* at some time in the call, and no key twice.
THEOREM SnapshotIsRegular == LRUSpec => []SnapshotRegular
<1>1. MgetInv /\ Sharded /\ Copying => SnapshotRegular
  <2> SUFFICES ASSUME MgetInv, Sharded, Copying,
                      NEW c \in Clients, Finishing(c, "snapshot_keys")
               PROVE  /\ throughout[c] \subseteq ToSet(keys[c])
                      /\ ToSet(keys[c]) \subseteq sometime[c]
                      /\ IsInjective(keys[c])
    BY DEF SnapshotRegular
  <2>1. keys[c] \in Seq(Keys) /\ Copied(c) /\ ind[c] = m_num_shards
    BY DEF Copying, Finishing
  <2>2. \A k \in throughout[c] : ShardOf[k] < m_num_shards
    BY ShardAssumption DEF MgetInv, Typed, InLists, Listed, ToSet, Sharded, Shards
  <2> QED BY <2>1, <2>2 DEF Copied, NoKeyTwice, ToSet, IsInjective
<1>2. LRUSpec => []Distinct
  BY InitDistinct, DistinctStep, KeysInTheirShards, PTL DEF LRUSpec
<1>3. LRUSpec => []Copying
  BY <1>2, InitCopying, CopyingStep, KeysInTheirShards, MgetInvariance, PTL DEF LRUSpec
<1> QED BY <1>1, <1>3, KeysInTheirShards, MgetInvariance, PTL

-----------------------------------------------------------------------------
(* The key that was moved to the front last is at the front of its list,   *)
(* and a list of one node is not longer than its shard may be: this node   *)
(* is evicted only when it has expired, and then the key is not latest.    *)

LatestInFront ==
  latest # NoKey =>
    /\ latest \in Keys \ expired
    /\ order[ShardOf[latest]] # <<>>
    /\ order[ShardOf[latest]][1] = latest

LEMMA InitLatest == LRUInit => LatestInFront
BY DEF LRUInit, Init, LatestInFront

LEMMA RoomForOne ==
  ASSUME m_max_size >= m_num_shards, IsFiniteSet(Clients), Sharded,
         NEW i \in Shards, Evict(i), Last(order[i]) \notin expired
  PROVE  Len(order[i]) > 1
<1>1. m_max_size \div m_num_shards >= 1 /\ m_max_size % m_num_shards >= 0
  BY ShardAssumption
<1>2. shard_max_size(i) >= 1
  BY <1>1, ShardAssumption DEF shard_max_size
<1> DEFINE inserting == {c \in Clients : counting[c] # NoKey /\ get_shard_ind(counting[c]) = i}
<1>3. Cardinality(inserting) \in Nat
  BY FS_Subset, FS_CardinalityType
<1> HIDE DEF inserting
<1>4. Len(order[i]) \in Nat
  BY DEF Sharded
<1>5. Len(order[i]) + 0 - Cardinality(inserting) > shard_max_size(i)
  BY DEF Evict, m_size, inserting
<1>6. shard_max_size(i) \in Int
  BY ShardAssumption DEF shard_max_size
<1> QED BY <1>2, <1>3, <1>4, <1>5, <1>6

LEMMA LatestStep ==
  ASSUME m_max_size >= m_num_shards, IsFiniteSet(Clients),
         Sharded, LatestInFront, [LRUNext]_facadeVars
  PROVE  LatestInFront'
<1>1. ASSUME NEW c \in Clients, SetEntry(c)
      PROVE  LatestInFront'
  <2> DEFINE i == ind[c]
  <2>1. PICK k \in data_vec[c][i] :
          \/ UNCHANGED <<order, expired, latest>>
          \/ /\ order' = [order EXCEPT ![i] = <<k>> \o delink(@, k)]
             /\ expired' = expired \ {k}
             /\ latest' = k
    BY <1>1 DEF SetEntry
  <2>2. i \in Shards /\ k \in Keys /\ ShardOf[k] = i
    BY <1>1 DEF SetEntry, Sharded
  <2>3. CASE UNCHANGED <<order, expired, latest>>
    BY <2>3 DEF LatestInFront
  <2>4. CASE /\ order' = [order EXCEPT ![i] = <<k>> \o delink(@, k)]
             /\ expired' = expired \ {k}
             /\ latest' = k
    <3> DEFINE rest == delink(order[i], k)
    <3>1. rest \in Seq(Keys)
      BY <2>2, DelinkKeeps DEF Sharded
    <3> HIDE DEF rest
    <3>2. (<<k>> \o rest)[1] = k /\ <<k>> \o rest # <<>>
      BY <2>2, <3>1
    <3>3. order'[i] = <<k>> \o rest
      BY <2>2, <2>4 DEF rest, Sharded
    <3> QED BY <2>2, <2>4, <3>2, <3>3 DEF LatestInFront
  <2> QED BY <2>1, <2>3, <2>4
<1>2. ASSUME NEW i \in Shards, Evict(i)
      PROVE  LatestInFront'
  <2> SUFFICES ASSUME latest # NoKey, ShardOf[latest] = i
               PROVE  LatestInFront'
    BY <1>2 DEF Evict, LatestInFront, Sharded
  <2>1. Len(order[i]) > 1 /\ order[i] \in Seq(Keys)
    <3>1. order[i] \in Seq(Keys) /\ order[i] # <<>> /\ Len(order[i]) \in Nat
      BY DEF Sharded, LatestInFront
    <3>2. CASE Last(order[i]) \notin expired
      BY <1>2, <3>1, <3>2, RoomForOne
    <3>3. CASE Last(order[i]) \in expired
      <4>1. Last(order[i]) # order[i][1]
        BY <3>3 DEF LatestInFront
      <4> QED BY <3>1, <4>1 DEF Last
    <3> QED BY <3>2, <3>3
  <2>2. Front(order[i]) # <<>> /\ Front(order[i])[1] = order[i][1]
    <3> DEFINE n == Len(order[i]) - 1
    <3>1. n \in Nat /\ n >= 1 /\ n < Len(order[i])
      BY <2>1
    <3>2. Len(SubSeq(order[i], 1, n)) = n /\ SubSeq(order[i], 1, n)[1] = order[i][1]
      BY <2>1, <3>1
    <3>3. Front(order[i]) = SubSeq(order[i], 1, n)
      BY DEF Front
    <3> HIDE DEF n
    <3>4. Len(Front(order[i])) # 0 /\ Front(order[i])[1] = order[i][1]
      BY <3>1, <3>2, <3>3
    <3>5. Front(order[i]) # <<>>
      <4>1. Len(<<>>) = 0
        OBVIOUS
      <4> QED BY <3>4, <4>1
    <3> QED BY <3>4, <3>5
  <2>3. /\ latest' = latest /\ expired' = expired
        /\ \A j \in Shards : order'[j] = IF j = i THEN Front(order[i]) ELSE order[j]
    BY <1>2 DEF Evict, Sharded
  <2> QED BY <2>2, <2>3, ShardAssumption DEF LatestInFront
<1>3. CASE Clear
  BY <1>3 DEF Clear, LatestInFront
<1>4. ASSUME UNCHANGED <<order, latest>>, expired' \subseteq expired
      PROVE  LatestInFront'
  BY <1>4 DEF LatestInFront
<1>5. ASSUME NEW i \in Shards, EraseMoribund(i) \/ UncountMoribund(i)
      PROVE  LatestInFront'
  BY <1>4, <1>5 DEF EraseMoribund, UncountMoribund
<1>6. ASSUME NEW c \in Clients,
             \/ \E batch \in Batches : Insert(c, batch)
             \/ CountEntry(c) \/ InsertNextShard(c) \/ SnapshotShard(c) \/ SizeShard(c)
             \/ \E op \in {"snapshot_keys", "size"} : Begin(c, op)
             \/ Return(c) \/ mget(c) \/ NextKey(c) \/ mgetReturn(c)
      PROVE  LatestInFront'
  BY <1>4, <1>6 DEF Insert, CountEntry, InsertNextShard, SnapshotShard, SizeShard, Begin,
                    Return, mget, NextKey, mgetReturn, cacheVars, vars
<1>7. CASE UNCHANGED facadeVars
  BY <1>4, <1>7 DEF facadeVars, vars
<1>8. ASSUME NEW k \in Keys, Expire(k)
      PROVE  LatestInFront'
  BY <1>8 DEF Expire, LatestInFront
<1> QED BY <1>1, <1>2, <1>3, <1>5, <1>6, <1>7, <1>8 DEF LRUNext, Next

\* When every shard has room for one element at least, no eviction takes the
\* key that was moved to the front last before it expires, with a timeout or
\* without, whatever else expires and is evicted.
THEOREM LatestIsKept ==
  ASSUME m_max_size >= m_num_shards, IsFiniteSet(Clients)
  PROVE  LRUSpec => []LatestStays
<1>1. Sharded /\ LatestInFront => LatestStays
  BY ShardAssumption DEF Sharded, LatestInFront, LatestStays, InLists, Listed, ToSet
<1>2. Sharded /\ LatestInFront /\ [LRUNext]_facadeVars => LatestInFront'
  BY LatestStep
<1> QED BY <1>1, <1>2, InitLatest, KeysInTheirShards, PTL DEF LRUSpec

-----------------------------------------------------------------------------
(* The size of a shard.  What m_size counts too few are the keys that are  *)
(* being inserted, each by a client of its own, and all of them are listed *)
(* or dying.                                                               *)

CountingInv ==
  /\ counting \in [Clients -> Keys \cup {NoKey}]
  /\ \A c \in Clients : counting[c] # NoKey =>
       /\ pc[c] = "insert" /\ ind[c] # m_num_shards
       /\ LET i == ShardOf[counting[c]] IN counting[c] \in Listed(i) \cup Dying(i)
  /\ \A c, d \in Clients : counting[c] # NoKey /\ counting[c] = counting[d] => c = d
  /\ \A i \in Shards : erased[i] => moribund[i] # NoKey
  /\ \A i \in Shards : moribund[i] # NoKey => ShardOf[moribund[i]] = i

\* The clients that have not counted one of the keys yet.
Uncounted(ks) == {c \in Clients : counting[c] \in ks}

LEMMA ListedFacts ==
  ASSUME Sharded, NEW i \in Shards
  PROVE  /\ Listed(i) \subseteq {k \in Keys : ShardOf[k] = i}
         /\ \A n \in 1 .. Len(order[i]) : order[i][n] \in Listed(i)
         /\ \A k \in Listed(i) : \E n \in 1 .. Len(order[i]) : order[i][n] = k
         /\ IsFiniteSet(Listed(i))
         /\ Distinct => Cardinality(Listed(i)) = Len(order[i])
         /\ Len(order[i]) \in Nat
<1> DEFINE list == order[i]
<1>1. list \in Seq(Keys) /\ \A n \in 1 .. Len(list) : ShardOf[list[n]] = i
  BY DEF Sharded
<1>2. Len(list) \in Nat /\ list \in [1 .. Len(list) -> Keys]
  BY <1>1
<1>3. Listed(i) = {list[n] : n \in 1 .. Len(list)}
  BY <1>1 DEF Listed, ToSet
<1> HIDE DEF list
<1>4. IsFiniteSet(1 .. Len(list)) /\ Cardinality(1 .. Len(list)) = Len(list)
  BY <1>2, FS_Interval, SMTT(30)
<1>5. list \in Surjection(1 .. Len(list), Listed(i))
  BY <1>2, <1>3 DEF Surjection
<1>6. IsFiniteSet(Listed(i))
  BY <1>4, <1>5, FS_Surjection
<1>7. Distinct => Cardinality(Listed(i)) = Len(list)
  <2> SUFFICES ASSUME Distinct PROVE Cardinality(Listed(i)) = Len(list)
    OBVIOUS
  <2>1. list \in Injection(1 .. Len(list), Listed(i))
    BY <1>5 DEF Injection, Surjection, IsInjective, Distinct, NoKeyTwice, list
  <2> QED BY <1>4, <1>5, <2>1, FS_Surjection
<1> QED BY <1>1, <1>2, <1>3, <1>6, <1>7 DEF list

LEMMA SizeLow ==
  ASSUME IsFiniteSet(Clients), Sharded, Distinct, CountingInv,
         NEW i \in Shards, NEW T \in SUBSET Listed(i)
  PROVE  /\ m_size(i) \in Int
         /\ m_size(i) <= Cardinality(Listed(i)) + 1
         /\ Cardinality(T) \in Nat /\ Cardinality(Uncounted(T)) \in Nat
         /\ Cardinality(T) <= m_size(i) + Cardinality(Uncounted(T))
<1> DEFINE L == Listed(i)
           D == Dying(i)
           A == {c \in Clients : counting[c] # NoKey /\ get_shard_ind(counting[c]) = i}
           B == Uncounted(T)
           one == IF moribund[i] # NoKey THEN 1 ELSE 0
<1>1. /\ L \subseteq {k \in Keys : ShardOf[k] = i}
      /\ IsFiniteSet(L) /\ Cardinality(L) = Len(order[i])
  BY ListedFacts
<1>2. IsFiniteSet(D) /\ Cardinality(D) <= one /\ Cardinality(D) \in Nat /\ one \in {0, 1}
  <2>1. CASE D = {}
    <3>1. IsFiniteSet(D) /\ Cardinality(D) = 0
      BY <2>1, FS_EmptySet
    <3> QED BY <3>1
  <2>2. CASE D = {moribund[i]} /\ moribund[i] # NoKey
    <3>1. \A x : IsFiniteSet({x}) /\ Cardinality({x}) = 1
      BY FS_Singleton, Zenon
    <3> HIDE DEF D
    <3>2. IsFiniteSet(D) /\ Cardinality(D) = 1
      BY <2>2, <3>1
    <3> QED BY <2>2, <3>2
  <2> QED BY <2>1, <2>2 DEF Dying
<1>3. m_size(i) = Cardinality(L) + one - Cardinality(A)
  BY <1>1 DEF m_size
<1>4. B \subseteq A
  BY <1>1, ShardAssumption DEF Uncounted, get_shard_ind
<1>5. \A c \in A \ B : counting[c] \in (L \cup D) \ T
  BY DEF CountingInv, Uncounted, get_shard_ind
<1>6. \A c, d \in A \ B : counting[c] = counting[d] => c = d
  BY DEF CountingInv
<1>7. IsFiniteSet(A)
  BY FS_Subset
<1> HIDE DEF L, D, A, B, one
<1>8. /\ IsFiniteSet(L \cup D) /\ Cardinality(L \cup D) <= Cardinality(L) + Cardinality(D)
      /\ Cardinality(L \cup D) \in Nat
  <2>1. IsFiniteSet(L \cap D)
    BY <1>1, FS_Intersection
  <2>2. /\ IsFiniteSet(L \cup D)
        /\ Cardinality(L \cup D) = Cardinality(L) + Cardinality(D) - Cardinality(L \cap D)
    BY <1>1, <1>2, FS_Union
  <2>3. /\ Cardinality(L \cap D) \in Nat /\ Cardinality(L) \in Nat
        /\ Cardinality(L \cup D) \in Nat
    BY <1>1, <2>1, <2>2, FS_CardinalityType
  <2> QED BY <1>2, <2>2, <2>3
<1>9. /\ IsFiniteSet((L \cup D) \ T)
      /\ Cardinality((L \cup D) \ T) = Cardinality(L \cup D) - Cardinality(T)
  <2>1. (L \cup D) \cap T = T
    BY DEF L
  <2> QED BY <1>8, <2>1, FS_Difference
<1>10. IsFiniteSet(T) /\ Cardinality(T) \in Nat
  BY <1>1, FS_Subset, FS_CardinalityType DEF L
<1>11. /\ Cardinality(A \ B) = Cardinality(A) - Cardinality(B)
       /\ Cardinality(A) \in Nat /\ Cardinality(B) \in Nat
  <2>1. A \cap B = B
    BY <1>4
  <2>2. IsFiniteSet(B)
    BY <1>4, <1>7, FS_Subset
  <2> QED BY <1>7, <2>1, <2>2, FS_Difference, FS_CardinalityType
<1>12. Cardinality(A \ B) <= Cardinality((L \cup D) \ T)
  <2> DEFINE f == [c \in A \ B |-> counting[c]]
  <2>1. f \in Injection(A \ B, (L \cup D) \ T)
    BY <1>5, <1>6 DEF Injection, IsInjective
  <2> HIDE DEF f
  <2> QED BY <1>9, <2>1, FS_Injection
<1>13. Cardinality(L) \in Nat
  BY <1>1, FS_CardinalityType
<1> QED BY <1>2, <1>3, <1>8, <1>9, <1>10, <1>11, <1>12, <1>13 DEF B, L

LEMMA InitCounting == LRUInit => CountingInv
BY DEF LRUInit, Init, CountingInv

\* delink takes away no other key.
LEMMA DelinkOthers ==
  ASSUME NEW list \in Seq(Keys), NEW k \in Keys, NEW n \in 1 .. Len(list), list[n] # k
  PROVE  \E m \in 1 .. Len(delink(list, k)) : delink(list, k)[m] = list[n]
<1>1. CASE \E m \in 1 .. Len(list) : list[m] = k
  <2>1. PICK m \in 1 .. Len(list) : delink(list, k) = RemoveAt(list, m) /\ list[m] = k
    BY <1>1 DEF delink
  <2> DEFINE before == SubSeq(list, 1, m - 1)
             after  == SubSeq(list, m + 1, Len(list))
  <2>2. /\ before \in Seq(Keys) /\ Len(before) = m - 1
        /\ \A q \in 1 .. Len(before) : before[q] = list[q]
    OBVIOUS
  <2>3. /\ after \in Seq(Keys) /\ Len(after) = Len(list) - m
        /\ \A q \in 1 .. Len(after) : after[q] = list[m + q]
    OBVIOUS
  <2>4. delink(list, k) = before \o after
    BY <2>1 DEF RemoveAt
  <2> HIDE DEF before, after
  <2> DEFINE short == before \o after
  <2>5. /\ Len(short) = Len(before) + Len(after)
        /\ \A q \in 1 .. Len(before) : short[q] = before[q]
        /\ \A q \in 1 .. Len(after) : short[Len(before) + q] = after[q]
    BY <2>2, <2>3, Concatenation
  <2>6. Len(list) \in Nat /\ Len(before) \in Nat /\ Len(after) \in Nat
    BY <2>2, <2>3
  <2> HIDE DEF short
  <2>7. CASE n < m
    <3>1. n \in 1 .. Len(before) /\ n \in 1 .. Len(short)
      BY <2>2, <2>5, <2>6, <2>7
    <3> QED BY <2>2, <2>4, <2>5, <3>1 DEF short
  <2>8. CASE n > m
    <3> DEFINE q == n - m
    <3>1. q \in 1 .. Len(after) /\ m + q = n
      BY <2>3, <2>6, <2>8
    <3> HIDE DEF q
    <3>2. /\ Len(before) + q \in 1 .. Len(short)
          /\ short[Len(before) + q] = list[n]
      BY <2>3, <2>5, <2>6, <3>1
    <3> QED BY <2>4, <3>2 DEF short
  <2> QED BY <2>1, <2>7, <2>8
<1>2. CASE ~ \E m \in 1 .. Len(list) : list[m] = k
  BY <1>2 DEF delink
<1> QED BY <1>1, <1>2

\* What push_front does to the set of listed keys.
LEMMA ListedPushFront ==
  ASSUME Sharded, NEW i \in Shards, NEW k \in Keys,
         order' = [order EXCEPT ![i] = <<k>> \o delink(@, k)]
  PROVE  /\ \A j \in Shards : Listed(j) \subseteq Listed(j)'
         /\ k \in Listed(i)'
<1> DEFINE rest == delink(order[i], k)
           s    == <<k>> \o rest
<1>1. order[i] \in Seq(Keys)
  BY DEF Sharded
<1>2. rest \in Seq(Keys)
  BY <1>1, DelinkKeeps DEF Sharded
<1>3. \A n \in 1 .. Len(order[i]) : order[i][n] # k =>
        \E m \in 1 .. Len(rest) : rest[m] = order[i][n]
  BY <1>1, DelinkOthers
<1> HIDE DEF rest
<1>4. /\ Len(s) = Len(rest) + 1 /\ s[1] = k /\ Len(rest) \in Nat
      /\ \A m \in 1 .. Len(rest) : s[m + 1] = rest[m] /\ m + 1 \in 1 .. Len(s)
  BY <1>2
<1>5. order'[i] = s /\ \A j \in Shards : j # i => order'[j] = order[j]
  BY DEF Sharded, rest
<1>6. s \in Seq(Keys)
  BY <1>2
<1> HIDE DEF s
<1>7. Listed(i)' = {s[n] : n \in 1 .. Len(s)}
  <2>1. Listed(i)' = {s[n] : n \in DOMAIN s}
    BY <1>5 DEF Listed, ToSet
  <2>2. DOMAIN s = 1 .. Len(s)
    BY <1>6
  <2> QED BY <2>1, <2>2
<1>8. Listed(i) \subseteq Listed(i)'
  <2> SUFFICES ASSUME NEW x \in Listed(i) PROVE x \in Listed(i)'
    OBVIOUS
  <2>1. PICK n \in 1 .. Len(order[i]) : order[i][n] = x
    BY <1>1 DEF Listed, ToSet
  <2>2. CASE x = k
    BY <1>4, <1>7, <2>2
  <2>3. CASE x # k
    <3>1. PICK m \in 1 .. Len(rest) : rest[m] = x
      BY <1>3, <2>1, <2>3
    <3>2. s[m + 1] = x /\ m + 1 \in 1 .. Len(s)
      BY <1>4, <3>1
    <3> QED BY <1>7, <3>2
  <2> QED BY <2>2, <2>3
<1>9. k \in Listed(i)'
  BY <1>4, <1>7
<1> QED BY <1>5, <1>8, <1>9 DEF Listed

\* What taking the last node does to it.
LEMMA ListedFront ==
  ASSUME Sharded, NEW i \in Shards, order[i] # <<>>,
         order' = [order EXCEPT ![i] = Front(@)]
  PROVE  /\ Last(order[i]) \in Listed(i)
         /\ Listed(i) \subseteq Listed(i)' \cup {Last(order[i])}
         /\ \A j \in Shards : j # i => Listed(j)' = Listed(j)
<1> DEFINE list == order[i]
           n    == Len(list) - 1
           front == SubSeq(list, 1, n)
<1>1. list \in Seq(Keys) /\ Len(list) \in Nat /\ Len(list) >= 1
  BY DEF Sharded
<1>2. /\ front \in Seq(Keys) /\ Len(front) = n
      /\ \A m \in 1 .. n : front[m] = list[m]
  <2>1. n \in 0 .. Len(list)
    BY <1>1
  <2> HIDE DEF n, list
  <2> QED BY <1>1, <2>1
<1>3. order'[i] = front /\ \A j \in Shards : j # i => order'[j] = order[j]
  BY DEF Sharded, Front
<1> HIDE DEF front
<1>4. \A m \in 1 .. Len(list) : m \in 1 .. n \/ m = Len(list)
  BY <1>1
<1>5. Listed(i) = {list[m] : m \in 1 .. Len(list)}
  BY <1>1 DEF Listed, ToSet
<1>6. Listed(i)' = {front[m] : m \in 1 .. n}
  BY <1>2, <1>3 DEF Listed, ToSet
<1>7. Last(list) = list[Len(list)] /\ Len(list) \in 1 .. Len(list)
  BY <1>1 DEF Last
<1> HIDE DEF list, n
<1>8. Last(list) \in Listed(i) /\ Listed(i) \subseteq Listed(i)' \cup {Last(list)}
  BY <1>2, <1>4, <1>5, <1>6, <1>7
<1> QED BY <1>3, <1>8 DEF Listed, list

LEMMA CountingKept ==
  ASSUME CountingInv, UNCHANGED <<order, moribund, erased, counting>>,
         \A c \in Clients : counting[c] # NoKey => pc'[c] = pc[c] /\ ind'[c] = ind[c]
  PROVE  CountingInv'
<1>1. \A i \in Shards : Listed(i)' = Listed(i) /\ Dying(i)' = Dying(i)
  BY DEF Listed, Dying
<1> QED BY <1>1, ShardAssumption DEF CountingInv

LEMMA CountingStep ==
  MgetInv /\ Sharded /\ CountingInv /\ [LRUNext]_facadeVars => CountingInv'
<1> SUFFICES ASSUME MgetInv, Sharded, CountingInv, [LRUNext]_facadeVars
             PROVE  CountingInv'
  OBVIOUS
<1>1. pc \in [Clients -> Labels] /\ ind \in [Clients -> Int]
  BY DEF MgetInv, Typed
<1>2. ASSUME NEW c \in Clients, SetEntry(c)
      PROVE  CountingInv'
  <2> DEFINE i == ind[c]
  <2>1. /\ i \in Shards /\ i # m_num_shards /\ pc[c] = "insert"
        /\ counting[c] = NoKey /\ UNCHANGED <<moribund, erased, pc, ind>>
    BY <1>2, ShardAssumption DEF SetEntry, Shards
  <2>2. PICK k \in data_vec[c][i] :
          /\ \A d \in Clients : counting[d] # k
          /\ IF k \in Dying(i) THEN order' = order
                               ELSE order' = [order EXCEPT ![i] = <<k>> \o delink(@, k)]
          /\ counting' = [counting EXCEPT ![c] =
                            IF k \in Listed(i) \cup Dying(i) THEN NoKey ELSE k]
    BY <1>2 DEF SetEntry
  <2>3. k \in Keys /\ ShardOf[k] = i
    BY <2>1 DEF Sharded
  <2>4. \A j \in Shards : Dying(j)' = Dying(j)
    BY <2>1 DEF Dying
  <2>5. \A j \in Shards : Listed(j) \subseteq Listed(j)'
    <3>1. CASE order' = order
      BY <3>1 DEF Listed
    <3>2. CASE order' = [order EXCEPT ![i] = <<k>> \o delink(@, k)]
      BY <2>1, <2>3, <3>2, ListedPushFront
    <3> QED BY <2>2, <3>1, <3>2
  <2>6. counting'[c] # NoKey => counting'[c] = k /\ k \in Listed(i)'
    <3>1. k \notin Dying(i) => k \in Listed(i)'
      BY <2>1, <2>2, <2>3, ListedPushFront
    <3> QED BY <2>2, <3>1 DEF CountingInv
  <2>7. /\ counting' \in [Clients -> Keys \cup {NoKey}]
        /\ \A d \in Clients : d # c => counting'[d] = counting[d]
    BY <2>2, <2>3 DEF CountingInv
  <2>8. ASSUME NEW d \in Clients, counting'[d] # NoKey
        PROVE  /\ pc'[d] = "insert" /\ ind'[d] # m_num_shards
               /\ \E j \in Shards : /\ j = ShardOf[counting'[d]]
                                    /\ counting'[d] \in Listed(j)' \cup Dying(j)'
    <3>1. CASE d = c
      BY <2>1, <2>3, <2>6, <2>8, <3>1
    <3>2. CASE d # c
      <4>1. counting'[d] = counting[d] /\ counting[d] # NoKey
        BY <2>7, <2>8, <3>2
      <4>2. PICK j \in Shards : j = ShardOf[counting[d]]
        BY <4>1, ShardAssumption DEF CountingInv
      <4>3. counting[d] \in Listed(j) \cup Dying(j)
        BY <4>1, <4>2 DEF CountingInv
      <4>4. counting[d] \in Listed(j)' \cup Dying(j)'
        BY <2>4, <2>5, <4>3
      <4>5. pc'[d] = "insert" /\ ind'[d] # m_num_shards
        BY <2>1, <4>1 DEF CountingInv
      <4> QED BY <4>1, <4>2, <4>4, <4>5
    <3> QED BY <3>1, <3>2
  <2>9. \A d, e \in Clients : counting'[d] # NoKey /\ counting'[d] = counting'[e] => d = e
    BY <2>2, <2>6, <2>7 DEF CountingInv
  <2>10. \A d \in Clients : counting'[d] # NoKey =>
           (LET j == ShardOf[counting[d]] IN counting[d] \in Listed(j) \cup Dying(j))'
    <3> SUFFICES ASSUME NEW d \in Clients, counting'[d] # NoKey
                 PROVE  (LET j == ShardOf[counting[d]] IN counting[d] \in Listed(j) \cup Dying(j))'
      OBVIOUS
    <3>1. PICK j \in Shards : j = ShardOf[counting'[d]] /\ counting'[d] \in Listed(j)' \cup Dying(j)'
      BY <2>8
    <3> QED BY <3>1 DEF Listed, Dying
  <2>11. \A d \in Clients : counting'[d] # NoKey => pc'[d] = "insert" /\ ind'[d] # m_num_shards
    BY <2>8
  <2> HIDE DEF i
  <2>12. /\ \A j \in Shards : erased'[j] => moribund'[j] # NoKey
         /\ \A j \in Shards : moribund'[j] # NoKey => ShardOf[moribund'[j]] = j
    BY <2>1 DEF CountingInv
  <2> QED BY <2>7, <2>9, <2>10, <2>11, <2>12 DEF CountingInv
<1>3. ASSUME NEW c \in Clients, CountEntry(c)
      PROVE  CountingInv'
  <2>1. /\ counting' = [counting EXCEPT ![c] = NoKey]
        /\ UNCHANGED <<order, moribund, erased, pc, ind>>
    BY <1>3 DEF CountEntry, cacheVars
  <2>2. \A i \in Shards : Listed(i)' = Listed(i) /\ Dying(i)' = Dying(i)
    BY <2>1 DEF Listed, Dying
  <2> QED BY <2>1, <2>2, ShardAssumption DEF CountingInv
<1>4. ASSUME NEW i \in Shards, Evict(i)
      PROVE  CountingInv'
  <2>1. /\ moribund[i] = NoKey /\ order[i] # <<>>
        /\ moribund' = [moribund EXCEPT ![i] = Last(order[i])]
        /\ order' = [order EXCEPT ![i] = Front(@)]
        /\ UNCHANGED <<erased, pc, ind, counting>>
    BY <1>4 DEF Evict, callVars
  <2>2. /\ Last(order[i]) \in Listed(i)
        /\ Listed(i) \subseteq Listed(i)' \cup {Last(order[i])}
        /\ \A j \in Shards : j # i => Listed(j)' = Listed(j)
    BY <2>1, ListedFront
  <2>3. Last(order[i]) \in Keys /\ Last(order[i]) # NoKey /\ ShardOf[Last(order[i])] = i
    BY <2>2, ListedFacts, ShardAssumption
  <2>4. moribund'[i] = Last(order[i]) /\ \A j \in Shards : j # i => moribund'[j] = moribund[j]
    BY <2>1 DEF Sharded
  <2>5. ~ erased[i]
    BY <2>1 DEF CountingInv
  <2>6. Dying(i)' = {Last(order[i])} /\ Dying(i) = {}
    BY <2>1, <2>3, <2>4, <2>5 DEF Dying
  <2>7. \A j \in Shards : j # i => Dying(j)' = Dying(j)
    BY <2>1, <2>4 DEF Dying
  <2>8. \A j \in Shards : Listed(j) \cup Dying(j) \subseteq Listed(j)' \cup Dying(j)'
    BY <2>2, <2>6, <2>7
  <2>9. /\ \A j \in Shards : erased[j] => moribund'[j] # NoKey
        /\ \A j \in Shards : moribund'[j] # NoKey => ShardOf[moribund'[j]] = j
    BY <2>3, <2>4, <2>5 DEF CountingInv
  <2> QED BY <2>1, <2>8, <2>9, ShardAssumption DEF CountingInv
<1>5. ASSUME NEW i \in Shards, EraseMoribund(i)
      PROVE  CountingInv'
  <2>1. /\ Dying(i) # {} /\ \A c \in Clients : counting[c] # moribund[i]
        /\ erased' = [erased EXCEPT ![i] = TRUE]
        /\ UNCHANGED <<order, moribund, pc, ind, counting>>
    BY <1>5 DEF EraseMoribund, callVars
  <2>2. moribund[i] # NoKey /\ Dying(i) = {moribund[i]}
    BY <2>1 DEF Dying
  <2>3. \A j \in Shards : Listed(j)' = Listed(j) /\ (j # i => Dying(j)' = Dying(j))
    BY <2>1 DEF Listed, Dying, Sharded
  <2>4. \A j \in Shards : erased'[j] => moribund[j] # NoKey
    BY <2>1, <2>2 DEF CountingInv, Sharded
  <2>5. ASSUME NEW c \in Clients, counting[c] # NoKey
        PROVE  LET j == ShardOf[counting[c]] IN counting[c] \in Listed(j)' \cup Dying(j)'
    <3> DEFINE j == ShardOf[counting[c]]
    <3>1. j \in Shards /\ counting[c] \in Listed(j) \cup Dying(j)
      BY <2>5, ShardAssumption DEF CountingInv
    <3> QED BY <2>1, <2>2, <2>3, <3>1
  <2> QED BY <2>1, <2>4, <2>5 DEF CountingInv
<1>6. ASSUME NEW i \in Shards, UncountMoribund(i)
      PROVE  CountingInv'
  <2>1. /\ erased[i]
        /\ moribund' = [moribund EXCEPT ![i] = NoKey]
        /\ erased' = [erased EXCEPT ![i] = FALSE]
        /\ UNCHANGED <<order, pc, ind, counting>>
    BY <1>6 DEF UncountMoribund, callVars
  <2>2. \A j \in Shards : Listed(j)' = Listed(j) /\ Dying(j) \subseteq Dying(j)'
    BY <2>1 DEF Listed, Dying, Sharded
  <2>3. /\ \A j \in Shards : erased'[j] => moribund'[j] # NoKey
        /\ \A j \in Shards : moribund'[j] # NoKey => ShardOf[moribund'[j]] = j
    BY <2>1 DEF CountingInv, Sharded
  <2> QED BY <2>1, <2>2, <2>3, ShardAssumption DEF CountingInv
<1>7. CASE Clear
  <2>1. \A c \in Clients : counting[c] = NoKey
    BY <1>7 DEF Clear, CountingInv
  <2> QED BY <1>7, <2>1 DEF Clear, callVars, CountingInv
<1>8. ASSUME NEW c \in Clients,
             \/ \E batch \in Batches : Insert(c, batch)
             \/ InsertNextShard(c) \/ SnapshotShard(c) \/ SizeShard(c)
             \/ \E op \in {"snapshot_keys", "size"} : Begin(c, op)
             \/ Return(c) \/ mget(c) \/ NextKey(c) \/ mgetReturn(c)
      PROVE  CountingInv'
  <2>1. UNCHANGED <<order, moribund, erased, counting>>
    BY <1>8 DEF Insert, InsertNextShard, SnapshotShard, SizeShard, Begin, Return, mget,
                NextKey, mgetReturn, cacheVars, vars
  <2>2. counting[c] = NoKey \/ UNCHANGED <<pc, ind>>
    BY <1>8 DEF Insert, InsertNextShard, SnapshotShard, SizeShard, Begin, Return, mget,
                NextKey, mgetReturn, Answered, vars, CountingInv
  <2>3. \A d \in Clients : d # c => pc'[d] = pc[d] /\ ind'[d] = ind[d]
    BY <1>1, <1>8 DEF Insert, InsertNextShard, SnapshotShard, SizeShard, Begin, Return,
                      mget, NextKey, mgetReturn, vars
  <2> QED BY <2>1, <2>2, <2>3, CountingKept
<1>9. CASE UNCHANGED facadeVars
  BY <1>9, CountingKept DEF facadeVars, vars
<1>10. ASSUME NEW k \in Keys, Expire(k)
       PROVE  CountingInv'
  BY <1>10, CountingKept DEF Expire, callVars
<1> QED BY <1>2, <1>3, <1>4, <1>5, <1>6, <1>7, <1>8, <1>9, <1>10 DEF LRUNext, Next

-----------------------------------------------------------------------------
(* size().  So far total has the listed keys of the shards visited, too    *)
(* many by one per shard at most, and too few by those that some other     *)
(* clients had not counted: a client misses one only, since what it        *)
(* inserts next was not in the lists throughout.                           *)

Visited(ks, n) == {k \in ks : ShardOf[k] < n}

Missing(c, M) ==
  /\ Cardinality(Visited(throughout[c], ind[c])) <= total[c] + Cardinality(M)
  /\ \A d \in M : counting[d] \in throughout[c] => ShardOf[counting[d]] < ind[c]

Adding(c) ==
  /\ total[c] \in Nat
  /\ total[c] <= Cardinality(Visited(sometime[c], ind[c])) + ind[c]
  /\ \E M \in SUBSET (Clients \ {c}) : Missing(c, M)

AddingInv ==
  /\ ind \in [Clients -> 0 .. m_num_shards]
  /\ total \in [Clients -> Int]
  /\ sometime \in [Clients -> SUBSET Keys]
  /\ \A c \in Clients : IF pc[c] = "size" THEN Adding(c) ELSE total[c] = 0

LEMMA InitAdding == LRUInit => AddingInv
BY ShardAssumption DEF LRUInit, Init, AddingInv

LEMMA SubsetCardinality ==
  ASSUME IsFiniteSet(Keys), NEW S \in SUBSET Keys, NEW T \in SUBSET S
  PROVE  /\ IsFiniteSet(S) /\ IsFiniteSet(T)
         /\ Cardinality(S) \in Nat /\ Cardinality(T) \in Nat
         /\ Cardinality(T) <= Cardinality(S)
<1>1. IsFiniteSet(S)
  BY FS_Subset
<1>2. IsFiniteSet(T) /\ Cardinality(T) <= Cardinality(S)
  BY <1>1, FS_Subset
<1> QED BY <1>1, <1>2, FS_CardinalityType

\* The sum of a client stays right while it does not look.
LEMMA AddingKept ==
  ASSUME IsFiniteSet(Clients), IsFiniteSet(Keys), AddingInv,
         NEW c \in Clients, pc[c] = "size",
         throughout[c] \subseteq Keys,
         total'[c] = total[c], ind'[c] = ind[c],
         throughout'[c] \subseteq throughout[c],
         sometime[c] \subseteq sometime'[c], sometime'[c] \subseteq Keys,
         \A d \in Clients : counting'[d] \in throughout'[c] => counting'[d] = counting[d]
  PROVE  Adding(c)'
<1>1. Adding(c) /\ ind[c] \in Nat
  BY ShardAssumption DEF AddingInv
<1>2. /\ Cardinality(Visited(sometime[c], ind[c])) <= Cardinality(Visited(sometime'[c], ind[c]))
      /\ Cardinality(Visited(sometime[c], ind[c])) \in Nat
      /\ Cardinality(Visited(sometime'[c], ind[c])) \in Nat
  <2>1. /\ Visited(sometime'[c], ind[c]) \in SUBSET Keys
        /\ Visited(sometime[c], ind[c]) \in SUBSET Visited(sometime'[c], ind[c])
    BY DEF Visited
  <2> QED BY <2>1, SubsetCardinality
<1>3. /\ Cardinality(Visited(throughout'[c], ind[c])) <= Cardinality(Visited(throughout[c], ind[c]))
      /\ Cardinality(Visited(throughout[c], ind[c])) \in Nat
      /\ Cardinality(Visited(throughout'[c], ind[c])) \in Nat
  <2>1. /\ Visited(throughout[c], ind[c]) \in SUBSET Keys
        /\ Visited(throughout'[c], ind[c]) \in SUBSET Visited(throughout[c], ind[c])
    BY DEF Visited
  <2> QED BY <2>1, SubsetCardinality
<1>4. PICK M \in SUBSET (Clients \ {c}) : Missing(c, M)
  BY <1>1 DEF Adding
<1>5. Cardinality(M) \in Nat
  <2>1. IsFiniteSet(M)
    BY FS_Subset
  <2> QED BY <2>1, FS_CardinalityType
<1>6. /\ Cardinality(Visited(throughout'[c], ind'[c])) <= total'[c] + Cardinality(M)
      /\ \A d \in M : counting'[d] \in throughout'[c] => ShardOf[counting'[d]] < ind'[c]
  BY <1>1, <1>3, <1>4, <1>5 DEF Missing, Adding
<1>7. /\ total'[c] \in Nat
      /\ total'[c] <= Cardinality(Visited(sometime'[c], ind'[c])) + ind'[c]
  BY <1>1, <1>2 DEF Adding
<1>8. Missing(c, M)'
  BY <1>6 DEF Missing, Visited
<1>9. (\E N \in SUBSET (Clients \ {c}) : Missing(c, N))'
  BY <1>8
<1> QED BY <1>7, <1>9 DEF Adding, Visited

\* Another shard is added.
LEMMA SizeShardAdds ==
  ASSUME IsFiniteSet(Clients), IsFiniteSet(Keys),
         MgetInv, Sharded, Distinct, CountingInv, AddingInv,
         NEW c \in Clients, SizeShard(c)
  PROVE  Adding(c)' /\ total'[c] \in Int
<1> DEFINE i == ind[c]
           T == {k \in throughout[c] : ShardOf[k] = i}
           S == {k \in sometime[c] : ShardOf[k] = i}
           B == Uncounted(T)
<1>1. /\ pc[c] = "size" /\ i \in Shards /\ i \in Nat
      /\ total'[c] = total[c] + m_size(i) /\ ind'[c] = i + 1
      /\ UNCHANGED <<counting, throughout, sometime>>
  BY ShardAssumption DEF SizeShard, historyVars, AddingInv, Shards
<1>2. Adding(c)
  BY <1>1 DEF AddingInv
<1>3. throughout[c] \subseteq Keys /\ sometime[c] \subseteq Keys
  BY DEF MgetInv, Typed, InLists, Listed, ToSet, Sharded, AddingInv
<1>4. Listed(i) \subseteq S
  <2>1. Listed(i) \subseteq {k \in Keys : ShardOf[k] = i}
    BY <1>1, ListedFacts
  <2>2. InMaps \subseteq sometime[c]
    BY <1>1 DEF MgetInv, Regular, Observing, Visible
  <2> QED BY <1>1, <2>1, <2>2 DEF InMaps, InLists
<1>5. T \subseteq Listed(i)
  <2> SUFFICES ASSUME NEW k \in throughout[c], ShardOf[k] = i PROVE k \in Listed(i)
    OBVIOUS
  <2>1. PICK j \in Shards : k \in Listed(j)
    BY DEF MgetInv, Typed, InLists
  <2>2. ShardOf[k] = j
    BY <2>1, ListedFacts
  <2> QED BY <2>1, <2>2
<1>6. /\ m_size(i) \in Int /\ m_size(i) <= Cardinality(Listed(i)) + 1
      /\ Cardinality(T) \in Nat /\ Cardinality(B) \in Nat
      /\ Cardinality(T) <= m_size(i) + Cardinality(B)
  BY <1>1, <1>5, SizeLow
<1>7. m_size(i) >= 0
  <2>1. Uncounted({}) = {}
    BY DEF Uncounted
  <2>2. Cardinality({}) <= m_size(i) + Cardinality(Uncounted({}))
    BY <1>1, SizeLow
  <2>3. Cardinality({}) = 0
    BY FS_EmptySet
  <2> QED BY <1>6, <2>1, <2>2, <2>3
<1>8. \A k \in Keys : ShardOf[k] \in Nat
  BY ShardAssumption DEF Shards
<1>9. /\ Visited(sometime[c], i + 1) = Visited(sometime[c], i) \cup S
      /\ Visited(sometime[c], i) \cap S = {}
  BY <1>1, <1>3, <1>8 DEF Visited
<1>10. /\ Visited(throughout[c], i + 1) = Visited(throughout[c], i) \cup T
       /\ Visited(throughout[c], i) \cap T = {}
  BY <1>1, <1>3, <1>8 DEF Visited
<1> DEFINE VS == Visited(sometime[c], i)
           VT == Visited(throughout[c], i)
<1>11. VS \subseteq Keys /\ VT \subseteq Keys /\ S \subseteq Keys /\ T \subseteq Keys
  BY <1>3 DEF Visited
<1>12. PICK M \in SUBSET (Clients \ {c}) : Missing(c, M)
  BY <1>2 DEF Adding
<1>13. M \cap B = {} /\ c \notin B /\ B \subseteq Clients
  <2>1. \A d \in M : counting[d] \notin T
    BY <1>1, <1>12 DEF Missing
  <2>2. counting[c] = NoKey
    BY <1>1 DEF CountingInv
  <2> QED BY <1>11, <2>1, <2>2, ShardAssumption DEF Uncounted
<1>14. \A d \in M \cup B : counting[d] \in throughout[c] => ShardOf[counting[d]] < i + 1
  BY <1>1, <1>3, <1>8, <1>12 DEF Missing, Uncounted
<1>15. /\ Cardinality(VT) <= total[c] + Cardinality(M)
       /\ total[c] <= Cardinality(VS) + i /\ total[c] \in Nat
  BY <1>2, <1>12 DEF Missing, Adding
<1> HIDE DEF i, T, S, B, VS, VT
<1>16. /\ Cardinality(VS \cup S) = Cardinality(VS) + Cardinality(S)
       /\ Cardinality(VS) \in Nat /\ Cardinality(S) \in Nat
       /\ Cardinality(Listed(i)) <= Cardinality(S) /\ Cardinality(Listed(i)) \in Nat
  <2>1. IsFiniteSet(VS) /\ IsFiniteSet(S)
    BY <1>11, SubsetCardinality
  <2>2. VS \cap S = {}
    BY <1>9 DEF VS
  <2>3. Cardinality(VS \cup S) = Cardinality(VS) + Cardinality(S) - Cardinality(VS \cap S)
    BY <2>1, FS_Union
  <2>4. Cardinality(VS) \in Nat /\ Cardinality(S) \in Nat
    BY <2>1, FS_CardinalityType
  <2>5. Cardinality(Listed(i)) <= Cardinality(S) /\ Cardinality(Listed(i)) \in Nat
    BY <1>4, <1>11, SubsetCardinality
  <2>6. Cardinality(VS \cap S) = 0
    BY <2>2, FS_EmptySet, Zenon
  <2> QED BY <2>3, <2>4, <2>5, <2>6
<1>17. /\ Cardinality(VT \cup T) = Cardinality(VT) + Cardinality(T)
       /\ Cardinality(VT) \in Nat
  <2>1. IsFiniteSet(VT) /\ IsFiniteSet(T)
    BY <1>11, SubsetCardinality
  <2>2. VT \cap T = {}
    BY <1>10 DEF VT
  <2>3. Cardinality(VT \cup T) = Cardinality(VT) + Cardinality(T) - Cardinality(VT \cap T)
    BY <2>1, FS_Union
  <2>4. Cardinality(VT) \in Nat /\ Cardinality(T) \in Nat
    BY <2>1, FS_CardinalityType
  <2>5. Cardinality(VT \cap T) = 0
    BY <2>2, FS_EmptySet, Zenon
  <2> QED BY <2>3, <2>4, <2>5
<1>18. /\ Cardinality(M \cup B) = Cardinality(M) + Cardinality(B)
       /\ Cardinality(M) \in Nat
  <2>1. IsFiniteSet(M) /\ IsFiniteSet(B)
    BY <1>13, FS_Subset
  <2>2. Cardinality(M \cup B) = Cardinality(M) + Cardinality(B) - Cardinality(M \cap B)
    BY <2>1, FS_Union
  <2>3. Cardinality(M) \in Nat /\ Cardinality(B) \in Nat
    BY <2>1, FS_CardinalityType
  <2>4. Cardinality(M \cap B) = 0
    BY <1>13, FS_EmptySet, Zenon
  <2> QED BY <2>2, <2>3, <2>4
<1>19. /\ total'[c] \in Nat
       /\ total'[c] <= Cardinality(VS \cup S) + (i + 1)
       /\ Cardinality(VT \cup T) <= total'[c] + Cardinality(M \cup B)
  BY <1>1, <1>6, <1>7, <1>15, <1>16, <1>17, <1>18
<1>20. /\ Visited(sometime'[c], ind'[c]) = VS \cup S
       /\ Visited(throughout'[c], ind'[c]) = VT \cup T
  BY <1>1, <1>9, <1>10 DEF VS, VT
<1>21. PICK N \in SUBSET (Clients \ {c}) : N = M \cup B
  BY <1>13
<1>22. /\ Cardinality(Visited(throughout'[c], ind'[c])) <= total'[c] + Cardinality(N)
       /\ \A d \in N : counting'[d] \in throughout'[c] => ShardOf[counting'[d]] < ind'[c]
  BY <1>1, <1>14, <1>19, <1>20, <1>21
<1>23. Missing(c, N)'
  BY <1>22 DEF Missing, Visited
<1>24. (\E K \in SUBSET (Clients \ {c}) : Missing(c, K))'
  BY <1>23
<1>25. total'[c] <= Cardinality(Visited(sometime'[c], ind'[c])) + ind'[c]
  BY <1>1, <1>19, <1>20
<1> QED BY <1>19, <1>24, <1>25 DEF Adding, Visited

LEMMA AddingOthers ==
  ASSUME IsFiniteSet(Clients), IsFiniteSet(Keys), MgetInv, Sharded, AddingInv,
         NEW c \in Clients,
         pc'[c] = pc[c], total'[c] = total[c], ind'[c] = ind[c],
         throughout'[c] \subseteq throughout[c],
         pc[c] = "size" => sometime[c] \subseteq sometime'[c],
         sometime'[c] \subseteq Keys,
         pc[c] = "size" =>
           \A d \in Clients : counting'[d] \in throughout'[c] => counting'[d] = counting[d]
  PROVE  IF pc'[c] = "size" THEN Adding(c)' ELSE total'[c] = 0
<1>1. throughout[c] \subseteq Keys
  BY DEF MgetInv, Typed, InLists, Listed, ToSet, Sharded
<1>2. CASE pc[c] = "size"
  BY <1>1, <1>2, AddingKept
<1>3. CASE pc[c] # "size"
  BY <1>3 DEF AddingInv
<1> QED BY <1>2, <1>3

\* The lists or maps change, and the calls in progress see it.
LEMMA AddingObserved ==
  ASSUME IsFiniteSet(Clients), IsFiniteSet(Keys), MgetInv, Sharded, Sharded', AddingInv,
         Observe, UNCHANGED <<pc, ind, total>>,
         \A c, d \in Clients : pc[c] = "size" /\ counting'[d] \in throughout'[c] =>
           counting'[d] = counting[d]
  PROVE  AddingInv'
<1>1. InMaps' \subseteq Keys
  BY DEF Sharded, InMaps, InLists, Listed, ToSet, Dying
<1>2. sometime' \in [Clients -> SUBSET Keys]
  BY <1>1 DEF Observe, Visible, AddingInv
<1>3. \A c \in Clients : /\ throughout'[c] \subseteq throughout[c]
                         /\ pc[c] = "size" => sometime[c] \subseteq sometime'[c]
                         /\ sometime'[c] \subseteq Keys
  BY <1>2 DEF Observe
<1>4. ASSUME NEW c \in Clients
      PROVE  IF pc'[c] = "size" THEN Adding(c)' ELSE total'[c] = 0
  BY <1>3, AddingOthers
<1> QED BY <1>2, <1>4 DEF AddingInv

\* Nothing the sums are about changes.
LEMMA AddingQuiet ==
  ASSUME IsFiniteSet(Clients), IsFiniteSet(Keys), MgetInv, Sharded, AddingInv,
         UNCHANGED <<total, historyVars>>,
         ind' \in [Clients -> 0 .. m_num_shards],
         \A c \in Clients : (pc'[c] = "size") <=> (pc[c] = "size"),
         \A c \in Clients : pc[c] = "size" => ind'[c] = ind[c],
         \A d \in Clients : counting'[d] = counting[d] \/ counting'[d] = NoKey
  PROVE  AddingInv'
<1>1. \A c \in Clients : throughout[c] \subseteq Keys /\ sometime[c] \subseteq Keys
  BY DEF MgetInv, Typed, InLists, Listed, ToSet, Sharded, AddingInv
<1>2. \A c, d \in Clients : counting'[d] \in throughout'[c] => counting'[d] = counting[d]
  BY <1>1, ShardAssumption DEF historyVars
<1>3. ASSUME NEW c \in Clients
      PROVE  IF pc'[c] = "size" THEN Adding(c)' ELSE total'[c] = 0
  <2>1. CASE pc[c] = "size"
    <3>1. Adding(c)'
      BY <1>1, <1>2, <2>1, AddingKept DEF historyVars
    <3> QED BY <2>1, <3>1
  <2>2. CASE pc[c] # "size"
    BY <2>2 DEF AddingInv
  <2> QED BY <2>1, <2>2
<1> QED BY <1>3 DEF AddingInv, historyVars

\* A call begins or ends.
LEMMA AddingBegins ==
  ASSUME IsFiniteSet(Clients), IsFiniteSet(Keys), MgetInv, Sharded, AddingInv,
         NEW c \in Clients, NEW op \in {"snapshot_keys", "size", "mget"}, Begin(c, op)
  PROVE  AddingInv'
<1>1. /\ pc[c] = "idle" /\ pc' = [pc EXCEPT ![c] = op]
      /\ throughout' = [throughout EXCEPT ![c] = Visible(InLists, op)]
      /\ sometime' = [sometime EXCEPT ![c] = Visible(InMaps, op)]
      /\ UNCHANGED <<ind, counting, total>>
  BY DEF Begin
<1>2. /\ InMaps \subseteq Keys
      /\ Visible(InMaps, op) \subseteq Keys /\ Visible(InLists, op) \subseteq InLists
  BY DEF Sharded, InMaps, InLists, Listed, ToSet, Dying, Visible
<1>3. pc \in [Clients -> Labels] /\ throughout \in [Clients -> SUBSET InLists] /\ ind[c] = 0
  BY <1>1 DEF MgetInv, Typed, Resting
<1>4. sometime' \in [Clients -> SUBSET Keys]
  BY <1>1, <1>2 DEF AddingInv
<1>5. Adding(c)'
  <2>1. total[c] = 0
    BY <1>1 DEF AddingInv
  <2>2. \A k \in Keys : ~ (ShardOf[k] < 0)
    BY ShardAssumption DEF Shards
  <2>3. throughout'[c] \subseteq Keys /\ sometime'[c] \subseteq Keys /\ ind'[c] = 0 /\ total'[c] = 0
    <3>1. throughout'[c] \subseteq InLists /\ InLists \subseteq InMaps
      BY <1>1, <1>2, <1>3 DEF InMaps
    <3>2. sometime'[c] \subseteq Keys
      BY <1>4
    <3> QED BY <1>1, <1>2, <1>3, <2>1, <3>1, <3>2
  <2>4. Visited(throughout'[c], 0) = {} /\ Visited(sometime'[c], 0) = {}
    BY <2>2, <2>3 DEF Visited
  <2>5. Cardinality({}) = 0
    BY FS_EmptySet
  <2>6. /\ Cardinality(Visited(throughout'[c], 0)) = 0
        /\ Cardinality(Visited(sometime'[c], 0)) = 0
    BY <2>4, <2>5, Zenon
  <2>7. Missing(c, {})'
    BY <2>3, <2>5, <2>6 DEF Missing, Visited
  <2>8. (\E M \in SUBSET (Clients \ {c}) : Missing(c, M))'
    BY <2>7
  <2>9. total'[c] <= Cardinality(Visited(sometime'[c], ind'[c])) + ind'[c]
    BY <2>3, <2>6
  <2> QED BY <2>3, <2>8, <2>9 DEF Adding, Visited
<1>6. ASSUME NEW d \in Clients
      PROVE  IF pc'[d] = "size" THEN Adding(d)' ELSE total'[d] = 0
  <2>1. CASE d = c
    BY <1>1, <1>3, <1>5, <2>1 DEF AddingInv
  <2>2. CASE d # c
    <3>1. /\ pc'[d] = pc[d] /\ total'[d] = total[d] /\ ind'[d] = ind[d]
          /\ throughout'[d] = throughout[d] /\ sometime'[d] = sometime[d]
          /\ sometime'[d] \subseteq Keys
      BY <1>1, <1>3, <1>4, <2>2 DEF AddingInv
    <3> QED BY <1>1, <3>1, AddingOthers
  <2> QED BY <2>1, <2>2
<1> QED BY <1>1, <1>4, <1>6 DEF AddingInv

LEMMA AddingEnds ==
  ASSUME IsFiniteSet(Clients), IsFiniteSet(Keys), MgetInv, Sharded, AddingInv,
         NEW c \in Clients, Return(c) \/ mgetReturn(c)
  PROVE  AddingInv'
<1>1. pc \in [Clients -> Labels] /\ throughout \in [Clients -> SUBSET InLists]
  BY DEF MgetInv, Typed
<1>2. /\ pc'[c] = "idle" /\ total'[c] = 0
      /\ counting' = counting
      /\ ind' \in [Clients -> 0 .. m_num_shards] /\ total' \in [Clients -> Int]
      /\ sometime' \in [Clients -> SUBSET Keys]
  <2>1. CASE Return(c)
    BY <1>1, <2>1, ShardAssumption DEF Return, AddingInv
  <2>2. CASE mgetReturn(c)
    BY <1>1, <2>2 DEF mgetReturn, Answered, AddingInv
  <2> QED BY <2>1, <2>2
<1>3. ASSUME NEW d \in Clients, d # c
      PROVE  IF pc'[d] = "size" THEN Adding(d)' ELSE total'[d] = 0
  <2>1. /\ pc'[d] = pc[d] /\ total'[d] = total[d] /\ ind'[d] = ind[d]
        /\ throughout'[d] = throughout[d] /\ sometime'[d] = sometime[d]
    BY <1>1, <1>3 DEF Return, mgetReturn, AddingInv
  <2>2. sometime'[d] \subseteq Keys
    BY <1>2
  <2> QED BY <1>2, <2>1, <2>2, AddingOthers
<1> QED BY <1>2, <1>3 DEF AddingInv

LEMMA AddingStep ==
  ASSUME IsFiniteSet(Clients), IsFiniteSet(Keys),
         MgetInv, Sharded, Sharded', Distinct, CountingInv, AddingInv,
         [LRUNext]_facadeVars
  PROVE  AddingInv'
<1>1. /\ pc \in [Clients -> Labels] /\ ind \in [Clients -> 0 .. m_num_shards]
      /\ m_num_shards \in Nat
  BY ShardAssumption DEF MgetInv, Typed, AddingInv
<1>2. ASSUME NEW c \in Clients, SetEntry(c)
      PROVE  AddingInv'
  <2> DEFINE i == ind[c]
  <2>1. i \in Shards /\ Observe /\ UNCHANGED <<pc, ind, total>>
    BY <1>2 DEF SetEntry
  <2>2. PICK k \in data_vec[c][i] :
          counting' = [counting EXCEPT ![c] =
                         IF k \in Listed(i) \cup Dying(i) THEN NoKey ELSE k]
    BY <1>2 DEF SetEntry
  <2>3. k \in Keys /\ ShardOf[k] = i
    BY <2>1 DEF Sharded
  <2>4. k \notin Listed(i) => k \notin InLists
    BY <2>3, ListedFacts DEF InLists
  <2>5. ASSUME NEW b \in Clients, NEW d \in Clients, counting'[d] \in throughout'[b]
        PROVE  counting'[d] = counting[d]
    <3>1. throughout'[b] \subseteq InLists /\ InLists \subseteq Keys
      BY <2>1 DEF Observe, Visible, MgetInv, Typed, InLists, Listed, ToSet, Sharded
    <3>2. CASE d = c
      <4>1. counting'[c] = NoKey \/ (counting'[c] = k /\ k \notin Listed(i))
        BY <2>2 DEF CountingInv
      <4> QED BY <2>4, <2>5, <3>1, <3>2, <4>1, ShardAssumption
    <3>3. CASE d # c
      BY <2>2, <3>3 DEF CountingInv
    <3> QED BY <3>2, <3>3
  <2> QED BY <2>1, <2>5, AddingObserved
<1>3. ASSUME NEW i \in Shards, Evict(i) \/ EraseMoribund(i)
      PROVE  AddingInv'
  <2>1. Observe /\ UNCHANGED <<pc, ind, total, counting>>
    BY <1>3 DEF Evict, EraseMoribund, callVars
  <2> QED BY <2>1, AddingObserved
<1>4. ASSUME NEW i \in Shards, UncountMoribund(i)
      PROVE  AddingInv'
  BY <1>1, <1>4, AddingQuiet DEF UncountMoribund, callVars
<1>5. CASE Clear
  BY <1>1, <1>5, AddingQuiet DEF Clear, callVars
<1>6. ASSUME NEW c \in Clients, \E batch \in Batches : Insert(c, batch)
      PROVE  AddingInv'
  <2>1. /\ pc[c] = "idle" /\ pc' = [pc EXCEPT ![c] = "insert"]
        /\ UNCHANGED <<ind, counting, total, historyVars>>
    BY <1>6 DEF Insert
  <2> QED BY <1>1, <2>1, AddingQuiet
<1>7. ASSUME NEW c \in Clients, CountEntry(c)
      PROVE  AddingInv'
  <2>1. /\ counting' = [counting EXCEPT ![c] = NoKey]
        /\ UNCHANGED <<pc, ind, total, historyVars>>
    BY <1>7 DEF CountEntry
  <2>2. \A d \in Clients : counting'[d] = counting[d] \/ counting'[d] = NoKey
    BY <2>1 DEF CountingInv
  <2> QED BY <1>1, <2>1, <2>2, AddingQuiet
<1>8. ASSUME NEW c \in Clients, InsertNextShard(c) \/ SnapshotShard(c)
      PROVE  AddingInv'
  <2>1. /\ pc[c] # "size" /\ ind[c] \in Shards /\ ind' = [ind EXCEPT ![c] = @ + 1]
        /\ UNCHANGED <<pc, counting, total, historyVars>>
    BY <1>8 DEF InsertNextShard, SnapshotShard
  <2>2. ind' \in [Clients -> 0 .. m_num_shards]
    BY <1>1, <2>1 DEF Shards
  <2>3. \A d \in Clients : pc[d] = "size" => ind'[d] = ind[d]
    BY <1>1, <2>1
  <2> QED BY <2>1, <2>2, <2>3, AddingQuiet
<1>9. ASSUME NEW c \in Clients, NEW op \in {"snapshot_keys", "size", "mget"}, Begin(c, op)
      PROVE  AddingInv'
  BY <1>9, AddingBegins
<1>10. ASSUME NEW c \in Clients, Return(c) \/ mgetReturn(c)
       PROVE  AddingInv'
  BY <1>10, AddingEnds
<1>11. ASSUME NEW c \in Clients, SizeShard(c)
       PROVE  AddingInv'
  <2>1. Adding(c)' /\ total'[c] \in Int
    BY <1>11, SizeShardAdds
  <2>2. /\ pc[c] = "size" /\ ind[c] \in Shards
        /\ total' = [total EXCEPT ![c] = @ + m_size(ind[c])]
        /\ ind' = [ind EXCEPT ![c] = @ + 1]
        /\ UNCHANGED <<pc, counting, historyVars>>
    BY <1>11 DEF SizeShard
  <2>3. ind' \in [Clients -> 0 .. m_num_shards]
    BY <1>1, <2>2 DEF Shards
  <2>4. /\ total' \in [Clients -> Int]
        /\ \A d \in Clients : d # c => total'[d] = total[d] /\ ind'[d] = ind[d]
    BY <1>1, <2>1, <2>2 DEF AddingInv
  <2>5. ASSUME NEW d \in Clients, d # c
        PROVE  IF pc'[d] = "size" THEN Adding(d)' ELSE total'[d] = 0
    <3>1. sometime'[d] \subseteq Keys
      BY <2>2 DEF historyVars, AddingInv
    <3> QED BY <2>2, <2>4, <2>5, <3>1, AddingOthers DEF historyVars
  <2> QED BY <2>1, <2>2, <2>3, <2>4, <2>5 DEF AddingInv, historyVars
<1>12. ASSUME NEW c \in Clients, NextKey(c)
       PROVE  AddingInv'
  BY <1>1, <1>12, AddingQuiet DEF NextKey, vars, historyVars
<1>13. CASE UNCHANGED facadeVars
  BY <1>1, <1>13, AddingQuiet DEF facadeVars, vars, historyVars
<1>14. ASSUME NEW k \in Keys, Expire(k)
       PROVE  AddingInv'
  BY <1>14, AddingObserved DEF Expire, callVars
<1> QED
  BY <1>2, <1>3, <1>4, <1>5, <1>6, <1>7, <1>8, <1>9, <1>10, <1>11, <1>12, <1>13, <1>14
     DEF LRUNext, Next, mget

\* The invariants of size(), for finitely many clients and keys.
THEOREM AddingInvariance ==
  ASSUME IsFiniteSet(Clients), IsFiniteSet(Keys)
  PROVE  LRUSpec => [](CountingInv /\ AddingInv)
<1>1. LRUSpec => []Distinct
  BY InitDistinct, DistinctStep, KeysInTheirShards, PTL DEF LRUSpec
<1>2. LRUSpec => []CountingInv
  BY InitCounting, CountingStep, KeysInTheirShards, MgetInvariance, PTL DEF LRUSpec
<1>3. MgetInv /\ Sharded /\ Sharded' /\ Distinct /\ CountingInv /\ AddingInv
        /\ [LRUNext]_facadeVars => AddingInv'
  BY AddingStep
<1>4. LRUSpec => []AddingInv
  BY <1>1, <1>2, <1>3, InitAdding, KeysInTheirShards, MgetInvariance, PTL DEF LRUSpec
<1> QED BY <1>2, <1>4, PTL

\* size() adds up the counters of the shards while they change and lag behind
\* their lists: it misses at most one key per other client, and has at most
\* one too many per shard.
THEOREM SizeIsRegular ==
  ASSUME IsFiniteSet(Clients), IsFiniteSet(Keys)
  PROVE  LRUSpec => []SizeRegular
<1>1. MgetInv /\ Sharded /\ AddingInv => SizeRegular
  <2> SUFFICES ASSUME MgetInv, Sharded, AddingInv,
                      NEW c \in Clients, Finishing(c, "size")
               PROVE  /\ Cardinality(throughout[c]) - (Cardinality(Clients) - 1) <= total[c]
                      /\ total[c] <= Cardinality(sometime[c]) + m_num_shards
    BY DEF SizeRegular
  <2>1. Adding(c) /\ ind[c] = m_num_shards /\ m_num_shards \in Nat
    BY ShardAssumption DEF Finishing, AddingInv
  <2>2. throughout[c] \subseteq Keys /\ sometime[c] \subseteq Keys
    BY DEF MgetInv, Typed, InLists, Listed, ToSet, Sharded, AddingInv
  <2>3. \A k \in Keys : ShardOf[k] < m_num_shards
    BY ShardAssumption DEF Shards
  <2>4. /\ Visited(throughout[c], ind[c]) = throughout[c]
        /\ Visited(sometime[c], ind[c]) = sometime[c]
    BY <2>1, <2>2, <2>3 DEF Visited
  <2>5. PICK M \in SUBSET (Clients \ {c}) : Missing(c, M)
    BY <2>1 DEF Adding
  <2>6. Cardinality(throughout[c]) <= total[c] + Cardinality(M)
    BY <2>4, <2>5 DEF Missing
  <2>7. IsFiniteSet(Clients \ {c}) /\ Cardinality(Clients \ {c}) = Cardinality(Clients) - 1
    BY FS_RemoveElement
  <2>8. /\ Cardinality(M) <= Cardinality(Clients \ {c}) /\ Cardinality(M) \in Nat
        /\ Cardinality(Clients) \in Nat
    <3>1. IsFiniteSet(M) /\ Cardinality(M) <= Cardinality(Clients \ {c})
      BY <2>7, FS_Subset
    <3> QED BY <3>1, FS_CardinalityType
  <2>9. Cardinality(throughout[c]) \in Nat /\ total[c] \in Nat
    BY <2>1, <2>2, SubsetCardinality DEF Adding
  <2>10. total[c] <= Cardinality(sometime[c]) + m_num_shards
    BY <2>1, <2>4 DEF Adding
  <2> QED BY <2>6, <2>7, <2>8, <2>9, <2>10
<1> QED BY <1>1, AddingInvariance, KeysInTheirShards, MgetInvariance, PTL

-----------------------------------------------------------------------------
(* The types, from the invariants above.                                   *)

LatestIsKey == latest \in Keys \cup {NoKey}

LEMMA LatestTyped == Sharded /\ LatestIsKey /\ [LRUNext]_facadeVars => LatestIsKey'
<1> SUFFICES ASSUME Sharded, LatestIsKey, [LRUNext]_facadeVars
             PROVE  latest' \in Keys \cup {NoKey}
  BY DEF LatestIsKey
<1>1. ASSUME NEW c \in Clients, SetEntry(c)
      PROVE  latest' \in Keys \cup {NoKey}
  <2>1. PICK k \in data_vec[c][ind[c]] : latest' \in {latest, k}
    BY <1>1 DEF SetEntry
  <2>2. ind[c] \in Shards
    BY <1>1 DEF SetEntry
  <2>3. k \in Keys
    BY <2>1, <2>2 DEF Sharded
  <2> QED BY <2>1, <2>3 DEF LatestIsKey
<1>2. ASSUME NEW c \in Clients,
             \/ \E batch \in Batches : Insert(c, batch)
             \/ CountEntry(c) \/ InsertNextShard(c) \/ SnapshotShard(c) \/ SizeShard(c)
             \/ \E op \in {"snapshot_keys", "size"} : Begin(c, op)
             \/ Return(c) \/ mget(c) \/ NextKey(c) \/ mgetReturn(c)
      PROVE  latest' = latest
  BY <1>2 DEF Insert, CountEntry, InsertNextShard, SnapshotShard, SizeShard, Begin, Return,
              mget, NextKey, mgetReturn, cacheVars, vars
<1>3. ASSUME NEW i \in Shards, Evict(i) \/ EraseMoribund(i) \/ UncountMoribund(i)
      PROVE  latest' = latest
  BY <1>3 DEF Evict, EraseMoribund, UncountMoribund
<1>4. CASE Clear
  BY <1>4 DEF Clear
<1>5. CASE UNCHANGED facadeVars
  BY <1>5 DEF facadeVars, vars, LatestIsKey
<1>6. ASSUME NEW k \in Keys, Expire(k)
      PROVE  latest' \in {latest, NoKey}
  BY <1>6 DEF Expire
<1> QED BY <1>1, <1>2, <1>3, <1>4, <1>5, <1>6 DEF LRUNext, Next, LatestIsKey

\* Every variable of the sharded cache keeps its type, and every list holds
\* keys of its shard only, none twice.
THEOREM ShardTypes ==
  ASSUME IsFiniteSet(Clients), IsFiniteSet(Keys)
  PROVE  LRUSpec => []TypeOK
<1>1. ASSUME MgetInv, Sharded, Distinct, Copying, CountingInv, AddingInv, LatestIsKey
      PROVE  TypeOK
  <2>1. ASSUME NEW i \in Shards
        PROVE  /\ order[i] \in Seq({k \in Keys : get_shard_ind(k) = i})
               /\ IsInjective(order[i])
    <3>1. /\ order[i] \in Seq(Keys) /\ NoKeyTwice(order[i])
          /\ \A n \in 1 .. Len(order[i]) : ShardOf[order[i][n]] = i
      BY <1>1, <2>1 DEF Sharded, Distinct
    <3>2. IsInjective(order[i])
      BY <3>1 DEF NoKeyTwice, IsInjective
    <3> QED BY <3>1, <3>2 DEF get_shard_ind
  <2>2. total \in [Clients -> Nat]
    BY <1>1 DEF AddingInv, Adding
  <2>3. throughout \in [Clients -> SUBSET Keys]
    BY <1>1 DEF MgetInv, Typed, InLists, Listed, ToSet, Sharded
  <2>4. pc \in [Clients -> {"idle", "insert", "snapshot_keys", "size", "mget"}]
    BY <1>1 DEF MgetInv, Typed, Labels
  <2> QED BY <1>1, <2>1, <2>2, <2>3, <2>4
             DEF TypeOK, Sharded, AddingInv, CountingInv, Copying, LatestIsKey
<1>2. LRUSpec => []Distinct
  BY InitDistinct, DistinctStep, KeysInTheirShards, PTL DEF LRUSpec
<1>3. LRUSpec => []Copying
  BY <1>2, InitCopying, CopyingStep, KeysInTheirShards, MgetInvariance, PTL DEF LRUSpec
<1>4. LRUInit => LatestIsKey
  BY DEF LRUInit, Init, LatestIsKey
<1>5. LRUSpec => []LatestIsKey
  BY <1>4, LatestTyped, KeysInTheirShards, PTL DEF LRUSpec
<1> QED
  BY <1>1, <1>2, <1>3, <1>5, AddingInvariance, KeysInTheirShards, MgetInvariance, PTL
=============================================================================
