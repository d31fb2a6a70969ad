---------------------- MODULE ConcurrentLRUCache_proofs ----------------------
(***************************************************************************)
(* For any sets of keys, clients, evictors and (finitely many) nodes and    *)
(* any clock: IInv and then RefInv are invariants of ConcurrentLRUCache,     *)
(* and the cache implements CacheSpec.                                      *)
(***************************************************************************)
EXTENDS LRUInvariant, LRURefinesCache, SequencesExt, FiniteSetTheorems,
        WellFoundedInduction, TLAPS

-----------------------------------------------------------------------------
(* The pointer operations of the intrusive list.                            *)

\* The nodes of a linked list are those that are not marked.
LEMMA LinkedMembers ==
  ASSUME NEW l \in ListType, NEW S \in SUBSET Nodes, Linked(l, S)
  PROVE  S = {n \in Nodes : l.m_prev[n] /= kOutOfListMarker}
BY SentinelAssumption DEF Linked, ListType, Links

\* delink takes exactly one node out and leaves the others linked.
LEMMA DelinkLinked ==
  ASSUME NEW l \in ListType, NEW S \in SUBSET Nodes, Linked(l, S), NEW node \in S
  PROVE  delink(l, node) \in ListType /\ Linked(delink(l, node), S \ {node})
<1> DEFINE prev == l.m_prev[node]
           next == l.m_next[node]
           m == delink(l, node)
<1>1. /\ prev \in S \cup {m_head} /\ next \in S \cup {m_tail}
      /\ l.m_next[prev] = node /\ l.m_prev[next] = node
  BY DEF Linked
<1>2. /\ m.m_prev = [l.m_prev EXCEPT ![next] = prev, ![node] = kOutOfListMarker]
      /\ m.m_next = [l.m_next EXCEPT ![prev] = next]
      /\ l.m_prev \in [Links -> Links \cup {Null, kOutOfListMarker}]
      /\ l.m_next \in [Links -> Links \cup {Null}]
  BY DEF delink, ListType
<1>3. delink(l, node) \in ListType
  BY <1>1, <1>2 DEF delink, ListType, Links
<1>4. ASSUME NEW n \in (S \ {node}) \cup {m_head}
      PROVE  m.m_next[n] \in (S \ {node}) \cup {m_tail} /\ m.m_prev[m.m_next[n]] = n
  BY <1>1, <1>2, <1>4, SentinelAssumption DEF Linked, Links
<1>5. ASSUME NEW n \in (S \ {node}) \cup {m_tail}
      PROVE  m.m_prev[n] \in (S \ {node}) \cup {m_head} /\ m.m_next[m.m_prev[n]] = n
  BY <1>1, <1>2, <1>5, SentinelAssumption DEF Linked, Links
<1>6. ASSUME NEW n \in Nodes \ (S \ {node})
      PROVE  m.m_prev[n] = kOutOfListMarker
  BY <1>1, <1>2, <1>6, SentinelAssumption DEF Linked, Links
<1> QED
  BY <1>3, <1>4, <1>5, <1>6 DEF Linked

\* push_front puts exactly one node in, behind m_head.
LEMMA PushFrontLinked ==
  ASSUME NEW l \in ListType, NEW S \in SUBSET Nodes, Linked(l, S),
         NEW node \in Nodes \ S
  PROVE  push_front(l, node) \in ListType /\ Linked(push_front(l, node), S \cup {node})
<1> DEFINE old == l.m_next[m_head]
           m == push_front(l, node)
<1>1. old \in S \cup {m_tail} /\ l.m_prev[old] = m_head
  BY DEF Linked
<1>2. /\ m.m_prev = [l.m_prev EXCEPT ![node] = m_head, ![old] = node]
      /\ m.m_next = [l.m_next EXCEPT ![node] = old, ![m_head] = node]
      /\ l.m_prev \in [Links -> Links \cup {Null, kOutOfListMarker}]
      /\ l.m_next \in [Links -> Links \cup {Null}]
  BY DEF push_front, ListType
<1>3. m \in ListType
  BY <1>1, <1>2 DEF push_front, ListType, Links
<1>4. ASSUME NEW n \in (S \cup {node}) \cup {m_head}
      PROVE  m.m_next[n] \in (S \cup {node}) \cup {m_tail} /\ m.m_prev[m.m_next[n]] = n
  BY <1>1, <1>2, <1>4, SentinelAssumption DEF Linked, Links
<1>5. ASSUME NEW n \in (S \cup {node}) \cup {m_tail}
      PROVE  m.m_prev[n] \in (S \cup {node}) \cup {m_head} /\ m.m_next[m.m_prev[n]] = n
  BY <1>1, <1>2, <1>5, SentinelAssumption DEF Linked, Links
<1>6. ASSUME NEW n \in Nodes \ (S \cup {node})
      PROVE  m.m_prev[n] = kOutOfListMarker
  BY <1>1, <1>2, <1>6, SentinelAssumption DEF Linked, Links
<1> QED
  BY <1>3, <1>4, <1>5, <1>6 DEF Linked

-----------------------------------------------------------------------------
(* The actions.                                                             *)

LEMMA TypeFacts ==
  ASSUME IInv
  PROVE  /\ InList \subseteq Nodes
         /\ last \in InList \cup {m_head}
BY DEF IInv, Structure, WellLinked, Linked, InList, last


\* A step that moves no node between its owners preserves Structure, even if it
\* reorders the list.
LEMMA SameOwnersReordered ==
  ASSUME IInv,
         UNCHANGED <<m_map, m_list_node, alloc, m_key, m_size>>,
         InList' = InList,
         WellLinked',
         \A c \in Clients :
           /\ Fresh(c)' <=> Fresh(c)
           /\ pc'[c] = "count" <=> pc[c] = "count"
           /\ Fresh(c) \/ pc[c] = "count" => key'[c] = key[c],
         \A t \in Threads :
           /\ Removing(t)' <=> Removing(t)
           /\ pc'[t] = "delete" <=> pc[t] = "delete"
           /\ Removing(t) \/ pc[t] = "delete" => moribund'[t] = moribund[t]
  PROVE  Structure'
<1> USE DEF IInv, Structure
<1>1. Uncounted' = Uncounted
  BY DEF Uncounted
<1>2. ListedMapped' /\ SizeAccurate'
  BY <1>1 DEF ListedMapped, SizeAccurate
<1>3. MoribundStillMapped' /\ NoDangling' /\ ErasedUnmapped'
  BY DEF MoribundStillMapped, NoDangling, ErasedUnmapped, Removing
<1>4. EveryNodeOwned' /\ FreshUnlinked'
  BY DEF EveryNodeOwned, FreshUnlinked, Removing
<1>5. EveryEntryEvictable'
  BY DEF EveryEntryEvictable, NoDangling, TypeOK, Removing, InList
<1> QED
  BY <1>2, <1>3, <1>4, <1>5

LEMMA SameOwners ==
  ASSUME IInv,
         UNCHANGED <<m_map, m_list_node, alloc, m_key, list, m_size>>,
         \A c \in Clients :
           /\ Fresh(c)' <=> Fresh(c)
           /\ pc'[c] = "count" <=> pc[c] = "count"
           /\ Fresh(c) \/ pc[c] = "count" => key'[c] = key[c],
         \A t \in Threads :
           /\ Removing(t)' <=> Removing(t)
           /\ pc'[t] = "delete" <=> pc[t] = "delete"
           /\ Removing(t) \/ pc[t] = "delete" => moribund'[t] = moribund[t]
  PROVE  Structure'
<1>1. InList' = InList
  BY DEF InList, is_in_list
<1>2. WellLinked'
  BY <1>1 DEF IInv, Structure, WellLinked, Linked
<1> QED
  BY <1>1, <1>2, SameOwnersReordered

LEMMA FindInv ==
  ASSUME IInv, NEW c \in Clients, NEW k \in Keys, Find(c, k)
  PROVE  IInv'
<1> USE DEF Find, mapVars, nodeVars, accessorVars, insertVars, evictVars
<1>1. TypeOK'
  BY SentinelAssumption, ParameterAssumption DEF IInv, TypeOK, Threads, ClientLabels, EvictLabels, EvictingLabels
<1>2. OneEvictor' /\ MutexOwned'
  BY SentinelAssumption DEF IInv, Control, TypeOK, OneEvictor, MutexOwned, Evicting, EvictingLabels, Threads
<1>3. EntriesLocked'
  BY SentinelAssumption DEF IInv, Control, TypeOK, EntriesLocked, HoldsEntry, Readers, Threads
<1>4. DecisionStands'
  BY DEF IInv, Control, TypeOK, DecisionStands, Threads
<1>5. Structure'
  BY SameOwners DEF IInv, TypeOK, Fresh, Removing, Threads
<1> QED
  BY <1>1, <1>2, <1>3, <1>4, <1>5 DEF IInv, Control

LEMMA ReleaseAccessorInv ==
  ASSUME IInv, NEW c \in Clients, ReleaseAccessor(c)
  PROVE  IInv'
<1> USE DEF ReleaseAccessor, mapVars, nodeVars, accessorVars, insertVars, evictVars
<1>1. TypeOK'
  BY SentinelAssumption, ParameterAssumption DEF IInv, TypeOK, Threads, ClientLabels, EvictLabels, EvictingLabels
<1>2. OneEvictor' /\ MutexOwned'
  BY SentinelAssumption DEF IInv, Control, TypeOK, OneEvictor, MutexOwned, Evicting, EvictingLabels, Threads
<1>3. EntriesLocked'
  BY SentinelAssumption DEF IInv, Control, TypeOK, EntriesLocked, HoldsEntry, Readers, Threads
<1>4. DecisionStands'
  BY DEF IInv, Control, TypeOK, DecisionStands, Threads
<1>5. Structure'
  BY SameOwners DEF IInv, TypeOK, Fresh, Removing, Threads
<1> QED
  BY <1>1, <1>2, <1>3, <1>4, <1>5 DEF IInv, Control

LEMMA InsertInv ==
  ASSUME IInv, NEW c \in Clients, NEW batch \in Batches, Insert(c, batch)
  PROVE  IInv'
<1> USE DEF Insert, Goto, mapVars, nodeVars, accessorVars, insertVars, evictVars
<1>1. TypeOK'
  BY SentinelAssumption, ParameterAssumption DEF IInv, TypeOK, Threads, ClientLabels, EvictLabels, EvictingLabels
<1>2. OneEvictor' /\ MutexOwned'
  BY SentinelAssumption DEF IInv, Control, TypeOK, OneEvictor, MutexOwned, Evicting, EvictingLabels, Threads
<1>3. EntriesLocked'
  BY SentinelAssumption DEF IInv, Control, TypeOK, EntriesLocked, HoldsEntry, Readers, Threads
<1>4. DecisionStands'
  BY DEF IInv, Control, TypeOK, DecisionStands, Threads
<1>5. Structure'
  BY SameOwners DEF IInv, TypeOK, Fresh, Removing, Threads
<1> QED
  BY <1>1, <1>2, <1>3, <1>4, <1>5 DEF IInv, Control

LEMMA LockListToLinkInv ==
  ASSUME IInv, NEW c \in Clients, LockListToLink(c)
  PROVE  IInv'
<1> USE DEF LockListToLink, LockList, Goto, mapVars, nodeVars, accessorVars, insertVars, evictVars
<1>1. TypeOK'
  BY SentinelAssumption, ParameterAssumption DEF IInv, TypeOK, Threads, ClientLabels, EvictLabels, EvictingLabels
<1>2. OneEvictor' /\ MutexOwned'
  BY SentinelAssumption DEF IInv, Control, TypeOK, OneEvictor, MutexOwned, Evicting, EvictingLabels, Threads
<1>3. EntriesLocked'
  BY SentinelAssumption DEF IInv, Control, TypeOK, EntriesLocked, HoldsEntry, Readers, Threads
<1>4. DecisionStands'
  BY DEF IInv, Control, TypeOK, DecisionStands, Threads
<1>5. Structure'
  BY SameOwners DEF IInv, TypeOK, Fresh, Removing, Threads
<1> QED
  BY <1>1, <1>2, <1>3, <1>4, <1>5 DEF IInv, Control

LEMMA ReleaseEntryInv ==
  ASSUME IInv, NEW c \in Clients, ReleaseEntry(c)
  PROVE  IInv'
<1> USE DEF ReleaseEntry, WriteUnlock, Goto, mapVars, nodeVars, accessorVars, insertVars, evictVars
<1>1. TypeOK'
  BY SentinelAssumption, ParameterAssumption DEF IInv, TypeOK, Threads, ClientLabels, EvictLabels, EvictingLabels
<1>2. OneEvictor' /\ MutexOwned'
  BY SentinelAssumption DEF IInv, Control, TypeOK, OneEvictor, MutexOwned, Evicting, EvictingLabels, Threads
<1>3. EntriesLocked'
  BY SentinelAssumption DEF IInv, Control, TypeOK, EntriesLocked, HoldsEntry, Readers, Threads
<1>4. DecisionStands'
  BY DEF IInv, Control, TypeOK, DecisionStands, Threads
<1>5. Structure'
  BY SameOwners DEF IInv, TypeOK, Fresh, Removing, Threads
<1> QED
  BY <1>1, <1>2, <1>3, <1>4, <1>5 DEF IInv, Control

LEMMA StartEvictInv ==
  ASSUME IInv, NEW c \in Clients, StartEvict(c)
  PROVE  IInv'
<1> USE DEF StartEvict, Goto, mapVars, nodeVars, accessorVars, insertVars, evictVars
<1>1. TypeOK'
  BY SentinelAssumption, ParameterAssumption DEF IInv, TypeOK, Threads, ClientLabels, EvictLabels, EvictingLabels
<1>2. OneEvictor' /\ MutexOwned'
  BY SentinelAssumption DEF IInv, Control, TypeOK, OneEvictor, MutexOwned, Evicting, EvictingLabels, Threads
<1>3. EntriesLocked'
  BY SentinelAssumption DEF IInv, Control, TypeOK, EntriesLocked, HoldsEntry, Readers, Threads
<1>4. DecisionStands'
  BY DEF IInv, Control, TypeOK, DecisionStands, Threads
<1>5. Structure'
  BY SameOwners DEF IInv, TypeOK, Fresh, Removing, Threads
<1> QED
  BY <1>1, <1>2, <1>3, <1>4, <1>5 DEF IInv, Control

LEMMA TryEvictInv ==
  ASSUME IInv, NEW t \in Threads, TryEvict(t)
  PROVE  IInv'
<1> USE DEF TryEvict, Goto, mapVars, nodeVars, accessorVars, insertVars, evictVars
<1>1. TypeOK'
  <2>1. pc' \in [Threads -> ClientLabels \cup EvictLabels]
    BY DEF IInv, TypeOK, EvictLabels, EvictingLabels
  <2>2. m_evict_flag' \in BOOLEAN
    BY DEF IInv, TypeOK
  <2> QED
    BY <2>1, <2>2 DEF IInv, TypeOK
<1>2. OneEvictor' /\ MutexOwned'
  BY SentinelAssumption DEF IInv, Control, TypeOK, OneEvictor, MutexOwned, Evicting, EvictingLabels, Threads
<1>3. EntriesLocked'
  BY SentinelAssumption DEF IInv, Control, TypeOK, EntriesLocked, HoldsEntry, Readers, Threads
<1>4. DecisionStands'
  BY DEF IInv, Control, TypeOK, DecisionStands, Threads
<1>5. Structure'
  BY SameOwners DEF IInv, TypeOK, Fresh, Removing, Threads
<1> QED
  BY <1>1, <1>2, <1>3, <1>4, <1>5 DEF IInv, Control

LEMMA CheckOverloadInv ==
  ASSUME IInv, NEW t \in Threads, CheckOverload(t)
  PROVE  IInv'
<1> USE DEF CheckOverload, MayRemove, Overloaded, Goto, mapVars, nodeVars, accessorVars, insertVars, evictVars
<1>1. TypeOK'
  BY SentinelAssumption, ParameterAssumption DEF IInv, TypeOK, Threads, ClientLabels, EvictLabels, EvictingLabels
<1>2. OneEvictor' /\ MutexOwned'
  BY SentinelAssumption DEF IInv, Control, TypeOK, OneEvictor, MutexOwned, Evicting, EvictingLabels, Threads
<1>3. EntriesLocked'
  BY SentinelAssumption DEF IInv, Control, TypeOK, EntriesLocked, HoldsEntry, Readers, Threads
<1>4. DecisionStands'
  BY DEF IInv, Control, TypeOK, DecisionStands, Threads
<1>5. Structure'
  BY SameOwners DEF IInv, TypeOK, Fresh, Removing, Threads
<1> QED
  BY <1>1, <1>2, <1>3, <1>4, <1>5 DEF IInv, Control

LEMMA CheckExpiredInv ==
  ASSUME IInv, NEW t \in Threads, CheckExpired(t)
  PROVE  IInv'
<1> USE DEF CheckExpired, Goto, mapVars, nodeVars, accessorVars, insertVars, evictVars
<1>1. TypeOK'
  <2>1. pc' \in [Threads -> ClientLabels \cup EvictLabels]
    BY DEF IInv, TypeOK, EvictLabels, EvictingLabels
  <2>2. timeout_check' \in [Threads -> BOOLEAN]
    BY DEF IInv, TypeOK
  <2> QED
    BY <2>1, <2>2 DEF IInv, TypeOK
<1>2. OneEvictor' /\ MutexOwned'
  BY SentinelAssumption DEF IInv, Control, TypeOK, OneEvictor, MutexOwned, Evicting, EvictingLabels, Threads
<1>3. EntriesLocked'
  BY SentinelAssumption DEF IInv, Control, TypeOK, EntriesLocked, HoldsEntry, Readers, Threads
<1>4. DecisionStands'
  BY DEF IInv, Control, TypeOK, DecisionStands, Threads
<1>5. Structure'
  BY SameOwners DEF IInv, TypeOK, Fresh, Removing, Threads
<1> QED
  BY <1>1, <1>2, <1>3, <1>4, <1>5 DEF IInv, Control

LEMMA LockTailInv ==
  ASSUME IInv, NEW t \in Threads, LockTail(t)
  PROVE  IInv'
<1> USE DEF LockTail, LockList, Goto, mapVars, nodeVars, accessorVars, insertVars, evictVars
<1>1. TypeOK'
  BY SentinelAssumption, ParameterAssumption DEF IInv, TypeOK, Threads, ClientLabels, EvictLabels, EvictingLabels
<1>2. OneEvictor' /\ MutexOwned'
  BY SentinelAssumption DEF IInv, Control, TypeOK, OneEvictor, MutexOwned, Evicting, EvictingLabels, Threads
<1>3. EntriesLocked'
  BY SentinelAssumption DEF IInv, Control, TypeOK, EntriesLocked, HoldsEntry, Readers, Threads
<1>4. DecisionStands'
  BY DEF IInv, Control, TypeOK, DecisionStands, Threads
<1>5. Structure'
  BY SameOwners DEF IInv, TypeOK, Fresh, Removing, Threads
<1> QED
  BY <1>1, <1>2, <1>3, <1>4, <1>5 DEF IInv, Control

LEMMA EndEvictInv ==
  ASSUME IInv, NEW t \in Threads, EndEvict(t)
  PROVE  IInv'
<1> USE DEF EndEvict, Goto, mapVars, nodeVars, accessorVars, insertVars, evictVars
<1>1. TypeOK'
  BY SentinelAssumption, ParameterAssumption DEF IInv, TypeOK, Threads, ClientLabels, EvictLabels, EvictingLabels
<1>2. OneEvictor' /\ MutexOwned'
  BY SentinelAssumption DEF IInv, Control, TypeOK, OneEvictor, MutexOwned, Evicting, EvictingLabels, Threads
<1>3. EntriesLocked'
  BY SentinelAssumption DEF IInv, Control, TypeOK, EntriesLocked, HoldsEntry, Readers, Threads
<1>4. DecisionStands'
  BY DEF IInv, Control, TypeOK, DecisionStands, Threads
<1>5. Structure'
  BY SameOwners DEF IInv, TypeOK, Fresh, Removing, Threads
<1> QED
  BY <1>1, <1>2, <1>3, <1>4, <1>5 DEF IInv, Control

LEMMA SetOldInv ==
  ASSUME IInv, NEW c \in Clients, SetOld(c)
  PROVE  IInv'
<1> USE DEF SetOld, Goto, WriteLock, mapVars, nodeVars, accessorVars, insertVars, evictVars
<1> PICK pair \in todo[c] :
       /\ pair[1] \in m_map
       /\ Unlocked(pair[1])
       /\ writer' = [writer EXCEPT ![pair[1]] = c]
       /\ m_value' = [m_value EXCEPT ![pair[1]] = pair[2]]
       /\ key' = [key EXCEPT ![c] = pair[1]]
       /\ todo' = [todo EXCEPT ![c] = @ \ {pair}]
  OBVIOUS
<1>0. pair[1] \in Keys /\ pair[2] \in Values
  BY DEF IInv, TypeOK
<1>1. TypeOK'
  BY <1>0 DEF IInv, TypeOK, Threads, ClientLabels
<1>2. OneEvictor' /\ MutexOwned'
  BY DEF IInv, Control, TypeOK, OneEvictor, MutexOwned, Evicting, EvictingLabels, Threads
<1>3. EntriesLocked'
  BY <1>0, SentinelAssumption
  DEF IInv, Control, TypeOK, EntriesLocked, HoldsEntry, Unlocked, Readers, Threads,
      Structure, MoribundStillMapped
<1>4. DecisionStands'
  BY DEF IInv, Control, TypeOK, DecisionStands, Threads
<1>5. Structure'
  BY SameOwners DEF IInv, TypeOK, Fresh, Removing, Threads
<1> QED
  BY <1>1, <1>2, <1>3, <1>4, <1>5 DEF IInv, Control

LEMMA FindMoribundInv ==
  ASSUME IInv, NEW t \in Threads, FindMoribund(t)
  PROVE  IInv'
<1> USE DEF FindMoribund, Goto, WriteLock, mapVars, nodeVars, accessorVars, insertVars, evictVars
<1> DEFINE k == m_key[moribund[t]]
<1>0. /\ k \in m_map /\ k \in Keys
      /\ Unlocked(k)
      /\ writer' = [writer EXCEPT ![k] = t]
      /\ pc' = [pc EXCEPT ![t] = "erase"]
      /\ UNCHANGED <<moribund, cnt>>
  BY DEF IInv, Structure, MoribundStillMapped, TypeOK
<1>1. TypeOK'
  BY <1>0 DEF IInv, TypeOK, Threads, EvictLabels, EvictingLabels
<1>2. OneEvictor' /\ MutexOwned'
  BY <1>0 DEF IInv, Control, TypeOK, OneEvictor, MutexOwned, Evicting, EvictingLabels, Threads
<1>3. EntriesLocked'
  BY <1>0, SentinelAssumption
  DEF IInv, Control, TypeOK, EntriesLocked, HoldsEntry, Unlocked, Readers, Threads
<1>4. DecisionStands'
  BY <1>0 DEF IInv, Control, TypeOK, DecisionStands, Threads
<1>5. Structure'
  BY <1>0, SameOwners DEF IInv, TypeOK, Fresh, Removing, Threads
<1> QED
  BY <1>1, <1>2, <1>3, <1>4, <1>5 DEF IInv, Control

\* Moving a node to the front keeps the members of the list.
LEMMA LinkOldList ==
  ASSUME IInv, NEW c \in Clients, LinkOld(c)
  PROVE  list' \in ListType /\ InList' = InList /\ WellLinked'
<1> USE DEF LinkOld, Goto, UnlockList, update_timestamp
<1> DEFINE node == m_list_node[key[c]]
<1>0. node \in Nodes /\ key[c] \in Keys
  BY DEF IInv, Control, EntriesLocked, HoldsEntry, Structure, NoDangling, TypeOK
<1>1. CASE Relinks(node)
  <2>1. node \in InList
    BY <1>0, <1>1 DEF Relinks, InList
  <2>2. list' = push_front(delink(list, node), node)
    BY <1>1 DEF move_to_front
  <2>3. Linked(list, InList) /\ list \in ListType /\ InList \subseteq Nodes
    BY TypeFacts DEF IInv, TypeOK, Structure, WellLinked
  <2>4. delink(list, node) \in ListType /\ Linked(delink(list, node), InList \ {node})
    BY <2>1, <2>3, DelinkLinked
  <2>5. list' \in ListType /\ Linked(list', (InList \ {node}) \cup {node})
    <3>1. node \notin InList \ {node} /\ InList \ {node} \in SUBSET Nodes
      BY <2>3
    <3> QED BY <1>0, <2>2, <2>4, <3>1, PushFrontLinked, SMTT(30)
  <2>6. (InList \ {node}) \cup {node} = InList
    BY <2>1
  <2>7. InList = {n \in Nodes : list'.m_prev[n] /= kOutOfListMarker}
    BY <2>3, <2>5, <2>6, LinkedMembers
  <2>8. InList' = InList
    BY <2>7 DEF InList, is_in_list
  <2> QED
    BY <2>5, <2>6, <2>8 DEF WellLinked
<1>2. CASE ~ Relinks(node)
  <2>1. UNCHANGED list
    BY <1>2
  <2>2. InList' = InList
    BY <2>1 DEF InList, is_in_list
  <2> QED
    BY <2>1, <2>2 DEF IInv, TypeOK, Structure, WellLinked, Linked
<1> QED
  BY <1>1, <1>2

LEMMA LinkOldInv ==
  ASSUME IInv, NEW c \in Clients, LinkOld(c)
  PROVE  IInv'
<1> USE DEF LinkOld, Goto, UnlockList, update_timestamp, mapVars, nodeVars, accessorVars, insertVars, evictVars
<1> DEFINE node == m_list_node[key[c]]
<1>0. node \in Nodes /\ key[c] \in Keys
  BY DEF IInv, Control, EntriesLocked, HoldsEntry, Structure, NoDangling, TypeOK
<1>1. list' \in ListType /\ InList' = InList /\ WellLinked'
  BY LinkOldList
<1>2. m_timestamp' \in [Nodes -> Nat]
  BY <1>0 DEF IInv, TypeOK
<1>3. TypeOK'
  BY <1>1, <1>2, SentinelAssumption DEF IInv, TypeOK, Threads, ClientLabels
<1>4. OneEvictor' /\ MutexOwned'
  BY SentinelAssumption DEF IInv, Control, TypeOK, OneEvictor, MutexOwned, Evicting, EvictingLabels, Threads
<1>5. EntriesLocked' /\ DecisionStands'
  BY SentinelAssumption DEF IInv, Control, TypeOK, EntriesLocked, DecisionStands, HoldsEntry, Readers, Threads
<1>6. Structure'
  BY <1>1, SameOwnersReordered DEF IInv, TypeOK, Fresh, Removing, Threads
<1> QED
  BY <1>3, <1>4, <1>5, <1>6 DEF IInv, Control

LEMMA LinkNewInv ==
  ASSUME IInv, NEW c \in Clients, LinkNew(c)
  PROVE  IInv'
<1> USE DEF LinkNew, Goto, UnlockList, mapVars, nodeVars, accessorVars, insertVars, evictVars
<1> DEFINE node == m_list_node[key[c]]
<1>0. /\ key[c] \in m_map /\ key[c] \in Keys /\ writer[key[c]] = c
      /\ node \in alloc /\ node \in Nodes /\ m_key[node] = key[c]
      /\ node \notin InList
      /\ \A t \in Threads : Removing(t) => moribund[t] /= node
  BY DEF IInv, Control, EntriesLocked, HoldsEntry, Structure, NoDangling, FreshUnlinked, Fresh, TypeOK
<1>1. list' \in ListType /\ InList' = InList \cup {node} /\ WellLinked'
  <2>1. Linked(list, InList) /\ list \in ListType /\ InList \subseteq Nodes
    BY TypeFacts DEF IInv, TypeOK, Structure, WellLinked
  <2>2. list' = push_front(list, node)
    OBVIOUS
  <2>3. list' \in ListType /\ Linked(list', InList \cup {node})
    BY <1>0, <2>1, <2>2, PushFrontLinked
  <2>4. InList \cup {node} = {n \in Nodes : list'.m_prev[n] /= kOutOfListMarker}
    BY <1>0, <2>1, <2>3, LinkedMembers
  <2>5. InList' = InList \cup {node}
    BY <2>4 DEF InList, is_in_list
  <2> QED
    BY <2>3, <2>5 DEF WellLinked
<1>2. TypeOK'
  BY <1>1, SentinelAssumption DEF IInv, TypeOK, Threads, ClientLabels
<1>3. OneEvictor' /\ MutexOwned'
  BY SentinelAssumption DEF IInv, Control, TypeOK, OneEvictor, MutexOwned, Evicting, EvictingLabels, Threads
<1>4. EntriesLocked' /\ DecisionStands'
  BY SentinelAssumption DEF IInv, Control, TypeOK, EntriesLocked, DecisionStands, HoldsEntry, Readers, Threads
<1>5. MoribundStillMapped' /\ EveryNodeOwned' /\ ErasedUnmapped'
  BY DEF IInv, TypeOK, Structure, MoribundStillMapped, EveryNodeOwned, ErasedUnmapped
<1>6. NoDangling'
  BY <1>0, <1>1 DEF IInv, TypeOK, Structure, NoDangling, Removing, ErasedUnmapped, Threads
<1>7. ListedMapped'
  BY <1>0, <1>1 DEF IInv, Structure, ListedMapped
<1>8. EveryEntryEvictable'
  <2> SUFFICES ASSUME NEW k \in m_map
               PROVE  \/ m_list_node[k] \in InList'
                      \/ \E d \in Clients : Fresh(d)' /\ key[d] = k
                      \/ \E t \in Threads : Removing(t)' /\ moribund[t] = m_list_node[k]
    BY <1>1 DEF EveryEntryEvictable, IInv, TypeOK, Structure, NoDangling, InList, Removing
  <2>1. m_list_node[k] \in Nodes
    BY DEF IInv, TypeOK, Structure, NoDangling
  <2>2. CASE m_list_node[k] \in InList
    BY <1>1, <2>2
  <2>3. CASE \E d \in Clients : Fresh(d) /\ key[d] = k
    BY <1>1, <2>3 DEF IInv, TypeOK, Fresh, Threads
  <2>4. CASE \E t \in Threads : Removing(t) /\ moribund[t] = m_list_node[k]
    BY <2>4 DEF IInv, TypeOK, Removing, Threads
  <2> QED
    BY <2>1, <2>2, <2>3, <2>4 DEF IInv, Structure, EveryEntryEvictable, InList, Removing
<1>9. FreshUnlinked'
  <2> SUFFICES ASSUME NEW d \in Clients, Fresh(d)'
               PROVE  /\ m_list_node[key[d]] \notin InList'
                      /\ \A t \in Threads : Removing(t)' => moribund[t] /= m_list_node[key[d]]
    BY DEF FreshUnlinked, Removing
  <2>1. d /= c /\ Fresh(d)
    BY DEF Fresh, IInv, TypeOK, Threads
  <2>2. key[d] \in m_map /\ key[d] /= key[c] /\ m_key[m_list_node[key[d]]] = key[d]
    BY <1>0, <2>1 DEF IInv, Control, EntriesLocked, HoldsEntry, Fresh, Structure, NoDangling
  <2>3. m_list_node[key[d]] \notin InList /\ m_list_node[key[d]] /= node
    BY <1>0, <2>1, <2>2 DEF IInv, Structure, FreshUnlinked
  <2> QED
    BY <1>1, <2>1, <2>3 DEF IInv, TypeOK, Structure, FreshUnlinked, Removing, Threads
<1>10. SizeAccurate'
  <2>1. Uncounted' = Uncounted
    BY DEF Uncounted, Fresh, IInv, TypeOK, Threads
  <2> QED
    BY <2>1 DEF IInv, Structure, SizeAccurate
<1> QED
  BY <1>1, <1>2, <1>3, <1>4, <1>5, <1>6, <1>7, <1>8, <1>9, <1>10 DEF IInv, Control, Structure

LEMMA DelinkTailInv ==
  ASSUME IInv, NEW t \in Threads, DelinkTail(t)
  PROVE  IInv'
<1> USE DEF DelinkTail, Goto, UnlockList, mapVars, nodeVars, accessorVars, insertVars, evictVars
<1>1. CASE Removable(t)
  <2>0. last \in InList /\ last \in Nodes
    BY <1>1, TypeFacts DEF Removable
  <2>1. list' \in ListType /\ InList' = InList \ {last} /\ WellLinked'
    <3>1. Linked(list, InList) /\ list \in ListType /\ InList \subseteq Nodes
      BY TypeFacts DEF IInv, TypeOK, Structure, WellLinked
    <3>2. list' = delink(list, last)
      BY <1>1
    <3>3. list' \in ListType /\ Linked(list', InList \ {last})
      BY <2>0, <3>1, <3>2, DelinkLinked
    <3>4. InList \ {last} = {n \in Nodes : list'.m_prev[n] /= kOutOfListMarker}
      BY <3>1, <3>3, LinkedMembers
    <3>5. InList' = InList \ {last}
      BY <3>4 DEF InList, is_in_list
    <3> QED
      BY <3>3, <3>5 DEF WellLinked
  <2>2. /\ moribund' = [moribund EXCEPT ![t] = last]
        /\ pc' = [pc EXCEPT ![t] = "find"]
        /\ UNCHANGED cnt
    BY <1>1
  <2>3. TypeOK'
    BY <2>0, <2>1, <2>2, SentinelAssumption DEF IInv, TypeOK, Threads, EvictLabels, EvictingLabels
  <2>4. OneEvictor' /\ MutexOwned'
    BY <2>2, SentinelAssumption DEF IInv, Control, TypeOK, OneEvictor, MutexOwned, Evicting, EvictingLabels, Threads
  <2>5. EntriesLocked' /\ DecisionStands'
    BY <2>2, SentinelAssumption DEF IInv, Control, TypeOK, EntriesLocked, DecisionStands, HoldsEntry, Readers, Threads
  <2>6. m_key[last] \in m_map /\ m_list_node[m_key[last]] = last /\ last \in alloc
    BY <2>0 DEF IInv, Structure, ListedMapped, NoDangling
  <2>7. \A u \in Threads : u /= t => ~ Removing(u) /\ pc[u] /= "delete"
    BY DEF IInv, Control, OneEvictor, Evicting, EvictingLabels, Removing
  <2>8. MoribundStillMapped' /\ NoDangling' /\ ListedMapped'
    BY <2>1, <2>2, <2>6, <2>7 DEF IInv, TypeOK, Structure, MoribundStillMapped, NoDangling, ListedMapped, Removing, Threads
  <2>9. EveryNodeOwned' /\ ErasedUnmapped'
    BY <2>2, <2>7 DEF IInv, TypeOK, Structure, EveryNodeOwned, ErasedUnmapped, Threads
  <2>10. FreshUnlinked'
    BY <2>0, <2>1, <2>2, <2>7 DEF IInv, TypeOK, Structure, FreshUnlinked, Removing, Fresh, Threads
  <2>11. EveryEntryEvictable'
    <3> SUFFICES ASSUME NEW k \in m_map
                 PROVE  \/ m_list_node[k] \in InList'
                        \/ \E d \in Clients : Fresh(d)' /\ key[d] = k
                        \/ \E u \in Threads : Removing(u)' /\ moribund'[u] = m_list_node[k]
      BY <2>1 DEF EveryEntryEvictable, IInv, TypeOK, Structure, NoDangling, InList, Removing
    <3>1. m_list_node[k] \in Nodes
      BY DEF IInv, TypeOK, Structure, NoDangling
    <3>2. CASE m_list_node[k] \in InList
      BY <2>1, <2>2, <3>2 DEF IInv, TypeOK, Removing, Threads
    <3>3. CASE \E d \in Clients : Fresh(d) /\ key[d] = k
      BY <2>2, <3>3 DEF IInv, TypeOK, Fresh, Threads
    <3>4. CASE \E u \in Threads : Removing(u) /\ moribund[u] = m_list_node[k]
      BY <2>7, <3>4 DEF Removing
    <3> QED
      BY <3>1, <3>2, <3>3, <3>4 DEF IInv, Structure, EveryEntryEvictable, InList, Removing
  <2>12. SizeAccurate'
    <3>1. Uncounted' = Uncounted
      BY <2>2 DEF Uncounted, Fresh, IInv, TypeOK, Threads
    <3> QED
      BY <3>1 DEF IInv, Structure, SizeAccurate
  <2> QED
    BY <2>1, <2>3, <2>4, <2>5, <2>8, <2>9, <2>10, <2>11, <2>12 DEF IInv, Control, Structure
<1>2. CASE ~ Removable(t)
  <2>1. AfterRemove(t) /\ UNCHANGED <<list, moribund>>
    BY <1>2
  <2>2. TypeOK'
    BY <2>1, SentinelAssumption DEF AfterRemove, IInv, TypeOK, Threads, EvictLabels, EvictingLabels
  <2>3. OneEvictor' /\ MutexOwned'
    BY <2>1, SentinelAssumption DEF AfterRemove, IInv, Control, TypeOK, OneEvictor, MutexOwned, Evicting, EvictingLabels, Threads
  <2>4. EntriesLocked' /\ DecisionStands'
    BY <2>1, SentinelAssumption DEF AfterRemove, IInv, Control, TypeOK, EntriesLocked, DecisionStands, HoldsEntry, Readers, Threads
  <2>5. Structure'
    BY <2>1, SameOwners DEF AfterRemove, IInv, TypeOK, Fresh, Removing, Threads
  <2> QED
    BY <2>2, <2>3, <2>4, <2>5 DEF IInv, Control
<1> QED
  BY <1>1, <1>2

LEMMA SetNewInv ==
  ASSUME IInv, NEW c \in Clients, SetNew(c)
  PROVE  IInv'
<1> USE DEF SetNew, Goto, WriteLock, mapVars, nodeVars, accessorVars, insertVars, evictVars
<1> PICK pair \in todo[c], node \in Nodes \ alloc :
       /\ pair[1] \notin m_map
       /\ m_map' = m_map \cup {pair[1]}
       /\ writer' = [writer EXCEPT ![pair[1]] = c]
       /\ m_value' = [m_value EXCEPT ![pair[1]] = pair[2]]
       /\ m_list_node' = [m_list_node EXCEPT ![pair[1]] = node]
       /\ alloc' = alloc \cup {node}
       /\ m_key' = [m_key EXCEPT ![node] = pair[1]]
       /\ m_timestamp' = [m_timestamp EXCEPT ![node] = now]
       /\ key' = [key EXCEPT ![c] = pair[1]]
       /\ todo' = [todo EXCEPT ![c] = @ \ {pair}]
  OBVIOUS
<1> DEFINE k == pair[1]
<1>0. /\ k \in Keys /\ pair[2] \in Values
      /\ InList' = InList /\ InList \subseteq alloc /\ InList \subseteq Nodes
      /\ c \in Threads
  BY DEF IInv, TypeOK, Structure, NoDangling, InList, is_in_list, Threads
<1>1. TypeOK'
  BY <1>0 DEF IInv, TypeOK, Threads, ClientLabels
<1>2. OneEvictor' /\ MutexOwned'
  BY DEF IInv, Control, TypeOK, OneEvictor, MutexOwned, Evicting, EvictingLabels, Threads
<1>3. \A t \in Threads :
        /\ pc[t] \in {"find", "erase"} => m_key[moribund[t]] \in m_map
        /\ pc[t] \in {"find", "erase", "delete"} => moribund[t] \in alloc
  BY DEF IInv, Structure, MoribundStillMapped, NoDangling
<1>4. EntriesLocked'
  BY <1>0, <1>3, SentinelAssumption
  DEF IInv, Control, TypeOK, EntriesLocked, HoldsEntry, Readers, Threads
<1>5. DecisionStands' /\ WellLinked'
  BY <1>0 DEF IInv, Control, TypeOK, Structure, DecisionStands, WellLinked, Linked, Threads
<1>6. MoribundStillMapped' /\ NoDangling' /\ ErasedUnmapped'
  BY <1>0, <1>3
  DEF IInv, TypeOK, Structure, MoribundStillMapped, NoDangling, ErasedUnmapped, Threads
<1>7. EveryNodeOwned' /\ ListedMapped'
  <2>1. EveryNodeOwned'
    BY <1>0, SMTT(30) DEF IInv, TypeOK, Structure, EveryNodeOwned, Threads
  <2>2. ListedMapped'
    BY <1>0, SMTT(30) DEF IInv, TypeOK, Structure, NoDangling, ListedMapped, Threads
  <2> QED BY <2>1, <2>2
<1>8. EveryEntryEvictable'
  <2> SUFFICES ASSUME NEW j \in m_map'
               PROVE  \/ m_list_node'[j] \in InList
                      \/ \E d \in Clients : Fresh(d)' /\ key'[d] = j
                      \/ \E t \in Threads : Removing(t)' /\ moribund[t] = m_list_node'[j]
    BY <1>0, <1>1 DEF EveryEntryEvictable, InList, Removing, TypeOK, is_in_list
  <2>1. CASE j = k
    BY <1>0, <2>1 DEF IInv, TypeOK, Fresh
  <2>2. CASE j /= k
    <3>1. j \in m_map /\ m_list_node'[j] = m_list_node[j] /\ m_list_node[j] \in Nodes
      BY <2>2 DEF IInv, TypeOK, Structure, NoDangling
    <3>2. \A d \in Clients : Fresh(d) => Fresh(d)' /\ key'[d] = key[d]
      BY <1>0 DEF IInv, TypeOK, Fresh, Threads
    <3>3. \A t \in Threads : Removing(t) => Removing(t)'
      BY <1>0 DEF IInv, TypeOK, Removing, Threads
    <3> QED
      BY <3>1, <3>2, <3>3 DEF IInv, Structure, EveryEntryEvictable, InList, Removing
  <2> QED
    BY <2>1, <2>2
<1>9. FreshUnlinked'
  <2>1. \A d \in Clients : Fresh(d)' =>
          d = c \/ (Fresh(d) /\ key'[d] = key[d] /\ key[d] \in m_map)
    BY <1>0 DEF IInv, TypeOK, Control, EntriesLocked, HoldsEntry, Fresh, Threads
  <2>2. \A d \in Clients : d /= c /\ Fresh(d)' => m_list_node'[key'[d]] = m_list_node[key[d]]
    BY <2>1 DEF IInv, TypeOK
  <2>3. m_list_node'[key'[c]] = node
    BY <1>0 DEF IInv, TypeOK
  <2>4. \A t \in Threads : Removing(t)' => Removing(t)
    BY <1>0 DEF IInv, TypeOK, Removing, Threads
  <2> QED
    BY <1>0, <1>3, <2>1, <2>2, <2>3, <2>4 DEF IInv, Structure, FreshUnlinked, Removing
<1>10. SizeAccurate'
  <2>1. \A d \in Clients :
          (Fresh(d) \/ pc[d] = "count") =>
             /\ d /= c /\ key[d] \in m_map /\ key[d] /= k
             /\ m_list_node[key[d]] \in alloc
    BY DEF IInv, Control, EntriesLocked, HoldsEntry, Fresh, Structure, NoDangling
  <2>2. Uncounted' = Uncounted \cup {node}
    BY <1>0, <2>1 DEF Uncounted, Fresh, IInv, TypeOK
  <2>3. alloc' \ Uncounted' = alloc \ Uncounted
    BY <2>2
  <2> QED
    BY <2>3 DEF IInv, Structure, SizeAccurate
<1> QED
  BY <1>1, <1>2, <1>4, <1>5, <1>6, <1>7, <1>8, <1>9, <1>10 DEF IInv, Control, Structure

\* Arithmetic on size_t does not wrap around while m_size counts nodes.
LEMMA SizeFacts ==
  ASSUME IInv
  PROVE  /\ IsFiniteSet(alloc \ Uncounted)
         /\ m_size = Cardinality(alloc \ Uncounted)
         /\ \A S \in SUBSET Nodes : /\ IsFiniteSet(S)
                                    /\ Cardinality(S) \in Nat
                                    /\ Cardinality(S) < SizeMod
<1>1. \A S \in SUBSET Nodes : IsFiniteSet(S) /\ Cardinality(S) <= Cardinality(Nodes)
  BY HeapAssumption, FS_Subset
<1>2. Cardinality(Nodes) \in Nat /\ \A S \in SUBSET Nodes : Cardinality(S) \in Nat
  BY <1>1, HeapAssumption, FS_CardinalityType
<1>3. alloc \ Uncounted \in SUBSET Nodes
  BY DEF IInv, TypeOK
<1> QED
  BY <1>1, <1>2, <1>3, HeapAssumption DEF IInv, Structure, SizeAccurate

LEMMA ModSmall == ASSUME NEW a \in Nat, NEW b \in Nat, a < b PROVE a % b = a
  BY SMT

LEMMA CountNewInv ==
  ASSUME IInv, NEW c \in Clients, CountNew(c)
  PROVE  IInv'
<1> USE DEF CountNew, Goto, mapVars, nodeVars, accessorVars, insertVars, evictVars
<1> DEFINE node == m_list_node[key[c]]
<1>0. /\ key[c] \in m_map /\ writer[key[c]] = c
      /\ node \in alloc /\ node \in Nodes /\ m_key[node] = key[c]
      /\ c \in Threads
  BY DEF IInv, Control, EntriesLocked, HoldsEntry, Structure, NoDangling, TypeOK, Threads
<1>1. \A d \in Clients : d /= c /\ (Fresh(d) \/ pc[d] = "count") =>
        /\ key[d] \in m_map
        /\ m_list_node[key[d]] /= node
  BY <1>0 DEF IInv, Control, EntriesLocked, HoldsEntry, Fresh, Structure, NoDangling
<1>2. Uncounted' = Uncounted \ {node} /\ node \in Uncounted
  BY <1>0, <1>1 DEF Uncounted, Fresh, IInv, TypeOK
<1> DEFINE S == alloc \ Uncounted
<1>3. /\ alloc' \ Uncounted' = S \cup {node}
      /\ Cardinality(S \cup {node}) = m_size + 1
  <2>1. alloc' \ Uncounted' = S \cup {node} /\ node \notin S
    BY <1>0, <1>2
  <2>2. IsFiniteSet(S) /\ m_size = Cardinality(S)
    BY SizeFacts
  <2> HIDE DEF S
  <2>3. Cardinality(S \cup {node}) = Cardinality(S) + 1
    BY <2>1, <2>2, FS_AddElement
  <2> QED
    BY <2>1, <2>2, <2>3
<1>4. m_size' = m_size + 1 /\ m_size' \in Nat
  <2>1. S \cup {node} \in SUBSET Nodes
    BY <1>0 DEF IInv, TypeOK
  <2>2. m_size \in Nat /\ m_size + 1 < SizeMod /\ SizeMod \in Nat
    BY <1>3, <2>1, SizeFacts, HeapAssumption DEF IInv, TypeOK
  <2>3. (m_size + 1) % SizeMod = m_size + 1
    BY <2>2, ModSmall
  <2> QED
    BY <2>2, <2>3
<1>5. TypeOK'
  BY <1>4 DEF IInv, TypeOK, Threads, ClientLabels
<1>6. OneEvictor' /\ MutexOwned'
  BY DEF IInv, Control, TypeOK, OneEvictor, MutexOwned, Evicting, EvictingLabels, Threads
<1>7. EntriesLocked' /\ DecisionStands'
  BY <1>4, SentinelAssumption, ParameterAssumption
  DEF IInv, Control, TypeOK, EntriesLocked, DecisionStands, HoldsEntry, Readers, Threads
<1>8. InList' = InList
  BY DEF InList, is_in_list
<1>9. WellLinked' /\ ListedMapped'
  BY <1>8 DEF IInv, Structure, WellLinked, Linked, ListedMapped
<1>10. MoribundStillMapped' /\ NoDangling' /\ ErasedUnmapped'
  BY <1>8 DEF IInv, TypeOK, Structure, MoribundStillMapped, NoDangling, ErasedUnmapped
<1>11. EveryNodeOwned' /\ EveryEntryEvictable' /\ FreshUnlinked'
  BY <1>8
  DEF IInv, TypeOK, Structure, EveryNodeOwned, EveryEntryEvictable, FreshUnlinked,
      Fresh, Removing, is_in_list, Threads
<1> QED
  BY <1>3, <1>4, <1>5, <1>6, <1>7, <1>9, <1>10, <1>11 DEF IInv, Control, Structure, SizeAccurate

LEMMA EraseMoribundInv ==
  ASSUME IInv, NEW t \in Threads, EraseMoribund(t)
  PROVE  IInv'
<1> USE DEF EraseMoribund, Goto, WriteUnlock, mapVars, nodeVars, accessorVars, insertVars, evictVars
<1> DEFINE k == m_key[moribund[t]]
<1>0. /\ k \in m_map /\ k \in Keys /\ writer[k] = t /\ t /= NoThread
      /\ m_list_node[k] = moribund[t]
      /\ moribund[t] \in alloc \ InList /\ moribund[t] \in Nodes
      /\ InList' = InList
  BY SentinelAssumption
  DEF IInv, TypeOK, Control, EntriesLocked, Structure, MoribundStillMapped, NoDangling,
      InList, is_in_list, Threads
<1>1. \A c \in Clients :
        /\ HoldsEntry(c) => c /= t /\ key[c] /= k
        /\ accessor[c] /= k
  BY <1>0, SentinelAssumption
  DEF IInv, TypeOK, Control, EntriesLocked, HoldsEntry, Readers
<1>2. \A u \in Threads : u /= t => ~ Removing(u) /\ pc[u] /= "delete"
  BY DEF IInv, Control, OneEvictor, Evicting, EvictingLabels, Removing
<1>3. TypeOK'
  BY <1>0, SentinelAssumption DEF IInv, TypeOK, Threads, EvictLabels, EvictingLabels
<1>4. OneEvictor' /\ MutexOwned'
  BY DEF IInv, Control, TypeOK, OneEvictor, MutexOwned, Evicting, EvictingLabels
<1>5. EntriesLocked'
  BY <1>0, <1>1, <1>2, SentinelAssumption
  DEF IInv, TypeOK, Control, EntriesLocked, HoldsEntry, Readers, Removing, Threads
<1>6. DecisionStands' /\ WellLinked'
  BY <1>0 DEF IInv, TypeOK, Control, Structure, DecisionStands, WellLinked, Linked
<1>7. MoribundStillMapped'
  BY <1>2 DEF IInv, TypeOK, MoribundStillMapped, Removing
<1>8. NoDangling' /\ ErasedUnmapped'
  BY <1>0, <1>2
  DEF IInv, TypeOK, Structure, NoDangling, ErasedUnmapped, Removing
<1>9. ListedMapped'
  BY <1>0 DEF IInv, TypeOK, Structure, ListedMapped, NoDangling
<1>10. EveryNodeOwned'
  BY <1>0, <1>2 DEF IInv, TypeOK, Structure, EveryNodeOwned
<1>11. FreshUnlinked'
  BY <1>0, <1>1, <1>2
  DEF IInv, TypeOK, Structure, FreshUnlinked, Fresh, HoldsEntry, Removing, Threads
<1>12. EveryEntryEvictable'
  <2> SUFFICES ASSUME NEW j \in m_map, j /= k
               PROVE  \/ m_list_node'[j] \in InList
                      \/ \E d \in Clients : Fresh(d)' /\ key[d] = j
                      \/ \E u \in Threads : Removing(u)' /\ moribund[u] = m_list_node'[j]
    BY <1>0, <1>3 DEF EveryEntryEvictable, InList, Removing, TypeOK, is_in_list, IInv, Structure, NoDangling
  <2>1. m_list_node'[j] = m_list_node[j] /\ m_list_node[j] \in Nodes /\ m_key[m_list_node[j]] = j
    BY DEF IInv, TypeOK, Structure, NoDangling
  <2>2. \A d \in Clients : Fresh(d) => Fresh(d)'
    BY <1>1 DEF IInv, TypeOK, Fresh, HoldsEntry, Threads
  <2>3. \A u \in Threads : Removing(u) => moribund[u] /= m_list_node[j]
    BY <1>0, <1>2, <2>1
  <2> QED
    BY <2>1, <2>2, <2>3 DEF IInv, Structure, EveryEntryEvictable, InList, Removing
<1>13. SizeAccurate'
  <2>1. Uncounted' = Uncounted
    BY <1>0, <1>1 DEF Uncounted, Fresh, HoldsEntry, IInv, TypeOK, Threads
  <2> QED
    BY <2>1 DEF IInv, Structure, SizeAccurate
<1> QED
  BY <1>3, <1>4, <1>5, <1>6, <1>7, <1>8, <1>9, <1>10, <1>11, <1>12, <1>13
  DEF IInv, Control, Structure

LEMMA DeleteMoribundInv ==
  ASSUME IInv, NEW t \in Threads, DeleteMoribund(t)
  PROVE  IInv'
<1> USE DEF DeleteMoribund, Delete, Goto, mapVars, nodeVars, accessorVars, insertVars, evictVars
<1> DEFINE node == moribund[t]
           S == alloc \ Uncounted
<1>0. /\ node \in alloc /\ node \in Nodes /\ node \notin InList
      /\ \A k \in m_map : m_list_node[k] /= node
  BY DEF IInv, TypeOK, Structure, NoDangling, ErasedUnmapped
<1>1. \A u \in Threads : u /= t => ~ Removing(u) /\ pc[u] /= "delete" /\ ~ Evicting(u)
  BY DEF IInv, Control, OneEvictor, Evicting, EvictingLabels, Removing
<1>2. \A c \in Clients : HoldsEntry(c) => m_list_node[key[c]] /= node
  BY <1>0 DEF IInv, Control, EntriesLocked
<1>3. /\ pc' \in [Threads -> ClientLabels \cup EvictLabels]
      /\ cnt' \in [Threads -> Nat]
      /\ \A u \in Threads : u /= t => pc'[u] = pc[u]
      /\ pc'[t] \in {"overload", "expire", "done"}
  BY DEF AfterRemove, IInv, TypeOK, EvictLabels, EvictingLabels
<1>4. list' \in ListType /\ InList' = InList /\ list'.m_prev = list.m_prev
      /\ \A n \in Links : n /= node => list'.m_next[n] = list.m_next[n]
  BY DEF IInv, TypeOK, ListType, InList, is_in_list
<1>5. m_size' \in Nat /\ m_size' = Cardinality(S \ {node})
  <2>1. IsFiniteSet(S) /\ m_size = Cardinality(S) /\ S \in SUBSET Nodes
    BY SizeFacts DEF IInv, TypeOK
  <2>2. node \in S
    BY <1>0, <1>2 DEF Uncounted, Fresh, HoldsEntry
  <2>3. S \ {node} \in SUBSET Nodes
    BY <2>1
  <2>4. Cardinality(S \ {node}) \in Nat /\ Cardinality(S \ {node}) < SizeMod
    BY <2>3, SizeFacts
  <2> HIDE DEF S
  <2>5. Cardinality(S \ {node}) = m_size - 1
    BY <2>1, <2>2, FS_RemoveElement
  <2>6. (m_size - 1) % SizeMod = m_size - 1
    BY <2>4, <2>5, HeapAssumption, ModSmall
  <2> QED
    BY <2>4, <2>5, <2>6
<1>6. TypeOK'
  BY <1>3, <1>4, <1>5 DEF IInv, TypeOK, AfterRemove
<1>7. OneEvictor' /\ MutexOwned'
  BY <1>1, <1>3 DEF IInv, Control, TypeOK, OneEvictor, MutexOwned, Evicting, EvictingLabels
<1>8. EntriesLocked'
  <2>1. \A c \in Clients : HoldsEntry(c)' => HoldsEntry(c)
    BY <1>3 DEF HoldsEntry, Threads
  <2>2. \A u \in Threads : pc'[u] /= "erase"
    BY <1>1, <1>3 DEF Removing
  <2> QED
    BY <2>1, <2>2 DEF IInv, Control, EntriesLocked, Readers
<1>9. DecisionStands'
  BY <1>1, <1>3 DEF IInv, Control, DecisionStands, Evicting, EvictingLabels
<1>10. WellLinked'
  BY <1>0, <1>4, SentinelAssumption
  DEF IInv, TypeOK, Structure, WellLinked, Linked, Links, InList
<1>11. /\ \A u \in Threads : ~ Removing(u)' /\ pc'[u] /= "delete"
       /\ \A c \in Clients : Fresh(c)' <=> Fresh(c)
       /\ \A c \in Clients : pc'[c] = "count" <=> pc[c] = "count"
  BY <1>1, <1>3 DEF Removing, Fresh, Threads
<1>12. MoribundStillMapped' /\ NoDangling' /\ ErasedUnmapped'
  BY <1>0, <1>4, <1>11
  DEF IInv, TypeOK, Structure, MoribundStillMapped, NoDangling, ErasedUnmapped, Removing
<1>13. ListedMapped' /\ FreshUnlinked'
  BY <1>0, <1>4, <1>11 DEF IInv, TypeOK, Structure, ListedMapped, FreshUnlinked
<1>14. EveryNodeOwned'
  BY <1>0, <1>1 DEF IInv, TypeOK, Structure, EveryNodeOwned
<1>15. EveryEntryEvictable'
  <2>1. \A k \in m_map : m_list_node[k] \in InList \/ \E c \in Clients : Fresh(c) /\ key[c] = k
    BY <1>0, <1>1
    DEF IInv, TypeOK, Structure, EveryEntryEvictable, NoDangling, Removing, InList
  <2> QED
    BY <2>1, <1>4, <1>11 DEF EveryEntryEvictable, InList, is_in_list
<1>16. SizeAccurate'
  <2>1. Uncounted' = Uncounted
    BY <1>11 DEF Uncounted
  <2>2. alloc' \ Uncounted' = S \ {node}
    BY <2>1
  <2> QED
    BY <1>5, <2>2 DEF SizeAccurate
<1> QED
  BY <1>6, <1>7, <1>8, <1>9, <1>10, <1>12, <1>13, <1>14, <1>15, <1>16
  DEF IInv, Control, Structure

\* An empty list is linked.
LEMMA EmptyLinked == EmptyList \in ListType /\ Linked(EmptyList, {})
<1> DEFINE prev == [x \in Links |-> CASE x = m_head -> Null
                                      [] x = m_tail -> m_head
                                      [] OTHER -> kOutOfListMarker]
           next == [x \in Links |-> IF x = m_head THEN m_tail ELSE Null]
<1>1. EmptyList.m_prev = prev /\ EmptyList.m_next = next
  BY DEF EmptyList
<1>2. \A n \in Nodes : n /= m_head /\ n /= m_tail
  BY SentinelAssumption
<1>3. prev \in [Links -> Links \cup {Null, kOutOfListMarker}] /\ next \in [Links -> Links \cup {Null}]
  BY DEF Links
<1>4. prev[m_tail] = m_head /\ next[m_head] = m_tail /\ \A n \in Nodes : prev[n] = kOutOfListMarker
  BY <1>2, SentinelAssumption DEF Links
<1> QED
  BY <1>1, <1>3, <1>4 DEF EmptyList, ListType, Linked

LEMMA ClearInv ==
  ASSUME IInv, Clear, ~ ClearBesideEvict
  PROVE  IInv'
<1> USE DEF Clear, mapVars, nodeVars, accessorVars, insertVars, evictVars
<1>1. \A t \in Threads : pc'[t] = "idle" /\ pc[t] = "idle"
  BY DEF Threads
<1>2. alloc' = {}
  <2>1. \A n \in alloc : m_key[n] \in m_map /\ m_list_node[m_key[n]] = n
    BY <1>1 DEF IInv, Structure, EveryNodeOwned
  <2>2. \A k \in m_map : m_list_node[k] \in InList
    BY <1>1
    DEF IInv, TypeOK, Structure, EveryEntryEvictable, NoDangling, Fresh, InList, Threads
  <2> QED
    BY <2>1, <2>2
<1>3. InList' = {} /\ list' \in ListType /\ Linked(list', {})
  <2>1. list' \in ListType /\ Linked(list', {})
    BY EmptyLinked
  <2>2. {} = {n \in Nodes : list'.m_prev[n] /= kOutOfListMarker}
    BY <2>1, LinkedMembers
  <2> QED
    BY <2>1, <2>2 DEF InList, is_in_list
<1>4. TypeOK'
  BY <1>2, <1>3, SentinelAssumption DEF IInv, TypeOK
<1>5. Control'
  BY <1>1, SentinelAssumption
  DEF IInv, TypeOK, Control, OneEvictor, MutexOwned, EntriesLocked, DecisionStands,
      Evicting, EvictingLabels, HoldsEntry, Readers, Threads
<1>6. SizeAccurate'
  BY <1>2, FS_EmptySet DEF SizeAccurate
<1>7. MoribundStillMapped' /\ NoDangling' /\ EveryNodeOwned' /\ EveryEntryEvictable'
  BY <1>1, <1>2, <1>3
  DEF MoribundStillMapped, NoDangling, EveryNodeOwned, EveryEntryEvictable
<1>8. FreshUnlinked' /\ ListedMapped' /\ ErasedUnmapped' /\ WellLinked'
  BY <1>1, <1>3
  DEF FreshUnlinked, ListedMapped, ErasedUnmapped, WellLinked, Fresh, Threads
<1> QED
  BY <1>4, <1>5, <1>6, <1>7, <1>8 DEF IInv, Structure

LEMMA TickInv ==
  ASSUME IInv, Tick
  PROVE  IInv'
<1> USE DEF Tick, mapVars, nodeVars, accessorVars, insertVars, evictVars
<1>1. TypeOK'
  BY DEF IInv, TypeOK
<1>2. Control'
  BY DEF IInv, Control, OneEvictor, MutexOwned, EntriesLocked, DecisionStands, Evicting, HoldsEntry, Readers
<1>3. Structure'
  BY SameOwners DEF IInv, Fresh, Removing
<1> QED
  BY <1>1, <1>2, <1>3 DEF IInv

LEMMA InitInv == Init => IInv
<1> SUFFICES ASSUME Init PROVE IInv
  OBVIOUS
<1> USE DEF Init
<1>1. InList = {} /\ list \in ListType /\ Linked(list, {})
  <2>1. list \in ListType /\ Linked(list, {})
    BY EmptyLinked
  <2>2. {} = {n \in Nodes : list.m_prev[n] /= kOutOfListMarker}
    BY <2>1, LinkedMembers
  <2> QED
    BY <2>1, <2>2 DEF InList, is_in_list
<1>2. TypeOK
  BY <1>1, ParameterAssumption DEF TypeOK, ClientLabels, EvictLabels
<1>3. Control
  BY SentinelAssumption
  DEF Control, OneEvictor, MutexOwned, EntriesLocked, DecisionStands,
      Evicting, EvictingLabels, HoldsEntry, Readers, Threads
<1>4. Uncounted = {} /\ SizeAccurate
  BY FS_EmptySet DEF SizeAccurate, Uncounted, Fresh, Threads
<1>5. Structure
  BY <1>1, <1>4
  DEF Structure, WellLinked, MoribundStillMapped, NoDangling, EveryNodeOwned,
      EveryEntryEvictable, FreshUnlinked, ListedMapped, ErasedUnmapped, Fresh, Threads
<1> QED
  BY <1>2, <1>3, <1>5 DEF IInv

LEMMA NextInv ==
  ASSUME IInv, [Next]_vars, ~ ClearBesideEvict
  PROVE  IInv'
<1>1. ASSUME NEW c \in Clients, FindStep(c)
      PROVE  IInv'
  BY <1>1, FindInv, ReleaseAccessorInv DEF FindStep
<1>2. ASSUME NEW c \in Clients, CallInsert(c)
      PROVE  IInv'
  BY <1>2, InsertInv DEF CallInsert
<1>3. ASSUME NEW c \in Clients, SetEntryStep(c)
      PROVE  IInv'
  BY <1>3, SetOldInv, SetNewInv, LockListToLinkInv, LinkOldInv, LinkNewInv,
     CountNewInv, ReleaseEntryInv, StartEvictInv
  DEF SetEntryStep
<1>4. ASSUME NEW t \in Threads, EvictStep(t)
      PROVE  IInv'
  BY <1>4, TryEvictInv, CheckOverloadInv, CheckExpiredInv, LockTailInv, DelinkTailInv,
     FindMoribundInv, EraseMoribundInv, DeleteMoribundInv, EndEvictInv
  DEF EvictStep
<1>5. CASE Clear
  BY <1>5, ClearInv
<1>6. CASE Tick
  BY <1>6, TickInv
<1>7. CASE UNCHANGED vars
  <2> USE <1>7 DEF vars
  <2>1. TypeOK'
    BY DEF IInv, TypeOK
  <2>2. Control'
    BY DEF IInv, Control, OneEvictor, MutexOwned, EntriesLocked, DecisionStands, Evicting, HoldsEntry, Readers
  <2>3. Structure'
    BY SameOwners DEF IInv, Fresh, Removing
  <2> QED
    BY <2>1, <2>2, <2>3 DEF IInv
<1> QED
  BY <1>1, <1>2, <1>3, <1>4, <1>5, <1>6, <1>7 DEF Next

-----------------------------------------------------------------------------
(* The theorems.                                                            *)

\* In every reachable state IInv holds, if clear() is kept away from evictions.
THEOREM Invariance ==
  ASSUME ~ ClearBesideEvict
  PROVE  Spec => []IInv
<1>1. Init => IInv
  BY InitInv
<1>2. IInv /\ [Next]_vars => IInv'
  BY NextInv
<1> QED
  BY <1>1, <1>2, PTL DEF Spec

\* Every variable keeps its type.
THEOREM TypeCorrect ==
  ASSUME ~ ClearBesideEvict
  PROVE  Spec => []TypeOK
<1>1. IInv => TypeOK
  BY DEF IInv
<1> QED
  BY <1>1, Invariance, PTL

\* The "presumably unreachable" return of remove_node is not reached, as long as
\* clear() and the destructor do not run beside an eviction.
THEOREM EvictionFindsItsElement ==
  ASSUME ~ ClearBesideEvict
  PROVE  Spec => []MoribundStillMapped
<1>1. IInv => MoribundStillMapped
  BY DEF IInv, Structure
<1> QED
  BY <1>1, Invariance, PTL

\* No list node is used after it is deleted.
THEOREM MemorySafe ==
  ASSUME ~ ClearBesideEvict
  PROVE  Spec => []NoDangling
<1>1. IInv => NoDangling
  BY DEF IInv, Structure
<1> QED
  BY <1>1, Invariance, PTL

\* No list node is leaked: an element, or the thread that erased it, owns each.
THEOREM NothingLeaked ==
  ASSUME ~ ClearBesideEvict
  PROVE  Spec => []EveryNodeOwned
<1>1. IInv => EveryNodeOwned
  BY DEF IInv, Structure
<1> QED
  BY <1>1, Invariance, PTL

\* Every element stays reachable from the eviction order.
THEOREM NothingUnevictable ==
  ASSUME ~ ClearBesideEvict
  PROVE  Spec => []EveryEntryEvictable
<1>1. IInv => EveryEntryEvictable
  BY DEF IInv, Structure
<1> QED
  BY <1>1, Invariance, PTL

\* m_size counts the nodes; it never wraps around below zero.
THEOREM SizeCorrect ==
  ASSUME ~ ClearBesideEvict
  PROVE  Spec => []SizeAccurate
<1>1. IInv => SizeAccurate
  BY DEF IInv, Structure
<1> QED
  BY <1>1, Invariance, PTL

-----------------------------------------------------------------------------
(* What no step does: change an element that a client reads, or evict a     *)
(* node without cause.  Both follow from IInv.                              *)

\* Outside an eviction, the nodes that m_size counts are all in the list.
LEMMA CountedListed ==
  ASSUME IInv, \A t \in Threads : ~ Removing(t) /\ pc[t] /= "delete"
  PROVE  m_size <= Cardinality(InList)
<1>1. alloc \ Uncounted \subseteq InList
  <2> SUFFICES ASSUME NEW n \in alloc, n \notin Uncounted
               PROVE  n \in InList
    OBVIOUS
  <2>1. m_key[n] \in m_map /\ m_list_node[m_key[n]] = n /\ n \in Nodes
    BY DEF IInv, TypeOK, Structure, EveryNodeOwned
  <2>2. \A c \in Clients : Fresh(c) => m_list_node[key[c]] /= n
    BY DEF Uncounted
  <2>3. is_in_list(n)
    BY <2>1, <2>2 DEF IInv, Structure, EveryEntryEvictable, Removing
  <2> QED
    BY <2>1, <2>3 DEF InList
<1>2. IsFiniteSet(InList) /\ m_size = Cardinality(alloc \ Uncounted)
  BY SizeFacts, TypeFacts
<1> QED
  BY <1>1, <1>2, FS_Subset

LEMMA EvictsJustlyStep ==
  ASSUME IInv, [Next]_vars
  PROVE  EvictsJustly
<1> SUFFICES ASSUME NEW n \in InList, list'.m_prev[n] = kOutOfListMarker, n \in alloc'
             PROVE  Cardinality(InList) > m_max_size \/ (m_timeout /= 0 /\ Expired(n))
  BY DEF EvictsJustly
<1>0. n \in Nodes /\ list.m_prev[n] /= kOutOfListMarker
  BY DEF InList, is_in_list
<1>1. CASE UNCHANGED list
  BY <1>0, <1>1
<1>2. ASSUME NEW c \in Clients, LinkOld(c)
      PROVE  FALSE
  BY <1>0, <1>2, LinkOldList DEF InList, is_in_list
<1>3. ASSUME NEW c \in Clients, LinkNew(c)
      PROVE  FALSE
  <2>1. m_list_node[key[c]] \in Nodes
    BY <1>3 DEF LinkNew, IInv, Control, EntriesLocked, HoldsEntry, Structure, NoDangling, TypeOK
  <2> QED
    BY <1>0, <1>3, <2>1, SentinelAssumption
    DEF LinkNew, push_front, IInv, TypeOK, ListType, Links
<1>4. ASSUME NEW t \in Threads, DelinkTail(t)
      PROVE  Cardinality(InList) > m_max_size \/ (m_timeout /= 0 /\ Expired(n))
  <2>1. Removable(t) /\ list' = delink(list, last)
    BY <1>0, <1>4 DEF DelinkTail
  <2>2. n = last
    BY <1>0, <2>1, TypeFacts, SentinelAssumption
    DEF delink, IInv, TypeOK, ListType, Links, Structure, WellLinked, Linked, Removable
  <2>3. CASE timeout_check[t]
    BY <2>1, <2>2, <2>3 DEF Removable, IInv, Control, DecisionStands
  <2>4. CASE ~ timeout_check[t]
    <3>1. m_size > m_max_size
      BY <1>4, <2>4 DEF DelinkTail, IInv, Control, DecisionStands
    <3>2. \A u \in Threads : ~ Removing(u) /\ pc[u] /= "delete"
      BY <1>4 DEF DelinkTail, IInv, Control, OneEvictor, Evicting, EvictingLabels, Removing
    <3>3. m_size <= Cardinality(InList) /\ Cardinality(InList) \in Nat /\ m_size \in Nat
      BY <3>2, CountedListed, SizeFacts, TypeFacts DEF IInv, TypeOK
    <3> QED
      BY <3>1, <3>3, ParameterAssumption
  <2> QED
    BY <2>3, <2>4
<1>5. ASSUME NEW t \in Threads, DeleteMoribund(t)
      PROVE  FALSE
  BY <1>0, <1>5 DEF DeleteMoribund, Delete, IInv, TypeOK, ListType
<1>6. CASE Clear
  BY <1>6 DEF Clear
<1> QED
  BY <1>1, <1>2, <1>3, <1>4, <1>5, <1>6
  DEF Next, FindStep, CallInsert, SetEntryStep, EvictStep, vars, Find, ReleaseAccessor,
      Insert, SetOld, SetNew, LockListToLink, CountNew, ReleaseEntry, StartEvict,
      TryEvict, CheckOverload, CheckExpired, LockTail, FindMoribund, EraseMoribund,
      EndEvict, Tick

LEMMA KeepsPinnedStep ==
  ASSUME IInv, [Next]_vars
  PROVE  KeepsPinned
<1> SUFFICES ASSUME NEW c \in Clients, accessor[c] /= NoKey, accessor'[c] = accessor[c]
             PROVE  /\ accessor[c] \in m_map'
                    /\ m_value'[accessor[c]] = m_value[accessor[c]]
                    /\ m_list_node'[accessor[c]] = m_list_node[accessor[c]]
                    /\ m_timestamp'[m_list_node[accessor[c]]]
                         = m_timestamp[m_list_node[accessor[c]]]
  BY DEF KeepsPinned
<1> DEFINE k == accessor[c]
           node == m_list_node[k]
<1>0. /\ k \in m_map /\ k \in Keys /\ writer[k] = NoThread /\ Readers(k) /= {}
      /\ node \in alloc /\ node \in Nodes /\ m_key[node] = k
      /\ NoThread \notin Threads
  BY SentinelAssumption
  DEF IInv, TypeOK, Control, EntriesLocked, Readers, Structure, NoDangling, Threads
<1>1. CASE UNCHANGED <<mapVars, m_timestamp>>
  BY <1>0, <1>1 DEF mapVars
<1>2. ASSUME NEW d \in Clients, SetOld(d)
      PROVE  k \in m_map' /\ m_value'[k] = m_value[k] /\ m_list_node'[k] = node
               /\ m_timestamp'[node] = m_timestamp[node]
  BY <1>0, <1>2 DEF SetOld, Unlocked, nodeVars, IInv, TypeOK
<1>3. ASSUME NEW d \in Clients, SetNew(d)
      PROVE  k \in m_map' /\ m_value'[k] = m_value[k] /\ m_list_node'[k] = node
               /\ m_timestamp'[node] = m_timestamp[node]
  BY <1>0, <1>3 DEF SetNew, IInv, TypeOK
<1>4. ASSUME NEW d \in Clients, LinkOld(d)
      PROVE  k \in m_map' /\ m_value'[k] = m_value[k] /\ m_list_node'[k] = node
               /\ m_timestamp'[node] = m_timestamp[node]
  <2>1. key[d] \in m_map /\ key[d] /= k /\ m_key[m_list_node[key[d]]] = key[d]
    BY <1>0, <1>4
    DEF LinkOld, Threads, IInv, Control, EntriesLocked, HoldsEntry, Structure, NoDangling
  <2> QED
    BY <1>0, <1>4, <2>1 DEF LinkOld, update_timestamp, mapVars, IInv, TypeOK
<1>5. ASSUME NEW t \in Threads, EraseMoribund(t)
      PROVE  k \in m_map' /\ m_value'[k] = m_value[k] /\ m_list_node'[k] = node
               /\ m_timestamp'[node] = m_timestamp[node]
  <2>1. m_key[moribund[t]] /= k
    BY <1>0, <1>5 DEF EraseMoribund, IInv, Control, EntriesLocked
  <2> QED
    BY <1>0, <1>5, <2>1 DEF EraseMoribund, nodeVars, IInv, TypeOK
<1>6. ASSUME NEW t \in Threads, DeleteMoribund(t)
      PROVE  k \in m_map' /\ m_value'[k] = m_value[k] /\ m_list_node'[k] = node
               /\ m_timestamp'[node] = m_timestamp[node]
  <2>1. moribund[t] /= node
    BY <1>0, <1>6 DEF DeleteMoribund, IInv, Structure, ErasedUnmapped
  <2> QED
    BY <1>0, <1>6, <2>1 DEF DeleteMoribund, Delete, mapVars, IInv, TypeOK
<1>7. CASE Clear
  BY <1>7 DEF Clear
<1> QED
  BY <1>0, <1>1, <1>2, <1>3, <1>4, <1>5, <1>6, <1>7
  DEF Next, FindStep, CallInsert, SetEntryStep, EvictStep, vars, mapVars, nodeVars, Find,
      ReleaseAccessor, Insert, LockListToLink, LinkNew, CountNew, ReleaseEntry,
      StartEvict, TryEvict, CheckOverload, CheckExpired, LockTail, DelinkTail,
      FindMoribund, EndEvict, Tick

\* An eviction takes a node out of the list only if the list is longer than
\* m_max_size or the node has expired, however late it acts on its checks.
THEOREM EvictionsAreJustified ==
  ASSUME ~ ClearBesideEvict
  PROVE  Spec => EvictionJustified
<1>1. IInv /\ [Next]_vars => [EvictsJustly]_vars
  BY EvictsJustlyStep
<1> QED
  BY <1>1, Invariance, PTL DEF Spec, EvictionJustified

\* What a client reads through a ConstAccessor does not change under it.
THEOREM AccessorsPin ==
  ASSUME ~ ClearBesideEvict
  PROVE  Spec => AccessorPins
<1>1. IInv /\ [Next]_vars => [KeepsPinned]_vars
  BY KeepsPinnedStep
<1> QED
  BY <1>1, Invariance, PTL DEF Spec, AccessorPins

-----------------------------------------------------------------------------
(* The order of the list as a sequence.                                     *)

\* A set of natural numbers has a least one.
LEMMA LeastNatural ==
  ASSUME NEW S \in SUBSET Nat, S /= {}
  PROVE  \E m \in S : \A n \in S : m <= n
<1> DEFINE R == {ss \in Nat \X Nat : ss[1] < ss[2]}
<1>1. IsWellFoundedOn(R, Nat)
  BY NatLessThanWellFounded DEF OpToRel
<1>2. \E m \in S : \A n \in S : ~ (<<n, m>> \in R)
  <2> HIDE DEF R
  <2> QED BY <1>1, WFMin
<1>3. \A m, n \in S : ~ (<<n, m>> \in R) => m <= n
  OBVIOUS
<1> QED BY <1>2, <1>3

LEMMA NthFacts ==
  ASSUME NEW l, NEW s \in Seq(Nodes), IsChain(l, s)
  PROVE  /\ Nth(s, 0) = m_head
         /\ \A i \in 1 .. Len(s) : Nth(s, i) = s[i] /\ s[i] \in Nodes
         /\ \A i \in Int : i > Len(s) => Nth(s, i) = m_tail
         /\ \A i, j \in 0 .. Len(s) + 1 : Nth(s, i) = Nth(s, j) => i = j
         /\ \A i \in 0 .. Len(s) + 1 : Nth(s, i) \in Links
BY SentinelAssumption DEF Nth, IsChain, Links

LEMMA ConcatFacts ==
  ASSUME NEW T, NEW s \in Seq(T), NEW t \in Seq(T)
  PROVE  /\ s \o t \in Seq(T) /\ Len(s \o t) = Len(s) + Len(t)
         /\ \A j \in 1 .. Len(s) : (s \o t)[j] = s[j]
         /\ \A j \in Len(s) + 1 .. Len(s) + Len(t) : (s \o t)[j] = t[j - Len(s)]
OBVIOUS

LEMMA RemoveAtFacts ==
  ASSUME NEW T, NEW s \in Seq(T), NEW i \in 1 .. Len(s)
  PROVE  /\ RemoveAt(s, i) \in Seq(T)
         /\ Len(RemoveAt(s, i)) = Len(s) - 1
         /\ \A j \in 1 .. Len(s) - 1 :
              RemoveAt(s, i)[j] = IF j < i THEN s[j] ELSE s[j + 1]
<1> DEFINE before == SubSeq(s, 1, i - 1)
           after  == SubSeq(s, i + 1, Len(s))
<1>1. /\ before \in Seq(T) /\ Len(before) = i - 1
      /\ \A j \in 1 .. i - 1 : before[j] = s[j]
  OBVIOUS
<1>2. /\ after \in Seq(T) /\ Len(after) = Len(s) - i
      /\ \A j \in 1 .. Len(s) - i : after[j] = s[i + j]
  OBVIOUS
<1>3. RemoveAt(s, i) = before \o after
  BY DEF RemoveAt
<1> HIDE DEF before, after
<1>4. /\ before \o after \in Seq(T) /\ Len(before \o after) = Len(s) - 1
      /\ \A j \in 1 .. i - 1 : (before \o after)[j] = before[j]
      /\ \A j \in i .. Len(s) - 1 : (before \o after)[j] = after[j - (i - 1)]
  <2>1. Len(before) = i - 1 /\ Len(after) = Len(s) - i /\ Len(s) \in Nat
    BY <1>1, <1>2
  <2>2. /\ before \o after \in Seq(T) /\ Len(before \o after) = Len(before) + Len(after)
        /\ \A j \in 1 .. Len(before) : (before \o after)[j] = before[j]
        /\ \A j \in Len(before) + 1 .. Len(before) + Len(after) :
             (before \o after)[j] = after[j - Len(before)]
    BY <1>1, <1>2, ConcatFacts
  <2>3. /\ 1 .. Len(before) = 1 .. i - 1 /\ Len(before) + Len(after) = Len(s) - 1
        /\ Len(before) + 1 .. Len(before) + Len(after) = i .. Len(s) - 1
    BY <2>1
  <2> QED BY <2>1, <2>2, <2>3
<1>5. \A j \in i .. Len(s) - 1 : after[j - (i - 1)] = s[j + 1]
  <2> SUFFICES ASSUME NEW j \in i .. Len(s) - 1
               PROVE  after[j - (i - 1)] = s[j + 1]
    OBVIOUS
  <2>1. j - (i - 1) \in 1 .. Len(s) - i /\ i + (j - (i - 1)) = j + 1
    OBVIOUS
  <2> QED BY <1>2, <2>1
<1> QED BY <1>1, <1>3, <1>4, <1>5

\* delink takes one node out of the order.
LEMMA DelinkChain ==
  ASSUME NEW l \in ListType, NEW S \in SUBSET Nodes, Linked(l, S),
         NEW s \in Seq(Nodes), IsChain(l, s), {s[n] : n \in 1 .. Len(s)} = S,
         NEW i \in 1 .. Len(s)
  PROVE  /\ IsChain(delink(l, s[i]), RemoveAt(s, i))
         /\ {RemoveAt(s, i)[n] : n \in 1 .. Len(s) - 1} = S \ {s[i]}
<1> DEFINE r == RemoveAt(s, i)
           m == delink(l, s[i])
<1>0. /\ Nth(s, 0) = m_head
      /\ \A j \in 1 .. Len(s) : Nth(s, j) = s[j] /\ s[j] \in Nodes
      /\ \A j, n \in 0 .. Len(s) + 1 : Nth(s, j) = Nth(s, n) => j = n
      /\ \A j \in 0 .. Len(s) + 1 : Nth(s, j) \in Links
      /\ \A j \in 0 .. Len(s) : l.m_next[Nth(s, j)] = Nth(s, j + 1)
      /\ \A j, n \in 1 .. Len(s) : s[j] = s[n] => j = n
  <2>1. \A j \in 0 .. Len(s) : l.m_next[Nth(s, j)] = Nth(s, j + 1)
    BY DEF IsChain
  <2>2. \A j, n \in 1 .. Len(s) : s[j] = s[n] => j = n
    BY DEF IsChain
  <2> QED BY <2>1, <2>2, NthFacts
<1>1. /\ r \in Seq(Nodes) /\ Len(r) = Len(s) - 1
      /\ \A j \in 1 .. Len(r) : r[j] = IF j < i THEN s[j] ELSE s[j + 1]
  BY RemoveAtFacts
<1> HIDE DEF r
<1>9. Len(s) \in Nat /\ Len(r) = Len(s) - 1
  BY <1>1
<1>2. l.m_prev[s[i]] = Nth(s, i - 1)
  <2>1. Nth(s, i - 1) \in S \cup {m_head} /\ l.m_next[Nth(s, i - 1)] = s[i]
    BY <1>0 DEF Nth
  <2> QED BY <2>1 DEF Linked
<1>3. l.m_next[s[i]] = Nth(s, i + 1)
  BY <1>0
<1>4. m.m_next = [l.m_next EXCEPT ![Nth(s, i - 1)] = Nth(s, i + 1)]
  BY <1>2, <1>3 DEF delink
<1>5. \A j \in 0 .. Len(s) : Nth(r, j) = IF j < i THEN Nth(s, j) ELSE Nth(s, j + 1)
  BY <1>1 DEF Nth
<1>6. \A j \in 0 .. Len(r) : m.m_next[Nth(r, j)] = Nth(r, j + 1)
  <2> SUFFICES ASSUME NEW j \in 0 .. Len(r)
               PROVE  m.m_next[Nth(r, j)] = Nth(r, j + 1)
    OBVIOUS
  <2>0. l.m_next \in [Links -> Links \cup {Null}]
    BY DEF ListType
  <2>1. CASE j < i - 1
    <3>1. Nth(r, j) = Nth(s, j) /\ Nth(r, j + 1) = Nth(s, j + 1)
      BY <1>5, <1>9, <2>1
    <3>2. Nth(s, j) /= Nth(s, i - 1) /\ Nth(s, j) \in Links
      BY <1>0, <1>9, <2>1
    <3> QED BY <1>0, <1>9, <1>4, <2>0, <2>1, <3>1, <3>2
  <2>2. CASE j = i - 1
    <3>1. Nth(r, j) = Nth(s, i - 1) /\ Nth(r, j + 1) = Nth(s, i + 1)
      BY <1>5, <1>9, <2>2
    <3> QED BY <1>0, <1>1, <1>4, <2>0, <3>1
  <2>3. CASE j >= i
    <3>1. Nth(r, j) = Nth(s, j + 1) /\ Nth(r, j + 1) = Nth(s, j + 2)
      BY <1>5, <1>9, <2>3
    <3>2. Nth(s, j + 1) /= Nth(s, i - 1) /\ Nth(s, j + 1) \in Links
      <4>1. j + 1 \in 0 .. Len(s) + 1 /\ i - 1 \in 0 .. Len(s) + 1 /\ j + 1 # i - 1
        BY <1>9, <2>3
      <4> QED BY <1>0, <4>1
    <3>3. l.m_next[Nth(s, j + 1)] = Nth(s, j + 2)
      <4>1. j + 1 \in 0 .. Len(s) /\ (j + 1) + 1 = j + 2
        BY <1>9, <2>3
      <4>2. \A n \in 0 .. Len(s) : l.m_next[Nth(s, n)] = Nth(s, n + 1)
        BY <1>0
      <4>3. l.m_next[Nth(s, j + 1)] = Nth(s, (j + 1) + 1)
        BY <4>1, <4>2
      <4> QED BY <4>1, <4>3
    <3> QED BY <1>4, <2>0, <3>1, <3>2, <3>3
  <2> QED BY <1>9, <2>1, <2>2, <2>3
<1>7. ASSUME NEW j \in 1 .. Len(r), NEW n \in 1 .. Len(r), r[j] = r[n]
      PROVE  j = n
  <2> DEFINE at(k) == IF k < i THEN k ELSE k + 1
  <2>1. at(j) \in 1 .. Len(s) /\ at(n) \in 1 .. Len(s)
    BY <1>9
  <2>2. s[at(j)] = s[at(n)]
    BY <1>1, <1>7
  <2>3. at(j) = at(n)
    <3> HIDE DEF at
    <3> QED BY <1>0, <2>1, <2>2
  <2> QED BY <1>9, <2>3
<1>8. {r[n] : n \in 1 .. Len(s) - 1} = S \ {s[i]}
  <2>0. Len(s) - 1 = Len(r)
    BY <1>9
  <2>1. \A n \in 1 .. Len(r) : r[n] \in S \ {s[i]}
    BY <1>0, <1>1
  <2>2. ASSUME NEW x \in S \ {s[i]}
        PROVE  \E n \in 1 .. Len(r) : r[n] = x
    <3>1. PICK n \in 1 .. Len(s) : s[n] = x
      BY <2>2
    <3>2. CASE n < i
      BY <1>1, <3>1, <3>2
    <3>3. CASE n > i
      <4>1. n - 1 \in 1 .. Len(r) /\ r[n - 1] = x
        BY <1>1, <3>1, <3>3
      <4> QED BY <4>1
    <3> QED BY <2>2, <3>1, <3>2, <3>3
  <2> QED BY <2>0, <2>1, <2>2
<1> QED BY <1>6, <1>7, <1>8 DEF IsChain, r

\* push_front puts one node before the others.
LEMMA PushFrontChain ==
  ASSUME NEW l \in ListType, NEW S \in SUBSET Nodes, Linked(l, S),
         NEW s \in Seq(Nodes), IsChain(l, s), {s[n] : n \in 1 .. Len(s)} = S,
         NEW node \in Nodes \ S
  PROVE  /\ IsChain(push_front(l, node), <<node>> \o s)
         /\ <<node>> \o s \in Seq(Nodes)
         /\ {(<<node>> \o s)[n] : n \in 1 .. Len(<<node>> \o s)} = S \cup {node}
<1> DEFINE r == <<node>> \o s
           m == push_front(l, node)
<1>0. /\ Nth(s, 0) = m_head
      /\ \A j \in 1 .. Len(s) : Nth(s, j) = s[j] /\ s[j] \in Nodes
      /\ \A j, n \in 0 .. Len(s) + 1 : Nth(s, j) = Nth(s, n) => j = n
      /\ \A j \in 0 .. Len(s) + 1 : Nth(s, j) \in Links
      /\ \A j \in 0 .. Len(s) : l.m_next[Nth(s, j)] = Nth(s, j + 1)
      /\ \A j, n \in 1 .. Len(s) : s[j] = s[n] => j = n
  <2>1. \A j \in 0 .. Len(s) : l.m_next[Nth(s, j)] = Nth(s, j + 1)
    BY DEF IsChain
  <2>2. \A j, n \in 1 .. Len(s) : s[j] = s[n] => j = n
    BY DEF IsChain
  <2> QED BY <2>1, <2>2, NthFacts
<1>1. /\ r \in Seq(Nodes) /\ Len(r) = Len(s) + 1
      /\ \A j \in 1 .. Len(r) : r[j] = IF j = 1 THEN node ELSE s[j - 1]
  OBVIOUS
<1> HIDE DEF r
<1>2. m.m_next = [l.m_next EXCEPT ![node] = l.m_next[m_head], ![m_head] = node]
  BY DEF push_front
<1>3. \A j \in 1 .. Len(r) + 1 : Nth(r, j) = IF j = 1 THEN node ELSE Nth(s, j - 1)
  BY <1>1 DEF Nth
<1>4. \A j \in 0 .. Len(r) : m.m_next[Nth(r, j)] = Nth(r, j + 1)
  <2> SUFFICES ASSUME NEW j \in 0 .. Len(r)
               PROVE  m.m_next[Nth(r, j)] = Nth(r, j + 1)
    OBVIOUS
  <2>0. l.m_next \in [Links -> Links \cup {Null}] /\ node \in Links /\ m_head \in Links
        /\ node /= m_head
    BY SentinelAssumption DEF ListType, Links
  <2>1. CASE j = 0
    BY <1>1, <1>2, <1>3, <2>0, <2>1 DEF Nth
  <2>2. CASE j = 1
    <3>1. Nth(r, 1) = node /\ Nth(r, 2) = Nth(s, 1)
      BY <1>1, <1>3
    <3>2. l.m_next[m_head] = Nth(s, 1)
      BY <1>0
    <3> QED BY <1>2, <2>0, <2>2, <3>1, <3>2
  <2>3. CASE j > 1
    <3>1. Nth(r, j) = Nth(s, j - 1) /\ Nth(r, j + 1) = Nth(s, j)
      BY <1>1, <1>3, <2>3
    <3>2. Nth(s, j - 1) = s[j - 1] /\ s[j - 1] \in S
      BY <1>0, <1>1, <2>3
    <3>3. l.m_next[Nth(s, j - 1)] = Nth(s, j)
      BY <1>0, <1>1, <2>3
    <3> QED BY <1>2, <2>0, <3>1, <3>2, <3>3, SentinelAssumption DEF Links
  <2> QED BY <1>1, <2>1, <2>2, <2>3
<1>5. \A j, n \in 1 .. Len(r) : r[j] = r[n] => j = n
  <2>1. \A j \in 2 .. Len(r) : j - 1 \in 1 .. Len(s) /\ r[j] = s[j - 1] /\ r[j] /= node
    BY <1>1
  <2>2. r[1] = node
    BY <1>1
  <2>3. \A j, n \in 2 .. Len(r) : r[j] = r[n] => j = n
    BY <1>0, <2>1
  <2> QED BY <2>1, <2>2, <2>3
<1>6. {r[n] : n \in 1 .. Len(r)} = S \cup {node}
  <2>1. \A n \in 1 .. Len(r) : r[n] \in S \cup {node}
    BY <1>1
  <2>2. \A n \in 1 .. Len(s) : n + 1 \in 1 .. Len(r) /\ r[n + 1] = s[n]
    BY <1>1
  <2>3. 1 \in 1 .. Len(r) /\ r[1] = node
    BY <1>1
  <2> QED BY <2>1, <2>2, <2>3
<1> QED BY <1>1, <1>4, <1>5, <1>6 DEF IsChain, r

LEMMA ChainLength ==
  ASSUME NEW s \in Seq(Nodes), \A i, j \in 1 .. Len(s) : s[i] = s[j] => i = j
  PROVE  /\ Len(s) \in Nat /\ Cardinality(Nodes) \in Nat
         /\ Len(s) <= Cardinality(Nodes)
         /\ Cardinality({s[i] : i \in 1 .. Len(s)}) = Len(s)
<1> DEFINE n == Len(s)
           S == {s[i] : i \in 1 .. n}
           f == [i \in 1 .. n |-> s[i]]
<1>1. IsFiniteSet(Nodes) /\ Cardinality(Nodes) \in Nat
  BY HeapAssumption, FS_CardinalityType
<1>2. n \in Nat /\ IsFiniteSet(1 .. n) /\ Cardinality(1 .. n) = n
  <2>1. n \in Nat
    OBVIOUS
  <2> HIDE DEF n
  <2> QED BY <2>1, FS_Interval
<1>3. S \subseteq Nodes
  OBVIOUS
<1>4. f \in Bijection(1 .. n, S)
  BY DEF Bijection, Injection, Surjection, IsInjective
<1>5. Cardinality(S) = n
  <2> HIDE DEF n, S, f
  <2>1. ExistsBijection(1 .. n, S)
    BY <1>4 DEF ExistsBijection
  <2> QED BY <1>2, <2>1, FS_Bijection
<1>6. Cardinality(S) <= Cardinality(Nodes)
  <2> HIDE DEF n, S, f
  <2> QED BY <1>1, <1>3, FS_Subset
<1> QED BY <1>1, <1>2, <1>5, <1>6

\* snapshot_keys walks along the chain.
LEMMA WalkFollows ==
  ASSUME NEW l \in ListType, NEW s \in Seq(Nodes), IsChain(l, s)
  PROVE  Walk(l) = s
<1> DEFINE N == Cardinality(Nodes)
           D == 0 .. N + 1
           next(x) == IF x \in {m_tail, Null} THEN x ELSE l.m_next[x]
           w == [i \in D |-> Nth(s, i)]
           at == CHOOSE f : f = [i \in D |-> IF i = 0 THEN m_head ELSE next(f[i - 1])]
<1>1. N \in Nat /\ Len(s) \in Nat /\ Len(s) <= N
  BY ChainLength DEF IsChain
<1>2. \A i \in 1 .. N + 1 : next(Nth(s, i - 1)) = Nth(s, i)
  <2> SUFFICES ASSUME NEW i \in 1 .. N + 1
               PROVE  next(Nth(s, i - 1)) = Nth(s, i)
    OBVIOUS
  <2>1. CASE i - 1 <= Len(s)
    <3>1. Nth(s, i - 1) \in Nodes \cup {m_head}
      BY <1>1, <2>1 DEF Nth
    <3>2. l.m_next[Nth(s, i - 1)] = Nth(s, i)
      <4>1. i - 1 \in 0 .. Len(s) /\ (i - 1) + 1 = i
        BY <1>1, <2>1
      <4> QED BY <4>1 DEF IsChain
    <3> QED BY <3>1, <3>2, SentinelAssumption
  <2>2. CASE i - 1 > Len(s)
    BY <1>1, <2>2 DEF Nth
  <2> QED BY <1>1, <2>1, <2>2
<1> HIDE DEF N, next
<1>3. w = [i \in D |-> IF i = 0 THEN m_head ELSE next(w[i - 1])]
  <2>1. \A i \in D : i /= 0 => i \in 1 .. N + 1 /\ i - 1 \in D
    BY <1>1
  <2> QED BY <1>2, <2>1 DEF Nth
<1>4. at = [i \in D |-> IF i = 0 THEN m_head ELSE next(at[i - 1])]
  <2> HIDE DEF w, D
  <2> QED BY <1>3
<1> HIDE DEF at
<1>5. \A i \in D : at[i] = Nth(s, i)
  <2> DEFINE wrong == {i \in D : at[i] /= Nth(s, i)}
  <2> SUFFICES ASSUME wrong /= {}
               PROVE  FALSE
    OBVIOUS
  <2>1. wrong \subseteq Nat
    BY <1>1
  <2>2. PICK m \in wrong : \A i \in wrong : m <= i
    <3> HIDE DEF wrong
    <3> QED BY <2>1, LeastNatural
  <2>3. m \in D /\ at[m] /= Nth(s, m)
    BY <2>2
  <2>4. m /= 0
    BY <1>4, <2>3 DEF Nth
  <2>5. m \in 1 .. N + 1 /\ m - 1 \in D /\ ~ (m <= m - 1)
    BY <1>1, <2>3, <2>4
  <2>6. at[m - 1] = Nth(s, m - 1)
    BY <2>2, <2>5
  <2>7. at[m] = next(at[m - 1])
    BY <1>4, <2>3, <2>4
  <2> QED BY <1>2, <2>3, <2>5, <2>6, <2>7
<1> DEFINE visited == {i \in 1 .. N + 1 : at[i] \in Nodes}
           length  == Cardinality(visited)
<1>6. Walk(l) = [i \in 1 .. length |-> at[i]]
  BY DEF Walk, at, next, N
<1>7. visited = 1 .. Len(s)
  <2>1. \A i \in 1 .. N + 1 : i \in D
    OBVIOUS
  <2>2. \A i \in 1 .. N + 1 : at[i] \in Nodes <=> i <= Len(s)
    BY <1>1, <1>5, <2>1, SentinelAssumption DEF Nth
  <2> QED BY <1>1, <2>2
<1>8. length = Len(s)
  <2> HIDE DEF visited
  <2>1. Cardinality(1 .. Len(s)) = Len(s)
    <3> DEFINE n == Len(s)
    <3>1. n \in Nat
      OBVIOUS
    <3> HIDE DEF n
    <3>2. Cardinality(1 .. n) = n
      BY <3>1, FS_Interval
    <3> QED BY <3>2 DEF n
  <2> QED BY <1>7, <2>1
<1>9. \A i \in 1 .. Len(s) : at[i] = s[i]
  BY <1>1, <1>5 DEF Nth
<1> QED
  <2> HIDE DEF length
  <2> QED BY <1>6, <1>8, <1>9

\* The empty list is the empty chain.
LEMMA EmptyChain == IsChain(EmptyList, << >>) /\ Walk(EmptyList) = << >>
<1>1. IsChain(EmptyList, << >>)
  <2>1. Nth(<< >>, 0) = m_head /\ Nth(<< >>, 1) = m_tail
    BY DEF Nth
  <2>2. EmptyList.m_next[m_head] = m_tail
    BY DEF EmptyList, Links
  <2> QED BY <2>1, <2>2 DEF IsChain
<1>2. << >> \in Seq(Nodes) /\ EmptyList \in ListType
  BY EmptyLinked
<1> QED BY <1>1, <1>2, WalkFollows

-----------------------------------------------------------------------------
(* The order of the list in the reachable states.                           *)

LEMMA WalkIsSeq ==
  ASSUME RefInv
  PROVE  /\ Walk(list) \in Seq(Nodes)
         /\ Len(Walk(list)) \in Nat
         /\ DOMAIN Walk(list) = 1 .. Len(Walk(list))
         /\ IsChain(list, Walk(list))
         /\ {Walk(list)[i] : i \in 1 .. Len(Walk(list))} = InList
<1> DEFINE N == Cardinality(Nodes)
           at == CHOOSE f : f = [i \in 0 .. N + 1 |->
                   IF i = 0 THEN m_head
                   ELSE IF f[i - 1] \in {m_tail, Null} THEN f[i - 1]
                   ELSE list.m_next[f[i - 1]]]
           visited == {i \in 1 .. N + 1 : at[i] \in Nodes}
           length  == Cardinality(visited)
<1>1. Walk(list) = [i \in 1 .. length |-> at[i]]
  BY DEF Walk
<1>2. length \in Nat
  <2>1. N \in Nat
    BY HeapAssumption, FS_CardinalityType
  <2> HIDE DEF N
  <2>2. IsFiniteSet(1 .. N + 1)
    BY <2>1, FS_Interval
  <2>3. visited \subseteq 1 .. N + 1
    OBVIOUS
  <2> HIDE DEF visited
  <2> QED BY <2>2, <2>3, FS_Subset, FS_CardinalityType
<1> HIDE DEF length, at
<1>3. DOMAIN Walk(list) = 1 .. length
  BY <1>1
<1>4. IsChain(list, Walk(list)) /\ {Walk(list)[i] : i \in 1 .. length} = InList
  BY <1>3 DEF RefInv, WalkInv
<1>5. \A i \in 1 .. length : Walk(list)[i] \in Nodes
  BY <1>4 DEF InList
<1>6. Walk(list) \in Seq(Nodes) /\ Len(Walk(list)) = length
  <2>1. [i \in 1 .. length |-> Walk(list)[i]] \in Seq(Nodes)
    BY <1>2, <1>5
  <2>2. Walk(list) = [i \in 1 .. length |-> Walk(list)[i]]
    BY <1>1
  <2> QED BY <1>2, <1>3, <2>1, <2>2
<1> QED BY <1>2, <1>3, <1>4, <1>6

\* Whoever knows a chain through the new list knows the new walk.
LEMMA NewWalk ==
  ASSUME IInv', NEW s \in Seq(Nodes), IsChain(list', s),
         {s[i] : i \in 1 .. Len(s)} = InList'
  PROVE  WalkInv' /\ Walk(list)' = s
<1>1. list' \in ListType
  BY DEF IInv, TypeOK
<1>2. Walk(list') = s
  BY <1>1, WalkFollows
<1>3. Walk(list)' = s
  BY <1>2 DEF Walk
<1>4. DOMAIN s = 1 .. Len(s)
  OBVIOUS
<1> QED BY <1>3, <1>4 DEF WalkInv, IsChain

\* A step that keeps the links of the nodes in the list keeps the order.
LEMMA OrderKept ==
  ASSUME RefInv, IInv', InList' = InList,
         \A n \in InList \cup {m_head} : list'.m_next[n] = list.m_next[n]
  PROVE  WalkInv' /\ Walk(list)' = Walk(list)
<1> DEFINE s == Walk(list)
<1>1. s \in Seq(Nodes) /\ IsChain(list, s) /\ {s[i] : i \in 1 .. Len(s)} = InList
  BY WalkIsSeq
<1>2. IsChain(list', s)
  <2>1. \A i \in 0 .. Len(s) : Nth(s, i) \in InList \cup {m_head}
    BY <1>1 DEF Nth
  <2> HIDE DEF s
  <2> QED BY <1>1, <2>1 DEF IsChain
<1> HIDE DEF s
<1>3. WalkInv' /\ Walk(list)' = s
  BY <1>1, <1>2, NewWalk
<1> QED BY <1>3 DEF s

\* The node of an insertion of a key that is there moves to the front.
LEMMA OrderRefreshed ==
  ASSUME RefInv, IInv', NEW c \in Clients, LinkOld(c), Relinks(m_list_node[key[c]])
  PROVE  /\ WalkInv'
         /\ \E i \in 1 .. Len(Walk(list)) :
              /\ Walk(list)[i] = m_list_node[key[c]]
              /\ Walk(list)' = <<m_list_node[key[c]]>> \o RemoveAt(Walk(list), i)
<1> DEFINE s == Walk(list)
           node == m_list_node[key[c]]
           m == delink(list, node)
<1>1. s \in Seq(Nodes) /\ IsChain(list, s) /\ {s[i] : i \in 1 .. Len(s)} = InList
      /\ Len(s) \in Nat
  BY WalkIsSeq
<1>2. list \in ListType /\ Linked(list, InList) /\ InList \in SUBSET Nodes
  BY DEF RefInv, IInv, TypeOK, Structure, WellLinked, InList
<1>3. node \in InList
  BY DEF Relinks, InList, RefInv, IInv, Control, EntriesLocked, HoldsEntry, LinkOld,
         Structure, NoDangling, TypeOK
<1>4. PICK i \in 1 .. Len(s) : s[i] = node
  BY <1>1, <1>3
<1> DEFINE r == RemoveAt(s, i)
<1> HIDE DEF s, node
<1>5. /\ IsChain(m, r) /\ r \in Seq(Nodes) /\ Len(r) = Len(s) - 1
      /\ {r[n] : n \in 1 .. Len(s) - 1} = InList \ {node}
  <2>1. /\ IsChain(delink(list, s[i]), r)
        /\ {r[n] : n \in 1 .. Len(s) - 1} = InList \ {s[i]}
    BY <1>1, <1>2, DelinkChain
  <2>2. r \in Seq(Nodes) /\ Len(r) = Len(s) - 1
    BY <1>1, RemoveAtFacts
  <2> QED BY <1>4, <2>1, <2>2
<1>6. m \in ListType /\ Linked(m, InList \ {node})
  BY <1>2, <1>3, DelinkLinked
<1> HIDE DEF m, r
<1>7. /\ IsChain(push_front(m, node), <<node>> \o r)
      /\ <<node>> \o r \in Seq(Nodes)
      /\ {(<<node>> \o r)[n] : n \in 1 .. Len(<<node>> \o r)} = (InList \ {node}) \cup {node}
  <2>1. InList \ {node} \in SUBSET Nodes /\ node \in Nodes \ (InList \ {node})
    BY <1>2, <1>3
  <2>2. {r[n] : n \in 1 .. Len(r)} = InList \ {node}
    BY <1>5
  <2> HIDE DEF InList
  <2> QED BY <1>5, <1>6, <2>1, <2>2, PushFrontChain, Z3
<1>8. list' = push_front(m, node) /\ InList' = InList
  <2>1. list' = push_front(m, node)
    BY DEF LinkOld, move_to_front, m, node
  <2>2. InList' = InList
    BY LinkOldList DEF RefInv
  <2> QED BY <2>1, <2>2
<1>9. WalkInv' /\ Walk(list)' = <<node>> \o r
  <2>1. (InList \ {node}) \cup {node} = InList'
    BY <1>3, <1>8
  <2> HIDE DEF InList
  <2> QED BY <1>7, <1>8, <2>1, NewWalk
<1> QED BY <1>4, <1>9 DEF r, s, node

\* The node of a new key comes in front of the others.
LEMMA OrderAdded ==
  ASSUME RefInv, IInv', NEW c \in Clients, LinkNew(c)
  PROVE  /\ WalkInv'
         /\ m_list_node[key[c]] \in Nodes
         /\ Walk(list)' = <<m_list_node[key[c]]>> \o Walk(list)
<1> DEFINE s == Walk(list)
           node == m_list_node[key[c]]
<1>1. s \in Seq(Nodes) /\ IsChain(list, s) /\ {s[i] : i \in 1 .. Len(s)} = InList
  BY WalkIsSeq
<1>2. list \in ListType /\ Linked(list, InList) /\ InList \in SUBSET Nodes
  BY DEF RefInv, IInv, TypeOK, Structure, WellLinked, InList
<1>3. node \in Nodes \ InList
  BY DEF InList, RefInv, IInv, Control, EntriesLocked, HoldsEntry, LinkNew,
         Structure, NoDangling, FreshUnlinked, Fresh, TypeOK
<1>4. list' = push_front(list, node)
  BY DEF LinkNew
<1> HIDE DEF s, node
<1>5. /\ IsChain(push_front(list, node), <<node>> \o s)
      /\ <<node>> \o s \in Seq(Nodes)
      /\ {(<<node>> \o s)[n] : n \in 1 .. Len(<<node>> \o s)} = InList \cup {node}
  <2>1. /\ list \in ListType /\ InList \in SUBSET Nodes /\ Linked(list, InList)
        /\ node \in Nodes \ InList /\ s \in Seq(Nodes) /\ IsChain(list, s)
        /\ {s[i] : i \in 1 .. Len(s)} = InList
    BY <1>1, <1>2, <1>3
  <2> HIDE DEF InList
  <2> QED BY <2>1, PushFrontChain, Z3
<1>6. InList' = InList \cup {node}
  <2>1. push_front(list, node) \in ListType /\ Linked(push_front(list, node), InList \cup {node})
    BY <1>2, <1>3, PushFrontLinked
  <2>2. InList \cup {node} \in SUBSET Nodes
    BY <1>2, <1>3
  <2> DEFINE S == InList \cup {node}
  <2>3. S = {n \in Nodes : list'.m_prev[n] /= kOutOfListMarker}
    <3> HIDE DEF S
    <3> QED BY <1>4, <2>1, <2>2, LinkedMembers DEF S
  <2> QED BY <2>3 DEF InList, is_in_list
<1>7. WalkInv' /\ Walk(list)' = <<node>> \o s
  BY <1>4, <1>5, <1>6, NewWalk
<1> QED BY <1>3, <1>7 DEF s, node

\* The last node of the order is the tail of the list.
LEMMA TailIsLast ==
  ASSUME RefInv, last /= m_head
  PROVE  /\ Len(Walk(list)) \in Nat \ {0}
         /\ Walk(list)[Len(Walk(list))] = last
         /\ last \in InList
<1> DEFINE s == Walk(list)
           n == Len(s)
<1>1. s \in Seq(Nodes) /\ IsChain(list, s) /\ {s[i] : i \in 1 .. n} = InList /\ n \in Nat
  BY WalkIsSeq
<1>2. last \in InList
  BY TypeFacts DEF RefInv
<1>3. n /= 0
  <2> HIDE DEF s
  <2> QED BY <1>1, <1>2
<1>4. list.m_next[s[n]] = m_tail
  <2>1. n \in 0 .. n /\ Nth(s, n) = s[n] /\ Nth(s, n + 1) = m_tail
    <3> HIDE DEF n
    <3> QED BY <1>1, <1>3 DEF Nth, n
  <2>2. list.m_next[Nth(s, n)] = Nth(s, n + 1)
    <3> HIDE DEF s, n
    <3> QED BY <1>1, <2>1 DEF IsChain, n
  <2> QED BY <2>1, <2>2
<1>5. s[n] \in InList
  <2> HIDE DEF s, n
  <2>1. n \in 1 .. n
    BY <1>1, <1>3
  <2> QED BY <1>1, <2>1
<1>6. list.m_prev[list.m_next[s[n]]] = s[n]
  <2> HIDE DEF s, n
  <2> QED BY <1>5 DEF RefInv, IInv, Structure, WellLinked, Linked
<1> QED
  <2> HIDE DEF s, n
  <2>1. s[n] = last
    BY <1>4, <1>6 DEF last
  <2> QED BY <1>1, <1>2, <1>3, <2>1 DEF s, n

\* An eviction takes the last node out.
LEMMA OrderEvicted ==
  ASSUME RefInv, IInv', NEW t \in Threads, DelinkTail(t), Removable(t)
  PROVE  WalkInv' /\ Walk(list)' = RemoveAt(Walk(list), Len(Walk(list)))
<1> DEFINE s == Walk(list)
           n == Len(s)
           r == RemoveAt(s, n)
<1>1. s \in Seq(Nodes) /\ IsChain(list, s) /\ {s[i] : i \in 1 .. n} = InList
  BY WalkIsSeq
<1>2. list \in ListType /\ Linked(list, InList) /\ InList \in SUBSET Nodes
  BY DEF RefInv, IInv, TypeOK, Structure, WellLinked, InList
<1>3. n \in Nat \ {0} /\ s[n] = last /\ last \in InList
  BY TailIsLast DEF Removable
<1>4. list' = delink(list, last)
  BY DEF DelinkTail
<1> HIDE DEF s
<1>5. /\ IsChain(delink(list, s[n]), r) /\ r \in Seq(Nodes) /\ Len(r) = n - 1
      /\ {r[i] : i \in 1 .. n - 1} = InList \ {s[n]}
  <2>1. n \in 1 .. n
    BY <1>3
  <2>2. /\ IsChain(delink(list, s[n]), r)
        /\ {r[i] : i \in 1 .. n - 1} = InList \ {s[n]}
    <3> HIDE DEF InList
    <3> QED BY <1>1, <1>2, <2>1, DelinkChain
  <2>3. r \in Seq(Nodes) /\ Len(r) = n - 1
    BY <1>1, <2>1, RemoveAtFacts
  <2> QED BY <2>2, <2>3
<1>6. InList' = InList \ {last}
  <2> DEFINE S == InList \ {last}
  <2>1. delink(list, last) \in ListType /\ Linked(delink(list, last), S)
    BY <1>2, <1>3, DelinkLinked
  <2>2. S \in SUBSET Nodes
    BY <1>2
  <2>3. S = {x \in Nodes : list'.m_prev[x] /= kOutOfListMarker}
    <3> HIDE DEF S
    <3> QED BY <1>4, <2>1, <2>2, LinkedMembers
  <2> QED BY <2>3 DEF InList, is_in_list
<1>7. WalkInv' /\ Walk(list)' = r
  <2> HIDE DEF r, n, InList
  <2>1. {r[i] : i \in 1 .. Len(r)} = InList'
    BY <1>3, <1>5, <1>6
  <2>2. IsChain(list', r)
    BY <1>3, <1>4, <1>5
  <2> QED BY <1>5, <2>1, <2>2, NewWalk
<1> QED BY <1>7 DEF s

\* Freeing the moribund node, which has left the list, does not reorder it.
LEMMA OrderOfDelete ==
  ASSUME RefInv, IInv', NEW t \in Threads, DeleteMoribund(t)
  PROVE  WalkInv' /\ Walk(list)' = Walk(list) /\ InList' = InList
<1>1. moribund[t] \in Nodes \ InList
  BY DEF RefInv, IInv, TypeOK, Structure, NoDangling, DeleteMoribund
<1>2. /\ list'.m_prev = list.m_prev
      /\ \A n \in Links : n /= moribund[t] => list'.m_next[n] = list.m_next[n]
  BY <1>1 DEF DeleteMoribund, Delete, RefInv, IInv, TypeOK, ListType
<1>3. InList' = InList
  BY <1>2 DEF InList, is_in_list
<1>4. \A n \in InList \cup {m_head} : list'.m_next[n] = list.m_next[n]
  BY <1>1, <1>2, SentinelAssumption DEF Links, InList
<1> QED BY <1>3, <1>4, OrderKept

\* clear empties the order.
LEMMA OrderCleared ==
  ASSUME IInv', list' = EmptyList
  PROVE  WalkInv' /\ Walk(list)' = << >>
<1> DEFINE s == << >>
<1>1. s \in Seq(Nodes) /\ Len(s) = 0
  OBVIOUS
<1>2. IsChain(list', s)
  BY EmptyChain
<1>3. InList' = {}
  BY SentinelAssumption DEF InList, is_in_list, EmptyList, Links
<1>4. {s[i] : i \in 1 .. Len(s)} = {}
  BY <1>1
<1> QED BY <1>1, <1>2, <1>3, <1>4, NewWalk

-----------------------------------------------------------------------------
(* RefInv is inductive.                                                     *)

LEMMA ValueStep ==
  ASSUME RefInv, [Next]_vars
  PROVE  ValueInv'
<1> USE DEF RefInv, IInv, ValueInv, TypeOK, mapVars, nodeVars
<1>1. CASE UNCHANGED <<m_map, m_value, m_timestamp>> /\ now <= now' /\ now' \in Nat
  BY <1>1
<1>2. ASSUME NEW c \in Clients, SetOld(c)
      PROVE  ValueInv'
  BY <1>2 DEF SetOld
<1>3. ASSUME NEW c \in Clients, SetNew(c)
      PROVE  ValueInv'
  BY <1>3 DEF SetNew
<1>4. ASSUME NEW c \in Clients, LinkOld(c)
      PROVE  ValueInv'
  BY <1>4 DEF LinkOld, update_timestamp
<1>5. ASSUME NEW t \in Threads, EraseMoribund(t)
      PROVE  ValueInv'
  BY <1>5 DEF EraseMoribund
<1>6. ASSUME NEW t \in Threads, DeleteMoribund(t)
      PROVE  ValueInv'
  BY <1>6 DEF DeleteMoribund, Delete
<1>7. CASE Clear
  BY <1>7 DEF Clear
<1>8. CASE Tick
  BY <1>1, <1>8 DEF Tick
<1> QED
  BY <1>1, <1>2, <1>3, <1>4, <1>5, <1>6, <1>7, <1>8
  DEF Next, FindStep, CallInsert, SetEntryStep, EvictStep, vars, Find, ReleaseAccessor,
      Insert, LockListToLink, LinkNew, CountNew, ReleaseEntry, StartEvict, TryEvict,
      CheckOverload, CheckExpired, LockTail, DelinkTail, FindMoribund, EndEvict

LEMMA WalkUnchanged ==
  ASSUME RefInv, IInv', UNCHANGED list
  PROVE  WalkInv' /\ Walk(list)' = Walk(list)
BY OrderKept DEF InList, is_in_list

LEMMA RefStep ==
  ASSUME ~ ClearBesideEvict, RefInv, [Next]_vars
  PROVE  RefInv'
<1>1. IInv'
  BY NextInv DEF RefInv
<1>2. WalkInv'
  <2>1. CASE UNCHANGED list
    BY <1>1, <2>1, WalkUnchanged
  <2>2. ASSUME NEW c \in Clients, LinkOld(c)
        PROVE  WalkInv'
    <3>1. CASE Relinks(m_list_node[key[c]])
      BY <1>1, <2>2, <3>1, OrderRefreshed
    <3>2. CASE ~ Relinks(m_list_node[key[c]])
      BY <1>1, <2>2, <3>2, WalkUnchanged DEF LinkOld
    <3> QED BY <3>1, <3>2
  <2>3. ASSUME NEW c \in Clients, LinkNew(c)
        PROVE  WalkInv'
    BY <1>1, <2>3, OrderAdded
  <2>4. ASSUME NEW t \in Threads, DelinkTail(t)
        PROVE  WalkInv'
    <3>1. CASE Removable(t)
      BY <1>1, <2>4, <3>1, OrderEvicted
    <3>2. CASE ~ Removable(t)
      BY <1>1, <2>4, <3>2, WalkUnchanged DEF DelinkTail
    <3> QED BY <3>1, <3>2
  <2>5. ASSUME NEW t \in Threads, DeleteMoribund(t)
        PROVE  WalkInv'
    BY <1>1, <2>5, OrderOfDelete
  <2>6. CASE Clear
    BY <1>1, <2>6, OrderCleared DEF Clear
  <2> QED
    BY <2>1, <2>2, <2>3, <2>4, <2>5, <2>6
    DEF Next, FindStep, CallInsert, SetEntryStep, EvictStep, vars, nodeVars, Find,
        ReleaseAccessor, Insert, SetOld, SetNew, LockListToLink, CountNew, ReleaseEntry,
        StartEvict, TryEvict, CheckOverload, CheckExpired, LockTail, FindMoribund,
        EraseMoribund, EndEvict, Tick
<1>3. ValueInv'
  BY ValueStep
<1> QED BY <1>1, <1>2, <1>3 DEF RefInv

LEMMA RefInit == Init => RefInv
<1> SUFFICES ASSUME Init
             PROVE  RefInv
  OBVIOUS
<1>1. IInv
  BY InitInv
<1>2. ValueInv
  BY DEF Init, ValueInv
<1>3. IsChain(EmptyList, << >>) /\ Walk(EmptyList) = << >>
  BY EmptyChain
<1>4. Walk(list) = << >>
  BY <1>3 DEF Init
<1>5. InList = {}
  BY SentinelAssumption DEF Init, InList, is_in_list, EmptyList, Links
<1>6. WalkInv
  BY <1>3, <1>4, <1>5 DEF WalkInv, Init
<1> QED BY <1>1, <1>2, <1>6 DEF RefInv

\* The order of the list is always a chain from one sentinel to the other
\* through exactly the nodes that are not marked.
THEOREM OrderInvariance ==
  ASSUME ~ ClearBesideEvict
  PROVE  Spec => []RefInv
<1>1. Init => RefInv
  BY RefInit
<1>2. RefInv /\ [Next]_vars => RefInv'
  BY RefStep
<1> QED
  BY <1>1, <1>2, PTL DEF Spec

-----------------------------------------------------------------------------
(* The snapshot.                                                            *)

LEMMA SnapshotFacts ==
  ASSUME RefInv
  PROVE  /\ snapshot_keys \in Seq(Keys)
         /\ DOMAIN snapshot_keys = 1 .. Len(Walk(list))
         /\ Len(snapshot_keys) = Len(Walk(list))
         /\ \A i \in 1 .. Len(Walk(list)) :
              /\ snapshot_keys[i] = m_key[Walk(list)[i]]
              /\ snapshot_keys[i] \in m_map
              /\ m_list_node[snapshot_keys[i]] = Walk(list)[i]
         /\ \A i, j \in 1 .. Len(Walk(list)) : snapshot_keys[i] = snapshot_keys[j] => i = j
<1> DEFINE s == Walk(list)
           n == Len(s)
<1>1. s \in Seq(Nodes) /\ n \in Nat /\ DOMAIN s = 1 .. n /\ IsChain(list, s)
      /\ {s[i] : i \in 1 .. n} = InList
  BY WalkIsSeq
<1>2. snapshot_keys = [i \in DOMAIN s |-> m_key[s[i]]]
  BY DEF snapshot_keys
<1>3. \A i, j \in 1 .. n : s[i] = s[j] => i = j
  BY <1>1 DEF IsChain
<1> HIDE DEF s, n
<1>4. \A i \in 1 .. n : s[i] \in InList
  BY <1>1
<1>5. \A i \in 1 .. n : m_key[s[i]] \in m_map /\ m_list_node[m_key[s[i]]] = s[i]
  BY <1>4 DEF RefInv, IInv, Structure, ListedMapped
<1>6. m_map \subseteq Keys
  BY DEF RefInv, IInv, TypeOK
<1>7. \A i \in 1 .. n : snapshot_keys[i] = m_key[s[i]]
  BY <1>1, <1>2
<1>8. snapshot_keys \in Seq(Keys) /\ DOMAIN snapshot_keys = 1 .. n /\ Len(snapshot_keys) = n
  <2>1. snapshot_keys = [i \in 1 .. n |-> m_key[s[i]]]
    BY <1>1, <1>2
  <2>2. \A i \in 1 .. n : m_key[s[i]] \in Keys
    BY <1>5, <1>6
  <2>3. [i \in 1 .. n |-> m_key[s[i]]] \in Seq(Keys)
    BY <1>1, <2>2
  <2> QED BY <1>1, <2>1, <2>3
<1> QED BY <1>3, <1>5, <1>7, <1>8 DEF s, n

LEMMA SnapshotIsFaithful ==
  ASSUME RefInv
  PROVE  SnapshotFaithful
<1> DEFINE inFlux == {key[c] : c \in {d \in Clients : Fresh(d)}}
                       \cup {m_key[moribund[t]] : t \in {u \in Threads : pc[u] \in {"find", "erase"}}}
           n      == Len(Walk(list))
           listed == {snapshot_keys[i] : i \in DOMAIN snapshot_keys}
<1>1. /\ snapshot_keys \in Seq(Keys) /\ DOMAIN snapshot_keys = 1 .. n
      /\ \A i \in 1 .. n : snapshot_keys[i] = m_key[Walk(list)[i]]
      /\ \A i, j \in 1 .. n : snapshot_keys[i] = snapshot_keys[j] => i = j
  BY SnapshotFacts
<1>2. n \in Nat /\ {Walk(list)[i] : i \in 1 .. n} = InList
  BY WalkIsSeq
<1> USE DEF RefInv, IInv, Structure
<1> HIDE DEF n
<1>3. listed = {m_key[x] : x \in InList}
  BY <1>1, <1>2
<1>4. ASSUME NEW x \in InList
      PROVE  m_key[x] \in m_map \ inFlux
  <2>1. m_key[x] \in m_map /\ m_list_node[m_key[x]] = x
    BY DEF ListedMapped
  <2>2. ASSUME NEW c \in Clients, Fresh(c)
        PROVE  key[c] /= m_key[x]
    BY <2>1, <2>2 DEF FreshUnlinked
  <2>3. ASSUME NEW t \in Threads, pc[t] \in {"find", "erase"}
        PROVE  m_key[moribund[t]] /= m_key[x]
    BY <2>1, <2>3 DEF MoribundStillMapped, NoDangling
  <2> QED BY <2>1, <2>2, <2>3
<1>5. ASSUME NEW k \in m_map \ inFlux
      PROVE  \E x \in InList : m_key[x] = k
  <2>1. is_in_list(m_list_node[k])
    <3>1. ~ \E c \in Clients : Fresh(c) /\ key[c] = k
      BY <1>5
    <3>2. ~ \E t \in Threads : pc[t] \in {"find", "erase"} /\ moribund[t] = m_list_node[k]
      <4> SUFFICES ASSUME NEW t \in Threads, pc[t] \in {"find", "erase"},
                          moribund[t] = m_list_node[k]
                   PROVE  FALSE
        OBVIOUS
      <4>1. m_key[moribund[t]] = k
        BY <1>5 DEF NoDangling
      <4> QED BY <1>5, <4>1
    <3> QED BY <1>5, <3>1, <3>2 DEF EveryEntryEvictable
  <2>2. m_list_node[k] \in Nodes /\ m_key[m_list_node[k]] = k
    BY <1>5 DEF NoDangling, TypeOK
  <2> QED BY <2>1, <2>2 DEF InList
<1>6. listed = m_map \ inFlux
  <2> HIDE DEF listed, inFlux
  <2> QED BY <1>3, <1>4, <1>5
<1>7. Cardinality(listed) = Cardinality(DOMAIN snapshot_keys)
  <2> DEFINE D == 1 .. n
  <2>1. IsFiniteSet(D)
    BY <1>2, FS_Interval
  <2>2. listed = {snapshot_keys[i] : i \in D}
    BY <1>1
  <2>3. [i \in D |-> snapshot_keys[i]] \in Bijection(D, listed)
    <3> HIDE DEF D, listed
    <3>1. \A i, j \in D : snapshot_keys[i] = snapshot_keys[j] => i = j
      BY <1>1 DEF D
    <3> QED BY <2>2, <3>1 DEF Bijection, Injection, Surjection, IsInjective
  <2> HIDE DEF D, listed
  <2>4. ExistsBijection(D, listed)
    BY <2>3 DEF ExistsBijection
  <2>5. Cardinality(listed) = Cardinality(D)
    BY <2>1, <2>4, FS_Bijection
  <2> QED BY <1>1, <2>5 DEF D
<1> QED BY <1>6, <1>7 DEF SnapshotFaithful

\* snapshot_keys ends, lists no key twice, and lists every key of the map whose
\* insertion or eviction is not in progress.
THEOREM SnapshotsAreFaithful ==
  ASSUME ~ ClearBesideEvict
  PROVE  Spec => []SnapshotFaithful
<1>1. RefInv => SnapshotFaithful
  BY SnapshotIsFaithful
<1> QED
  BY <1>1, OrderInvariance, PTL

-----------------------------------------------------------------------------
(* The refinement of CacheSpec.                                             *)

StoreView == [k \in Keys |-> IF Visible(k) THEN m_value[k] ELSE NoValue]

StampView == [k \in Keys |-> IF Visible(k) THEN m_timestamp[m_list_node[k]] ELSE 0]

\* Two ways to say in which order the keys come.
LEMMA SameKeys ==
  ASSUME NEW w \in Seq(Nodes), NEW q \in Seq(Keys), Len(q) = Len(w),
         NEW f, \A i \in 1 .. Len(w) : f[w[i]] = q[i]
  PROVE  [i \in DOMAIN w |-> f[w[i]]] = q
<1>1. DOMAIN w = 1 .. Len(w) /\ DOMAIN q = 1 .. Len(w)
  OBVIOUS
<1>2. q = [i \in 1 .. Len(w) |-> q[i]]
  BY <1>1
<1> QED BY <1>1, <1>2

LEMMA KeptKeys ==
  ASSUME RefInv, Walk(list)' = Walk(list), \A n \in InList : m_key'[n] = m_key[n]
  PROVE  snapshot_keys' = snapshot_keys
<1>1. snapshot_keys' = [i \in DOMAIN Walk(list) |-> m_key'[Walk(list)[i]]]
  BY DEF snapshot_keys
<1>2. \A i \in DOMAIN Walk(list) : Walk(list)[i] \in InList
  BY WalkIsSeq
<1> QED BY <1>1, <1>2 DEF snapshot_keys

\* Who is Fresh is all that Visible asks of the clients.
LEMMA KeptView ==
  ASSUME RefInv, UNCHANGED <<m_map, m_value, m_list_node, m_timestamp, m_key, list>>,
         IInv',
         \A c \in Clients : (Fresh(c)' <=> Fresh(c)) /\ (Fresh(c) => key'[c] = key[c])
  PROVE  UNCHANGED <<StoreView, StampView, snapshot_keys>>
<1>1. \A k \in Keys : Visible(k)' <=> Visible(k)
  BY DEF Visible
<1>2. UNCHANGED <<StoreView, StampView>>
  BY <1>1 DEF StoreView, StampView
<1>3. UNCHANGED snapshot_keys
  BY WalkUnchanged, KeptKeys
<1> QED BY <1>2, <1>3

LEMMA ClientStutters ==
  ASSUME RefInv, IInv', NEW c \in Clients,
         \/ \E batch \in Batches : Insert(c, batch)
         \/ LockListToLink(c) \/ CountNew(c) \/ ReleaseEntry(c) \/ StartEvict(c)
         \/ LinkOld(c) /\ ~ Relinks(m_list_node[key[c]])
  PROVE  UNCHANGED <<StoreView, StampView, snapshot_keys, accessor, found, now>>
<1> USE DEF RefInv, IInv, TypeOK, Fresh, Threads, Goto, mapVars, nodeVars, accessorVars,
            insertVars
<1>1. CASE \E batch \in Batches : Insert(c, batch)
  BY <1>1, KeptView DEF Insert
<1>2. CASE LockListToLink(c)
  BY <1>2, KeptView DEF LockListToLink
<1>3. CASE CountNew(c)
  BY <1>3, KeptView DEF CountNew
<1>4. CASE ReleaseEntry(c)
  BY <1>4, KeptView DEF ReleaseEntry
<1>5. CASE StartEvict(c)
  BY <1>5, KeptView DEF StartEvict
<1>6. CASE LinkOld(c) /\ ~ Relinks(m_list_node[key[c]])
  BY <1>6, KeptView DEF LinkOld
<1> QED
  BY <1>1, <1>2, <1>3, <1>4, <1>5, <1>6

LEMMA EvictorStutters ==
  ASSUME RefInv, IInv', NEW t \in Threads,
         \/ TryEvict(t) \/ CheckOverload(t) \/ CheckExpired(t) \/ LockTail(t)
         \/ DelinkTail(t) /\ ~ Removable(t)
         \/ FindMoribund(t) \/ EndEvict(t)
  PROVE  UNCHANGED <<StoreView, StampView, snapshot_keys, accessor, found, now>>
<1> USE DEF RefInv, IInv, TypeOK, Fresh, Threads, Goto, mapVars, nodeVars, accessorVars,
            insertVars
<1>1. CASE TryEvict(t)
  BY <1>1, KeptView DEF TryEvict
<1>2. CASE CheckOverload(t)
  BY <1>2, KeptView DEF CheckOverload
<1>3. CASE CheckExpired(t)
  BY <1>3, KeptView DEF CheckExpired
<1>4. CASE LockTail(t)
  BY <1>4, KeptView DEF LockTail
<1>5. CASE DelinkTail(t) /\ ~ Removable(t)
  BY <1>5, KeptView DEF DelinkTail, AfterRemove
<1>6. CASE FindMoribund(t)
  BY <1>6, KeptView DEF FindMoribund, AfterRemove
<1>7. CASE EndEvict(t)
  BY <1>7, KeptView DEF EndEvict
<1> QED
  BY <1>1, <1>2, <1>3, <1>4, <1>5, <1>6, <1>7

\* A new element is not visible before it is linked.
LEMMA SetNewStutters ==
  ASSUME RefInv, IInv', NEW c \in Clients, SetNew(c)
  PROVE  UNCHANGED <<StoreView, StampView, snapshot_keys, accessor, found, now>>
<1> USE DEF RefInv, IInv, TypeOK, Threads
<1>1. PICK pair \in todo[c], node \in Nodes \ alloc :
        /\ pair[1] \notin m_map
        /\ m_map' = m_map \cup {pair[1]}
        /\ m_value' = [m_value EXCEPT ![pair[1]] = pair[2]]
        /\ m_list_node' = [m_list_node EXCEPT ![pair[1]] = node]
        /\ m_key' = [m_key EXCEPT ![node] = pair[1]]
        /\ m_timestamp' = [m_timestamp EXCEPT ![node] = now]
        /\ key' = [key EXCEPT ![c] = pair[1]]
  BY DEF SetNew
<1> DEFINE k == pair[1]
<1>2. pc[c] = "next" /\ pc' = [pc EXCEPT ![c] = "lock_new"]
      /\ UNCHANGED <<accessor, found, now, list>>
  BY DEF SetNew, Goto, accessorVars
<1>3. Fresh(c)' /\ ~ Fresh(c) /\ key'[c] = k
      /\ \A d \in Clients : d /= c => (Fresh(d)' <=> Fresh(d)) /\ key'[d] = key[d]
  BY <1>1, <1>2 DEF Fresh
<1>4. \A x \in Keys : Visible(x)' <=> Visible(x)
  <2> SUFFICES ASSUME NEW x \in Keys
               PROVE  Visible(x)' <=> Visible(x)
    OBVIOUS
  <2>1. CASE x = k
    BY <1>1, <1>3, <2>1 DEF Visible
  <2>2. CASE x /= k
    BY <1>1, <1>3, <2>2 DEF Visible
  <2> QED BY <2>1, <2>2
<1>5. \A x \in Keys : Visible(x) =>
        /\ m_value'[x] = m_value[x]
        /\ m_timestamp'[m_list_node'[x]] = m_timestamp[m_list_node[x]]
  BY <1>1 DEF Visible, Structure, NoDangling
<1>6. UNCHANGED <<StoreView, StampView>>
  BY <1>4, <1>5 DEF StoreView, StampView
<1>7. UNCHANGED snapshot_keys
  BY <1>1, <1>2, WalkUnchanged, KeptKeys DEF Structure, NoDangling
<1> QED BY <1>2, <1>6, <1>7

LEMMA DeleteStutters ==
  ASSUME RefInv, IInv', NEW t \in Threads, DeleteMoribund(t)
  PROVE  UNCHANGED <<StoreView, StampView, snapshot_keys, accessor, found, now>>
<1> USE DEF RefInv, IInv, TypeOK
<1>1. /\ UNCHANGED <<m_map, m_value, m_list_node, accessor, found, now, key>>
      /\ moribund[t] \in Nodes \ InList
      /\ m_key' = [m_key EXCEPT ![moribund[t]] = NoKey]
      /\ m_timestamp' = [m_timestamp EXCEPT ![moribund[t]] = 0]
  BY DEF DeleteMoribund, Delete, mapVars, accessorVars, insertVars, Structure, NoDangling
<1>2. \A c \in Clients : Fresh(c)' <=> Fresh(c)
  BY DEF DeleteMoribund, AfterRemove, Goto, Fresh, Threads
<1>3. \A x \in Keys : Visible(x)' <=> Visible(x)
  BY <1>1, <1>2 DEF Visible
<1>4. \A x \in m_map : m_timestamp'[m_list_node[x]] = m_timestamp[m_list_node[x]]
  BY <1>1 DEF DeleteMoribund, Structure, ErasedUnmapped, NoDangling
<1>5. UNCHANGED <<StoreView, StampView>>
  BY <1>1, <1>3, <1>4 DEF StoreView, StampView, Visible
<1>6. UNCHANGED snapshot_keys
  BY <1>1, OrderOfDelete, KeptKeys
<1> QED BY <1>1, <1>5, <1>6

\* What a client that is in set_entry shares its key with: nobody.
LEMMA EntryAlone ==
  ASSUME IInv, NEW c \in Clients, HoldsEntry(c)
  PROVE  /\ key[c] \in m_map /\ key[c] \in Keys /\ writer[key[c]] = c
         /\ \A d \in Clients : accessor[d] /= key[c]
         /\ \A d \in Clients : HoldsEntry(d) /\ key[d] = key[c] => d = c
         /\ m_list_node[key[c]] \in alloc /\ m_list_node[key[c]] \in Nodes
         /\ m_key[m_list_node[key[c]]] = key[c]
         /\ \A k \in m_map : m_list_node[k] = m_list_node[key[c]] => k = key[c]
<1>1. key[c] \in m_map /\ writer[key[c]] = c /\ key[c] \in Keys
  BY DEF IInv, TypeOK, Control, EntriesLocked
<1>2. Readers(key[c]) = {}
  BY <1>1, SentinelAssumption DEF IInv, Control, EntriesLocked, Threads
<1>3. \A d \in Clients : HoldsEntry(d) /\ key[d] = key[c] => d = c
  BY <1>1 DEF IInv, Control, EntriesLocked
<1>4. \A k \in m_map : m_list_node[k] \in alloc /\ m_key[m_list_node[k]] = k
  BY DEF IInv, Structure, NoDangling
<1> QED BY <1>1, <1>2, <1>3, <1>4 DEF Readers, IInv, TypeOK

LEMMA NoWriterVisible ==
  ASSUME IInv, NEW k \in m_map, writer[k] = NoThread
  PROVE  Visible(k)
BY SentinelAssumption DEF Visible, IInv, Control, EntriesLocked, HoldsEntry, Fresh, Threads

LEMMA FindPins ==
  ASSUME RefInv, IInv', NEW c \in Clients, NEW k \in Keys, Find(c, k)
  PROVE  Abstract!Next
<1>1. /\ accessor[c] = NoKey /\ k \in m_map /\ writer[k] = NoThread
      /\ accessor' = [accessor EXCEPT ![c] = k]
      /\ found' = [found EXCEPT ![c] = ~ (m_timeout /= 0 /\ Expired(m_list_node[k]))]
  BY DEF Find
<1>2. Visible(k) /\ m_value[k] \in Values
  BY <1>1, NoWriterVisible DEF RefInv, ValueInv
<1>3. UNCHANGED <<StoreView, StampView, snapshot_keys, now>>
  BY KeptView DEF Find, Fresh, mapVars, nodeVars, insertVars, RefInv
<1>4. StoreView[k] /= NoValue /\ StampView[k] = m_timestamp[m_list_node[k]]
  BY <1>2, SentinelAssumption DEF StoreView, StampView
<1>5. Abstract!Pin(c, k)
  BY <1>1, <1>3, <1>4 DEF Abstract!Pin, Abstract!Expired, Expired, StoreView, StampView
<1> QED BY <1>5 DEF Abstract!Next

LEMMA ReleaseUnpins ==
  ASSUME RefInv, IInv', NEW c \in Clients, ReleaseAccessor(c)
  PROVE  Abstract!Next
<1>1. UNCHANGED <<StoreView, StampView, snapshot_keys, now>>
  BY KeptView DEF ReleaseAccessor, Fresh, mapVars, nodeVars, insertVars, RefInv
<1>2. Abstract!Unpin(c)
  BY <1>1 DEF Abstract!Unpin, ReleaseAccessor, StoreView, StampView
<1> QED BY <1>2 DEF Abstract!Next

LEMMA SetOldOverwrites ==
  ASSUME RefInv, IInv', NEW c \in Clients, SetOld(c)
  PROVE  Abstract!Next
<1> USE DEF RefInv, IInv, TypeOK, Threads
<1>1. PICK pair \in todo[c] :
        /\ pair[1] \in m_map
        /\ Unlocked(pair[1])
        /\ m_value' = [m_value EXCEPT ![pair[1]] = pair[2]]
        /\ key' = [key EXCEPT ![c] = pair[1]]
  BY DEF SetOld
<1> DEFINE k == pair[1]
           v == pair[2]
<1>2. k \in Keys /\ v \in Values
  OBVIOUS
<1>3. /\ pc[c] = "next" /\ pc' = [pc EXCEPT ![c] = "lock_old"]
      /\ UNCHANGED <<m_map, m_list_node, m_key, m_timestamp, list, accessor, found, now>>
  BY DEF SetOld, Goto, nodeVars, accessorVars
<1>4. Visible(k) /\ m_value[k] \in Values /\ \A d \in Clients : accessor[d] /= k
  BY <1>1, NoWriterVisible DEF ValueInv, Unlocked, Readers
<1>5. \A x \in Keys : Visible(x)' <=> Visible(x)
  <2>1. \A d \in Clients : (Fresh(d)' <=> Fresh(d)) /\ (Fresh(d) => key'[d] = key[d])
    BY <1>1, <1>3 DEF Fresh
  <2> QED BY <1>3, <2>1 DEF Visible
<1>6. StampView' = StampView /\ snapshot_keys' = snapshot_keys
  BY <1>3, <1>5, WalkUnchanged, KeptKeys DEF StampView
<1>7. StoreView' = [StoreView EXCEPT ![k] = v]
  BY <1>1, <1>2, <1>4, <1>5 DEF StoreView
<1>8. StoreView[k] /= NoValue
  BY <1>2, <1>4, SentinelAssumption DEF StoreView
<1> HIDE DEF k, v
<1>9. Abstract!Overwrite(k, v)
  BY <1>3, <1>4, <1>6, <1>7, <1>8 DEF Abstract!Overwrite, Abstract!Unpinned, StoreView, StampView
<1> QED BY <1>2, <1>9 DEF Abstract!Next

LEMMA TickTicks ==
  ASSUME RefInv, IInv', Tick
  PROVE  Abstract!Next
<1>1. UNCHANGED <<StoreView, StampView, snapshot_keys>>
  BY KeptView DEF Tick, Fresh, mapVars, nodeVars, insertVars, RefInv
<1>2. Abstract!Tick
  BY <1>1 DEF Abstract!Tick, Tick, accessorVars, StoreView, StampView
<1> QED BY <1>2 DEF Abstract!Next

LEMMA ClearClears ==
  ASSUME RefInv, IInv', Clear
  PROVE  Abstract!Next
<1>1. m_map' = {} /\ list' = EmptyList
      /\ UNCHANGED <<accessor, found, now>> /\ \A c \in Clients : accessor[c] = NoKey
  BY DEF Clear, accessorVars
<1>2. StoreView' = [k \in Keys |-> NoValue] /\ StampView' = [k \in Keys |-> 0]
  BY <1>1 DEF StoreView, StampView, Visible
<1>3. Walk(list)' = << >>
  BY <1>1, OrderCleared
<1>4. snapshot_keys' = << >>
  BY <1>3 DEF snapshot_keys
<1>5. Abstract!Clear
  BY <1>1, <1>2, <1>4 DEF Abstract!Clear, StoreView, StampView
<1> QED BY <1>5 DEF Abstract!Next

LEMMA EraseDrops ==
  ASSUME RefInv, IInv', NEW t \in Threads, EraseMoribund(t)
  PROVE  Abstract!Next
<1> USE DEF RefInv, IInv, TypeOK, Threads
<1>0. PICK k \in Keys : k = m_key[moribund[t]]
  BY DEF EraseMoribund, Structure, MoribundStillMapped
<1>1. /\ pc[t] = "erase" /\ pc' = [pc EXCEPT ![t] = "delete"]
      /\ m_map' = m_map \ {k}
      /\ m_value' = [m_value EXCEPT ![k] = NoValue]
      /\ m_list_node' = [m_list_node EXCEPT ![k] = Null]
      /\ UNCHANGED <<m_key, m_timestamp, list, key, accessor, found, now>>
  BY <1>0 DEF EraseMoribund, Goto, nodeVars, accessorVars, insertVars
<1>2. /\ k \in m_map /\ m_list_node[k] = moribund[t] /\ moribund[t] \notin InList
      /\ writer[k] = t
  BY <1>0, <1>1 DEF Structure, MoribundStillMapped, NoDangling, Control, EntriesLocked
<1>3. \A d \in Clients : accessor[d] /= k
  BY <1>2, SentinelAssumption DEF Control, EntriesLocked, Readers
<1>4. Visible(k)
  BY <1>1, <1>2 DEF Visible, Control, EntriesLocked, HoldsEntry, Fresh
<1>5. \A x \in Keys : Visible(x)' <=> Visible(x) /\ x /= k
  <2>1. \A d \in Clients : Fresh(d)' <=> Fresh(d)
    BY <1>1 DEF Fresh
  <2> QED BY <1>1, <2>1 DEF Visible
<1>6. StoreView' = [StoreView EXCEPT ![k] = NoValue] /\ StampView' = [StampView EXCEPT ![k] = 0]
  <2>1. \A x \in Keys : Visible(x)' =>
          m_value'[x] = m_value[x] /\ m_list_node'[x] = m_list_node[x]
    BY <1>1, <1>5
  <2>2. StoreView' = [StoreView EXCEPT ![k] = NoValue]
    BY <1>5, <2>1 DEF StoreView
  <2>3. StampView' = [StampView EXCEPT ![k] = 0]
    BY <1>1, <1>5, <2>1 DEF StampView
  <2> QED BY <2>2, <2>3
<1>7. snapshot_keys' = snapshot_keys
  BY <1>1, WalkUnchanged, KeptKeys
<1>8. StoreView[k] /= NoValue
  BY <1>2, <1>4, SentinelAssumption DEF StoreView, ValueInv
<1> HIDE DEF RefInv, IInv, TypeOK, Threads
<1>10. \A i \in 1 .. Len(snapshot_keys) : snapshot_keys[i] /= k
  <2>1. \A i \in 1 .. Len(Walk(list)) : Walk(list)[i] \in InList
    BY WalkIsSeq
  <2>2. m_list_node[k] \notin InList
    BY <1>2
  <2> QED BY <2>1, <2>2, SnapshotFacts
<1>11. ~ Abstract!Contains(snapshot_keys, k)
  BY <1>10 DEF Abstract!Contains
<1>12. Abstract!Drop(k)
  BY <1>1, <1>3, <1>6, <1>7, <1>8, <1>11
  DEF Abstract!Drop, Abstract!Unpinned, StoreView, StampView
<1> QED BY <1>12 DEF Abstract!Next

LEMMA LinkNewAdds ==
  ASSUME RefInv, IInv', NEW c \in Clients, LinkNew(c)
  PROVE  Abstract!Next
<1> USE DEF RefInv, IInv, TypeOK, Threads
<1>0. PICK k \in Keys : k = key[c]
  BY EntryAlone DEF LinkNew, HoldsEntry
<1> DEFINE node == m_list_node[k]
           s == Walk(list)
<1>1. /\ pc[c] = "link_new" /\ pc' = [pc EXCEPT ![c] = "count"]
      /\ UNCHANGED <<m_map, m_value, m_list_node, m_key, m_timestamp, key, accessor,
                     found, now>>
  BY <1>0 DEF LinkNew, Goto, mapVars, nodeVars, accessorVars, insertVars
<1>2. /\ k \in m_map /\ k \in Keys /\ m_key[node] = k /\ node \in Nodes
      /\ \A d \in Clients : HoldsEntry(d) /\ key[d] = k => d = c
  BY <1>0, <1>1, EntryAlone DEF HoldsEntry
<1>3. ~ Visible(k)
  BY <1>0, <1>1 DEF Visible, Fresh
<1>4. \A x \in Keys : Visible(x)' <=> Visible(x) \/ x = k
  <2>1. ~ Fresh(c)' /\ Fresh(c) /\ \A d \in Clients : d /= c => (Fresh(d)' <=> Fresh(d))
    BY <1>1 DEF Fresh
  <2>2. \A d \in Clients : Fresh(d) /\ key[d] = k => d = c
    BY <1>2 DEF Fresh, HoldsEntry
  <2> QED BY <1>0, <1>1, <1>2, <2>1, <2>2 DEF Visible
<1>5. StoreView' = [StoreView EXCEPT ![k] = m_value[k]]
      /\ StampView' = [StampView EXCEPT ![k] = m_timestamp[node]]
  BY <1>1, <1>2, <1>4 DEF StoreView, StampView
<1>6. m_timestamp[node] \in 0 .. now /\ m_value[k] \in Values /\ StoreView[k] = NoValue
  BY <1>2, <1>3 DEF ValueInv, StoreView
<1> HIDE DEF RefInv, IInv, TypeOK, Threads
<1>7. snapshot_keys' = <<k>> \o snapshot_keys
  <2> DEFINE w == <<node>> \o s
  <2>1. s \in Seq(Nodes) /\ Len(s) \in Nat
    BY WalkIsSeq
  <2>2. /\ snapshot_keys \in Seq(Keys) /\ Len(snapshot_keys) = Len(s)
        /\ \A i \in 1 .. Len(s) : snapshot_keys[i] = m_key[s[i]]
    BY SnapshotFacts
  <2>3. Walk(list)' = w
    BY <1>0, OrderAdded
  <2>4. snapshot_keys' = [i \in DOMAIN w |-> m_key[w[i]]]
    BY <1>1, <2>3 DEF snapshot_keys
  <2> HIDE DEF s, node
  <2>5. /\ w \in Seq(Nodes) /\ Len(w) = Len(s) + 1
        /\ \A i \in 1 .. Len(w) : w[i] = IF i = 1 THEN node ELSE s[i - 1]
    BY <1>2, <2>1
  <2>6. /\ <<k>> \o snapshot_keys \in Seq(Keys) /\ Len(<<k>> \o snapshot_keys) = Len(s) + 1
        /\ \A i \in 1 .. Len(s) + 1 :
             (<<k>> \o snapshot_keys)[i] = IF i = 1 THEN k ELSE snapshot_keys[i - 1]
    BY <1>2, <2>2
  <2> DEFINE q == <<k>> \o snapshot_keys
  <2> HIDE DEF w, q
  <2>7. \A i \in 1 .. Len(w) : m_key[w[i]] = q[i]
    <3> SUFFICES ASSUME NEW i \in 1 .. Len(w)
                 PROVE  m_key[w[i]] = q[i]
      OBVIOUS
    <3>1. CASE i = 1
      BY <1>2, <2>5, <2>6, <3>1 DEF q
    <3>2. CASE i /= 1
      <4>1. i - 1 \in 1 .. Len(s)
        BY <2>1, <2>5, <3>2
      <4> QED BY <2>1, <2>2, <2>5, <2>6, <3>2, <4>1 DEF q
    <3> QED BY <3>1, <3>2
  <2>8. q \in Seq(Keys) /\ Len(q) = Len(w)
    BY <2>5, <2>6 DEF q
  <2>9. snapshot_keys' = q
    BY <2>4, <2>5, <2>7, <2>8, SameKeys
  <2> QED BY <2>9 DEF q
<1> HIDE DEF node
<1>8. PICK v \in Values : v = m_value[k]
  BY <1>6
<1>9. Abstract!Add(k, v)
  BY <1>1, <1>5, <1>6, <1>7, <1>8 DEF Abstract!Add, StoreView, StampView
<1> QED BY <1>9 DEF Abstract!Next

LEMMA LinkOldRefreshes ==
  ASSUME RefInv, IInv', NEW c \in Clients, LinkOld(c), Relinks(m_list_node[key[c]])
  PROVE  Abstract!Next
<1> USE DEF RefInv, IInv, TypeOK, Threads
<1>0. PICK k \in Keys : k = key[c]
  BY EntryAlone DEF LinkOld, HoldsEntry
<1> DEFINE node == m_list_node[k]
           s == Walk(list)
<1>1. /\ pc[c] = "link_old" /\ pc' = [pc EXCEPT ![c] = "release"]
      /\ m_timestamp' = [m_timestamp EXCEPT ![node] = now]
      /\ UNCHANGED <<m_map, m_value, m_list_node, m_key, key, accessor, found, now>>
  BY <1>0 DEF LinkOld, update_timestamp, Goto, mapVars, accessorVars, insertVars
<1>2. /\ k \in m_map /\ k \in Keys /\ m_key[node] = k /\ node \in Nodes
      /\ \A d \in Clients : HoldsEntry(d) /\ key[d] = k => d = c
      /\ \A d \in Clients : accessor[d] /= k
      /\ \A x \in m_map : m_list_node[x] = node => x = k
  BY <1>0, <1>1, EntryAlone DEF HoldsEntry
<1>3. Visible(k)
  BY <1>0, <1>1, <1>2 DEF Visible, Fresh, HoldsEntry
<1>4. \A x \in Keys : Visible(x)' <=> Visible(x)
  BY <1>1 DEF Visible, Fresh
<1>5. StoreView' = StoreView
  BY <1>1, <1>4 DEF StoreView
<1>6. StampView' = [StampView EXCEPT ![k] = now]
  <2>1. \A x \in Keys : Visible(x) /\ x /= k => m_list_node[x] \in Nodes \ {node}
    BY <1>2 DEF Visible, Structure, NoDangling
  <2>2. \A x \in Keys : Visible(x)' =>
          m_timestamp'[m_list_node'[x]] = IF x = k THEN now ELSE m_timestamp[m_list_node[x]]
    BY <1>1, <1>2, <1>4, <2>1
  <2> QED BY <1>2, <1>3, <1>4, <2>2 DEF StampView
<1> HIDE DEF RefInv, IInv, TypeOK, Threads
<1>7. PICK i \in 1 .. Len(s) : s[i] = node /\ Walk(list)' = <<node>> \o RemoveAt(s, i)
  BY <1>0, OrderRefreshed
<1>8. /\ s \in Seq(Nodes) /\ Len(s) \in Nat
      /\ snapshot_keys \in Seq(Keys) /\ Len(snapshot_keys) = Len(s)
      /\ \A j \in 1 .. Len(s) : snapshot_keys[j] = m_key[s[j]]
  BY SnapshotFacts, WalkIsSeq
<1>9. i \in DOMAIN snapshot_keys /\ snapshot_keys[i] = k
  BY <1>2, <1>7, <1>8
<1>10. snapshot_keys' = <<k>> \o RemoveAt(snapshot_keys, i)
  <2> DEFINE r == RemoveAt(s, i)
             q == RemoveAt(snapshot_keys, i)
             w == <<node>> \o r
  <2>1. snapshot_keys' = [j \in DOMAIN w |-> m_key[w[j]]]
    BY <1>1, <1>7 DEF snapshot_keys
  <2> HIDE DEF s, node
  <2>2. /\ r \in Seq(Nodes) /\ Len(r) = Len(s) - 1
        /\ \A j \in 1 .. Len(s) - 1 : r[j] = IF j < i THEN s[j] ELSE s[j + 1]
    BY <1>8, RemoveAtFacts
  <2>3. /\ q \in Seq(Keys) /\ Len(q) = Len(s) - 1
        /\ \A j \in 1 .. Len(s) - 1 :
             q[j] = IF j < i THEN snapshot_keys[j] ELSE snapshot_keys[j + 1]
    <3>1. i \in 1 .. Len(snapshot_keys)
      BY <1>8
    <3> QED BY <1>8, <3>1, RemoveAtFacts
  <2>4. \A j \in 1 .. Len(s) - 1 : q[j] = m_key[r[j]]
    BY <1>8, <2>2, <2>3
  <2> HIDE DEF r, q
  <2>5. /\ w \in Seq(Nodes) /\ Len(w) = Len(s)
        /\ \A j \in 1 .. Len(w) : w[j] = IF j = 1 THEN node ELSE r[j - 1]
    BY <1>2, <1>8, <2>2
  <2>6. /\ <<k>> \o q \in Seq(Keys) /\ Len(<<k>> \o q) = Len(s)
        /\ \A j \in 1 .. Len(s) : (<<k>> \o q)[j] = IF j = 1 THEN k ELSE q[j - 1]
    BY <1>2, <1>8, <2>3
  <2> DEFINE p == <<k>> \o q
  <2> HIDE DEF w, p
  <2>7. \A j \in 1 .. Len(w) : m_key[w[j]] = p[j]
    <3> SUFFICES ASSUME NEW j \in 1 .. Len(w)
                 PROVE  m_key[w[j]] = p[j]
      OBVIOUS
    <3>1. CASE j = 1
      BY <1>2, <2>5, <2>6, <3>1 DEF p
    <3>2. CASE j /= 1
      <4>1. j - 1 \in 1 .. Len(s) - 1
        BY <1>8, <2>5, <3>2
      <4> QED BY <2>4, <2>5, <2>6, <3>2, <4>1 DEF p
    <3> QED BY <3>1, <3>2
  <2>8. p \in Seq(Keys) /\ Len(p) = Len(w)
    BY <2>5, <2>6 DEF p
  <2>9. snapshot_keys' = p
    BY <2>1, <2>5, <2>7, <2>8, SameKeys
  <2> QED BY <2>9 DEF p, q
<1> HIDE DEF node, s
<1>11. Abstract!Refresh(k)
  BY <1>1, <1>2, <1>5, <1>6, <1>9, <1>10
  DEF Abstract!Refresh, Abstract!Unpinned, Abstract!RemoveAt, RemoveAt, StoreView, StampView
<1> QED BY <1>11 DEF Abstract!Next

LEMMA DelinkEvicts ==
  ASSUME RefInv, IInv', [Next]_vars, NEW t \in Threads, DelinkTail(t), Removable(t)
  PROVE  Abstract!Next
<1> USE DEF RefInv, IInv, TypeOK, Threads
<1> DEFINE s == Walk(list)
           n == Len(s)
           k == m_key[last]
<1>1. /\ pc[t] = "delink" /\ pc' = [pc EXCEPT ![t] = "find"]
      /\ list' = delink(list, last)
      /\ UNCHANGED <<m_map, m_value, m_list_node, m_key, m_timestamp, alloc, key,
                     accessor, found, now>>
  BY DEF DelinkTail, Goto, mapVars, nodeVars, accessorVars, insertVars
<1>2. n \in Nat \ {0} /\ s[n] = last /\ last \in InList /\ Walk(list)' = RemoveAt(s, n)
  BY TailIsLast, OrderEvicted DEF Removable
<1>3. UNCHANGED <<StoreView, StampView>>
  <2>1. \A d \in Clients : Fresh(d)' <=> Fresh(d)
    BY <1>1 DEF Fresh
  <2> QED BY <1>1, <2>1 DEF StoreView, StampView, Visible
<1>4. Cardinality(InList) > m_max_size \/ (m_timeout /= 0 /\ Expired(last))
  <2>1. EvictsJustly
    BY EvictsJustlyStep
  <2>2. list'.m_prev[last] = kOutOfListMarker
    BY <1>1, <1>2 DEF delink, ListType, Links, InList
  <2>3. last \in alloc'
    BY <1>1, <1>2 DEF Structure, NoDangling
  <2> QED BY <1>2, <2>1, <2>2, <2>3 DEF EvictsJustly
<1>5. /\ snapshot_keys \in Seq(Keys) /\ Len(snapshot_keys) = n /\ s \in Seq(Nodes)
      /\ \A i \in 1 .. n : snapshot_keys[i] = m_key[s[i]] /\ snapshot_keys[i] \in m_map
      /\ Cardinality(InList) = n
  <2>1. IsChain(list, s) /\ {s[i] : i \in 1 .. n} = InList /\ s \in Seq(Nodes)
    BY WalkIsSeq
  <2>2. Cardinality({s[i] : i \in 1 .. n}) = n
    <3> HIDE DEF s
    <3> QED BY <2>1, ChainLength DEF IsChain
  <2>3. /\ snapshot_keys \in Seq(Keys) /\ Len(snapshot_keys) = n
        /\ \A i \in 1 .. n : snapshot_keys[i] = m_key[s[i]] /\ snapshot_keys[i] \in m_map
    BY SnapshotFacts
  <2> QED BY <2>1, <2>2, <2>3
<1>6. k \in Keys /\ StampView[k] = m_timestamp[last]
  <2>1. k \in m_map /\ m_list_node[k] = last
    BY <1>2 DEF Structure, ListedMapped
  <2>2. Visible(k)
    BY <1>2, <2>1 DEF Visible, Structure, FreshUnlinked
  <2> QED BY <2>1, <2>2 DEF StampView
<1> HIDE DEF RefInv, IInv, TypeOK, Threads
<1> HIDE DEF s, n
<1>7. snapshot_keys[n] = k
  BY <1>2, <1>5
<1>8. snapshot_keys' = SubSeq(snapshot_keys, 1, n - 1)
  <2> DEFINE w == RemoveAt(s, n)
             q == SubSeq(snapshot_keys, 1, n - 1)
  <2>1. snapshot_keys' = [i \in DOMAIN w |-> m_key[w[i]]]
    BY <1>1, <1>2 DEF snapshot_keys, s
  <2>2. /\ w \in Seq(Nodes) /\ Len(w) = n - 1
        /\ \A i \in 1 .. n - 1 : w[i] = s[i]
    <3>1. n \in 1 .. Len(s) /\ Len(s) = n
      BY <1>2 DEF n
    <3>2. /\ w \in Seq(Nodes) /\ Len(w) = Len(s) - 1
          /\ \A j \in 1 .. Len(s) - 1 : w[j] = IF j < n THEN s[j] ELSE s[j + 1]
      BY <1>5, <3>1, RemoveAtFacts
    <3> QED BY <1>2, <3>1, <3>2
  <2>3. /\ q \in Seq(Keys) /\ Len(q) = n - 1
        /\ \A i \in 1 .. n - 1 : q[i] = snapshot_keys[i]
    BY <1>2, <1>5
  <2> HIDE DEF w, q
  <2>4. \A i \in 1 .. Len(w) : m_key[w[i]] = q[i]
    <3> SUFFICES ASSUME NEW i \in 1 .. Len(w)
                 PROVE  m_key[w[i]] = q[i]
      OBVIOUS
    <3>1. i \in 1 .. n - 1 /\ i \in 1 .. n
      BY <1>2, <2>2
    <3> QED BY <1>5, <2>2, <2>3, <3>1
  <2>5. snapshot_keys' = q
    BY <2>1, <2>2, <2>3, <2>4, SameKeys
  <2> QED BY <2>5 DEF q
<1>9. snapshot_keys /= << >>
  BY <1>2, <1>5
<1> HIDE DEF k
<1>10. Abstract!Evict
  <2>1. Abstract!Front(snapshot_keys) = SubSeq(snapshot_keys, 1, n - 1)
    BY <1>5 DEF Abstract!Front
  <2>2. Abstract!Last(snapshot_keys) = k
    BY <1>5, <1>7 DEF Abstract!Last
  <2>3. Len(snapshot_keys) > m_max_size \/ Abstract!Expired(k)
    BY <1>4, <1>5, <1>6 DEF Abstract!Expired, Expired, StampView
  <2> QED
    BY <1>1, <1>3, <1>8, <1>9, <2>1, <2>2, <2>3 DEF Abstract!Evict, StoreView, StampView
<1> QED BY <1>10 DEF Abstract!Next

LEMMA AbstractStep ==
  ASSUME ~ ClearBesideEvict, RefInv, [Next]_vars
  PROVE  [Abstract!Next]_(Abstract!vars)
<1>0. IInv'
  BY NextInv DEF RefInv
<1>1. CASE UNCHANGED <<StoreView, StampView, snapshot_keys, accessor, found, now>>
  BY <1>1 DEF Abstract!vars, StoreView, StampView
<1>2. ASSUME NEW c \in Clients, FindStep(c)
      PROVE  Abstract!Next
  BY <1>0, <1>2, FindPins, ReleaseUnpins DEF FindStep
<1>3. ASSUME NEW c \in Clients, CallInsert(c)
      PROVE  [Abstract!Next]_(Abstract!vars)
  <2>1. c \in Threads
    BY DEF Threads
  <2> QED BY <1>0, <1>1, <1>3, <2>1, ClientStutters DEF CallInsert
<1>4. ASSUME NEW c \in Clients, SetEntryStep(c)
      PROVE  [Abstract!Next]_(Abstract!vars)
  <2>1. c \in Threads
    BY DEF Threads
  <2>2. CASE LockListToLink(c) \/ CountNew(c) \/ ReleaseEntry(c) \/ StartEvict(c)
    BY <1>0, <1>1, <2>1, <2>2, ClientStutters
  <2>3. CASE LinkOld(c)
    BY <1>0, <1>1, <2>1, <2>3, ClientStutters, LinkOldRefreshes
  <2> QED
    BY <1>0, <1>1, <1>4, <2>2, <2>3, SetOldOverwrites, SetNewStutters, LinkNewAdds
    DEF SetEntryStep
<1>5. ASSUME NEW t \in Threads, EvictStep(t)
      PROVE  [Abstract!Next]_(Abstract!vars)
  BY <1>0, <1>1, <1>5, EvictorStutters, DelinkEvicts, EraseDrops, DeleteStutters
  DEF EvictStep
<1>6. CASE Clear \/ Tick
  BY <1>0, <1>6, ClearClears, TickTicks
<1>7. CASE UNCHANGED vars
  <2>1. UNCHANGED <<StoreView, StampView>>
    BY <1>7 DEF vars, StoreView, StampView, Visible, Fresh
  <2>2. UNCHANGED snapshot_keys
    BY <1>7 DEF vars, snapshot_keys, Walk
  <2> QED BY <1>1, <1>7, <2>1, <2>2 DEF vars
<1> QED BY <1>2, <1>3, <1>4, <1>5, <1>6, <1>7 DEF Next

LEMMA AbstractInit == Init => Abstract!Init
<1> SUFFICES ASSUME Init
             PROVE  Abstract!Init
  OBVIOUS
<1>1. StoreView = [k \in Keys |-> NoValue] /\ StampView = [k \in Keys |-> 0]
  BY DEF Init, StoreView, StampView, Visible
<1>2. snapshot_keys = << >>
  <2>1. Walk(list) = << >>
    BY EmptyChain DEF Init
  <2> QED BY <2>1 DEF snapshot_keys
<1> QED BY <1>1, <1>2 DEF Abstract!Init, Init, StoreView, StampView

\* Seen through its finds and its snapshots, the concurrent cache is the map
\* with an eviction order of CacheSpec.
THEOREM ImplementsCacheSpec ==
  ASSUME ~ ClearBesideEvict
  PROVE  Spec => RefinesCacheSpec
<1>1. Init => Abstract!Init
  BY AbstractInit
<1>2. RefInv /\ [Next]_vars => [Abstract!Next]_(Abstract!vars)
  BY AbstractStep
<1> QED
  BY <1>1, <1>2, OrderInvariance, PTL DEF Spec, RefinesCacheSpec, Abstract!Spec
=============================================================================
