----------------------------- MODULE LRUInvariant -----------------------------
(***************************************************************************)
(* The inductive invariant of ConcurrentLRUCache: why an eviction, which    *)
(* drops the list mutex before it takes the element's lock, still finds the *)
(* element and the node it chose.                                           *)
(***************************************************************************)
EXTENDS ConcurrentLRUCache, Sequences

\* The nodes S and the two sentinels point to each other and to nothing else;
\* every other node is marked.
Linked(l, S) ==
  /\ \A n \in S \cup {m_head} : l.m_next[n] \in S \cup {m_tail} /\ l.m_prev[l.m_next[n]] = n
  /\ \A n \in S \cup {m_tail} : l.m_prev[n] \in S \cup {m_head} /\ l.m_next[l.m_prev[n]] = n
  /\ \A n \in Nodes \ S : l.m_prev[n] = kOutOfListMarker

WellLinked == Linked(list, InList)

\* The client is inside set_entry and holds the write lock of its key.
HoldsEntry(c) ==
  pc[c] \in {"lock_old", "link_old", "lock_new", "link_new", "count", "release"}

Removing(t) == pc[t] \in {"find", "erase"}

OneEvictor ==
  \A t \in Threads :
    Evicting(t) => m_evict_flag /\ \A u \in Threads : Evicting(u) => u = t

MutexOwned ==
  \A t \in Threads : pc[t] \in {"link_old", "link_new", "delink"} => m_list_mutex = t

EntriesLocked ==
  /\ \A c \in Clients : HoldsEntry(c) => key[c] \in m_map /\ writer[key[c]] = c
  /\ \A t \in Threads : pc[t] = "erase" => writer[m_key[moribund[t]]] = t
  /\ \A k \in Keys : writer[k] /= NoThread => Readers(k) = {}
  /\ \A c \in Clients : accessor[c] /= NoKey => accessor[c] \in m_map

\* A fresh node is neither in the list nor chosen for eviction.
FreshUnlinked ==
  \A c \in Clients :
    Fresh(c) => /\ m_list_node[key[c]] \notin InList
                /\ \A t \in Threads : Removing(t) => moribund[t] /= m_list_node[key[c]]

\* A node in the list is the node of the element of its key.
ListedMapped == \A n \in InList : m_key[n] \in m_map /\ m_list_node[m_key[n]] = n

\* The element of a node about to be deleted has gone.
ErasedUnmapped ==
  \A t \in Threads :
    pc[t] = "delete" => ~ (m_key[moribund[t]] \in m_map
                            /\ m_list_node[m_key[moribund[t]]] = moribund[t])

\* What evict() saw when it decided to remove the tail still justifies it.
DecisionStands ==
  \A t \in Threads :
    /\ timeout_check[t] => m_timeout /= 0
    /\ pc[t] \in {"lock_tail", "delink"} /\ ~ timeout_check[t] => m_size > m_max_size

\* Who owns which node.
Structure ==
  /\ WellLinked
  /\ MoribundStillMapped
  /\ NoDangling
  /\ EveryNodeOwned
  /\ EveryEntryEvictable
  /\ FreshUnlinked
  /\ ListedMapped
  /\ ErasedUnmapped
  /\ SizeAccurate

\* Who may do what.
Control == OneEvictor /\ MutexOwned /\ EntriesLocked /\ DecisionStands

\* The invariant that every step of the cache preserves, provided that clear() is
\* not called beside an eviction.
IInv == TypeOK /\ Control /\ Structure

-----------------------------------------------------------------------------
(* The order of the list, for the refinement of CacheSpec.                  *)

\* The sentinel, the nodes of s in order, the other sentinel.
Nth(s, i) == IF i = 0 THEN m_head ELSE IF i \in 1 .. Len(s) THEN s[i] ELSE m_tail

\* m_next leads from m_head through s, all of whose nodes differ, to m_tail.
IsChain(l, s) ==
  /\ \A i, j \in 1 .. Len(s) : s[i] = s[j] => i = j
  /\ \A i \in 0 .. Len(s) : l.m_next[Nth(s, i)] = Nth(s, i + 1)

\* The walk meets the nodes of the list, each once.  Linked alone would allow
\* a circle apart from the sentinels.
WalkInv ==
  /\ IsChain(list, Walk(list))
  /\ {Walk(list)[i] : i \in DOMAIN Walk(list)} = InList

\* Elements have values, and no node is from the future.
ValueInv ==
  /\ \A k \in m_map : m_value[k] \in Values
  /\ \A n \in Nodes : m_timestamp[n] <= now

RefInv == IInv /\ WalkInv /\ ValueInv
=============================================================================
