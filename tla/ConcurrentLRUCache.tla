-------------------------- MODULE ConcurrentLRUCache --------------------------
(***************************************************************************)
(* cpp_lib/cache/concurrent_lru_cache.h: a TBB concurrent_hash_map whose    *)
(* elements carry a value and a pointer to a node of an intrusive doubly    *)
(* linked LRU list.  Client threads find and insert; every insert starts a  *)
(* detached thread that runs evict() (in TEST_MODE the inserting thread     *)
(* runs it itself).                                                         *)
(*                                                                          *)
(* A step is what a thread does between two points where another thread can *)
(* see it: the acquisition of an element lock of the map, the acquisition   *)
(* of the list mutex, the critical section under it, an access to one of    *)
(* the two atomics.  The element lock of a key is exclusive in writer[k]    *)
(* (a TBB accessor) or shared by the clients c with accessor[c] = k (a      *)
(* ConstAccessor, i.e. a TBB const_accessor).                               *)
(***************************************************************************)
EXTENDS Integers, FiniteSets

CONSTANTS
  Keys, Values,
  Nodes,             \* the heap: addresses `new ListNode` can return
  Clients,           \* threads that call the cache
  Evictors,          \* detached threads that can run evict() at the same time
  NoKey, NoValue, NoThread, Null,
  m_head, m_tail,        \* the sentinels m_head and m_tail
  kOutOfListMarker,
  m_max_size, m_timeout, m_evict_type,
  kMaxEvictBatch,
  SizeMod,           \* size_t is arithmetic modulo SizeMod
  MaxTime,           \* bound: the clock stops here
  Batches,           \* bound: the argument maps of the insert overloads
  TestMode,          \* TEST_MODE: the inserting thread runs evict() itself
  CacheAside,        \* a client may insert after a find that returned false
                     \* while its ConstAccessor is still in scope
  ClearBesideEvict   \* clear() may run while the cache's own threads evict

kEvictBatch == "kEvictBatch"
kEvictOne == "kEvictOne"

ASSUME SentinelAssumption ==
  /\ NoKey \notin Keys
  /\ NoValue \notin Values
  /\ m_head /= m_tail
  /\ {m_head, m_tail} \cap Nodes = {}
  /\ {Null, kOutOfListMarker} \cap (Nodes \cup {m_head, m_tail}) = {}
  /\ Null /= kOutOfListMarker
  /\ NoThread \notin Clients \cup Evictors
  /\ Clients \cap Evictors = {}

ASSUME ParameterAssumption ==
  /\ m_max_size \in Nat
  /\ m_timeout \in Nat
  /\ m_evict_type \in {kEvictBatch, kEvictOne}
  /\ kMaxEvictBatch \in Nat
  /\ MaxTime \in Nat
  /\ Batches \subseteq SUBSET (Keys \X Values)
  /\ TestMode \in BOOLEAN
  /\ CacheAside \in BOOLEAN
  /\ ClearBesideEvict \in BOOLEAN

\* The address space bounds the nodes that can be alive at one time.
ASSUME HeapAssumption ==
  /\ IsFiniteSet(Nodes)
  /\ SizeMod \in Nat
  /\ Cardinality(Nodes) < SizeMod

VARIABLES
  m_map,         \* the keys that have an element in the hash map
  m_value,       \* HashMapValue::m_value
  m_list_node,   \* HashMapValue::m_list_node
  writer,        \* the thread whose accessor write-locks the element of a key
  accessor,      \* the key a client's ConstAccessor pins, or NoKey
  found,         \* what the find that filled that accessor returned
  alloc,         \* the nodes that are allocated
  m_key, m_timestamp,
  list,          \* the fields m_prev and m_next of every node
  m_list_mutex,  \* the exclusive owner of the list mutex
  m_size, m_evict_flag,
  now,           \* time()
  pc,
  todo,          \* the pairs a client's insert has still to set
  key,           \* the key a client's set_entry works on
  moribund, timeout_check, cnt   \* locals of evict() and remove_node()

mapVars == <<m_map, m_value, m_list_node>>
nodeVars == <<alloc, m_key, m_timestamp>>
accessorVars == <<accessor, found>>
insertVars == <<todo, key>>
evictVars == <<moribund, timeout_check, cnt>>
vars == <<m_map, m_value, m_list_node, writer, accessor, found, alloc, m_key,
          m_timestamp, list, m_list_mutex, m_size, m_evict_flag, now, pc, todo,
          key, moribund, timeout_check, cnt>>

Threads == Clients \cup Evictors
Links == Nodes \cup {m_head, m_tail}

-----------------------------------------------------------------------------
(* The intrusive list.                                                      *)

ListType ==
  [m_prev : [Links -> Links \cup {Null, kOutOfListMarker}],
   m_next : [Links -> Links \cup {Null}]]

EmptyList ==
  [m_prev |-> [x \in Links |-> CASE x = m_head -> Null
                                 [] x = m_tail -> m_head
                                 [] OTHER -> kOutOfListMarker],
   m_next |-> [x \in Links |-> IF x = m_head THEN m_tail ELSE Null]]

is_in_list(node) == list.m_prev[node] /= kOutOfListMarker

InList == {n \in Nodes : is_in_list(n)}

\* Mutant: the delinked node is not marked.
delink_Unmarked(l, node) ==
  LET prev == l.m_prev[node]
      next == l.m_next[node]
  IN  [m_prev |-> [l.m_prev EXCEPT ![next] = prev],
       m_next |-> [l.m_next EXCEPT ![prev] = next]]

delink(l, node) ==
  LET prev == l.m_prev[node]
      next == l.m_next[node]
  IN  [m_prev |-> [l.m_prev EXCEPT ![next] = prev, ![node] = kOutOfListMarker],
       m_next |-> [l.m_next EXCEPT ![prev] = next]]

\* Mutant: m_head.m_next = node is missing.
push_front_HeadKept(l, node) ==
  LET old_real_head == l.m_next[m_head]
  IN  [m_prev |-> [l.m_prev EXCEPT ![node] = m_head, ![old_real_head] = node],
       m_next |-> [l.m_next EXCEPT ![node] = old_real_head]]

push_front(l, node) ==
  LET old_real_head == l.m_next[m_head]
  IN  [m_prev |-> [l.m_prev EXCEPT ![node] = m_head, ![old_real_head] = node],
       m_next |-> [l.m_next EXCEPT ![node] = old_real_head, ![m_head] = node]]

last == list.m_prev[m_tail]

\* The m_timeout guard of find, remove_node and is_last_node_timeout.
Expired(node) == now - m_timestamp[node] > m_timeout

-----------------------------------------------------------------------------
(* The locks.                                                               *)

Readers(k) == {c \in Clients : accessor[c] = k}

\* Mutant: a reader does not keep a writer out.
Unlocked_Shared(k) == writer[k] = NoThread

Unlocked(k) == writer[k] = NoThread /\ Readers(k) = {}

WriteLock(t, k) == writer' = [writer EXCEPT ![k] = t]

WriteUnlock(k) == writer' = [writer EXCEPT ![k] = NoThread]

LockList(t) == m_list_mutex = NoThread /\ m_list_mutex' = t

UnlockList(t) == m_list_mutex = t /\ m_list_mutex' = NoThread

Goto(t, label) == pc' = [pc EXCEPT ![t] = label]

Init ==
  /\ m_map = {}
  /\ m_value = [k \in Keys |-> NoValue]
  /\ m_list_node = [k \in Keys |-> Null]
  /\ writer = [k \in Keys |-> NoThread]
  /\ accessor = [c \in Clients |-> NoKey]
  /\ found = [c \in Clients |-> FALSE]
  /\ alloc = {}
  /\ m_key = [n \in Nodes |-> NoKey]
  /\ m_timestamp = [n \in Nodes |-> 0]
  /\ list = EmptyList
  /\ m_list_mutex = NoThread
  /\ m_size = 0
  /\ m_evict_flag = FALSE
  /\ now = 0
  /\ pc = [t \in Threads |-> "idle"]
  /\ todo = [c \in Clients |-> {}]
  /\ key = [c \in Clients |-> NoKey]
  /\ moribund = [t \in Threads |-> Null]
  /\ timeout_check = [t \in Threads |-> FALSE]
  /\ cnt = [t \in Threads |-> 0]

-----------------------------------------------------------------------------
(* find.  The ConstAccessor it fills stays in the caller's scope.           *)

\* find of a key that has no element returns false and changes nothing.
Find(c, k) ==
  /\ pc[c] = "idle"
  /\ accessor[c] = NoKey
  /\ k \in m_map
  /\ writer[k] = NoThread
  /\ accessor' = [accessor EXCEPT ![c] = k]
  /\ found' = [found EXCEPT ![c] = ~ (m_timeout /= 0 /\ Expired(m_list_node[k]))]
  /\ UNCHANGED <<mapVars, writer, nodeVars, list, m_list_mutex, m_size,
                 m_evict_flag, now, pc, insertVars, evictVars>>

\* The ConstAccessor goes out of scope, or a find is about to reuse it.
ReleaseAccessor(c) ==
  /\ pc[c] = "idle"
  /\ accessor[c] /= NoKey
  /\ accessor' = [accessor EXCEPT ![c] = NoKey]
  /\ found' = [found EXCEPT ![c] = FALSE]
  /\ UNCHANGED <<mapVars, writer, nodeVars, list, m_list_mutex, m_size,
                 m_evict_flag, now, pc, insertVars, evictVars>>

-----------------------------------------------------------------------------
(* insert: set_entry for every pair of the batch, then one eviction.        *)

Insert(c, batch) ==
  /\ pc[c] = "idle"
  /\ accessor[c] = NoKey \/ (CacheAside /\ ~ found[c])
  /\ todo' = [todo EXCEPT ![c] = batch]
  /\ Goto(c, "next")
  /\ UNCHANGED <<mapVars, writer, accessorVars, nodeVars, list, m_list_mutex,
                 m_size, m_evict_flag, now, key, evictVars>>

\* m_map.insert finds an element: it is write-locked and gets the new value.
SetOld(c) ==
  /\ pc[c] = "next"
  /\ \E pair \in todo[c] :
       LET k == pair[1] IN
       /\ k \in m_map
       /\ Unlocked(k)
       /\ WriteLock(c, k)
       /\ m_value' = [m_value EXCEPT ![k] = pair[2]]
       /\ key' = [key EXCEPT ![c] = k]
       /\ todo' = [todo EXCEPT ![c] = @ \ {pair}]
  /\ Goto(c, "lock_old")
  /\ UNCHANGED <<m_map, m_list_node, accessorVars, nodeVars, list,
                 m_list_mutex, m_size, m_evict_flag, now, evictVars>>

\* m_map.insert creates the element, write-locked; it gets the value and a
\* new node that is not in the list yet.
SetNew(c) ==
  /\ pc[c] = "next"
  /\ \E pair \in todo[c], node \in Nodes \ alloc :
       LET k == pair[1] IN
       /\ k \notin m_map
       /\ m_map' = m_map \cup {k}
       /\ WriteLock(c, k)
       /\ m_value' = [m_value EXCEPT ![k] = pair[2]]
       /\ m_list_node' = [m_list_node EXCEPT ![k] = node]
       /\ alloc' = alloc \cup {node}
       /\ m_key' = [m_key EXCEPT ![node] = k]
       /\ m_timestamp' = [m_timestamp EXCEPT ![node] = now]
       /\ key' = [key EXCEPT ![c] = k]
       /\ todo' = [todo EXCEPT ![c] = @ \ {pair}]
  /\ Goto(c, "lock_new")
  /\ UNCHANGED <<accessorVars, list, m_list_mutex, m_size, m_evict_flag, now,
                 evictVars>>

LockListToLink(c) ==
  /\ \/ pc[c] = "lock_old" /\ Goto(c, "link_old")
     \/ pc[c] = "lock_new" /\ Goto(c, "link_new")
  /\ LockList(c)
  /\ UNCHANGED <<mapVars, writer, accessorVars, nodeVars, list, m_size,
                 m_evict_flag, now, insertVars, evictVars>>

\* Mutant: is_in_list() is not checked.
Relinks_Always(node) == node /= Null

\* A node that is being evicted has left the list and is not linked again.
Relinks(node) == node /= Null /\ is_in_list(node)

\* Mutant: the time of the first insertion stays.
update_timestamp_Missing(node) == UNCHANGED m_timestamp

update_timestamp(node) == m_timestamp' = [m_timestamp EXCEPT ![node] = now]

\* Mutant: push_front is missing.
move_to_front_Delinks(l, node) == delink(l, node)

move_to_front(l, node) == push_front(delink(l, node), node)

LinkOld(c) ==
  LET node == m_list_node[key[c]] IN
  /\ pc[c] = "link_old"
  /\ UnlockList(c)
  /\ IF Relinks(node)
     THEN /\ update_timestamp(node)
          /\ list' = move_to_front(list, node)
     ELSE UNCHANGED <<m_timestamp, list>>
  /\ Goto(c, "release")
  /\ UNCHANGED <<mapVars, writer, accessorVars, alloc, m_key, m_size,
                 m_evict_flag, now, insertVars, evictVars>>

LinkNew(c) ==
  /\ pc[c] = "link_new"
  /\ UnlockList(c)
  /\ list' = push_front(list, m_list_node[key[c]])
  /\ Goto(c, "count")
  /\ UNCHANGED <<mapVars, writer, accessorVars, nodeVars, m_size, m_evict_flag,
                 now, insertVars, evictVars>>

\* Mutant: m_size is set from the size of the map.
CountNew_Resync(c) ==
  /\ pc[c] = "count"
  /\ m_size' = Cardinality(m_map)
  /\ Goto(c, "release")
  /\ UNCHANGED <<mapVars, writer, accessorVars, nodeVars, list, m_list_mutex,
                 m_evict_flag, now, insertVars, evictVars>>

CountNew(c) ==
  /\ pc[c] = "count"
  /\ m_size' = (m_size + 1) % SizeMod
  /\ Goto(c, "release")
  /\ UNCHANGED <<mapVars, writer, accessorVars, nodeVars, list, m_list_mutex,
                 m_evict_flag, now, insertVars, evictVars>>

\* Mutant: the accessor outlives set_entry.
ReleaseEntry_KeepsLock(c) ==
  /\ pc[c] = "release"
  /\ key' = [key EXCEPT ![c] = NoKey]
  /\ Goto(c, "next")
  /\ UNCHANGED <<mapVars, writer, accessorVars, nodeVars, list, m_list_mutex,
                 m_size, m_evict_flag, now, todo, evictVars>>

\* set_entry returns: its accessor is destroyed.
ReleaseEntry(c) ==
  /\ pc[c] = "release"
  /\ WriteUnlock(key[c])
  /\ key' = [key EXCEPT ![c] = NoKey]
  /\ Goto(c, "next")
  /\ UNCHANGED <<mapVars, accessorVars, nodeVars, list, m_list_mutex, m_size,
                 m_evict_flag, now, todo, evictVars>>

\* The batch is set: evict() runs, here or in a detached thread.
StartEvict(c) ==
  /\ pc[c] = "next"
  /\ todo[c] = {}
  /\ IF TestMode
     THEN Goto(c, "evict")
     ELSE \E e \in Evictors :
            /\ pc[e] = "idle"
            /\ pc' = [pc EXCEPT ![c] = "idle", ![e] = "evict"]
  /\ UNCHANGED <<mapVars, writer, accessorVars, nodeVars, list, m_list_mutex,
                 m_size, m_evict_flag, now, insertVars, evictVars>>

-----------------------------------------------------------------------------
(* evict and, inlined in it, is_last_node_timeout and remove_node.          *)

\* Mutant: the result of compare_exchange_strong is ignored.
TryEvict_Always(t) ==
  /\ pc[t] = "evict"
  /\ Goto(t, "overload")
  /\ m_evict_flag' = TRUE
  /\ UNCHANGED <<mapVars, writer, accessorVars, nodeVars, list, m_list_mutex,
                 m_size, now, insertVars, evictVars>>

TryEvict(t) ==
  /\ pc[t] = "evict"
  /\ IF m_evict_flag
     THEN Goto(t, "idle") /\ UNCHANGED m_evict_flag
     ELSE Goto(t, "overload") /\ m_evict_flag' = TRUE
  /\ UNCHANGED <<mapVars, writer, accessorVars, nodeVars, list, m_list_mutex,
                 m_size, now, insertVars, evictVars>>

MayRemove(t) == m_evict_type = kEvictOne \/ cnt[t] < kMaxEvictBatch

Overloaded == m_size > m_max_size

CheckOverload(t) ==
  /\ pc[t] = "overload"
  /\ IF MayRemove(t) /\ Overloaded
     THEN Goto(t, "lock_tail")
     ELSE Goto(t, "expire")
  /\ UNCHANGED <<mapVars, writer, accessorVars, nodeVars, list, m_list_mutex,
                 m_size, m_evict_flag, now, insertVars, evictVars>>

\* is_last_node_timeout reads the tail under a shared lock of the list mutex.
CheckExpired(t) ==
  /\ pc[t] = "expire"
  /\ m_timeout /= 0 /\ MayRemove(t) => m_list_mutex = NoThread
  /\ IF m_timeout /= 0 /\ MayRemove(t) /\ last /= m_head /\ Expired(last)
     THEN Goto(t, "lock_tail") /\ timeout_check' = [timeout_check EXCEPT ![t] = TRUE]
     ELSE Goto(t, "done") /\ UNCHANGED timeout_check
  /\ UNCHANGED <<mapVars, writer, accessorVars, nodeVars, list, m_list_mutex,
                 m_size, m_evict_flag, now, insertVars, moribund, cnt>>

LockTail(t) ==
  /\ pc[t] = "lock_tail"
  /\ LockList(t)
  /\ Goto(t, "delink")
  /\ UNCHANGED <<mapVars, writer, accessorVars, nodeVars, list, m_size,
                 m_evict_flag, now, insertVars, evictVars>>

\* remove_node returns, from any of its exits: kEvictOne goes from the
\* overload to the expiry check and ends; kEvictBatch counts and loops.
AfterRemove(t) ==
  /\ Goto(t, CASE m_evict_type = kEvictBatch /\ ~ timeout_check[t] -> "overload"
               [] m_evict_type = kEvictOne /\ timeout_check[t] -> "done"
               [] OTHER -> "expire")
  /\ cnt' = IF m_evict_type = kEvictBatch THEN [cnt EXCEPT ![t] = @ + 1] ELSE cnt

\* Mutant: the expiry is not checked again under the list mutex.
Removable_Unchecked(t) == last /= m_head

Removable(t) == last /= m_head /\ (timeout_check[t] => Expired(last))

DelinkTail(t) ==
  /\ pc[t] = "delink"
  /\ UnlockList(t)
  /\ IF Removable(t)
     THEN /\ list' = delink(list, last)
          /\ moribund' = [moribund EXCEPT ![t] = last]
          /\ Goto(t, "find")
          /\ UNCHANGED cnt
     ELSE AfterRemove(t) /\ UNCHANGED <<list, moribund>>
  /\ UNCHANGED <<mapVars, writer, accessorVars, nodeVars, m_size, m_evict_flag,
                 now, insertVars, timeout_check>>

\* m_map.find of the moribund node's key takes the element's write lock; the
\* early return of the "presumably unreachable" branch leaks the node.
FindMoribund(t) ==
  LET k == m_key[moribund[t]] IN
  /\ pc[t] = "find"
  /\ IF k \in m_map
     THEN /\ Unlocked(k)
          /\ WriteLock(t, k)
          /\ Goto(t, "erase")
          /\ UNCHANGED <<moribund, cnt>>
     ELSE /\ AfterRemove(t)
          /\ moribund' = [moribund EXCEPT ![t] = Null]
          /\ UNCHANGED writer
  /\ UNCHANGED <<mapVars, accessorVars, nodeVars, list, m_list_mutex, m_size,
                 m_evict_flag, now, insertVars, timeout_check>>

EraseMoribund(t) ==
  LET k == m_key[moribund[t]] IN
  /\ pc[t] = "erase"
  /\ m_map' = m_map \ {k}
  /\ m_value' = [m_value EXCEPT ![k] = NoValue]
  /\ m_list_node' = [m_list_node EXCEPT ![k] = Null]
  /\ WriteUnlock(k)
  /\ Goto(t, "delete")
  /\ UNCHANGED <<accessorVars, nodeVars, list, m_list_mutex, m_size,
                 m_evict_flag, now, insertVars, evictVars>>

\* Mutant: delete moribund is missing.
Delete_Missing(node) == UNCHANGED <<nodeVars, list>>

\* The fields of a freed node mean nothing; they are reset to keep states few.
Delete(node) ==
  /\ alloc' = alloc \ {node}
  /\ m_key' = [m_key EXCEPT ![node] = NoKey]
  /\ m_timestamp' = [m_timestamp EXCEPT ![node] = 0]
  /\ list' = [list EXCEPT !.m_next[node] = Null]

DeleteMoribund(t) ==
  /\ pc[t] = "delete"
  /\ Delete(moribund[t])
  /\ moribund' = [moribund EXCEPT ![t] = Null]
  /\ m_size' = (m_size - 1) % SizeMod
  /\ AfterRemove(t)
  /\ UNCHANGED <<mapVars, writer, accessorVars, m_list_mutex, m_evict_flag,
                 now, insertVars, timeout_check>>

\* Mutant: m_evict_flag.store(false) is missing.
EndEvict_KeepsFlag(t) ==
  /\ pc[t] = "done"
  /\ timeout_check' = [timeout_check EXCEPT ![t] = FALSE]
  /\ cnt' = [cnt EXCEPT ![t] = 0]
  /\ Goto(t, "idle")
  /\ UNCHANGED <<mapVars, writer, accessorVars, nodeVars, list, m_list_mutex,
                 m_size, m_evict_flag, now, insertVars, moribund>>

EndEvict(t) ==
  /\ pc[t] = "done"
  /\ m_evict_flag' = FALSE
  /\ timeout_check' = [timeout_check EXCEPT ![t] = FALSE]
  /\ cnt' = [cnt EXCEPT ![t] = 0]
  /\ Goto(t, "idle")
  /\ UNCHANGED <<mapVars, writer, accessorVars, nodeVars, list, m_list_mutex,
                 m_size, now, insertVars, moribund>>

-----------------------------------------------------------------------------
\* clear: not thread safe, so no client is in a call or holds an accessor.
Clear ==
  /\ \A c \in Clients : pc[c] = "idle" /\ accessor[c] = NoKey
  /\ ClearBesideEvict \/ \A e \in Evictors : pc[e] = "idle"
  /\ m_map' = {}
  /\ m_value' = [k \in Keys |-> NoValue]
  /\ m_list_node' = [k \in Keys |-> Null]
  /\ writer' = [k \in Keys |-> NoThread]
  /\ alloc' = alloc \ InList
  /\ m_key' = [n \in Nodes |-> IF n \in InList THEN NoKey ELSE m_key[n]]
  /\ m_timestamp' = [n \in Nodes |-> IF n \in InList THEN 0 ELSE m_timestamp[n]]
  /\ list' = EmptyList
  /\ m_size' = 0
  /\ UNCHANGED <<accessorVars, m_list_mutex, m_evict_flag, now, pc, insertVars,
                 evictVars>>

Tick ==
  /\ now < MaxTime
  /\ now' = now + 1
  /\ UNCHANGED <<mapVars, writer, accessorVars, nodeVars, list, m_list_mutex,
                 m_size, m_evict_flag, pc, insertVars, evictVars>>

FindStep(c) == ReleaseAccessor(c) \/ \E k \in Keys : Find(c, k)

CallInsert(c) == \E batch \in Batches : Insert(c, batch)

SetEntryStep(c) ==
  \/ SetOld(c)
  \/ SetNew(c)
  \/ LockListToLink(c)
  \/ LinkOld(c)
  \/ LinkNew(c)
  \/ CountNew(c)
  \/ ReleaseEntry(c)
  \/ StartEvict(c)

EvictStep(t) ==
  \/ TryEvict(t)
  \/ CheckOverload(t)
  \/ CheckExpired(t)
  \/ LockTail(t)
  \/ DelinkTail(t)
  \/ FindMoribund(t)
  \/ EraseMoribund(t)
  \/ DeleteMoribund(t)
  \/ EndEvict(t)

Next ==
  \/ \E c \in Clients : FindStep(c) \/ CallInsert(c) \/ SetEntryStep(c)
  \/ \E t \in Threads : EvictStep(t)
  \/ Clear
  \/ Tick

Spec == Init /\ [][Next]_vars

-----------------------------------------------------------------------------
(* Fairness.  The scheduler runs every thread that is inside a call or in   *)
(* evict(); a caller lets go of an accessor sooner or later.  No caller has *)
(* to call anything, and time need not pass.                                *)

Fairness ==
  /\ \A c \in Clients : WF_vars(SetEntryStep(c)) /\ WF_vars(ReleaseAccessor(c))
  /\ \A t \in Threads : WF_vars(EvictStep(t))

-----------------------------------------------------------------------------
(* Safety.                                                                  *)

ClientLabels ==
  {"idle", "next", "lock_old", "link_old", "lock_new", "link_new", "count",
   "release"}

\* Between the exchange and the store of m_evict_flag.
EvictingLabels ==
  {"overload", "expire", "lock_tail", "delink", "find", "erase", "delete", "done"}

EvictLabels == {"idle", "evict"} \cup EvictingLabels

\* Every variable has its type.
TypeOK ==
  /\ m_map \subseteq Keys
  /\ m_value \in [Keys -> Values \cup {NoValue}]
  /\ m_list_node \in [Keys -> Nodes \cup {Null}]
  /\ writer \in [Keys -> Threads \cup {NoThread}]
  /\ accessor \in [Clients -> Keys \cup {NoKey}]
  /\ found \in [Clients -> BOOLEAN]
  /\ alloc \subseteq Nodes
  /\ m_key \in [Nodes -> Keys \cup {NoKey}]
  /\ m_timestamp \in [Nodes -> Nat]
  /\ list \in ListType
  /\ m_list_mutex \in Threads \cup {NoThread}
  /\ m_size \in Nat
  /\ m_evict_flag \in BOOLEAN
  /\ now \in Nat
  /\ pc \in [Threads -> ClientLabels \cup EvictLabels]
  /\ todo \in [Clients -> SUBSET (Keys \X Values)]
  /\ key \in [Clients -> Keys \cup {NoKey}]
  /\ moribund \in [Threads -> Nodes \cup {Null}]
  /\ timeout_check \in [Threads -> BOOLEAN]
  /\ cnt \in [Threads -> Nat]

Evicting(t) == pc[t] \in EvictingLabels

\* A client whose set_entry has made a node that is not in the list yet.
Fresh(c) == pc[c] \in {"lock_new", "link_new"}

\* A client whose new node is not in m_size yet.
Uncounted == {m_list_node[key[c]] : c \in {d \in Clients : Fresh(d) \/ pc[d] = "count"}}

\* The branch of remove_node that is "presumably unreachable" is: from delink
\* to erase, the key of the moribund node keeps the element that owns it, though
\* neither lock is held on the way from the one to the other.  With a clear()
\* beside an eviction (ClearBesideEvict) the branch is reached.
MoribundStillMapped ==
  \A t \in Threads :
    pc[t] \in {"find", "erase"} =>
      /\ m_key[moribund[t]] \in m_map
      /\ m_list_node[m_key[moribund[t]]] = moribund[t]

\* No node is used after it is deleted: the list, the elements of the map (so
\* the accessors that read a timestamp through them) and remove_node only hold
\* allocated nodes.
NoDangling ==
  /\ InList \subseteq alloc
  /\ \A k \in m_map : m_list_node[k] \in alloc /\ m_key[m_list_node[k]] = k
  /\ \A t \in Threads :
       pc[t] \in {"find", "erase", "delete"} => moribund[t] \in alloc \ InList

\* No node is leaked or owned twice: an allocated node belongs to the element
\* of its key, or to the one thread that has just erased that element.
EveryNodeOwned ==
  \A n \in alloc :
    \/ m_key[n] \in m_map /\ m_list_node[m_key[n]] = n
    \/ \E t \in Threads : pc[t] = "delete" /\ moribund[t] = n

\* An element is outside the eviction order only while its insertion or its
\* eviction is in progress, so no element becomes impossible to evict.
EveryEntryEvictable ==
  \A k \in m_map :
    \/ is_in_list(m_list_node[k])
    \/ \E c \in Clients : Fresh(c) /\ key[c] = k
    \/ \E t \in Threads : pc[t] \in {"find", "erase"} /\ moribund[t] = m_list_node[k]

\* m_size is the number of nodes that exist less those of insertions that have
\* not counted theirs: it never goes below zero, which would wrap it around, and
\* at rest it is the number of elements.
SizeAccurate == m_size = Cardinality(alloc \ Uncounted)

\* What snapshot_keys walks: the nodes from m_head.m_next up to m_tail.
Walk(l) ==
  LET at[i \in 0 .. Cardinality(Nodes) + 1] ==
        IF i = 0 THEN m_head
        ELSE IF at[i - 1] \in {m_tail, Null} THEN at[i - 1] ELSE l.m_next[at[i - 1]]
      length == Cardinality({i \in 1 .. Cardinality(Nodes) + 1 : at[i] \in Nodes})
  IN  [i \in 1 .. length |-> at[i]]

snapshot_keys == [i \in DOMAIN Walk(list) |-> m_key[Walk(list)[i]]]

\* A snapshot ends, lists no key twice, and lists every key of the map but
\* those whose insertion or eviction is in progress.
SnapshotFaithful ==
  LET inFlux == {key[c] : c \in {d \in Clients : Fresh(d)}}
                  \cup {m_key[moribund[t]] : t \in {u \in Threads : pc[u] \in {"find", "erase"}}}
      listed == {snapshot_keys[i] : i \in DOMAIN snapshot_keys}
  IN  /\ listed = m_map \ inFlux
      /\ Cardinality(listed) = Cardinality(DOMAIN snapshot_keys)

KeepsPinned ==
  \A c \in Clients :
    accessor[c] /= NoKey /\ accessor'[c] = accessor[c] =>
      LET k == accessor[c] IN
      /\ k \in m_map'
      /\ m_value'[k] = m_value[k]
      /\ m_list_node'[k] = m_list_node[k]
      /\ m_timestamp'[m_list_node[k]] = m_timestamp[m_list_node[k]]

\* An accessor pins its element: while a client holds it, the value, the
\* timestamp and the element itself stay, whatever is inserted or evicted.
AccessorPins == [][KeepsPinned]_vars

EvictsJustly ==
  \A n \in InList :
    list'.m_prev[n] = kOutOfListMarker /\ n \in alloc' =>
      \/ Cardinality(InList) > m_max_size
      \/ m_timeout /= 0 /\ Expired(n)

\* evict() takes a node out of the list only if the list is longer than
\* m_max_size or the node has expired, at the moment it is taken out: checks made
\* before the list mutex was taken have not gone stale.
EvictionJustified == [][EvictsJustly]_vars

\* An insert makes its key the most recently used, whether or not it is there.
InsertPromotes ==
  [][\A c \in Clients :
       pc[c] \in {"link_old", "link_new"} /\ pc'[c] /= pc[c] =>
         list'.m_next[m_head] = m_list_node[key[c]]]_vars

-----------------------------------------------------------------------------
(* Liveness.                                                                *)

\* evict() ends, whichever check it is in: the flag is given back and another
\* insert can evict.
EvictFlagReleased == m_evict_flag ~> ~ m_evict_flag

\* insert returns.
InsertReturns == \A c \in Clients : pc[c] /= "idle" ~> pc[c] = "idle"

=============================================================================
