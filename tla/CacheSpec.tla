------------------------------- MODULE CacheSpec -------------------------------
(***************************************************************************)
(* What ConcurrentLRUCache promises its callers: a map from keys to values *)
(* with an eviction order.  Entries leave the order only at its cold end,  *)
(* and only when the order is longer than MaxSize or its last entry has    *)
(* expired; an entry that has left the order is dropped later, once nobody *)
(* reads it.  A find pins the entry it returns and does not reorder.       *)
(***************************************************************************)
EXTENDS Integers, Sequences, SequencesExt

CONSTANTS Keys, Values, NoValue, NoKey, Clients, MaxSize, Timeout, MaxTime

VARIABLES
  store,     \* the value of every key, or NoValue
  stamp,     \* when the key was last put in the order
  recency,   \* the eviction order, most recently inserted first
  pinned,    \* the key whose entry a client reads, or NoKey
  hit,       \* whether the find that pinned it returned true
  now

vars == <<store, stamp, recency, pinned, hit, now>>

Expired(k) == Timeout /= 0 /\ now - stamp[k] > Timeout

Unpinned(k) == \A c \in Clients : pinned[c] /= k

Init ==
  /\ store = [k \in Keys |-> NoValue]
  /\ stamp = [k \in Keys |-> 0]
  /\ recency = <<>>
  /\ pinned = [c \in Clients |-> NoKey]
  /\ hit = [c \in Clients |-> FALSE]
  /\ now = 0

\* The time stamp is taken before the entry is put in the order.
Add(k, v) ==
  /\ store[k] = NoValue
  /\ store' = [store EXCEPT ![k] = v]
  /\ \E t \in 0 .. now : stamp' = [stamp EXCEPT ![k] = t]
  /\ recency' = <<k>> \o recency
  /\ UNCHANGED <<pinned, hit, now>>

Overwrite(k, v) ==
  /\ store[k] /= NoValue
  /\ Unpinned(k)
  /\ store' = [store EXCEPT ![k] = v]
  /\ UNCHANGED <<stamp, recency, pinned, hit, now>>

\* Follows Overwrite, unless the entry is being evicted.
Refresh(k) ==
  /\ Unpinned(k)
  /\ \E i \in DOMAIN recency :
       recency[i] = k /\ recency' = <<k>> \o RemoveAt(recency, i)
  /\ stamp' = [stamp EXCEPT ![k] = now]
  /\ UNCHANGED <<store, pinned, hit, now>>

Evict ==
  /\ recency /= <<>>
  /\ Len(recency) > MaxSize \/ Expired(Last(recency))
  /\ recency' = Front(recency)
  /\ UNCHANGED <<store, stamp, pinned, hit, now>>

Drop(k) ==
  /\ store[k] /= NoValue
  /\ ~ Contains(recency, k)
  /\ Unpinned(k)
  /\ store' = [store EXCEPT ![k] = NoValue]
  /\ stamp' = [stamp EXCEPT ![k] = 0]
  /\ UNCHANGED <<recency, pinned, hit, now>>

Pin(c, k) ==
  /\ pinned[c] = NoKey
  /\ store[k] /= NoValue
  /\ pinned' = [pinned EXCEPT ![c] = k]
  /\ hit' = [hit EXCEPT ![c] = ~ Expired(k)]
  /\ UNCHANGED <<store, stamp, recency, now>>

Unpin(c) ==
  /\ pinned[c] /= NoKey
  /\ pinned' = [pinned EXCEPT ![c] = NoKey]
  /\ hit' = [hit EXCEPT ![c] = FALSE]
  /\ UNCHANGED <<store, stamp, recency, now>>

Clear ==
  /\ \A c \in Clients : pinned[c] = NoKey
  /\ store' = [k \in Keys |-> NoValue]
  /\ stamp' = [k \in Keys |-> 0]
  /\ recency' = <<>>
  /\ UNCHANGED <<pinned, hit, now>>

Tick ==
  /\ now < MaxTime
  /\ now' = now + 1
  /\ UNCHANGED <<store, stamp, recency, pinned, hit>>

Next ==
  \/ \E k \in Keys, v \in Values : Add(k, v) \/ Overwrite(k, v)
  \/ \E k \in Keys : Refresh(k) \/ Drop(k)
  \/ \E c \in Clients : Unpin(c) \/ \E k \in Keys : Pin(c, k)
  \/ Evict
  \/ Clear
  \/ Tick

Spec == Init /\ [][Next]_vars
=============================================================================
