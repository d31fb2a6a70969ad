------------------------------ MODULE LRUCache ------------------------------
(***************************************************************************)
(* cpp_lib/cache/lru_cache.h: the cache without accessors.  get, set, mset *)
(* and size are single calls of the ConcurrentScalableCache it holds; mget *)
(* is one find per key, each with an accessor of its own, so the cache     *)
(* changes between them.  The vector of keys has them in any order and     *)
(* none twice.  Values are left out: find and the mget that wants values   *)
(* ask for the same keys.                                                  *)
(***************************************************************************)
EXTENDS ScalableCache

VARIABLES
  asked,          \* the keys of the mget in progress
  found,          \* those that were found
  not_find_keys   \* those that were not

mgetVars == <<asked, found, not_find_keys>>
facadeVars == <<vars, mgetVars>>

LRUInit ==
  /\ Init
  /\ asked = [c \in Clients |-> {}]
  /\ found = [c \in Clients |-> {}]
  /\ not_find_keys = [c \in Clients |-> {}]

-----------------------------------------------------------------------------
\* mget of one key is get.
mget(c) ==
  /\ \E ks \in Batches : asked' = [asked EXCEPT ![c] = ks]
  /\ Begin(c, "mget")
  /\ UNCHANGED <<found, not_find_keys>>

\* find sees an element that is being evicted until it is out of the map.  One
\* that has expired it does not return, in its list or not.
find(k) ==
  LET i == get_shard_ind(k) IN k \in (Listed(i) \cup Dying(i)) \ expired

\* Mutant: an element that is locked counts as missing.
NextKey_TryLock(c) ==
  /\ pc[c] = "mget"
  /\ \E k \in asked[c] \ (found[c] \cup not_find_keys[c]) :
       IF find(k) /\ \A d \in Clients : counting[d] # k
         THEN found' = [found EXCEPT ![c] = @ \cup {k}] /\ UNCHANGED not_find_keys
         ELSE /\ not_find_keys' = [not_find_keys EXCEPT ![c] = @ \cup {k}]
              /\ UNCHANGED found
  /\ UNCHANGED <<vars, asked>>

\* One round of the loop.  An element that is being inserted is locked, and
\* find waits for it.
NextKey(c) ==
  /\ pc[c] = "mget"
  /\ \E k \in asked[c] \ (found[c] \cup not_find_keys[c]) :
       /\ \A d \in Clients : counting[d] # k
       /\ IF find(k)
            THEN found' = [found EXCEPT ![c] = @ \cup {k}] /\ UNCHANGED not_find_keys
            ELSE /\ not_find_keys' = [not_find_keys EXCEPT ![c] = @ \cup {k}]
                 /\ UNCHANGED found
  /\ UNCHANGED <<vars, asked>>

Answered(c) == pc[c] = "mget" /\ asked[c] = found[c] \cup not_find_keys[c]

mgetReturn(c) ==
  /\ Answered(c)
  /\ pc' = [pc EXCEPT ![c] = "idle"]
  /\ throughout' = [throughout EXCEPT ![c] = {}]
  /\ sometime' = [sometime EXCEPT ![c] = {}]
  /\ asked' = [asked EXCEPT ![c] = {}]
  /\ found' = [found EXCEPT ![c] = {}]
  /\ not_find_keys' = [not_find_keys EXCEPT ![c] = {}]
  /\ UNCHANGED <<cacheVars, ind, data_vec, counting, keys, total>>

LRUNext ==
  \/ Next /\ UNCHANGED mgetVars
  \/ \E c \in Clients : mget(c) \/ NextKey(c) \/ mgetReturn(c)

LRUSpec == LRUInit /\ [][LRUNext]_facadeVars
-----------------------------------------------------------------------------
\* lru_cache.h:28-32, "Only missing keys (expired or not existed) will be
\* set": an mget is no snapshot of the cache, but what it reports as missing
\* was out of its list, or had expired, at some time in the call, whatever is
\* inserted, refreshed and evicted meanwhile; and what it finds was there, and
\* had not expired, at some time in the call.
MgetRegular ==
  \A c \in Clients : Answered(c) =>
    /\ not_find_keys[c] \cap throughout[c] = {}
    /\ found[c] \subseteq sometime[c]
    /\ found[c] \cap not_find_keys[c] = {}
=============================================================================
