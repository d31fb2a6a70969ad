# A TLA+ development of cpp_lib

cpp_lib is a library of C++ building blocks: caches, containers, a hot reloader
for configuration files, thread helpers, JSON, and small utilities. Most of it
is headers. This directory holds TLA+ models of its concurrent parts and of the
JSON and file functions they rest on, the TLC runs that check them on small
instances, and proofs, checked by TLAPS, for every instance.

* [The system](#the-system): its parts, their state, and what makes them correct
* [The modules](#the-modules): how the models correspond to the code
* [The runs](#the-runs): what each one checks, its bounds, and why they suffice
* [Fairness](#fairness)
* [The proofs](#the-proofs)
* [Findings](#findings): where code and documentation or assertions disagree
* [Not modelled](#not-modelled)
* [Plan](#plan)

## The system

| Part | State | Operations | Works with |
|---|---|---|---|
| `ConcurrentLRUCache` (`cache/concurrent_lru_cache.h`) | a TBB hash map of values and list nodes, an intrusive LRU list, `m_list_mutex`, `m_size`, `m_evict_flag` | `find`, three `insert`s, `clear`, `snapshot_keys`, `size`; `evict` in a detached thread | `StartCoroFunc` for the eviction; a `ConstAccessor` keeps an element locked in the caller's scope |
| `ConcurrentScalableCache` (`cache/concurrent_scalable_cache.h`) | a vector of the above, one per shard | the same, each forwarded to one shard or to all, one after the other | the shards |
| `LRUCache` (`cache/lru_cache.h`) | a pointer to the above | `get`, `set`, `mset`, `size`, which forward; `mget`, a loop of `find`s | the sharded cache |
| `ReloadFilesWatchDog` (`reloader/watchdog.*`) | `watched_files_`, `stop_`, `files_lock_`, a thread | `Watch`, `Cancel`, `Stop`; `Run` in the thread | calls `TryLoad` of the files; is a `Singleton` |
| `ReloadableFile` (`reloader/reloadable_file.*`) | `status_`, `FileInfo::update_time`, callbacks | `Init`, `TryLoad` | `stat` and the virtual `Load` |
| `ReloadableJson`, `ReloadableConfig` | a `DoubleBuffer<shared_ptr<T>>`, `ready_` | `Load`, `Get` | `DoubleBuffer`, the JSON parser, the files |
| `DoubleBuffer` (`container/double_buffer.h`) | two objects, in the `shared_ptr` specialisation two pointers to one, and the index of the current one | `Get`, `Next`, `Switch` | its one loader and any readers |
| `ConcurrentMap` (`container/concurrent_map.h`) | a TBB hash map | `insert`, `insert_and_assign`, `find`, `find_with_value`, `erase`, `operator[]`, `at` | element locks of TBB |
| `ParallelFor` (`coro/coro.cc`) | the tasks of a call | one call | a thread per part |
| `Singleton` (`util/singleton.h`) | `instance_`, `destroyed_`, `mutex_` | `GetInstance`, `DestroySingleton` | `atexit` |
| JSON (`serialize/json.h`) | none | `Parse` and `Serialize` of every kind of type, `PraseFromJson` and `WriteToJson` of a struct, reading and writing strings and files | `ReloadableJson` parses with it into the object in use |
| files (`util/file/file.cc`) | the file system and the process's descriptors | `MakeDir`, `MakeFile`, `FileCopy`, `DirCopy`; listings and queries | other threads and programs in the same directories |
| `Status`, url, math, time, strings, compression | none that is shared | functions | |

What is hard in it:

* **The LRU cache** has three levels of locking that are never held together in
  one order by all threads: the element locks, the list mutex, and two atomics.
  An eviction takes a node out of the list, gives the mutex back, and only then
  locks the element in the map: in between the element may be read, overwritten
  and refreshed by an insert. It must find exactly the element of the node it
  took, delete each node once, keep `m_size` right, and not evict what its
  checks did not see. It runs in a thread nobody can join.
* **The sharded cache** answers `snapshot_keys` and `size` from states of its
  shards at different moments, and `mget` asks for its keys one after the other
  while they are inserted, refreshed, expire and are evicted.
* **The reloader** compares times in seconds, reads the file after the `stat`,
  and shares the file's state between the watchdog's thread and the callers of
  `Watch`; it must neither lose a change nor report a success that is none, and
  it must let go of its lock.
* **The double buffer** hands out references that outlive the switch.
* **The map** promises the operations of a map; some of its methods are several
  operations on the hash map, others give out references to elements.
* **`ParallelFor`** does arithmetic on `size_t` and must cover a range exactly.
* **The singleton** is created by any thread and destroyed by `exit`.
* **JSON** is parsed into an object that still holds the configuration of the
  last load, from texts that leave out defaults, fail in the middle, have a
  number that does not fit, or are being written. What is published must be what
  was written, or it must be clear which old values it may have.
* **Files** are copied while other threads remove, make and copy at the same
  places; every system call may fail, and the descriptors taken so far must be
  given back.

`PROJECT.json` lists these as hazards at their lines, with the properties that
are about them.

## The modules

Variables and actions keep the names of the code. A step of a model is what a
thread does between two points where another thread can notice: a lock, an
atomic, a read of something shared.

**ConcurrentLRUCache** has one label per such point of `set_entry`, `evict`,
`remove_node` and `is_last_node_timeout`. `m_map`, `m_value` and `m_list_node`
are the map; `list` holds `m_prev` and `m_next` of every node, so `delink` and
`push_front` are the pointer assignments of the code, with the marker
`kOutOfListMarker`; `alloc` is the heap, a set of addresses that are reused.
`writer[k]` and `accessor` are TBB's element locks. `m_size` is arithmetic
modulo `SizeMod`. `TestMode` is the `TEST_MODE` macro. `Find` keeps the accessor
until `ReleaseAccessor`, as the caller's scope does. The destructor is `clear`.
*LRUInvariant* holds the inductive invariant, *LRURefinesCache* the refinement
mapping, *MCLRU* and *MCLRULive* the instances.

**CacheSpec** is what a user may rely on: values, an order of eviction, pinned
entries. An entry leaves the order only at its cold end, when the cache is over
its size or the entry has expired. *LRURefinesCache* maps the detailed state to
it: an insertion takes effect when its node is linked.

**ScalableCache** composes shards, each at the level of CacheSpec with the two
lags that `snapshot_keys` and `size` can see: a new element is linked before it
is counted, an evicted one is delinked, then erased, then uncounted. With a
`m_timeout`, `Expire` makes a key of a map too old at any moment (there is no clock),
an insert refreshes it, and `Evict` also takes a last node that has expired from a
shard that is not over its size, as `is_last_node_timeout` and `remove_node(true)` do.
`Insert`,
`SetEntry`, `CountEntry` and `InsertNextShard` are both inserts (a single pair
is a batch of one); `Begin`, `SnapshotShard`, `SizeShard` and `Return` are the
calls that visit the shards. `throughout` and `sometime` remember, for the
properties only, what the cache held during a call; for an `mget` an expired key is
in neither. `Batches` are the sets of keys that inserts and `mget`s are called with.
*MCScalable* instantiates this module and the next.

**LRUCache** adds `mget` to it, one find per round (`NextKey`), each of which
waits for an element that is locked, and does not return one that has expired, though
it may be listed still (`find`); `get`, `set`, `mset` and `size` are calls of
ScalableCache as they are (`get` is an `mget` of one key).

**ReloadWatchdog** is `Run`, `Watch`, `Cancel` and `Stop` with the two sides of
`files_lock_` (`owner`, `scanning`), and `TryLoad`, cut at the `stat`, at the
read of the file and at its return, because the file can be written, spoilt or
removed at any of these. `Write` stamps a file by `WriteTimes`: always a later
second, possibly the same one, or any time. The content of a file is a version
number and whether it parses. *ReloadInvariant* holds the inductive invariant.

**DoubleBuffer** is both templates, `SharedPtr` choosing the specialisation, and
its use by `ReloadableJson::Load`, `ReloadableConfig::load` and readers that keep
what `Get` returned. One load at a time: that is `LoadsSerialized`, proved of
ReloadWatchdog. `version` and `whole` are what is in the two objects. The reloaders
instantiate the specialisation only; `CurrentWhole` and `ReferenceStable` hold of
`DoubleBuffer<T>` only.

**Json** is `json.h` as operators: the result of a `Parse` is what it returns and
what the object holds afterwards, of a `Serialize` the JSON value with the member
added. A C++ type is a scalar, a struct, or a vector, set or map of either; a
JSON value is a record by kind, an object a sequence of members, since a text can
give a name twice. Integers have the widths of `Bits`; the narrow ones are read as wide ones
and checked (`ParseNarrow`), a `uint8_t` from above only, so that a negative number is
cut (`Cut`). Where the code ignores the
result of `Parse`, so does the model.

**ReloadableJson** composes Json and DoubleBuffer: `Load` reads a file that
`WriteToJsonFile` empties and fills in two steps and that others overwrite, parses
it into `DoubleBuffer::Next()`, and switches unless `Init()` of the object refuses.
With `SharedPtr`, as the code has it and as the run takes it, `Next()` is the object
that `Get()` returns, and what a load keeps is what the last one left. So the
properties speak of moments when no load is writing (`Settled`);
`double_buffer_one_object` shows the others. Another program parses the file into a new object, measuring it first
(`ParseFromJsonFile`). `parsed` and `prior` remember for the properties which text
an object was parsed from and what it held before.

**ConcurrentMap** has a step per call of the hash map. `ref` is the reference a
caller of `operator[]` or `at` keeps and writes through. Such a write takes no lock:
against a reader of the element it is a data race, of which the model takes the
outcome that a value is written in one piece. `size()` is left out: it reads a counter
of TBB's. **AtomicMap** is the map
it should be: an operation takes effect at one moment between its call and its
return, and a reference is good until its key is erased, even if the key comes
back. `insert_and_assign` replaces the value of a key that is there; only when it has
seen the key missing (`Misses`) and another thread inserts it meanwhile may it leave
that value (`KeepsOther`).

**ParallelFor** is the loop that starts the threads and the one that joins them,
for arguments chosen in `Init`, all arithmetic modulo `SizeMod`.

**Singleton** is `GetInstance` at the granularity of its loads and stores, the
three lifetime policies (`Lifetime`, chosen in `Init`), `CreateStatic` as a heap of one place, and `exit` by the
main thread, whose handlers, among them `DestroySingleton`, run last one first.
`ThreadsOutliveMain` lets the other threads go on during `exit`.

**Files** has a step per system call of `file.cc` on a file system of places,
inodes and descriptors: a removed file lives while it is open, a read or write
may be short or fail. `MakeDir` recurses along `frames`, and fails at a parent that
exists; `MakeFile` ignores that and returns the descriptor of `open` as its bool,
without ever closing it (`left`); `FileCopy` removes the destination, opens it with
`O_EXCL`, and closes what it has opened along `out_error`; `DirCopy` lists into a
copy and so copies nothing. *MCFiles* has the directory and the calls.

Below each module's model stand its properties. Operators named
`X_Something` or introduced by "Mutant:" are variants of `X` with a plausible
bug; no specification uses them. Each property of a passing run has one that
violates it.

## The runs

| Run | Instance | Shows |
|---|---|---|
| `lru_evict_one` | 2 clients, 2 evictors, 3 keys and their batch, size 1 | the inductive invariant with the order of the list (and with it the types), ownership of nodes and elements, `m_size`, snapshots, accessors, justified evictions, with `kEvictOne` |
| `lru_evict_batch` | 2 clients, 1 evictor, 2 keys, 2 values, batches, a clock | evictions stay justified with timeouts and `kEvictBatch`; the cache implements CacheSpec |
| `lru_liveness` | 2 clients, 3 calls, a clock | evictions end, inserts return |
| `scalable_cache` | 2 clients, 3 keys, batches of 2 and 1, shards of sizes 2 and 1, a timeout | what snapshots, sizes and `mget` promise while elements expire and are evicted; what was inserted last stays until it expires |
| `reload` | 2 callers, 1 path, 3 versions and times | serialised loads, no lost change, honest reports; changes are loaded, calls return, `Stop` ends the thread |
| `reloadable_json` | one object, 3 loads, 2 texts, of 3 configurations written either way and 4 documents by hand, 1 reader | between loads: what was written is loaded; nothing is invented, but a negative number cut to a `uint8_t`; which old values stay |
| `map_atomic` | 2 threads, 2 keys, 2 values, all methods but `size` | ConcurrentMap implements AtomicMap |
| `parallel_for` | every argument with a `size_t` of 10 values | the range is covered once, the call returns |
| `singleton` | 3 threads, 2 handlers, 3 policies | one live instance, destroyed once, none left |
| `files` | 2 threads, 3 of 9 calls, 4 descriptors, a buffer of 2 blocks | a copy is exact, copies never mix, no descriptor is lost or closed by another |

Two runs find a violation, see [Findings](#findings): `lru_insert_promotes` and
`double_buffer_one_object`.

The bounds are the smallest at which the cases in question happen. Three nodes
more than the list needs let an address be reused while an older node is being
deleted; two clients and two evictors give every pairing of an insert, a find
and an eviction with each other and with a skipped eviction; a clock of three
ticks with a timeout of one lets a node be fresh, expire and be refreshed. In
the reloader three versions and times are a first load, a change during a load
and a change after it; several files, which the loop visits in any order, are
left to the theorems. Three loads meet an object that holds what the loads before
them left; the documents have members that are missing, of another
type, out of range on either side, given twice and unknown, and the configurations the ends of
their types, empty containers, a renamed member and a NaN. Two shards, one of which is smaller, are where a walk over
shards can go wrong: a batch of two keys visits both, one of one key either, and
with a timeout every key can expire in its list, at its end or before it, and on its
way out of the map. Ten values of `size_t` include ranges that are empty,
shorter than a part, multiples of it, and that end next to the largest value.
Four descriptors are what two copies need at once, so that a third file left open
by `MakeFile` makes the next `open` fail; three calls are two that meet and one
that found or left something in their way, and a file of three blocks takes two
reads and as many writes as the disk likes. Where TLC's bounds matter for safety,
the theorems do without them.

Symmetry is used for sets of interchangeable model values, and not in the
liveness runs. Deadlock is checked except where the system stops for good:
`parallel_for` (the call returns), the singleton (the program ends) and the
bounded calls of `lru_liveness` and `files`.

## Fairness

Liveness is stated under fairness of the operating system's scheduler, and
nothing else:

* *lru_liveness*: weak fairness of every thread's steps. The element locks of
  TBB are spin locks without a queue, so that a reader could starve a writer with
  endlessly many calls; the run lets clients make finitely many (`MaxCalls`).
  Callers let their accessors go: `ReleaseAccessor` is fair, a scope ends. They do
  so before they insert, also after a find that missed, which the code does not
  ask for: see the first of the disagreements without a run below.
* *reload*: weak fairness of the threads; strong fairness for the
  acquisition of `files_lock_`, which is free again and again: the watchdog
  sleeps ten seconds between two scans without it, and when a writer of a
  `std::shared_mutex` leaves, waiting readers are let in. Writes, removals and
  the clock are not fair: `ChangeLoaded` speaks of files whose content settles.
* *parallel_for*: weak fairness of the caller and of the tasks.

## The proofs

All theorems are of the form `Spec => []Invariant`, `Spec => [][Action]_vars` or a
refinement, for all values of the constants that satisfy the named assumptions.

**ConcurrentLRUCache_proofs** assume `SentinelAssumption` (sentinels, markers and nodes differ), `ParameterAssumption`
(types), `HeapAssumption` (fewer nodes fit in memory than `size_t` counts) and
that `clear` does not run beside an eviction, which its comment asks for, in so
far as a caller can. None of the properties is inductive. That an eviction finds
its element (`MoribundStillMapped`) needs to know that nobody else erases (`OneEvictor`,
by `m_evict_flag`), that a listed node is the node of the element of its key
(`ListedMapped`), that `set_entry` does not link a marked node again, and that a
node being inserted cannot be chosen (`FreshUnlinked`). The list is well formed
(`WellLinked`: every node but the listed ones is marked, and `m_prev` and `m_next`
are inverse), which makes `delink` and `push_front` provable as changes of the set
of listed nodes. `IInv` is the conjunction of these; the proof goes action by
action, with the list operations as lemmas. `NoDangling`, `EveryNodeOwned`,
`SizeAccurate` and `EveryEntryEvictable` follow, and from `DecisionStands` the
two action properties.

`IInv` says which nodes are listed and nothing of their order: `WellLinked` alone
would allow a circle apart from the sentinels, on which `snapshot_keys` would never
come to its end. `RefInv` adds `WalkInv`, that `m_next` leads from one sentinel to
the other through exactly the listed nodes (`IsChain`), and `ValueInv`. That the
walk of `snapshot_keys` returns the chain is an induction along it
(`WalkFollows`); what `delink` and `push_front` do to the chain are `DelinkChain`
and `PushFrontChain`, and from these come what an eviction, a refresh and an
insertion do to the order. `SnapshotsAreFaithful` and `ImplementsCacheSpec` follow.
In the refinement an insertion takes effect when its node is linked (`LinkNewAdds`),
an overwrite when the value is stored and again, as a refresh, when the node is
moved; an eviction when its node is delinked and when the element is erased; all
else stutters.

**ReloadWatchdog_proofs**: that loads are serialised, and that the watchdog's are
only of files in its map, follows from `LockInv`, who holds `files_lock_` at which
label, without any assumption on times. (`Cancel` and `Stop` are not final: a `Watch`
that is past its check, or is called later, loads its file and inserts it.) That no change is lost and success is real need
`WriteTimes = "later"`, every write in a later second than the one before;
`TimeInv` then relates `update_time`, the time of the `stat` in progress and the
content that was read to what is on disk. Without the assumption they are false,
see the findings about `TryLoad`.

**ReloadableJson_proofs**, about `DoubleBuffer<T>`: `IInv` says that the loader's object is
never the current one, and that a reader that has not been overtaken uses the
current one. It needs two distinct objects (`~ SharedPtr`), and gives
`CurrentIsWhole` and `ReferencesAreStable` of DoubleBuffer on its own. They are not
theorems about the reloaders, whose specialisation has one object.

About what the reloaders' object holds, and those of either template: `JsonInv` says that an object is
what its text makes of what it held before (`ParsedFromText`), and that only a
parsed object is published (`PublishedIsParsed`). The rest is about the functions of
Json, for every choice of members, their types and names, and every document.
`ReloadsLikeARestart` rests on what a `Parse` makes of two objects
(`ContainerParse`, `ScalarParse`, `InnerParse`): the same, or each stays as it was.
`NothingIsInvented` rests on `ParsesUpTo`: a container holds the values before the
first that is refused, each of them given; of a `uint8_t` a negative number is given
when it is there cut (`StandsFor`). `WritingThenLoading` is the round trip,
`ScalarRoundTrip`, `InnerRoundTrip`, `ElementRoundTrip` and one of each container:
what is written has a member for every field that is not left out (`Lists`), in the
order of the struct, so that looking its name up finds it. Two assumptions are
about the arguments: `JsonAssumption` has the types well formed, the names of a
struct's members all different and none empty, and the ranges of the narrow
integers within the wide ones they are read by; `DocumentsAssumption` says that what is written is of the declared
type and what rapidjson returns is a JSON value.

**Files_proofs** take any threads, calls, contents and number of descriptors.
`FilesInv` has what a thread holds at which label (`Stage`), one holder for each open
descriptor (`Held`), and that what a copy writes to is a file nobody else writes to
and not the one it reads (`WritesAlone`), which is why the file has been removed
and is created with `O_EXCL`. Then what is in the copy and in the buffer is the
beginning of the source (`Copies`), also when the source grows meanwhile, being
a copy itself; and every file begins as some file there was (`Unmixed`). The three
properties follow: no descriptor is lost or closed by another, copies do not mix,
and a copy that comes to the end of its source has copied all of it.

**ParallelFor_proofs** assume a positive part size and no wrap-around of the last
part's end; `Ordered` and `Covered` say that the parts so far are a partition of
the indices before `i`.

**ConcurrentMap_proofs** show that accessors, and references until their key is
erased, hold elements of the table (`AccessorsHold`), and that every step is a
step of AtomicMap or a stutter (`MapIsAtomic`): an `insert_and_assign` in stage
`missed` has made AtomicMap's step `Misses`, and only such a one may keep a value.

**LRUCache_proofs** prove of the sharded cache and `mget`, from `ShardAssumption`
alone, that a key is only ever in its shard (`Sharded`); that `mget` is true of
moments of the call (`MgetInv`: `throughout` stays within the lists and apart from
`expired`, `sometime` holds what is in the maps and has not expired, so a key is
reported missing when it is in no list or has expired, and found when it is
in a map and has not); and that a snapshot is regular (`Copying`: what the shards before `ind`
held throughout has been copied, once, because no list has a key twice and no
shard is visited twice). `LatestStays` needs more, a shard size of at least one,
hence `m_max_size >= m_num_shards`, and finitely many clients, by whose
uncounted insertions `m_size` may be too small: then an eviction for size meets a
list of two nodes at least and leaves its head, where the latest key is, and an
eviction for time takes a key that has expired, which the latest has not
(`LatestInFront`). `SizeRegular` assumes finitely many clients
and keys. `CountingInv` says that every key being inserted is listed or dying, and by
one client only, so that no `m_size` is below zero or above its elements by more than
one; `AddingInv` that `total` is right for the shards visited, up to those lags. A
client is missed once at most: what it inserts after that was not in the lists
throughout. `TypeOK` of ScalableCache follows from all of these.

**Singleton_proofs** assume that the other threads are joined before `exit`
(`~ ThreadsOutliveMain`). `IInv` has one owner of `mutex_` who has seen `instance_`
null (`MutexInv`), the one instance that is alive, `main` alone during exit, and at most one
`DestroySingleton` ahead: while it is registered there is an instance, so nobody
gets past the second load to register it again (`PendingInv`); conversely an
instance whose policy wants it destroyed has one ahead (`OwedInv`). All three
properties of the run follow.

The invariants were found and tried with TLC; the runs check the properties that
follow from them, and `lru_evict_one` checks `RefInv` itself.

What repeats along a list or a sequence is proved from the least number at which it
could go wrong (`LeastNatural`), since the library's induction theorems take an
operator as a parameter, which the provers do not instantiate. Recursion is
therefore written as functions on numbers, and what is needed of one is proved
where it is used.

Only model-checked: the liveness properties (`EvictFlagReleased`, `InsertReturns`,
`ChangeLoaded`, `CallsReturn`, `StopEndsRun`, `Returns`), which are beyond the
provers under fairness. Every invariant, action property and refinement that a
passing run checks is a theorem.

## Findings

Two runs violate what a line of the code says; `PROJECT.json` quotes it.

* `lru_insert_promotes`: an insert of a key that is being evicted returns true
  without linking its node, and the eviction then drops the new value.
* `double_buffer_one_object`: the `shared_ptr` specialisation, which the reloader
  uses, has one object for its two buffers.

The models have further behaviours that their properties leave out, since the code
does not promise otherwise or promises it in passing. They have no run:

* With `CacheAside`, `find` of an expired key returns false with the element locked
  (`concurrent_lru_cache.h:258`), and a caller that inserts after the miss, as a cache is
  used, waits for itself: `tlc -config FindingCacheAside.cfg MCLRULive` shows that
  `InsertReturns` fails then.
* ConcurrentLRUCache can rest above `m_max_size`: an eviction skipped because
  another one runs is never made up for (`concurrent_lru_cache.h:454`), and
  `kEvictOne` follows a whole batch with one removal (458). `find` does not promote
  (264), although its comment (112-113) says so. With `ClearBesideEvict`, the branch
  at 421, "presumably unreachable", is reached: `clear`, or the destructor, beside
  the eviction that the caller's own last insert detached.
* ConcurrentScalableCache with more shards than elements has shards of size 0,
  which evict every key they are given (`concurrent_scalable_cache.h:119`): ScalableCache
  violates `LatestStays` for `m_max_size = 1` and two shards. A snapshot does not
  block inserts into the other shards, contrary to lines 77-79, which is why
  `SnapshotRegular` asks for less; `size` can be too high, not only too low (84-85),
  by one per shard, as `SizeRegular` allows.
* ReloadWatchdog with `WriteTimes = "now"`: a change in the second of the last load,
  after it, is never loaded (`reloadable_file.cc:84`):
  `tlc -config FindingSameSecond.cfg MCReload` shows that `ChangeLoaded` fails. With
  `"any"`: success is
  reported of a file whose last load failed, when an older one is put in its place.
  Two `Watch`es of one path both return 0 and one file is dropped
  (`watchdog.cc:46`): `ChangeLoaded` speaks of the file that is in the map. A `Watch`
  that was past its check before a `Cancel` or a `Stop`, or is called after, loads its
  file and puts it in the map: `OnlyWatchedLoaded` speaks of the watchdog's loads.
* `insert_and_assign` that misses its key, against an insert of the same key, does not
  assign (`concurrent_map.h:25`; line 19 says that the value of a key that exists is
  replaced), hence `KeepsOther` in AtomicMap; the reference of
  `operator[]` does not keep its element from being erased (48), hence `Dangling`.
* ReloadableJson: a text of `WriteToJsonString` with a NaN is cut at it, and still 0
  is returned (`json.h`); a map with an empty key makes rapidjson append to an object as
  to an array; the macros name a namespace `kcfg` that is not there. A file that does not
  name a member leaves in the object what the last load left there, which
  `ReloadedOrKept` allows: a program that has reloaded a file and one that has just
  started with it may differ.
* Files: `MakeFile` returns true for -1 and keeps its descriptor for good; `MakeDir`
  returns false below a parent that exists, and always for an absolute path;
  `DirCopy` copies nothing, since `ListAllFiles` fills a copy of its argument;
  `ListFiles` is always empty and `ListDir` lists everything. `file.h` declares
  `ListDirs` and `GetCurrExecFile`, `file.cc` defines `ListDir` and
  `GetCurrentExecuteFile`.
* `Status` never keeps its message: `Assign` tests `msg_`, which it has just set to
  null, where it means `msg` (`status.cc:43`), and `ToString` of a status that is not OK reads the null `msg_`.
* Json: a negative number for a `uint8_t` is accepted and cut, so that -1 becomes 255
  (`json.h:200` checks the upper bound only); every other integer out of its range is
  refused. `NothingInvented` names this exception.
* Singleton with `ThreadsOutliveMain`: `GetInstance` between the two stores of
  `DestroySingleton` makes its assertion (`singleton.h:96`) fail at the next handler:
  `tlc -config FindingThreadsOutliveMain.cfg Singleton`.

## Not modelled

* The constructor of the watchdog, which starts its thread before `files_lock_` and
  `watched_files_` are constructed: what an unconstructed mutex does has no
  outcomes to enumerate. The model starts after it.
* `MMapData`: unused. Strings and compression: wrappers of absl and zlib.
* Weak memory: steps are sequentially consistent. The atomics of the modelled
  code are used with their default order, except in `Singleton::GetInstance`,
  whose readers depend on the pointer they load.
* Failing allocations, exceptions, and threads that cannot be started.
* Of the files, `ListDir`, `ListFiles`, `FileSize`, `AbsolutePath`, `IsExec` and
  `GetOpenFds`: each reads the file system once and changes nothing. Links, modes
  and special files.
* Of JSON, rapidjson itself: a text is its value, or none.
* `Status`, url, math and time: sequential and without a property that takes more
  than one call to break, so a unit test reaches them. A model would be about
  `Status::Assign` (above), `Digits10`, which narrows (`math.cc:31`), and `UrlDecode`,
  which drops plain characters (`url.cc:14`).
* `double_buffer.h`, `reloadable_json.h` and `reloadable_conf.h` do not compile as
  they stand (a missing `;` after a class, `double_confs` for `double_confs_`, `load`
  for `Load`); they are modelled as what they evidently mean.

## Plan

In order of importance; done unless marked.

1. ConcurrentLRUCache, its invariant and proofs; CacheSpec and the refinement.
2. ReloadWatchdog, its invariant and proofs.
3. DoubleBuffer under the loads of 2, with proofs.
4. ConcurrentMap against AtomicMap, with proofs; ParallelFor, with proofs.
5. ScalableCache over shards at the level of CacheSpec, LRUCache's `mget` on it, with
   proofs; Singleton, with proofs.
6. Json, and its composition with DoubleBuffer in ReloadableJson.
7. Files: the operations that change the file system, with proofs.
8. The refinement of CacheSpec and the snapshots by proof, along the chain of the list.
9. The round trip of JSON, and what a reload keeps and invents, by proof.
10. *To do:* two files that share a `FileInfo`, `TryLoad` before `Init`, and callbacks
    that call the watchdog.
11. *To do:* the pure functions (`UpperPowerOfTwo`, `Digits10`, `UrlDecode`) and `Status`.
