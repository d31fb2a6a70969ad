---------------------------- MODULE ConcurrentMap ----------------------------
(***************************************************************************)
(* ConcurrentMap, a tbb::concurrent_hash_map behind the methods of a map.  *)
(*                                                                         *)
(* The hash map locks every element on its own: an accessor is the only    *)
(* holder of its element, a const_accessor one of many.  A method is as    *)
(* many steps as it makes calls; operator[] and at() hand out references   *)
(* that outlive the accessor.  size() is left out: it reads a counter of   *)
(* the hash map, and nothing in the source says how far that may lag.      *)
(***************************************************************************)
EXTENDS FiniteSets

CONSTANTS
  Keys, Values,
  NoValue,      \* nullptr, or no element
  Default,      \* the value V() of an element inserted by operator[]
  Threads,
  NoThread, NoOp, NoKey,
  Dangling,     \* a reference to an element that was erased
  Methods       \* the methods the threads call

ASSUME NamesAssumption ==
  /\ NoValue \notin Values \cup BOOLEAN
  /\ Default \in Values
  /\ NoThread \notin Threads
  /\ NoKey \notin Keys
  /\ Dangling \notin Keys \cup {NoKey}
  /\ NoOp \notin [name : Methods, key : Keys, val : Values]

VARIABLES
  table_,   \* the value of every key
  writer,   \* the thread whose accessor holds the element of a key
  readers,  \* the threads whose const_accessor does
  op,       \* the method a thread is in, with its arguments
  stage,    \* where it is there: "called", "found" the key or "missed" it
  answer,   \* what its last method returned
  ref       \* the key a thread holds a reference to

vars == <<table_, writer, readers, op, stage, answer, ref>>

Ops == [name : Methods, key : Keys, val : Values]

Init ==
  /\ table_ = [k \in Keys |-> NoValue]
  /\ writer = [k \in Keys |-> NoThread]
  /\ readers = [k \in Keys |-> {}]
  /\ op = [t \in Threads |-> NoOp]
  /\ stage = [t \in Threads |-> "called"]
  /\ answer = [t \in Threads |-> NoValue]
  /\ ref = [t \in Threads |-> NoKey]

(* tbb::concurrent_hash_map.                                                *)

Has(k) == table_[k] # NoValue
WriteLockable(k) == writer[k] = NoThread /\ readers[k] = {}
ReadLockable(k) == writer[k] = NoThread

\* insert(value) without an accessor: no effect if the key is there.
Inserted(k, v) == IF Has(k) THEN table_ ELSE [table_ EXCEPT ![k] = v]

(* Methods.                                                                 *)

Call(t, o) ==
  /\ op[t] = NoOp
  /\ op' = [op EXCEPT ![t] = o]
  /\ answer' = [answer EXCEPT ![t] = NoValue]
  /\ UNCHANGED <<table_, writer, readers, stage, ref>>

At(t, name, s) == op[t] # NoOp /\ op[t].name = name /\ stage[t] = s

\* The method returns r.
Return(t, r) ==
  /\ answer' = [answer EXCEPT ![t] = r]
  /\ op' = [op EXCEPT ![t] = NoOp]
  /\ stage' = [stage EXCEPT ![t] = "called"]

Goto(t, s) == stage' = [stage EXCEPT ![t] = s] /\ UNCHANGED <<op, answer>>

Insert(t) ==
  /\ At(t, "insert", "called")
  /\ table_' = Inserted(op[t].key, op[t].val)
  /\ Return(t, NoValue)
  /\ UNCHANGED <<writer, readers, ref>>

\* insert_and_assign looks for the key with an accessor,
InsertAndAssignFind(t) ==
  LET k == op[t].key IN
  /\ At(t, "insert_and_assign", "called")
  /\ \/ /\ Has(k) /\ WriteLockable(k)
        /\ writer' = [writer EXCEPT ![k] = t]
        /\ Goto(t, "found")
     \/ /\ ~ Has(k)
        /\ Goto(t, "missed")
        /\ UNCHANGED writer
  /\ UNCHANGED <<table_, readers, ref>>

\* Mutant: what is assigned to is a copy of the value.
InsertAndAssignStoreCopy(t) ==
  /\ At(t, "insert_and_assign", "found")
  /\ writer' = [writer EXCEPT ![op[t].key] = NoThread]
  /\ Return(t, NoValue)
  /\ UNCHANGED <<table_, readers, ref>>

\* assigns through it,
InsertAndAssignStore(t) ==
  /\ At(t, "insert_and_assign", "found")
  /\ table_' = [table_ EXCEPT ![op[t].key] = op[t].val]
  /\ writer' = [writer EXCEPT ![op[t].key] = NoThread]
  /\ Return(t, NoValue)
  /\ UNCHANGED <<readers, ref>>

\* or calls insert, which the key may have reached before.
InsertAndAssignInsert(t) ==
  /\ At(t, "insert_and_assign", "missed")
  /\ table_' = Inserted(op[t].key, op[t].val)
  /\ Return(t, NoValue)
  /\ UNCHANGED <<writer, readers, ref>>

\* find and count.
Find(t) ==
  LET k == op[t].key IN
  /\ At(t, "find", "called")
  /\ Has(k) => ReadLockable(k)
  /\ Return(t, Has(k))
  /\ UNCHANGED <<table_, writer, readers, ref>>

FindWithValue(t) ==
  LET k == op[t].key IN
  /\ At(t, "find_with_value", "called")
  /\ \/ /\ Has(k) /\ ReadLockable(k)
        /\ readers' = [readers EXCEPT ![k] = @ \cup {t}]
        /\ Goto(t, "found")
     \/ /\ ~ Has(k)
        /\ Return(t, NoValue)
        /\ UNCHANGED readers
  /\ UNCHANGED <<table_, writer, ref>>

\* The value is copied while the const_accessor holds the element.
CopyValue(t) ==
  /\ At(t, "find_with_value", "found")
  /\ readers' = [readers EXCEPT ![op[t].key] = @ \ {t}]
  /\ Return(t, table_[op[t].key])
  /\ UNCHANGED <<table_, writer, ref>>

EraseFind(t) ==
  LET k == op[t].key IN
  /\ At(t, "erase", "called")
  /\ \/ /\ Has(k) /\ WriteLockable(k)
        /\ writer' = [writer EXCEPT ![k] = t]
        /\ Goto(t, "found")
     \/ /\ ~ Has(k)
        /\ Return(t, FALSE)
        /\ UNCHANGED writer
  /\ UNCHANGED <<table_, readers, ref>>

\* erase(accessor): references to the element dangle from now on.
EraseFound(t) ==
  LET k == op[t].key IN
  /\ At(t, "erase", "found")
  /\ table_' = [table_ EXCEPT ![k] = NoValue]
  /\ writer' = [writer EXCEPT ![k] = NoThread]
  /\ ref' = [u \in Threads |-> IF ref[u] = k THEN Dangling ELSE ref[u]]
  /\ Return(t, TRUE)
  /\ UNCHANGED readers

\* operator[] inserts V() if need be and returns a reference; its accessor is
\* gone when it does.
Subscript(t) ==
  LET k == op[t].key IN
  /\ At(t, "operator[]", "called")
  /\ Has(k) => WriteLockable(k)
  /\ table_' = Inserted(k, Default)
  /\ ref' = [ref EXCEPT ![t] = k]
  /\ Return(t, NoValue)
  /\ UNCHANGED <<writer, readers>>

\* at() returns a reference too; of a key that is not there it dereferences
\* an empty accessor.
AtKey(t) ==
  LET k == op[t].key IN
  /\ At(t, "at", "called")
  /\ Has(k) => ReadLockable(k)
  /\ ref' = [ref EXCEPT ![t] = IF Has(k) THEN k ELSE Dangling]
  /\ Return(t, NoValue)
  /\ UNCHANGED <<table_, writer, readers>>

\* A caller of operator[] writes through its reference, without any lock.
\* One step: values are taken to be of a type that is read and written in one
\* piece; of any other, such a write beside a method is a data race.
WriteThrough(t, v) ==
  /\ op[t] = NoOp
  /\ ref[t] \in Keys
  /\ table_' = [table_ EXCEPT ![ref[t]] = v]
  /\ UNCHANGED <<writer, readers, op, stage, answer, ref>>

Forget(t) ==
  /\ op[t] = NoOp
  /\ ref[t] # NoKey
  /\ ref' = [ref EXCEPT ![t] = NoKey]
  /\ UNCHANGED <<table_, writer, readers, op, stage, answer>>

Method(t) ==
  \/ Insert(t)
  \/ InsertAndAssignFind(t) \/ InsertAndAssignStore(t)
  \/ InsertAndAssignInsert(t)
  \/ Find(t) \/ FindWithValue(t) \/ CopyValue(t)
  \/ EraseFind(t) \/ EraseFound(t)
  \/ Subscript(t) \/ AtKey(t)

Next ==
  \E t \in Threads :
    \/ \E o \in Ops : Call(t, o)
    \/ Method(t)
    \/ \E v \in Values : WriteThrough(t, v)
    \/ Forget(t)

Spec == Init /\ [][Next]_vars
-----------------------------------------------------------------------------
TypeOK ==
  /\ table_ \in [Keys -> Values \cup {NoValue}]
  /\ writer \in [Keys -> Threads \cup {NoThread}]
  /\ readers \in [Keys -> SUBSET Threads]
  /\ op \in [Threads -> Ops \cup {NoOp}]
  /\ stage \in [Threads -> {"called", "found", "missed"}]
  /\ answer \in [Threads -> Values \cup {NoValue} \cup BOOLEAN]
  /\ ref \in [Threads -> Keys \cup {NoKey, Dangling}]

\* The accessors of methods in progress hold elements that are in the table,
\* alone if they write, and so do references until their key is erased.
IInv ==
  /\ TypeOK
  /\ \A t \in Threads : stage[t] = "found" =>
       /\ op[t] # NoOp
       /\ Has(op[t].key)
       /\ op[t].name \in {"insert_and_assign", "erase", "find_with_value"}
       /\ IF op[t].name = "find_with_value" THEN t \in readers[op[t].key]
                                           ELSE writer[op[t].key] = t
  /\ \A k \in Keys : writer[k] # NoThread => readers[k] = {}
  /\ \A t \in Threads : ref[t] \in Keys => Has(ref[t])

AbstractMap == INSTANCE AtomicMap
  WITH map <- table_, missed <- {t \in Threads : stage[t] = "missed"}

\* Every method takes effect at one moment, as if the map had one lock: also
\* insert_and_assign replaces the value of a key that is there, unless it saw
\* the key missing and another thread inserted it meanwhile.  A write through a reference never reaches another element than
\* the one it was taken of.
ImplementsMap == AbstractMap!Spec
=============================================================================
