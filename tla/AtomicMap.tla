------------------------------ MODULE AtomicMap ------------------------------
(***************************************************************************)
(* What ConcurrentMap promises: a map on which every operation takes       *)
(* effect at one moment between its call and its return.  The exception is *)
(* an insert_and_assign that lost a race: its key was not in the map when  *)
(* it looked, and another thread inserted it before it could.  A reference *)
(* that operator[] or at() returned is good until its key is erased, also  *)
(* if the key comes back.                                                  *)
(***************************************************************************)
CONSTANTS Keys, Values, NoValue, Default, Threads, Ops, NoOp, NoKey, Dangling

VARIABLES
  map,     \* the value of every key, NoValue if it is not in the map
  op,      \* the operation a thread has called
  answer,  \* what its last operation returned
  ref,     \* the key a thread holds a reference to
  missed   \* the threads whose insert_and_assign found its key missing

vars == <<map, op, answer, ref, missed>>

Init ==
  /\ map = [k \in Keys |-> NoValue]
  /\ op = [t \in Threads |-> NoOp]
  /\ answer = [t \in Threads |-> NoValue]
  /\ ref = [t \in Threads |-> NoKey]
  /\ missed = {}

Call(t, o) ==
  /\ op[t] = NoOp
  /\ op' = [op EXCEPT ![t] = o]
  /\ answer' = [answer EXCEPT ![t] = NoValue]
  /\ UNCHANGED <<map, ref, missed>>

\* An operation changes the map to m and returns r.
Takes(t, m, r) ==
  /\ map' = m
  /\ answer' = [answer EXCEPT ![t] = r]
  /\ op' = [op EXCEPT ![t] = NoOp]
  /\ missed' = missed \ {t}

InsertIfAbsent(k, v) == IF map[k] = NoValue THEN [map EXCEPT ![k] = v] ELSE map

Insert(t, o) ==
  /\ o.name = "insert"
  /\ Takes(t, InsertIfAbsent(o.key, o.val), NoValue)
  /\ UNCHANGED ref

InsertOrAssign(t, o) ==
  /\ o.name = "insert_and_assign"
  /\ Takes(t, [map EXCEPT ![o.key] = o.val], NoValue)
  /\ UNCHANGED ref

\* insert_and_assign sees that its key is not in the map
Misses(t, o) ==
  /\ o.name = "insert_and_assign"
  /\ map[o.key] = NoValue
  /\ missed' = missed \cup {t}
  /\ UNCHANGED <<map, op, answer, ref>>

\* and may then, but only then, keep the value another thread inserted since.
KeepsOther(t, o) ==
  /\ o.name = "insert_and_assign"
  /\ t \in missed
  /\ map[o.key] # NoValue
  /\ Takes(t, map, NoValue)
  /\ UNCHANGED ref

Find(t, o) ==
  /\ o.name = "find"
  /\ Takes(t, map, map[o.key] # NoValue)
  /\ UNCHANGED ref

FindWithValue(t, o) ==
  /\ o.name = "find_with_value"
  /\ Takes(t, map, map[o.key])
  /\ UNCHANGED ref

Erase(t, o) ==
  /\ o.name = "erase"
  /\ Takes(t, [map EXCEPT ![o.key] = NoValue], map[o.key] # NoValue)
  /\ ref' = [u \in Threads |-> IF ref[u] = o.key THEN Dangling ELSE ref[u]]

Subscript(t, o) ==
  /\ o.name = "operator[]"
  /\ Takes(t, InsertIfAbsent(o.key, Default), NoValue)
  /\ ref' = [ref EXCEPT ![t] = o.key]

At(t, o) ==
  /\ o.name = "at"
  /\ Takes(t, map, NoValue)
  /\ ref' = [ref EXCEPT ![t] = IF map[o.key] = NoValue THEN Dangling ELSE o.key]

Do(t, o) ==
  \/ Insert(t, o) \/ InsertOrAssign(t, o) \/ Find(t, o) \/ FindWithValue(t, o)
  \/ Erase(t, o) \/ Subscript(t, o) \/ At(t, o)

\* A write through a reference reaches a key of the map, and only its value.
WriteThrough(t, v) ==
  /\ op[t] = NoOp
  /\ ref[t] \in Keys
  /\ map[ref[t]] # NoValue
  /\ map' = [map EXCEPT ![ref[t]] = v]
  /\ UNCHANGED <<op, answer, ref, missed>>

Forget(t) ==
  /\ op[t] = NoOp
  /\ ref' = [ref EXCEPT ![t] = NoKey]
  /\ UNCHANGED <<map, op, answer, missed>>

Next ==
  \E t \in Threads :
    \/ \E o \in Ops : Call(t, o)
    \/ /\ op[t] # NoOp
       /\ Do(t, op[t]) \/ Misses(t, op[t]) \/ KeepsOther(t, op[t])
    \/ \E v \in Values : WriteThrough(t, v)
    \/ Forget(t)

Spec == Init /\ [][Next]_vars
=============================================================================
