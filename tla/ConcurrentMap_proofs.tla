------------------------ MODULE ConcurrentMap_proofs ------------------------
(* ConcurrentMap implements AtomicMap, for any keys, values and threads.    *)
EXTENDS ConcurrentMap, TLAPS

USE NamesAssumption

LEMMA IInvInit == ASSUME Init PROVE IInv
BY DEF Init, IInv, TypeOK

\* What a thread inside a method knows about its operation.
LEMMA InMethod ==
  ASSUME IInv, NEW t \in Threads, op[t] # NoOp
  PROVE  op[t] \in Ops /\ op[t].key \in Keys /\ op[t].val \in Values
BY DEF IInv, TypeOK, Ops

LEMMA IInvMethod ==
  ASSUME IInv, NEW t \in Threads, Method(t) PROVE IInv'
<1> DEFINE k == op[t].key
<1>0. op[t] # NoOp /\ op[t] \in Ops /\ k \in Keys /\ op[t].val \in Values
  BY InMethod DEF Method, At, Insert, InsertAndAssignFind,
     InsertAndAssignStore, InsertAndAssignInsert, Find, FindWithValue,
     CopyValue, EraseFind, EraseFound, Subscript, AtKey
<1> USE <1>0 DEF IInv, TypeOK, At, Return, Goto, Has, Inserted, WriteLockable,
        ReadLockable
<1>1. CASE Insert(t)
  BY <1>1 DEF Insert
<1>2. CASE InsertAndAssignFind(t)
  <2>1. CASE Has(k)
    <3>1. TypeOK'
      BY <1>2, <2>1 DEF InsertAndAssignFind
    <3>2. ASSUME NEW u \in Threads, stage'[u] = "found"
          PROVE  /\ op'[u] # NoOp /\ Has(op[u].key)'
                 /\ op'[u].name \in {"insert_and_assign", "erase",
                                     "find_with_value"}
                 /\ IF op'[u].name = "find_with_value"
                      THEN u \in readers'[op'[u].key]
                      ELSE writer'[op'[u].key] = u
      <4>1. CASE u = t
        BY <1>2, <2>1, <4>1 DEF InsertAndAssignFind
      <4>2. CASE u # t
        <5>1. stage[u] = "found" /\ op[u] \in Ops /\ op[u].key \in Keys
          BY <1>2, <2>1, <3>2, <4>2, InMethod DEF InsertAndAssignFind
        <5> QED BY <1>2, <2>1, <4>2, <5>1 DEF InsertAndAssignFind
      <4> QED BY <4>1, <4>2
    <3>3. \A q \in Keys : writer'[q] # NoThread => readers'[q] = {}
      BY <1>2, <2>1 DEF InsertAndAssignFind
    <3>4. \A u \in Threads : ref'[u] \in Keys => Has(ref[u])'
      BY <1>2, <2>1 DEF InsertAndAssignFind
    <3> QED BY <3>1, <3>2, <3>3, <3>4
  <2>2. CASE ~ Has(k)
    BY <1>2, <2>2 DEF InsertAndAssignFind
  <2> QED BY <2>1, <2>2
<1>3. CASE InsertAndAssignStore(t)
  BY <1>3 DEF InsertAndAssignStore
<1>4. CASE InsertAndAssignInsert(t)
  BY <1>4 DEF InsertAndAssignInsert
<1>5. CASE Find(t)
  BY <1>5 DEF Find
<1>6. CASE FindWithValue(t)
  <2>1. CASE Has(k)
    <3>1. TypeOK'
      BY <1>6, <2>1 DEF FindWithValue
    <3>2. ASSUME NEW u \in Threads, stage'[u] = "found"
          PROVE  /\ op'[u] # NoOp /\ Has(op[u].key)'
                 /\ op'[u].name \in {"insert_and_assign", "erase",
                                     "find_with_value"}
                 /\ IF op'[u].name = "find_with_value"
                      THEN u \in readers'[op'[u].key]
                      ELSE writer'[op'[u].key] = u
      <4>1. CASE u = t
        BY <1>6, <2>1, <4>1 DEF FindWithValue
      <4>2. CASE u # t
        <5>1. stage[u] = "found" /\ op[u] \in Ops /\ op[u].key \in Keys
          BY <1>6, <2>1, <3>2, <4>2, InMethod DEF FindWithValue
        <5> QED BY <1>6, <2>1, <4>2, <5>1 DEF FindWithValue
      <4> QED BY <4>1, <4>2
    <3>3. \A q \in Keys : writer'[q] # NoThread => readers'[q] = {}
      BY <1>6, <2>1 DEF FindWithValue
    <3>4. \A u \in Threads : ref'[u] \in Keys => Has(ref[u])'
      BY <1>6, <2>1 DEF FindWithValue
    <3> QED BY <3>1, <3>2, <3>3, <3>4
  <2>2. CASE ~ Has(k)
    BY <1>6, <2>2 DEF FindWithValue
  <2> QED BY <2>1, <2>2
<1>7. CASE CopyValue(t)
  BY <1>7 DEF CopyValue
<1>8. CASE EraseFind(t)
  <2>1. CASE Has(k)
    <3>1. TypeOK'
      BY <1>8, <2>1 DEF EraseFind
    <3>2. ASSUME NEW u \in Threads, stage'[u] = "found"
          PROVE  /\ op'[u] # NoOp /\ Has(op[u].key)'
                 /\ op'[u].name \in {"insert_and_assign", "erase",
                                     "find_with_value"}
                 /\ IF op'[u].name = "find_with_value"
                      THEN u \in readers'[op'[u].key]
                      ELSE writer'[op'[u].key] = u
      <4>1. CASE u = t
        BY <1>8, <2>1, <4>1 DEF EraseFind
      <4>2. CASE u # t
        <5>1. stage[u] = "found" /\ op[u] \in Ops /\ op[u].key \in Keys
          BY <1>8, <2>1, <3>2, <4>2, InMethod DEF EraseFind
        <5> QED BY <1>8, <2>1, <4>2, <5>1 DEF EraseFind
      <4> QED BY <4>1, <4>2
    <3>3. \A q \in Keys : writer'[q] # NoThread => readers'[q] = {}
      BY <1>8, <2>1 DEF EraseFind
    <3>4. \A u \in Threads : ref'[u] \in Keys => Has(ref[u])'
      BY <1>8, <2>1 DEF EraseFind
    <3> QED BY <3>1, <3>2, <3>3, <3>4
  <2>2. CASE ~ Has(k)
    <3>1. answer' = [answer EXCEPT ![t] = FALSE]
      BY <1>8, <2>2 DEF EraseFind
    <3>2. FALSE \in Values \cup {NoValue} \cup BOOLEAN
      BY Zenon
    <3>3. answer' \in [Threads -> Values \cup {NoValue} \cup BOOLEAN]
      BY <3>1, <3>2
    <3> QED BY <1>8, <2>2, <3>3 DEF EraseFind
  <2> QED BY <2>1, <2>2
<1>9. CASE EraseFound(t)
  BY <1>9 DEF EraseFound
<1>10. CASE Subscript(t)
  BY <1>10 DEF Subscript
<1>11. CASE AtKey(t)
  BY <1>11 DEF AtKey
<1> QED
  BY <1>1, <1>2, <1>3, <1>4, <1>5, <1>6, <1>7, <1>8, <1>9, <1>10, <1>11
  DEF Method

LEMMA IInvStep == ASSUME IInv, [Next]_vars PROVE IInv'
<1> USE DEF IInv, TypeOK, Has
<1>1. ASSUME NEW t \in Threads, NEW o \in Ops, Call(t, o) PROVE IInv'
  BY <1>1 DEF Call
<1>2. ASSUME NEW t \in Threads, NEW v \in Values, WriteThrough(t, v)
      PROVE  IInv'
  BY <1>2 DEF WriteThrough
<1>3. ASSUME NEW t \in Threads, Forget(t) PROVE IInv'
  BY <1>3 DEF Forget
<1>4. CASE UNCHANGED vars
  BY <1>4 DEF vars
<1> QED BY <1>1, <1>2, <1>3, <1>4, IInvMethod DEF Next

\* A method in progress holds an element that is in the table, with the kind
\* of accessor that its next step needs.
THEOREM AccessorsHold == Spec => []IInv
BY IInvInit, IInvStep, PTL DEF Spec
-----------------------------------------------------------------------------
\* The step of a method that finishes it is the moment it takes effect.
LEMMA MethodRefines ==
  ASSUME IInv, NEW t \in Threads, Method(t)
  PROVE  \/ /\ op[t] # NoOp
            /\ \/ AbstractMap!Do(t, op[t])
               \/ AbstractMap!Misses(t, op[t])
               \/ AbstractMap!KeepsOther(t, op[t])
         \/ UNCHANGED AbstractMap!vars
<1>0. op[t] # NoOp
  BY DEF Method, At, Insert, InsertAndAssignFind, InsertAndAssignStore,
     InsertAndAssignInsert, Find, FindWithValue, CopyValue, EraseFind,
     EraseFound, Subscript, AtKey
<1>a. stage \in [Threads -> {"called", "found", "missed"}]
  BY DEF IInv, TypeOK
<1> USE <1>0 DEF At, Return, Goto, Has, Inserted, AbstractMap!Do,
        AbstractMap!Takes, AbstractMap!InsertIfAbsent, AbstractMap!vars
\* Who has missed its key changes with t's stage only.
<1>b. ASSUME stage' = [stage EXCEPT ![t] = "called"]
      PROVE  {u \in Threads : stage'[u] = "missed"}
               = {u \in Threads : stage[u] = "missed"} \ {t}
  BY <1>a, <1>b
<1>c. ASSUME stage[t] = "called", stage' = [stage EXCEPT ![t] = "found"]
      PROVE  {u \in Threads : stage'[u] = "missed"}
               = {u \in Threads : stage[u] = "missed"}
  BY <1>a, <1>c
<1>d. ASSUME stage' = [stage EXCEPT ![t] = "missed"]
      PROVE  {u \in Threads : stage'[u] = "missed"}
               = {u \in Threads : stage[u] = "missed"} \cup {t}
  BY <1>a, <1>d
<1>1. CASE Insert(t)
  BY <1>1, <1>b DEF Insert, AbstractMap!Insert
<1>2. CASE InsertAndAssignFind(t)
  <2>1. CASE Has(op[t].key)
    BY <1>2, <2>1, <1>c DEF InsertAndAssignFind
  <2>2. CASE ~ Has(op[t].key)
    BY <1>2, <2>2, <1>d DEF InsertAndAssignFind, AbstractMap!Misses
  <2> QED BY <2>1, <2>2
<1>3. CASE InsertAndAssignStore(t)
  BY <1>3, <1>b DEF InsertAndAssignStore, AbstractMap!InsertOrAssign
<1>4. CASE InsertAndAssignInsert(t)
  BY <1>4, <1>b DEF InsertAndAssignInsert, AbstractMap!InsertOrAssign,
     AbstractMap!KeepsOther
<1>5. CASE Find(t)
  BY <1>5, <1>b DEF Find, AbstractMap!Find
<1>6. CASE FindWithValue(t)
  BY <1>6, <1>b, <1>c DEF FindWithValue, AbstractMap!FindWithValue
<1>7. CASE CopyValue(t)
  BY <1>7, <1>b DEF CopyValue, AbstractMap!FindWithValue
<1>8. CASE EraseFind(t)
  <2>1. CASE Has(op[t].key)
    BY <1>8, <2>1, <1>c DEF EraseFind
  <2>2. CASE ~ Has(op[t].key)
    <3> DEFINE k == op[t].key
    <3>1. (table_[k] # NoValue) = FALSE
      BY <2>2
    <3>2. /\ k \in Keys
          /\ table_ \in [Keys -> Values \cup {NoValue}]
          /\ ref \in [Threads -> Keys \cup {NoKey, Dangling}]
      BY InMethod DEF IInv, TypeOK
    <3>3. [table_ EXCEPT ![k] = NoValue] = table_
      BY <2>2, <3>2
    <3>4. \A u \in Threads : ref[u] # k
      BY <2>2, <3>2 DEF IInv
    <3>5. ref = [u \in Threads |-> IF ref[u] = k THEN Dangling ELSE ref[u]]
      BY <3>2, <3>4
    <3> QED
      BY <1>8, <1>b, <2>2, <3>1, <3>3, <3>5 DEF EraseFind, AbstractMap!Erase
  <2> QED BY <2>1, <2>2
<1>9. CASE EraseFound(t)
  <2>1. (table_[op[t].key] # NoValue) = TRUE
    BY <1>9 DEF EraseFound, IInv
  <2> QED BY <1>9, <1>b, <2>1 DEF EraseFound, AbstractMap!Erase
<1>10. CASE Subscript(t)
  BY <1>10, <1>b DEF Subscript, AbstractMap!Subscript
<1>11. CASE AtKey(t)
  BY <1>11, <1>b DEF AtKey, AbstractMap!At
<1> QED
  BY <1>1, <1>2, <1>3, <1>4, <1>5, <1>6, <1>7, <1>8, <1>9, <1>10, <1>11
  DEF Method

\* ConcurrentMap is a map whose operations take effect at one moment: an
\* insert_and_assign that finds its key assigns to it, and keeps another
\* thread's value only if it saw the key missing and that thread inserted it
\* since; a reference never leads to another element than its own.
THEOREM MapIsAtomic == Spec => ImplementsMap
<1>1. Init => AbstractMap!Init
  BY DEF Init, AbstractMap!Init
<1>2. IInv /\ [Next]_vars => [AbstractMap!Next]_(AbstractMap!vars)
  <2> SUFFICES ASSUME IInv, [Next]_vars
               PROVE  [AbstractMap!Next]_(AbstractMap!vars)
    OBVIOUS
  <2> USE DEF AbstractMap!Next, AbstractMap!vars
  <2>1. ASSUME NEW t \in Threads, NEW o \in Ops, Call(t, o)
        PROVE  AbstractMap!Next
    BY <2>1 DEF Call, AbstractMap!Call
  <2>2. ASSUME NEW t \in Threads, Method(t)
        PROVE  [AbstractMap!Next]_(AbstractMap!vars)
    BY <2>2, MethodRefines
  <2>3. ASSUME NEW t \in Threads, NEW v \in Values, WriteThrough(t, v)
        PROVE  AbstractMap!Next
    <3>1. table_[ref[t]] # NoValue
      BY <2>3 DEF WriteThrough, IInv, Has
    <3>2. AbstractMap!WriteThrough(t, v)
      BY <2>3, <3>1 DEF WriteThrough, AbstractMap!WriteThrough
    <3> QED BY <3>2
  <2>4. ASSUME NEW t \in Threads, Forget(t) PROVE AbstractMap!Next
    BY <2>4 DEF Forget, AbstractMap!Forget
  <2>5. ASSUME UNCHANGED vars PROVE UNCHANGED AbstractMap!vars
    BY <2>5 DEF vars
  <2> QED BY <2>1, <2>2, <2>3, <2>4, <2>5 DEF Next
<1> QED
  BY <1>1, <1>2, AccessorsHold, PTL DEF Spec, ImplementsMap, AbstractMap!Spec
=============================================================================
