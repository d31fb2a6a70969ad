------------------------- MODULE ParallelFor_proofs -------------------------
(* Theorems about ParallelFor, for every width of size_t and all arguments  *)
(* that stay clear of the wrap-around.                                      *)
EXTENDS ParallelFor, TLAPS

USE SizeModAssumption

LEMMA IInvInit == ASSUME Init PROVE IInv
BY DEF Init, IInv, TypeOK, PartsDisjoint, AllDone, Sizes, Part

\* The next part ends after i, at last at the latest.
LEMMA PartitionEndBounds ==
  ASSUME IInv, pc = "loop", i < last
  PROVE  PartitionEnd \in Sizes /\ i < PartitionEnd /\ PartitionEnd <= last
<1>1. /\ i \in Nat /\ last \in Nat /\ partition_size \in Nat
      /\ partition_size > 0 /\ SizeMod \in Nat
      /\ last + partition_size <= SizeMod /\ last < SizeMod
  BY DEF IInv, TypeOK, Sizes
<1>2. (i + partition_size) % SizeMod = i + partition_size
  BY <1>1
<1> QED BY <1>1, <1>2 DEF PartitionEnd, Sizes

LEMMA StartTaskStep == ASSUME IInv, StartTask PROVE IInv'
<1>n. PICK n \in Nat : n = Len(tasks) + 1
  BY DEF IInv, TypeOK
<1>0. /\ pc = "loop" /\ i < last /\ pc' = pc /\ i' = PartitionEnd
      /\ UNCHANGED <<first, last, partition_size, finished, joined>>
  BY DEF StartTask, arguments
<1>1. PartitionEnd \in Sizes /\ i < PartitionEnd /\ PartitionEnd <= last
  BY <1>0, PartitionEndBounds
<1>2. /\ tasks \in Seq(Sizes \X Sizes) /\ Len(tasks) \in Nat
      /\ i \in Sizes /\ first \in Sizes /\ last \in Sizes
      /\ Sizes \subseteq Int
  BY DEF IInv, TypeOK, Sizes
<1>3. /\ tasks' \in Seq(Sizes \X Sizes)
      /\ DOMAIN tasks' = DOMAIN tasks \cup {n}
      /\ \A k \in DOMAIN tasks : tasks'[k] = tasks[k]
      /\ tasks'[n] = <<i, PartitionEnd>>
      /\ n \notin DOMAIN tasks
      /\ \A k \in DOMAIN tasks : k \in Nat /\ k < n
      /\ Len(tasks') = n
  BY <1>n, <1>1, <1>2 DEF StartTask
<1>4. TypeOK'
  BY <1>0, <1>1, <1>3 DEF IInv, TypeOK
<1>5. Ordered /\ Covered /\ first <= i
  BY <1>0 DEF IInv
<1>6. \A k \in DOMAIN tasks : /\ tasks[k][1] \in Int /\ tasks[k][2] \in Int
                              /\ first <= tasks[k][1] /\ tasks[k][2] <= i
  <2>1. \A k \in DOMAIN tasks : tasks[k] \in Sizes \X Sizes
    BY <1>2
  <2>2. \A k \in DOMAIN tasks : tasks[k][1] \in Sizes /\ tasks[k][2] \in Sizes
    BY <2>1
  <2> QED BY <1>2, <1>5, <2>2 DEF Ordered, Covered
<1>7. \A k \in DOMAIN tasks' :
        /\ first <= tasks'[k][1] /\ tasks'[k][2] <= i'
        /\ \A j \in DOMAIN tasks' : j < k => tasks'[j][2] <= tasks'[k][1]
  <2>1. \A k \in DOMAIN tasks :
          first <= tasks'[k][1] /\ tasks'[k][2] <= i'
    <3> TAKE k \in DOMAIN tasks
    <3>1. tasks'[k] = tasks[k]
      BY <1>3
    <3>2. /\ tasks[k][2] \in Int /\ i \in Int /\ i' \in Int
          /\ first <= tasks[k][1] /\ tasks[k][2] <= i /\ i < i'
      BY <1>0, <1>1, <1>2, <1>6
    <3> QED BY <3>1, <3>2
  <2>2. first <= tasks'[n][1] /\ tasks'[n][2] <= i'
    BY <1>0, <1>1, <1>2, <1>3, <1>5
  <2>3. \A j, k \in DOMAIN tasks : j < k => tasks'[j][2] <= tasks'[k][1]
    BY <1>3, <1>5 DEF Ordered, Covered
  <2>4. \A j \in DOMAIN tasks : tasks'[j][2] <= tasks'[n][1]
    BY <1>3, <1>6
  <2>5. \A k \in DOMAIN tasks : ~ (n < k)
    BY <1>2, <1>3
  <2> QED BY <1>2, <1>3, <2>1, <2>2, <2>3, <2>4, <2>5
<1>8. \A x \in first' .. (i' - 1) : \E k \in DOMAIN tasks' : x \in Part(k)'
  <2>1. TAKE x \in first' .. (i' - 1)
  <2>2. CASE x < i
    <3>1. PICK k \in DOMAIN tasks : x \in Part(k)
      <4>1. x \in first .. (i - 1)
        BY <1>0, <1>1, <1>2, <2>2
      <4> QED BY <1>5, <4>1 DEF Covered
    <3> QED BY <1>3, <3>1 DEF Part
  <2>3. CASE x >= i
    <3>1. x \in Part(n)'
      BY <1>0, <1>1, <1>2, <1>3, <2>3 DEF Part
    <3> QED BY <1>3, <3>1
  <2> QED BY <1>0, <1>1, <1>2, <2>2, <2>3
<1>9. PartsDisjoint'
  <2>1. \A j, k \in DOMAIN tasks : j # k => Part(j)' \cap Part(k)' = {}
    BY <1>3 DEF IInv, PartsDisjoint, Part
  <2>2. \A j \in DOMAIN tasks : Part(j)' \cap Part(n)' = {}
    BY <1>1, <1>2, <1>3, <1>6 DEF Part
  <2> QED BY <1>3, <2>1, <2>2 DEF PartsDisjoint
<1>10. Ordered'
  BY <1>0, <1>7 DEF Ordered
<1>14. Covered'
  BY <1>0, <1>8 DEF Covered, Part
<1>11. (first < i => i <= last)' /\ (first <= i)'
  BY <1>0, <1>1, <1>2, <1>5
<1>12. joined \in Nat /\ (joined <= Len(tasks))'
  BY <1>n, <1>0, <1>3 DEF IInv, TypeOK
<1>13. (last + partition_size <= SizeMod)' /\ (\A k \in 1..joined : k \in finished)'
  BY <1>0 DEF IInv
<1> QED
  BY <1>0, <1>4, <1>9, <1>10, <1>14, <1>11, <1>12, <1>13 DEF IInv, AllDone

\* Every task has been joined, and the loop ended at last.
LEMMA ReturnStep == ASSUME IInv, Return PROVE IInv'
<1>0. /\ pc = "join" /\ joined = Len(tasks) /\ pc' = "returned"
      /\ UNCHANGED <<arguments, i, tasks, finished, joined>>
  BY DEF Return
<1>1. /\ tasks \in Seq(Sizes \X Sizes) /\ DOMAIN tasks = 1..Len(tasks)
      /\ joined = Len(tasks)
      /\ i \in Int /\ first \in Int /\ last \in Int /\ Sizes \subseteq Int
  BY <1>0 DEF IInv, TypeOK, Sizes
<1>2. finished = DOMAIN tasks
  BY <1>1 DEF IInv, TypeOK
<1>3. /\ Ordered /\ Covered /\ i >= last /\ first <= i
      /\ first < i => i <= last
  BY <1>0 DEF IInv
<1>4. \A k \in finished : Part(k) \subseteq first .. (last - 1)
  <2>1. TAKE k \in finished
  <2>3. tasks[k] \in Sizes \X Sizes
    <3>1. k \in 1..Len(tasks)
      BY <1>1, <1>2, <2>1
    <3> QED BY <1>1, <3>1
  <2>2. /\ first <= tasks[k][1] /\ tasks[k][2] <= i
        /\ tasks[k][1] \in Int /\ tasks[k][2] \in Int
    BY <1>1, <1>2, <1>3, <2>3 DEF Ordered, Covered
  <2> QED BY <1>1, <1>3, <2>2 DEF Part
<1>5. \A x \in first .. (last - 1) : \E k \in finished : x \in Part(k)
  BY <1>1, <1>2, <1>3 DEF Ordered, Covered
<1>6. UNION {Part(k) : k \in finished} = first .. (last - 1)
  BY <1>4, <1>5
<1> QED BY <1>0, <1>2, <1>6 DEF IInv, TypeOK, PartsDisjoint, AllDone, Part,
        arguments

LEMMA IInvStep == ASSUME IInv, [Next]_vars PROVE IInv'
<1>1. CASE CallInline
  <2>1. /\ tasks' = <<<<first, last>>>> /\ DOMAIN tasks' = {1}
        /\ finished' = {1} /\ pc' = "returned" /\ joined' = 0
        /\ UNCHANGED <<first, last, partition_size, i>>
    BY <1>1 DEF CallInline, arguments, IInv
  <2>2. first \in Sizes /\ last \in Sizes
    BY DEF IInv, TypeOK
  <2>3. tasks' \in Seq(Sizes \X Sizes)
    BY <2>1, <2>2
  <2>4. Part(1)' = first .. (last - 1)
    BY <2>1 DEF Part
  <2>5. AllDone' /\ PartsDisjoint'
    BY <2>1, <2>4 DEF AllDone, PartsDisjoint
  <2> QED BY <2>1, <2>3, <2>5 DEF IInv, TypeOK
<1>2. CASE StartLoop
  <2>1. /\ pc = "start" /\ pc' = "loop" /\ i' = first /\ tasks' = tasks
        /\ tasks = <<>> /\ joined = 0
        /\ UNCHANGED <<first, last, partition_size, finished, joined>>
    BY <1>2 DEF StartLoop, arguments, IInv
  <2>2. first \in Int
    BY DEF IInv, TypeOK, Sizes
  <2>3. Ordered' /\ Covered'
    BY <2>1, <2>2 DEF Ordered, Covered
  <2> QED BY <2>1, <2>2, <2>3 DEF IInv, TypeOK, PartsDisjoint, AllDone, Part
<1>3. CASE StartTask
  BY <1>3, StartTaskStep
<1>4. CASE EndLoop
  BY <1>4 DEF EndLoop, IInv, TypeOK, Ordered, Covered, PartsDisjoint, AllDone, Part,
     arguments
<1>5. CASE Join
  <2>1. joined' = joined + 1 /\ joined + 1 \in finished /\ pc = "join"
    BY <1>5 DEF Join
  <2>2. joined \in Nat /\ tasks \in Seq(Sizes \X Sizes)
    BY DEF IInv, TypeOK
  <2>3. \A k \in 1..(joined + 1) : k \in finished
    BY <2>1, <2>2 DEF IInv
  <2> QED BY <1>5, <2>1, <2>2, <2>3 DEF Join, IInv, TypeOK, Ordered, Covered,
          PartsDisjoint, AllDone, Part, arguments
<1>6. CASE Return
  BY <1>6, ReturnStep
<1>7. ASSUME NEW k \in DOMAIN tasks, RunTask(k) PROVE IInv'
  <2>1. pc # "returned"
    BY <1>7 DEF RunTask, IInv
  <2> QED BY <1>7, <2>1 DEF RunTask, IInv, TypeOK, Ordered, Covered, PartsDisjoint,
          AllDone, Part, arguments
<1>8. CASE UNCHANGED vars
  BY <1>8 DEF vars, IInv, TypeOK, Ordered, Covered, PartsDisjoint, AllDone, Part
<1> QED
  BY <1>1, <1>2, <1>3, <1>4, <1>5, <1>6, <1>7, <1>8 DEF Next, Caller

\* The parts started so far are a partition of the indices before i.
THEOREM Invariance == Spec => []IInv
BY IInvInit, IInvStep, PTL DEF Spec

\* No two tasks share an index, at any moment.
THEOREM TasksAreDisjoint == Spec => []PartsDisjoint
<1>1. IInv => PartsDisjoint
  BY DEF IInv
<1> QED BY <1>1, Invariance, PTL

\* ParallelFor returns after func was called for exactly the indices asked.
THEOREM EveryIndexDone == Spec => []AllDone
<1>1. IInv => AllDone
  BY DEF IInv
<1> QED BY <1>1, Invariance, PTL
=============================================================================
