----------------------------- MODULE ParallelFor -----------------------------
(***************************************************************************)
(* ParallelFor: a range of indices is cut into parts, each part is given   *)
(* to a thread of its own, and the caller waits for all of them.           *)
(* size_t arithmetic is modulo SizeMod.                                    *)
(***************************************************************************)
EXTENDS Integers, Sequences

CONSTANT SizeMod   \* one more than the largest size_t

ASSUME SizeModAssumption == SizeMod \in Nat \ {0}

VARIABLES
  first, last, partition_size,   \* the arguments
  i,         \* the start of the next part
  pc,        \* where the caller is
  tasks,     \* the parts, as <<first, last>>, in the order they were started
  finished,  \* the tasks whose call of func has returned
  joined     \* how many tasks the caller has joined

vars == <<first, last, partition_size, i, pc, tasks, finished, joined>>
arguments == <<first, last, partition_size>>

Sizes == 0..(SizeMod - 1)

\* A partition_size of 0 would start parts without end, and a part that ends
\* beyond the largest size_t would start over at small indices: callers stay
\* clear of both.
Init ==
  /\ first \in Sizes
  /\ last \in Sizes
  /\ partition_size \in Sizes \ {0}
  /\ last + partition_size <= SizeMod
  /\ i = 0
  /\ pc = "start"
  /\ tasks = <<>>
  /\ finished = {}
  /\ joined = 0

\* A range shorter than a part is handled by the caller itself.
CallInline ==
  /\ pc = "start"
  /\ (last - first) % SizeMod < partition_size
  /\ tasks' = <<<<first, last>>>>
  /\ finished' = {1}
  /\ pc' = "returned"
  /\ UNCHANGED <<arguments, i, joined>>

StartLoop ==
  /\ pc = "start"
  /\ (last - first) % SizeMod >= partition_size
  /\ i' = first
  /\ pc' = "loop"
  /\ UNCHANGED <<arguments, tasks, finished, joined>>

PartitionEnd ==
  LET end == (i + partition_size) % SizeMod IN
  IF end > last THEN last ELSE end

\* Mutant: the last index of a part is the first of the next one.
StartTaskOverlapping ==
  /\ pc = "loop"
  /\ i < last
  /\ tasks' = Append(tasks, <<i, PartitionEnd + 1>>)
  /\ i' = PartitionEnd
  /\ UNCHANGED <<arguments, pc, finished, joined>>

\* StartCoroFunc on the next part.
StartTask ==
  /\ pc = "loop"
  /\ i < last
  /\ tasks' = Append(tasks, <<i, PartitionEnd>>)
  /\ i' = PartitionEnd
  /\ UNCHANGED <<arguments, pc, finished, joined>>

EndLoop ==
  /\ pc = "loop"
  /\ i >= last
  /\ pc' = "join"
  /\ UNCHANGED <<arguments, i, tasks, finished, joined>>

\* A task calls func on its part.
RunTask(k) ==
  /\ k \notin finished
  /\ finished' = finished \cup {k}
  /\ UNCHANGED <<arguments, i, pc, tasks, joined>>

\* Mutant: join before the thread has ended.
JoinEarly ==
  /\ pc = "join"
  /\ joined < Len(tasks)
  /\ joined' = joined + 1
  /\ UNCHANGED <<arguments, i, pc, tasks, finished>>

\* Mutant: the first task is taken again and again.
JoinFirst ==
  /\ pc = "join"
  /\ joined < Len(tasks)
  /\ 1 \in finished
  /\ joined' = 1
  /\ UNCHANGED <<arguments, i, pc, tasks, finished>>

\* CoroJoin returns when the thread has ended.
Join ==
  /\ pc = "join"
  /\ joined < Len(tasks)
  /\ joined + 1 \in finished
  /\ joined' = joined + 1
  /\ UNCHANGED <<arguments, i, pc, tasks, finished>>

Return ==
  /\ pc = "join"
  /\ joined = Len(tasks)
  /\ pc' = "returned"
  /\ UNCHANGED <<arguments, i, tasks, finished, joined>>

Caller == CallInline \/ StartLoop \/ StartTask \/ EndLoop \/ Join \/ Return

Next == Caller \/ \E k \in DOMAIN tasks : RunTask(k)

Spec == Init /\ [][Next]_vars

\* The caller and every thread are scheduled.
FairSpec ==
  /\ Spec
  /\ WF_vars(Caller)
  /\ WF_vars(\E k \in DOMAIN tasks : RunTask(k))
-----------------------------------------------------------------------------
Part(k) == tasks[k][1] .. (tasks[k][2] - 1)

\* Two tasks never work on one index, even while they run.
PartsDisjoint ==
  \A j, k \in DOMAIN tasks : j # k => Part(j) \cap Part(k) = {}

\* When ParallelFor returns, func has been called for every index from first
\* to last, and for no other index.
AllDone ==
  pc = "returned" => UNION {Part(k) : k \in finished} = first .. (last - 1)

\* ParallelFor returns.
Returns == <>(pc = "returned")

TypeOK ==
  /\ first \in Sizes /\ last \in Sizes
  /\ partition_size \in Sizes \ {0}
  /\ i \in Sizes
  /\ pc \in {"start", "loop", "join", "returned"}
  /\ tasks \in Seq(Sizes \X Sizes)
  /\ finished \subseteq DOMAIN tasks
  /\ joined \in Nat

\* The parts follow one another, from first to i, and leave no gap.
Ordered ==
  \A k \in DOMAIN tasks :
    /\ first <= tasks[k][1] /\ tasks[k][2] <= i
    /\ \A j \in DOMAIN tasks : j < k => tasks[j][2] <= tasks[k][1]

Covered == \A x \in first .. (i - 1) : \E k \in DOMAIN tasks : x \in Part(k)

IInv ==
  /\ TypeOK
  /\ last + partition_size <= SizeMod
  /\ pc = "start" => tasks = <<>> /\ joined = 0
  /\ pc \in {"loop", "join"} =>
       /\ Ordered
       /\ Covered
       /\ first < i => i <= last
       /\ first <= i
  /\ pc = "join" => i >= last
  /\ pc = "returned" => finished = DOMAIN tasks
  /\ joined <= Len(tasks)
  /\ \A k \in 1..joined : k \in finished
  /\ PartsDisjoint
  /\ AllDone
=============================================================================
