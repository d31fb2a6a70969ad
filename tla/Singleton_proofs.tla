-------------------------- MODULE Singleton_proofs --------------------------
(***************************************************************************)
(* The singleton for any number of threads and handlers, when only main is *)
(* left during exit.  mutex_ has one owner, and its owner has seen         *)
(* instance_ null and found nothing alive; while DestroySingleton is       *)
(* registered there is an instance, so that nobody comes to register it a  *)
(* second time.                                                            *)
(***************************************************************************)
EXTENDS Singleton, FiniteSetTheorems, TLAPS

Locking    == {"revive", "create", "schedule"}
Destroying == {"destroy", "clear", "mark"}

Pending(hs) == \E i \in 1 .. Len(hs) : hs[i] = "DestroySingleton"

\* The owner of mutex_, and what it knows.
MutexInv ==
  \A t \in Threads :
    /\ pc[t] \in Locking <=> mutex_ = t
    /\ pc[t] \in {"revive", "create"} => instance_ = Null
    /\ pc[t] = "schedule" => instance_ # Null
    /\ pc[t] \in {"create", "schedule"} => ~ destroyed_

\* Handlers run in main, and main alone.
ExitInv ==
  /\ exiting => \A t \in Threads \ {main} : pc[t] = "idle"
  /\ ~ exiting => \A t \in Threads : pc[t] \notin Destroying \cup {"handler"}

AliveInv ==
  alive = IF instance_ = Null \/ pc[main] = "clear" THEN {} ELSE {instance_}

HeldInv ==
  \A t \in Threads :
    held[t] # Null => held[t] = instance_ /\ pc[main] \notin Destroying

\* Only one call of DestroySingleton is ahead.
PendingInv ==
  /\ Pending(handlers) =>
       /\ instance_ # Null /\ ~ destroyed_
       /\ \A t \in Threads : pc[t] \notin Locking \cup Destroying
  /\ \A i, j \in 1 .. Len(handlers) :
       handlers[i] = "DestroySingleton" /\ handlers[j] = "DestroySingleton" => i = j
  /\ pc[main] \in Destroying => ~ destroyed_
  /\ aborted # "destroyed twice"

\* Who destroys an instance that is to be destroyed.
OwedInv ==
  \/ instance_ = Null
  \/ destroyed_once_ \/ Lifetime = "NoDestroyLifetime"
  \/ Pending(handlers)
  \/ pc[main] \in {"destroy", "clear"}
  \/ \E t \in Threads : pc[t] = "schedule"

IInv == TypeOK /\ MutexInv /\ ExitInv /\ AliveInv /\ HeldInv /\ PendingInv /\ OwedInv

-----------------------------------------------------------------------------
LEMMA InitInv == Init => IInv
<1> SUFFICES ASSUME Init PROVE IInv
  OBVIOUS
<1> USE SingletonAssumption DEF Init
<1>1. TypeOK
  <2>1. handlers \in Seq({"DestroySingleton", "program"}) /\ registered \in 0 .. MaxHandlers
    OBVIOUS
  <2>2. /\ held \in [Threads -> Instances \cup {Null}]
        /\ pc \in [Threads -> {"idle", "handler", "lock", "revive", "create",
                               "schedule", "destroy", "clear", "mark"}]
    OBVIOUS
  <2> QED BY <2>1, <2>2 DEF TypeOK
<1>2. MutexInv
  BY DEF MutexInv, Locking
<1>3. ExitInv /\ AliveInv /\ HeldInv /\ OwedInv
  BY DEF ExitInv, AliveInv, HeldInv, OwedInv, Destroying
<1>4. PendingInv
  BY DEF PendingInv, Pending, Destroying
<1> QED BY <1>1, <1>2, <1>3, <1>4 DEF IInv

\* The handlers that are left, and one more.
LEMMA PendingAppend ==
  ASSUME NEW hs \in Seq({"DestroySingleton", "program"}),
         NEW h \in {"DestroySingleton", "program"}
  PROVE  /\ Append(hs, h) \in Seq({"DestroySingleton", "program"})
         /\ Len(Append(hs, h)) = Len(hs) + 1
         /\ \A i \in 1 .. Len(hs) : Append(hs, h)[i] = hs[i]
         /\ Append(hs, h)[Len(hs) + 1] = h
         /\ Pending(Append(hs, h)) <=> Pending(hs) \/ h = "DestroySingleton"
<1>1. /\ Append(hs, h) \in Seq({"DestroySingleton", "program"})
      /\ Len(Append(hs, h)) = Len(hs) + 1
      /\ \A i \in 1 .. Len(hs) : Append(hs, h)[i] = hs[i]
      /\ Append(hs, h)[Len(hs) + 1] = h
      /\ Len(hs) \in Nat
  OBVIOUS
<1> DEFINE more == Append(hs, h)
<1> HIDE DEF more
<1>2. \A i \in 1 .. Len(more) : i \in 1 .. Len(hs) \/ i = Len(hs) + 1
  BY <1>1 DEF more
<1>3. Pending(more) <=> Pending(hs) \/ h = "DestroySingleton"
  <2>1. CASE Pending(more)
    <3>1. PICK i \in 1 .. Len(more) : more[i] = "DestroySingleton"
      BY <2>1 DEF Pending
    <3>2. CASE i \in 1 .. Len(hs)
      BY <1>1, <2>1, <3>1, <3>2 DEF Pending, more
    <3>3. CASE i = Len(hs) + 1
      BY <1>1, <2>1, <3>1, <3>3 DEF more
    <3> QED BY <1>2, <3>2, <3>3
  <2>2. CASE Pending(hs)
    <3>1. PICK i \in 1 .. Len(hs) : hs[i] = "DestroySingleton"
      BY <2>2 DEF Pending
    <3>2. i \in 1 .. Len(more) /\ more[i] = "DestroySingleton"
      BY <1>1, <3>1 DEF more
    <3> QED BY <2>2, <3>2 DEF Pending
  <2>3. CASE h = "DestroySingleton"
    <3>1. Len(hs) + 1 \in 1 .. Len(more) /\ more[Len(hs) + 1] = "DestroySingleton"
      BY <1>1, <2>3 DEF more
    <3> QED BY <2>3, <3>1 DEF Pending
  <2> QED BY <2>1, <2>2, <2>3
<1> QED BY <1>1, <1>3 DEF more

LEMMA PendingRest ==
  ASSUME NEW hs \in Seq({"DestroySingleton", "program"}), hs # <<>>
  PROVE  LET rest == SubSeq(hs, 1, Len(hs) - 1) IN
         /\ rest \in Seq({"DestroySingleton", "program"})
         /\ Len(hs) \in 1 .. Len(hs)
         /\ Len(rest) = Len(hs) - 1
         /\ \A i \in 1 .. Len(rest) : i \in 1 .. Len(hs) /\ rest[i] = hs[i]
         /\ Pending(rest) => Pending(hs)
         /\ Pending(hs) => Pending(rest) \/ hs[Len(hs)] = "DestroySingleton"
<1> DEFINE rest == SubSeq(hs, 1, Len(hs) - 1)
<1>1. Len(hs) \in Nat /\ Len(hs) >= 1
  OBVIOUS
<1>2. /\ rest \in Seq({"DestroySingleton", "program"})
      /\ Len(rest) = Len(hs) - 1
      /\ \A i \in 1 .. Len(rest) : i \in 1 .. Len(hs) /\ rest[i] = hs[i]
  <2> DEFINE n == Len(hs) - 1
  <2>1. n \in 0 .. Len(hs)
    BY <1>1
  <2>2. /\ SubSeq(hs, 1, n) \in Seq({"DestroySingleton", "program"})
        /\ Len(SubSeq(hs, 1, n)) = n
        /\ \A i \in 1 .. n : SubSeq(hs, 1, n)[i] = hs[i]
    <3> HIDE DEF n
    <3> QED BY <2>1
  <2> QED BY <1>1, <2>1, <2>2
<1> HIDE DEF rest
<1>3. \A i \in 1 .. Len(hs) : i \in 1 .. Len(rest) \/ i = Len(hs)
  BY <1>1, <1>2
<1>4. Pending(rest) => Pending(hs)
  BY <1>2 DEF Pending
<1>5. Pending(hs) => Pending(rest) \/ hs[Len(hs)] = "DestroySingleton"
  BY <1>2, <1>3 DEF Pending
<1> QED BY <1>1, <1>2, <1>4, <1>5 DEF rest

-----------------------------------------------------------------------------
(* GetInstance.                                                            *)

LEMMA LoadStep ==
  ASSUME IInv, ~ ThreadsOutliveMain, NEW t \in Threads, Load(t)
  PROVE  IInv'
<1> USE SingletonAssumption DEF IInv, Load, Goto, Running, exitVars
<1>1. TypeOK'
  BY DEF TypeOK
<1>2. MutexInv'
  BY DEF TypeOK, MutexInv, ExitInv, PendingInv, Locking, Destroying
<1>3. ExitInv'
  BY DEF TypeOK, ExitInv, Destroying
<1>4. AliveInv'
  BY DEF TypeOK, MutexInv, ExitInv, AliveInv, Locking, Destroying
<1>5. HeldInv'
  BY DEF TypeOK, MutexInv, ExitInv, AliveInv, HeldInv, Locking, Destroying
<1>6. PendingInv'
  BY DEF TypeOK, MutexInv, ExitInv, PendingInv, Pending, Locking, Destroying
<1>7. OwedInv'
  BY DEF TypeOK, MutexInv, ExitInv, PendingInv, OwedInv, Pending, Locking
<1> QED BY <1>1, <1>2, <1>3, <1>4, <1>5, <1>6, <1>7

LEMMA LoadLockedStep ==
  ASSUME IInv, ~ ThreadsOutliveMain, NEW t \in Threads, LoadLocked(t)
  PROVE  IInv'
<1> USE SingletonAssumption DEF IInv, LoadLocked, Goto, Running, exitVars
<1>1. TypeOK'
  BY DEF TypeOK
<1>2. MutexInv'
  BY DEF TypeOK, MutexInv, ExitInv, PendingInv, Locking, Destroying
<1>3. ExitInv'
  BY DEF TypeOK, ExitInv, Destroying
<1>4. AliveInv'
  BY DEF TypeOK, MutexInv, ExitInv, AliveInv, Locking, Destroying
<1>5. HeldInv'
  BY DEF TypeOK, MutexInv, ExitInv, AliveInv, HeldInv, Locking, Destroying
<1>6. PendingInv'
  BY DEF TypeOK, MutexInv, ExitInv, PendingInv, Pending, Locking, Destroying
<1>7. OwedInv'
  BY DEF TypeOK, MutexInv, ExitInv, PendingInv, OwedInv, Pending, Locking
<1> QED BY <1>1, <1>2, <1>3, <1>4, <1>5, <1>6, <1>7

LEMMA ReviveStep ==
  ASSUME IInv, ~ ThreadsOutliveMain, NEW t \in Threads, Revive(t)
  PROVE  IInv'
<1> USE SingletonAssumption DEF IInv, Revive, Goto, Running, exitVars
<1>1. TypeOK'
  BY DEF TypeOK
<1>2. MutexInv'
  BY DEF TypeOK, MutexInv, ExitInv, PendingInv, Locking, Destroying
<1>3. ExitInv'
  BY DEF TypeOK, ExitInv, Destroying
<1>4. AliveInv'
  BY DEF TypeOK, MutexInv, ExitInv, AliveInv, Locking, Destroying
<1>5. HeldInv'
  BY DEF TypeOK, MutexInv, ExitInv, AliveInv, HeldInv, Locking, Destroying
<1>6. PendingInv'
  BY DEF TypeOK, MutexInv, ExitInv, PendingInv, Pending, Locking, Destroying
<1>7. OwedInv'
  BY DEF TypeOK, MutexInv, ExitInv, PendingInv, OwedInv, Pending, Locking
<1> QED BY <1>1, <1>2, <1>3, <1>4, <1>5, <1>6, <1>7

LEMMA CreateStep ==
  ASSUME IInv, ~ ThreadsOutliveMain, NEW t \in Threads, Create(t)
  PROVE  IInv'
<1> USE SingletonAssumption DEF IInv, Create, Goto, Running, exitVars
<1>1. TypeOK'
  BY DEF TypeOK
<1>2. MutexInv'
  BY DEF TypeOK, MutexInv, ExitInv, PendingInv, Locking, Destroying
<1>3. ExitInv'
  BY DEF TypeOK, ExitInv, Destroying
<1>4. AliveInv'
  BY DEF TypeOK, MutexInv, ExitInv, AliveInv, Locking, Destroying
<1>5. HeldInv'
  BY DEF TypeOK, MutexInv, ExitInv, AliveInv, HeldInv, Locking, Destroying
<1>6. PendingInv'
  BY DEF TypeOK, MutexInv, ExitInv, PendingInv, Pending, Locking, Destroying
<1>7. OwedInv'
  BY DEF TypeOK, MutexInv, ExitInv, PendingInv, OwedInv, Pending, Locking
<1> QED BY <1>1, <1>2, <1>3, <1>4, <1>5, <1>6, <1>7

LEMMA ScheduleStep ==
  ASSUME IInv, ~ ThreadsOutliveMain, NEW t \in Threads, Schedule(t)
  PROVE  IInv'
<1> USE SingletonAssumption DEF IInv, Schedule, Goto, Running, exitVars
<1>1. TypeOK'
  BY DEF TypeOK
<1>2. MutexInv'
  BY DEF TypeOK, MutexInv, ExitInv, PendingInv, Locking, Destroying
<1>3. ExitInv'
  BY DEF TypeOK, ExitInv, Destroying
<1>4. AliveInv'
  BY DEF TypeOK, MutexInv, ExitInv, AliveInv, Locking, Destroying
<1>5. HeldInv'
  BY DEF TypeOK, MutexInv, ExitInv, AliveInv, HeldInv, Locking, Destroying
<1>6. PendingInv'
  BY PendingAppend DEF TypeOK, MutexInv, ExitInv, PendingInv, Pending, Locking, Destroying
<1>7. OwedInv'
  BY PendingAppend DEF TypeOK, MutexInv, ExitInv, PendingInv, OwedInv, Locking, Schedules, Lifetimes
<1> QED BY <1>1, <1>2, <1>3, <1>4, <1>5, <1>6, <1>7

LEMMA RegisterStep ==
  ASSUME IInv, ~ ThreadsOutliveMain, NEW t \in Threads, Register(t)
  PROVE  IInv'
<1> USE SingletonAssumption DEF IInv, Register, Goto, Running, exitVars
<1>1. TypeOK'
  BY DEF TypeOK
<1>2. MutexInv'
  BY DEF TypeOK, MutexInv, ExitInv, PendingInv, Locking, Destroying
<1>3. ExitInv'
  BY DEF TypeOK, ExitInv, Destroying
<1>4. AliveInv'
  BY DEF TypeOK, MutexInv, ExitInv, AliveInv, Locking, Destroying
<1>5. HeldInv'
  BY DEF TypeOK, MutexInv, ExitInv, AliveInv, HeldInv, Locking, Destroying
<1>6. PendingInv'
  BY PendingAppend DEF TypeOK, MutexInv, ExitInv, PendingInv, Pending, Locking, Destroying
<1>7. OwedInv'
  BY PendingAppend DEF TypeOK, MutexInv, ExitInv, PendingInv, OwedInv, Locking
<1> QED BY <1>1, <1>2, <1>3, <1>4, <1>5, <1>6, <1>7

-----------------------------------------------------------------------------
(* exit.                                                                   *)

LEMMA ExitStep ==
  ASSUME IInv, ~ ThreadsOutliveMain, Exit
  PROVE  IInv'
<1> USE SingletonAssumption DEF IInv, Exit, Goto, Running, exitVars
<1>1. TypeOK'
  BY DEF TypeOK
<1>2. MutexInv'
  BY DEF TypeOK, MutexInv, ExitInv, PendingInv, Locking, Destroying
<1>3. ExitInv'
  BY DEF TypeOK, ExitInv, Destroying
<1>4. AliveInv'
  BY DEF TypeOK, MutexInv, ExitInv, AliveInv, Locking, Destroying
<1>5. HeldInv'
  BY DEF TypeOK, MutexInv, ExitInv, AliveInv, HeldInv, Locking, Destroying
<1>6. PendingInv'
  BY DEF TypeOK, MutexInv, ExitInv, PendingInv, Pending, Locking, Destroying
<1>7. OwedInv'
  BY DEF TypeOK, MutexInv, ExitInv, PendingInv, OwedInv, Pending, Locking
<1> QED BY <1>1, <1>2, <1>3, <1>4, <1>5, <1>6, <1>7

LEMMA RunHandlerStep ==
  ASSUME IInv, ~ ThreadsOutliveMain, RunHandler
  PROVE  IInv'
<1> USE SingletonAssumption DEF IInv, RunHandler, Goto, Running, exitVars
<1>1. TypeOK'
  BY DEF TypeOK
<1>2. MutexInv'
  BY DEF TypeOK, MutexInv, ExitInv, PendingInv, Locking, Destroying
<1>3. ExitInv'
  BY DEF TypeOK, ExitInv, Destroying
<1>4. AliveInv'
  BY DEF TypeOK, MutexInv, ExitInv, AliveInv, Locking, Destroying
<1>5. HeldInv'
  BY DEF TypeOK, MutexInv, ExitInv, AliveInv, HeldInv, Locking, Destroying
<1>6. PendingInv'
  BY PendingRest DEF TypeOK, MutexInv, ExitInv, PendingInv, Pending, Locking, Destroying
<1>7. OwedInv'
  BY PendingRest DEF TypeOK, MutexInv, ExitInv, PendingInv, OwedInv, Locking
<1> QED BY <1>1, <1>2, <1>3, <1>4, <1>5, <1>6, <1>7

LEMMA DestroyStep ==
  ASSUME IInv, ~ ThreadsOutliveMain, Destroy
  PROVE  IInv'
<1> USE SingletonAssumption DEF IInv, Destroy, Goto, Running, exitVars
<1>1. TypeOK'
  BY DEF TypeOK
<1>2. MutexInv'
  BY DEF TypeOK, MutexInv, ExitInv, PendingInv, Locking, Destroying
<1>3. ExitInv'
  BY DEF TypeOK, ExitInv, Destroying
<1>4. AliveInv'
  BY DEF TypeOK, MutexInv, ExitInv, AliveInv, Locking, Destroying
<1>5. HeldInv'
  BY DEF TypeOK, MutexInv, ExitInv, AliveInv, HeldInv, Locking, Destroying
<1>6. PendingInv'
  BY DEF TypeOK, MutexInv, ExitInv, PendingInv, Pending, Locking, Destroying
<1>7. OwedInv'
  BY DEF TypeOK, MutexInv, ExitInv, PendingInv, OwedInv, Pending, Locking
<1> QED BY <1>1, <1>2, <1>3, <1>4, <1>5, <1>6, <1>7

LEMMA ClearInstanceStep ==
  ASSUME IInv, ~ ThreadsOutliveMain, ClearInstance
  PROVE  IInv'
<1> USE SingletonAssumption DEF IInv, ClearInstance, Goto, Running, exitVars
<1>1. TypeOK'
  BY DEF TypeOK
<1>2. MutexInv'
  BY DEF TypeOK, MutexInv, ExitInv, PendingInv, Locking, Destroying
<1>3. ExitInv'
  BY DEF TypeOK, ExitInv, Destroying
<1>4. AliveInv'
  BY DEF TypeOK, MutexInv, ExitInv, AliveInv, Locking, Destroying
<1>5. HeldInv'
  BY DEF TypeOK, MutexInv, ExitInv, AliveInv, HeldInv, Locking, Destroying
<1>6. PendingInv'
  BY DEF TypeOK, MutexInv, ExitInv, PendingInv, Pending, Locking, Destroying
<1>7. OwedInv'
  BY DEF TypeOK, MutexInv, ExitInv, PendingInv, OwedInv, Pending, Locking
<1> QED BY <1>1, <1>2, <1>3, <1>4, <1>5, <1>6, <1>7

LEMMA MarkDestroyedStep ==
  ASSUME IInv, ~ ThreadsOutliveMain, MarkDestroyed
  PROVE  IInv'
<1> USE SingletonAssumption DEF IInv, MarkDestroyed, Goto, Running, exitVars
<1>1. TypeOK'
  BY DEF TypeOK
<1>2. MutexInv'
  BY DEF TypeOK, MutexInv, ExitInv, PendingInv, Locking, Destroying
<1>3. ExitInv'
  BY DEF TypeOK, ExitInv, Destroying
<1>4. AliveInv'
  BY DEF TypeOK, MutexInv, ExitInv, AliveInv, Locking, Destroying
<1>5. HeldInv'
  BY DEF TypeOK, MutexInv, ExitInv, AliveInv, HeldInv, Locking, Destroying
<1>6. PendingInv'
  BY DEF TypeOK, MutexInv, ExitInv, PendingInv, Pending, Locking, Destroying
<1>7. OwedInv'
  BY DEF TypeOK, MutexInv, ExitInv, PendingInv, OwedInv, Pending, Locking
<1> QED BY <1>1, <1>2, <1>3, <1>4, <1>5, <1>6, <1>7

LEMMA NextStep ==
  ASSUME IInv, ~ ThreadsOutliveMain, [Next]_vars
  PROVE  IInv'
<1>1. ASSUME NEW t \in Threads,
             \/ Load(t) \/ LoadLocked(t) \/ Revive(t) \/ Create(t) \/ Schedule(t)
             \/ Register(t)
      PROVE  IInv'
  BY <1>1, LoadStep, LoadLockedStep, ReviveStep, CreateStep, ScheduleStep, RegisterStep
<1>2. CASE Exit \/ RunHandler \/ Destroy \/ ClearInstance \/ MarkDestroyed
  BY <1>2, ExitStep, RunHandlerStep, DestroyStep, ClearInstanceStep, MarkDestroyedStep
<1>3. CASE UNCHANGED vars
  BY <1>3, ZenonT(40) DEF vars, IInv, TypeOK, MutexInv, ExitInv, AliveInv, HeldInv, PendingInv,
              OwedInv, Pending, Locking, Destroying
<1> QED BY <1>1, <1>2, <1>3 DEF Next

\* One thread at a time creates or destroys, and the instance that wants to be
\* destroyed has one DestroySingleton ahead.
THEOREM SingletonInvariance ==
  ASSUME ~ ThreadsOutliveMain
  PROVE  Spec => []IInv
<1>1. IInv /\ [Next]_vars => IInv'
  BY NextStep
<1> QED BY <1>1, InitInv, PTL DEF Spec

\* When the other threads are joined before exit: GetInstance gives all its
\* callers one instance, and nobody holds one that was destroyed.
THEOREM OneInstance ==
  ASSUME ~ ThreadsOutliveMain
  PROVE  Spec => []OneLiveInstance
<1>1. IInv => OneLiveInstance
  <2> SUFFICES ASSUME IInv PROVE OneLiveInstance
    OBVIOUS
  <2>1. alive = {} \/ alive = {instance_}
    BY DEF IInv, AliveInv
  <2>2. Cardinality(alive) <= 1
    <3>1. CASE alive = {}
      BY <3>1, FS_EmptySet
    <3>2. CASE alive = {instance_}
      BY <3>2, FS_Singleton
    <3> QED BY <2>1, <3>1, <3>2
  <2>3. ASSUME NEW t \in Threads, held[t] # Null
        PROVE  held[t] \in alive
    BY <2>3 DEF IInv, AliveInv, HeldInv, Destroying
  <2> QED BY <2>2, <2>3 DEF OneLiveInstance
<1> QED BY <1>1, SingletonInvariance, PTL

\* DestroySingleton never meets its assertion: it is not registered again
\* while it is registered, and an instance that is created after it has run
\* makes destroyed_ false again.
THEOREM NeverDestroyedTwice ==
  ASSUME ~ ThreadsOutliveMain
  PROVE  Spec => []DestroyedOnce
<1>1. IInv => DestroyedOnce
  BY DEF IInv, PendingInv, DestroyedOnce
<1> QED BY <1>1, SingletonInvariance, PTL

\* Once exit has run all handlers no instance is left that a policy destroys.
THEOREM NothingLeft ==
  ASSUME ~ ThreadsOutliveMain
  PROVE  Spec => []DestroyedAtExit
<1>1. IInv => DestroyedAtExit
  <2> SUFFICES ASSUME IInv, handlers = <<>>, \A t \in Threads : pc[t] = "idle"
               PROVE  alive = {} \/ destroyed_once_ \/ Lifetime = "NoDestroyLifetime"
    BY DEF DestroyedAtExit
  <2>1. ~ Pending(handlers)
    BY DEF Pending
  <2>2. pc[main] = "idle"
    BY SingletonAssumption
  <2>3. instance_ = Null \/ destroyed_once_ \/ Lifetime = "NoDestroyLifetime"
    BY <2>1, <2>2 DEF IInv, OwedInv
  <2> QED BY <2>3 DEF IInv, AliveInv
<1> QED BY <1>1, SingletonInvariance, PTL
=============================================================================
