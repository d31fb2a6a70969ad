------------------------ MODULE ReloadWatchdog_proofs ------------------------
(* Theorems about ReloadWatchdog, for any files, paths, callers and bounds. *)
EXTENDS ReloadInvariant, TLAPS

USE FilesAssumption, ThreadsAssumption, BoundsAssumption

LockedInv == TypeOK /\ LockInv

LEMMA LockedInit == ASSUME Init PROVE LockedInv
<1>1. TypeOK
  <2>1. 1 \in Times /\ 0 \in Times /\ 1 \in Versions /\ 0 \in Versions
    BY DEF Times, Versions
  <2> QED BY <2>1 DEF Init, TypeOK, Threads, Statuses
<1>2. LockInv
  BY DEF Init, LockInv, InTryLoad, Threads
<1> QED BY <1>1, <1>2 DEF LockedInv

\* The steps of TryLoad keep the lock; they need the file to be known.
LEMMA LockedTryLoad ==
  ASSUME LockedInv, NEW t \in Threads, TryLoad(t) PROVE LockedInv'
<1>0. file[t] \in Files
  BY DEF LockedInv, LockInv, TypeOK, TryLoad, StatFails, Unchanged, StartLoad,
         ReadFile, LoadFails, LoadSucceeds, Threads, InTryLoad
<1>1. CASE StatFails(t)
  BY <1>0, <1>1 DEF LockedInv, LockInv, TypeOK, InTryLoad, StatFails,
     AfterTryLoad, Threads, dogVars, clockVars
<1>2. CASE Unchanged(t)
  BY <1>0, <1>2 DEF LockedInv, LockInv, TypeOK, InTryLoad, Unchanged,
     AfterTryLoad, Threads, dogVars, clockVars
<1>3. CASE StartLoad(t)
  BY <1>0, <1>3 DEF LockedInv, LockInv, TypeOK, InTryLoad, StartLoad,
     Statuses, Threads, dogVars, clockVars
<1>4. CASE ReadFile(t)
  BY <1>0, <1>4 DEF LockedInv, LockInv, TypeOK, InTryLoad, ReadFile,
     Versions, Threads, dogVars, clockVars, fileVars
<1>5. CASE LoadFails(t)
  BY <1>0, <1>5 DEF LockedInv, LockInv, TypeOK, InTryLoad, LoadFails,
     AfterTryLoad, ForgetLocals, Statuses, Times, Versions, Threads, dogVars,
     clockVars
<1>6. CASE LoadSucceeds(t)
  BY <1>0, <1>6 DEF LockedInv, LockInv, TypeOK, InTryLoad, LoadSucceeds,
     AfterTryLoad, ForgetLocals, Statuses, Times, Versions, Threads, dogVars,
     clockVars
<1> QED BY <1>1, <1>2, <1>3, <1>4, <1>5, <1>6 DEF TryLoad

LEMMA LockedRun == ASSUME LockedInv, Run PROVE LockedInv'
<1>1. CASE StopRunning
  BY <1>1 DEF LockedInv, LockInv, TypeOK, InTryLoad, StopRunning,
     SharedLockable, Threads, dogVars, clockVars, fileVars
<1>2. CASE StartScan
  BY <1>2 DEF LockedInv, LockInv, TypeOK, InTryLoad, StartScan,
     SharedLockable, Threads, dogVars, clockVars, fileVars
<1>3. CASE EndScan
  BY <1>3 DEF LockedInv, LockInv, TypeOK, InTryLoad, EndScan,
     Threads, dogVars, clockVars, fileVars
<1>4. ASSUME NEW f \in Files, ScanFile(f) PROVE LockedInv'
  BY <1>4 DEF LockedInv, LockInv, TypeOK, InTryLoad, ScanFile,
     Threads, dogVars, clockVars, fileVars
<1> QED BY <1>1, <1>2, <1>3, <1>4 DEF Run

LEMMA LockedCaller ==
  ASSUME LockedInv, NEW c \in Callers,
         CallerCalls(c) \/ CallerAcquires(c) \/ WatchAdd(c)
  PROVE  LockedInv'
<1>1. ASSUME NEW f \in Files, WatchCheck(c, f) PROVE LockedInv'
  BY <1>1 DEF LockedInv, LockInv, TypeOK, InTryLoad, WatchCheck,
     SharedLockable, Threads, dogVars, clockVars, fileVars
<1>2. ASSUME NEW op \in {"cancel", "stop"}, Call(c, op) PROVE LockedInv'
  BY <1>2 DEF LockedInv, LockInv, TypeOK, InTryLoad, Call, Threads, dogVars,
     clockVars, fileVars
<1>3. CASE WatchLock(c)
  BY <1>3 DEF LockedInv, LockInv, TypeOK, InTryLoad, WatchLock,
     UniqueLockable, Threads, dogVars, clockVars, fileVars
<1>4. ASSUME NEW p \in Paths, Cancel(c, p) PROVE LockedInv'
  BY <1>4 DEF LockedInv, LockInv, TypeOK, InTryLoad, Cancel, UniqueLockable,
     Threads, dogVars, clockVars, fileVars
<1>5. CASE Stop(c)
  BY <1>5 DEF LockedInv, LockInv, TypeOK, InTryLoad, Stop, UniqueLockable,
     Threads, dogVars, clockVars, fileVars
<1>6. CASE WatchAdd(c)
  BY <1>6 DEF LockedInv, LockInv, TypeOK, InTryLoad, WatchAdd, Threads,
     dogVars, clockVars, fileVars
<1> QED BY <1>1, <1>2, <1>3, <1>4, <1>5, <1>6 DEF CallerCalls, CallerAcquires

LEMMA LockedWorld == ASSUME LockedInv, World PROVE LockedInv'
<1>1. CASE Tick
  BY <1>1 DEF LockedInv, LockInv, TypeOK, InTryLoad, Tick, Times, dogVars,
     fileVars
<1>2. ASSUME NEW p \in Paths, Write(p) PROVE LockedInv'
  BY <1>2 DEF LockedInv, LockInv, TypeOK, InTryLoad, Write, Stamps, Times,
     Versions, dogVars, fileVars
<1>3. ASSUME NEW p \in Paths, Remove(p) PROVE LockedInv'
  <2> DEFINE D == [exists : BOOLEAN, mtime : Times, version : Versions,
                   valid : BOOLEAN]
  <2>0. disk \in [Paths -> D]
    BY DEF LockedInv, TypeOK
  <2>2. [disk[p] EXCEPT !.exists = FALSE] \in D
    BY <2>0
  <2>1. disk' \in [Paths -> D]
    <3> HIDE DEF D
    <3> QED BY <1>3, <2>0, <2>2 DEF Remove
  <2> QED
    BY <1>3, <2>1 DEF LockedInv, LockInv, TypeOK, InTryLoad, Remove, dogVars,
       fileVars
<1> QED BY <1>1, <1>2, <1>3 DEF World

LEMMA LockedStep == ASSUME LockedInv, [Next]_vars PROVE LockedInv'
<1>1. CASE UNCHANGED vars
  BY <1>1 DEF LockedInv, LockInv, TypeOK, InTryLoad, vars
<1> QED BY <1>1, LockedWorld, LockedRun, LockedTryLoad, LockedCaller DEF Next

\* Threads take turns on the files: files_lock_ keeps its promise.
THEOREM LockedInvariance == Spec => []LockedInv
<1>1. LockedInv /\ [Next]_vars => LockedInv'
  BY LockedStep
<1> QED BY <1>1, LockedInit, PTL DEF Spec

\* ReloadWatchdog is well typed.
THEOREM TypeCorrect == Spec => []TypeOK
<1>1. LockedInv => TypeOK
  BY DEF LockedInv
<1> QED BY <1>1, LockedInvariance, PTL

\* No ReloadableFile is loaded by two threads at a time, so that TryLoad,
\* Load and its DoubleBuffer need no lock of their own.
THEOREM LoadsAreSerialized == Spec => []LoadsSerialized
<1>1. LockedInv => LoadsSerialized
  BY DEF LockedInv, TypeOK, LockInv, LoadsSerialized, Loading, InTryLoad,
         Threads
<1> QED BY <1>1, LockedInvariance, PTL

\* After Cancel or Stop returned, the watchdog loads the file no more, nor calls
\* its callbacks; only a Watch can.
THEOREM OnlyWatchedAreLoaded == Spec => []OnlyWatchedLoaded
<1>1. LockedInv => OnlyWatchedLoaded
  BY DEF LockedInv, TypeOK, LockInv, OnlyWatchedLoaded, InTryLoad, Threads
<1> QED BY <1>1, LockedInvariance, PTL
-----------------------------------------------------------------------------
(* What follows is for files that are never written twice in a second, nor  *)
(* put back with an older time: the counterexamples of the other WriteTimes *)
(* are runs of their own.                                                   *)

LEMMA TimeInit == ASSUME Init PROVE TimeInv
BY DEF Init, TimeInv, Threads

\* A step that leaves the files, their objects and the locals of TryLoad
\* alone, and moves no thread into or inside TryLoad, cannot matter.
LEMMA TimeElsewhere ==
  ASSUME TimeInv, TypeOK,
         UNCHANGED <<clockVars, statTime, content, fileVars>>,
         \A t \in Threads : pc'[t] \in {"load", "publish"} =>
           pc'[t] = pc[t] /\ file'[t] = file[t]
  PROVE  TimeInv'
BY DEF TimeInv, TypeOK, clockVars, fileVars

LEMMA TimeRun == ASSUME LockedInv, TimeInv, Run PROVE TimeInv'
<1>0. TypeOK /\ LockInv
  BY DEF LockedInv
<1>1. /\ UNCHANGED <<clockVars, statTime, content, fileVars>>
      /\ \A t \in Threads : pc'[t] \in {"load", "publish"} =>
           pc'[t] = pc[t] /\ file'[t] = file[t]
  BY <1>0 DEF Run, StopRunning, StartScan, EndScan, ScanFile, TypeOK, Threads
<1> QED BY <1>0, <1>1, TimeElsewhere

LEMMA TimeCaller ==
  ASSUME LockedInv, TimeInv, NEW c \in Callers,
         CallerCalls(c) \/ CallerAcquires(c) \/ WatchAdd(c)
  PROVE  TimeInv'
<1>0. TypeOK /\ LockInv
  BY DEF LockedInv
<1>1. /\ UNCHANGED <<clockVars, statTime, content, fileVars>>
      /\ \A t \in Threads : pc'[t] \in {"load", "publish"} =>
           pc'[t] = pc[t] /\ file'[t] = file[t]
  BY <1>0 DEF CallerCalls, WatchCheck, Call, CallerAcquires, WatchLock, Cancel,
     Stop, WatchAdd, TypeOK, Threads
<1> QED BY <1>0, <1>1, TimeElsewhere

\* Time passes, and a write is later than every stat and every load so far.
LEMMA TimeWorld ==
  ASSUME WriteTimes = "later", LockedInv, TimeInv, World PROVE TimeInv'
<1> USE DEF LockedInv, TypeOK, LockInv, InTryLoad, Times, Versions, Threads
<1>0. \A t \in Threads : pc[t] \in {"load", "publish"} => file[t] \in Files
  OBVIOUS
<1>1. CASE Tick
  BY <1>0, <1>1 DEF TimeInv, Tick, dogVars, fileVars
<1>2. ASSUME NEW p \in Paths, Write(p) PROVE TimeInv'
  <2>1. PICK m \in 1..now, ok \in BOOLEAN :
          /\ m = now
          /\ disk[p].mtime < m
          /\ disk' = [disk EXCEPT ![p] = [exists  |-> TRUE,
                                         mtime   |-> m,
                                         version |-> @.version + 1,
                                         valid   |-> ok]]
    BY <1>2 DEF Write, Stamps
  <2>2. \A q \in Paths :
          \/ disk'[q] = disk[q]
          \/ /\ disk'[q].mtime = now
             /\ disk[q].mtime < now
    BY <2>1
  <2>3. UNCHANGED <<now, pc, file, statTime, content, fileVars>>
    BY <1>2 DEF Write
  <2>4. \A q \in Paths : disk'[q].mtime <= now'
    BY <2>2, <2>3 DEF TimeInv
  <2>5. \A f \in Files :
          LET d == disk'[PathOf[f]] IN
          /\ update_time'[f] <= d.mtime
          /\ loaded'[f] # d.version => update_time'[f] < d.mtime
          /\ status_'[f] = "kLoadFailedStatusType"
               => reported'[f] = "failed" /\ update_time'[f] < d.mtime
    BY <2>2, <2>3 DEF TimeInv, fileVars
  <2>6. \A t \in Threads :
          LET d == disk'[PathOf[file'[t]]] IN
          pc'[t] \in {"load", "publish"} =>
            /\ update_time'[file'[t]] < statTime'[t]
            /\ statTime'[t] <= d.mtime
            /\ /\ pc'[t] = "publish"
               /\ content'[t] # 0
               /\ content'[t] # d.version
               => statTime'[t] < d.mtime
    BY <1>0, <2>2, <2>3 DEF TimeInv, fileVars
  <2> QED BY <2>4, <2>5, <2>6 DEF TimeInv
<1>3. ASSUME NEW p \in Paths, Remove(p) PROVE TimeInv'
  <2>1. \A q \in Paths : /\ disk'[q].mtime = disk[q].mtime
                         /\ disk'[q].version = disk[q].version
    BY <1>3 DEF Remove
  <2> QED BY <1>0, <1>3, <2>1 DEF TimeInv, Remove, fileVars
<1> QED BY <1>1, <1>2, <1>3 DEF World

\* A thread in TryLoad is alone there, so that the file it changes is not the
\* file of another one.
LEMMA TimeTryLoad ==
  ASSUME LockedInv, TimeInv, NEW t \in Threads, TryLoad(t) PROVE TimeInv'
<1> USE DEF LockedInv, TypeOK, LockInv, InTryLoad, Times, Versions, Threads
<1>0. /\ file[t] \in Files
      /\ \A u \in Threads \ {t} : pc[u] \notin {"load", "publish"}
  BY DEF TryLoad, StatFails, Unchanged, StartLoad, ReadFile, LoadFails,
         LoadSucceeds
<1>1. CASE StatFails(t)
  BY <1>0, <1>1 DEF TimeInv, StatFails, AfterTryLoad, clockVars
<1>2. CASE Unchanged(t)
  BY <1>0, <1>2 DEF TimeInv, Unchanged, AfterTryLoad, clockVars
<1>3. CASE StartLoad(t)
  BY <1>0, <1>3 DEF TimeInv, StartLoad, clockVars
<1>4. CASE ReadFile(t)
  BY <1>0, <1>4 DEF TimeInv, ReadFile, clockVars, fileVars
<1>5. CASE LoadFails(t)
  BY <1>0, <1>5 DEF TimeInv, LoadFails, AfterTryLoad, ForgetLocals, clockVars
<1>6. CASE LoadSucceeds(t)
  BY <1>0, <1>6 DEF TimeInv, LoadSucceeds, AfterTryLoad, ForgetLocals,
     clockVars
<1> QED BY <1>1, <1>2, <1>3, <1>4, <1>5, <1>6 DEF TryLoad

\* If every write has a later second than the one before, update_time and what a
\* TryLoad in progress has seen agree with the file on disk as IInv says.
THEOREM Invariance == ASSUME WriteTimes = "later" PROVE Spec => []IInv
<1>1. Init => TimeInv
  BY TimeInit
<1>2. LockedInv /\ TimeInv /\ [Next]_vars => TimeInv'
  <2>1. ASSUME LockedInv, TimeInv, UNCHANGED vars PROVE TimeInv'
    BY <2>1 DEF TimeInv, vars
  <2> QED BY <2>1, TimeWorld, TimeRun, TimeTryLoad, TimeCaller DEF Next
<1>3. LockedInv /\ TimeInv => IInv
  BY DEF LockedInv, IInv
<1> QED BY <1>1, <1>2, <1>3, LockedInvariance, PTL DEF Spec

\* No change of a file is lost on the watchdog, whatever the interleaving of
\* writes with stat and read.
THEOREM NoChangeIsLost ==
  ASSUME WriteTimes = "later" PROVE Spec => []ChangeDetectable
<1>1. IInv => ChangeDetectable
  BY DEF IInv, TimeInv, TypeOK, Times, Versions, ChangeDetectable
<1> QED BY <1>1, Invariance, PTL

\* successfull_cb is never the last word on a file that failed to load.
THEOREM SuccessIsReal ==
  ASSUME WriteTimes = "later" PROVE Spec => []SuccessReported
<1>1. IInv => SuccessReported
  BY DEF IInv, TimeInv, SuccessReported
<1> QED BY <1>1, Invariance, PTL
=============================================================================
