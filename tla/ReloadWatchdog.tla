--------------------------- MODULE ReloadWatchdog ---------------------------
(***************************************************************************)
(* The hot reloader: ReloadFilesWatchDog and ReloadableFile::TryLoad.      *)
(*                                                                         *)
(* One thread, Dog, checks the watched files every ten seconds under the   *)
(* shared side of files_lock_; Callers call Watch, Cancel and Stop, which  *)
(* take its unique side.  Meanwhile somebody writes the files on disk, and *)
(* TryLoad compares their modification times, in seconds, with the time of *)
(* the last load.  A ReloadableFile is known by its identity (Files); two  *)
(* of them may have the same path.  The content of a file is a version     *)
(* number.  What Load does with the content is in DoubleBuffer.            *)
(***************************************************************************)
EXTENDS Integers

CONSTANTS
  Files,        \* ReloadableFile objects, each with a path and a FileInfo
  Paths,
  PathOf,       \* the path of each file
  Callers,      \* threads that call Watch, Cancel and Stop
  Dog,          \* the thread of the watchdog
  NoThread, NoFile,
  WriteTimes,   \* how a write stamps a file, see Stamps
  MaxTime,      \* bound of the clock
  MaxVersion    \* bound of the writes to a file

ASSUME FilesAssumption ==
  /\ PathOf \in [Files -> Paths]
  /\ NoFile \notin Files
ASSUME ThreadsAssumption ==
  /\ Dog \notin Callers
  /\ NoThread \notin Callers \cup {Dog}
ASSUME BoundsAssumption ==
  /\ MaxTime \in Nat \ {0}
  /\ MaxVersion \in Nat \ {0}
  /\ WriteTimes \in {"later", "now", "any"}

VARIABLES
  now,             \* the clock, in seconds
  disk,            \* what is stored under a path
  watched_files_,  \* the file watched under a path
  stop_,
  owner,           \* the holder of the unique side of files_lock_
  scanning,        \* Dog holds its shared side
  todo,            \* files the loop of Run() has not reached yet
  pc,              \* where a thread is
  file,            \* the file a thread is watching or loading
  statTime,        \* st.st_mtim.tv_sec of the thread's last stat
  content,         \* the version the thread's Load has read, 0 if unusable
  status_, update_time,
  loaded,          \* the version a file holds, 0 before its first load
  reported         \* the last callback of a file

clockVars == <<now, disk>>
dogVars   == <<scanning, todo>>
fileVars  == <<status_, update_time, loaded, reported>>
vars == <<now, disk, watched_files_, stop_, owner, scanning, todo, pc, file,
          statTime, content, status_, update_time, loaded, reported>>

Threads == Callers \cup {Dog}
Times == 0..MaxTime
Versions == 0..MaxVersion

Init ==
  /\ now = 1
  /\ disk = [p \in Paths |->
               [exists |-> TRUE, mtime |-> 1, version |-> 1, valid |-> TRUE]]
  /\ watched_files_ = [p \in Paths |-> NoFile]
  /\ stop_ = FALSE
  /\ owner = NoThread
  /\ scanning = FALSE
  /\ todo = {}
  /\ pc = [t \in Threads |-> IF t = Dog THEN "sleep" ELSE "idle"]
  /\ file = [t \in Threads |-> NoFile]
  /\ statTime = [t \in Threads |-> 0]
  /\ content = [t \in Threads |-> 0]
  /\ status_ = [f \in Files |-> "kInitStatusType"]
  /\ update_time = [f \in Files |-> 0]
  /\ loaded = [f \in Files |-> 0]
  /\ reported = [f \in Files |-> "none"]
-----------------------------------------------------------------------------
(* The world outside: time passes, files are written and removed.           *)

Tick ==
  /\ now < MaxTime
  /\ now' = now + 1
  /\ UNCHANGED <<disk, watched_files_, stop_, owner, dogVars, pc, file,
                 statTime, content, fileVars>>

\* The modification times a write may leave: a later second than the last
\* write, any time from the last write on, or, when an older file is put back
\* with its times, any time at all.
Stamps(p) ==
  {m \in 1..now : CASE WriteTimes = "later" -> m = now /\ m > disk[p].mtime
                    [] WriteTimes = "now"   -> m = now
                    [] WriteTimes = "any"   -> TRUE}

\* A writer replaces the file, by content that Load accepts or not.
Write(p) ==
  /\ disk[p].version < MaxVersion
  /\ \E m \in Stamps(p), ok \in BOOLEAN :
       disk' = [disk EXCEPT ![p] = [exists  |-> TRUE,
                                    mtime   |-> m,
                                    version |-> @.version + 1,
                                    valid   |-> ok]]
  /\ UNCHANGED <<now, watched_files_, stop_, owner, dogVars, pc, file,
                 statTime, content, fileVars>>

Remove(p) ==
  /\ disk[p].exists
  /\ disk' = [disk EXCEPT ![p].exists = FALSE]
  /\ UNCHANGED <<now, watched_files_, stop_, owner, dogVars, pc, file,
                 statTime, content, fileVars>>
-----------------------------------------------------------------------------
(* TryLoad, called by Dog in its loop and by Watch.                         *)

\* Where a thread goes on after TryLoad returned.
AfterTryLoad(t) == [pc EXCEPT ![t] = IF t = Dog THEN "scan" ELSE "add"]

\* Its locals end with it.
ForgetLocals(t) ==
  /\ statTime' = [statTime EXCEPT ![t] = 0]
  /\ content' = [content EXCEPT ![t] = 0]

\* The file cannot be stat-ed: failed_cb.
StatFails(t) ==
  /\ pc[t] = "stat"
  /\ ~ disk[PathOf[file[t]]].exists
  /\ reported' = [reported EXCEPT ![file[t]] = "failed"]
  /\ pc' = AfterTryLoad(t)
  /\ UNCHANGED <<clockVars, watched_files_, stop_, owner, dogVars, file,
                 statTime, content, status_, update_time, loaded>>

\* It is not newer than the last load: successfull_cb.
Unchanged(t) ==
  LET f == file[t] IN
  /\ pc[t] = "stat"
  /\ disk[PathOf[f]].exists
  /\ disk[PathOf[f]].mtime <= update_time[f]
  /\ reported' = [reported EXCEPT ![f] = "ok"]
  /\ pc' = AfterTryLoad(t)
  /\ UNCHANGED <<clockVars, watched_files_, stop_, owner, dogVars, file,
                 statTime, content, status_, update_time, loaded>>

StartLoad(t) ==
  LET f == file[t] IN
  /\ pc[t] = "stat"
  /\ disk[PathOf[f]].exists
  /\ disk[PathOf[f]].mtime > update_time[f]
  /\ statTime' = [statTime EXCEPT ![t] = disk[PathOf[f]].mtime]
  /\ status_' = [status_ EXCEPT ![f] = "kLoadingStatusType"]
  /\ pc' = [pc EXCEPT ![t] = "load"]
  /\ UNCHANGED <<clockVars, watched_files_, stop_, owner, dogVars, file,
                 content, update_time, loaded, reported>>

\* Load opens and reads the file; a file that is gone by now reads as empty,
\* which does not parse.
ReadFile(t) ==
  LET d == disk[PathOf[file[t]]] IN
  /\ pc[t] = "load"
  /\ content' = [content EXCEPT
                   ![t] = IF d.exists /\ d.valid THEN d.version ELSE 0]
  /\ pc' = [pc EXCEPT ![t] = "publish"]
  /\ UNCHANGED <<clockVars, watched_files_, stop_, owner, dogVars, file,
                 statTime, fileVars>>

\* Mutant: a failed load counts as a load of that time.
LoadFailsDated(t) ==
  /\ pc[t] = "publish"
  /\ content[t] = 0
  /\ status_' = [status_ EXCEPT ![file[t]] = "kLoadFailedStatusType"]
  /\ update_time' = [update_time EXCEPT ![file[t]] = statTime[t]]
  /\ reported' = [reported EXCEPT ![file[t]] = "failed"]
  /\ ForgetLocals(t)
  /\ pc' = AfterTryLoad(t)
  /\ UNCHANGED <<clockVars, watched_files_, stop_, owner, dogVars, file,
                 loaded>>

LoadFails(t) ==
  /\ pc[t] = "publish"
  /\ content[t] = 0
  /\ status_' = [status_ EXCEPT ![file[t]] = "kLoadFailedStatusType"]
  /\ reported' = [reported EXCEPT ![file[t]] = "failed"]
  /\ ForgetLocals(t)
  /\ pc' = AfterTryLoad(t)
  /\ UNCHANGED <<clockVars, watched_files_, stop_, owner, dogVars, file,
                 update_time, loaded>>

\* Mutant: the time is taken by a second stat after the load.
LoadSucceedsStatAfter(t) ==
  /\ pc[t] = "publish"
  /\ content[t] # 0
  /\ loaded' = [loaded EXCEPT ![file[t]] = content[t]]
  /\ update_time' = [update_time EXCEPT
                       ![file[t]] = disk[PathOf[file[t]]].mtime]
  /\ status_' = [status_ EXCEPT ![file[t]] = "kLoadSucceedStatusType"]
  /\ reported' = [reported EXCEPT ![file[t]] = "ok"]
  /\ ForgetLocals(t)
  /\ pc' = AfterTryLoad(t)
  /\ UNCHANGED <<clockVars, watched_files_, stop_, owner, dogVars, file>>

LoadSucceeds(t) ==
  /\ pc[t] = "publish"
  /\ content[t] # 0
  /\ loaded' = [loaded EXCEPT ![file[t]] = content[t]]
  /\ update_time' = [update_time EXCEPT ![file[t]] = statTime[t]]
  /\ status_' = [status_ EXCEPT ![file[t]] = "kLoadSucceedStatusType"]
  /\ reported' = [reported EXCEPT ![file[t]] = "ok"]
  /\ ForgetLocals(t)
  /\ pc' = AfterTryLoad(t)
  /\ UNCHANGED <<clockVars, watched_files_, stop_, owner, dogVars, file>>

TryLoad(t) ==
  StatFails(t) \/ Unchanged(t) \/ StartLoad(t) \/ ReadFile(t) \/ LoadFails(t)
    \/ LoadSucceeds(t)
-----------------------------------------------------------------------------
(* files_lock_, a std::shared_mutex.                                        *)

SharedLockable == owner = NoThread
\* Mutant: a std::shared_lock where a std::unique_lock is needed.
UniqueLockableShared == owner = NoThread

UniqueLockable == owner = NoThread /\ ~ scanning

(* Run(), the loop of Dog.                                                  *)

StopRunning ==
  /\ pc[Dog] = "sleep"
  /\ SharedLockable
  /\ stop_
  /\ pc' = [pc EXCEPT ![Dog] = "ended"]
  /\ UNCHANGED <<clockVars, watched_files_, stop_, owner, dogVars, file,
                 statTime, content, fileVars>>

\* Mutant: the files are copied under the lock and loaded without it.
StartScanUnlocked ==
  /\ pc[Dog] = "sleep"
  /\ SharedLockable
  /\ ~ stop_
  /\ todo' = {f \in Files : watched_files_[PathOf[f]] = f}
  /\ pc' = [pc EXCEPT ![Dog] = "scan"]
  /\ UNCHANGED <<clockVars, watched_files_, stop_, owner, scanning, file,
                 statTime, content, fileVars>>

StartScan ==
  /\ pc[Dog] = "sleep"
  /\ SharedLockable
  /\ ~ stop_
  /\ scanning' = TRUE
  /\ todo' = {f \in Files : watched_files_[PathOf[f]] = f}
  /\ pc' = [pc EXCEPT ![Dog] = "scan"]
  /\ UNCHANGED <<clockVars, watched_files_, stop_, owner, file, statTime,
                 content, fileVars>>

\* The next file in the order of the unordered_map: any.
ScanFile(f) ==
  /\ pc[Dog] = "scan"
  /\ f \in todo
  /\ todo' = todo \ {f}
  /\ file' = [file EXCEPT ![Dog] = f]
  /\ pc' = [pc EXCEPT ![Dog] = "stat"]
  /\ UNCHANGED <<clockVars, watched_files_, stop_, owner, scanning, statTime,
                 content, fileVars>>

\* Mutant: the thread sleeps in the scope of its lock.
EndScanLocked ==
  /\ pc[Dog] = "scan"
  /\ todo = {}
  /\ file' = [file EXCEPT ![Dog] = NoFile]
  /\ pc' = [pc EXCEPT ![Dog] = "sleep"]
  /\ UNCHANGED <<clockVars, watched_files_, stop_, owner, dogVars, statTime,
                 content, fileVars>>

\* The end of the loop releases the lock, then the thread sleeps.
EndScan ==
  /\ pc[Dog] = "scan"
  /\ todo = {}
  /\ scanning' = FALSE
  /\ file' = [file EXCEPT ![Dog] = NoFile]
  /\ pc' = [pc EXCEPT ![Dog] = "sleep"]
  /\ UNCHANGED <<clockVars, watched_files_, stop_, owner, todo, statTime,
                 content, fileVars>>

Run == StopRunning \/ StartScan \/ EndScan \/ \E f \in Files : ScanFile(f)
-----------------------------------------------------------------------------
(* Watch: a check under the shared lock, then a load under the unique one.  *)
(* A Watch of nullptr or of a path already watched returns -1 and changes   *)
(* nothing.                                                                 *)

WatchCheck(c, f) ==
  /\ pc[c] = "idle"
  /\ SharedLockable
  /\ watched_files_[PathOf[f]] = NoFile
  /\ file' = [file EXCEPT ![c] = f]
  /\ pc' = [pc EXCEPT ![c] = "watch"]
  /\ UNCHANGED <<clockVars, watched_files_, stop_, owner, dogVars, statTime,
                 content, fileVars>>

WatchLock(c) ==
  /\ pc[c] = "watch"
  /\ UniqueLockable
  /\ owner' = c
  /\ pc' = [pc EXCEPT ![c] = "stat"]
  /\ UNCHANGED <<clockVars, watched_files_, stop_, dogVars, file, statTime,
                 content, fileVars>>

WatchAdd(c) ==
  /\ pc[c] = "add"
  /\ watched_files_' = [watched_files_ EXCEPT ![PathOf[file[c]]] = file[c]]
  /\ file' = [file EXCEPT ![c] = NoFile]
  /\ owner' = NoThread
  /\ pc' = [pc EXCEPT ![c] = "idle"]
  /\ UNCHANGED <<clockVars, stop_, dogVars, statTime, content, fileVars>>

\* A caller calls Cancel or Stop and waits for the lock.
Call(c, op) ==
  /\ pc[c] = "idle"
  /\ pc' = [pc EXCEPT ![c] = op]
  /\ UNCHANGED <<clockVars, watched_files_, stop_, owner, dogVars, file,
                 statTime, content, fileVars>>

Cancel(c, p) ==
  /\ pc[c] = "cancel"
  /\ UniqueLockable
  /\ watched_files_' = [watched_files_ EXCEPT ![p] = NoFile]
  /\ pc' = [pc EXCEPT ![c] = "idle"]
  /\ UNCHANGED <<clockVars, stop_, owner, dogVars, file, statTime, content,
                 fileVars>>

\* Mutant: the map is cleared but the loop is not told.
StopClearsOnly(c) ==
  /\ pc[c] = "stop"
  /\ UniqueLockable
  /\ watched_files_' = [p \in Paths |-> NoFile]
  /\ pc' = [pc EXCEPT ![c] = "idle"]
  /\ UNCHANGED <<clockVars, stop_, owner, dogVars, file, statTime, content,
                 fileVars>>

\* Only the first Stop clears the map.
Stop(c) ==
  /\ pc[c] = "stop"
  /\ UniqueLockable
  /\ IF stop_ THEN UNCHANGED watched_files_
              ELSE watched_files_' = [p \in Paths |-> NoFile]
  /\ stop_' = TRUE
  /\ pc' = [pc EXCEPT ![c] = "idle"]
  /\ UNCHANGED <<clockVars, owner, dogVars, file, statTime, content,
                 fileVars>>

CallerAcquires(c) ==
  WatchLock(c) \/ Stop(c) \/ \E p \in Paths : Cancel(c, p)

CallerCalls(c) ==
  \/ \E f \in Files : WatchCheck(c, f)
  \/ \E op \in {"cancel", "stop"} : Call(c, op)
-----------------------------------------------------------------------------
World == Tick \/ \E p \in Paths : Write(p) \/ Remove(p)

Next ==
  \/ World
  \/ Run
  \/ \E t \in Threads : TryLoad(t)
  \/ \E c \in Callers : CallerCalls(c) \/ CallerAcquires(c) \/ WatchAdd(c)

\* Every thread is scheduled.  A thread that waits for files_lock_ gets it if
\* it is free again and again: Dog releases it for ten seconds after every
\* scan, and a std::shared_mutex lets waiting readers in when its writer
\* leaves.
Fairness ==
  /\ SF_vars(StopRunning \/ StartScan)
  /\ WF_vars(EndScan \/ \E f \in Files : ScanFile(f))
  /\ \A t \in Threads : WF_vars(TryLoad(t))
  /\ \A c \in Callers : SF_vars(CallerAcquires(c)) /\ WF_vars(WatchAdd(c))

Spec == Init /\ [][Next]_vars
FairSpec == Spec /\ Fairness
-----------------------------------------------------------------------------
Statuses == {"kInitStatusType", "kLoadingStatusType",
             "kLoadFailedStatusType", "kLoadSucceedStatusType"}

TypeOK ==
  /\ now \in Times
  /\ disk \in [Paths -> [exists : BOOLEAN, mtime : Times,
                         version : Versions, valid : BOOLEAN]]
  /\ watched_files_ \in [Paths -> Files \cup {NoFile}]
  /\ stop_ \in BOOLEAN
  /\ owner \in Callers \cup {NoThread}
  /\ scanning \in BOOLEAN
  /\ todo \subseteq Files
  /\ pc \in [Threads -> {"sleep", "scan", "stat", "load", "publish", "ended",
                         "idle", "watch", "add", "cancel", "stop"}]
  /\ file \in [Threads -> Files \cup {NoFile}]
  /\ statTime \in [Threads -> Times]
  /\ content \in [Threads -> Versions]
  /\ status_ \in [Files -> Statuses]
  /\ update_time \in [Files -> Times]
  /\ loaded \in [Files -> Versions]
  /\ reported \in [Files -> {"none", "ok", "failed"}]

Loading(t, f) == pc[t] \in {"load", "publish"} /\ file[t] = f

\* Two threads never load one file at a time: Load writes the buffer that
\* Next() returned without any lock of its own.
LoadsSerialized ==
  \A f \in Files : \A t, u \in Threads :
    Loading(t, f) /\ Loading(u, f) => t = u

\* The watchdog only checks and loads files that are watched: from the return
\* of Cancel or Stop on it calls the callbacks of the file no more.  A Watch,
\* also one that was past its check before or is called after a Stop, loads
\* its file whatever the map holds, and then puts it there.
OnlyWatchedLoaded ==
  \A t \in Threads :
    pc[t] \in {"stat", "load", "publish"} =>
      IF t = Dog THEN watched_files_[PathOf[file[t]]] = file[t]
                 ELSE owner = t

\* No change is lost: a file that does not hold what is on disk is older, in
\* seconds, than what is on disk, so that the next check loads it.
ChangeDetectable ==
  \A f \in Files :
    LET d == disk[PathOf[f]] IN
    d.exists /\ loaded[f] # d.version => d.mtime > update_time[f]

\* successfull_cb means that the file is loaded: it is never the last word
\* about a file whose last load failed.
SuccessReported ==
  \A f \in Files : reported[f] = "ok" => status_[f] # "kLoadFailedStatusType"

\* A watched file whose content settles on something loadable is loaded.
ChangeLoaded ==
  \A f \in Files :
    LET d == disk[PathOf[f]] IN
    <>[](watched_files_[PathOf[f]] = f /\ ~ stop_ /\ d.exists /\ d.valid)
      => <>[](loaded[f] = d.version)

\* Watch, Cancel and Stop return: nobody keeps files_lock_.
CallsReturn == \A c \in Callers : pc[c] # "idle" ~> pc[c] = "idle"

\* After Stop the thread of the watchdog ends, so that the destructor's join
\* returns.
StopEndsRun == \A c \in Callers : pc[c] = "stop" ~> pc[Dog] = "ended"
=============================================================================
