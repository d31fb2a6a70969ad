--------------------------- MODULE ReloadInvariant ---------------------------
(* The inductive invariant behind the theorems of ReloadWatchdog_proofs.    *)
EXTENDS ReloadWatchdog

InTryLoad(t) == pc[t] \in {"stat", "load", "publish"}

\* Who holds files_lock_ where, and what is true while it is held.
LockInv ==
  /\ \A c \in Callers :
       /\ pc[c] \notin {"sleep", "scan", "ended"}
       /\ owner = c <=> InTryLoad(c) \/ pc[c] = "add"
       /\ pc[c] \in {"watch", "stat", "load", "publish", "add"}
            => file[c] \in Files
  /\ pc[Dog] \in {"sleep", "scan", "stat", "load", "publish", "ended"}
  /\ scanning <=> InTryLoad(Dog) \/ pc[Dog] = "scan"
  /\ ~ (scanning /\ owner # NoThread)
  /\ InTryLoad(Dog) => /\ file[Dog] \in Files
                       /\ watched_files_[PathOf[file[Dog]]] = file[Dog]
  /\ scanning => \A f \in todo : watched_files_[PathOf[f]] = f

\* Times never run ahead of the file on disk, and equal times mean equal
\* content: the stat comes before the read, and a write after either is later.
TimeInv ==
  /\ \A p \in Paths : disk[p].mtime <= now
  /\ \A f \in Files :
       LET d == disk[PathOf[f]] IN
       /\ update_time[f] <= d.mtime
       /\ loaded[f] # d.version => update_time[f] < d.mtime
       /\ status_[f] = "kLoadFailedStatusType"
            => reported[f] = "failed" /\ update_time[f] < d.mtime
  /\ \A t \in Threads :
       LET d == disk[PathOf[file[t]]] IN
       pc[t] \in {"load", "publish"} =>
         /\ update_time[file[t]] < statTime[t]
         /\ statTime[t] <= d.mtime
         /\ /\ pc[t] = "publish"
            /\ content[t] # 0
            /\ content[t] # d.version
            => statTime[t] < d.mtime

IInv == TypeOK /\ LockInv /\ TimeInv
=============================================================================
