---------------------------- MODULE Files_proofs ----------------------------
(***************************************************************************)
(* For any number of threads, any calls, any file system and any limit of   *)
(* descriptors: copies are exact, never mix and leak no descriptor.         *)
(***************************************************************************)
EXTENDS Files, TLAPS

-----------------------------------------------------------------------------
(* The inductive invariant.                                                 *)

Labels == {"idle", "check", "mkdir", "open", "open_from", "remove", "open_to",
           "read", "write", "close", "out_error"}

Types ==
  /\ \A q \in DOMAIN tree : tree[q] \in Inodes \cup {Dir}
  /\ data \in [Inodes -> Seq(Int)]
  /\ fds \in [Descriptors -> Inodes \cup {Dir, Closed}]
  /\ left \subseteq Descriptors
  /\ pc \in [Threads -> Labels]
  /\ fd_from \in [Threads -> Descriptors \cup {NoFd}]
  /\ fd_to \in [Threads -> Descriptors \cup {NoFd}]
  /\ off \in [Threads -> Nat]
  /\ buf \in [Threads -> Seq(Int)]

\* Which descriptors a thread has at which step.
Stage ==
  \A t \in Threads :
    /\ pc[t] \in {"idle", "check", "mkdir", "open", "open_from"} =>
         fd_from[t] = NoFd /\ fd_to[t] = NoFd
    /\ pc[t] \in {"remove", "open_to", "read", "write", "close", "out_error"} =>
         fd_from[t] # NoFd
    /\ pc[t] \in {"remove", "open_to"} => fd_to[t] = NoFd
    /\ pc[t] \in {"read", "write", "close"} => fd_to[t] # NoFd
    /\ pc[t] \notin {"read", "write", "close", "out_error"} => off[t] = 0 /\ buf[t] = <<>>
    /\ pc[t] \in {"read", "close"} => buf[t] = <<>>

\* Every open descriptor has one holder.
Held ==
  /\ \A fd \in Descriptors :
       fds[fd] = Closed <=> /\ fd \notin left
                            /\ \A t \in Threads : fd # fd_from[t] /\ fd # fd_to[t]
  /\ \A t \in Threads : /\ fd_from[t] \notin left /\ fd_to[t] \notin left
                        /\ fd_from[t] = fd_to[t] => fd_from[t] = NoFd
  /\ \A t, u \in Threads :
       t # u => /\ fd_from[t] = fd_from[u] => fd_from[t] = NoFd
                /\ fd_to[t] = fd_to[u] => fd_to[t] = NoFd
                /\ fd_from[t] = fd_to[u] => fd_from[t] = NoFd

\* A copy writes to a file that it does not read and no other copy writes to.
WritesAlone ==
  \A t \in Threads :
    fd_to[t] # NoFd =>
      /\ fds[fd_to[t]] \in Inodes
      /\ fds[fd_from[t]] # fds[fd_to[t]]
      /\ \A u \in Threads : u # t /\ fd_to[u] # NoFd => fds[fd_to[u]] # fds[fd_to[t]]

\* s is the beginning of t.
Begins(s, t) == Len(s) <= Len(t) /\ \A n \in 1 .. Len(s) : s[n] = t[n]

\* What is in to and then in b is the beginning of from.
Reads(from, to, b) ==
  /\ Len(to) + Len(b) <= Len(from)
  /\ \A n \in 1 .. Len(to) : to[n] = from[n]
  /\ \A n \in 1 .. Len(b) : b[n] = from[Len(to) + n]

\* What has been read is what has been written and what is in buf.
Copying(t) ==
  LET from == data[fds[fd_from[t]]]
      to   == data[fds[fd_to[t]]]
  IN  IF fds[fd_from[t]] = Dir THEN pc[t] = "read"
      ELSE off[t] = Len(to) + Len(buf[t]) /\ Reads(from, to, buf[t])

Copies == \A t \in Threads : pc[t] \in {"read", "write", "close"} => Copying(t)

Unmixed == \A i \in Inodes : \E j \in Inodes : Begins(data[i], InitialData[j])

FilesInv == Types /\ Stage /\ Held /\ WritesAlone /\ Copies /\ Unmixed

LEMMA InitInv == Init => FilesInv
<1> SUFFICES ASSUME Init
             PROVE  FilesInv
  OBVIOUS
<1>1. NoFd \notin Descriptors
  BY FilesAssumption DEF NoFd, Descriptors
<1>2. Types /\ Stage
  BY FilesAssumption DEF Init, Types, Stage, Labels
<1>3. Held /\ WritesAlone /\ Copies
  BY <1>1 DEF Init, Held, WritesAlone, Copies
<1>4. Unmixed
  <2> SUFFICES ASSUME NEW i \in Inodes
               PROVE  Begins(InitialData[i], InitialData[i])
    BY DEF Init, Unmixed
  <2> QED BY FilesAssumption DEF Begins
<1> QED BY <1>2, <1>3, <1>4 DEF FilesInv

\* A step of one thread that opens, closes, reads and writes nothing.
LEMMA QuietStep ==
  ASSUME FilesInv, NEW t \in Threads,
         UNCHANGED <<data, fds, left, copyVars>>,
         \A q \in DOMAIN tree' : tree'[q] \in Inodes \cup {Dir},
         NEW label \in Labels, pc' = [pc EXCEPT ![t] = label],
         \/ /\ pc[t] \in {"idle", "check", "mkdir", "open", "open_from"}
            /\ label \in {"idle", "check", "mkdir", "open", "open_from"}
         \/ pc[t] = "remove" /\ label = "open_to"
         \/ pc[t] \in {"open_to", "read", "write"} /\ label = "out_error"
  PROVE  FilesInv'
<1> USE DEF FilesInv, copyVars
<1>1. Types'
  BY DEF Types
<1>2. Stage'
  BY DEF Stage, Types
<1>3. Held' /\ WritesAlone' /\ Unmixed'
  BY DEF Held, WritesAlone, Unmixed
<1>4. Copies'
  BY DEF Copies, Copying, Types
<1> QED BY <1>1, <1>2, <1>3, <1>4

\* A call that has no descriptors returns.
LEMMA QuietReturn ==
  ASSUME FilesInv, NEW t \in Threads, NEW r, Return(t, r),
         pc[t] \in {"idle", "check", "mkdir", "open", "open_from"},
         UNCHANGED <<data, fds, left>>,
         \A q \in DOMAIN tree' : tree'[q] \in Inodes \cup {Dir}
  PROVE  FilesInv'
<1>1. fd_from[t] = NoFd /\ fd_to[t] = NoFd /\ off[t] = 0 /\ buf[t] = <<>>
  BY DEF FilesInv, Stage
<1>2. UNCHANGED copyVars
  BY <1>1 DEF Return, copyVars, FilesInv, Types
<1>3. pc' = [pc EXCEPT ![t] = "idle"]
  BY DEF Return, Goto
<1> QED BY <1>2, <1>3, QuietStep DEF Labels

LEMMA KeptTree ==
  ASSUME FilesInv
  PROVE  /\ \A q \in DOMAIN tree : tree[q] \in Inodes \cup {Dir}
         /\ \A p, e : e \in Inodes \cup {Dir} =>
              \A q \in DOMAIN Put(tree, p, e) : Put(tree, p, e)[q] \in Inodes \cup {Dir}
BY DEF FilesInv, Types, Put

LEMMA MakeDirStep ==
  ASSUME FilesInv, NEW t \in Threads,
         CallMakeDir(t) \/ CallMakeFile(t) \/ MakeDirCheck(t) \/ MakeDirMkdir(t)
           \/ CallFileCopy(t) \/ DirCopy(t)
  PROVE  FilesInv'
<1>1. CASE CallMakeDir(t)
  BY <1>1, QuietStep DEF CallMakeDir, MayCall, Goto, Labels, FilesInv, Types
<1>2. CASE CallMakeFile(t)
  BY <1>2, QuietStep DEF CallMakeFile, MayCall, Goto, Labels, FilesInv, Types
<1>3. CASE CallFileCopy(t)
  BY <1>3, QuietStep DEF CallFileCopy, MayCall, Goto, Labels, FilesInv, Types
<1>4. CASE DirCopy(t)
  BY <1>4, QuietReturn DEF DirCopy, MayCall, FilesInv, Types
<1>5. ASSUME NEW r, MakeDirReturns(t, r), pc[t] \in {"check", "mkdir"},
             UNCHANGED <<data, fds, left>>,
             \A q \in DOMAIN tree' : tree'[q] \in Inodes \cup {Dir}
      PROVE  FilesInv'
  <2>1. CASE call[t].op = "MakeDir"
    BY <1>5, <2>1, QuietReturn DEF MakeDirReturns
  <2>2. CASE call[t].op # "MakeDir"
    BY <1>5, <2>2, QuietStep DEF MakeDirReturns, Goto, Labels
  <2> QED BY <2>1, <2>2
<1>6. CASE MakeDirCheck(t)
  <2>1. pc[t] = "check" /\ UNCHANGED <<tree, data, fds, left>>
        /\ \A q \in DOMAIN tree' : tree'[q] \in Inodes \cup {Dir}
    BY <1>6, KeptTree DEF MakeDirCheck
  <2>2. CASE AlreadyThere(Last(frames[t]))
    BY <1>5, <1>6, <2>1, <2>2 DEF MakeDirCheck
  <2>3. CASE ~ AlreadyThere(Last(frames[t])) /\ HasBase(Last(frames[t]))
    <3>1. UNCHANGED <<pc, copyVars>>
      BY <1>6, <2>3 DEF MakeDirCheck
    <3>2. pc' = [pc EXCEPT ![t] = "check"]
      BY <2>1, <3>1 DEF FilesInv, Types
    <3> QED BY <2>1, <3>1, <3>2, QuietStep DEF Labels
  <2>4. CASE ~ AlreadyThere(Last(frames[t])) /\ ~ HasBase(Last(frames[t]))
    BY <1>6, <2>1, <2>4, QuietStep DEF MakeDirCheck, Goto, Labels
  <2> QED BY <2>2, <2>3, <2>4
<1>7. CASE MakeDirMkdir(t)
  <2> DEFINE path == Last(frames[t])
  <2>1. pc[t] = "mkdir" /\ UNCHANGED <<data, fds, left>>
        /\ (UNCHANGED tree \/ tree' = Put(tree, Place(path), Dir))
    BY <1>7 DEF MakeDirMkdir
  <2>2. \A q \in DOMAIN tree' : tree'[q] \in Inodes \cup {Dir}
    BY <2>1, KeptTree
  <2>3. CASE MakeDirReturns(t, FALSE) \/ MakeDirReturns(t, TRUE)
    BY <1>5, <2>1, <2>2, <2>3
  <2>4. CASE UNCHANGED <<pc, copyVars>>
    <3>1. pc' = [pc EXCEPT ![t] = "mkdir"]
      BY <2>1, <2>4 DEF FilesInv, Types
    <3> QED BY <2>1, <2>2, <2>4, <3>1, QuietStep DEF Labels
  <2> QED BY <1>7, <2>3, <2>4 DEF MakeDirMkdir
<1> QED BY <1>1, <1>2, <1>3, <1>4, <1>6, <1>7

LEMMA QuietCopyStep ==
  ASSUME FilesInv, NEW t \in Threads, RemoveDst(t) \/ ReadFails(t) \/ WriteFails(t)
  PROVE  FilesInv'
<1>1. CASE RemoveDst(t)
  <2>1. \A q \in DOMAIN tree' : tree'[q] \in Inodes \cup {Dir}
    BY <1>1, KeptTree DEF RemoveDst
  <2> QED BY <1>1, <2>1, QuietStep DEF RemoveDst, Goto, Labels
<1>2. CASE ReadFails(t)
  BY <1>2, KeptTree, QuietStep DEF ReadFails, Goto, Labels
<1>3. CASE WriteFails(t)
  BY <1>3, KeptTree, QuietStep DEF WriteFails, Goto, Labels
<1> QED BY <1>1, <1>2, <1>3

LEMMA FreshThings ==
  ASSUME FilesInv
  PROVE  /\ FreeFds # {} =>
              /\ AnyOf(FreeFds) \in Descriptors /\ fds[AnyOf(FreeFds)] = Closed
              /\ AnyOf(FreeFds) \notin left /\ AnyOf(FreeFds) # NoFd
              /\ \A t \in Threads : AnyOf(FreeFds) # fd_from[t] /\ AnyOf(FreeFds) # fd_to[t]
         /\ FreeInodes # {} =>
              /\ AnyOf(FreeInodes) \in Inodes
              /\ \A fd \in Descriptors : fds[fd] # AnyOf(FreeInodes)
         /\ NoFd \notin Descriptors
<1>1. NoFd \notin Descriptors
  BY FilesAssumption DEF NoFd, Descriptors
<1>2. ASSUME FreeFds # {}
      PROVE  AnyOf(FreeFds) \in FreeFds
  BY <1>2 DEF AnyOf
<1>3. ASSUME FreeInodes # {}
      PROVE  AnyOf(FreeInodes) \in FreeInodes
  BY <1>3 DEF AnyOf
<1>4. \A fd \in FreeFds : fd \in Descriptors /\ fds[fd] = Closed /\ fd \notin left
        /\ fd # NoFd /\ \A t \in Threads : fd # fd_from[t] /\ fd # fd_to[t]
  BY <1>1 DEF FreeFds, FilesInv, Held
<1>5. \A i \in FreeInodes : i \in Inodes /\ \A fd \in Descriptors : fds[fd] # i
  BY DEF FreeInodes
<1> HIDE DEF FreeFds, FreeInodes
<1> QED BY <1>1, <1>2, <1>3, <1>4, <1>5

\* Emptying a file that nobody has open keeps what is said about the others.
LEMMA EmptiedInode ==
  ASSUME FilesInv, NEW i \in Inodes, data' = [data EXCEPT ![i] = <<>>]
  PROVE  data' \in [Inodes -> Seq(Int)] /\ Unmixed'
<1>1. data' \in [Inodes -> Seq(Int)]
  BY DEF FilesInv, Types
<1>2. Unmixed'
  <2> SUFFICES ASSUME NEW x \in Inodes
               PROVE  \E j \in Inodes : Begins(data'[x], InitialData[j])
    BY DEF Unmixed
  <2>1. CASE x = i
    <3>1. Begins(<<>>, InitialData[i])
      BY FilesAssumption DEF Begins
    <3> QED BY <2>1, <3>1 DEF FilesInv, Types
  <2>2. CASE x # i
    BY <2>2 DEF FilesInv, Types, Unmixed
  <2> QED BY <2>1, <2>2
<1> QED BY <1>1, <1>2

LEMMA ConcatFacts ==
  ASSUME NEW T, NEW s \in Seq(T), NEW t \in Seq(T)
  PROVE  /\ s \o t \in Seq(T) /\ Len(s \o t) = Len(s) + Len(t)
         /\ \A j \in 1 .. Len(s) : (s \o t)[j] = s[j]
         /\ \A j \in Len(s) + 1 .. Len(s) + Len(t) : (s \o t)[j] = t[j - Len(s)]
OBVIOUS

LEMMA BothBegin ==
  ASSUME NEW s \in Seq(Int), NEW t \in Seq(Int), Len(s) = Len(t),
         \A n \in 1 .. Len(s) : s[n] = t[n]
  PROVE  s = t
OBVIOUS

LEMMA LongerSource ==
  ASSUME NEW from \in Seq(Int), NEW more \in Seq(Int), NEW to \in Seq(Int), NEW b \in Seq(Int),
         Reads(from, to, b), Begins(from, more)
  PROVE  Reads(more, to, b)
<1>1. Len(from) \in Nat /\ Len(more) \in Nat /\ Len(to) \in Nat /\ Len(b) \in Nat
  OBVIOUS
<1>2. Len(from) <= Len(more) /\ \A n \in 1 .. Len(from) : from[n] = more[n]
  BY DEF Begins
<1>3. \A n \in 1 .. Len(to) : n \in 1 .. Len(from)
  BY <1>1 DEF Reads
<1>4. \A n \in 1 .. Len(b) : Len(to) + n \in 1 .. Len(from)
  BY <1>1 DEF Reads
<1>5. Len(to) + Len(b) <= Len(more)
  BY <1>1, <1>2 DEF Reads
<1>6. \A n \in 1 .. Len(to) : to[n] = more[n]
  BY <1>2, <1>3 DEF Reads
<1>7. \A n \in 1 .. Len(b) : b[n] = more[Len(to) + n]
  BY <1>2, <1>4 DEF Reads
<1> QED BY <1>5, <1>6, <1>7 DEF Reads

\* A copy goes on where it was, also when its source has grown.
LEMMA KeepsCopying ==
  ASSUME Types, NEW u \in Threads, Copying(u),
         fds[fd_to[u]] \in Inodes, fds[fd_from[u]] \in Inodes \cup {Dir},
         pc'[u] = pc[u], off'[u] = off[u], buf'[u] = buf[u],
         fds'[fd_from'[u]] = fds[fd_from[u]], fds'[fd_to'[u]] = fds[fd_to[u]],
         data' \in [Inodes -> Seq(Int)],
         data'[fds[fd_to[u]]] = data[fds[fd_to[u]]],
         fds[fd_from[u]] # Dir => Begins(data[fds[fd_from[u]]], data'[fds[fd_from[u]]])
  PROVE  Copying(u)'
<1> DEFINE i == fds[fd_from[u]]
           j == fds[fd_to[u]]
<1>1. CASE i = Dir
  BY <1>1 DEF Copying
<1>2. CASE i # Dir
  <2>1. off[u] = Len(data[j]) + Len(buf[u]) /\ Reads(data[i], data[j], buf[u])
    BY <1>2 DEF Copying
  <2>2. /\ data[i] \in Seq(Int) /\ data'[i] \in Seq(Int) /\ data[j] \in Seq(Int)
        /\ buf[u] \in Seq(Int) /\ Begins(data[i], data'[i])
    BY <1>2 DEF Types
  <2>3. i # Dir /\ fds'[fd_from'[u]] = i /\ fds'[fd_to'[u]] = j /\ data'[j] = data[j]
    BY <1>2
  <2> HIDE DEF i, j
  <2>4. Reads(data'[i], data[j], buf[u])
    BY <2>1, <2>2, LongerSource
  <2> QED BY <2>1, <2>3, <2>4 DEF Copying
<1> QED BY <1>1, <1>2

LEMMA MakeFileOpenStep ==
  ASSUME FilesInv, NEW t \in Threads, MakeFileOpen(t)
  PROVE  FilesInv'
<1> DEFINE path == call[t].path
           fd   == AnyOf(FreeFds)
           i    == IF IsReg(path) THEN tree[Place(path)] ELSE AnyOf(FreeInodes)
           opens == /\ FreeFds # {} /\ Last(path) # ""
                    /\ IsReg(path) \/ (HasRoom(path) /\ FreeInodes # {})
<1>1. pc[t] = "open" /\ Return(t, TRUE)
  BY DEF MakeFileOpen
<1>2. CASE ~ opens
  <2>1. UNCHANGED <<tree, data, fds, left>>
    BY <1>2 DEF MakeFileOpen
  <2> QED BY <1>1, <2>1, QuietReturn, KeptTree
<1>3. CASE opens
  <2>1. /\ tree' = Put(tree, Place(path), i)
        /\ data' = IF IsReg(path) THEN data ELSE [data EXCEPT ![i] = <<>>]
        /\ fds' = [fds EXCEPT ![fd] = i]
        /\ left' = left \cup {fd}
    BY <1>3 DEF MakeFileOpen
  <2>2. /\ fd \in Descriptors /\ fds[fd] = Closed /\ fd \notin left /\ fd # NoFd
        /\ \A u \in Threads : fd # fd_from[u] /\ fd # fd_to[u]
    BY <1>3, FreshThings
  <2>3. i \in Inodes
    BY <1>3, FreshThings, KeptTree DEF IsReg, Exists
  <2>4. UNCHANGED copyVars /\ pc' = [pc EXCEPT ![t] = "idle"]
    BY <1>1 DEF Return, Goto, copyVars, FilesInv, Stage, Types
  <2>5. data' \in [Inodes -> Seq(Int)] /\ Unmixed'
        /\ \A x \in Descriptors : fds[x] \in Inodes => data'[fds[x]] = data[fds[x]]
    <3>1. CASE IsReg(path)
      BY <2>1, <3>1 DEF FilesInv, Types, Unmixed
    <3>2. CASE ~ IsReg(path)
      BY <1>3, <2>1, <2>3, <3>2, EmptiedInode, FreshThings DEF FilesInv, Types
    <3> QED BY <3>1, <3>2
  <2>6. \A q \in DOMAIN tree' : tree'[q] \in Inodes \cup {Dir}
    BY <2>1, <2>3, KeptTree
  <2> HIDE DEF i, fd
  <2>7. Types'
    BY <2>1, <2>2, <2>3, <2>4, <2>5, <2>6 DEF FilesInv, Types, copyVars, Labels
  <2>8. Stage'
    BY <1>1, <2>4 DEF FilesInv, Stage, Types, copyVars
  <2>9. \A x \in Descriptors : x # fd => fds'[x] = fds[x]
    BY <2>1 DEF FilesInv, Types
  <2>10. Held'
    BY <2>1, <2>2, <2>3, <2>4, <2>9, FilesAssumption DEF FilesInv, Types, Held, copyVars
  <2>11. \A u \in Threads : fd_to[u] # NoFd =>
           fds'[fd_to[u]] = fds[fd_to[u]] /\ fds'[fd_from[u]] = fds[fd_from[u]]
             /\ fd_from[u] \in Descriptors /\ fd_to[u] \in Descriptors
    BY <2>2, <2>9 DEF FilesInv, Types, Stage, Labels
  <2>12. WritesAlone'
    BY <2>4, <2>11 DEF FilesInv, WritesAlone, copyVars
  <2>13. Copies'
    <3> SUFFICES ASSUME NEW u \in Threads, pc'[u] \in {"read", "write", "close"}
                 PROVE  Copying(u)'
      BY DEF Copies
    <3>1. pc[u] = pc'[u] /\ fd_to[u] # NoFd /\ Copying(u)
      BY <1>1, <2>4 DEF FilesInv, Types, Stage, Copies
    <3>2. fds[fd_to[u]] \in Inodes /\ fds[fd_from[u]] \in Inodes \cup {Dir}
      BY <2>11, <3>1 DEF FilesInv, WritesAlone, Types, Held
    <3>3. data'[fds[fd_to[u]]] = data[fds[fd_to[u]]]
          /\ (fds[fd_from[u]] # Dir => data'[fds[fd_from[u]]] = data[fds[fd_from[u]]])
      BY <2>5, <2>11, <3>1, <3>2
    <3>4. fds[fd_from[u]] # Dir =>
            Begins(data[fds[fd_from[u]]], data'[fds[fd_from[u]]])
      BY <3>2, <3>3 DEF Begins, FilesInv, Types
    <3>5. pc'[u] = pc[u] /\ off'[u] = off[u] /\ buf'[u] = buf[u]
          /\ fds'[fd_from'[u]] = fds[fd_from[u]] /\ fds'[fd_to'[u]] = fds[fd_to[u]]
      BY <2>4, <2>11, <3>1 DEF copyVars
    <3> QED BY <2>5, <3>1, <3>2, <3>3, <3>4, <3>5, KeepsCopying DEF FilesInv
  <2> QED BY <2>5, <2>7, <2>8, <2>10, <2>12, <2>13 DEF FilesInv
<1> QED BY <1>2, <1>3

LEMMA OpenFromStep ==
  ASSUME FilesInv, NEW t \in Threads, OpenFrom(t)
  PROVE  FilesInv'
<1> DEFINE src == call[t].src
           fd  == AnyOf(FreeFds)
<1>1. CASE ~ (Exists(src) /\ FreeFds # {})
  BY <1>1, QuietReturn, KeptTree DEF OpenFrom
<1>2. CASE Exists(src) /\ FreeFds # {}
  <2>1. /\ pc[t] = "open_from" /\ pc' = [pc EXCEPT ![t] = "remove"]
        /\ fds' = [fds EXCEPT ![fd] = tree[Place(src)]]
        /\ fd_from' = [fd_from EXCEPT ![t] = fd]
        /\ UNCHANGED <<tree, data, left, fd_to, off, buf>>
    BY <1>2 DEF OpenFrom, Goto
  <2>2. /\ fd \in Descriptors /\ fds[fd] = Closed /\ fd \notin left /\ fd # NoFd
        /\ \A u \in Threads : fd # fd_from[u] /\ fd # fd_to[u]
    BY <1>2, FreshThings
  <2>3. tree[Place(src)] \in Inodes \cup {Dir} /\ tree[Place(src)] # Closed
    BY <1>2, KeptTree, FilesAssumption DEF Exists
  <2> HIDE DEF src, fd
  <2>4. \A x \in Descriptors : x # fd => fds'[x] = fds[x]
    BY <2>1 DEF FilesInv, Types
  <2>5. \A u \in Threads : u # t => fd_from'[u] = fd_from[u] /\ pc'[u] = pc[u]
    BY <2>1 DEF FilesInv, Types
  <2>6. fd_from'[t] = fd /\ fd_from[t] = NoFd /\ fd_to[t] = NoFd /\ fds'[fd] # Closed
    BY <2>1, <2>2, <2>3 DEF FilesInv, Types, Stage
  <2>7. Types'
    BY <2>1, <2>2, <2>3 DEF FilesInv, Types, Labels
  <2>8. Stage'
    BY <2>1, <2>2 DEF FilesInv, Stage, Types
  <2>9. Held'
    BY <2>1, <2>2, <2>4, <2>5, <2>6 DEF FilesInv, Types, Held
  <2>10. \A u \in Threads : fd_to[u] # NoFd =>
           u # t /\ fds'[fd_to[u]] = fds[fd_to[u]] /\ fds'[fd_from'[u]] = fds[fd_from[u]]
             /\ fd_from[u] \in Descriptors /\ fd_to[u] \in Descriptors
    BY <2>2, <2>4, <2>5, <2>6 DEF FilesInv, Types, Stage, Labels
  <2>11. WritesAlone'
    BY <2>1, <2>10 DEF FilesInv, WritesAlone
  <2>12. Copies'
    <3> SUFFICES ASSUME NEW u \in Threads, pc'[u] \in {"read", "write", "close"}
                 PROVE  Copying(u)'
      BY DEF Copies
    <3>1. pc[u] = pc'[u] /\ u # t /\ fd_to[u] # NoFd /\ Copying(u)
      BY <2>1, <2>5 DEF FilesInv, Types, Stage, Copies
    <3>2. fds[fd_to[u]] \in Inodes /\ fds[fd_from[u]] \in Inodes \cup {Dir}
      BY <2>10, <3>1 DEF FilesInv, WritesAlone, Types, Held
    <3>3. fds[fd_from[u]] # Dir => Begins(data[fds[fd_from[u]]], data'[fds[fd_from[u]]])
      BY <2>1, <3>2 DEF Begins, FilesInv, Types
    <3>4. off'[u] = off[u] /\ buf'[u] = buf[u] /\ data' \in [Inodes -> Seq(Int)]
          /\ fds'[fd_from'[u]] = fds[fd_from[u]] /\ fds'[fd_to'[u]] = fds[fd_to[u]]
      BY <2>1, <2>10, <3>1 DEF FilesInv, Types
    <3> QED BY <2>1, <3>1, <3>2, <3>3, <3>4, KeepsCopying DEF FilesInv
  <2> QED BY <2>1, <2>7, <2>8, <2>9, <2>11, <2>12 DEF FilesInv, Unmixed
<1> QED BY <1>1, <1>2

LEMMA OpenToStep ==
  ASSUME FilesInv, NEW t \in Threads, OpenTo(t)
  PROVE  FilesInv'
<1> DEFINE dst == call[t].dst
           fd  == AnyOf(FreeFds)
           i   == AnyOf(FreeInodes)
           opens == FreeFds # {} /\ Last(dst) # "" /\ HasRoom(dst) /\ FreeInodes # {}
<1>1. CASE ~ opens
  <2>1. pc[t] = "open_to" /\ pc' = [pc EXCEPT ![t] = "out_error"]
        /\ UNCHANGED <<tree, data, fds, left, copyVars>>
    BY <1>1 DEF OpenTo, Goto, copyVars
  <2> QED BY <2>1, QuietStep, KeptTree DEF Labels
<1>2. CASE opens
  <2>1. /\ pc[t] = "open_to" /\ pc' = [pc EXCEPT ![t] = "read"]
        /\ tree' = Put(tree, Place(dst), i)
        /\ data' = [data EXCEPT ![i] = <<>>]
        /\ fds' = [fds EXCEPT ![fd] = i]
        /\ fd_to' = [fd_to EXCEPT ![t] = fd]
        /\ UNCHANGED <<left, fd_from, off, buf>>
    BY <1>2 DEF OpenTo, Goto
  <2>2. /\ fd \in Descriptors /\ fds[fd] = Closed /\ fd \notin left /\ fd # NoFd
        /\ \A u \in Threads : fd # fd_from[u] /\ fd # fd_to[u]
    BY <1>2, FreshThings
  <2>3. i \in Inodes /\ \A x \in Descriptors : fds[x] # i
    BY <1>2, FreshThings
  <2>4. \A q \in DOMAIN tree' : tree'[q] \in Inodes \cup {Dir}
    BY <2>1, <2>3, KeptTree
  <2>5. data' \in [Inodes -> Seq(Int)] /\ Unmixed'
        /\ \A x \in Inodes : x # i => data'[x] = data[x]
    BY <2>1, <2>3, EmptiedInode DEF FilesInv, Types
  <2> HIDE DEF dst, fd, i
  <2>6. \A x \in Descriptors : x # fd => fds'[x] = fds[x]
    BY <2>1 DEF FilesInv, Types
  <2>7. \A u \in Threads : u # t => fd_to'[u] = fd_to[u] /\ pc'[u] = pc[u]
    BY <2>1 DEF FilesInv, Types
  <2>8. fd_to'[t] = fd /\ fd_to[t] = NoFd /\ fd_from[t] # NoFd /\ fds'[fd] = i
        /\ off[t] = 0 /\ buf[t] = <<>>
    BY <2>1, <2>2, <2>3 DEF FilesInv, Types, Stage
  <2>9. Types'
    BY <2>1, <2>2, <2>3, <2>4, <2>5 DEF FilesInv, Types, Labels
  <2>10. Stage'
    BY <2>1, <2>2 DEF FilesInv, Stage, Types
  <2>11. Held'
    <3>1. fds'[fd] # Closed
      BY <2>3, <2>8, FilesAssumption
    <3>2. \A x \in Descriptors :
            fds'[x] = Closed <=> /\ x \notin left'
                                 /\ \A u \in Threads : x # fd_from'[u] /\ x # fd_to'[u]
      <4> SUFFICES ASSUME NEW x \in Descriptors
                   PROVE  fds'[x] = Closed <=>
                            /\ x \notin left'
                            /\ \A u \in Threads : x # fd_from'[u] /\ x # fd_to'[u]
        OBVIOUS
      <4>1. CASE x = fd
        BY <2>8, <3>1, <4>1
      <4>2. CASE x # fd
        <5>1. fds'[x] = fds[x] /\ x # NoFd
          BY <2>6, <4>2, FreshThings
        <5>2. \A u \in Threads : x # fd_to'[u] <=> x # fd_to[u]
          BY <2>7, <2>8, <4>2, <5>1
        <5> QED BY <2>1, <5>1, <5>2 DEF FilesInv, Held
      <4> QED BY <4>1, <4>2
    <3>3. \A u \in Threads : /\ fd_from'[u] \notin left' /\ fd_to'[u] \notin left'
                             /\ fd_from'[u] = fd_to'[u] => fd_from'[u] = NoFd
      BY <2>1, <2>2, <2>7, <2>8 DEF FilesInv, Held
    <3>4. \A u, v \in Threads :
            u # v => /\ fd_from'[u] = fd_from'[v] => fd_from'[u] = NoFd
                     /\ fd_to'[u] = fd_to'[v] => fd_to'[u] = NoFd
                     /\ fd_from'[u] = fd_to'[v] => fd_from'[u] = NoFd
      BY <2>1, <2>2, <2>7, <2>8 DEF FilesInv, Held
    <3> QED BY <3>2, <3>3, <3>4 DEF Held
  <2>12. \A u \in Threads : fd_from[u] # NoFd =>
           fd_from[u] \in Descriptors /\ fds'[fd_from[u]] = fds[fd_from[u]]
    BY <2>2, <2>6 DEF FilesInv, Types
  <2>13. \A u \in Threads : fd_to[u] # NoFd =>
           /\ u # t /\ fd_to[u] \in Descriptors /\ fds'[fd_to'[u]] = fds[fd_to[u]]
           /\ fd_from[u] # NoFd
    BY <2>2, <2>6, <2>7, <2>8 DEF FilesInv, Types, Stage, Labels
  <2>14. WritesAlone'
    <3>1. \A u \in Threads : u # t /\ fd_to'[u] # NoFd =>
            fd_to[u] # NoFd /\ fds'[fd_to'[u]] = fds[fd_to[u]] /\ fds[fd_to[u]] # i
      BY <2>3, <2>7, <2>13
    <3>2. fds'[fd_to'[t]] = i /\ fds'[fd_from[t]] # i
      BY <2>3, <2>8, <2>12
    <3>3. \A u \in Threads : u # t /\ fd_to'[u] # NoFd =>
            fds'[fd_from[u]] # fds'[fd_to'[u]] /\ fds'[fd_to'[u]] \in Inodes
      BY <2>12, <2>13, <3>1 DEF FilesInv, WritesAlone
    <3>4. \A u, v \in Threads : u # t /\ v # t /\ u # v /\ fd_to'[u] # NoFd /\ fd_to'[v] # NoFd
            => fds'[fd_to'[u]] # fds'[fd_to'[v]]
      BY <3>1 DEF FilesInv, WritesAlone
    <3> QED BY <2>1, <2>3, <3>1, <3>2, <3>3, <3>4 DEF WritesAlone
  <2>15. Copies'
    <3> SUFFICES ASSUME NEW u \in Threads, pc'[u] \in {"read", "write", "close"}
                 PROVE  Copying(u)'
      BY DEF Copies
    <3>1. CASE u = t
      <4>1. data'[i] = <<>> /\ Len(data'[i]) = 0
        BY <2>1, <2>3 DEF FilesInv, Types
      <4>2. fds'[fd_from'[t]] \in Inodes \cup {Dir} /\ pc'[t] = "read"
        BY <2>1, <2>8, <2>12 DEF FilesInv, Types, Held
      <4>3. fds'[fd_to'[t]] = i /\ off'[t] = 0 /\ buf'[t] = <<>>
        BY <2>1, <2>8
      <4>4. fds'[fd_from'[t]] # Dir => Reads(data'[fds'[fd_from'[t]]], <<>>, <<>>)
        BY <2>5, <4>2 DEF Reads
      <4> QED BY <3>1, <4>1, <4>2, <4>3, <4>4 DEF Copying
    <3>2. CASE u # t
      <4>1. pc[u] = pc'[u] /\ fd_to[u] # NoFd /\ fd_from[u] # NoFd /\ Copying(u)
        BY <2>7, <3>2 DEF FilesInv, Types, Stage, Copies
      <4>2. fds[fd_to[u]] \in Inodes /\ fds[fd_from[u]] \in Inodes \cup {Dir}
            /\ fds[fd_to[u]] # i /\ fds[fd_from[u]] # i
        BY <2>3, <2>12, <2>13, <4>1 DEF FilesInv, WritesAlone, Types, Held
      <4>3. data'[fds[fd_to[u]]] = data[fds[fd_to[u]]]
        BY <2>5, <4>2
      <4>4. fds[fd_from[u]] # Dir => Begins(data[fds[fd_from[u]]], data'[fds[fd_from[u]]])
        BY <2>5, <4>2 DEF Begins, FilesInv, Types
      <4>5. off'[u] = off[u] /\ buf'[u] = buf[u]
            /\ fds'[fd_from'[u]] = fds[fd_from[u]] /\ fds'[fd_to'[u]] = fds[fd_to[u]]
        BY <2>1, <2>12, <2>13, <4>1
      <4> QED BY <2>5, <4>1, <4>2, <4>3, <4>4, <4>5, KeepsCopying DEF FilesInv
    <3> QED BY <3>1, <3>2
  <2> QED BY <2>5, <2>9, <2>10, <2>11, <2>14, <2>15 DEF FilesInv
<1> QED BY <1>1, <1>2

LEMMA ReadBlocksStep ==
  ASSUME FilesInv, NEW t \in Threads, ReadBlocks(t)
  PROVE  /\ FilesInv'
         /\ pc'[t] = "close" => data[fds[fd_to[t]]] = data[fds[fd_from[t]]]
<1> DEFINE i == fds[fd_from[t]]
           j == fds[fd_to[t]]
           from == data[i]
           to   == data[j]
           rest == Len(from) - off[t]
           n    == IF rest < BufSize THEN rest ELSE BufSize
<1>1. /\ pc[t] = "read" /\ i # Dir
      /\ buf' = [buf EXCEPT ![t] = SubSeq(from, off[t] + 1, off[t] + n)]
      /\ off' = [off EXCEPT ![t] = off[t] + n]
      /\ pc' = [pc EXCEPT ![t] = IF n = 0 THEN "close" ELSE "write"]
      /\ UNCHANGED <<tree, data, fds, left, fd_from, fd_to>>
  BY DEF ReadBlocks, Goto
<1>2. /\ fd_from[t] # NoFd /\ fd_to[t] # NoFd /\ buf[t] = <<>>
      /\ i \in Inodes /\ j \in Inodes /\ from \in Seq(Int) /\ to \in Seq(Int)
  BY <1>1 DEF FilesInv, Stage, Types, Held, WritesAlone
<1>3. /\ off[t] = Len(to) /\ off[t] <= Len(from) /\ Len(from) \in Nat /\ off[t] \in Nat
      /\ \A m \in 1 .. Len(to) : to[m] = from[m]
  <2>1. Copying(t)
    BY <1>1 DEF FilesInv, Copies
  <2>2. Len(buf[t]) = 0 /\ Len(to) \in Nat
    BY <1>2
  <2> QED BY <1>1, <1>2, <2>1, <2>2 DEF Copying, Reads
<1> HIDE DEF i, j, from, to
<1>4. n \in Nat /\ off[t] + n <= Len(from) /\ (n = 0 => off[t] = Len(from))
  BY <1>3, FilesAssumption
<1> HIDE DEF n, rest
<1>5. /\ SubSeq(from, off[t] + 1, off[t] + n) \in Seq(Int)
      /\ Len(SubSeq(from, off[t] + 1, off[t] + n)) = n
      /\ \A m \in 1 .. n : SubSeq(from, off[t] + 1, off[t] + n)[m] = from[off[t] + m]
  BY <1>2, <1>3, <1>4
<1>6. Types'
  <2>1. (IF n = 0 THEN "close" ELSE "write") \in Labels
    BY DEF Labels
  <2>2. pc' \in [Threads -> Labels]
    BY <1>1, <2>1 DEF FilesInv, Types
  <2>3. off[t] + n \in Nat
    BY <1>3, <1>4
  <2>4. off' \in [Threads -> Nat] /\ buf' \in [Threads -> Seq(Int)]
    BY <1>1, <1>5, <2>3 DEF FilesInv, Types
  <2> QED BY <1>1, <2>2, <2>4 DEF FilesInv, Types
<1>7. /\ buf'[t] = SubSeq(from, off[t] + 1, off[t] + n) /\ off'[t] = off[t] + n
      /\ pc'[t] = IF n = 0 THEN "close" ELSE "write"
      /\ \A u \in Threads : u # t => buf'[u] = buf[u] /\ off'[u] = off[u] /\ pc'[u] = pc[u]
  BY <1>1 DEF FilesInv, Types
<1>8. n = 0 => buf'[t] = <<>>
  BY <1>2, <1>3, <1>7
<1>9. Stage'
  BY <1>1, <1>2, <1>7, <1>8 DEF FilesInv, Stage
<1>10. Held' /\ WritesAlone' /\ Unmixed'
  BY <1>1 DEF FilesInv, Held, WritesAlone, Unmixed
<1>11. Copies'
  <2> SUFFICES ASSUME NEW u \in Threads, pc'[u] \in {"read", "write", "close"}
               PROVE  Copying(u)'
    BY DEF Copies
  <2>1. CASE u = t
    <3>1. fds'[fd_from'[t]] = i /\ fds'[fd_to'[t]] = j /\ data'[i] = from /\ data'[j] = to
      BY <1>1 DEF i, j, from, to
    <3>2. i # Dir
      BY <1>1
    <3>3. Len(buf'[t]) = n /\ \A m \in 1 .. n : buf'[t][m] = from[Len(to) + m]
      BY <1>3, <1>5, <1>7
    <3>4. off'[t] = Len(to) + Len(buf'[t]) /\ off'[t] <= Len(from)
      BY <1>3, <1>4, <1>7, <3>3
    <3>5. Reads(from, to, buf'[t])
      BY <1>3, <3>3, <3>4 DEF Reads
    <3> QED BY <2>1, <3>1, <3>2, <3>4, <3>5 DEF Copying
  <2>2. CASE u # t
    <3>1. Copying(u)
      BY <1>7, <2>2 DEF FilesInv, Copies
    <3>2. pc'[u] = pc[u] /\ off'[u] = off[u] /\ buf'[u] = buf[u]
      BY <1>7, <2>2
    <3>3. data' = data /\ fds' = fds /\ fd_from' = fd_from /\ fd_to' = fd_to
      BY <1>1
    <3> QED BY <3>1, <3>2, <3>3 DEF Copying
  <2> QED BY <2>1, <2>2
<1>12. ASSUME pc'[t] = "close"
       PROVE  to = from
  <2>1. n = 0
    BY <1>7, <1>12
  <2>2. Len(to) = Len(from)
    BY <1>3, <1>4, <2>1
  <2> QED BY <1>2, <1>3, <2>2, BothBegin
<1> QED BY <1>6, <1>9, <1>10, <1>11, <1>12 DEF FilesInv, from, to, i, j

\* What write appends.
LEMMA Written ==
  ASSUME NEW from \in Seq(Int), NEW to \in Seq(Int), NEW b \in Seq(Int),
         Reads(from, to, b), NEW k \in 1 .. Len(b)
  PROVE  /\ to \o SubSeq(b, 1, k) \in Seq(Int) /\ SubSeq(b, k + 1, Len(b)) \in Seq(Int)
         /\ Len(to \o SubSeq(b, 1, k)) = Len(to) + k
         /\ Len(SubSeq(b, k + 1, Len(b))) = Len(b) - k
         /\ k = Len(b) => SubSeq(b, k + 1, Len(b)) = <<>>
         /\ Begins(to, to \o SubSeq(b, 1, k))
         /\ Begins(to \o SubSeq(b, 1, k), from)
         /\ Reads(from, to \o SubSeq(b, 1, k), SubSeq(b, k + 1, Len(b)))
<1> DEFINE head == SubSeq(b, 1, k)
           tail == SubSeq(b, k + 1, Len(b))
<1>0. /\ Len(from) \in Nat /\ Len(to) \in Nat /\ Len(b) \in Nat /\ k \in Nat
      /\ Len(to) + Len(b) <= Len(from)
      /\ \A n \in 1 .. Len(to) : to[n] = from[n]
      /\ \A n \in 1 .. Len(b) : b[n] = from[Len(to) + n]
  BY DEF Reads
<1>1. head \in Seq(Int) /\ Len(head) = k /\ \A n \in 1 .. k : head[n] = b[n]
  OBVIOUS
<1>2. tail \in Seq(Int) /\ Len(tail) = Len(b) - k
      /\ \A n \in 1 .. Len(b) - k : tail[n] = b[k + n]
  <2>1. tail \in Seq(Int)
    OBVIOUS
  <2>2. Len(tail) = Len(b) - k
    OBVIOUS
  <2>3. \A n \in 1 .. Len(b) - k : tail[n] = b[k + n]
    OBVIOUS
  <2> QED BY <2>1, <2>2, <2>3
<1>3. k = Len(b) => tail = <<>>
  BY <1>2
<1> HIDE DEF head, tail
<1>4. /\ to \o head \in Seq(Int) /\ Len(to \o head) = Len(to) + k
      /\ \A n \in 1 .. Len(to) : (to \o head)[n] = to[n]
      /\ \A n \in Len(to) + 1 .. Len(to) + k : (to \o head)[n] = head[n - Len(to)]
  <2>1. head \in Seq(Int) /\ Len(head) = k
    BY <1>1
  <2> QED BY <2>1, ConcatFacts, Z3
<1> DEFINE made == to \o head
<1> HIDE DEF made
<1>5. \A n \in 1 .. Len(to) + k : made[n] = from[n]
  <2> SUFFICES ASSUME NEW n \in 1 .. Len(to) + k
               PROVE  made[n] = from[n]
    OBVIOUS
  <2>1. CASE n <= Len(to)
    BY <1>0, <1>4, <2>1 DEF made
  <2>2. CASE n > Len(to)
    <3>1. n - Len(to) \in 1 .. k /\ n - Len(to) \in 1 .. Len(b)
          /\ Len(to) + (n - Len(to)) = n /\ n \in Len(to) + 1 .. Len(to) + k
      <4> DEFINE l == Len(to)
                 m == Len(b)
      <4>1. l \in Nat /\ m \in Nat /\ k \in 1 .. m /\ n \in 1 .. l + k /\ n > l
        BY <1>0, <2>2
      <4> HIDE DEF l, m
      <4>2. n - l \in 1 .. k /\ n - l \in 1 .. m /\ l + (n - l) = n /\ n \in l + 1 .. l + k
        BY <4>1
      <4> QED BY <4>2 DEF l, m
    <3> QED BY <1>0, <1>1, <1>4, <3>1 DEF made
  <2> QED BY <1>0, <2>1, <2>2
<1>6. \A n \in 1 .. Len(b) - k : tail[n] = from[Len(to) + k + n]
  <2> SUFFICES ASSUME NEW n \in 1 .. Len(b) - k
               PROVE  tail[n] = from[Len(to) + k + n]
    OBVIOUS
  <2>1. k + n \in 1 .. Len(b) /\ Len(to) + (k + n) = Len(to) + k + n
    BY <1>0
  <2> QED BY <1>0, <1>2, <2>1
<1>7. Begins(to, made) /\ Begins(made, from)
  <2>1. Len(made) = Len(to) + k /\ \A n \in 1 .. Len(to) : made[n] = to[n]
    BY <1>4 DEF made
  <2>2. Len(to) <= Len(to) + k /\ Len(to) + k <= Len(from)
    BY <1>0
  <2>3. Begins(to, made)
    BY <2>1, <2>2 DEF Begins
  <2>4. Begins(made, from)
    BY <1>5, <2>1, <2>2 DEF Begins
  <2> QED BY <2>3, <2>4
<1>8. Reads(from, made, tail)
  <2>1. Len(made) = Len(to) + k
    BY <1>4 DEF made
  <2> QED BY <1>0, <1>2, <1>5, <1>6, <2>1 DEF Reads
<1> QED BY <1>2, <1>3, <1>4, <1>7, <1>8 DEF made, head, tail

LEMMA BeginsTwice ==
  ASSUME NEW r \in Seq(Int), NEW s \in Seq(Int), NEW t \in Seq(Int), Begins(r, s), Begins(s, t)
  PROVE  Begins(r, t)
<1>1. Len(r) \in Nat /\ Len(s) \in Nat /\ Len(t) \in Nat
  OBVIOUS
<1>2. Len(r) <= Len(s) /\ Len(s) <= Len(t)
  BY DEF Begins
<1>3. ASSUME NEW n \in 1 .. Len(r) PROVE r[n] = t[n]
  <2>1. n \in 1 .. Len(s)
    BY <1>1, <1>2
  <2>2. r[n] = s[n] /\ s[n] = t[n]
    BY <2>1 DEF Begins
  <2> QED BY <2>2
<1>4. Len(r) <= Len(t)
  BY <1>1, <1>2
<1> QED BY <1>3, <1>4 DEF Begins

LEMMA WriteBlocksStep ==
  ASSUME FilesInv, NEW t \in Threads, WriteBlocks(t)
  PROVE  FilesInv'
<1> DEFINE i == fds[fd_from[t]]
           j == fds[fd_to[t]]
           from == data[i]
           to   == data[j]
           b    == buf[t]
<1>0. PICK k \in 1 .. Len(b) :
        /\ data' = [data EXCEPT ![j] = to \o SubSeq(b, 1, k)]
        /\ buf' = [buf EXCEPT ![t] = SubSeq(b, k + 1, Len(b))]
        /\ IF k = Len(b) THEN pc' = [pc EXCEPT ![t] = "read"] ELSE UNCHANGED pc
  BY DEF WriteBlocks, Goto, FilesInv, Types
<1>1. pc[t] = "write" /\ UNCHANGED <<tree, fds, left, fd_from, fd_to, off>>
  BY DEF WriteBlocks
<1>2. Copying(t)
  BY <1>1 DEF FilesInv, Copies
<1>3. /\ fd_from[t] # NoFd /\ fd_to[t] # NoFd /\ i # Dir /\ i # j
      /\ i \in Inodes /\ j \in Inodes /\ from \in Seq(Int) /\ to \in Seq(Int) /\ b \in Seq(Int)
      /\ off[t] = Len(to) + Len(b) /\ Reads(from, to, b)
  <2>1. fd_from[t] # NoFd /\ fd_to[t] # NoFd
    BY <1>1 DEF FilesInv, Stage
  <2>2. i # Dir
    BY <1>1, <1>2 DEF Copying
  <2>3. i \in Inodes /\ j \in Inodes /\ i # j
    BY <2>1, <2>2 DEF FilesInv, Types, Held, WritesAlone
  <2> QED BY <1>2, <2>1, <2>2, <2>3 DEF Copying, FilesInv, Types
<1> DEFINE made == to \o SubSeq(b, 1, k)
           rest == SubSeq(b, k + 1, Len(b))
<1>4. /\ made \in Seq(Int) /\ rest \in Seq(Int)
      /\ Len(made) = Len(to) + k /\ Len(rest) = Len(b) - k
      /\ k = Len(b) => rest = <<>>
      /\ Begins(to, made) /\ Begins(made, from) /\ Reads(from, made, rest)
  <2>1. k \in 1 .. Len(b)
    OBVIOUS
  <2> HIDE DEF from, to, b
  <2>2. from \in Seq(Int) /\ to \in Seq(Int) /\ b \in Seq(Int) /\ Reads(from, to, b)
    BY <1>3
  <2> QED BY <2>1, <2>2, Written, SMTT(30)
<1>5. Len(to) \in Nat /\ Len(b) \in Nat /\ k \in Nat
  BY <1>3
<1> HIDE DEF made, rest
<1>6. /\ data' = [data EXCEPT ![j] = made] /\ buf' = [buf EXCEPT ![t] = rest]
      /\ data'[j] = made /\ buf'[t] = rest
      /\ data' \in [Inodes -> Seq(Int)] /\ buf' \in [Threads -> Seq(Int)]
      /\ \A x \in Inodes : x # j => data'[x] = data[x]
      /\ \A u \in Threads : u # t => buf'[u] = buf[u]
  BY <1>0, <1>3, <1>4 DEF FilesInv, Types, made, rest
<1>7. /\ pc' \in [Threads -> Labels] /\ pc'[t] \in {"read", "write"}
      /\ pc'[t] = "read" => rest = <<>>
      /\ \A u \in Threads : u # t => pc'[u] = pc[u]
  BY <1>0, <1>1, <1>4 DEF FilesInv, Types, Labels
<1>8. Types'
  BY <1>1, <1>6, <1>7 DEF FilesInv, Types
<1>9. Stage'
  BY <1>1, <1>6, <1>7 DEF FilesInv, Stage
<1>10. Held' /\ WritesAlone'
  BY <1>1 DEF FilesInv, Held, WritesAlone
<1>11. Unmixed'
  <2> SUFFICES ASSUME NEW x \in Inodes
               PROVE  \E y \in Inodes : Begins(data'[x], InitialData[y])
    BY DEF Unmixed
  <2>1. CASE x = j
    <3>1. PICK y \in Inodes : Begins(from, InitialData[y])
      BY <1>3 DEF FilesInv, Unmixed
    <3>2. InitialData[y] \in Seq(Int)
      BY FilesAssumption
    <3>3. Begins(made, InitialData[y])
      <4> HIDE DEF from
      <4> QED BY <1>3, <1>4, <3>1, <3>2, BeginsTwice
    <3> QED BY <1>6, <2>1, <3>3
  <2>2. CASE x # j
    BY <1>6, <2>2 DEF FilesInv, Unmixed
  <2> QED BY <2>1, <2>2
<1>12. Copies'
  <2> SUFFICES ASSUME NEW u \in Threads, pc'[u] \in {"read", "write", "close"}
               PROVE  Copying(u)'
    BY DEF Copies
  <2>1. CASE u = t
    <3>1. fds'[fd_from'[t]] = i /\ fds'[fd_to'[t]] = j /\ data'[i] = from
      BY <1>1, <1>3, <1>6
    <3>2. off'[t] = Len(made) + Len(rest)
      <4>1. off'[t] = Len(to) + Len(b)
        BY <1>1, <1>3
      <4> HIDE DEF to, b
      <4> QED BY <1>4, <1>5, <4>1
    <3> HIDE DEF i, j, from
    <3> QED BY <1>3, <1>4, <1>6, <2>1, <3>1, <3>2 DEF Copying
  <2>2. CASE u # t
    <3>1. pc[u] = pc'[u] /\ fd_to[u] # NoFd /\ fd_from[u] # NoFd /\ Copying(u)
      BY <1>7, <2>2 DEF FilesInv, Types, Stage, Copies
    <3>2. fds[fd_to[u]] \in Inodes /\ fds[fd_from[u]] \in Inodes \cup {Dir}
          /\ fds[fd_to[u]] # j
      BY <1>3, <2>2, <3>1 DEF FilesInv, WritesAlone, Types, Held
    <3>3. data'[fds[fd_to[u]]] = data[fds[fd_to[u]]]
      BY <1>6, <3>2
    <3>4. fds[fd_from[u]] # Dir => Begins(data[fds[fd_from[u]]], data'[fds[fd_from[u]]])
      <4>1. CASE fds[fd_from[u]] = j
        BY <1>4, <1>6, <4>1
      <4>2. CASE fds[fd_from[u]] # j
        BY <1>6, <3>2, <4>2 DEF Begins, FilesInv, Types
      <4> QED BY <4>1, <4>2
    <3>5. off'[u] = off[u] /\ buf'[u] = buf[u]
          /\ fds'[fd_from'[u]] = fds[fd_from[u]] /\ fds'[fd_to'[u]] = fds[fd_to[u]]
      BY <1>1, <1>6, <2>2
    <3> QED BY <1>6, <3>1, <3>2, <3>3, <3>4, <3>5, KeepsCopying DEF FilesInv
  <2> QED BY <2>1, <2>2
<1> QED BY <1>8, <1>9, <1>10, <1>11, <1>12 DEF FilesInv

LEMMA CloseStep ==
  ASSUME FilesInv, NEW t \in Threads, CloseBoth(t) \/ CloseFails(t) \/ OutError(t)
  PROVE  FilesInv'
<1>1. PICK from \in {fd_from[t], NoFd} :
        /\ Close({fd_from[t], fd_to[t]} \ {from})
        /\ fd_from' = [fd_from EXCEPT ![t] = from]
        /\ fd_to' = [fd_to EXCEPT ![t] = NoFd]
        /\ pc[t] \in {"close", "out_error"}
        /\ \/ from = NoFd /\ pc' = [pc EXCEPT ![t] = "idle"]
              /\ off' = [off EXCEPT ![t] = 0] /\ buf' = [buf EXCEPT ![t] = <<>>]
           \/ from = fd_from[t] /\ pc' = [pc EXCEPT ![t] = "out_error"] /\ UNCHANGED <<off, buf>>
  <2>0. NoFd \notin Descriptors /\ fd_from[t] \in Descriptors /\ fd_to[t] # fd_from[t]
    <3>1. pc[t] \in {"close", "out_error"}
      BY DEF CloseBoth, CloseFails, OutError
    <3>2. fd_from[t] # NoFd
      BY <3>1 DEF FilesInv, Stage
    <3> QED BY <3>2, FreshThings DEF FilesInv, Held, Types
  <2>1. CASE CloseBoth(t) \/ OutError(t)
    <3>1. /\ Close({fd_from[t], fd_to[t]}) /\ pc[t] \in {"close", "out_error"}
          /\ fd_from' = [fd_from EXCEPT ![t] = NoFd]
          /\ fd_to' = [fd_to EXCEPT ![t] = NoFd] /\ pc' = [pc EXCEPT ![t] = "idle"]
          /\ off' = [off EXCEPT ![t] = 0] /\ buf' = [buf EXCEPT ![t] = <<>>]
      BY <2>1 DEF CloseBoth, OutError, Return, Goto
    <3>2. Close({fd_from[t], fd_to[t]} \ {NoFd})
      BY <2>0, <3>1 DEF Close
    <3> QED BY <3>1, <3>2
  <2>2. CASE CloseFails(t)
    <3>1. /\ Close({fd_to[t]}) /\ pc[t] = "close" /\ UNCHANGED <<fd_from, off, buf>>
          /\ fd_to' = [fd_to EXCEPT ![t] = NoFd] /\ pc' = [pc EXCEPT ![t] = "out_error"]
      BY <2>2 DEF CloseFails, Goto
    <3>2. {fd_from[t], fd_to[t]} \ {fd_from[t]} = {fd_to[t]}
      BY <2>0
    <3>3. fd_from' = [fd_from EXCEPT ![t] = fd_from[t]]
      BY <3>1 DEF FilesInv, Types
    <3> QED BY <3>1, <3>2, <3>3
  <2> QED BY <2>1, <2>2
<1>2. UNCHANGED <<tree, data, left>>
  BY DEF CloseBoth, CloseFails, OutError
<1> DEFINE ds == {fd_from[t], fd_to[t]} \ {from}
<1>3. /\ NoFd \notin Descriptors /\ fd_from[t] \in Descriptors /\ fd_to[t] # fd_from[t]
  <2>1. fd_from[t] # NoFd
    BY <1>1 DEF FilesInv, Stage
  <2> QED BY <2>1, FreshThings DEF FilesInv, Held, Types
<1>4. \A x \in Descriptors : fds'[x] = IF x \in ds THEN Closed ELSE fds[x]
  BY <1>1 DEF Close
<1>5. fds' \in [Descriptors -> Inodes \cup {Dir, Closed}]
  BY <1>1 DEF Close, FilesInv, Types
<1>6. /\ fd_from'[t] = from /\ fd_to'[t] = NoFd
      /\ \A u \in Threads : u # t => /\ fd_from'[u] = fd_from[u] /\ fd_to'[u] = fd_to[u]
                                     /\ pc'[u] = pc[u] /\ off'[u] = off[u] /\ buf'[u] = buf[u]
  BY <1>1 DEF FilesInv, Types
<1>7. Types'
  <2>1. pc' \in [Threads -> Labels]
    BY <1>1 DEF FilesInv, Types, Labels
  <2>2. off' \in [Threads -> Nat]
    <3>1. off \in [Threads -> Nat]
      BY DEF FilesInv, Types
    <3>2. off' = off \/ off' = [off EXCEPT ![t] = 0]
      BY <1>1
    <3> QED BY <3>1, <3>2
  <2>4. buf' \in [Threads -> Seq(Int)]
    <3>1. <<>> \in Seq(Int)
      OBVIOUS
    <3>2. buf \in [Threads -> Seq(Int)]
      BY DEF FilesInv, Types
    <3> QED BY <1>1, <3>1, <3>2
  <2>3. /\ fd_from' \in [Threads -> Descriptors \cup {NoFd}]
        /\ fd_to' \in [Threads -> Descriptors \cup {NoFd}]
    BY <1>1, <1>3 DEF FilesInv, Types
  <2> QED BY <1>2, <1>5, <2>1, <2>2, <2>3, <2>4 DEF FilesInv, Types
<1>8. Stage'
  BY <1>1, <1>3 DEF FilesInv, Stage, Types
<1>9. \A u \in Threads : u # t =>
        /\ fd_from[u] \notin ds \/ fd_from[u] = NoFd
        /\ fd_to[u] \notin ds \/ fd_to[u] = NoFd
  BY DEF FilesInv, Held
<1>10. Held'
  <2>1. \A x \in Descriptors :
          fds'[x] = Closed <=> /\ x \notin left
                               /\ \A u \in Threads : x # fd_from'[u] /\ x # fd_to'[u]
    <3> SUFFICES ASSUME NEW x \in Descriptors
                 PROVE  fds'[x] = Closed <=>
                          /\ x \notin left
                          /\ \A u \in Threads : x # fd_from'[u] /\ x # fd_to'[u]
      OBVIOUS
    <3>1. CASE x \in ds
      <4>1. fds'[x] = Closed /\ x # NoFd /\ x # from
        BY <1>3, <1>4, <3>1
      <4>2. x \notin left
        BY <3>1 DEF FilesInv, Held
      <4>3. \A u \in Threads : x # fd_from'[u] /\ x # fd_to'[u]
        BY <1>6, <1>9, <3>1, <4>1
      <4> QED BY <4>1, <4>2, <4>3
    <3>2. CASE x \notin ds
      <4>1. fds'[x] = fds[x] /\ x # NoFd
        BY <1>3, <1>4, <3>2
      <4>2. (x # fd_from'[t] /\ x # fd_to'[t]) <=> (x # fd_from[t] /\ x # fd_to[t])
        BY <1>6, <3>2, <4>1
      <4>3. \A u \in Threads : (x # fd_from'[u] /\ x # fd_to'[u])
                                 <=> (x # fd_from[u] /\ x # fd_to[u])
        BY <1>6, <4>2
      <4> QED BY <4>1, <4>3 DEF FilesInv, Held
    <3> QED BY <3>1, <3>2
  <2>2. \A u \in Threads : /\ fd_from'[u] \notin left /\ fd_to'[u] \notin left
                           /\ fd_from'[u] = fd_to'[u] => fd_from'[u] = NoFd
    <3>1. NoFd \notin left
      BY <1>3 DEF FilesInv, Types
    <3>2. \A u \in Threads : /\ fd_from[u] \notin left /\ fd_to[u] \notin left
                             /\ fd_from[u] = fd_to[u] => fd_from[u] = NoFd
      BY DEF FilesInv, Held
    <3> QED BY <1>6, <3>1, <3>2
  <2>3. \A u, v \in Threads :
          u # v => /\ fd_from'[u] = fd_from'[v] => fd_from'[u] = NoFd
                   /\ fd_to'[u] = fd_to'[v] => fd_to'[u] = NoFd
                   /\ fd_from'[u] = fd_to'[v] => fd_from'[u] = NoFd
    BY <1>6 DEF FilesInv, Held
  <2> QED BY <1>2, <2>1, <2>2, <2>3 DEF Held
<1>11. \A u \in Threads : fd_to'[u] # NoFd =>
         /\ u # t /\ fd_to[u] # NoFd
         /\ fds'[fd_to'[u]] = fds[fd_to[u]] /\ fds'[fd_from'[u]] = fds[fd_from[u]]
         /\ fd_from[u] \in Descriptors /\ fd_to[u] \in Descriptors
  BY <1>3, <1>4, <1>6, <1>9 DEF FilesInv, Types, Stage, Labels
<1>12. WritesAlone'
  BY <1>11 DEF FilesInv, WritesAlone
<1>13. Copies'
  <2> SUFFICES ASSUME NEW u \in Threads, pc'[u] \in {"read", "write", "close"}
               PROVE  Copying(u)'
    BY DEF Copies
  <2>1. u # t
    BY <1>1 DEF FilesInv, Types
  <2>2. pc'[u] = pc[u] /\ off'[u] = off[u] /\ buf'[u] = buf[u] /\ fd_to'[u] # NoFd
        /\ Copying(u)
    BY <1>6, <2>1 DEF FilesInv, Stage, Copies
  <2>3. fds'[fd_to'[u]] = fds[fd_to[u]] /\ fds'[fd_from'[u]] = fds[fd_from[u]] /\ data' = data
    BY <1>2, <1>11, <2>2
  <2> QED BY <2>2, <2>3 DEF Copying
<1>14. Unmixed'
  BY <1>2 DEF FilesInv, Unmixed
<1> QED BY <1>7, <1>8, <1>10, <1>12, <1>13, <1>14 DEF FilesInv

LEMMA NextInv ==
  ASSUME FilesInv, [Next]_vars
  PROVE  FilesInv'
<1>1. ASSUME NEW t \in Threads, MakeFileOpen(t) PROVE FilesInv'
  BY <1>1, MakeFileOpenStep
<1>2. ASSUME NEW t \in Threads, OpenFrom(t) PROVE FilesInv'
  BY <1>2, OpenFromStep
<1>3. ASSUME NEW t \in Threads, OpenTo(t) PROVE FilesInv'
  BY <1>3, OpenToStep
<1>4. ASSUME NEW t \in Threads, ReadBlocks(t) PROVE FilesInv'
  BY <1>4, ReadBlocksStep
<1>5. ASSUME NEW t \in Threads, WriteBlocks(t) PROVE FilesInv'
  BY <1>5, WriteBlocksStep
<1>6. CASE UNCHANGED vars
  <2>1. Types' /\ Stage' /\ Held'
    BY <1>6 DEF vars, FilesInv, Types, Stage, Held
  <2>2. WritesAlone' /\ Copies' /\ Unmixed'
    BY <1>6 DEF vars, FilesInv, WritesAlone, Copies, Copying, Unmixed
  <2> QED BY <2>1, <2>2 DEF FilesInv
<1> QED
  BY <1>1, <1>2, <1>3, <1>4, <1>5, <1>6, MakeDirStep, QuietCopyStep, CloseStep DEF Next

-----------------------------------------------------------------------------
(* The theorems.                                                            *)

\* In every reachable state descriptors have one holder, and a copy in progress
\* has written and buffered what it has read, to a file of its own.
THEOREM Invariance == Spec => []FilesInv
<1>1. Init => FilesInv
  BY InitInv
<1>2. FilesInv /\ [Next]_vars => FilesInv'
  BY NextInv
<1> QED
  BY <1>1, <1>2, PTL DEF Spec

LEMMA HeldOnce == ASSUME FilesInv PROVE EveryDescriptorHeld
<1> DEFINE held(t) == {fd_from[t], fd_to[t]} \ {NoFd}
<1>1. \A t \in Threads : held(t) \subseteq Descriptors
  BY DEF FilesInv, Types
<1>2. {fd \in Descriptors : fds[fd] # Closed} = left \cup UNION {held(t) : t \in Threads}
  <2>1. ASSUME NEW fd \in Descriptors
        PROVE  fds[fd] # Closed <=> fd \in left \/ \E t \in Threads : fd \in held(t)
    <3>1. fd # NoFd
      BY FreshThings
    <3> QED BY <3>1 DEF FilesInv, Held
  <2>2. left \subseteq Descriptors
    BY DEF FilesInv, Types
  <2> HIDE DEF held
  <2> QED BY <1>1, <2>1, <2>2
<1>3. \A t \in Threads : held(t) \cap left = {}
  BY DEF FilesInv, Held
<1>4. \A t, u \in Threads : t # u => held(t) \cap held(u) = {}
  BY DEF FilesInv, Held
<1> QED BY <1>2, <1>3, <1>4 DEF EveryDescriptorHeld

\* No copy keeps a descriptor after it has ended, at whatever step it failed,
\* and none closes a descriptor of another thread.
THEOREM DescriptorsHeld == Spec => []EveryDescriptorHeld
<1>1. FilesInv => EveryDescriptorHeld
  BY HeldOnce
<1> QED
  BY <1>1, Invariance, PTL

LEMMA NoneMixed == ASSUME FilesInv PROVE NeverMixed
<1> SUFFICES ASSUME NEW i \in Inodes
             PROVE  \E j \in Inodes : IsPrefix(data[i], InitialData[j])
  BY DEF NeverMixed
<1>1. PICK j \in Inodes : Begins(data[i], InitialData[j])
  BY DEF FilesInv, Unmixed
<1> DEFINE s == data[i]
           t == InitialData[j]
<1>2. s \in Seq(Int) /\ t \in Seq(Int) /\ Begins(s, t)
  BY <1>1, FilesAssumption DEF FilesInv, Types
<1> HIDE DEF s, t
<1>3. SubSeq(s, 1, Len(s)) = SubSeq(t, 1, Len(s))
  <2>1. /\ Len(s) \in Nat /\ Len(t) \in Nat /\ Len(s) <= Len(t)
        /\ \A n \in 1 .. Len(s) : s[n] = t[n]
    BY <1>2 DEF Begins
  <2>2. /\ SubSeq(s, 1, Len(s)) \in Seq(Int) /\ Len(SubSeq(s, 1, Len(s))) = Len(s)
        /\ \A n \in 1 .. Len(s) : SubSeq(s, 1, Len(s))[n] = s[n]
    BY <1>2
  <2>3. /\ SubSeq(t, 1, Len(s)) \in Seq(Int) /\ Len(SubSeq(t, 1, Len(s))) = Len(s)
        /\ \A n \in 1 .. Len(s) : SubSeq(t, 1, Len(s))[n] = t[n]
    BY <1>2, <2>1
  <2> QED BY <2>1, <2>2, <2>3, BothBegin
<1>4. IsPrefix(s, t)
  BY <1>2, <1>3 DEF IsPrefix, Begins
<1> QED BY <1>4 DEF s, t

\* However copies overlap, a file only ever holds the beginning of one of the
\* contents there were.
THEOREM CopiesNeverMix == Spec => []NeverMixed
<1>1. FilesInv => NeverMixed
  BY NoneMixed
<1> QED
  BY <1>1, Invariance, PTL

LEMMA ExactStep ==
  ASSUME FilesInv, [Next]_vars, NEW t \in Threads, pc[t] = "read", pc'[t] = "close"
  PROVE  data[fds[fd_to[t]]] = data[fds[fd_from[t]]]
<1>1. ASSUME NEW u \in Threads, NEW label, label # "close", pc' = [pc EXCEPT ![u] = label]
      PROVE  FALSE
  BY <1>1 DEF FilesInv, Types
<1>2. ASSUME NEW u \in Threads, NEW r, Return(u, r)
      PROVE  FALSE
  BY <1>1, <1>2 DEF Return, Goto
<1>3. CASE UNCHANGED pc
  BY <1>3
<1>4. ASSUME NEW u \in Threads, ReadBlocks(u)
      PROVE  data[fds[fd_to[t]]] = data[fds[fd_from[t]]]
  <2>1. CASE u = t
    BY <1>4, <2>1, ReadBlocksStep
  <2>2. CASE u # t
    BY <1>4, <2>2 DEF ReadBlocks, Goto, FilesInv, Types
  <2> QED BY <2>1, <2>2
<1>5. ASSUME NEW u \in Threads,
             CallMakeDir(u) \/ CallMakeFile(u) \/ CallFileCopy(u) \/ RemoveDst(u)
               \/ ReadFails(u) \/ WriteFails(u) \/ CloseFails(u) \/ WriteBlocks(u)
      PROVE  FALSE
  BY <1>1, <1>3, <1>5
  DEF CallMakeDir, CallMakeFile, CallFileCopy, RemoveDst, ReadFails, WriteFails, CloseFails,
      WriteBlocks, Goto
<1>6. ASSUME NEW u \in Threads,
             MakeFileOpen(u) \/ DirCopy(u) \/ CloseBoth(u) \/ OutError(u)
      PROVE  FALSE
  BY <1>2, <1>6 DEF MakeFileOpen, DirCopy, CloseBoth, OutError
<1>7. ASSUME NEW u \in Threads, OpenFrom(u) \/ OpenTo(u)
      PROVE  FALSE
  BY <1>1, <1>2, <1>7 DEF OpenFrom, OpenTo, Goto
<1>8. ASSUME NEW u \in Threads, MakeDirCheck(u) \/ MakeDirMkdir(u)
      PROVE  FALSE
  BY <1>1, <1>2, <1>3, <1>8 DEF MakeDirCheck, MakeDirMkdir, MakeDirReturns, Goto
<1> QED
  BY <1>3, <1>4, <1>5, <1>6, <1>7, <1>8 DEF Next, vars

\* A copy that comes to the end of its source has copied all of it.
THEOREM CopiesAreExact == Spec => CopyExact
<1>1. FilesInv /\ [Next]_vars =>
        [\A t \in Threads : pc[t] = "read" /\ pc'[t] = "close" =>
           data[fds[fd_to[t]]] = data[fds[fd_from[t]]]]_vars
  BY ExactStep
<1> QED
  BY <1>1, Invariance, PTL DEF Spec, CopyExact
=============================================================================
