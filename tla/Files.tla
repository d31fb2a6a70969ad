-------------------------------- MODULE Files --------------------------------
(***************************************************************************)
(* cpp_lib/util/file/file.cc: making directories and files, listing and    *)
(* copying them, by threads that share a file system.                      *)
(*                                                                         *)
(* A path is the sequence of the parts of its string between the slashes:  *)
(* "a/b" is <<"a", "b">>, "/a" is <<"", "a">>, "a/" is <<"a", "">> and the *)
(* empty string <<"">>.  A place in the file system is a path without a    *)
(* slash at its end: <<>> is the working directory, <<"">> the root.  Of   *)
(* the system calls the model has what the code can notice; links, modes   *)
(* and special files are left out.                                         *)
(***************************************************************************)
EXTENDS Integers, Sequences, SequencesExt, Functions

CONSTANTS
  Threads,
  Calls,        \* the calls they make: records of op, path or src and dst
  Inodes,       \* the files the disk has room for
  InitialTree,  \* the places that exist, each Dir or an inode
  InitialData,  \* the contents of the inodes
  Dir,          \* a directory
  Closed,       \* a descriptor that is not in use
  NoCall,
  MaxFds,       \* the descriptors a process may have
  BufSize,      \* sizeof buf, in blocks
  MaxCalls      \* bound of the number of calls

ASSUME FilesAssumption ==
  /\ Dir \notin Inodes /\ Closed \notin Inodes /\ Dir # Closed
  /\ InitialData \in [Inodes -> Seq(Int)]
  /\ \A q \in DOMAIN InitialTree : InitialTree[q] \in Inodes \cup {Dir}
  /\ MaxFds \in Nat
  /\ BufSize \in Nat \ {0}

VARIABLES
  tree,     \* the places that exist
  data,     \* inode |-> its blocks
  fds,      \* descriptor |-> what it is open on
  left,     \* the descriptors whose call has returned (for the properties)
  calls,    \* the number of calls made
  call,     \* the call of a thread
  pc,
  frames,   \* the paths of the nested calls of MakeDir, the innermost last
  fd_from, fd_to,
  off,      \* the offset of fd_from
  buf,      \* what of buf is still to be written
  result    \* what the last call returned

vars == <<tree, data, fds, left, calls, call, pc, frames, fd_from, fd_to, off, buf, result>>
copyVars == <<fd_from, fd_to, off, buf>>

Descriptors == 1 .. MaxFds
NoFd == -1

-----------------------------------------------------------------------------
(* The file system.                                                         *)

NoPlace == <<"", "">>

Place(path) ==
  IF path = <<"">> THEN NoPlace
  ELSE IF Last(path) = "" THEN Front(path) ELSE path

\* With a slash at its end a path can only be that of a directory.
Exists(path) ==
  /\ Place(path) \in DOMAIN tree
  /\ Last(path) = "" => tree[Place(path)] = Dir
IsDir(path)  == Exists(path) /\ tree[Place(path)] = Dir
IsReg(path)  == Exists(path) /\ tree[Place(path)] # Dir

Children(place) ==
  {q \in DOMAIN tree : q # <<>> /\ q # <<"">> /\ Front(q) = place}

\* Whether an entry can be made at a path.
HasRoom(path) ==
  /\ Place(path) # NoPlace
  /\ Place(path) \notin DOMAIN tree
  /\ Front(Place(path)) \in DOMAIN tree
  /\ tree[Front(Place(path))] = Dir

Put(t, place, entry) ==
  [q \in DOMAIN t \cup {place} |-> IF q = place THEN entry ELSE t[q]]

\* An inode lives while it has a name or is open.
FreeInodes ==
  {i \in Inodes : /\ \A q \in DOMAIN tree : tree[q] # i
                  /\ \A fd \in Descriptors : fds[fd] # i}

FreeFds == {fd \in Descriptors : fds[fd] = Closed}

\* The numbers of descriptors and inodes are immaterial.
AnyOf(S) == CHOOSE x \in S : TRUE

IsFileExist(path) == IsReg(path)
IsDirExist(path)  == IsDir(path)
AlreadyThere(path) == IsDirExist(path) \/ IsFileExist(path)

TypeOK ==
  /\ \A q \in DOMAIN tree : tree[q] \in Inodes \cup {Dir}
  /\ data \in [Inodes -> Seq(UNION {Range(InitialData[i]) : i \in Inodes})]
  /\ fds \in [Descriptors -> Inodes \cup {Dir, Closed}]
  /\ left \subseteq Descriptors
  /\ calls \in 0 .. MaxCalls
  /\ call \in [Threads -> Calls \cup {NoCall}]
  /\ pc \in [Threads -> {"idle", "check", "mkdir", "open", "open_from", "remove",
                         "open_to", "read", "write", "close", "out_error"}]
  /\ fd_from \in [Threads -> Descriptors \cup {NoFd}]
  /\ fd_to \in [Threads -> Descriptors \cup {NoFd}]
  /\ result \in [Threads -> BOOLEAN]

Init ==
  /\ tree = InitialTree
  /\ data = InitialData
  /\ fds = [fd \in Descriptors |-> Closed]
  /\ left = {}
  /\ calls = 0
  /\ call = [t \in Threads |-> NoCall]
  /\ pc = [t \in Threads |-> "idle"]
  /\ frames = [t \in Threads |-> <<>>]
  /\ fd_from = [t \in Threads |-> NoFd]
  /\ fd_to = [t \in Threads |-> NoFd]
  /\ off = [t \in Threads |-> 0]
  /\ buf = [t \in Threads |-> <<>>]
  /\ result = [t \in Threads |-> FALSE]

Goto(t, label) == pc' = [pc EXCEPT ![t] = label]

\* The call of a thread returns r; its locals are gone.
Return(t, r) ==
  /\ Goto(t, "idle")
  /\ call' = [call EXCEPT ![t] = NoCall]
  /\ frames' = [frames EXCEPT ![t] = <<>>]
  /\ fd_from' = [fd_from EXCEPT ![t] = NoFd]
  /\ fd_to' = [fd_to EXCEPT ![t] = NoFd]
  /\ off' = [off EXCEPT ![t] = 0]
  /\ buf' = [buf EXCEPT ![t] = <<>>]
  /\ result' = [result EXCEPT ![t] = r]

\* A thread without a call makes one.
MayCall(t) ==
  /\ pc[t] = "idle"
  /\ calls < MaxCalls
  /\ calls' = calls + 1

-----------------------------------------------------------------------------
(* MakeDir and MakeFile.                                                    *)

\* The path without a slash at its end, and whether it has another one.
Trimmed(path) == IF Len(path) > 1 /\ Last(path) = "" THEN Front(path) ELSE path
HasBase(path) == Len(Trimmed(path)) > 1
BaseDir(path) == Front(Trimmed(path))

\* MakeFile looks for the last slash without trimming.
HasSlash(path) == Len(path) > 1

CallMakeDir(t) ==
  /\ MayCall(t)
  /\ \E c \in Calls :
       /\ c.op = "MakeDir"
       /\ call' = [call EXCEPT ![t] = c]
       /\ frames' = [frames EXCEPT ![t] = <<c.path>>]
  /\ Goto(t, "check")
  /\ UNCHANGED <<tree, data, fds, left, copyVars, result>>

\* A path without a slash is not made.
CallMakeFile(t) ==
  /\ MayCall(t)
  /\ \E c \in Calls :
       /\ c.op = "MakeFile"
       /\ ~ AlreadyThere(c.path)
       /\ HasSlash(c.path)
       /\ call' = [call EXCEPT ![t] = c]
       /\ frames' = [frames EXCEPT ![t] = <<Front(c.path)>>]
  /\ Goto(t, "check")
  /\ UNCHANGED <<tree, data, fds, left, copyVars, result>>

\* The outermost MakeDir returns r: to the caller, or to MakeFile, which
\* ignores it.
MakeDirReturns(t, r) ==
  IF call[t].op = "MakeDir" THEN Return(t, r)
  ELSE /\ Goto(t, "open")
       /\ frames' = [frames EXCEPT ![t] = <<>>]
       /\ UNCHANGED <<call, copyVars, result>>

\* One call of the nest looks whether its path exists.  If it does, it returns
\* false, and so do those that called it.
MakeDirCheck(t) ==
  LET path == Last(frames[t]) IN
  /\ pc[t] = "check"
  /\ IF AlreadyThere(path) THEN MakeDirReturns(t, FALSE)
     ELSE IF HasBase(path)
       THEN /\ frames' = [frames EXCEPT ![t] = Append(@, BaseDir(path))]
            /\ UNCHANGED <<call, pc, copyVars, result>>
       ELSE Goto(t, "mkdir") /\ UNCHANGED <<call, frames, copyVars, result>>
  /\ UNCHANGED <<calls, tree, data, fds, left>>

\* mkdir on the way back.
MakeDirMkdir(t) ==
  LET path == Last(frames[t]) IN
  /\ pc[t] = "mkdir"
  /\ IF ~ HasRoom(path) THEN MakeDirReturns(t, FALSE) /\ UNCHANGED tree
     ELSE /\ tree' = Put(tree, Place(path), Dir)
          /\ IF Len(frames[t]) = 1 THEN MakeDirReturns(t, TRUE)
             ELSE /\ frames' = [frames EXCEPT ![t] = Front(@)]
                  /\ UNCHANGED <<call, pc, copyVars, result>>
  /\ UNCHANGED <<calls, data, fds, left>>

\* open with O_CREAT.  Its result, a descriptor or -1, is returned as a bool:
\* true (descriptor 0 is the standard input).  The descriptor is never closed.
MakeFileOpen(t) ==
  LET path == call[t].path IN
  /\ pc[t] = "open"
  /\ IF /\ FreeFds # {} /\ Last(path) # ""
        /\ IsReg(path) \/ (HasRoom(path) /\ FreeInodes # {})
       THEN LET fd == AnyOf(FreeFds)
                i  == IF IsReg(path) THEN tree[Place(path)]
                      ELSE AnyOf(FreeInodes)
            IN  /\ tree' = Put(tree, Place(path), i)
                /\ data' = IF IsReg(path) THEN data ELSE [data EXCEPT ![i] = <<>>]
                /\ fds' = [fds EXCEPT ![fd] = i]
                /\ left' = left \cup {fd}
       ELSE UNCHANGED <<tree, data, fds, left>>
  /\ Return(t, TRUE)
  /\ UNCHANGED calls

-----------------------------------------------------------------------------
(* FileCopy.                                                                *)

CallFileCopy(t) ==
  /\ MayCall(t)
  /\ \E c \in Calls :
       /\ c.op = "FileCopy"
       /\ call' = [call EXCEPT ![t] = c]
  /\ Goto(t, "open_from")
  /\ UNCHANGED <<tree, data, fds, left, frames, copyVars, result>>

\* A directory can be opened for reading, too.
OpenFrom(t) ==
  LET src == call[t].src IN
  /\ pc[t] = "open_from"
  /\ IF Exists(src) /\ FreeFds # {}
       THEN /\ fds' = [fds EXCEPT ![AnyOf(FreeFds)] = tree[Place(src)]]
            /\ fd_from' = [fd_from EXCEPT ![t] = AnyOf(FreeFds)]
            /\ Goto(t, "remove")
            /\ UNCHANGED <<call, frames, fd_to, off, buf, result>>
       ELSE Return(t, FALSE) /\ UNCHANGED fds
  /\ UNCHANGED <<calls, tree, data, left>>

\* remove() takes away a file or an empty directory.
RemoveDst(t) ==
  LET dst == call[t].dst IN
  /\ pc[t] = "remove"
  /\ tree' = IF Exists(dst) /\ Children(Place(dst)) = {}
               THEN [q \in DOMAIN tree \ {Place(dst)} |-> tree[q]] ELSE tree
  /\ Goto(t, "open_to")
  /\ UNCHANGED <<calls, data, fds, left, call, frames, copyVars, result>>

\* Mutant: O_TRUNC instead of O_EXCL.
OpenTo_Truncates(t) ==
  LET dst == call[t].dst IN
  /\ pc[t] = "open_to"
  /\ IF FreeFds # {} /\ (IsReg(dst) \/ (HasRoom(dst) /\ FreeInodes # {}))
       THEN LET fd == AnyOf(FreeFds)
                i  == IF IsReg(dst) THEN tree[Place(dst)]
                      ELSE AnyOf(FreeInodes)
            IN  /\ tree' = Put(tree, Place(dst), i)
                /\ data' = [data EXCEPT ![i] = <<>>]
                /\ fds' = [fds EXCEPT ![fd] = i]
                /\ fd_to' = [fd_to EXCEPT ![t] = fd]
                /\ Goto(t, "read")
       ELSE Goto(t, "out_error") /\ UNCHANGED <<tree, data, fds, fd_to>>
  /\ UNCHANGED <<calls, left, call, frames, fd_from, off, buf, result>>

\* open with O_CREAT and O_EXCL: a file of its own, or none.
OpenTo(t) ==
  LET dst == call[t].dst IN
  /\ pc[t] = "open_to"
  /\ IF FreeFds # {} /\ Last(dst) # "" /\ HasRoom(dst) /\ FreeInodes # {}
       THEN LET fd == AnyOf(FreeFds)
                i  == AnyOf(FreeInodes)
            IN  /\ tree' = Put(tree, Place(dst), i)
                /\ data' = [data EXCEPT ![i] = <<>>]
                /\ fds' = [fds EXCEPT ![fd] = i]
                /\ fd_to' = [fd_to EXCEPT ![t] = fd]
                /\ Goto(t, "read")
       ELSE Goto(t, "out_error") /\ UNCHANGED <<tree, data, fds, fd_to>>
  /\ UNCHANGED <<calls, left, call, frames, fd_from, off, buf, result>>

\* read: the next blocks, nothing at the end of the file, or an error, as for
\* every read of a directory.
ReadBlocks(t) ==
  LET i == fds[fd_from[t]] IN
  /\ pc[t] = "read"
  /\ i # Dir
  /\ LET rest == Len(data[i]) - off[t]
         n == IF rest < BufSize THEN rest ELSE BufSize IN
       /\ buf' = [buf EXCEPT ![t] = SubSeq(data[i], off[t] + 1, off[t] + n)]
       /\ off' = [off EXCEPT ![t] = @ + n]
       /\ Goto(t, IF n = 0 THEN "close" ELSE "write")
  /\ UNCHANGED <<calls, tree, data, fds, left, call, frames, fd_from, fd_to, result>>

ReadFails(t) ==
  /\ pc[t] = "read"
  /\ Goto(t, "out_error")
  /\ UNCHANGED <<calls, tree, data, fds, left, call, frames, copyVars, result>>

\* Mutant: a short write is taken for a whole one.
WriteBlocks_Once(t) ==
  LET i == fds[fd_to[t]] IN
  /\ pc[t] = "write"
  /\ \E n \in 1 .. Len(buf[t]) :
       data' = [data EXCEPT ![i] = @ \o SubSeq(buf[t], 1, n)]
  /\ buf' = [buf EXCEPT ![t] = <<>>]
  /\ Goto(t, "read")
  /\ UNCHANGED <<calls, tree, fds, left, call, frames, fd_from, fd_to, off, result>>

\* write takes some of the blocks.  One that takes none, or is interrupted, is
\* made again, and changes nothing.
WriteBlocks(t) ==
  LET i == fds[fd_to[t]] IN
  /\ pc[t] = "write"
  /\ \E n \in 1 .. Len(buf[t]) :
       /\ data' = [data EXCEPT ![i] = @ \o SubSeq(buf[t], 1, n)]
       /\ buf' = [buf EXCEPT ![t] = SubSeq(@, n + 1, Len(@))]
       /\ IF n = Len(buf[t]) THEN Goto(t, "read") ELSE UNCHANGED pc
  /\ UNCHANGED <<calls, tree, fds, left, call, frames, fd_from, fd_to, off, result>>

\* The disk is full, say.
WriteFails(t) ==
  /\ pc[t] = "write"
  /\ Goto(t, "out_error")
  /\ UNCHANGED <<calls, tree, data, fds, left, call, frames, copyVars, result>>

Close(ds) == fds' = [fd \in Descriptors |-> IF fd \in ds THEN Closed ELSE fds[fd]]

\* At the end of src both are closed.  close(fd_to) may fail and has closed
\* the descriptor even so; then out_error does not close it again.
CloseBoth(t) ==
  /\ pc[t] = "close"
  /\ Close({fd_from[t], fd_to[t]})
  /\ Return(t, TRUE)
  /\ UNCHANGED <<calls, tree, data, left>>

CloseFails(t) ==
  /\ pc[t] = "close"
  /\ Close({fd_to[t]})
  /\ fd_to' = [fd_to EXCEPT ![t] = NoFd]
  /\ Goto(t, "out_error")
  /\ UNCHANGED <<calls, tree, data, left, call, frames, fd_from, off, buf, result>>

\* Mutant: only fd_from is closed.
OutError_KeepsTo(t) ==
  /\ pc[t] = "out_error"
  /\ Close({fd_from[t]})
  /\ Return(t, FALSE)
  /\ UNCHANGED <<calls, tree, data, left>>

\* What has been copied stays.
OutError(t) ==
  /\ pc[t] = "out_error"
  /\ Close({fd_from[t], fd_to[t]})
  /\ Return(t, FALSE)
  /\ UNCHANGED <<calls, tree, data, left>>

-----------------------------------------------------------------------------
(* DirCopy.                                                                 *)

\* The regular files below a directory, if one more descriptor can be had.
RecursiveListAllFiles(path) ==
  IF IsDir(path) /\ FreeFds # {}
    THEN [ok |-> TRUE,
          files |-> {q \in DOMAIN tree : IsStrictPrefix(Place(path), q) /\ tree[q] # Dir}]
    ELSE [ok |-> FALSE, files |-> {}]

\* files is passed by value: the list goes into a copy, the caller's stays.
ListAllFiles(path, files) == [ok |-> RecursiveListAllFiles(path).ok, files |-> files]

\* So there is nothing to loop over: DirCopy makes no file, and says whether
\* src could be listed.
DirCopy(t) ==
  /\ MayCall(t)
  /\ \E c \in Calls :
       /\ c.op = "DirCopy"
       /\ LET fs == ListAllFiles(c.src, {}) IN
            fs.files = {} /\ Return(t, fs.ok)
  /\ UNCHANGED <<tree, data, fds, left>>

Next ==
  \E t \in Threads :
    \/ CallMakeDir(t) \/ CallMakeFile(t) \/ MakeDirCheck(t) \/ MakeDirMkdir(t)
    \/ MakeFileOpen(t)
    \/ CallFileCopy(t) \/ OpenFrom(t) \/ RemoveDst(t) \/ OpenTo(t)
    \/ ReadBlocks(t) \/ ReadFails(t) \/ WriteBlocks(t) \/ WriteFails(t)
    \/ CloseBoth(t) \/ CloseFails(t) \/ OutError(t)
    \/ DirCopy(t)

Spec == Init /\ [][Next]_vars
-----------------------------------------------------------------------------
\* A copy that comes to the end of its source has made a file with the same
\* blocks: whatever other threads remove, make or are still writing, also when
\* source and destination are one path, and when the source is the unfinished
\* copy of another thread.
CopyExact ==
  [][\A t \in Threads : pc[t] = "read" /\ pc'[t] = "close" =>
       data[fds[fd_to[t]]] = data[fds[fd_from[t]]]]_vars

\* Two copies to one destination never mix: what any file holds is one of the
\* contents there were, or the beginning of one.
NeverMixed ==
  \A i \in Inodes : \E j \in Inodes : IsPrefix(data[i], InitialData[j])

\* Every open descriptor is that of one copy in progress, or one that MakeFile
\* has left open; no copy closes what is not its own, and none that has failed,
\* at whatever step, keeps one.
EveryDescriptorHeld ==
  LET held(t) == {fd_from[t], fd_to[t]} \ {NoFd} IN
  /\ {fd \in Descriptors : fds[fd] # Closed} = left \cup UNION {held(t) : t \in Threads}
  /\ \A t \in Threads : held(t) \cap left = {}
  /\ \A t, u \in Threads : t # u => held(t) \cap held(u) = {}
=============================================================================
