---------------------------- MODULE DoubleBuffer ----------------------------
(***************************************************************************)
(* DoubleBuffer<T> and its specialisation DoubleBuffer<std::shared_ptr<T>>,*)
(* used the way ReloadableJson and ReloadableConfig use the latter: a load *)
(* writes the object that Next() returns and, if it succeeds, calls        *)
(* Switch(), while Readers call Get() and use what it returned for as long *)
(* as they like.                                                           *)
(*                                                                         *)
(* Loads come one after the other, which is what LoadsSerialized of        *)
(* ReloadWatchdog says.  An object holds the content written by one load,  *)
(* numbered from 1 (0 is a default constructed object), and is whole       *)
(* unless a load is writing it or gave up writing it.                      *)
(***************************************************************************)
EXTENDS Integers

CONSTANTS
  Readers,
  NoObject,
  SharedPtr,   \* TRUE for the std::shared_ptr specialisation
  MaxLoads     \* bound of the number of loads

ASSUME ParametersAssumption ==
  /\ SharedPtr \in BOOLEAN
  /\ MaxLoads \in Nat
  /\ NoObject \notin {0, 1}

VARIABLES
  curr_idx_,
  version,     \* the load that wrote an object
  whole,       \* whether the object is complete
  loader,      \* "idle", "writing" the next object or about to "switch"
  ptr_data,    \* the object of the load
  ready_,
  loads,       \* number of loads begun
  published,   \* the last load that succeeded
  ref,         \* the object a reader uses
  seen,        \* the load whose content the reader was given
  overtaken    \* a load was published since the reader called Get

vars == <<curr_idx_, version, whole, loader, ptr_data, ready_, loads,
          published, ref, seen, overtaken>>
readerVars == <<ref, seen, overtaken>>

Objects == {0, 1}

\* buffers_[i].  buffers_(2, std::make_shared<T>()) makes two pointers to one
\* object.
buffers_(i) == IF SharedPtr THEN 0 ELSE i

Get  == buffers_(curr_idx_)
Next_ == buffers_(1 - curr_idx_)

Init ==
  /\ curr_idx_ = 0
  /\ version = [o \in Objects |-> 0]
  /\ whole = [o \in Objects |-> TRUE]
  /\ loader = "idle"
  /\ ptr_data = NoObject
  /\ ready_ = FALSE
  /\ loads = 0
  /\ published = 0
  /\ ref = [r \in Readers |-> NoObject]
  /\ seen = [r \in Readers |-> 0]
  /\ overtaken = [r \in Readers |-> FALSE]

\* Load calls Next() and starts to parse into the object.
BeginLoad ==
  /\ loader = "idle"
  /\ loads < MaxLoads
  /\ loads' = loads + 1
  /\ ptr_data' = Next_
  /\ version' = [version EXCEPT ![Next_] = loads + 1]
  /\ whole' = [whole EXCEPT ![Next_] = FALSE]
  /\ loader' = "writing"
  /\ UNCHANGED <<curr_idx_, ready_, published, readerVars>>

\* Parsing or Init() fails: Load returns without a Switch, the object stays
\* half written.
FailLoad ==
  /\ loader = "writing"
  /\ loader' = "idle"
  /\ ptr_data' = NoObject
  /\ UNCHANGED <<curr_idx_, version, whole, ready_, loads, published,
                 readerVars>>

\* Parsing and Init() succeed.
EndWriting ==
  /\ loader = "writing"
  /\ whole' = [whole EXCEPT ![ptr_data] = TRUE]
  /\ loader' = "switch"
  /\ UNCHANGED <<curr_idx_, version, ptr_data, ready_, loads, published,
                 readerVars>>

\* Switch() and the end of Load.  Nobody else stores the index, so that its
\* load and store are one step.
Switch ==
  /\ loader = "switch"
  /\ curr_idx_' = 1 - curr_idx_
  /\ published' = version[ptr_data]
  /\ ready_' = TRUE
  /\ ptr_data' = NoObject
  /\ loader' = "idle"
  /\ overtaken' = [r \in Readers |-> TRUE]
  /\ UNCHANGED <<version, whole, loads, ref, seen>>

\* A reader calls Get() or Data(), possibly again.
Read(r) ==
  /\ ref' = [ref EXCEPT ![r] = Get]
  /\ seen' = [seen EXCEPT ![r] = version[Get]]
  /\ overtaken' = [overtaken EXCEPT ![r] = FALSE]
  /\ UNCHANGED <<curr_idx_, version, whole, loader, ptr_data, ready_, loads,
                 published>>

Next ==
  BeginLoad \/ FailLoad \/ EndWriting \/ Switch \/ \E r \in Readers : Read(r)

Spec == Init /\ [][Next]_vars
-----------------------------------------------------------------------------
TypeOK ==
  /\ curr_idx_ \in {0, 1}
  /\ version \in [Objects -> 0..MaxLoads]
  /\ whole \in [Objects -> BOOLEAN]
  /\ loader \in {"idle", "writing", "switch"}
  /\ ptr_data \in Objects \cup {NoObject}
  /\ ready_ \in BOOLEAN
  /\ loads \in 0..MaxLoads
  /\ published \in 0..MaxLoads
  /\ ref \in [Readers -> Objects \cup {NoObject}]
  /\ seen \in [Readers -> 0..MaxLoads]
  /\ overtaken \in [Readers -> BOOLEAN]

\* Get() returns a complete object, the one of the last load that succeeded,
\* whatever a load is doing or has failed to do to the other one.  That is what
\* a double buffer is for; the specialisation, the only one that the reloaders
\* instantiate, does not do it.
CurrentWhole == whole[Get] /\ version[Get] = published

\* What Get() returned does not change under the reader until the next load
\* is published; from then on a further load may write it.  Of DoubleBuffer<T>
\* only.
ReferenceStable ==
  \A r \in Readers :
    ref[r] # NoObject /\ ~ overtaken[r] =>
      whole[ref[r]] /\ version[ref[r]] = seen[r]

\* The inductive invariant of the theorems about DoubleBuffer<T>.
IInv ==
  /\ TypeOK
  /\ CurrentWhole
  /\ ReferenceStable
  /\ loader = "idle" <=> ptr_data = NoObject
  /\ loader # "idle" => ptr_data = Next_
  /\ loader = "switch" => whole[Next_]
  /\ \A r \in Readers :
       ref[r] # NoObject /\ ~ overtaken[r] => ref[r] = Get
=============================================================================
