------------------------------ MODULE Singleton ------------------------------
(***************************************************************************)
(* cpp_lib/util/singleton.h: GetInstance creates the instance on first use *)
(* with a double-checked lock and has it destroyed at exit.  The exit of   *)
(* the program is the main thread's: it runs the handlers registered with  *)
(* atexit, the last one first, and a handler of the program may call       *)
(* GetInstance again.  DestroySingleton does not take mutex_.              *)
(*                                                                         *)
(* The loads and stores of the two atomics are taken in the order of the   *)
(* program: the reader's load is relaxed, but every access to the object   *)
(* depends on the pointer loaded.                                          *)
(***************************************************************************)
EXTENDS Naturals, Sequences, FiniteSets

CONSTANTS
  Threads, main,
  Instances,          \* where an instance can live: one place for CreateStatic
  Null,
  ThreadsOutliveMain, \* the other threads go on while main exits
  MaxHandlers         \* bound: calls of atexit by the program itself

Lifetimes == {"DefaultLifetime", "PhoneixLifetime", "NoDestroyLifetime"}

ASSUME SingletonAssumption ==
  /\ main \in Threads
  /\ Null \notin Instances
  /\ Null \notin Threads
  /\ ThreadsOutliveMain \in BOOLEAN
  /\ MaxHandlers \in Nat

VARIABLES
  Lifetime,          \* the LifetimePolicy of the singleton
  instance_, destroyed_,
  mutex_,            \* the owner of the mutex
  destroyed_once_,   \* PhoneixLifetime::destroyed_once_
  alive,             \* the instances constructed and not destroyed
  held,              \* what GetInstance returned to a thread last
  pc,
  handlers,          \* the functions registered with atexit
  registered,        \* how often the program has called atexit itself
  exiting,
  aborted            \* the assertion that failed

vars == <<Lifetime, instance_, destroyed_, mutex_, destroyed_once_, alive,
          held, pc, handlers, registered, exiting, aborted>>
exitVars == <<handlers, registered, exiting>>

Goto(t, label) == pc' = [pc EXCEPT ![t] = label]

\* Who takes steps: after exit() only main, unless other threads are left.
Running(t) ==
  /\ aborted = "none"
  /\ exiting /\ t # main => ThreadsOutliveMain

Init ==
  /\ Lifetime \in Lifetimes
  /\ instance_ = Null
  /\ destroyed_ = FALSE
  /\ mutex_ = Null
  /\ destroyed_once_ = FALSE
  /\ alive = {}
  /\ held = [t \in Threads |-> Null]
  /\ pc = [t \in Threads |-> "idle"]
  /\ handlers = <<>>
  /\ registered = 0
  /\ exiting = FALSE
  /\ aborted = "none"

-----------------------------------------------------------------------------
(* GetInstance.                                                            *)

\* The first load; during exit, main calls GetInstance from its handlers only.
Load(t) ==
  /\ Running(t)
  /\ pc[t] = "handler" \/ (pc[t] = "idle" /\ ~ (exiting /\ t = main))
  /\ IF instance_ # Null
       THEN held' = [held EXCEPT ![t] = instance_] /\ Goto(t, "idle")
       ELSE Goto(t, "lock") /\ UNCHANGED held
  /\ UNCHANGED <<Lifetime, instance_, destroyed_, mutex_, destroyed_once_,
                 alive, exitVars, aborted>>

\* Mutant: instance_ is not loaded again under the lock.
LoadLocked_Unchecked(t) ==
  /\ Running(t)
  /\ pc[t] = "lock"
  /\ mutex_ = Null
  /\ mutex_' = t
  /\ Goto(t, "revive")
  /\ UNCHANGED <<Lifetime, instance_, destroyed_, destroyed_once_, alive,
                 held, exitVars, aborted>>

\* The second load, under the lock.
LoadLocked(t) ==
  /\ Running(t)
  /\ pc[t] = "lock"
  /\ mutex_ = Null
  /\ IF instance_ # Null
       THEN /\ held' = [held EXCEPT ![t] = instance_]
            /\ Goto(t, "idle")
            /\ UNCHANGED mutex_
       ELSE /\ mutex_' = t
            /\ Goto(t, "revive")
            /\ UNCHANGED held
  /\ UNCHANGED <<Lifetime, instance_, destroyed_, destroyed_once_, alive,
                 exitVars, aborted>>

\* An instance that was destroyed is a dead reference for the policy.
Revive(t) ==
  /\ Running(t)
  /\ pc[t] = "revive"
  /\ IF destroyed_ /\ Lifetime = "DefaultLifetime"
       THEN /\ aborted' = "dead reference"
            /\ UNCHANGED <<destroyed_once_, destroyed_, pc>>
       ELSE /\ destroyed_once_' =
                 (destroyed_once_
                    \/ (destroyed_ /\ Lifetime = "PhoneixLifetime"))
            /\ destroyed_' = FALSE
            /\ Goto(t, "create")
            /\ UNCHANGED aborted
  /\ UNCHANGED <<Lifetime, instance_, mutex_, alive, held, exitVars>>

\* The new object becomes visible with the store of instance_.
Create(t) ==
  /\ Running(t)
  /\ pc[t] = "create"
  /\ \E place \in Instances \ alive :
       /\ alive' = alive \cup {place}
       /\ instance_' = place
       /\ held' = [held EXCEPT ![t] = place]
  /\ Goto(t, "schedule")
  /\ UNCHANGED <<Lifetime, destroyed_, mutex_, destroyed_once_, exitVars,
                 aborted>>

\* Mutant: PhoneixLifetime's test is the wrong way round.
Schedules_Inverted == Lifetime = "DefaultLifetime" \/ destroyed_once_

Schedules ==
  \/ Lifetime = "DefaultLifetime"
  \/ Lifetime = "PhoneixLifetime" /\ ~ destroyed_once_

\* ScheduleDestruction, and the end of the critical section.
Schedule(t) ==
  /\ Running(t)
  /\ pc[t] = "schedule"
  /\ handlers' = IF Schedules THEN Append(handlers, "DestroySingleton")
                              ELSE handlers
  /\ mutex_' = Null
  /\ Goto(t, "idle")
  /\ UNCHANGED <<Lifetime, instance_, destroyed_, destroyed_once_, alive,
                 held, registered, exiting, aborted>>

-----------------------------------------------------------------------------
(* exit.                                                                   *)

\* The program registers a handler of its own, which calls GetInstance.
Register(t) ==
  /\ Running(t)
  /\ ~ exiting
  /\ pc[t] = "idle"
  /\ registered < MaxHandlers
  /\ registered' = registered + 1
  /\ handlers' = Append(handlers, "program")
  /\ UNCHANGED <<Lifetime, instance_, destroyed_, mutex_, destroyed_once_,
                 alive, held, pc, exiting, aborted>>

\* exit(); without ThreadsOutliveMain the other threads have been joined.
Exit ==
  /\ Running(main)
  /\ ~ exiting
  /\ pc[main] = "idle"
  /\ ThreadsOutliveMain \/ \A t \in Threads : pc[t] = "idle"
  /\ exiting' = TRUE
  /\ UNCHANGED <<Lifetime, instance_, destroyed_, mutex_, destroyed_once_,
                 alive, held, pc, handlers, registered, aborted>>

\* What was returned before belongs to the past once DestroySingleton starts.
RunHandler ==
  /\ Running(main)
  /\ exiting
  /\ pc[main] = "idle"
  /\ handlers # <<>>
  /\ handlers' = SubSeq(handlers, 1, Len(handlers) - 1)
  /\ IF handlers[Len(handlers)] = "program"
       THEN Goto(main, "handler") /\ UNCHANGED held
       ELSE Goto(main, "destroy") /\ held' = [t \in Threads |-> Null]
  /\ UNCHANGED <<Lifetime, instance_, destroyed_, mutex_, destroyed_once_,
                 alive, registered, exiting, aborted>>

\* DestroySingleton: the assertion, and the destructor.
Destroy ==
  /\ Running(main)
  /\ pc[main] = "destroy"
  /\ IF destroyed_
       THEN aborted' = "destroyed twice" /\ UNCHANGED <<alive, pc>>
       ELSE /\ alive' = alive \ {instance_}
            /\ Goto(main, "clear")
            /\ UNCHANGED aborted
  /\ UNCHANGED <<Lifetime, instance_, destroyed_, mutex_, destroyed_once_,
                 held, exitVars>>

ClearInstance ==
  /\ Running(main)
  /\ pc[main] = "clear"
  /\ instance_' = Null
  /\ Goto(main, "mark")
  /\ UNCHANGED <<Lifetime, destroyed_, mutex_, destroyed_once_, alive, held,
                 exitVars, aborted>>

MarkDestroyed ==
  /\ Running(main)
  /\ pc[main] = "mark"
  /\ destroyed_' = TRUE
  /\ Goto(main, "idle")
  /\ UNCHANGED <<Lifetime, instance_, mutex_, destroyed_once_, alive, held,
                 exitVars, aborted>>

Next ==
  \/ \E t \in Threads :
       \/ Load(t) \/ LoadLocked(t) \/ Revive(t) \/ Create(t) \/ Schedule(t)
       \/ Register(t)
  \/ Exit \/ RunHandler \/ Destroy \/ ClearInstance \/ MarkDestroyed

Spec == Init /\ [][Next]_vars

-----------------------------------------------------------------------------
TypeOK ==
  /\ Lifetime \in Lifetimes
  /\ instance_ \in Instances \cup {Null}
  /\ destroyed_ \in BOOLEAN
  /\ mutex_ \in Threads \cup {Null}
  /\ destroyed_once_ \in BOOLEAN
  /\ alive \in SUBSET Instances
  /\ held \in [Threads -> Instances \cup {Null}]
  /\ pc \in [Threads -> {"idle", "handler", "lock", "revive", "create",
                         "schedule", "destroy", "clear", "mark"}]
  /\ handlers \in Seq({"DestroySingleton", "program"})
  /\ registered \in 0 .. MaxHandlers
  /\ exiting \in BOOLEAN
  /\ aborted \in {"none", "dead reference", "destroyed twice"}

\* GetInstance gives all its callers one instance, which lives until
\* DestroySingleton runs; so does one that is created again later.
OneLiveInstance ==
  /\ Cardinality(alive) <= 1
  /\ \A t \in Threads : held[t] # Null => held[t] \in alive

\* singleton.h:96, assert(!destroyed_): DestroySingleton does not run for an
\* instance that was destroyed before.
DestroyedOnce == aborted # "destroyed twice"

\* When exit has run the last handler nothing is left, except an instance
\* that a policy does not destroy.
DestroyedAtExit ==
  exiting /\ handlers = <<>> /\ aborted = "none"
    /\ (\A t \in Threads : pc[t] = "idle")
    => alive = {} \/ destroyed_once_ \/ Lifetime = "NoDestroyLifetime"
=============================================================================
