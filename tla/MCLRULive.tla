------------------------------ MODULE MCLRULive ------------------------------
(* Liveness runs: MaxCalls bounds the calls the clients make.  The element  *)
(* locks of the map are spin locks without a queue, so endlessly many calls *)
(* could starve a writer; finitely many cannot.                             *)
EXTENDS ConcurrentLRUCache

CONSTANT MaxCalls

VARIABLE calls

OnePair == {{p} : p \in Keys \X Values}

liveVars == <<vars, calls>>

Call == \E c \in Clients : CallInsert(c) \/ \E k \in Keys : Find(c, k)

LiveInit == Init /\ calls = 0

LiveNext ==
  \/ calls < MaxCalls /\ Call /\ calls' = calls + 1
  \/ /\ \/ \E c \in Clients : ReleaseAccessor(c) \/ SetEntryStep(c)
        \/ \E t \in Threads : EvictStep(t)
        \/ Tick
     /\ UNCHANGED calls

LiveSpec == LiveInit /\ [][LiveNext]_liveVars /\ Fairness
=============================================================================
