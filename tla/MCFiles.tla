------------------------------- MODULE MCFiles -------------------------------
(* A bounded instance of Files: a directory d with a file g, a file f, calls  *)
(* that meet on the same places, and few descriptors.                         *)
EXTENDS Files, TLC

MCInodes == 1 .. 4

MCInitialTree ==
  <<>> :> Dir @@ <<"">> :> Dir @@ <<"d">> :> Dir
    @@ <<"f">> :> 1 @@ <<"d", "g">> :> 2

MCInitialData == [i \in MCInodes |->
                    IF i = 1 THEN <<1, 2, 3>> ELSE IF i = 2 THEN <<4, 5>> ELSE <<>>]

Copy(src, dst) == [op |-> "FileCopy", src |-> src, dst |-> dst]

MCCalls ==
  {Copy(<<"f">>, <<"x">>), Copy(<<"d", "g">>, <<"x">>), Copy(<<"x">>, <<"n", "y">>),
   Copy(<<"d", "g">>, <<"d", "g">>), Copy(<<"d">>, <<"x">>),
   [op |-> "MakeDir", path |-> <<"n", "m">>],
   [op |-> "MakeDir", path |-> <<"", "n">>],
   [op |-> "MakeFile", path |-> <<"n", "h">>],
   [op |-> "DirCopy", src |-> <<"d">>, dst |-> <<"n">>]}

Symmetry == Permutations(Threads)
=============================================================================
