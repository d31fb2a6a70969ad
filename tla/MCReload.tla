------------------------------ MODULE MCReload ------------------------------
(* Bounded instances of ReloadWatchdog.                                     *)
EXTENDS ReloadInvariant

\* All files have one path.
OnePath == [f \in Files |-> CHOOSE p \in Paths : TRUE]
=============================================================================
