----------------------------- MODULE MCWorkspace -----------------------------
(* Instances of Workspace for TLC. *)
EXTENDS Workspace, TLC

CONSTANTS d1, d2, c1, c2

CallerSymmetry == Permutations(Callers)

\* One directory that is reloaded, one more entry for DisposeAll to wait for.
TwoDirectories == (d1 :> 2) @@ (d2 :> 1)

\* One directory with a chain of generations, each waiting for the one before.
Chain == d1 :> 3

TwoGenerations == d1 :> 2
==============================================================================
