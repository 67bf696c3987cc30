------------------------------ MODULE MCRuntime ------------------------------
(****************************************************************************)
(* Instances of the runtime primitives for TLC: Scope, Sink and             *)
(* ChildProcess share nothing, so a behaviour is one of any of them, and    *)
(* component says which.                                                    *)
(****************************************************************************)
EXTENDS Scope, Sink, ChildProcess, TLC

CONSTANTS app, project, session, l1, l2, c1, c2, p1, p2, r1, r2, leader, orphan, k1

VARIABLE component

vars == <<component, scopeVars, sinkVars, childVars>>

\* The chain of Root, Project and Session.
Chain == (project :> app) @@ (session :> project)

TypeOK == ScopeTypeOK /\ SinkTypeOK /\ ChildTypeOK

Init ==
    /\ component \in {"scope", "sink", "child"}
    /\ ScopeInit /\ SinkInit /\ ChildInit
    /\ component # "child" => obeys = {} /\ holds = {Leader}

\* Nothing of a component that is not exercised is under way, so that its
\* fairness asks for nothing.
Next ==
    /\ UNCHANGED component
    /\ \/ component = "scope" /\ ScopeNext /\ UNCHANGED <<sinkVars, childVars>>
       \/ component = "sink" /\ SinkNext /\ UNCHANGED <<scopeVars, childVars>>
       \/ component = "child" /\ ChildNext /\ UNCHANGED <<scopeVars, sinkVars>>

Spec == Init /\ [][Next]_vars

FairSpec == Spec /\ ScopeFairness /\ ChildFairness
==============================================================================
