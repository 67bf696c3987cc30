-------------------------------- MODULE Scope --------------------------------
(****************************************************************************)
(* runtime/scope: the tree of lifetimes.  A scope owns a stack of resources,*)
(* some of them scopes; Close closes them in reverse order of registration, *)
(* once, whoever calls it and however often.  Registration, Close of any    *)
(* scope of the tree and the closing of single resources interleave; only   *)
(* the critical sections of Scope.mu are steps.                             *)
(****************************************************************************)
EXTENDS Integers, Sequences

CONSTANTS
    Scopes,
    Root,           \* the scope of NewRoot
    ParentOf,       \* where Child creates every other scope (validChild: no cycles)
    Leaves,         \* resources that are no scopes
    Callers,        \* goroutines that call Close
    None

ASSUME ScopeAssumption ==
    /\ Root \in Scopes
    /\ ParentOf \in [Scopes \ {Root} -> Scopes]
    /\ Scopes \cap Leaves = {}
    /\ None \notin Callers \cup Scopes

Children == Scopes \ {Root}
Items == Children \cup Leaves

VARIABLES
    state,      \* of each scope; "absent" until Child creates it
    resources,  \* Scope.resources
    pending,    \* what the cleanup of a scope has yet to close, the last first
    begun,      \* is the cleanup inside the Close of the last of pending?
    cleaner,    \* the caller that performs the cleanup
    leaf,       \* "free", "owned", "closing", "closed", and "rejected":
                \* Register has refused it and is about to close it
    goal,       \* the scope each caller closes or waits for
    expired,    \* callers whose context is done
    given,      \* history: everything a scope accepted, in order
    closes      \* history: how often Close of a leaf was called

scopeVars == <<state, resources, pending, begun, cleaner, leaf, goal, expired, given, closes>>

ScopeTypeOK ==
    /\ state \in [Scopes -> {"absent", "open", "closing", "closed"}]
    /\ resources \in [Scopes -> Seq(Items)]
    /\ pending \in [Scopes -> Seq(Items)]
    /\ begun \in [Scopes -> BOOLEAN]
    /\ cleaner \in [Scopes -> Callers \cup {None}]
    /\ leaf \in [Leaves -> {"free", "owned", "closing", "closed", "rejected"}]
    /\ goal \in [Callers -> Scopes \cup {None}]
    /\ expired \subseteq Callers
    /\ given \in [Scopes -> Seq(Items)]
    /\ closes \in [Leaves -> Nat]
    /\ \A s \in Scopes :
        /\ state[s] # "open" => resources[s] = <<>>
        /\ state[s] # "closing" => pending[s] = <<>>
        /\ begun[s] => pending[s] # <<>>

ScopeInit ==
    /\ state = [s \in Scopes |-> IF s = Root THEN "open" ELSE "absent"]
    /\ resources = [s \in Scopes |-> <<>>]
    /\ pending = [s \in Scopes |-> <<>>]
    /\ begun = [s \in Scopes |-> FALSE]
    /\ cleaner = [s \in Scopes |-> None]
    /\ leaf = [l \in Leaves |-> "free"]
    /\ goal = [c \in Callers |-> None]
    /\ expired = {}
    /\ given = [s \in Scopes |-> <<>>]
    /\ closes = [l \in Leaves |-> 0]

Created(s) == state[s] # "absent"

------------------------------------------------------------------------------
(* Registration.                                                            *)

Own(s, i) ==
    /\ resources' = [resources EXCEPT ![s] = Append(@, i)]
    /\ given' = [given EXCEPT ![s] = Append(@, i)]

\* Mutant of Accepting: a scope takes resources until it is closed.
AcceptingLate(s) == state[s] \in {"open", "closing"}

Accepting(s) == state[s] = "open"

\* Register: the scope takes the resource over, or it has begun to close and
\* Register closes the resource itself, outside the mutex.
Register(s, l) ==
    /\ Created(s) /\ leaf[l] = "free"
    /\ \/ /\ Accepting(s)
          /\ Own(s, l)
          /\ leaf' = [leaf EXCEPT ![l] = "owned"]
       \/ /\ ~Accepting(s)
          /\ leaf' = [leaf EXCEPT ![l] = "rejected"]
          /\ UNCHANGED <<resources, given>>
    /\ UNCHANGED <<state, pending, begun, cleaner, goal, expired, closes>>

CloseRejected(l) ==
    /\ leaf[l] = "rejected"
    /\ leaf' = [leaf EXCEPT ![l] = "closing"]
    /\ closes' = [closes EXCEPT ![l] = @ + 1]
    /\ UNCHANGED <<state, resources, pending, begun, cleaner, goal, expired, given>>

\* Close of a resource that no cleanup waits for has returned.
RejectedClosed(l) ==
    /\ leaf[l] = "closing"
    /\ \A s \in Scopes : begun[s] => pending[s][Len(pending[s])] # l
    /\ leaf' = [leaf EXCEPT ![l] = "closed"]
    /\ UNCHANGED <<state, resources, pending, begun, cleaner, goal, expired, given, closes>>

\* Child: a scope its parent no longer accepts is closed at once, empty, before
\* anybody else has seen it.
Child(s) ==
    /\ s \in Children /\ ~Created(s) /\ Created(ParentOf[s])
    /\ \/ /\ Accepting(ParentOf[s])
          /\ Own(ParentOf[s], s)
          /\ state' = [state EXCEPT ![s] = "open"]
       \/ /\ ~Accepting(ParentOf[s])
          /\ state' = [state EXCEPT ![s] = "closed"]
          /\ UNCHANGED <<resources, given>>
    /\ UNCHANGED <<pending, begun, cleaner, leaf, goal, expired, closes>>

------------------------------------------------------------------------------
(* Close.                                                                   *)

\* Mutant of StartCleanup: in the order of registration.
StartCleanupForward(s, c) ==
    /\ state' = [state EXCEPT ![s] = "closing"]
    /\ cleaner' = [cleaner EXCEPT ![s] = c]
    /\ pending' = [pending EXCEPT ![s] =
        [i \in DOMAIN resources[s] |-> resources[s][Len(resources[s]) + 1 - i]]]
    /\ resources' = [resources EXCEPT ![s] = <<>>]

\* The first call makes its caller the cleaner and takes the resources away.
StartCleanup(s, c) ==
    /\ state' = [state EXCEPT ![s] = "closing"]
    /\ cleaner' = [cleaner EXCEPT ![s] = c]
    /\ pending' = [pending EXCEPT ![s] = resources[s]]
    /\ resources' = [resources EXCEPT ![s] = <<>>]

NoCleanup == UNCHANGED <<state, cleaner, pending, resources>>

CallClose(c, s) ==
    /\ goal[c] = None /\ Created(s)
    /\ goal' = [goal EXCEPT ![c] = s]
    /\ \/ state[s] = "open" /\ StartCleanup(s, c)
       \/ state[s] # "open" /\ NoCleanup
    /\ UNCHANGED <<begun, leaf, expired, given, closes>>

\* Mutant of Released: the done channel is never closed.
ReleasedCleaner(c) ==
    \/ state[goal[c]] = "closed" /\ cleaner[goal[c]] = c
    \/ cleaner[goal[c]] # c /\ c \in expired

\* The cleanup is over, or a caller that only waits for it gives up because its
\* own context is done.
Released(c) ==
    \/ state[goal[c]] = "closed"
    \/ cleaner[goal[c]] # c /\ c \in expired

ReturnClose(c) ==
    /\ goal[c] # None /\ Released(c)
    /\ goal' = [goal EXCEPT ![c] = None]
    /\ expired' = expired \ {c}
    /\ UNCHANGED <<state, resources, pending, begun, cleaner, leaf, given, closes>>

Expire(c) ==
    /\ goal[c] # None
    /\ expired' = expired \cup {c}
    /\ UNCHANGED <<state, resources, pending, begun, cleaner, leaf, goal, given, closes>>

Current(s) == pending[s][Len(pending[s])]
DropLast(q) == SubSeq(q, 1, Len(q) - 1)
Working(s) == state[s] = "closing" /\ pending[s] # <<>>

\* closeReverse calls Close of the next resource with the cleaner's context.  A
\* child that is open gets the same cleaner; for any other it is one more waiter.
CloseLeaf(s) ==
    /\ Working(s) /\ ~begun[s]
    /\ Current(s) \in Leaves
    /\ begun' = [begun EXCEPT ![s] = TRUE]
    /\ leaf' = [leaf EXCEPT ![Current(s)] = "closing"]
    /\ closes' = [closes EXCEPT ![Current(s)] = @ + 1]
    /\ UNCHANGED <<state, resources, pending, cleaner, goal, expired, given>>

CloseChild(s) ==
    /\ Working(s) /\ ~begun[s]
    /\ Current(s) \in Children
    /\ begun' = [begun EXCEPT ![s] = TRUE]
    /\ \/ state[Current(s)] = "open" /\ StartCleanup(Current(s), cleaner[s])
       \/ state[Current(s)] # "open" /\ NoCleanup
    /\ UNCHANGED <<leaf, goal, expired, given, closes>>

ChildDone(s) ==
    \/ state[Current(s)] = "closed"
    \/ cleaner[Current(s)] # cleaner[s] /\ cleaner[s] \in expired

\* That call returns, with an error or without: the cleanup goes on.
ItemClosed(s) ==
    /\ Working(s) /\ begun[s]
    /\ \/ /\ Current(s) \in Leaves
          /\ leaf' = [leaf EXCEPT ![Current(s)] = "closed"]
       \/ Current(s) \in Children /\ ChildDone(s) /\ UNCHANGED leaf
    /\ begun' = [begun EXCEPT ![s] = FALSE]
    /\ pending' = [pending EXCEPT ![s] = DropLast(@)]
    /\ UNCHANGED <<state, resources, cleaner, goal, expired, given, closes>>

FinishClose(s) ==
    /\ state[s] = "closing" /\ pending[s] = <<>>
    /\ state' = [state EXCEPT ![s] = "closed"]
    /\ UNCHANGED <<resources, pending, begun, cleaner, leaf, goal, expired, given, closes>>

------------------------------------------------------------------------------
Cleanup(s) == CloseLeaf(s) \/ CloseChild(s) \/ ItemClosed(s) \/ FinishClose(s)

ScopeNext ==
    \/ \E s \in Scopes : Cleanup(s) \/ Child(s) \/ \E l \in Leaves : Register(s, l)
    \/ \E l \in Leaves : CloseRejected(l) \/ RejectedClosed(l)
    \/ \E c \in Callers : ReturnClose(c) \/ Expire(c) \/ \E s \in Scopes : CallClose(c, s)

ScopeSpec == ScopeInit /\ [][ScopeNext]_scopeVars

\* Close of a resource returns; nobody has to call anything.
ScopeFairness ==
    /\ \A s \in Scopes : WF_scopeVars(Cleanup(s))
    /\ \A c \in Callers : WF_scopeVars(ReturnClose(c))

------------------------------------------------------------------------------
(* Properties.                                                              *)

\* A resource is closed at most once, whether it was accepted, refused, or
\* registered while another goroutine closed the scope; and a scope that is
\* closed has closed every resource it ever accepted (Register, Close).
NothingLeaks ==
    /\ \A l \in Leaves : closes[l] <= 1
    /\ \A s \in Scopes : state[s] = "closed" =>
        \A k \in DOMAIN given[s] :
            given[s][k] \in Leaves => leaf[given[s][k]] = "closed"

Done(i) == IF i \in Leaves THEN leaf[i] = "closed" ELSE state[i] = "closed"

\* While a scope closes, a resource is touched only when everything registered
\* after it is closed, whole subtrees included, unless the cleaner's context has
\* expired over a child that someone else closes (closeReverse).
ReverseOrder ==
    \A s \in Scopes : state[s] = "closing" =>
        \A j, k \in DOMAIN given[s] :
            /\ j < k
            /\ given[s][j] \in Leaves
            /\ leaf[given[s][j]] \in {"closing", "closed"}
            => Done(given[s][k]) \/ cleaner[s] \in expired

\* Every Close returns, though callers close parents and children at the same
\* time and wait for each other, with contexts that never expire.
CloseReturns == \A c \in Callers : goal[c] # None ~> goal[c] = None
==============================================================================
