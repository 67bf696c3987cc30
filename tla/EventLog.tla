------------------------------ MODULE EventLog ------------------------------
(****************************************************************************)
(* What the durable event log promises its callers: every aggregate has one *)
(* history, a sequence that only grows at its end or is removed whole, whose*)
(* n-th event is the one with sequence n - 1; an event ID names one event   *)
(* of the whole log; and only an aggregate with a history has an owner.     *)
(* EventService implements it.                                              *)
(****************************************************************************)
EXTENDS Integers, Sequences

CONSTANTS Aggregates, Event, Owners, NoOwner, MaxLength

ASSUME LogAssumption == MaxLength \in Nat /\ NoOwner \notin Owners

VARIABLES
    log,    \* the history of each aggregate
    owner   \* its replay owner

logVars == <<log, owner>>

LogInit ==
    /\ log = [a \in Aggregates |-> <<>>]
    /\ owner = [a \in Aggregates |-> NoOwner]

InLog(id) == \E a \in Aggregates : \E i \in 1 .. Len(log[a]) : log[a][i].id = id

\* A local event leaves the owner as it is (o = NoOwner); a replayed one needs
\* the owner or no owner, and makes its own the aggregate's.
AppendEvent(a, e, o) ==
    /\ ~InLog(e.id)
    /\ Len(log[a]) < MaxLength
    /\ log' = [log EXCEPT ![a] = Append(log[a], e)]
    /\ owner' = [owner EXCEPT ![a] = IF owner[a] = NoOwner THEN o ELSE owner[a]]
    /\ o \in {NoOwner, owner[a]} \/ owner[a] = NoOwner

\* Claim, or the first owned replay that acknowledges the history.
Transfer(a, o) ==
    /\ log[a] # <<>>
    /\ owner' = [owner EXCEPT ![a] = o]
    /\ UNCHANGED log

Forget(a) ==
    /\ log' = [log EXCEPT ![a] = <<>>]
    /\ owner' = [owner EXCEPT ![a] = NoOwner]

LogNext ==
    \E a \in Aggregates :
        \/ \E e \in Event, o \in Owners \cup {NoOwner} : AppendEvent(a, e, o)
        \/ \E o \in Owners : Transfer(a, o)
        \/ Forget(a)

LogSpec == LogInit /\ [][LogNext]_logVars
==============================================================================
