----------------------------- MODULE MCDelivery ------------------------------
(****************************************************************************)
(* The two instances of EventDelivery that share nothing but the publishers:*)
(* live subscriptions while replays stay quiet and aggregates are removed,  *)
(* or a durable tail of a history that only grows and is always told of     *)
(* (the quiet replay and the removal are runs of their own, which fail).    *)
(* A behaviour is one of either, and readers says which.                    *)
(****************************************************************************)
EXTENDS MCEventDelivery

VARIABLE readers

\* The bounds on the events of each instance.
LiveEvents == 2

\* Publisher p tells of nothing but events of one type.
Tells(p, type) ==
    IF notice'[p] = Idle THEN TRUE ELSE notice'[p].envelope.event.type = type

ReadLive == published' <= LiveEvents /\ tailVars' = tailVars

ReadTail ==
    /\ <<removed, registered, subVars>>' = <<removed, registered, subVars>>
    /\ log' # log => notice' # notice
    /\ \A p \in Publishers : Tells(p, t1)

MCInit == Init /\ readers \in {"live", "tail"}

MCNext ==
    /\ Next
    /\ readers = "live" => ReadLive
    /\ readers = "tail" => ReadTail
    /\ UNCHANGED readers

\* Neither restriction is on a step of a goroutine, so the fairness is FairSpec's.
MCSpec ==
    /\ MCInit /\ [][MCNext]_<<vars, readers>>
    /\ \A p \in Publishers : WF_vars(Notifying(p))
    /\ \A d \in Tails : WF_vars(Tailing(d))
==============================================================================
