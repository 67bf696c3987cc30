--------------------------- MODULE MCEventDelivery ---------------------------
(* Instances of EventDelivery for TLC. *)
EXTENDS EventDelivery, TLC

CONSTANTS p1, p2, s1, s2, d1, a1, t1, t2

MCEvent == [id : 1 .. MaxEvents, type : Types]

\* One subscription to everything (All), one to a type.
MCWants == (s1 :> {t1, t2}) @@ (s2 :> {t1})

\* Nobody subscribes in the runs about durable tails.
NoWants == <<>>

MCStarts == {-1, 0}
MCAggregateOf == d1 :> a1
NoTailAggregate == <<>>
==============================================================================
