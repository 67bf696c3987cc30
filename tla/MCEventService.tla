--------------------------- MODULE MCEventService ---------------------------
(* Instances of EventService for TLC. *)
EXTENDS EventService, TLC

CONSTANTS w1, w2, a1, a2, i1, i2, i3, x, y, o1, o2

Call(kind, aggregate, start, entries, owner, strict, publish) ==
    [kind |-> kind, aggregate |-> aggregate, start |-> start, entries |-> entries,
     owner |-> owner, strict |-> strict, publish |-> publish]

E(id, payload) == [id |-> id, payload |-> payload]

PublishCall(a, e) == Call("publish", a, 0, <<e>>, NoOwner, FALSE, FALSE)
ReplayCall(a, s, es, o, strict, publish) == Call("replay", a, s, es, o, strict, publish)
ClaimCall(a, o) == Call("claim", a, 0, <<>>, o, FALSE, FALSE)
RemoveCall(a) == Call("remove", a, 0, <<>>, NoOwner, FALSE, FALSE)

\* A local event whose ID also turns up in another aggregate; a replayed chunk
\* that begins with it; a strict replay for another owner of an event that
\* leaves a gap, follows it, or diverges from the chunk in its payload; a claim
\* that takes the aggregate from the chunk's owner; a removal.
MCRequests ==
    {PublishCall(a1, E(i1, x)), PublishCall(a2, E(i1, x)),
     ReplayCall(a1, 0, <<E(i1, x), E(i2, x)>>, o1, FALSE, TRUE),
     ReplayCall(a1, 1, <<E(i2, y)>>, o2, TRUE, FALSE),
     ClaimCall(a1, o2), RemoveCall(a1)}

\* A publication that races a chunk whose second entry it conflicts with, and
\* one that finds the sequence of the aggregate used up.
MCRacingRequests ==
    {PublishCall(a1, E(i2, x)), PublishCall(a1, E(i3, x)),
     ReplayCall(a1, 0, <<E(i1, x), E(i2, x)>>, o1, FALSE, TRUE)}

WriterSymmetry == Permutations(Writers)
==============================================================================
