------------------------- MODULE EventDeliveryProofs -------------------------
(****************************************************************************)
(* Proofs of the safety of the read side of event.Service, for all          *)
(* publishers, listeners, subscriptions, capacities and batch sizes: what   *)
(* the channel of a live subscription holds, and where a durable tail is in *)
(* the history it reads while others append to it.                          *)
(****************************************************************************)
EXTENDS EventDelivery, SequenceTheorems, TLAPS

\* What a tail has put into its channel.
Delivered(d) == seen[d] \o outbox[d]

\* Is r the record with sequence n of the history tail d reads? What the event is
\* can be said only until the aggregate is removed.
IsRecord(r, d, n) ==
    LET history == log[AggregateOf[d]] IN
    /\ r.sequence = n
    /\ AggregateOf[d] \notin removed => n + 1 <= Len(history) /\ r.event = history[n + 1]

\* What a tail delivered are the records after its start, up to its cursor, and
\* what it read and is still to send are those after its cursor.
DeliveredAt(d) ==
    /\ after[d] >= -1 /\ cursor[d] = after[d] + Len(Delivered(d))
    /\ \A i \in 1 .. Len(Delivered(d)) : IsRecord(Delivered(d)[i], d, after[d] + i)
    /\ stage[d] = "off" => seen[d] = <<>> /\ outbox[d] = <<>>
PageAt(d) ==
    /\ stage[d] = "sending" <=> page[d] # <<>>
    /\ \A i \in 1 .. Len(page[d]) : IsRecord(page[d][i], d, cursor[d] + i)

\* Why a tail ends.
FailureAt(d) ==
    /\ stage[d] = "finishing" => failure[d] # "none"
    /\ stage[d] \in {"finishing", "done"} /\ failure[d] = "canceled" => canceled[d]
    /\ stage[d] = "done" /\ failure[d] = "none" => closing[d]

TailInv(d) == DeliveredAt(d) /\ PageAt(d) /\ FailureAt(d)

\* What notify had for a subscription is what it got or buffers, in that order;
\* one that overflowed lost the last one.
Taken(s) == got[s] \o inbox[s]
SubscriptionAt(s) ==
    /\ s \in open => ended[s] = "no"
    /\ ended[s] # "overflow" => Taken(s) = sent[s]
    /\ ended[s] = "overflow" =>
        /\ IsPrefix(Taken(s), sent[s])
        /\ Len(Taken(s)) = Len(sent[s]) - 1
        /\ Len(sent[s]) > Capacity

DeliveryInv ==
    /\ TypeOK
    /\ \A d \in Tails : TailInv(d)
    /\ \A s \in Subscribers : SubscriptionAt(s)

------------------------------------------------------------------------------
(* The log.                                                                 *)

\* The types of the parts.
LogTyped == log \in [Aggregates -> Seq(Event)] /\ removed \subseteq Aggregates /\ published \in 0 .. MaxEvents
NoticeTyped == notice \in [Publishers -> Notice \cup {Idle}] /\ registered \subseteq Listeners
SubsTyped ==
    /\ open \subseteq Subscribers
    /\ inbox \in [Subscribers -> Seq(Envelope)]
    /\ got \in [Subscribers -> Seq(Envelope)]
    /\ sent \in [Subscribers -> Seq(Envelope)]
    /\ ended \in [Subscribers -> {"no", "overflow", "closed"}]
    /\ \A s \in Subscribers : Len(inbox[s]) <= Capacity
TailsTyped ==
    /\ stage \in [Tails -> {"off", "reading", "sending", "waiting", "finishing", "done"}]
    /\ after \in [Tails -> Int] /\ cursor \in [Tails -> Int]
    /\ page \in [Tails -> Seq(Envelope)]
    /\ outbox \in [Tails -> Seq(Envelope)]
    /\ seen \in [Tails -> Seq(Envelope)]
    /\ \A d \in Tails : Len(page[d]) <= BatchSize /\ Len(outbox[d]) <= Capacity
    /\ wakes \subseteq Tails
    /\ more \in [Tails -> BOOLEAN] /\ wake \in [Tails -> BOOLEAN]
    /\ canceled \in [Tails -> BOOLEAN] /\ closing \in [Tails -> BOOLEAN]
    /\ failure \in [Tails -> {"none", "canceled", "storage"}]

LEMMA TypesInParts ==
    /\ TypeOK <=> LogTyped /\ NoticeTyped /\ SubsTyped /\ TailsTyped
    /\ TypeOK' <=> LogTyped' /\ NoticeTyped' /\ SubsTyped' /\ TailsTyped'
  BY DEF TypeOK, LogTyped, NoticeTyped, SubsTyped, TailsTyped

LEMMA ConstantTypes ==
    /\ Capacity \in Nat \ {0} /\ BatchSize \in Nat \ {0} /\ MaxEvents \in Nat
    /\ AggregateOf \in [Tails -> Aggregates] /\ NoAggregate \notin Aggregates
    /\ \A n \in Starts : n \in Int /\ n >= -1
    /\ Event = [id : 1 .. MaxEvents, type : Types]
  BY DeliveryAssumption

LEMMA NextEventTyped ==
    ASSUME TypeOK, NEW t \in Types, published < MaxEvents
    PROVE  NextEvent(t) \in Event /\ published + 1 \in 0 .. MaxEvents
  <1>1. published + 1 \in 1 .. MaxEvents
    BY ConstantTypes DEF TypeOK
  <1>. QED
    BY <1>1, ConstantTypes DEF NextEvent

\* A history only grows at its end, unless it has been removed.
LogGrows ==
    /\ removed \subseteq removed'
    /\ \A a \in Aggregates : a \notin removed' =>
        /\ Len(log[a]) <= Len(log'[a])
        /\ \A i \in 1 .. Len(log[a]) : log'[a][i] = log[a][i]

LEMMA AppendGrows ==
    ASSUME TypeOK, NEW a \in Aggregates, NEW e \in Event, NEW o, AppendEvent(a, e, o), UNCHANGED removed
    PROVE  log' \in [Aggregates -> Seq(Event)] /\ LogGrows
  <1>1. log[a] \in Seq(Event) /\ log' = [log EXCEPT ![a] = Append(log[a], e)]
    BY DEF TypeOK, AppendEvent
  <1>2. /\ Append(log[a], e) \in Seq(Event) /\ Len(log[a]) <= Len(Append(log[a], e))
        /\ \A i \in 1 .. Len(log[a]) : Append(log[a], e)[i] = log[a][i]
    BY <1>1, AppendProperties
  <1>3. ASSUME NEW b \in Aggregates, b # a
        PROVE  log'[b] = log[b] /\ Len(log[b]) <= Len(log'[b])
    <2>1. log[b] \in Seq(Event) /\ Len(log[b]) \in Nat
      BY DEF TypeOK
    <2>. QED
      BY <1>1, <1>3, <2>1 DEF TypeOK
  <1>4. log'[a] = Append(log[a], e)
    BY <1>1 DEF TypeOK
  <1>5. LogGrows
    BY <1>2, <1>3, <1>4 DEF LogGrows
  <1>6. log' \in [Aggregates -> Seq(Event)]
    BY <1>1, <1>2 DEF TypeOK
  <1>. QED
    BY <1>5, <1>6

LEMMA SameLogGrows == ASSUME TypeOK, UNCHANGED <<log, removed>> PROVE LogGrows
  <1>1. \A a \in Aggregates : Len(log[a]) \in Nat
    BY DEF TypeOK
  <1>. QED
    BY <1>1 DEF LogGrows

LEMMA LogKept == ASSUME TypeOK, [Next]_vars PROVE LogTyped' /\ LogGrows
  <1>0. LogTyped
    BY TypesInParts
  <1>1. CASE UNCHANGED <<log, removed, published>>
    BY <1>0, <1>1, SameLogGrows DEF LogTyped
  <1>2. ASSUME NEW a \in Aggregates, NEW t \in Types, published < MaxEvents, AppendEvent(a, NextEvent(t), NoOwner),
               published' = published + 1, UNCHANGED removed
        PROVE  LogTyped' /\ LogGrows
    BY <1>2, NextEventTyped, AppendGrows DEF LogTyped, TypeOK
  <1>3. ASSUME NEW p \in Publishers, NEW a \in Aggregates, NEW t \in Types, CommitEvent(p, a, t)
        PROVE  LogTyped' /\ LogGrows
    BY <1>2, <1>3 DEF CommitEvent
  <1>4. ASSUME NEW p \in Publishers, NEW t \in Types, PublishLive(p, t)
        PROVE  LogTyped' /\ LogGrows
    BY <1>0, <1>4, NextEventTyped, SameLogGrows DEF PublishLive, LogTyped
  <1>5. ASSUME NEW a \in Aggregates, NEW t \in Types, ReplayQuietly(a, t)
        PROVE  LogTyped' /\ LogGrows
    BY <1>2, <1>5 DEF ReplayQuietly
  <1>6. ASSUME NEW a \in Aggregates, RemoveAggregate(a) PROVE LogTyped' /\ LogGrows
    <2>1. <<>> \in Seq(Event)
      BY EmptySeq
    <2>2. log' = [log EXCEPT ![a] = <<>>] /\ published' = published /\ removed' = removed \cup {a}
      BY <1>6 DEF RemoveAggregate, Forget, noticeVars
    <2>. QED
      BY <1>0, <2>1, <2>2 DEF LogTyped, LogGrows
  <1>7. ASSUME NEW p \in Publishers, Notifying(p) PROVE UNCHANGED <<log, removed, published>>
    BY <1>7 DEF Notifying, SnapshotListeners, CallListener, Broadcast
  <1>8. ASSUME NEW l \in Listeners, Listen(l) \/ Unlisten(l) PROVE UNCHANGED <<log, removed, published>>
    BY <1>8 DEF Listen, Unlisten
  <1>9. ASSUME NEW s \in Subscribers, Subscribe(s) \/ ReceiveLive(s) \/ Unsubscribe(s) PROVE UNCHANGED <<log, removed, published>>
    BY <1>9 DEF Subscribe, ReceiveLive, Unsubscribe, LogAndTails, noticeVars
  <1>10. ASSUME NEW d \in Tails,
                \/ \E start \in Starts : OpenTail(d, start)
                \/ Tailing(d) \/ HistoryFails(d) \/ ReceiveDurable(d) \/ CancelContext(d) \/ CloseTail(d)
         PROVE  UNCHANGED <<log, removed, published>>
    BY <1>10 DEF Tailing, OpenTail, ReadPage, SendRecord, WakeUp, NoticeCancel, FinishTail, HistoryFails, StopTail,
        ReceiveDurable, CancelContext, CloseTail, LogAndSubs, noticeVars
  <1>11. CASE UNCHANGED vars
    BY <1>1, <1>11 DEF vars, noticeVars
  <1>. QED
    BY <1>1, <1>3, <1>4, <1>5, <1>6, <1>7, <1>8, <1>9, <1>10, <1>11 DEF Next

------------------------------------------------------------------------------
(* notify and the live subscriptions.                                       *)

LEMMA TellTyped ==
    ASSUME TypeOK, NEW p \in Publishers, NEW e \in Envelope, Tell(p, e), UNCHANGED registered
    PROVE  NoticeTyped'
  <1>1. [state |-> "committed", envelope |-> e, left |-> {}] \in Notice
    BY DEF Notice
  <1>. QED
    BY <1>1 DEF TypeOK, Tell, NoticeTyped

LEMMA NoticesTyped == ASSUME TypeOK, [Next]_vars PROVE NoticeTyped'
  <1>0. NoticeTyped
    BY TypesInParts
  <1>1. CASE UNCHANGED <<notice, registered>>
    BY <1>0, <1>1 DEF NoticeTyped
  <1>2. ASSUME NEW p \in Publishers, NEW a \in Aggregates, NEW t \in Types, CommitEvent(p, a, t)
        PROVE  NoticeTyped'
    <2>1. NextEvent(t) \in Event /\ Len(log[a]) \in Nat
      BY <1>2, NextEventTyped DEF CommitEvent, TypeOK
    <2>2. [aggregate |-> a, sequence |-> Len(log[a]), event |-> NextEvent(t)] \in Envelope
      BY <2>1 DEF Envelope
    <2>. QED
      BY <1>2, <2>2, TellTyped DEF CommitEvent
  <1>3. ASSUME NEW p \in Publishers, NEW t \in Types, PublishLive(p, t)
        PROVE  NoticeTyped'
    <2>1. NextEvent(t) \in Event
      BY <1>3, NextEventTyped DEF PublishLive
    <2>2. [aggregate |-> NoAggregate, sequence |-> 0, event |-> NextEvent(t)] \in Envelope
      BY <2>1 DEF Envelope
    <2>. QED
      BY <1>3, <2>2, TellTyped DEF PublishLive
  <1>4. ASSUME NEW p \in Publishers, notice[p] # Idle PROVE notice[p] \in Notice
    BY <1>0, <1>4 DEF NoticeTyped
  <1>5. ASSUME NEW p \in Publishers, NEW n \in Notice \cup {Idle}, notice' = [notice EXCEPT ![p] = n], UNCHANGED registered
        PROVE  NoticeTyped'
    BY <1>0, <1>5 DEF NoticeTyped
  <1>6. ASSUME NEW p \in Publishers, SnapshotListeners(p) PROVE NoticeTyped'
    <2>1. PICK n \in Notice : n = notice[p]
      BY <1>4, <1>6 DEF SnapshotListeners
    <2>2. [n EXCEPT !.state = "calling", !.left = registered] \in Notice
      BY <1>0 DEF Notice, NoticeTyped
    <2>3. notice' = [notice EXCEPT ![p] = [n EXCEPT !.state = "calling", !.left = registered]]
      BY <1>6, <2>1 DEF SnapshotListeners
    <2>. QED
      BY <1>5, <1>6, <2>2, <2>3 DEF SnapshotListeners
  <1>7. ASSUME NEW p \in Publishers, CallListener(p) PROVE NoticeTyped'
    <2>1. PICK n \in Notice : n = notice[p]
      BY <1>4, <1>7 DEF CallListener
    <2>2. PICK l : notice' = [notice EXCEPT ![p] = [n EXCEPT !.left = n.left \ {l}]]
      BY <1>7, <2>1 DEF CallListener, ListenerCalled
    <2>3. [n EXCEPT !.left = n.left \ {l}] \in Notice
      BY DEF Notice
    <2>. QED
      BY <1>5, <1>7, <2>2, <2>3 DEF CallListener
  <1>8. ASSUME NEW p \in Publishers, Broadcast(p) PROVE NoticeTyped'
    BY <1>5, <1>8 DEF Broadcast
  <1>9. ASSUME NEW l \in Listeners, Listen(l) \/ Unlisten(l) PROVE NoticeTyped'
    BY <1>0, <1>9 DEF Listen, Unlisten, NoticeTyped
  <1>10. ASSUME NEW a \in Aggregates, RemoveAggregate(a) \/ \E t \in Types : ReplayQuietly(a, t)
         PROVE UNCHANGED <<notice, registered>>
    BY <1>10 DEF RemoveAggregate, ReplayQuietly, noticeVars
  <1>11. ASSUME NEW s \in Subscribers, Subscribe(s) \/ ReceiveLive(s) \/ Unsubscribe(s)
         PROVE UNCHANGED <<notice, registered>>
    BY <1>11 DEF Subscribe, ReceiveLive, Unsubscribe, LogAndTails, noticeVars
  <1>12. ASSUME NEW d \in Tails,
                \/ \E start \in Starts : OpenTail(d, start)
                \/ Tailing(d) \/ HistoryFails(d) \/ ReceiveDurable(d) \/ CancelContext(d) \/ CloseTail(d)
         PROVE  UNCHANGED <<notice, registered>>
    BY <1>12 DEF Tailing, OpenTail, ReadPage, SendRecord, WakeUp, NoticeCancel, FinishTail, HistoryFails, StopTail,
        ReceiveDurable, CancelContext, CloseTail, LogAndSubs, noticeVars
  <1>13. CASE UNCHANGED vars
    BY <1>1, <1>13 DEF vars, noticeVars
  <1>. QED
    BY <1>1, <1>2, <1>3, <1>6, <1>7, <1>8, <1>9, <1>10, <1>11, <1>12, <1>13 DEF Next, Notifying

\* What enters a channel, and what leaves it, as the history sees it.
LEMMA AppendMoves ==
    ASSUME NEW S, NEW s \in Seq(S), NEW t \in Seq(S), NEW x \in S
    PROVE  s \o Append(t, x) = Append(s \o t, x) /\ Append(t, x) \in Seq(S) /\ Len(Append(t, x)) = Len(t) + 1
  <1>1. Append(t, x) \in Seq(S) /\ <<x>> \in Seq(S) /\ s \o t \in Seq(S)
    BY AppendProperties, ConcatProperties
  <1>2. Append(t, x) = t \o <<x>> /\ Append(s \o t, x) = (s \o t) \o <<x>>
    BY <1>1, AppendIsConcat
  <1>3. (s \o t) \o <<x>> = s \o (t \o <<x>>)
    BY <1>1, ConcatAssociative
  <1>. QED
    BY <1>1, <1>2, <1>3, AppendProperties

LEMMA HeadMoves ==
    ASSUME NEW S, NEW s \in Seq(S), NEW t \in Seq(S), t # <<>>
    PROVE  /\ Append(s, Head(t)) \o Tail(t) = s \o t
           /\ Head(t) \in S /\ Append(s, Head(t)) \in Seq(S)
           /\ Tail(t) \in Seq(S) /\ Len(Tail(t)) = Len(t) - 1
  <1> DEFINE moved == Append(s, Head(t)) \o Tail(t)
  <1>1. Head(t) \in S /\ Tail(t) \in Seq(S) /\ Len(Tail(t)) = Len(t) - 1
    BY HeadTailProperties
  <1>2. Append(s, Head(t)) \in Seq(S) /\ s \o t \in Seq(S) /\ moved \in Seq(S)
    BY <1>1, ConcatProperties, AppendProperties
  <1>3. Len(s \o t) = Len(moved)
    BY <1>1, ConcatProperties, AppendProperties
  <1>4. ASSUME NEW i \in 1 .. Len(moved) PROVE (s \o t)[i] = moved[i]
    BY <1>1, <1>3, ConcatProperties, AppendProperties, HeadTailProperties
  <1>5. s \o t = moved
    BY <1>2, <1>3, <1>4, SeqEqual
  <1>. QED
    BY <1>1, <1>2, <1>5

LEMMA PrefixOfAppend ==
    ASSUME NEW S, NEW s \in Seq(S), NEW x \in S
    PROVE  IsPrefix(s, Append(s, x))
  <1> DEFINE t == Append(s, x)
  <1>1. t \in Seq(S) /\ Len(t) = Len(s) + 1 /\ \A i \in 1 .. Len(s) : t[i] = s[i]
    BY AppendProperties
  <1>2. PICK n \in Nat : n = Len(s)
    OBVIOUS
  <1>3. /\ SubSeq(s, 1, n) \in Seq(S) /\ Len(SubSeq(s, 1, n)) = n
        /\ \A i \in 1 .. n : SubSeq(s, 1, n)[i] = s[i]
    BY <1>2, SubSeqProperties, ElementOfSeq
  <1>4. /\ SubSeq(t, 1, n) \in Seq(S) /\ Len(SubSeq(t, 1, n)) = n
        /\ \A i \in 1 .. n : SubSeq(t, 1, n)[i] = t[i]
    <2> HIDE DEF t
    <2>1. \A i \in 1 .. n : t[i] \in S
      BY <1>1, <1>2, ElementOfSeq
    <2>. QED
      BY <1>2, <2>1, SubSeqProperties
  <1>5. SubSeq(s, 1, n) = SubSeq(t, 1, n)
    BY <1>1, <1>2, <1>3, <1>4, SeqEqual
  <1>. QED
    BY <1>1, <1>2, <1>5 DEF IsPrefix

LEMMA EqualIsPrefix == ASSUME NEW S, NEW s \in Seq(S) PROVE IsPrefix(s, s)
  BY DEF IsPrefix

LEMMA SubscriptionKept ==
    ASSUME NEW s \in Subscribers, SubscriptionAt(s), ended'[s] = ended[s], got'[s] = got[s], inbox'[s] = inbox[s],
           sent'[s] = sent[s], s \in open' => s \in open
    PROVE  SubscriptionAt(s)'
  BY DEF SubscriptionAt, Taken

LEMMA BroadcastKeeps ==
    ASSUME TypeOK, \A s \in Subscribers : SubscriptionAt(s), NEW p \in Publishers, Broadcast(p)
    PROVE  SubsTyped' /\ \A s \in Subscribers : SubscriptionAt(s)'
  <1>0. SubsTyped
    BY TypesInParts
  <1>1. PICK e \in Envelope : e = notice[p].envelope
    <2>1. notice[p] \in Notice
      BY DEF TypeOK, Broadcast, AllCalled
    <2>. QED
      BY <2>1 DEF Notice
  <1> DEFINE lost == Overflown(e)
             reached == {s \in open : Matches(s, e)}
  <1>2. /\ inbox' = [s \in Subscribers |-> IF s \in reached \ lost THEN Append(inbox[s], e) ELSE inbox[s]]
        /\ sent' = [s \in Subscribers |-> IF s \in reached THEN Append(sent[s], e) ELSE sent[s]]
        /\ open' = open \ lost
        /\ ended' = [s \in Subscribers |-> IF s \in lost THEN "overflow" ELSE ended[s]]
        /\ got' = got
    BY <1>1 DEF Broadcast, CloseOverflown
  <1>3. lost \subseteq reached /\ reached \subseteq open
        /\ \A s \in reached : s \in lost <=> Len(inbox[s]) >= Capacity
    BY DEF Overflown
  <1> HIDE DEF lost, reached
  <1>4. ASSUME NEW s \in Subscribers
        PROVE  /\ inbox'[s] \in Seq(Envelope) /\ Len(inbox'[s]) <= Capacity
               /\ sent'[s] \in Seq(Envelope) /\ SubscriptionAt(s)'
    <2>1. /\ got[s] \in Seq(Envelope) /\ inbox[s] \in Seq(Envelope) /\ sent[s] \in Seq(Envelope)
          /\ Len(inbox[s]) <= Capacity
      BY <1>0 DEF SubsTyped
    <2>2. CASE s \notin reached
      <3>1. inbox'[s] = inbox[s] /\ sent'[s] = sent[s] /\ ended'[s] = ended[s] /\ got'[s] = got[s] /\ (s \in open' => s \in open)
        BY <1>2, <1>3, <2>2
      <3>. QED
        BY <2>1, <3>1, SubscriptionKept
    <2>3. CASE s \in reached \ lost
      <3>1. /\ inbox'[s] = Append(inbox[s], e) /\ sent'[s] = Append(sent[s], e)
            /\ ended'[s] = ended[s] /\ got'[s] = got[s] /\ s \in open
        BY <1>2, <1>3, <2>3
      <3>2. Taken(s) = sent[s] /\ ended[s] = "no"
        BY <3>1 DEF SubscriptionAt
      <3>3. /\ got[s] \o Append(inbox[s], e) = Append(got[s] \o inbox[s], e)
            /\ Append(inbox[s], e) \in Seq(Envelope) /\ Len(Append(inbox[s], e)) = Len(inbox[s]) + 1
            /\ Append(sent[s], e) \in Seq(Envelope)
        <4>1. PICK g \in Seq(Envelope), b \in Seq(Envelope), m \in Seq(Envelope) :
                  g = got[s] /\ b = inbox[s] /\ m = sent[s]
          BY <2>1
        <4>2. g \o Append(b, e) = Append(g \o b, e) /\ Append(b, e) \in Seq(Envelope) /\ Len(Append(b, e)) = Len(b) + 1
          BY ONLY AppendMoves, g \in Seq(Envelope), b \in Seq(Envelope), e \in Envelope
        <4>3. Append(m, e) \in Seq(Envelope)
          BY AppendProperties
        <4>. QED
          BY <4>1, <4>2, <4>3
      <3>4. SubscriptionAt(s)'
        BY <3>1, <3>2, <3>3 DEF SubscriptionAt, Taken
      <3>5. Len(inbox[s]) + 1 <= Capacity
        BY <1>3, <2>1, <2>3, ConstantTypes
      <3>. QED
        BY <3>1, <3>3, <3>4, <3>5
    <2>4. CASE s \in lost
      <3>1. /\ inbox'[s] = inbox[s] /\ sent'[s] = Append(sent[s], e)
            /\ ended'[s] = "overflow" /\ got'[s] = got[s] /\ s \notin open' /\ s \in open
        BY <1>2, <1>3, <2>4
      <3>2. Taken(s) = sent[s]
        BY <3>1 DEF SubscriptionAt
      <3>3. Len(inbox[s]) >= Capacity
        BY <1>3, <2>4
      <3>4. Len(sent[s]) \in Nat /\ Len(sent[s]) >= Len(inbox[s]) /\ Len(inbox[s]) \in Nat
        <4>1. PICK n \in Nat, m \in Nat : n = Len(got[s]) /\ m = Len(inbox[s])
          BY <2>1
        <4>2. Len(got[s] \o inbox[s]) = n + m
          BY <2>1, <4>1, ConcatProperties
        <4>3. Len(sent[s]) = n + m
          BY <3>2, <4>2 DEF Taken
        <4>4. n + m \in Nat /\ n + m >= m
          BY ONLY n \in Nat, m \in Nat
        <4>. QED
          BY <4>1, <4>3, <4>4, Zenon
      <3>5. Append(sent[s], e) \in Seq(Envelope) /\ Len(Append(sent[s], e)) = Len(sent[s]) + 1
            /\ IsPrefix(sent[s], Append(sent[s], e))
        BY <2>1, AppendProperties, PrefixOfAppend
      <3>6. Taken(s)' = sent[s]
        BY <3>1, <3>2 DEF Taken
      <3>7. Len(sent[s]) = Len(sent'[s]) - 1 /\ Len(sent'[s]) > Capacity
        <4>1. Len(sent'[s]) = Len(sent[s]) + 1
          BY <3>1, <3>5
        <4>2. PICK n \in Nat, m \in Nat : n = Len(sent[s]) /\ m = Len(inbox[s])
          BY <3>4
        <4>. QED
          BY <3>3, <3>4, <4>1, <4>2, ConstantTypes
      <3>8. SubscriptionAt(s)'
        BY <3>1, <3>5, <3>6, <3>7 DEF SubscriptionAt
      <3>. QED
        BY <2>1, <3>1, <3>5, <3>8
    <2>. QED
      BY <1>3, <2>2, <2>3, <2>4
  <1>5. SubsTyped'
    BY <1>0, <1>2, <1>4 DEF SubsTyped
  <1>. QED
    BY <1>4, <1>5

LEMMA SubscriptionsKept ==
    ASSUME TypeOK, \A s \in Subscribers : SubscriptionAt(s), [Next]_vars
    PROVE  SubsTyped' /\ \A s \in Subscribers : SubscriptionAt(s)'
  <1>0. SubsTyped
    BY TypesInParts
  <1>1. CASE UNCHANGED subVars
    <2>1. \A s \in Subscribers : SubscriptionAt(s)'
      BY <1>1, SubscriptionKept DEF subVars
    <2>. QED
      BY <1>0, <1>1, <2>1 DEF subVars, SubsTyped
  <1>2. ASSUME NEW s \in Subscribers, Subscribe(s)
        PROVE  SubsTyped' /\ \A x \in Subscribers : SubscriptionAt(x)'
    <2>1. ended[s] = "no" /\ open' = open \cup {s} /\ UNCHANGED <<inbox, ended, got, sent>>
      BY <1>2 DEF Subscribe
    <2>2. SubscriptionAt(s)'
      BY <2>1 DEF SubscriptionAt, Taken
    <2>3. \A x \in Subscribers : x # s => SubscriptionAt(x)'
      BY <2>1, SubscriptionKept
    <2>. QED
      BY <1>0, <2>1, <2>2, <2>3 DEF SubsTyped
  <1>3. ASSUME NEW s \in Subscribers, ReceiveLive(s)
        PROVE  SubsTyped' /\ \A x \in Subscribers : SubscriptionAt(x)'
    <2>1. /\ inbox[s] # <<>> /\ got' = [got EXCEPT ![s] = Append(got[s], Head(inbox[s]))]
          /\ inbox' = [inbox EXCEPT ![s] = Tail(inbox[s])] /\ UNCHANGED <<open, ended, sent>>
      BY <1>3 DEF ReceiveLive
    <2>2. got[s] \in Seq(Envelope) /\ inbox[s] \in Seq(Envelope)
      BY <1>0 DEF SubsTyped
    <2>3. /\ Append(got[s], Head(inbox[s])) \o Tail(inbox[s]) = got[s] \o inbox[s]
          /\ Append(got[s], Head(inbox[s])) \in Seq(Envelope)
          /\ Tail(inbox[s]) \in Seq(Envelope) /\ Len(Tail(inbox[s])) = Len(inbox[s]) - 1
      BY <2>1, <2>2, HeadMoves
    <2>4. Taken(s)' = Taken(s)
      BY <1>0, <2>1, <2>3 DEF Taken, SubsTyped
    <2>5. SubscriptionAt(s)'
      BY <2>1, <2>4 DEF SubscriptionAt
    <2>6. \A x \in Subscribers : x # s => SubscriptionAt(x)'
      BY <1>0, <2>1, SubscriptionKept DEF SubsTyped
    <2>7. Len(Tail(inbox[s])) <= Capacity
      BY <1>0, <2>2, <2>3, ConstantTypes DEF SubsTyped
    <2>8. SubsTyped'
      BY <1>0, <2>1, <2>3, <2>7 DEF SubsTyped
    <2>. QED
      BY <2>5, <2>6, <2>8
  <1>4. ASSUME NEW s \in Subscribers, Unsubscribe(s)
        PROVE  SubsTyped' /\ \A x \in Subscribers : SubscriptionAt(x)'
    <2>1. s \in open /\ open' = open \ {s} /\ ended' = [ended EXCEPT ![s] = "closed"] /\ UNCHANGED <<inbox, got, sent>>
      BY <1>4 DEF Unsubscribe
    <2>2. SubscriptionAt(s)'
      BY <1>0, <2>1 DEF SubscriptionAt, Taken, SubsTyped
    <2>3. \A x \in Subscribers : x # s => SubscriptionAt(x)'
      BY <1>0, <2>1, SubscriptionKept DEF SubsTyped
    <2>. QED
      BY <1>0, <2>1, <2>2, <2>3 DEF SubsTyped
  <1>5. ASSUME NEW p \in Publishers, SnapshotListeners(p) \/ CallListener(p) PROVE UNCHANGED subVars
    BY <1>5 DEF SnapshotListeners, CallListener
  <1>6. ASSUME NEW p \in Publishers, NEW t \in Types, PublishLive(p, t) \/ \E a \in Aggregates : CommitEvent(p, a, t)
        PROVE UNCHANGED subVars
    BY <1>6 DEF PublishLive, CommitEvent
  <1>7. ASSUME NEW a \in Aggregates, RemoveAggregate(a) \/ \E t \in Types : ReplayQuietly(a, t) PROVE UNCHANGED subVars
    BY <1>7 DEF RemoveAggregate, ReplayQuietly
  <1>8. ASSUME NEW l \in Listeners, Listen(l) \/ Unlisten(l) PROVE UNCHANGED subVars
    BY <1>8 DEF Listen, Unlisten
  <1>9. ASSUME NEW d \in Tails,
               \/ \E start \in Starts : OpenTail(d, start)
               \/ Tailing(d) \/ HistoryFails(d) \/ ReceiveDurable(d) \/ CancelContext(d) \/ CloseTail(d)
        PROVE  UNCHANGED subVars
    BY <1>9 DEF Tailing, OpenTail, ReadPage, SendRecord, WakeUp, NoticeCancel, FinishTail, HistoryFails, StopTail,
        ReceiveDurable, CancelContext, CloseTail, LogAndSubs
  <1>10. CASE UNCHANGED vars
    BY <1>1, <1>10 DEF vars
  <1>. QED
    BY <1>1, <1>2, <1>3, <1>4, <1>5, <1>6, <1>7, <1>8, <1>9, <1>10, BroadcastKeeps DEF Next, Notifying

------------------------------------------------------------------------------
(* The durable tails.                                                       *)

LEMMA RecordStays ==
    ASSUME TypeOK, LogTyped', LogGrows, NEW d \in Tails, NEW r, NEW n \in Nat, IsRecord(r, d, n)
    PROVE  IsRecord(r, d, n)'
  <1>1. PICK a \in Aggregates : a = AggregateOf[d]
    BY ConstantTypes
  <1>2. r.sequence = n
    BY DEF IsRecord
  <1>3. ASSUME a \notin removed' PROVE n + 1 <= Len(log'[a]) /\ r.event = log'[a][n + 1]
    <2>1. n + 1 <= Len(log[a]) /\ r.event = log[a][n + 1]
      <3>1. a \notin removed
        BY <1>3 DEF LogGrows
      <3>. QED
        BY <1>1, <3>1 DEF IsRecord
    <2>2. Len(log[a]) <= Len(log'[a]) /\ \A i \in 1 .. Len(log[a]) : log'[a][i] = log[a][i]
      BY <1>3 DEF LogGrows
    <2>3. PICK m \in Nat : m = Len(log[a])
      BY DEF TypeOK
    <2>4. n + 1 \in 1 .. m
      BY <2>1, <2>3
    <2>5. PICK k \in Nat : k = Len(log'[a])
      BY DEF LogTyped
    <2>. QED
      BY <2>1, <2>2, <2>3, <2>4, <2>5
  <1>. QED
    BY <1>1, <1>2, <1>3 DEF IsRecord

LEMMA DeliveredStays ==
    ASSUME TypeOK, LogTyped', LogGrows, NEW d \in Tails, DeliveredAt(d),
           after'[d] = after[d], cursor'[d] = cursor[d], Delivered(d)' = Delivered(d),
           stage'[d] = "off" => stage[d] = "off" /\ seen'[d] = seen[d] /\ outbox'[d] = outbox[d]
    PROVE  DeliveredAt(d)'
  <1>1. PICK s \in Seq(Envelope), n \in Int : s = Delivered(d) /\ n = after[d]
    BY ConcatProperties DEF TypeOK, Delivered
  <1>2. n >= -1
    BY <1>1 DEF DeliveredAt
  <1>3. ASSUME NEW i \in 1 .. Len(s) PROVE IsRecord(s[i], d, n + i)'
    <2>1. IsRecord(s[i], d, n + i)
      BY <1>1 DEF DeliveredAt
    <2>2. n + i \in Nat
      BY <1>2
    <2>. QED
      BY <2>1, <2>2, RecordStays
  <1>4. \A i \in 1 .. Len(Delivered(d)') : IsRecord(Delivered(d)[i], d, after[d] + i)'
    BY <1>1, <1>3
  <1>. QED
    BY <1>4 DEF DeliveredAt

LEMMA PageStays ==
    ASSUME TypeOK, LogTyped', LogGrows, NEW d \in Tails, DeliveredAt(d), PageAt(d),
           cursor'[d] = cursor[d], page'[d] = page[d], stage'[d] = "sending" <=> stage[d] = "sending"
    PROVE  PageAt(d)'
  <1>1. PICK s \in Seq(Envelope), n \in Int : s = page[d] /\ n = cursor[d]
    BY DEF TypeOK
  <1>2. n >= -1
    <2>1. PICK m \in Nat : m = Len(Delivered(d))
      BY ConcatProperties DEF TypeOK, Delivered
    <2>2. PICK k \in Int : k = after[d]
      BY DEF TypeOK
    <2>. QED
      BY <1>1, <2>1, <2>2 DEF DeliveredAt
  <1>3. ASSUME NEW i \in 1 .. Len(s) PROVE IsRecord(s[i], d, n + i)'
    <2>1. IsRecord(s[i], d, n + i)
      BY <1>1 DEF PageAt
    <2>2. n + i \in Nat
      BY <1>2
    <2>. QED
      BY <2>1, <2>2, RecordStays
  <1>. QED
    BY <1>1, <1>3 DEF PageAt

LEMMA EmptyPage ==
    ASSUME NEW d \in Tails, page'[d] = <<>>, stage'[d] # "sending"
    PROVE  PageAt(d)'
  BY DEF PageAt

LEMMA TailUntouched ==
    ASSUME TypeOK, LogTyped', LogGrows, NEW d \in Tails, TailInv(d),
           stage'[d] = stage[d], after'[d] = after[d], cursor'[d] = cursor[d], page'[d] = page[d],
           outbox'[d] = outbox[d], seen'[d] = seen[d], failure'[d] = failure[d],
           canceled[d] => canceled'[d], closing[d] => closing'[d]
    PROVE  TailInv(d)'
  <1>1. Delivered(d)' = Delivered(d)
    BY DEF Delivered
  <1>2. DeliveredAt(d)' /\ PageAt(d)'
    BY <1>1, DeliveredStays, PageStays DEF TailInv
  <1>3. FailureAt(d)'
    BY DEF TailInv, FailureAt
  <1>. QED
    BY <1>2, <1>3 DEF TailInv

\* A history page holds the next records of the history, and no more than it may.
LEMMA MinOfTwo ==
    ASSUME NEW m \in Int, NEW n \in Int
    PROVE  Min({m, n}) = IF m <= n THEN m ELSE n
  <1>1. \E x \in {m, n} : \A y \in {m, n} : x <= y
    OBVIOUS
  <1>2. Min({m, n}) \in {m, n} /\ \A y \in {m, n} : Min({m, n}) <= y
    BY <1>1 DEF Min
  <1>. QED
    BY <1>2

LEMMA PageOfHistory ==
    ASSUME TypeOK, NEW d \in Tails, NEW n \in Int, n >= -1
    PROVE  /\ HistoryPage(AggregateOf[d], n) \in Seq(Envelope)
           /\ Len(HistoryPage(AggregateOf[d], n)) <= BatchSize
           /\ \A i \in 1 .. Len(HistoryPage(AggregateOf[d], n)) : IsRecord(HistoryPage(AggregateOf[d], n)[i], d, n + i)
  <1>1. PICK a \in Aggregates : a = AggregateOf[d]
    BY ConstantTypes
  <1>2. PICK history \in Seq(Event) : history = log[a]
    BY DEF TypeOK
  <1>3. PICK k \in Nat : k = Len(history)
    OBVIOUS
  <1> DEFINE r == [i \in 1 .. k |-> [aggregate |-> a, sequence |-> i - 1, event |-> history[i]]]
             m == IF n + 1 + BatchSize <= k THEN n + 1 + BatchSize ELSE k
             h == SubSeq(r, n + 2, m)
  <1>4. Records(a) = r
    BY <1>2, <1>3 DEF Records
  <1>5. m \in Int /\ m <= k /\ m <= n + 1 + BatchSize
    BY <1>3, ConstantTypes
  <1>6. HistoryPage(AggregateOf[d], n) = h
    <2>1. Min({n + 1 + BatchSize, k}) = m
      BY ConstantTypes, MinOfTwo
    <2>2. HistoryPage(a, n) = SubSeq(r, n + 2, Min({n + 1 + BatchSize, k}))
      BY <1>2, <1>3, <1>4 DEF HistoryPage
    <2>. QED
      BY <1>1, <2>1, <2>2
  <1>7. \A i \in 1 .. k : r[i] = [aggregate |-> a, sequence |-> i - 1, event |-> history[i]] /\ r[i] \in Envelope
    <2>1. ASSUME NEW i \in 1 .. k PROVE r[i] = [aggregate |-> a, sequence |-> i - 1, event |-> history[i]] /\ r[i] \in Envelope
      <3>1. history[i] \in Event /\ i - 1 \in Nat
        BY <1>3, ElementOfSeq
      <3>. QED
        BY <3>1 DEF Envelope
    <2>. QED
      BY <2>1
  <1>8. \A i \in n + 2 .. m : r[i] \in Envelope
    BY <1>5, <1>7
  <1> HIDE DEF r
  <1>9. PICK w \in Int : w = m
    BY <1>5
  <1>10. PICK v \in Int : v = n + 2
    OBVIOUS
  <1>11. /\ h \in Seq(Envelope)
         /\ Len(h) = IF v <= w THEN w - v + 1 ELSE 0
         /\ \A i \in 1 .. w - v + 1 : h[i] = r[v + i - 1]
    <2>1. \A i \in v .. w : r[i] \in Envelope
      BY <1>8, <1>9, <1>10
    <2>. QED
      BY <1>9, <1>10, <2>1, SubSeqProperties, SMTT(20)
  <1>12. Len(h) <= BatchSize
    BY <1>5, <1>9, <1>10, <1>11, ConstantTypes
  <1>13. ASSUME NEW i \in 1 .. Len(h) PROVE IsRecord(h[i], d, n + i)
    <2>1. i \in 1 .. w - v + 1 /\ v <= w
      BY <1>11
    <2>2. PICK j \in Nat : j = n + 1 + i
      BY <2>1
    <2>3. j \in 1 .. k /\ v + i - 1 = j /\ j - 1 = n + i
      BY <1>5, <1>9, <1>10, <2>1, <2>2
    <2>4. h[i] = [aggregate |-> a, sequence |-> n + i, event |-> history[j]]
      BY <1>7, <1>11, <2>1, <2>3
    <2>5. n + i + 1 = j /\ j <= Len(log[a])
      BY <1>2, <1>3, <2>2, <2>3
    <2>6. PICK x : x = h[i]
      OBVIOUS
    <2> HIDE DEF h, m
    <2>7. x.sequence = n + i /\ x.event = history[j]
      BY <2>4, <2>6
    <2>8. IsRecord(x, d, n + i)
      BY <1>1, <1>2, <2>5, <2>7 DEF IsRecord
    <2>. QED
      BY <2>6, <2>8
  <1>. QED
    BY <1>6, <1>11, <1>12, <1>13

LEMMA OpenTailKeeps ==
    ASSUME TypeOK, LogTyped', LogGrows, \A x \in Tails : TailInv(x), NEW d \in Tails, NEW n \in Starts, OpenTail(d, n)
    PROVE  TailsTyped' /\ \A x \in Tails : TailInv(x)'
  <1>0. TailsTyped /\ TailInv(d)
    BY TypesInParts
  <1>1. /\ stage[d] = "off" /\ stage' = [stage EXCEPT ![d] = "reading"]
        /\ after' = [after EXCEPT ![d] = n] /\ cursor' = [cursor EXCEPT ![d] = n] /\ wakes' = wakes \cup {d}
        /\ UNCHANGED <<page, more, wake, outbox, seen, canceled, closing, failure>>
    BY DEF OpenTail, To
  <1>2. n \in Int /\ n >= -1
    BY ConstantTypes
  <1>3. seen[d] = <<>> /\ outbox[d] = <<>> /\ page[d] = <<>>
    BY <1>0, <1>1 DEF TailInv, DeliveredAt, PageAt
  <1>4. Delivered(d)' = <<>>
    BY <1>1, <1>3 DEF Delivered
  <1>5. after'[d] = n /\ cursor'[d] = n /\ stage'[d] = "reading" /\ page'[d] = <<>>
    BY <1>0, <1>1, <1>3 DEF TailsTyped
  <1>6. DeliveredAt(d)'
    BY <1>2, <1>4, <1>5 DEF DeliveredAt
  <1>7. TailInv(d)'
    BY <1>5, <1>6, EmptyPage DEF TailInv, FailureAt
  <1>8. TailsTyped'
    BY <1>0, <1>1, <1>2 DEF TailsTyped
  <1>9. ASSUME NEW y \in Tails, y # d PROVE TailInv(y)'
    BY <1>0, <1>1, <1>9, TailUntouched DEF TailsTyped
  <1>. QED
    BY <1>7, <1>8, <1>9

LEMMA ReadPageKeeps ==
    ASSUME TypeOK, LogTyped', LogGrows, \A x \in Tails : TailInv(x), NEW d \in Tails, ReadPage(d)
    PROVE  TailsTyped' /\ \A x \in Tails : TailInv(x)'
  <1>0. TailsTyped /\ TailInv(d)
    BY TypesInParts
  <1>1. /\ stage[d] = "reading" /\ page' = [page EXCEPT ![d] = HistoryPage(AggregateOf[d], cursor[d])]
        /\ more' = [more EXCEPT ![d] = Len(HistoryPage(AggregateOf[d], cursor[d])) = BatchSize]
        /\ stage' = [stage EXCEPT ![d] = IF HistoryPage(AggregateOf[d], cursor[d]) = <<>> THEN "waiting" ELSE "sending"]
        /\ UNCHANGED <<after, cursor, wake, wakes, outbox, seen, canceled, closing, failure>>
        /\ UNCHANGED <<log, removed>>
    BY DEF ReadPage, To, LogAndSubs
  <1>2. PICK n \in Int : n = cursor[d] /\ n >= -1
    <2>1. PICK m \in Nat : m = Len(Delivered(d))
      BY <1>0, ConcatProperties DEF TailsTyped, Delivered
    <2>2. PICK k \in Int : k = after[d]
      BY <1>0 DEF TailsTyped
    <2>. QED
      BY <1>0, <2>1, <2>2 DEF TailInv, DeliveredAt
  <1>3. PICK r \in Seq(Envelope) : r = HistoryPage(AggregateOf[d], n)
    BY <1>2, PageOfHistory
  <1>4. Len(r) <= BatchSize /\ \A i \in 1 .. Len(r) : IsRecord(r[i], d, n + i)
    BY <1>2, <1>3, PageOfHistory
  <1>5. \A i \in 1 .. Len(r) : IsRecord(r[i], d, n + i)'
    BY <1>1, <1>4 DEF IsRecord
  <1>6. page'[d] = r /\ stage'[d] = (IF r = <<>> THEN "waiting" ELSE "sending") /\ cursor'[d] = n
    BY <1>0, <1>1, <1>2, <1>3 DEF TailsTyped
  <1>7. PageAt(d)'
    BY <1>5, <1>6 DEF PageAt
  <1>8. DeliveredAt(d)' /\ FailureAt(d)'
    <2>1. Delivered(d)' = Delivered(d)
      BY <1>1 DEF Delivered
    <2>2. DeliveredAt(d)'
      BY <1>0, <1>1, <1>6, <2>1, DeliveredStays DEF TailInv
    <2>. QED
      BY <1>6, <2>2 DEF FailureAt
  <1>9. ASSUME NEW y \in Tails, y # d PROVE TailInv(y)'
    BY <1>0, <1>1, <1>9, TailUntouched DEF TailsTyped
  <1>10. TailsTyped'
    <2>1. (Len(r) = BatchSize) \in BOOLEAN
      OBVIOUS
    <2>2. page' = [page EXCEPT ![d] = r] /\ more' = [more EXCEPT ![d] = (Len(r) = BatchSize)]
      BY <1>1, <1>2, <1>3
    <2>3. stage' \in [Tails -> {"off", "reading", "sending", "waiting", "finishing", "done"}]
      BY <1>0, <1>1 DEF TailsTyped
    <2>. QED
      BY <1>0, <1>1, <1>4, <2>1, <2>2, <2>3 DEF TailsTyped
  <1>. QED
    BY <1>7, <1>8, <1>9, <1>10 DEF TailInv

LEMMA SendRecordKeeps ==
    ASSUME TypeOK, LogTyped', LogGrows, \A x \in Tails : TailInv(x), NEW d \in Tails, SendRecord(d)
    PROVE  TailsTyped' /\ \A x \in Tails : TailInv(x)'
  <1>0. TailsTyped /\ TailInv(d)
    BY TypesInParts
  <1>1. /\ stage[d] = "sending" /\ Len(outbox[d]) < Capacity
        /\ outbox' = [outbox EXCEPT ![d] = Append(outbox[d], Head(page[d]))]
        /\ cursor' = [cursor EXCEPT ![d] = Head(page[d]).sequence]
        /\ page' = [page EXCEPT ![d] = Tail(page[d])] /\ stage' = [stage EXCEPT ![d] = AfterRecord(d)]
        /\ UNCHANGED <<after, more, wake, wakes, seen, canceled, closing, failure>>
        /\ UNCHANGED <<log, removed>>
    BY DEF SendRecord, To, LogAndSubs
  <1>2. PICK r \in Seq(Envelope), s \in Seq(Envelope), o \in Seq(Envelope), n \in Int, m \in Int :
            r = page[d] /\ s = seen[d] /\ o = outbox[d] /\ n = cursor[d] /\ m = after[d]
    BY <1>0 DEF TailsTyped
  <1>3. r # <<>> /\ \A i \in 1 .. Len(r) : IsRecord(r[i], d, n + i)
    BY <1>0, <1>1, <1>2 DEF TailInv, PageAt
  <1>4. PICK x \in Envelope : x = Head(r)
    BY <1>3, HeadTailProperties
  <1>5. PICK q \in Seq(Envelope) : q = Tail(r) /\ Len(q) = Len(r) - 1 /\ \A i \in 1 .. Len(q) : q[i] = r[i + 1]
    BY <1>3, HeadTailProperties
  <1>6. Len(r) \in Nat /\ Len(r) >= 1 /\ r[1] = x
    BY <1>3, <1>4, EmptySeq
  <1>7. x.sequence = n + 1 /\ IsRecord(x, d, n + 1)
    BY <1>3, <1>6 DEF IsRecord
  <1>8. /\ outbox'[d] = Append(o, x) /\ cursor'[d] = n + 1 /\ page'[d] = q /\ after'[d] = m /\ seen'[d] = s
        /\ stage'[d] = AfterRecord(d)
    BY <1>0, <1>1, <1>2, <1>4, <1>5, <1>7 DEF TailsTyped
  <1>9. ASSUME NEW y \in Tails, y # d PROVE TailInv(y)'
    BY <1>0, <1>1, <1>9, TailUntouched DEF TailsTyped
  <1>10. PICK b \in Seq(Envelope) : b = Delivered(d) /\ b = s \o o
    BY <1>2, ConcatProperties DEF Delivered
  <1>11. PICK c \in Seq(Envelope) : c = s \o Append(o, x) /\ c = Append(b, x)
    <2>1. s \o Append(o, x) = Append(s \o o, x) /\ Append(o, x) \in Seq(Envelope)
      BY ONLY AppendMoves, s \in Seq(Envelope), o \in Seq(Envelope), x \in Envelope
    <2>2. Append(b, x) \in Seq(Envelope)
      BY AppendProperties
    <2>. QED
      BY <1>10, <2>1, <2>2
  <1>12. DeliveredAt(d)'
    <2>1. m >= -1 /\ n = m + Len(b) /\ \A i \in 1 .. Len(b) : IsRecord(b[i], d, m + i)
      BY <1>0, <1>2, <1>10 DEF TailInv, DeliveredAt
    <2>2. Len(c) = Len(b) + 1 /\ c[Len(b) + 1] = x /\ \A i \in 1 .. Len(b) : c[i] = b[i]
      BY <1>11, AppendProperties
    <2>3. PICK k \in Nat : k = Len(b)
      OBVIOUS
    <2>4. ASSUME NEW i \in 1 .. Len(c) PROVE IsRecord(c[i], d, m + i)'
      <3>1. CASE i \in 1 .. k
        BY <1>1, <2>1, <2>2, <2>3, <3>1 DEF IsRecord
      <3>2. CASE i = k + 1
        <4>1. c[i] = x /\ m + i = n + 1
          <5>1. c[k + 1] = x /\ n = m + k
            BY <2>1, <2>2, <2>3
          <5>. QED
            BY <3>2, <5>1
        <4>2. IsRecord(x, d, n + 1)'
          BY <1>1, <1>7 DEF IsRecord
        <4>. QED
          BY <4>1, <4>2
      <3>. QED
        BY <2>2, <2>3, <3>1, <3>2
    <2>5. Delivered(d)' = c
      BY <1>8, <1>11 DEF Delivered
    <2>6. n + 1 = m + Len(c)
      BY <2>1, <2>2, <2>3
    <2>7. stage'[d] # "off"
      BY <1>8 DEF AfterRecord
    <2>. QED
      BY <1>8, <2>1, <2>4, <2>5, <2>6, <2>7 DEF DeliveredAt
  <1>13. PageAt(d)'
    <2>1. ASSUME NEW i \in 1 .. Len(q) PROVE IsRecord(q[i], d, n + 1 + i)'
      <3>1. i + 1 \in 1 .. Len(r) /\ q[i] = r[i + 1] /\ n + (i + 1) = n + 1 + i
        BY <1>5, <1>6
      <3>2. IsRecord(q[i], d, n + 1 + i)
        BY <1>3, <3>1
      <3>. QED
        BY <1>1, <3>2 DEF IsRecord
    <2>2. stage'[d] = "sending" <=> Len(r) > 1
      BY <1>2, <1>8 DEF AfterRecord
    <2>3. q # <<>> <=> Len(r) > 1
      <3>1. q # <<>> <=> Len(q) # 0
        BY EmptySeq
      <3>. QED
        BY <1>5, <1>6, <3>1
    <2>. QED
      BY <1>8, <2>1, <2>2, <2>3 DEF PageAt
  <1>14. FailureAt(d)'
    BY <1>8 DEF FailureAt, AfterRecord
  <1>15. TailsTyped'
    <2>1. Len(Append(o, x)) <= Capacity /\ Append(o, x) \in Seq(Envelope)
      <3>1. Append(o, x) \in Seq(Envelope) /\ Len(Append(o, x)) = Len(o) + 1
        BY AppendProperties
      <3>2. PICK k \in Nat : k = Len(o)
        OBVIOUS
      <3>. QED
        BY <1>1, <1>2, <3>1, <3>2, ConstantTypes
    <2>2. Len(q) <= BatchSize
      <3>1. Len(r) <= BatchSize
        BY <1>0, <1>2 DEF TailsTyped
      <3>. QED
        BY <1>5, <1>6, <3>1, ConstantTypes
    <2>3. AfterRecord(d) \in {"sending", "reading", "waiting"}
      BY DEF AfterRecord
    <2>4. /\ outbox' = [outbox EXCEPT ![d] = Append(o, x)] /\ page' = [page EXCEPT ![d] = q]
          /\ cursor' = [cursor EXCEPT ![d] = n + 1]
      BY <1>1, <1>2, <1>4, <1>5, <1>7
    <2>5. outbox' \in [Tails -> Seq(Envelope)] /\ \A y \in Tails : Len(outbox'[y]) <= Capacity
      BY <1>0, <2>1, <2>4 DEF TailsTyped
    <2>6. page' \in [Tails -> Seq(Envelope)] /\ \A y \in Tails : Len(page'[y]) <= BatchSize
      BY <1>0, <2>2, <2>4 DEF TailsTyped
    <2>7. cursor' \in [Tails -> Int]
      BY <1>0, <2>4 DEF TailsTyped
    <2>8. stage' \in [Tails -> {"off", "reading", "sending", "waiting", "finishing", "done"}]
      BY <1>0, <1>1, <2>3 DEF TailsTyped
    <2>. QED
      BY <1>0, <1>1, <2>5, <2>6, <2>7, <2>8 DEF TailsTyped
  <1>. QED
    BY <1>9, <1>12, <1>13, <1>14, <1>15 DEF TailInv

LEMMA ReceiveDurableKeeps ==
    ASSUME TypeOK, LogTyped', LogGrows, \A x \in Tails : TailInv(x), NEW d \in Tails, ReceiveDurable(d)
    PROVE  TailsTyped' /\ \A x \in Tails : TailInv(x)'
  <1>0. TailsTyped /\ TailInv(d)
    BY TypesInParts
  <1>1. /\ outbox[d] # <<>> /\ seen' = [seen EXCEPT ![d] = Append(seen[d], Head(outbox[d]))]
        /\ outbox' = [outbox EXCEPT ![d] = Tail(outbox[d])]
        /\ UNCHANGED <<stage, after, cursor, page, more, wake, wakes, canceled, closing, failure>>
    BY DEF ReceiveDurable
  <1>2. PICK s \in Seq(Envelope), o \in Seq(Envelope) : s = seen[d] /\ o = outbox[d]
    BY <1>0 DEF TailsTyped
  <1>3. /\ Append(s, Head(o)) \o Tail(o) = s \o o /\ Append(s, Head(o)) \in Seq(Envelope)
        /\ Tail(o) \in Seq(Envelope) /\ Len(Tail(o)) = Len(o) - 1
    <2>1. o # <<>>
      BY <1>1, <1>2
    <2>. QED
      BY ONLY <2>1, HeadMoves, s \in Seq(Envelope), o \in Seq(Envelope)
  <1>4. Delivered(d)' = Delivered(d)
    BY <1>0, <1>1, <1>2, <1>3 DEF Delivered, TailsTyped
  <1>5. stage[d] # "off"
    BY <1>0, <1>1 DEF TailInv, DeliveredAt
  <1>6. TailInv(d)'
    <2>1. DeliveredAt(d)'
      BY <1>0, <1>1, <1>4, <1>5, DeliveredStays DEF TailInv
    <2>2. PageAt(d)'
      BY <1>0, <1>1, PageStays DEF TailInv
    <2>. QED
      BY <1>0, <1>1, <2>1, <2>2 DEF TailInv, FailureAt
  <1>7. Len(Tail(o)) <= Capacity
    <2>1. Len(o) <= Capacity /\ Len(o) \in Nat
      BY <1>0, <1>2 DEF TailsTyped
    <2>. QED
      BY <1>3, <2>1, ConstantTypes
  <1>8. TailsTyped'
    <2>1. /\ seen' = [seen EXCEPT ![d] = Append(s, Head(o))] /\ outbox' = [outbox EXCEPT ![d] = Tail(o)]
      BY <1>1, <1>2
    <2>2. seen' \in [Tails -> Seq(Envelope)] /\ outbox' \in [Tails -> Seq(Envelope)]
      BY <1>0, <1>3, <2>1 DEF TailsTyped
    <2>3. \A y \in Tails : Len(outbox'[y]) <= Capacity
      BY <1>0, <1>7, <2>1 DEF TailsTyped
    <2>. QED
      BY <1>0, <1>1, <2>2, <2>3 DEF TailsTyped
  <1>9. ASSUME NEW y \in Tails, y # d PROVE TailInv(y)'
    BY <1>0, <1>1, <1>9, TailUntouched DEF TailsTyped
  <1>. QED
    BY <1>6, <1>8, <1>9

LEMMA StopTailKeeps ==
    ASSUME TypeOK, LogTyped', LogGrows, \A x \in Tails : TailInv(x), NEW d \in Tails, NEW cause \in {"canceled", "storage"},
           cause = "canceled" => canceled[d], StopTail(d, cause)
    PROVE  TailsTyped' /\ \A x \in Tails : TailInv(x)'
  <1>0. TailsTyped /\ TailInv(d)
    BY TypesInParts
  <1>1. /\ stage' = [stage EXCEPT ![d] = "finishing"] /\ wakes' = wakes \ {d}
        /\ page' = [page EXCEPT ![d] = <<>>] /\ failure' = [failure EXCEPT ![d] = cause]
        /\ UNCHANGED <<after, cursor, more, wake, outbox, seen, canceled, closing>>
    BY DEF StopTail, To
  <1>2. stage'[d] = "finishing" /\ page'[d] = <<>> /\ failure'[d] = cause
    BY <1>0, <1>1 DEF TailsTyped
  <1>3. Delivered(d)' = Delivered(d)
    BY <1>1 DEF Delivered
  <1>4. TailInv(d)'
    <2>1. DeliveredAt(d)'
      BY <1>0, <1>1, <1>2, <1>3, DeliveredStays DEF TailInv
    <2>2. PageAt(d)'
      BY <1>2, EmptyPage
    <2>3. FailureAt(d)'
      BY <1>1, <1>2 DEF FailureAt
    <2>. QED
      BY <2>1, <2>2, <2>3 DEF TailInv
  <1>9. ASSUME NEW y \in Tails, y # d PROVE TailInv(y)'
    BY <1>0, <1>1, <1>9, TailUntouched DEF TailsTyped
  <1>10. TailsTyped'
    <2>1. <<>> \in Seq(Envelope) /\ Len(<<>>) <= BatchSize
      BY ConstantTypes
    <2>2. page' \in [Tails -> Seq(Envelope)] /\ \A y \in Tails : Len(page'[y]) <= BatchSize
      BY <1>0, <1>1, <2>1 DEF TailsTyped
    <2>. QED
      BY <1>0, <1>1, <2>2 DEF TailsTyped
  <1>. QED
    BY <1>4, <1>9, <1>10

LEMMA FinishTailKeeps ==
    ASSUME TypeOK, LogTyped', LogGrows, \A x \in Tails : TailInv(x), NEW d \in Tails, FinishTail(d)
    PROVE  TailsTyped' /\ \A x \in Tails : TailInv(x)'
  <1>0. TailsTyped /\ TailInv(d)
    BY TypesInParts
  <1>1. /\ stage[d] = "finishing" /\ stage' = [stage EXCEPT ![d] = "done"]
        /\ failure' = [failure EXCEPT ![d] = FinalError(d)]
        /\ UNCHANGED <<after, cursor, page, more, wake, wakes, outbox, seen, canceled, closing>>
    BY DEF FinishTail, To
  <1>2. stage'[d] = "done" /\ failure'[d] = FinalError(d)
    BY <1>0, <1>1 DEF TailsTyped
  <1>3. Delivered(d)' = Delivered(d)
    BY <1>1 DEF Delivered
  <1>4. TailInv(d)'
    <2>1. DeliveredAt(d)'
      BY <1>0, <1>1, <1>2, <1>3, DeliveredStays DEF TailInv
    <2>2. PageAt(d)'
      BY <1>0, <1>1, <1>2, PageStays DEF TailInv
    <2>3. FailureAt(d)'
      BY <1>0, <1>1, <1>2 DEF TailInv, FailureAt, FinalError
    <2>. QED
      BY <2>1, <2>2, <2>3 DEF TailInv
  <1>9. ASSUME NEW y \in Tails, y # d PROVE TailInv(y)'
    BY <1>0, <1>1, <1>9, TailUntouched DEF TailsTyped
  <1>10. TailsTyped'
    <2>1. FinalError(d) \in {"none", "canceled", "storage"}
      BY <1>0 DEF FinalError, TailsTyped
    <2>. QED
      BY <1>0, <1>1, <2>1 DEF TailsTyped
  <1>. QED
    BY <1>4, <1>9, <1>10

LEMMA WakeUpKeeps ==
    ASSUME TypeOK, LogTyped', LogGrows, \A x \in Tails : TailInv(x), NEW d \in Tails, WakeUp(d)
    PROVE  TailsTyped' /\ \A x \in Tails : TailInv(x)'
  <1>0. TailsTyped /\ TailInv(d)
    BY TypesInParts
  <1>1. /\ stage[d] = "waiting" /\ stage' = [stage EXCEPT ![d] = "reading"] /\ wake' = [wake EXCEPT ![d] = FALSE]
        /\ UNCHANGED <<after, cursor, page, more, wakes, outbox, seen, canceled, closing, failure>>
    BY DEF WakeUp, To
  <1>2. stage'[d] = "reading"
    BY <1>0, <1>1 DEF TailsTyped
  <1>3. Delivered(d)' = Delivered(d)
    BY <1>1 DEF Delivered
  <1>4. TailInv(d)'
    <2>1. DeliveredAt(d)'
      BY <1>0, <1>1, <1>2, <1>3, DeliveredStays DEF TailInv
    <2>2. PageAt(d)'
      BY <1>0, <1>1, <1>2, PageStays DEF TailInv
    <2>. QED
      BY <1>2, <2>1, <2>2 DEF TailInv, FailureAt
  <1>9. ASSUME NEW y \in Tails, y # d PROVE TailInv(y)'
    BY <1>0, <1>1, <1>9, TailUntouched DEF TailsTyped
  <1>10. TailsTyped'
    BY <1>0, <1>1 DEF TailsTyped
  <1>. QED
    BY <1>4, <1>9, <1>10

\* The end of its context is all that CancelContext and Close change.
LEMMA CancelKeeps ==
    ASSUME TypeOK, LogTyped', LogGrows, \A x \in Tails : TailInv(x), NEW d \in Tails, CancelContext(d) \/ CloseTail(d)
    PROVE  TailsTyped' /\ \A x \in Tails : TailInv(x)'
  <1>0. TailsTyped /\ TailInv(d)
    BY TypesInParts
  <1>1. /\ canceled' = [canceled EXCEPT ![d] = TRUE] /\ (closing' = closing \/ closing' = [closing EXCEPT ![d] = TRUE])
        /\ UNCHANGED <<stage, after, cursor, page, more, wake, wakes, outbox, seen, failure>>
    BY DEF CancelContext, CloseTail
  <1>2. ASSUME NEW y \in Tails PROVE (canceled[y] => canceled'[y]) /\ (closing[y] => closing'[y])
    BY <1>0, <1>1 DEF TailsTyped
  <1>3. ASSUME NEW y \in Tails PROVE TailInv(y)'
    BY <1>0, <1>1, <1>2, TailUntouched
  <1>4. TailsTyped'
    BY <1>0, <1>1 DEF TailsTyped
  <1>. QED
    BY <1>3, <1>4

LEMMA TailsKept ==
    ASSUME TypeOK, \A d \in Tails : TailInv(d), [Next]_vars
    PROVE  TailsTyped' /\ \A d \in Tails : TailInv(d)'
  <1>0. TailsTyped /\ LogTyped' /\ LogGrows
    BY TypesInParts, LogKept
  <1>1. CASE UNCHANGED tailVars
    <2>1. \A d \in Tails : TailInv(d)'
      BY <1>0, <1>1, TailUntouched DEF tailVars
    <2>. QED
      BY <1>0, <1>1, <2>1 DEF tailVars, TailsTyped
  <1>2. ASSUME NEW p \in Publishers, Broadcast(p) PROVE TailsTyped' /\ \A d \in Tails : TailInv(d)'
    <2>1. /\ UNCHANGED <<stage, after, cursor, page, more, wakes, outbox, seen, canceled, closing, failure>>
          /\ wake' = [d \in Tails |-> wake[d] \/ d \in Woken(notice[p].envelope)]
      BY <1>2 DEF Broadcast
    <2>2. \A d \in Tails : TailInv(d)'
      BY <1>0, <2>1, TailUntouched
    <2>3. wake' \in [Tails -> BOOLEAN]
      BY <2>1
    <2>. QED
      BY <1>0, <2>1, <2>2, <2>3 DEF TailsTyped
  <1>3. ASSUME NEW d \in Tails, Tailing(d) PROVE TailsTyped' /\ \A x \in Tails : TailInv(x)'
    <2>1. CASE NoticeCancel(d)
      BY <1>0, <2>1, StopTailKeeps DEF NoticeCancel
    <2>. QED
      BY <1>0, <1>3, <2>1, ReadPageKeeps, SendRecordKeeps, WakeUpKeeps, FinishTailKeeps DEF Tailing
  <1>4. ASSUME NEW d \in Tails, HistoryFails(d) PROVE TailsTyped' /\ \A x \in Tails : TailInv(x)'
    BY <1>0, <1>4, StopTailKeeps DEF HistoryFails
  <1>5. ASSUME NEW d \in Tails, CancelContext(d) \/ CloseTail(d) PROVE TailsTyped' /\ \A x \in Tails : TailInv(x)'
    BY <1>0, <1>5, CancelKeeps
  <1>6. ASSUME NEW d \in Tails, ReceiveDurable(d) \/ \E start \in Starts : OpenTail(d, start)
        PROVE  TailsTyped' /\ \A x \in Tails : TailInv(x)'
    BY <1>0, <1>6, ReceiveDurableKeeps, OpenTailKeeps
  <1>7. ASSUME NEW p \in Publishers,
               \/ SnapshotListeners(p) \/ CallListener(p)
               \/ \E t \in Types : PublishLive(p, t) \/ \E a \in Aggregates : CommitEvent(p, a, t)
        PROVE UNCHANGED tailVars
    BY <1>7 DEF SnapshotListeners, CallListener, PublishLive, CommitEvent
  <1>8. ASSUME NEW a \in Aggregates, RemoveAggregate(a) \/ \E t \in Types : ReplayQuietly(a, t) PROVE UNCHANGED tailVars
    BY <1>8 DEF RemoveAggregate, ReplayQuietly
  <1>9. ASSUME NEW l \in Listeners, Listen(l) \/ Unlisten(l) PROVE UNCHANGED tailVars
    BY <1>9 DEF Listen, Unlisten
  <1>10. ASSUME NEW s \in Subscribers, Subscribe(s) \/ ReceiveLive(s) \/ Unsubscribe(s) PROVE UNCHANGED tailVars
    BY <1>10 DEF Subscribe, ReceiveLive, Unsubscribe, LogAndTails
  <1>11. CASE UNCHANGED vars
    BY <1>1, <1>11 DEF vars
  <1>. QED
    BY <1>1, <1>2, <1>3, <1>4, <1>5, <1>6, <1>7, <1>8, <1>9, <1>10, <1>11 DEF Next, Notifying

------------------------------------------------------------------------------
(* The invariant, and what follows from it.                                 *)

LEMMA DeliveryStarts == Init => DeliveryInv
  <1> SUFFICES ASSUME Init PROVE DeliveryInv
    OBVIOUS
  <1>1. <<>> \in Seq(Envelope) /\ <<>> \in Seq(Event) /\ Len(<<>>) = 0
    BY EmptySeq
  <1>2. LogTyped
    BY <1>1, ConstantTypes DEF Init, LogInit, LogTyped
  <1>3. NoticeTyped
    BY DEF Init, NoticeTyped
  <1>4. SubsTyped
    BY <1>1, ConstantTypes DEF Init, SubsTyped
  <1>5. TailsTyped
    BY <1>1, ConstantTypes DEF Init, TailsTyped
  <1>6. ASSUME NEW s \in Subscribers PROVE SubscriptionAt(s)
    <2>1. got[s] = <<>> /\ inbox[s] = <<>> /\ sent[s] = <<>> /\ ended[s] = "no" /\ s \notin open
      BY DEF Init
    <2>. QED
      BY <2>1 DEF SubscriptionAt, Taken
  <1>7. ASSUME NEW d \in Tails PROVE TailInv(d)
    <2>1. /\ seen[d] = <<>> /\ outbox[d] = <<>> /\ page[d] = <<>> /\ stage[d] = "off"
          /\ after[d] = -1 /\ cursor[d] = -1
      BY DEF Init
    <2>2. Delivered(d) = <<>>
      BY <2>1 DEF Delivered
    <2>. QED
      BY <2>1, <2>2 DEF TailInv, DeliveredAt, PageAt, FailureAt
  <1>. QED
    BY <1>2, <1>3, <1>4, <1>5, <1>6, <1>7, TypesInParts DEF DeliveryInv

LEMMA DeliveryKept == DeliveryInv /\ [Next]_vars => DeliveryInv'
  <1> SUFFICES ASSUME DeliveryInv, [Next]_vars PROVE DeliveryInv'
    OBVIOUS
  <1>1. TypeOK /\ (\A d \in Tails : TailInv(d)) /\ \A s \in Subscribers : SubscriptionAt(s)
    BY DEF DeliveryInv
  <1>2. LogTyped' /\ NoticeTyped'
    BY <1>1, LogKept, NoticesTyped
  <1>3. SubsTyped' /\ \A s \in Subscribers : SubscriptionAt(s)'
    BY <1>1, SubscriptionsKept
  <1>4. TailsTyped' /\ \A d \in Tails : TailInv(d)'
    BY <1>1, TailsKept
  <1>. QED
    BY <1>2, <1>3, <1>4, TypesInParts DEF DeliveryInv

LEMMA DeliveryHolds == Spec => []DeliveryInv
  BY DeliveryStarts, DeliveryKept, PTL DEF Spec

\* The read side keeps to its types, the bounds of its channels and pages among
\* them (the select with a default of notify, the capacity of the subscriptions'
\* channels and the page size of a tail's history reads).
THEOREM DeliveryTypeCorrect == Spec => []TypeOK
  <1>1. DeliveryInv => TypeOK
    BY DEF DeliveryInv
  <1>. QED
    BY <1>1, DeliveryHolds, PTL

LEMMA SubscriptionsLoseNothing == DeliveryInv => NoSilentLoss
  <1> SUFFICES ASSUME DeliveryInv, NEW s \in Subscribers
      PROVE  /\ s \in open => got[s] \o inbox[s] = sent[s]
             /\ s \notin open => IsPrefix(got[s] \o inbox[s], sent[s])
             /\ ended[s] = "closed" => got[s] \o inbox[s] = sent[s]
             /\ ended[s] = "overflow" =>
                 Len(got[s] \o inbox[s]) = Len(sent[s]) - 1 /\ Len(sent[s]) > Capacity
    BY DEF NoSilentLoss
  <1>1. SubscriptionAt(s) /\ SubsTyped
    BY TypesInParts DEF DeliveryInv
  <1>2. IsPrefix(sent[s], sent[s])
    BY <1>1, EqualIsPrefix DEF SubsTyped
  <1>. QED
    BY <1>1, <1>2 DEF SubscriptionAt, Taken

\* However publishers, listeners and consumers interleave, a live subscription
\* loses no event while it is open, gets none twice and none out of order, and
\* overflows only when its channel is full (Service.notify, Subscription.Close).
THEOREM NothingIsLostSilently == Spec => []NoSilentLoss
  BY SubscriptionsLoseNothing, DeliveryHolds, PTL

LEMMA TailsFollowHistory == DeliveryInv => TailDeliversHistory
  <1> SUFFICES ASSUME DeliveryInv, NEW d \in Tails
      PROVE  LET delivered == seen[d] \o outbox[d] IN
             /\ \A i \in DOMAIN delivered : delivered[i].sequence = after[d] + i
             /\ AggregateOf[d] \notin removed => \A i \in DOMAIN delivered :
                 delivered[i].event = log[AggregateOf[d]][after[d] + 1 + i]
             /\ cursor[d] = after[d] + Len(delivered)
    BY DEF TailDeliversHistory
  <1>1. DeliveredAt(d) /\ TailsTyped
    BY TypesInParts DEF DeliveryInv, TailInv
  <1>2. PICK s \in Seq(Envelope), n \in Int : s = seen[d] \o outbox[d] /\ n = after[d]
    BY <1>1, ConcatProperties DEF TailsTyped
  <1>3. cursor[d] = n + Len(s) /\ \A i \in 1 .. Len(s) : IsRecord(s[i], d, n + i)
    BY <1>1, <1>2 DEF DeliveredAt, Delivered
  <1>4. \A i \in 1 .. Len(s) : n + i + 1 = n + 1 + i
    OBVIOUS
  <1>5. DOMAIN s = 1 .. Len(s)
    OBVIOUS
  <1>. QED
    BY <1>2, <1>3, <1>4, <1>5 DEF IsRecord

\* However commits, wakes and consumers interleave, a durable tail delivers the
\* history after its start without a gap, a repetition or a swap, and its cursor
\* is where its deliveries end (runDurable, drainDurable).
THEOREM TailsDeliverHistory == Spec => []TailDeliversHistory
  BY TailsFollowHistory, DeliveryHolds, PTL

\* A tail whose consumer did not close it ends with an error, and one that ends
\* as canceled was canceled, whatever raced with the Close
\* (DurableSubscription.finish).
THEOREM FailuresAreTrue == Spec => []FailureIsTrue
  <1>1. DeliveryInv => FailureIsTrue
    BY DEF DeliveryInv, TailInv, FailureAt, FailureIsTrue
  <1>. QED
    BY <1>1, DeliveryHolds, PTL
==============================================================================
