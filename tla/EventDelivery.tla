---------------------------- MODULE EventDelivery ----------------------------
(****************************************************************************)
(* The read side of event.Service on the durable log of EventLog: notify,   *)
(* which runs after a commit and outside every lock of the store; listeners;*)
(* the bounded live subscriptions of All and Subscribe; and the durable     *)
(* tails of Durable, goroutines that read history pages and sleep on a wake *)
(* channel of capacity one until notify signals their aggregate.            *)
(*                                                                          *)
(* The log is gapless, as EventService guarantees, so the check of runDurable*)
(* that a page continues at cursor + 1 cannot fail and is left out.         *)
(****************************************************************************)
EXTENDS EventLog, FiniteSets, SequencesExt

CONSTANTS
    Publishers,     \* goroutines in Publish, Replay or Remove
    Listeners,      \* callbacks of Listen, numbered in registration order
    Subscribers,    \* live subscriptions
    Tails,          \* durable subscriptions
    Types,          \* base event types
    NoAggregate,    \* of a live-only event
    Wants,          \* the types each subscriber asked for
    Starts,         \* the DurableInput.After values
    AggregateOf,    \* DurableInput.AggregateID of each tail
    Capacity,       \* of every subscription channel
    BatchSize,      \* DurableInput.BatchSize
    MaxEvents,      \* bound on the events published
    QuietReplay,    \* do replays that do not publish happen?
    Removal         \* are aggregates removed?

ASSUME DeliveryAssumption ==
    /\ Listeners \subseteq Nat
    /\ NoAggregate \notin Aggregates
    /\ Wants \in [Subscribers -> SUBSET Types]
    /\ Starts \subseteq Int /\ \A n \in Starts : n >= -1
    /\ AggregateOf \in [Tails -> Aggregates]
    /\ Capacity \in Nat \ {0} /\ BatchSize \in Nat \ {0} /\ MaxEvents \in Nat
    /\ Event = [id : 1 .. MaxEvents, type : Types]
    /\ QuietReplay \in BOOLEAN /\ Removal \in BOOLEAN

VARIABLES
    removed,        \* history: the aggregates removed so far
    published,      \* events so far; the ID of the last one
    notice,         \* the event each publisher has to tell of, and where it is
    registered,     \* Service.listeners
    open,           \* Service.subscriptions
    inbox,          \* the channel of each live subscription
    ended,          \* why its channel was closed: "no", "overflow", "closed"
    got,            \* history: what its consumer has received
    sent,           \* history: what notify had for it while it was open
    stage,          \* where each durable tail's goroutine is
    after,          \* DurableInput.After
    cursor,         \* sequence of the last event it sent
    page,           \* the rest of the history page it sends
    more,           \* was the page a full one?
    wake,           \* is there a token in its wake channel?
    wakes,          \* Service.durableWakes
    outbox,         \* DurableSubscription.events
    seen,           \* history: what its consumer has received
    canceled,       \* is its context done?
    closing,        \* DurableSubscription.closing
    failure         \* DurableSubscription.err: "none", "canceled", "storage"

noticeVars == <<published, notice, registered>>
subVars == <<open, inbox, ended, got, sent>>
tailVars == <<stage, after, cursor, page, more, wake, wakes, outbox, seen, canceled, closing, failure>>
vars == <<log, owner, removed, noticeVars, subVars, tailVars>>

Envelope ==
    [aggregate : Aggregates \cup {NoAggregate}, sequence : Nat, event : Event]

\* What is left to do of notify: the listeners to call, in their order.
Idle == [state |-> "idle"]
Notice == [state : {"committed", "calling"}, envelope : Envelope, left : SUBSET Listeners]

TypeOK ==
    /\ log \in [Aggregates -> Seq(Event)]
    /\ removed \subseteq Aggregates
    /\ published \in 0 .. MaxEvents
    /\ notice \in [Publishers -> Notice \cup {Idle}]
    /\ registered \subseteq Listeners
    /\ open \subseteq Subscribers
    /\ inbox \in [Subscribers -> Seq(Envelope)]
    /\ got \in [Subscribers -> Seq(Envelope)]
    /\ sent \in [Subscribers -> Seq(Envelope)]
    /\ ended \in [Subscribers -> {"no", "overflow", "closed"}]
    /\ \A s \in Subscribers : Len(inbox[s]) <= Capacity
    /\ stage \in [Tails -> {"off", "reading", "sending", "waiting", "finishing", "done"}]
    /\ after \in [Tails -> Int] /\ cursor \in [Tails -> Int]
    /\ page \in [Tails -> Seq(Envelope)]
    /\ outbox \in [Tails -> Seq(Envelope)]
    /\ seen \in [Tails -> Seq(Envelope)]
    /\ \A d \in Tails : Len(page[d]) <= BatchSize /\ Len(outbox[d]) <= Capacity
    /\ wakes \subseteq Tails
    /\ more \in [Tails -> BOOLEAN] /\ wake \in [Tails -> BOOLEAN]
    /\ canceled \in [Tails -> BOOLEAN] /\ closing \in [Tails -> BOOLEAN]
    /\ failure \in [Tails -> {"none", "canceled", "storage"}]

Init ==
    /\ LogInit
    /\ removed = {}
    /\ published = 0
    /\ notice = [p \in Publishers |-> Idle]
    /\ registered = {}
    /\ open = {}
    /\ inbox = [s \in Subscribers |-> <<>>]
    /\ ended = [s \in Subscribers |-> "no"]
    /\ got = [s \in Subscribers |-> <<>>]
    /\ sent = [s \in Subscribers |-> <<>>]
    /\ stage = [d \in Tails |-> "off"]
    /\ after = [d \in Tails |-> -1]
    /\ cursor = [d \in Tails |-> -1]
    /\ page = [d \in Tails |-> <<>>]
    /\ more = [d \in Tails |-> FALSE]
    /\ wake = [d \in Tails |-> FALSE]
    /\ wakes = {}
    /\ outbox = [d \in Tails |-> <<>>]
    /\ seen = [d \in Tails |-> <<>>]
    /\ canceled = [d \in Tails |-> FALSE]
    /\ closing = [d \in Tails |-> FALSE]
    /\ failure = [d \in Tails |-> "none"]

------------------------------------------------------------------------------
(* Publishing.                                                              *)

NextEvent(t) == [id |-> published + 1, type |-> t]

Tell(p, envelope) ==
    notice' = [notice EXCEPT ![p] =
        [state |-> "committed", envelope |-> envelope, left |-> {}]]

\* The commit of Publish, or of a Replay that publishes; notify is still to run.
CommitEvent(p, a, t) ==
    /\ notice[p] = Idle
    /\ published < MaxEvents
    /\ published' = published + 1
    /\ AppendEvent(a, NextEvent(t), NoOwner)
    /\ Tell(p, [aggregate |-> a, sequence |-> Len(log[a]), event |-> NextEvent(t)])
    /\ UNCHANGED <<removed, registered, subVars, tailVars>>

\* Publish of a live-only event, which skips the store.
PublishLive(p, t) ==
    /\ notice[p] = Idle
    /\ published < MaxEvents
    /\ published' = published + 1
    /\ Tell(p, [aggregate |-> NoAggregate, sequence |-> 0, event |-> NextEvent(t)])
    /\ UNCHANGED <<log, owner, removed, registered, subVars, tailVars>>

\* Replay without ReplayOptions.Publish commits and tells nobody.
ReplayQuietly(a, t) ==
    /\ QuietReplay
    /\ published < MaxEvents
    /\ published' = published + 1
    /\ AppendEvent(a, NextEvent(t), NoOwner)
    /\ UNCHANGED <<removed, notice, registered, subVars, tailVars>>

RemoveAggregate(a) ==
    /\ Removal
    /\ log[a] # <<>>
    /\ Forget(a)
    /\ removed' = removed \cup {a}
    /\ UNCHANGED <<noticeVars, subVars, tailVars>>

------------------------------------------------------------------------------
(* notify.                                                                  *)

\* The snapshot of the listeners under the read lock.
SnapshotListeners(p) ==
    /\ notice[p] # Idle /\ notice[p].state = "committed"
    /\ notice' = [notice EXCEPT ![p].state = "calling", ![p].left = registered]
    /\ UNCHANGED <<log, owner, removed, published, registered, subVars, tailVars>>

\* Mutant of ListenerCalled: a panic that is not recovered ends notify.
ListenerUnrecovered(p, l) ==
    notice' \in {[notice EXCEPT ![p].left = @ \ {l}], [notice EXCEPT ![p] = Idle]}

\* Whether the listener returns or panics, notifyListener goes on: a defect is
\* recovered and reported.
ListenerCalled(p, l) == notice' = [notice EXCEPT ![p].left = @ \ {l}]

CallListener(p) ==
    /\ notice[p] # Idle /\ notice[p].state = "calling" /\ notice[p].left # {}
    /\ \E l \in notice[p].left :
        /\ \A k \in notice[p].left : l <= k
        /\ ListenerCalled(p, l)
    /\ UNCHANGED <<log, owner, removed, published, registered, subVars, tailVars>>

Matches(s, envelope) == envelope.event.type \in Wants[s]

\* The open subscriptions the event overflows.
Overflown(envelope) ==
    {s \in open : Matches(s, envelope) /\ Len(inbox[s]) >= Capacity}

\* The tails notify wakes: those registered under the event's aggregate.
Woken(envelope) == {d \in wakes : AggregateOf[d] = envelope.aggregate}

AllCalled(p) == notice[p] # Idle /\ notice[p].state = "calling" /\ notice[p].left = {}

\* Mutant of CloseOverflown: they lose the event and stay open.
KeepOverflown(lost) == UNCHANGED <<open, ended>>

CloseOverflown(lost) ==
    /\ open' = open \ lost
    /\ ended' = [s \in Subscribers |-> IF s \in lost THEN "overflow" ELSE ended[s]]

\* The critical section of notify: every matching subscription gets the event
\* or is closed with an overflow, every wake channel of the aggregate gets a
\* token if it has none.
Broadcast(p) ==
    /\ AllCalled(p)
    /\ LET e == notice[p].envelope
           lost == Overflown(e)
           reached == {s \in open : Matches(s, e)}
       IN /\ inbox' = [s \in Subscribers |->
                IF s \in reached \ lost THEN Append(inbox[s], e) ELSE inbox[s]]
          /\ sent' = [s \in Subscribers |->
                IF s \in reached THEN Append(sent[s], e) ELSE sent[s]]
          /\ CloseOverflown(lost)
          /\ wake' = [d \in Tails |-> wake[d] \/ d \in Woken(e)]
    /\ notice' = [notice EXCEPT ![p] = Idle]
    /\ UNCHANGED <<log, owner, removed, published, registered, got>>
    /\ UNCHANGED <<stage, after, cursor, page, more, wakes, outbox, seen, canceled, closing, failure>>

Listen(l) ==
    /\ l \notin registered
    /\ registered' = registered \cup {l}
    /\ UNCHANGED <<log, owner, removed, published, notice, subVars, tailVars>>

Unlisten(l) ==
    /\ l \in registered
    /\ registered' = registered \ {l}
    /\ UNCHANGED <<log, owner, removed, published, notice, subVars, tailVars>>

------------------------------------------------------------------------------
(* Live subscriptions.                                                      *)

LogAndTails == <<log, owner, removed, noticeVars, tailVars>>

Subscribe(s) ==
    /\ s \notin open /\ ended[s] = "no"
    /\ open' = open \cup {s}
    /\ UNCHANGED <<inbox, ended, got, sent, LogAndTails>>

\* A receive on the channel; what it buffers outlives its closing.
ReceiveLive(s) ==
    /\ inbox[s] # <<>>
    /\ got' = [got EXCEPT ![s] = Append(@, Head(inbox[s]))]
    /\ inbox' = [inbox EXCEPT ![s] = Tail(@)]
    /\ UNCHANGED <<open, ended, sent, LogAndTails>>

\* Subscription.Close; a no-op for one that notify has closed already.
Unsubscribe(s) ==
    /\ s \in open
    /\ open' = open \ {s}
    /\ ended' = [ended EXCEPT ![s] = "closed"]
    /\ UNCHANGED <<inbox, got, sent, LogAndTails>>

------------------------------------------------------------------------------
(* Durable tails.                                                           *)

LogAndSubs == <<log, owner, removed, noticeVars, subVars>>

Running(d) == stage[d] \in {"reading", "sending", "waiting"}

To(d, label) == stage' = [stage EXCEPT ![d] = label]

\* Durable registers the wake channel before it starts the goroutine.
OpenTail(d, start) ==
    /\ stage[d] = "off"
    /\ To(d, "reading")
    /\ after' = [after EXCEPT ![d] = start]
    /\ cursor' = [cursor EXCEPT ![d] = start]
    /\ wakes' = wakes \cup {d}
    /\ UNCHANGED <<page, more, wake, outbox, seen, canceled, closing, failure>>
    /\ UNCHANGED LogAndSubs

Records(a) ==
    [i \in DOMAIN log[a] |-> [aggregate |-> a, sequence |-> i - 1, event |-> log[a][i]]]

\* Mutant of HistoryPage: sequence >= cursor.
HistoryPageFromCursor(a, from) ==
    SubSeq(Records(a), Max({from, 0}) + 1, Min({Max({from, 0}) + BatchSize, Len(log[a])}))

\* Store.History: the events after the cursor, at most BatchSize of them.
HistoryPage(a, from) ==
    SubSeq(Records(a), from + 2, Min({from + 1 + BatchSize, Len(log[a])}))

\* An empty page ends the drain; a full one calls for another.
ReadPage(d) ==
    /\ stage[d] = "reading" /\ ~canceled[d]
    /\ LET records == HistoryPage(AggregateOf[d], cursor[d]) IN
        /\ page' = [page EXCEPT ![d] = records]
        /\ more' = [more EXCEPT ![d] = Len(records) = BatchSize]
        /\ To(d, IF records = <<>> THEN "waiting" ELSE "sending")
    /\ UNCHANGED <<after, cursor, wake, wakes, outbox, seen, canceled, closing, failure>>
    /\ UNCHANGED LogAndSubs

\* Mutant of AfterRecord: one page is all a wake is good for.
AfterRecordOnePage(d) == IF Len(page[d]) > 1 THEN "sending" ELSE "waiting"

AfterRecord(d) ==
    IF Len(page[d]) > 1 THEN "sending" ELSE IF more[d] THEN "reading" ELSE "waiting"

SendRecord(d) ==
    /\ stage[d] = "sending" /\ Len(outbox[d]) < Capacity
    /\ outbox' = [outbox EXCEPT ![d] = Append(@, Head(page[d]))]
    /\ cursor' = [cursor EXCEPT ![d] = Head(page[d]).sequence]
    /\ page' = [page EXCEPT ![d] = Tail(@)]
    /\ To(d, AfterRecord(d))
    /\ UNCHANGED <<after, more, wake, wakes, seen, canceled, closing, failure>>
    /\ UNCHANGED LogAndSubs

WakeUp(d) ==
    /\ stage[d] = "waiting" /\ wake[d]
    /\ wake' = [wake EXCEPT ![d] = FALSE]
    /\ To(d, "reading")
    /\ UNCHANGED <<after, cursor, page, more, wakes, outbox, seen, canceled, closing, failure>>
    /\ UNCHANGED LogAndSubs

\* The goroutine sees that its context is done, and removes its wake channel.
StopTail(d, cause) ==
    /\ To(d, "finishing")
    /\ wakes' = wakes \ {d}
    /\ page' = [page EXCEPT ![d] = <<>>]
    /\ failure' = [failure EXCEPT ![d] = cause]
    /\ UNCHANGED <<after, cursor, more, wake, outbox, seen, canceled, closing>>
    /\ UNCHANGED LogAndSubs

\* Mutant of NoticeCancel: the send to a full channel does not select on ctx.Done.
NoticeCancelUnlessSending(d) ==
    Running(d) /\ stage[d] # "sending" /\ canceled[d] /\ StopTail(d, "canceled")

NoticeCancel(d) == Running(d) /\ canceled[d] /\ StopTail(d, "canceled")

\* The history read fails for a reason of the store.
HistoryFails(d) == stage[d] = "reading" /\ StopTail(d, "storage")

\* Mutant of FinalError: every cancellation passes for a Close.
FinalErrorLost(d) == IF failure[d] = "canceled" THEN "none" ELSE failure[d]

FinalError(d) == IF closing[d] /\ failure[d] = "canceled" THEN "none" ELSE failure[d]

\* finish: a cancellation that Close asked for is no error; the channels close.
FinishTail(d) ==
    /\ stage[d] = "finishing"
    /\ To(d, "done")
    /\ failure' = [failure EXCEPT ![d] = FinalError(d)]
    /\ UNCHANGED <<after, cursor, page, more, wake, wakes, outbox, seen, canceled, closing>>
    /\ UNCHANGED LogAndSubs

ReceiveDurable(d) ==
    /\ outbox[d] # <<>>
    /\ seen' = [seen EXCEPT ![d] = Append(@, Head(outbox[d]))]
    /\ outbox' = [outbox EXCEPT ![d] = Tail(@)]
    /\ UNCHANGED <<stage, after, cursor, page, more, wake, wakes, canceled, closing, failure>>
    /\ UNCHANGED LogAndSubs

\* The context given to Durable is done.
CancelContext(d) ==
    /\ stage[d] # "off" /\ ~canceled[d]
    /\ canceled' = [canceled EXCEPT ![d] = TRUE]
    /\ UNCHANGED <<stage, after, cursor, page, more, wake, wakes, outbox, seen, closing, failure>>
    /\ UNCHANGED LogAndSubs

\* DurableSubscription.Close up to its wait for the goroutine.
CloseTail(d) ==
    /\ stage[d] # "off" /\ ~closing[d]
    /\ closing' = [closing EXCEPT ![d] = TRUE]
    /\ canceled' = [canceled EXCEPT ![d] = TRUE]
    /\ UNCHANGED <<stage, after, cursor, page, more, wake, wakes, outbox, seen, failure>>
    /\ UNCHANGED LogAndSubs

------------------------------------------------------------------------------
Notifying(p) == SnapshotListeners(p) \/ CallListener(p) \/ Broadcast(p)

Tailing(d) ==
    ReadPage(d) \/ SendRecord(d) \/ WakeUp(d) \/ NoticeCancel(d) \/ FinishTail(d)

Next ==
    \/ \E p \in Publishers :
        \/ \E t \in Types : PublishLive(p, t) \/ \E a \in Aggregates : CommitEvent(p, a, t)
        \/ Notifying(p)
    \/ \E a \in Aggregates : RemoveAggregate(a) \/ \E t \in Types : ReplayQuietly(a, t)
    \/ \E l \in Listeners : Listen(l) \/ Unlisten(l)
    \/ \E s \in Subscribers : Subscribe(s) \/ ReceiveLive(s) \/ Unsubscribe(s)
    \/ \E d \in Tails :
        \/ \E start \in Starts : OpenTail(d, start)
        \/ Tailing(d) \/ HistoryFails(d) \/ ReceiveDurable(d)
        \/ CancelContext(d) \/ CloseTail(d)

Spec == Init /\ [][Next]_vars

\* Goroutines run, listeners return; nobody has to receive, cancel or publish.
FairSpec ==
    /\ Spec
    /\ \A p \in Publishers : WF_vars(Notifying(p))
    /\ \A d \in Tails : WF_vars(Tailing(d))

------------------------------------------------------------------------------
(* Properties.                                                              *)

\* An open subscription has missed nothing that notify had for it, nothing came
\* twice, and the order is that of the notifications; one that overflowed did
\* so with a full channel and lost everything from then on, not a middle part
\* (Broadcast's non-blocking send, delete, close).
NoSilentLoss ==
    \A s \in Subscribers :
        /\ s \in open => got[s] \o inbox[s] = sent[s]
        /\ s \notin open => IsPrefix(got[s] \o inbox[s], sent[s])
        /\ ended[s] = "closed" => got[s] \o inbox[s] = sent[s]
        /\ ended[s] = "overflow" =>
            Len(got[s] \o inbox[s]) = Len(sent[s]) - 1 /\ Len(sent[s]) > Capacity

\* Whoever is subscribed when an event commits gets it, or is closed: a
\* panicking listener or a slow peer takes it from nobody.
CommitsReachSubscribers ==
    \A s \in Subscribers, i \in 1 .. MaxEvents :
        /\ s \in open
        /\ \E p \in Publishers :
            notice[p] # Idle /\ notice[p].envelope.event.id = i /\ Matches(s, notice[p].envelope)
        ~> \/ s \notin open
           \/ \E k \in DOMAIN sent[s] : sent[s][k].event.id = i

\* What a durable tail has delivered is the history after its start, without a
\* gap, a repetition or a swap, and once the aggregate is removed at least in the
\* order of its sequences.
TailDeliversHistory ==
    \A d \in Tails :
        LET delivered == seen[d] \o outbox[d] IN
        /\ \A i \in DOMAIN delivered : delivered[i].sequence = after[d] + i
        /\ AggregateOf[d] \notin removed => \A i \in DOMAIN delivered :
            delivered[i].event = log[AggregateOf[d]][after[d] + 1 + i]
        /\ cursor[d] = after[d] + Len(delivered)

\* Every event committed to the aggregate of a running tail reaches its
\* consumer, provided the consumer goes on receiving, or the tail ends, or the
\* event is removed (Durable).
TailSeesEveryCommit ==
    \A d \in Tails, i \in 1 .. MaxEvents :
        LET a == AggregateOf[d] IN
        WF_vars(ReceiveDurable(d)) => (Running(d) /\ (\E k \in after[d] + 2 .. Len(log[a]) : log[a][k].id = i)
        ~> \/ ~Running(d)
           \/ \E k \in DOMAIN seen[d] : seen[d][k].event.id = i
           \/ ~\E k \in DOMAIN log[a] : log[a][k].id = i)

\* Close of a durable subscription returns although nobody receives, and leaves
\* no wake channel behind.
CloseReturns == \A d \in Tails : closing[d] ~> stage[d] = "done" /\ d \notin wakes

\* A tail ends without an error only if it was closed, whatever raced with the
\* Close: a consumer that did not ask for the end learns of it from Err.
FailureIsTrue ==
    \A d \in Tails : stage[d] = "done" =>
        /\ failure[d] = "canceled" => canceled[d]
        /\ failure[d] = "none" => closing[d]
==============================================================================
