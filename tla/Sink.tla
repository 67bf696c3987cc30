-------------------------------- MODULE Sink ---------------------------------
(****************************************************************************)
(* runtime/sink: a bounded FIFO between producers and consumers.  Send and  *)
(* Receive are two selects each, and Close, which closes the done channel   *)
(* and never the channel of values, may fall between them; a select with    *)
(* several ready cases takes any of them.                                   *)
(****************************************************************************)
EXTENDS Integers, Sequences

CONSTANTS
    Producers, Consumers,
    Capacity,
    MaxSends        \* bound on the values a producer sends

ASSUME SinkAssumption == Capacity \in Nat \ {0} /\ MaxSends \in Nat

VARIABLES
    values,         \* the buffer of Sink.values
    done,           \* is the done channel closed?
    producer,       \* where each producer is: "idle", "checked" the done channel
    sends,          \* values it has begun to send
    consumer,       \* "idle", "polled" the buffer, "drained": it got ErrClosed
    accepted,       \* history: values whose Send returned nil, in order
    beforeClose,    \* history: how many of them before Close
    received        \* history: values that Receive returned, in order

sinkVars == <<values, done, producer, sends, consumer, accepted, beforeClose, received>>

Value == Producers \X (1 .. MaxSends)

SinkTypeOK ==
    /\ values \in Seq(Value) /\ Len(values) <= Capacity
    /\ done \in BOOLEAN
    /\ producer \in [Producers -> {"idle", "checked"}]
    /\ sends \in [Producers -> 0 .. MaxSends]
    /\ consumer \in [Consumers -> {"idle", "polled", "drained"}]
    /\ accepted \in Seq(Value) /\ received \in Seq(Value)
    /\ beforeClose \in 0 .. Len(accepted)

SinkInit ==
    /\ values = <<>>
    /\ done = FALSE
    /\ producer = [p \in Producers |-> "idle"]
    /\ sends = [p \in Producers |-> 0]
    /\ consumer = [c \in Consumers |-> "idle"]
    /\ accepted = <<>>
    /\ beforeClose = 0
    /\ received = <<>>

------------------------------------------------------------------------------
AtProducer(p, place) == producer' = [producer EXCEPT ![p] = place]
AtConsumer(c, place) == consumer' = [consumer EXCEPT ![c] = place]

\* The first select of Send.  One that finds the sink closed returns ErrClosed
\* and leaves no trace.
BeginSend(p) ==
    /\ producer[p] = "idle" /\ sends[p] < MaxSends
    /\ ~done
    /\ sends' = [sends EXCEPT ![p] = @ + 1]
    /\ AtProducer(p, "checked")
    /\ UNCHANGED <<values, done, consumer, accepted, beforeClose, received>>

Room == Len(values) < Capacity

\* The second: there is room, whether or not the sink is closed by now.
SendValue(p) ==
    /\ producer[p] = "checked" /\ Room
    /\ values' = Append(values, <<p, sends[p]>>)
    /\ accepted' = Append(accepted, <<p, sends[p]>>)
    /\ beforeClose' = IF done THEN beforeClose ELSE beforeClose + 1
    /\ AtProducer(p, "idle")
    /\ UNCHANGED <<done, sends, consumer, received>>

SendRefused(p) ==
    /\ producer[p] = "checked" /\ done
    /\ AtProducer(p, "idle")
    /\ UNCHANGED <<values, done, sends, consumer, accepted, beforeClose, received>>

SendCanceled(p) ==
    /\ producer[p] = "checked"
    /\ AtProducer(p, "idle")
    /\ UNCHANGED <<values, done, sends, consumer, accepted, beforeClose, received>>

TakeValue(c) ==
    /\ values # <<>>
    /\ received' = Append(received, Head(values))
    /\ values' = Tail(values)
    /\ AtConsumer(c, "idle")
    /\ UNCHANGED <<done, producer, sends, accepted, beforeClose>>

\* The first select of Receive, and the first case of the second.
ReceiveValue(c) == consumer[c] \in {"idle", "polled"} /\ TakeValue(c)

FindEmpty(c) ==
    /\ consumer[c] = "idle" /\ values = <<>>
    /\ AtConsumer(c, "polled")
    /\ UNCHANGED <<values, done, producer, sends, accepted, beforeClose, received>>

ReceiveCanceled(c) ==
    /\ consumer[c] = "polled"
    /\ AtConsumer(c, "idle")
    /\ UNCHANGED <<values, done, producer, sends, accepted, beforeClose, received>>

\* Mutant of ReceiveClosed: the done case does not poll again.
ReceiveClosedAtOnce(c) ==
    /\ consumer[c] = "polled" /\ done
    /\ AtConsumer(c, "drained")
    /\ UNCHANGED <<values, done, producer, sends, accepted, beforeClose, received>>

\* The done case polls the buffer once more; ErrClosed ends the consumer.
ReceiveClosed(c) ==
    /\ consumer[c] = "polled" /\ done
    /\ \/ TakeValue(c)
       \/ /\ values = <<>>
          /\ AtConsumer(c, "drained")
          /\ UNCHANGED <<values, done, producer, sends, accepted, beforeClose, received>>

CloseSink ==
    /\ ~done
    /\ done' = TRUE
    /\ UNCHANGED <<values, producer, sends, consumer, accepted, beforeClose, received>>

------------------------------------------------------------------------------
Sending(p) == SendValue(p) \/ SendRefused(p)
Receiving(c) == ReceiveValue(c) \/ FindEmpty(c) \/ ReceiveClosed(c)

SinkNext ==
    \/ \E p \in Producers : BeginSend(p) \/ Sending(p) \/ SendCanceled(p)
    \/ \E c \in Consumers : Receiving(c) \/ ReceiveCanceled(c)
    \/ CloseSink

SinkSpec == SinkInit /\ [][SinkNext]_sinkVars

------------------------------------------------------------------------------
(* Properties.                                                              *)

\* A consumer that is told ErrClosed leaves behind no value that was accepted
\* before Close (Receive: "Values accepted before Close remain available").
ClosedMeansDrained ==
    \A c \in Consumers : consumer[c] = "drained" => Len(received) >= beforeClose

==============================================================================
