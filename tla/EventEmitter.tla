---------------------------- MODULE EventEmitter -----------------------------
(****************************************************************************)
(* provider/adapter_helpers.go: the emitter between an adapter and the sink *)
(* of a turn.  An adapter queues what it emits; Fail in the queue is the    *)
(* error that it returns instead of going on.                               *)
(****************************************************************************)
EXTENDS LLMStream

VARIABLES
    native,         \* the adapter's streamState
    queue,          \* what the adapter has yet to emit for the frame at hand
    validator, pending, started,
    failed,         \* the error that ends the stream: "none", "protocol", "sink"
    attempt,        \* which attempt of the turn this is
    sent            \* history: what the sink has received, and of which attempt

emitterVars == <<validator, pending, started, failed, sent>>

Nothing == [type |-> "nothing"]
Fail == [type |-> "fail"]

Sent == [i \in DOMAIN sent |-> sent[i].event]
Received(events) == sent \o [i \in DOMAIN events |-> [attempt |-> attempt, event |-> events[i]]]
Pending == IF pending = Nothing THEN <<>> ELSE <<pending>>

NewEventEmitter ==
    /\ validator' = NewStreamValidator
    /\ pending' = Nothing /\ started' = FALSE

\* The adapter returns an error of its own.
AdapterFails ==
    /\ queue # <<>> /\ Head(queue) = Fail
    /\ failed' = "protocol"
    /\ queue' = <<>>
    /\ UNCHANGED <<native, validator, pending, started, attempt, sent>>

\* StepStart is held back until something follows it.
HoldStepStart ==
    /\ queue # <<>> /\ Head(queue).type = "step-start"
    /\ validator' = Accept(validator, Head(queue))
    /\ IF Accepts(validator, Head(queue))
       THEN pending' = Head(queue) /\ queue' = Tail(queue) /\ UNCHANGED failed
       ELSE failed' = "protocol" /\ queue' = <<>> /\ UNCHANGED pending
    /\ UNCHANGED <<native, started, attempt, sent>>

\* Any event but a StepStart: started is set before the first Send, and the
\* StepStart that was held back is sent before the event is validated.
ToEmit == queue # <<>> /\ Head(queue) # Fail /\ Head(queue).type # "step-start"
MarkStarted == started' = (started \/ Head(queue).type # "finish")

EmitEvent ==
    /\ ToEmit
    /\ MarkStarted
    /\ pending' = Nothing
    /\ validator' = Accept(validator, Head(queue))
    /\ IF Accepts(validator, Head(queue))
       THEN /\ sent' = Received(Append(Pending, Head(queue)))
            /\ queue' = Tail(queue) /\ UNCHANGED failed
       ELSE /\ sent' = Received(Pending)
            /\ failed' = "protocol" /\ queue' = <<>>
    /\ UNCHANGED <<native, attempt>>

\* The sink refuses the StepStart that was held back, or the event.
SinkFails ==
    /\ ToEmit
    /\ MarkStarted
    /\ failed' = "sink" /\ queue' = <<>>
    /\ \/ pending # Nothing /\ UNCHANGED <<pending, validator, sent>>
       \/ /\ Accepts(validator, Head(queue))
          /\ pending' = Nothing
          /\ validator' = Accept(validator, Head(queue))
          /\ sent' = Received(Pending)
    /\ UNCHANGED <<native, attempt>>

Emit == AdapterFails \/ HoldStepStart \/ EmitEvent \/ SinkFails

------------------------------------------------------------------------------
(* Events, as the adapters write them.                                      *)

Text(op, id) == BlockEvent(op, "text", id, "")
Reasoning(op, id) == BlockEvent(op, "reasoning", id, "")
ToolInput(op, id, name) == BlockEvent(op, "tool-input", id, name)
\* A block is started by its first delta.
StartedDelta(open, kind, id) ==
    (IF id \in open THEN <<>> ELSE <<BlockEvent("start", kind, id, "")>>)
        \o <<BlockEvent("delta", kind, id, "")>>
FinishEvents == <<StepEvent("step-finish", 0), Finish>>

\* The end of a tool's input: what it got must be JSON, or nothing.
CallEvents(id, name, valid) ==
    <<ToolInput("end", id, name), IF valid THEN ToolEvent("call", id, name) ELSE Fail>>

Handle(state, events) == native' = state /\ queue' = events
==============================================================================
