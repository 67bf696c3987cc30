---------------------------- MODULE ProviderTurn -----------------------------
(****************************************************************************)
(* RunWithRetry over RunTurn of one of the three adapters or of the fake    *)
(* provider: requests that fail before, at the beginning of or within the   *)
(* stream of a server that may send anything, a sink that may refuse, and a *)
(* context that may end at any time.                                        *)
(****************************************************************************)
EXTENDS OpenAIResponses, AnthropicMessages, CompatibleChat

CONSTANTS
    MaxAttempts,    \* RetryPolicy.MaxAttempts
    MaxFrames,      \* bound on the frames of an attempt
    Cassette        \* turns of the fake provider: [events, error]

ASSUME TurnAssumption == MaxAttempts \in Nat \ {0} /\ MaxFrames \in Nat

VARIABLES
    adapter,        \* which provider runs the turn
    phase,          \* where RunWithRetry is
    frames,         \* the number of frames that were read
    context,        \* is the context alive?
    outcome,        \* what RunTurn has returned
    result,         \* what RunWithRetry has returned
    script          \* the turn of the cassette that the fake provider plays

turnVars == <<native, queue, emitterVars, attempt, adapter, phase, frames,
              context, outcome, result, script>>

\* Statuses by what they mean to the retry: none, 200, one of retryableStatus,
\* another.
Statuses == {"none", "ok", "retryable", "refused"}

Success == [kind |-> "nil"]
AttemptError(status, streamStarted) ==
    [kind |-> "attempt", status |-> status, started |-> streamStarted]
OtherError == [kind |-> "error"]
Unknown == [kind |-> "none"]

\* FakeProvider returns the error of its cassette as it is: one that says that
\* the stream had not started has to come without events.
ASSUME CassetteAssumption ==
    \A turn \in Cassette :
        turn.error.kind = "attempt" /\ ~turn.error.started => turn.events = <<>>

TurnTypeOK ==
    /\ adapter \in {"openai", "anthropic", "compatible", "fake"}
    /\ phase \in {"attempt", "request", "stream", "rejected", "play", "end", "sleep", "returned"}
    /\ attempt \in 0 .. MaxAttempts - 1 /\ frames \in 0 .. MaxFrames
    /\ started \in BOOLEAN /\ context \in BOOLEAN
    /\ failed \in {"none", "protocol", "sink"}
    /\ outcome.kind \in {"none", "nil", "attempt", "error"}
    /\ result.kind \in {"none", "nil", "attempt", "error"}

NativeState ==
    CASE adapter = "openai" -> ResponsesState
      [] adapter = "anthropic" -> MessagesState
      [] OTHER -> ChatState

TurnInit ==
    /\ adapter \in {"openai", "anthropic", "compatible", "fake"}
    /\ phase = "attempt" /\ attempt = 0 /\ frames = 0
    /\ context = TRUE
    /\ native = NativeState /\ queue = <<>>
    /\ validator = NewStreamValidator /\ pending = Nothing /\ started = FALSE
    /\ failed = "none" /\ sent = <<>>
    /\ outcome = Unknown /\ result = Unknown
    /\ script = [events |-> <<>>, error |-> Success]

EndContext ==
    /\ context /\ phase # "returned"
    /\ context' = FALSE
    /\ UNCHANGED <<native, queue, emitterVars, attempt, adapter, phase, frames,
                   outcome, result, script>>

Return(error) == phase' = "returned" /\ result' = error
EndTurn(error) == phase' = "end" /\ outcome' = error

------------------------------------------------------------------------------
(* RunTurn.                                                                 *)

\* The next attempt, with a request of its own.
Attempt ==
    /\ phase = "attempt"
    /\ IF context
       THEN phase' = (IF adapter = "fake" THEN "play" ELSE "request") /\ UNCHANGED result
       ELSE Return(OtherError)
    /\ NewEventEmitter
    /\ native' = NativeState /\ queue' = <<>> /\ failed' = "none" /\ frames' = 0
    /\ \E turn \in IF adapter = "fake" THEN Cassette ELSE {script} : script' = turn
    /\ UNCHANGED <<sent, attempt, adapter, context, outcome>>

\* The request is invalid or without a route, or there is no credential; the
\* Retry-After of the answer overflows and NewAttemptError refuses it.
RequestFails ==
    /\ phase = "request"
    /\ EndTurn(OtherError)
    /\ UNCHANGED <<native, queue, emitterVars, attempt, adapter, frames, context,
                   result, script>>

\* DoHTTP: the transport fails, or the server does not answer with a stream.
NoStream ==
    /\ phase = "request"
    /\ \E status \in Statuses : EndTurn(AttemptError(status, FALSE))
    /\ UNCHANGED <<native, queue, emitterVars, attempt, adapter, frames, context,
                   result, script>>

\* A status that is not 2xx whose body tells of a context overflow:
\* EmitClassifiedHTTPFailure makes a stream of it.
Rejected ==
    /\ phase = "request"
    /\ phase' = "rejected"
    /\ queue' = <<StepEvent("step-start", 0), ProviderError>>
    /\ UNCHANGED <<native, emitterVars, attempt, adapter, frames, context, outcome,
                   result, script>>

RejectedEnds ==
    /\ phase = "rejected" /\ queue = <<>>
    /\ EndTurn(IF failed = "none" /\ Done(validator) THEN Success ELSE OtherError)
    /\ UNCHANGED <<native, queue, emitterVars, attempt, adapter, frames, context,
                   result, script>>

OpenStream ==
    /\ phase = "request"
    /\ phase' = "stream"
    /\ queue' = <<StepEvent("step-start", 0)>>
    /\ UNCHANGED <<native, emitterVars, attempt, adapter, frames, context, outcome,
                   result, script>>

Reading == phase = "stream" /\ queue = <<>> /\ failed = "none"

\* ReadSSE hands the next record to the adapter.
Frame ==
    /\ Reading /\ frames < MaxFrames
    /\ frames' = frames + 1
    /\ \/ adapter = "openai" /\ ResponsesFrame
       \/ adapter = "anthropic" /\ MessagesFrame
       \/ adapter = "compatible" /\ ChatFrame
    /\ UNCHANGED <<emitterVars, attempt, adapter, phase, context, outcome, result, script>>

\* The emitter is busy; it knows nothing of the rest.
EmitOne ==
    /\ phase \in {"stream", "rejected"}
    /\ Emit
    /\ UNCHANGED <<adapter, phase, frames, context, outcome, result, script>>

\* The body cannot be read, a line or the body is too long, or the context has
\* ended; or the adapter, the validator or the sink has failed.
StreamFails ==
    /\ phase = "stream" /\ queue = <<>>
    /\ EndTurn(IF context THEN AttemptError("ok", started) ELSE OtherError)
    /\ UNCHANGED <<native, queue, emitterVars, attempt, adapter, frames, context,
                   result, script>>

\* Mutant of StreamEnds: the validator alone is asked, whatever has failed.
StreamEndsDone ==
    /\ phase = "stream" /\ queue = <<>>
    /\ EndTurn(IF Done(validator) THEN Success ELSE AttemptError("ok", started))
    /\ UNCHANGED <<native, queue, emitterVars, attempt, adapter, frames, context,
                   result, script>>

\* The body ends.
StreamEnds ==
    /\ Reading
    /\ EndTurn(IF native.terminal /\ Done(validator) THEN Success
               ELSE AttemptError("ok", started))
    /\ UNCHANGED <<native, queue, emitterVars, attempt, adapter, frames, context,
                   result, script>>

------------------------------------------------------------------------------
(* FakeProvider.RunTurn: no emitter, and any error at the end.              *)

Play ==
    /\ phase = "play" /\ context /\ script.events # <<>>
    /\ sent' = Received(<<Head(script.events)>>)
    /\ script' = [script EXCEPT !.events = Tail(@)]
    /\ UNCHANGED <<native, queue, validator, pending, started, failed, attempt,
                   adapter, phase, frames, context, outcome, result>>

PlayFails ==
    /\ phase = "play" /\ script.events # <<>>
    /\ EndTurn(OtherError)
    /\ UNCHANGED <<native, queue, emitterVars, attempt, adapter, frames, context,
                   result, script>>

PlayEnds ==
    /\ phase = "play" /\ script.events = <<>>
    /\ EndTurn(script.error)
    /\ UNCHANGED <<native, queue, emitterVars, attempt, adapter, frames, context,
                   result, script>>

------------------------------------------------------------------------------
(* RunWithRetry.                                                            *)

\* Mutant of Retryable: the status alone decides.
RetryableStatus(error) == error.kind = "attempt" /\ error.status = "retryable"

\* A failed attempt may be repeated if nothing of it has been seen.
Retryable(error) ==
    /\ error.kind = "attempt" /\ error.status = "retryable" /\ ~error.started

Decide ==
    /\ phase = "end"
    /\ IF outcome.kind # "nil" /\ ~context THEN Return(OtherError)
       ELSE IF Retryable(outcome) /\ attempt + 1 < MaxAttempts
       THEN phase' = "sleep" /\ UNCHANGED result
       ELSE Return(outcome)
    /\ UNCHANGED <<native, queue, emitterVars, attempt, adapter, frames, context,
                   outcome, script>>

\* The delay passes, or the context ends before.
Sleep ==
    /\ phase = "sleep"
    /\ \/ phase' = "attempt" /\ attempt' = attempt + 1 /\ UNCHANGED result
       \/ ~context /\ Return(OtherError) /\ UNCHANGED attempt
    /\ UNCHANGED <<native, queue, emitterVars, adapter, frames, context, outcome, script>>

------------------------------------------------------------------------------
RunTurn ==
    \/ RequestFails \/ NoStream \/ Rejected \/ RejectedEnds
    \/ OpenStream \/ Frame \/ EmitOne \/ StreamFails \/ StreamEnds
    \/ Play \/ PlayFails \/ PlayEnds

TurnNext == Attempt \/ RunTurn \/ Decide \/ Sleep \/ EndContext

TurnSpec == TurnInit /\ [][TurnNext]_turnVars

------------------------------------------------------------------------------
(* Properties.                                                              *)

\* Whatever the server sends and however often the turn is attempted, the sink
\* receives the events of one attempt, and an adapter gives it the beginning of
\* one well-formed stream (EventEmitter.Emit, StreamValidator.Accept,
\* RunWithRetry).  The fake plays what it has, in any order.
SinkSeesOneStream ==
    /\ \A i, j \in DOMAIN sent : sent[i].attempt = sent[j].attempt
    /\ adapter # "fake" => WellFormed(Sent)

\* A turn of an adapter that returns nil has given the sink a whole stream,
\* though Done is nil also after an event that was rejected (RunTurn,
\* StreamValidator.Done).
SuccessIsComplete == adapter # "fake" /\ result = Success => Complete(Sent)
==============================================================================
