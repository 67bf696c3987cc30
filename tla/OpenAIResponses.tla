--------------------------- MODULE OpenAIResponses ---------------------------
(****************************************************************************)
(* provider/openai: the frames of a Responses stream.                       *)
(****************************************************************************)
EXTENDS EventEmitter

CONSTANT ItemIDs    \* identities of output items, whatever their type

\* A tool is filed under its call ID and its item ID; either finds it.
ResponsesState == [text |-> {}, reasoning |-> {}, tools |-> <<>>, terminal |-> FALSE]

Refuse == Handle(native, <<Fail>>)

OutputText(id) ==
    \/ Handle([native EXCEPT !.text = @ \cup {id}], StartedDelta(native.text, "text", id))
    \/ id \in native.text /\ Handle([native EXCEPT !.text = @ \ {id}], <<Text("end", id)>>)
    \/ id \notin native.text /\ Refuse

ReasoningText(id) ==
    \/ Handle([native EXCEPT !.reasoning = @ \cup {id}],
              StartedDelta(native.reasoning, "reasoning", id))
    \/ id \in native.reasoning
       /\ Handle([native EXCEPT !.reasoning = @ \ {id}], <<Reasoning("end", id)>>)
    \/ id \notin native.reasoning /\ Refuse

\* completeTool
CompleteTool(id, valid) ==
    IF native.tools[id].called THEN Refuse
    ELSE Handle([native EXCEPT !.tools[id].called = TRUE],
                CallEvents(id, native.tools[id].name, valid))

FunctionCall(id, name) ==
    IF name = "" THEN Refuse
    ELSE Handle([native EXCEPT !.tools = WithBlock(@, id, [name |-> name, called |-> FALSE])],
                <<ToolInput("start", id, name)>>)

FunctionArguments(id) ==
    IF id \notin DOMAIN native.tools THEN Refuse
    ELSE \/ Handle(native, <<ToolInput("delta", id, native.tools[id].name)>>)
         \/ \E valid \in BOOLEAN : CompleteTool(id, valid)

\* The item is done: its arguments may have been completed before.
FunctionDone(id) ==
    IF id \notin DOMAIN native.tools THEN Refuse
    ELSE IF native.tools[id].called THEN Handle(native, <<>>)
    ELSE \E valid \in BOOLEAN : CompleteTool(id, valid)

\* response.completed, response.incomplete and [DONE].
ResponsesFinish ==
    IF native.text \cup native.reasoning # {} \/ \E id \in DOMAIN native.tools : ~native.tools[id].called
    THEN Refuse
    ELSE Handle([native EXCEPT !.terminal = TRUE], FinishEvents)

ResponsesFailed == Handle([native EXCEPT !.terminal = TRUE], <<ProviderError>>)

\* A notification without content; a frame that is not JSON or not known.
ResponsesOther == Handle(native, <<>>) \/ Refuse

ResponsesFrame ==
    IF native.terminal THEN Refuse
    ELSE \/ \E id \in ItemIDs :
                \/ OutputText(id) \/ ReasoningText(id)
                \/ FunctionCall(id, "tool") \/ FunctionCall(id, "")
                \/ FunctionArguments(id) \/ FunctionDone(id)
         \/ ResponsesFinish \/ ResponsesFailed \/ ResponsesOther
==============================================================================
