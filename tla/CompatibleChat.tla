--------------------------- MODULE CompatibleChat ----------------------------
(****************************************************************************)
(* provider/compatible: the chunks of a Chat Completions stream.            *)
(****************************************************************************)
EXTENDS EventEmitter, SequencesExt

CONSTANTS ChoiceIndexes, CallIndexes, CallIDs   \* strings, as the server gives them

\* The blocks are named by the index of their choice; a tool by its choice and
\* its index in it.
ChatState == [text |-> {}, reasoning |-> {}, tools |-> <<>>, terminal |-> FALSE]

TextID(choice) == "text-" \o choice
ReasoningID(choice) == "reasoning-" \o choice

ChatContent(choice) ==
    Handle([native EXCEPT !.text = @ \cup {TextID(choice)}],
           StartedDelta(native.text, "text", TextID(choice)))

ChatReasoning(choice) ==
    Handle([native EXCEPT !.reasoning = @ \cup {ReasoningID(choice)}],
           StartedDelta(native.reasoning, "reasoning", ReasoningID(choice)))

\* A part of a tool call: the first one gives its ID, the name may come later
\* and what comes before it is ignored.
ToolPart(key, id, name, arguments) ==
    LET old == IF key \in DOMAIN native.tools THEN native.tools[key]
               ELSE [id |-> id, name |-> "", started |-> FALSE]
        tool == [old EXCEPT !.name = IF @ = "" THEN name ELSE @,
                            !.started = @ \/ old.name # "" \/ name # ""]
    IN  Handle([native EXCEPT !.tools = WithBlock(@, key, tool)],
               (IF tool.started /\ ~old.started
                THEN <<ToolInput("start", tool.id, tool.name)>> ELSE <<>>)
               \o (IF tool.started /\ arguments
                   THEN <<ToolInput("delta", tool.id, tool.name)>> ELSE <<>>))

\* Any order will do for the model: the code sorts.
Ends(ids, kind) == LET s == SetToSeq(ids) IN
    [i \in DOMAIN s |-> BlockEvent("end", kind, s[i], "")]

ToolEnd(tool, valid) ==
    IF tool.started THEN CallEvents(tool.id, tool.name, valid) ELSE <<Fail>>

ToolEnds(valid) == LET keys == SetToSeq(DOMAIN native.tools) IN
    FlattenSeq([i \in DOMAIN keys |-> ToolEnd(native.tools[keys[i]], valid)])

\* [DONE] closes what is open.
ChatFinish(valid) ==
    Handle([native EXCEPT !.terminal = TRUE, !.text = {}, !.reasoning = {}],
           Ends(native.text, "text") \o Ends(native.reasoning, "reasoning")
           \o ToolEnds(valid) \o FinishEvents)

ChatError == Handle([native EXCEPT !.terminal = TRUE], <<ProviderError>>)

\* A chunk with usage or a finish_reason alone; one that is not JSON.
ChatOther == Handle(native, <<>>) \/ Handle(native, <<Fail>>)

ChatFrame ==
    IF native.terminal THEN Handle(native, <<Fail>>)
    ELSE \/ \E choice \in ChoiceIndexes :
                \/ ChatContent(choice) \/ ChatReasoning(choice)
                \/ \E call \in CallIndexes, id \in CallIDs, name \in {"tool", ""}, arguments \in BOOLEAN :
                    ToolPart(<<choice, call>>, id, name, arguments)
         \/ \E valid \in BOOLEAN : ChatFinish(valid)
         \/ ChatError \/ ChatOther
==============================================================================
