-------------------------- MODULE AnthropicMessages --------------------------
(****************************************************************************)
(* provider/anthropic: the frames of a Messages stream.                     *)
(****************************************************************************)
EXTENDS EventEmitter

CONSTANTS Indexes, BlockIDs     \* of content blocks; a block may choose its ID

\* The blocks by index, and the reason of the last message_delta.
MessagesState == [blocks |-> <<>>, terminal |-> FALSE]

Malformed == Handle(native, <<Fail>>)

ContentBlock(kind, id) == [kind |-> kind, id |-> id, open |-> TRUE]

\* content_block_start; a tool_use without a name is an error.
ContentStart(index, kind, id) ==
    IF index \in DOMAIN native.blocks THEN Malformed
    ELSE Handle([native EXCEPT !.blocks = WithBlock(@, index, ContentBlock(kind, id))],
                <<BlockEvent("start", kind, id, IF kind = "tool-input" THEN "tool" ELSE "")>>)

Open(index) == index \in DOMAIN native.blocks /\ native.blocks[index].open

\* content_block_delta emits what the delta says, not what the block is; a
\* signature is kept for the end of the block.
ContentDelta(index, kind) ==
    IF ~Open(index) THEN Malformed
    ELSE LET b == native.blocks[index] IN
         \/ Handle(native, <<BlockEvent("delta", kind, b.id,
                                        IF b.kind = "tool-input" THEN "tool" ELSE "")>>)
         \/ Handle(native, <<>>)

\* content_block_stop
ContentStop(index, valid) ==
    IF ~Open(index) THEN Malformed
    ELSE LET b == native.blocks[index] IN
         Handle([native EXCEPT !.blocks[index].open = FALSE],
                IF b.kind = "tool-input" THEN CallEvents(b.id, "tool", valid)
                ELSE <<BlockEvent("end", b.kind, b.id, "")>>)

\* message_stop
MessageStop ==
    IF \E index \in DOMAIN native.blocks : Open(index) THEN Malformed
    ELSE Handle([native EXCEPT !.terminal = TRUE], FinishEvents)

MessageError == Handle([native EXCEPT !.terminal = TRUE], <<ProviderError>>)

\* message_start, message_delta and ping; a frame that is not JSON or not known.
MessageOther == Handle(native, <<>>) \/ Malformed

MessagesFrame ==
    IF native.terminal THEN Malformed
    ELSE \/ \E index \in Indexes : \E kind \in Blocks :
                \/ \E id \in BlockIDs : ContentStart(index, kind, id)
                \/ ContentDelta(index, kind)
         \/ \E index \in Indexes : \E valid \in BOOLEAN : ContentStop(index, valid)
         \/ MessageStop \/ MessageError \/ MessageOther
==============================================================================
