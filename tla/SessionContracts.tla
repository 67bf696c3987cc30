-------------------------- MODULE SessionContracts ---------------------------
(****************************************************************************)
(* The JSON of package domain: the messages of a session, its events, and   *)
(* the permissions and questions that it asks for.  For each the contracts  *)
(* of its decoder, one for each type of it, and the names that its encoder  *)
(* writes, for each object on the way to a member.                          *)
(****************************************************************************)
EXTENDS LLMContracts

Timed(optional) ==
    Record("time", Required("number", {"created"}) \cup Optional("number", optional))

Model == Record("model", Required("string", {"id", "providerID"}) \cup Optional("string", {"variant"}))

\* A number of a message is read as a float64; one of an event is only checked,
\* and keeps its spelling.
PromptSource(number) ==
    OptionalRecord("source", Required(number, {"start", "end"}) \cup Required("string", {"text"}))
FileAttachment(number) ==
    Required("string", {"uri", "mime"}) \cup Optional("string", {"name", "description"})
    \cup PromptSource(number)
AgentAttachment(number) == Required("string", {"name"}) \cup PromptSource(number)
Prompt(number) ==
    Required("string", {"text"}) \cup OptionalListOf("files", FileAttachment(number))
    \cup OptionalListOf("agents", AgentAttachment(number))

Tokens(number) ==
    Required(number, {"input", "output", "reasoning"})
    \cup Record("cache", Required(number, {"read", "write"}))

UnknownError == Required("unknown", {"type"}) \cup Required("string", {"message"})

------------------------------------------------------------------------------
(* Messages.                                                                *)

\* Checked by the messages and by the events themselves, as it is by those of llm.
SessionToolContents == ToolContents

ToolStates ==
    {Required("pending", {"status"}) \cup Required("string", {"input"})}
    \cup {Required("record", {"input", "structured"}) \cup ListOf("content", content) \cup state :
             content \in SessionToolContents,
             state \in {Required("running", {"status"}),
                        Required("completed", {"status"}) \cup Optional("present", {"result"})
                          \cup OptionalListOf("attachments", FileAttachment("number"))
                          \cup Optional("strings-list", {"outputPaths"}),
                        Required("error", {"status"}) \cup Optional("present", {"result"})
                          \cup Record("error", UnknownError)}}

AssistantContents ==
    {Tag("text") \cup Required("string", {"id", "text"}),
     Tag("reasoning") \cup Required("string", {"id", "text"}) \cup Metadata
        \cup OptionalRecord("time", Required("number", {"created"}) \cup Optional("number", {"completed"}))}
    \cup {Tag("tool") \cup Named \cup Record("state", state) \cup Timed({"ran", "completed", "pruned"})
          \cup OptionalRecord("provider", Required("bool", {"executed"})
                                \cup Optional("metadata", {"metadata", "resultMetadata"})) :
             state \in ToolStates}

AssistantMembers ==
    Required("string", {"agent"}) \cup Model \cup Timed({"completed"})
    \cup OptionalRecord("snapshot", Optional("string", {"start", "end"})
                                    \cup Optional("strings-list", {"files"}))
    \cup Optional("string", {"finish"}) \cup Optional("number", {"cost"})
    \cup OptionalRecord("tokens", Tokens("number")) \cup OptionalRecord("error", UnknownError)

MessageMembers(type) ==
    CASE type = "agent-switched" -> {Required("string", {"agent"}) \cup Timed({})}
      [] type = "model-switched" -> {Model \cup Timed({})}
      [] type = "user" -> {Prompt("number") \cup Timed({})}
      [] type = "synthetic" ->
            {Required("session-id", {"sessionID"}) \cup Required("string", {"text"}) \cup Timed({})}
      [] type = "system" -> {Required("string", {"text"}) \cup Timed({})}
      [] type = "shell" ->
            {Required("string", {"callID", "command", "output"}) \cup Timed({"completed"})}
      [] type = "compaction" ->
            {Required("compaction-reason", {"reason"}) \cup Required("string", {"summary", "recent"})
             \cup Timed({})}
      [] type = "assistant" ->
            {AssistantMembers \cup ListOf("content", content) : content \in AssistantContents}

MessageTypes ==
    {"agent-switched", "model-switched", "user", "synthetic", "system", "shell", "compaction",
     "assistant"}

MessageBase == Required("message-id", {"id"}) \cup Optional("record", {"metadata"})

MessageContracts ==
    UNION {{MessageBase \cup Tag(type) \cup members : members \in MessageMembers(type)} :
              type \in MessageTypes}

BodyNames(type) ==
    CASE type = "agent-switched" -> {"agent"}
      [] type = "model-switched" -> {"model"}
      [] type = "user" -> {"text", "files", "agents"}
      [] type = "synthetic" -> {"sessionID", "text"}
      [] type = "system" -> {"text"}
      [] type = "shell" -> {"callID", "command", "output"}
      [] type = "compaction" -> {"reason", "summary", "recent"}
      [] type = "assistant" ->
            {"agent", "model", "content", "snapshot", "finish", "cost", "tokens", "error"}

AssistantContentNames(type) ==
    {"type", "id"} \cup
    (CASE type = "text" -> {"text"}
       [] type = "reasoning" -> {"text", "providerMetadata", "time"}
       [] type = "tool" -> {"name", "state", "provider", "time"})

StateNames(status) ==
    {"status", "input"} \cup
    (CASE status = "pending" -> {}
       [] status = "running" -> {"structured", "content"}
       [] status = "completed" -> {"structured", "content", "attachments", "outputPaths", "result"}
       [] status = "error" -> {"structured", "content", "error", "result"})

\* One Go type for both contents, of which the type says what is written.
ToolContentNames(type) ==
    {"type"} \cup
    (CASE type = "text" -> {"text"}
       [] type = "file" -> {"uri", "mime", "name"}
       [] OTHER -> {})

PartNames(member) ==
    CASE member = "model" -> {"id", "providerID", "variant"}
      [] member = "source" -> {"start", "end", "text"}
      [] member = "snapshot" -> {"start", "end", "files"}
      [] member = "tokens" -> {"input", "output", "reasoning", "cache"}
      [] member = "cache" -> {"read", "write"}
      [] member = "error" -> {"type", "message"}
      [] member = "provider" -> {"executed", "metadata", "resultMetadata"}

ContentAt == <<"content", "item">>
StateAt == Append(ContentAt, "state")
ToolContentAt == StateAt \o ContentAt

MessageNames(doc, at) ==
    LET Type(object) == doc[Append(object, "type")]
        Also(holds, names) == {"created"} \cup IF holds THEN names ELSE {}
    IN  CASE at = <<>> -> {"id", "type", "metadata", "time"} \cup BodyNames(Type(at))
          [] at = ContentAt -> AssistantContentNames(Type(at))
          [] at = StateAt -> StateNames(doc[Append(at, "status")])
          [] at = ToolContentAt -> ToolContentNames(Type(at))
          [] at = <<"time">> -> Also(Type(<<>>) \in {"shell", "assistant"}, {"completed"})
          [] at = Append(ContentAt, "time") ->
                Also(Type(ContentAt) = "tool", {"ran", "pruned"}) \cup {"completed"}
          [] at = <<"agents", "item">> -> {"name", "source"}
          [] at \in {<<"files", "item">>, StateAt \o <<"attachments", "item">>} ->
                {"uri", "mime", "name", "description", "source"}
          [] OTHER -> PartNames(Last(at))

------------------------------------------------------------------------------
(* Events.  The prefix "session.next." of their types is left out.          *)

Messaged(rest) == Required("message-id", {"messageID"}) \cup Required("string", rest)
Step(rest) == Required("message-id", {"assistantMessageID"}) \cup Required("string", rest)
Snapshot == Optional("string", {"snapshot"})
Provider ==
    Record("provider", Required("bool", {"executed"}) \cup Optional("metadata", {"metadata"}))
LocationRef == Required("string", {"directory"}) \cup Optional("workspace-id", {"workspaceID"})

RetryError ==
    Required("string", {"message"}) \cup Required("bool", {"isRetryable"})
    \cup Optional("finite", {"statusCode"}) \cup Optional("string", {"responseBody"})
    \cup Optional("headers", {"responseHeaders", "metadata"})

FileDiff ==
    Required("string", {"path", "patch"}) \cup Required("diff-status", {"status"})
    \cup Required("natural", {"additions", "deletions"})

RevertState ==
    Required("message-id", {"messageID"}) \cup Optional("string", {"partID", "snapshot", "diff"})
    \cup OptionalListOf("files", FileDiff)

SessionEventContracts ==
    LET One(types, members) == {[type |-> t, data |-> members] : t \in types}
        Each(type, contracts) == {[type |-> type, data |-> c] : c \in contracts}
    IN  One({"agent.switched"}, Messaged({"agent"}))
        \cup One({"model.switched"}, Messaged({}) \cup Model)
        \cup One({"moved"}, Record("location", LocationRef) \cup Optional("string", {"subdirectory"}))
        \cup One({"prompted", "prompt.admitted"},
                 Messaged({}) \cup Record("prompt", Prompt("finite")) \cup Required("delivery", {"delivery"}))
        \cup One({"context.updated", "synthetic", "compaction.delta"}, Messaged({"text"}))
        \cup One({"shell.started"}, Messaged({"callID", "command"}))
        \cup One({"shell.ended"}, Required("string", {"callID", "output"}))
        \cup One({"step.started"}, Step({"agent"}) \cup Model \cup Snapshot)
        \cup One({"step.ended"}, Step({"finish"}) \cup Required("finite", {"cost"}) \cup Snapshot
                 \cup Record("tokens", Tokens("finite")) \cup Optional("strings-list", {"files"}))
        \cup One({"step.failed"}, Step({}) \cup Record("error", UnknownError))
        \cup One({"text.started"}, Step({"textID"}))
        \cup One({"text.delta"}, Step({"textID", "delta"}))
        \cup One({"text.ended"}, Step({"textID", "text"}))
        \cup One({"reasoning.started"}, Step({"reasoningID"}) \cup Metadata)
        \cup One({"reasoning.delta"}, Step({"reasoningID", "delta"}))
        \cup One({"reasoning.ended"}, Step({"reasoningID", "text"}) \cup Metadata)
        \cup One({"tool.input.started"}, Step({"callID", "name"}))
        \cup One({"tool.input.delta"}, Step({"callID", "delta"}))
        \cup One({"tool.input.ended"}, Step({"callID", "text"}))
        \cup One({"tool.called"}, Step({"callID", "tool"}) \cup Required("record", {"input"}) \cup Provider)
        \cup Each("tool.progress", {Step({"callID"}) \cup Required("record", {"structured"})
                    \cup ListOf("content", content) : content \in SessionToolContents})
        \cup Each("tool.success", {Step({"callID"}) \cup Required("record", {"structured"})
                    \cup ListOf("content", content) \cup Optional("strings-list", {"outputPaths"})
                    \cup Optional("present", {"result"}) \cup Provider : content \in SessionToolContents})
        \cup One({"tool.failed"}, Step({"callID"}) \cup Record("error", UnknownError)
                 \cup Optional("present", {"result"}) \cup Provider)
        \cup One({"retried"}, Required("finite", {"attempt"}) \cup Record("error", RetryError))
        \cup One({"compaction.started"}, Messaged({}) \cup Required("compaction-reason", {"reason"}))
        \cup One({"compaction.ended"},
                 Messaged({"text", "recent"}) \cup Required("compaction-reason", {"reason"}))
        \cup One({"revert.staged"}, Record("revert", RevertState))
        \cup One({"revert.cleared"}, {})
        \cup One({"revert.committed"}, Messaged({}))

SessionEventTypes == {c.type : c \in SessionEventContracts}

\* The definition of a type: 0 when it is not durable.
Version(type) ==
    CASE type \in {"text.delta", "reasoning.delta", "tool.input.delta", "compaction.delta"} -> 0
      [] type \in {"step.ended", "step.failed"} -> 2
      [] OTHER -> 1

\* What an envelope holds beside its type and its data.
Envelope ==
    Required("event-id", {"id"}) \cup Optional("record", {"metadata"})
    \cup OptionalRecord("durable",
            Required("string", {"aggregateID"}) \cup Required("int64", {"seq", "version"}))
    \cup OptionalRecord("location", LocationRef)

KnownContracts ==
    {Envelope \cup Tag(c.type)
     \cup Record("data", Required("finite", {"timestamp"}) \cup Required("session-id", {"sessionID"})
                         \cup c.data) : c \in SessionEventContracts}

UnknownContract == Envelope \cup Required("string", {"type"}) \cup Required("record", {"data"})

\* The data is raw JSON.
EnvelopeNames(at) ==
    CASE at = <<>> -> {"id", "type", "data", "durable", "location", "metadata"}
      [] at = <<"durable">> -> {"aggregateID", "seq", "version"}
      [] at = <<"location">> -> {"directory", "workspaceID"}

------------------------------------------------------------------------------
(* Permissions and questions.                                               *)

Owner(id) == Required(id, {"id"}) \cup Required("session-id", {"sessionID"})
Caller == Required("string", {"messageID", "callID"})

PermissionContract ==
    Owner("permission-id") \cup Required("string", {"action"}) \cup Required("strings-list", {"resources"})
    \cup Optional("strings-list", {"save"}) \cup Optional("record", {"metadata"})
    \cup OptionalRecord("source", Required("tool", {"type"}) \cup Caller)

PermissionNames(at) ==
    IF at = <<>> THEN {"id", "sessionID", "action", "resources", "save", "metadata", "source"}
    ELSE {"type", "messageID", "callID"}

\* A ruleset is a list, whose item is at its root.
RulesetContract ==
    Item(Required("string", {"action", "resource"}) \cup Required("permission-effect", {"effect"}))
RulesetNames(at) == IF at = <<>> THEN {"item"} ELSE {"action", "resource", "effect"}

QuestionContract ==
    Owner("question-id") \cup OptionalRecord("tool", Caller)
    \cup ListOf("questions",
            Required("string", {"question", "header"}) \cup Optional("bool", {"multiple", "custom"})
            \cup ListOf("options", Required("string", {"label", "description"})))

QuestionNames(at) ==
    CASE at = <<>> -> {"id", "sessionID", "questions", "tool"}
      [] at = <<"tool">> -> {"messageID", "callID"}
      [] at = <<"questions", "item">> -> {"question", "header", "options", "multiple", "custom"}
      [] OTHER -> {"label", "description"}

ReplyContract == Required("list", {"answers"}) \cup Within("answers", Optional("strings-list", {"item"}))
ReplyNames == {"answers"}
==============================================================================
