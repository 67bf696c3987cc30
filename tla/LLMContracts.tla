---------------------------- MODULE LLMContracts -----------------------------
(****************************************************************************)
(* The JSON of package domain/llm: the events of a turn, the failures of a  *)
(* provider and the messages of a conversation.  For each the contracts of  *)
(* its decoder, one for each type of it, and the names that its encoder     *)
(* writes, for each object on the way to a member.                          *)
(****************************************************************************)
EXTENDS Contracts, Integers

Tag(type) == Required(type, {"type"})
Metadata == Optional("metadata", {"providerMetadata"})

------------------------------------------------------------------------------
(* Events.                                                                  *)

Usage ==
    Optional("tokens", {"inputTokens", "outputTokens", "nonCachedInputTokens",
                        "reasoningTokens", "totalTokens"})
    \cup Optional("cached", {"cacheReadInputTokens", "cacheWriteInputTokens"}) \cup Metadata

\* A numeral, in halves.
Halves(numeral) ==
    CASE numeral = "-1" -> -2
      [] numeral \in {"-0", "0"} -> 0
      [] numeral \in {"1", "1.0", Quoted} -> 2
      [] numeral = "1.5" -> 3

\* The parts of the input make up the whole, and reasoning is part of the output.
UsageAddsUp(doc) ==
    LET Has(names) == \A n \in names : <<"usage", n>> \in DOMAIN doc
        Value(n) == Halves(doc[<<"usage", n>>])
    IN  /\ Has({"inputTokens", "nonCachedInputTokens", "cacheReadInputTokens",
                "cacheWriteInputTokens"})
              => Value("inputTokens") = Value("nonCachedInputTokens")
                    + Value("cacheReadInputTokens") + Value("cacheWriteInputTokens")
        /\ Has({"outputTokens", "reasoningTokens"})
              => Value("reasoningTokens") <= Value("outputTokens")

ToolContents ==
    {Tag("text") \cup Required("string", {"text"}),
     Tag("file") \cup Required("string", {"uri", "mime"}) \cup Optional("string", {"name"})}

ToolResults ==
    {Record("result", Tag(type) \cup Required("any", {"value"})) : type \in {"json", "text", "error"}}
    \cup {Record("result", Tag("content") \cup ListOf("value", content)) : content \in ToolContents}

ToolOutputs ==
    {OptionalRecord("output", Required("any", {"structured"}) \cup ListOf("content", content)) :
        content \in ToolContents}

BlockContracts ==
    {Tag(type) \cup Required("string", {"id"}) \cup Metadata :
        type \in {"text-start", "text-end", "reasoning-start", "reasoning-end"}}
    \cup {Tag(type) \cup Required("string", {"id", "text"}) \cup Metadata :
        type \in {"text-delta", "reasoning-delta"}}

Named == Required("string", {"id", "name"})
Executed == Optional("bool", {"providerExecuted"})

ToolInputContracts ==
    {Tag(type) \cup Named \cup Metadata : type \in {"tool-input-start", "tool-input-end"}}
    \cup {Tag("tool-input-delta") \cup Named \cup Required("string", {"text"})}

ToolContracts ==
    {Tag("tool-call") \cup Named \cup Required("any", {"input"}) \cup Executed \cup Metadata,
     Tag("tool-error") \cup Named \cup Required("string", {"message"})
        \cup Optional("present", {"error"}) \cup Metadata}
    \cup {Tag("tool-result") \cup Named \cup result \cup output \cup Executed \cup Metadata :
             result \in ToolResults, output \in ToolOutputs}

FinishMembers ==
    Required("finish-reason", {"reason"}) \cup OptionalRecord("usage", Usage) \cup Metadata

EndContracts ==
    {Tag("step-start") \cup Required("number", {"index"}),
     Tag("step-finish") \cup Required("number", {"index"}) \cup FinishMembers,
     Tag("finish") \cup FinishMembers,
     Tag("provider-error") \cup Required("string", {"message"}) \cup Metadata
        \cup Optional("context-overflow", {"classification"}) \cup Optional("bool", {"retryable"})}

EventContracts == BlockContracts \cup ToolInputContracts \cup ToolContracts \cup EndContracts

KnownEvent(type) ==
    type \in {"step-start", "text-start", "text-delta", "text-end", "reasoning-start",
              "reasoning-delta", "reasoning-end", "tool-input-start", "tool-input-delta",
              "tool-input-end", "tool-call", "tool-result", "tool-error", "step-finish",
              "finish", "provider-error"}

UsageNames ==
    {"inputTokens", "outputTokens", "nonCachedInputTokens", "cacheReadInputTokens",
     "cacheWriteInputTokens", "reasoningTokens", "totalTokens", "providerMetadata"}

\* Mutant of EventNames: the output of a tool is forgotten.
EventNamesWithoutOutput(type) ==
    {"type", "id", "name", "result", "providerExecuted", "providerMetadata"}

\* At the root: what lies within input, result, output and error is raw JSON,
\* and is written as it is.
EventNames(type) ==
    {"type"} \cup
    (CASE type = "step-start" -> {"index"}
       [] type \in {"text-start", "text-end", "reasoning-start", "reasoning-end"} ->
             {"id", "providerMetadata"}
       [] type \in {"text-delta", "reasoning-delta"} -> {"id", "text", "providerMetadata"}
       [] type \in {"tool-input-start", "tool-input-end"} -> {"id", "name", "providerMetadata"}
       [] type = "tool-input-delta" -> {"id", "name", "text"}
       [] type = "tool-call" -> {"id", "name", "input", "providerExecuted", "providerMetadata"}
       [] type = "tool-result" ->
             {"id", "name", "result", "output", "providerExecuted", "providerMetadata"}
       [] type = "tool-error" -> {"id", "name", "message", "error", "providerMetadata"}
       [] type = "step-finish" -> {"index", "reason", "usage", "providerMetadata"}
       [] type = "finish" -> {"reason", "usage", "providerMetadata"}
       [] type = "provider-error" ->
             {"message", "classification", "retryable", "providerMetadata"})

------------------------------------------------------------------------------
(* Failures.                                                                *)

RateLimit == Optional("number", {"retryAfterMs"}) \cup Optional("headers", {"limit", "remaining", "reset"})

HTTPRequest == Required("string", {"method", "url"}) \cup Required("headers", {"headers"})
HTTPResponse == Required("number", {"status"}) \cup Required("headers", {"headers"})

HTTP ==
    OptionalRecord("http",
        Record("request", HTTPRequest) \cup OptionalRecord("response", HTTPResponse)
        \cup Optional("string", {"body", "requestId"}) \cup Optional("bool", {"bodyTruncated"})
        \cup OptionalRecord("rateLimit", RateLimit))

Message == Required("string", {"message"})

\* The members of a reason beside its tag.
ReasonMembers(tag) ==
    CASE tag = "InvalidRequest" ->
            Message \cup Optional("string", {"parameter"}) \cup Metadata \cup HTTP
            \cup Optional("context-overflow", {"classification"})
      [] tag = "NoRoute" -> Required("string", {"route", "provider", "model"})
      [] tag = "Authentication" ->
            Message \cup Required("authentication-kind", {"kind"}) \cup Metadata \cup HTTP
      [] tag = "RateLimit" ->
            Message \cup Optional("number", {"retryAfterMs"})
            \cup OptionalRecord("rateLimit", RateLimit) \cup Metadata \cup HTTP
      [] tag \in {"QuotaExceeded", "ContentPolicy"} -> Message \cup Metadata \cup HTTP
      [] tag = "ProviderInternal" ->
            Message \cup Required("number", {"status"}) \cup Optional("number", {"retryAfterMs"})
            \cup Metadata \cup HTTP
      [] tag = "Transport" -> Message \cup Optional("string", {"kind", "url"}) \cup HTTP
      [] tag = "InvalidProviderOutput" ->
            Message \cup Optional("string", {"route", "raw"}) \cup Metadata
      [] tag = "UnknownProvider" ->
            Message \cup Optional("number", {"status"}) \cup Metadata \cup HTTP

FailureTags ==
    {"InvalidRequest", "NoRoute", "Authentication", "RateLimit", "QuotaExceeded",
     "ContentPolicy", "ProviderInternal", "Transport", "InvalidProviderOutput",
     "UnknownProvider"}

FailureContracts ==
    {Required("string", {"module", "method"})
     \cup Record("reason", Required(tag, {"_tag"}) \cup ReasonMembers(tag)) : tag \in FailureTags}

HTTPNames(member) ==
    CASE member = "http" ->
            {"request", "response", "body", "bodyTruncated", "requestId", "rateLimit"}
      [] member = "request" -> {"method", "url", "headers"}
      [] member = "response" -> {"status", "headers"}
      [] member = "rateLimit" -> {"retryAfterMs", "limit", "remaining", "reset"}

ReasonNames(tag) ==
    {"_tag"} \cup
    (CASE tag = "InvalidRequest" ->
             {"message", "parameter", "classification", "providerMetadata", "http"}
       [] tag = "NoRoute" -> {"route", "provider", "model"}
       [] tag = "Authentication" -> {"message", "kind", "providerMetadata", "http"}
       [] tag = "RateLimit" ->
             {"message", "retryAfterMs", "rateLimit", "providerMetadata", "http"}
       [] tag \in {"QuotaExceeded", "ContentPolicy"} -> {"message", "providerMetadata", "http"}
       [] tag = "ProviderInternal" ->
             {"message", "status", "retryAfterMs", "providerMetadata", "http"}
       [] tag = "Transport" -> {"message", "kind", "url", "http"}
       [] tag = "InvalidProviderOutput" -> {"message", "route", "raw", "providerMetadata"}
       [] tag = "UnknownProvider" -> {"message", "status", "providerMetadata", "http"})

FailureNames(doc, at) ==
    CASE at = <<>> -> {"module", "method", "reason"}
      [] at = <<"reason">> -> ReasonNames(doc[<<"reason", "_tag">>])
      [] OTHER -> HTTPNames(Last(at))

------------------------------------------------------------------------------
(* Messages of a conversation.                                              *)

Cache == OptionalRecord("cache", Tag("cache-hint") \cup Optional("number", {"ttlSeconds"}))
OwnMetadata == Optional("record", {"metadata"})

ConversationContents ==
    {Tag("text") \cup Required("string", {"text"}) \cup Cache \cup Metadata,
     Tag("media") \cup Required("string", {"mediaType", "data"}) \cup Optional("string", {"filename"}),
     Tag("tool-call") \cup Named \cup Required("any", {"input"}) \cup Executed \cup Metadata,
     Tag("reasoning") \cup Required("string", {"text"}) \cup Optional("string", {"encrypted"})
        \cup Metadata}
    \cup {Tag("tool-result") \cup Named \cup result \cup Executed \cup Cache \cup Metadata :
             result \in ToolResults}

ConversationContracts ==
    {Required("message-role", {"role"}) \cup Optional("string", {"id"})
     \cup Optional("record", {"metadata", "native"}) \cup ListOf("content", content \cup OwnMetadata) :
         content \in ConversationContents}

ConversationContentNames(type) ==
    {"type", "metadata"} \cup
    (CASE type = "text" -> {"text", "cache", "providerMetadata"}
       [] type = "media" -> {"mediaType", "data", "filename"}
       [] type = "tool-call" -> {"id", "name", "input", "providerExecuted", "providerMetadata"}
       [] type = "tool-result" ->
             {"id", "name", "result", "providerExecuted", "cache", "providerMetadata"}
       [] type = "reasoning" -> {"text", "encrypted", "providerMetadata"})

ConversationNames(doc, at) ==
    CASE at = <<>> -> {"id", "role", "content", "metadata", "native"}
      [] at = <<"content", "item">> -> ConversationContentNames(doc[Append(at, "type")])
      [] OTHER -> {"type", "ttlSeconds"}
==============================================================================
