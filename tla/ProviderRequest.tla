--------------------------- MODULE ProviderRequest ---------------------------
(****************************************************************************)
(* ProjectRequest of the three adapters: what a canonical request becomes   *)
(* in the protocol of each.  A request is a message with its content, the   *)
(* tools it offers, the choice among them and the response format.  Content *)
(* is known by its position, so that a projection shows what became of it.  *)
(****************************************************************************)
EXTENDS Naturals, Sequences, SequencesExt

CONSTANTS
    Requests,       \* requests: [role, content, tools, choice, format]
    Routes          \* what the catalog says of the model: [api, capabilities]

VARIABLES request, route,
    body            \* what was projected, Refused, or Unprojected

requestVars == <<request, route, body>>

Unprojected == [api |-> "none"]
NoBody == [api |-> "refused"]

Kinds == {"text", "reasoning", "media", "call", "result"}
Of(kinds) == {i \in DOMAIN request.content : request.content[i] \in kinds}

RequestTypeOK ==
    /\ request \in Requests /\ route \in Routes
    /\ body.api \in {"none", "refused", "openai", "anthropic", "compatible"}

RequestInit == request \in Requests /\ route \in Routes /\ body = Unprojected

------------------------------------------------------------------------------
(* What all adapters share.                                                 *)

FormatTools == IF request.format.type = "tool" THEN <<request.format.name>> ELSE <<>>

\* Validate: content of a known and complete kind, distinct tools, and a choice
\* that names one of them.
Validate ==
    LET names == request.tools \o FormatTools IN
    /\ request.role \in {"system", "user", "assistant", "tool"}
    /\ ToSet(request.content) \subseteq Kinds
    /\ \A i, j \in DOMAIN names : names[i] = names[j] => i = j
    /\ request.choice.type = "named" => request.choice.name \in ToSet(names)

RequiredCapabilities ==
    {"text"}
    \cup (IF request.tools # <<>> \/ Of({"call", "result"}) # {} \/ request.format.type = "tool"
          THEN {"tool-calls"} ELSE {})
    \cup (IF Of({"media"}) # {} THEN {"image-input"} ELSE {})
    \cup (IF Of({"reasoning"}) # {} THEN {"reasoning"} ELSE {})
    \cup (IF request.format.type = "json" THEN {"json-output"} ELSE {})

\* Catalog.Require, and the test of the API that follows it.
Require(api) == route.api = api /\ RequiredCapabilities \subseteq route.capabilities

EffectiveTools == request.tools \o FormatTools
EffectiveChoice ==
    IF request.format.type = "tool" THEN [type |-> "named", name |-> request.format.name]
    ELSE request.choice

------------------------------------------------------------------------------
(* The content, protocol by protocol.                                       *)

Flush(acc) == IF acc.parts = <<>> THEN acc.items ELSE Append(acc.items, acc.parts)

\* Mutant of ResponseInput: the parts are flushed at the end only.
ResponseInputLate ==
    LET Step(acc, i) == IF i \in Of({"call", "result"})
                        THEN [acc EXCEPT !.items = Append(@, <<i>>)]
                        ELSE [acc EXCEPT !.parts = Append(@, i)]
    IN  Flush(FoldLeftDomain(Step, [items |-> <<>>, parts |-> <<>>], request.content))

\* responseInput: calls and results are items of their own, the parts between
\* them are one message; there is always an item.
ResponseInput ==
    LET Step(acc, i) == IF i \in Of({"call", "result"})
                        THEN [items |-> Append(Flush(acc), <<i>>), parts |-> <<>>]
                        ELSE [acc EXCEPT !.parts = Append(@, i)]
        items == Flush(FoldLeftDomain(Step, [items |-> <<>>, parts |-> <<>>], request.content))
    IN  IF items = <<>> THEN <<<<>>>> ELSE items

\* Anthropic: a system message moves to the system parts, where there is room
\* for text only; any other is one message.
MessageContent == [i \in DOMAIN request.content |-> i]
SystemRefused == request.role = "system" /\ Of(Kinds \ {"text", "reasoning"}) # {}

\* chatMessage of the content at these positions: the text and images are one
\* list, the calls another, and there is one field for reasoning.
ChatMessage(positions) ==
    LET Those(kinds) == SelectSeq(positions, LAMBDA i : i \in Of(kinds)) IN
    [content |-> Those({"text", "media"}), calls |-> Those({"call"}), result |-> Those({"result"}),
     reasoning |-> LET r == Those({"reasoning"}) IN IF r = <<>> THEN r ELSE <<Last(r)>>]

\* chatMessages: each result is a message of its own.
ChatMessages ==
    LET Add(acc) == IF acc.pending = <<>> THEN acc.messages
                    ELSE Append(acc.messages, ChatMessage(acc.pending))
        Step(acc, i) == IF i \in Of({"result"})
                        THEN [messages |-> Append(Add(acc), ChatMessage(<<i>>)), pending |-> <<>>]
                        ELSE [acc EXCEPT !.pending = Append(@, i)]
        messages == Add(FoldLeftDomain(Step, [messages |-> <<>>, pending |-> <<>>], request.content))
    IN  IF messages = <<>> THEN <<ChatMessage(<<>>)>> ELSE messages

------------------------------------------------------------------------------
(* ProjectRequest.                                                          *)

ProjectRequest(api, refused, content, tools, choice) ==
    /\ body = Unprojected
    /\ body' = IF ~Validate \/ ~Require(api) \/ refused THEN NoBody
               ELSE [api |-> api, content |-> content, tools |-> tools, choice |-> choice]
    /\ UNCHANGED <<request, route>>

ProjectResponses == ProjectRequest("openai", FALSE, ResponseInput, EffectiveTools, EffectiveChoice)

\* Anthropic has no choice "none": neither tools nor a choice are sent.
NoTools == EffectiveChoice.type = "none"
ProjectMessages ==
    ProjectRequest("anthropic", SystemRefused, MessageContent,
            IF NoTools THEN <<>> ELSE EffectiveTools,
            IF NoTools THEN [type |-> "absent"] ELSE EffectiveChoice)

ProjectChat == ProjectRequest("compatible", FALSE, ChatMessages, EffectiveTools, EffectiveChoice)

RequestNext == ProjectResponses \/ ProjectMessages \/ ProjectChat

RequestSpec == RequestInit /\ [][RequestNext]_requestVars

------------------------------------------------------------------------------
(* Properties.                                                              *)

OfKindsInOrder(positions, kinds) ==
    positions = SelectSeq([i \in DOMAIN request.content |-> i], LAMBDA i : i \in Of(kinds))

\* A forced choice names one tool that the body offers, and no protocol drops,
\* repeats or reorders what it has room for (ProjectRequest).
ProjectionIsFaithful ==
    body.api \notin {"none", "refused"} =>
        /\ body.choice.type = "named" =>
            \E i \in DOMAIN body.tools :
                \A j \in DOMAIN body.tools : body.tools[j] = body.choice.name <=> i = j
        /\ body.api = "openai" => OfKindsInOrder(FlattenSeq(body.content), Kinds)
        /\ body.api = "anthropic" => OfKindsInOrder(body.content, Kinds)
        /\ body.api = "compatible" =>
            \A part \in {"content", "calls", "result"} :
                OfKindsInOrder(FlattenSeq([i \in DOMAIN body.content |-> body.content[i][part]]),
                        CASE part = "content" -> {"text", "media"}
                          [] part = "calls" -> {"call"}
                          [] part = "result" -> {"result"})
==============================================================================
