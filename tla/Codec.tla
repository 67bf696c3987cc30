-------------------------------- MODULE Codec --------------------------------
(****************************************************************************)
(* Package codec.  A document is decoded to a value, or a value is built by *)
(* the program; it is encoded, and whoever receives what was written        *)
(* decodes it.  A value is its Go type, known or one of the types that hold *)
(* what a later version may add, with the members that it holds.            *)
(****************************************************************************)
EXTENDS SessionContracts

VARIABLES
    stage,      \* "idle", "value", "wire" or "read", or "refused"
    built,      \* the value was not decoded
    json,       \* the document that was decoded
    value,      \* the value of the program
    wire,       \* the document that was written
    again       \* the value that is read from it

codecVars == <<stage, built, json, value, wire, again>>

Family == {"event", "failure", "conversation", "message", "session-event", "permission",
           "ruleset", "question", "reply"}

ContractsOf(family) ==
    CASE family = "event" -> EventContracts
      [] family = "failure" -> FailureContracts
      [] family = "conversation" -> ConversationContracts
      [] family = "message" -> MessageContracts
      [] family = "session-event" -> KnownContracts
      [] family = "permission" -> {PermissionContract}
      [] family = "ruleset" -> {RulesetContract}
      [] family = "question" -> {QuestionContract}
      [] family = "reply" -> {ReplyContract}

TypeOf(doc) == doc[<<"type">>]
TagOf(doc) == doc[<<"reason", "_tag">>]

------------------------------------------------------------------------------
(* Decoding.                                                                *)

\* label is the type that an unknown event says it is, version the one of the
\* definition that a known session event says it follows.
Value(family, known, label, version, doc) ==
    [family |-> family, known |-> known, label |-> label, version |-> version, doc |-> doc]

Typed(doc) == <<"type">> \in DOMAIN doc /\ Satisfies(TypeOf(doc), "string") /\ TypeOf(doc) # ""
Kept(doc, names) == [path \in {p \in DOMAIN doc : Len(p) = 1 \/ p[1] \notin names} |-> doc[path]]

\* The values that a document is decoded to: one, or none when it is refused.
DecodeKnown(family, doc) ==
    {Value(family, TRUE, "", 0, ReadBy(doc, c)) : c \in {c \in ContractsOf(family) : Conforms(doc, c)}}

DecodeLLMEvent(doc) ==
    IF Typed(doc) /\ ~KnownEvent(TypeOf(doc))
    THEN {Value("event", FALSE, TypeOf(doc), 0, ReadBy(doc, {}))}
    ELSE {v \in DecodeKnown("event", doc) : UsageAddsUp(v.doc)}

\* The data of an event of an unknown type is any object.
DecodeSessionEvent(doc) ==
    IF Typed(doc) /\ TypeOf(doc) \notin SessionEventTypes
    THEN {Value("session-event", FALSE, "", 0, ReadBy(doc, c)) :
             c \in {c \in {UnknownContract} : Conforms(Kept(doc, {"data"}), c)}}
    ELSE {[v EXCEPT !.version = Version(TypeOf(v.doc))] : v \in DecodeKnown("session-event", doc)}

Decode(family, doc) ==
    CASE family = "event" -> DecodeLLMEvent(doc)
      [] family = "session-event" -> DecodeSessionEvent(doc)
      [] OTHER -> DecodeKnown(family, doc)

------------------------------------------------------------------------------
(* Encoding.                                                                *)

\* The names that the encoder lists for the object at a path.
NamesAt(v, at) ==
    CASE v.family = "event" -> IF at = <<>> THEN EventNames(TypeOf(v.doc)) ELSE UsageNames
      [] v.family = "failure" -> FailureNames(v.doc, at)
      [] v.family = "conversation" -> ConversationNames(v.doc, at)
      [] v.family = "message" -> MessageNames(v.doc, at)
      [] v.family = "session-event" -> EnvelopeNames(at)
      [] v.family = "permission" -> PermissionNames(at)
      [] v.family = "ruleset" -> RulesetNames(at)
      [] v.family = "question" -> QuestionNames(at)
      [] v.family = "reply" -> ReplyNames

\* Members that hold raw JSON, which is written as it is.
RawMembers(family) ==
    CASE family = "event" -> {<<"input">>, <<"result">>, <<"output">>, <<"error">>}
      [] family = "conversation" -> {ContentAt \o <<"input">>, ContentAt \o <<"result">>}
      [] family = "session-event" -> {<<"data">>}
      [] OTHER -> {}

Raw(v, at) == \E member \in RawMembers(v.family) : IsPrefix(member, at)

Written(v) ==
    LET IsList(at) == at # <<>> /\ v.doc[at] = "list"
        Writes(path) ==
            \A i \in 1 .. Len(path) :
                LET at == SubSeq(path, 1, i - 1)
                IN  Raw(v, at) \/ path[i] \in (IF IsList(at) THEN {"item"} ELSE NamesAt(v, at))
    IN  [path \in {p \in DOMAIN v.doc : Writes(p)} |-> v.doc[path]]

\* JSON has no spelling of these.
Unwritable == {"NaN", "invalid"}

\* The documents that a value is encoded to: what is written is decoded, to check it.
EncodeKnown(v) ==
    {d \in {Written(v)} : /\ \A path \in DOMAIN d : d[path] \notin Unwritable
                          /\ Decode(v.family, d) # {}}

\* An unknown event is its raw JSON, which is not decoded.
EncodeLLMEvent(v) ==
    IF v.known THEN EncodeKnown(v)
    ELSE {d \in {v.doc} :
             ~KnownEvent(v.label) /\ Satisfies(TypeOf(d), "string") /\ TypeOf(d) = v.label}

EncodeSessionEvent(v) ==
    {d \in EncodeKnown(v) :
        /\ v.known = (TypeOf(d) \in SessionEventTypes)
        /\ v.known => v.version = Version(TypeOf(d))}

Encode(v) ==
    CASE v.family = "event" -> EncodeLLMEvent(v)
      [] v.family = "session-event" -> EncodeSessionEvent(v)
      [] OTHER -> EncodeKnown(v)

------------------------------------------------------------------------------
(* Samples: documents of every contract, whole and least, and those that    *)
(* differ from a whole one in one member.                                   *)

Sample(rule) ==
    CASE rule \in {"number", "finite", "natural", "int64", "tokens"} -> "1"
      [] rule = "cached" -> "0"
      [] rule \in {"string", "any"} -> "word"
      [] rule \in {"record", "headers"} -> "strings"
      [] rule = "metadata" -> "objects"
      [] rule \in {"present", "strings-list"} -> "texts"
      [] OTHER -> rule

Whole(contract) ==
    [path \in {m.at : m \in contract} |-> Sample(RuleOf(path, contract))]

Least(contract) ==
    LET Needed(path) == \A m \in contract : IsPrefix(m.at, path) => ~m.optional
    IN  [path \in {p \in DOMAIN Whole(contract) : Needed(p)} |-> Whole(contract)[path]]

Without(doc, path) == [p \in {p \in DOMAIN doc : ~IsPrefix(path, p)} |-> doc[p]]
With(doc, path, token) ==
    [p \in DOMAIN Without(doc, path) \cup {path} |-> IF p = path THEN token ELSE doc[p]]

OtherTokens(rule) ==
    {"null", "word"} \cup
    (IF rule \in {"number", "finite", "natural", "int64", "tokens", "cached"} THEN Numeral \cup {Quoted}
     ELSE {"", "1.0", "-0"} \cup Shapeless)

SampleDocuments(family) ==
    UNION {{Whole(c), Least(c)}
           \cup {Without(Whole(c), m.at) : m \in c}
           \cup {With(Whole(c), Append(m.at, "extra"), "1") :
                    m \in {m \in c : m.rule \in {"object", "list"}}}
           \cup UNION {{With(Whole(c), m.at, t) : t \in OtherTokens(m.rule)} : m \in c} :
              c \in ContractsOf(family)}

\* What a member of a Go type may hold that its contract does not let pass.
Slips(rule) ==
    CASE rule \in {"number", "tokens", "cached"} -> {"NaN", "-1"}
      [] rule \in {"any", "present"} -> {"null", "invalid"}
      [] rule \in {"finite", "natural"} -> {"-1", "invalid", "word"}
      [] rule \in {"string", "bool", "record", "metadata", "headers", "strings-list", "int64",
                   "object", "list"} -> {}
      [] OTHER -> {"word"}

\* Members that a value does not hold but is: its Go type says them.
Tags ==
    {<<"type">>, <<"reason", "_tag">>, Append(ContentAt, "type"), Append(StateAt, "status"),
     <<"error", "type">>, StateAt \o <<"error", "type">>}

\* Members that a value may hold beside those of its contract, or lack: what is
\* of the other type of a tool's content, in a type or in raw JSON, and when the
\* reasoning began, though it has ended.
Beside(contract) ==
    LET OfContents(at) == at \in {ToolContentAt, <<"data">> \o ContentAt,
                                  <<"output">> \o ContentAt, <<"result", "value", "item">>}
    IN  {With(Whole(contract), Append(m.at, n), "word") :
            m \in {m \in contract : OfContents(m.at)}, n \in {"text", "uri", "mime", "name"}}

Lacking(contract) ==
    LET Reasoning(m) == /\ m.at = ContentAt \o <<"time", "created">>
                        /\ Whole(contract)[Append(ContentAt, "type")] = "reasoning"
    IN  {Without(Whole(contract), m.at) : m \in {m \in contract : m.optional \/ Reasoning(m)}}

Slipping(contract) ==
    UNION {{With(Whole(contract), m.at, t) : t \in Slips(m.rule)} :
              m \in {m \in contract : m.at \notin Tags}}

SampleValues(family) ==
    {Value(family, TRUE, "", IF family = "session-event" THEN Version(TypeOf(doc)) ELSE 0, doc) :
        doc \in UNION {Slipping(c) \cup Lacking(c) \cup Beside(c) : c \in ContractsOf(family)}}
    \cup IF family = "event" THEN
             {Value(family, FALSE, label, 0, With(Whole(c), <<"type">>, t)) :
                 label \in {"word", "finish", ""}, t \in {"word", "finish", "", "null"},
                 c \in EventContracts}
         ELSE IF family = "session-event" THEN
             {Value(family, definition[1], "", definition[2], With(Whole(c), <<"type">>, t)) :
                 definition \in {<<FALSE, 0>>, <<TRUE, 0>>, <<TRUE, 1>>, <<TRUE, 2>>},
                 t \in {"step.ended", "text.delta", "revert.cleared", "word", ""},
                 c \in KnownContracts}
         ELSE {}

------------------------------------------------------------------------------
Blank == <<>>
NoValue == Value("none", FALSE, "", 0, Blank)

CodecInit ==
    /\ stage = "idle"
    /\ built = FALSE
    /\ json = Blank
    /\ value = NoValue
    /\ wire = Blank
    /\ again = NoValue

Receive ==
    /\ stage = "idle"
    /\ \E family \in Family : \E doc \in SampleDocuments(family) :
          /\ json' = doc
          /\ IF Decode(family, doc) = {} THEN stage' = "refused" /\ UNCHANGED value
             ELSE stage' = "value" /\ value' \in Decode(family, doc)
    /\ UNCHANGED <<built, wire, again>>

Build ==
    /\ stage = "idle"
    /\ stage' = "value"
    /\ built' = TRUE
    /\ \E family \in Family : value' \in SampleValues(family)
    /\ UNCHANGED <<json, wire, again>>

Send ==
    /\ stage = "value"
    /\ IF Encode(value) = {} THEN stage' = "refused" /\ UNCHANGED wire
       ELSE stage' = "wire" /\ wire' \in Encode(value)
    /\ UNCHANGED <<built, json, value, again>>

Deliver ==
    /\ stage = "wire"
    /\ IF Decode(value.family, wire) = {} THEN stage' = "refused" /\ UNCHANGED again
       ELSE stage' = "read" /\ again' \in Decode(value.family, wire)
    /\ UNCHANGED <<built, json, value, wire>>

CodecNext == Receive \/ Build \/ Send \/ Deliver

------------------------------------------------------------------------------
(* Properties.                                                              *)

SameNumber(a, b) == {a, b} \subseteq Numeral \cup {Quoted} /\ Halves(a) = Halves(b)

\* The members of a tool's content that its type has no use for.
Unused(v) ==
    {path \in DOMAIN v.doc :
        /\ v.family = "message" /\ Len(path) > 1 /\ Front(path) = ToolContentAt
        /\ Last(path) \in (IF v.doc[Append(ToolContentAt, "type")] = "text"
                           THEN {"uri", "mime", "name"} ELSE {"text"})}

UntypedEvent(v) == v.family = "event" /\ ~v.known /\ v.label = ""

\* What a decoder accepted can be encoded again, and is then the document that
\* it was, save for the spelling of its numbers; and whatever an encoder writes
\* is decoded, to the very value that was written: no member is forgotten by
\* one side, and nothing known is taken for unknown.  There are two exceptions,
\* of values that no decoder yields: an unknown event whose type is empty is
\* written and then refused, and what a tool's content holds of the other type
\* is not written.  Of the decoders and encoders of every Family.
CodecsAreInverse ==
    /\ stage = "refused" =>
          \/ wire = Blank /\ (built \/ value = NoValue)
          \/ built /\ UntypedEvent(value) /\ wire = value.doc
    /\ stage = "wire" /\ ~built =>
          /\ DOMAIN wire = DOMAIN json
          /\ \A path \in DOMAIN json : wire[path] = json[path] \/ SameNumber(wire[path], json[path])
    /\ stage = "read" =>
          /\ ~UntypedEvent(value)
          /\ again = [value EXCEPT !.doc = [path \in DOMAIN @ \ Unused(value) |-> @[path]]]
          /\ Unused(value) # {} => built
==============================================================================
