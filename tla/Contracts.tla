------------------------------ MODULE Contracts ------------------------------
(****************************************************************************)
(* The contracts of package codec: which JSON documents a decoder accepts   *)
(* and how it reads them.  A document is a function from the paths of its   *)
(* members to what stands there: the kind of the value, or one of the       *)
(* strings and numbers that some contract tells apart.  A list is empty or  *)
(* has one element, the member "item".                                      *)
(****************************************************************************)
EXTENDS Naturals, Sequences, SequencesExt

\* Spellings of a number: 1.0 is the number 1, and -0 the number 0.
Integral == {"-1", "-0", "0", "1", "1.0"}
Numeral == Integral \cup {"1.5"}

\* The string that spells the number 1: a count of tokens may be one.
Quoted == "'1'"

\* Objects with a member that is a string, or an object; arrays of a string, or
\* of something else.
Shapeless == {"null", "bool", "object", "strings", "objects", "list", "texts", "mixed"}

\* What a member must be: a rule names a set of values, and any other rule is
\* the string that it is: a tag, a member of an enumeration, an ID.
Accepted(rule) ==
    CASE rule \in {"number", "finite"} -> Numeral
      [] rule \in {"tokens", "cached"} -> (Numeral \ {"-1"}) \cup {Quoted}
      [] rule = "natural" -> Integral \ {"-1"}
      [] rule = "int64" -> Integral
      [] rule = "bool" -> {"bool"}
      [] rule = "record" -> {"object", "strings", "objects"}
      [] rule = "metadata" -> {"object", "objects"}
      [] rule = "headers" -> {"object", "strings"}
      [] rule = "strings-list" -> {"list", "texts"}
      [] OTHER -> {rule}

NotStrings == Shapeless \cup Numeral

Satisfies(value, rule) ==
    \/ rule = "any"
    \/ rule = "present" /\ value # "null"
    \/ rule = "string" /\ value \notin NotStrings
    \/ rule \notin {"any", "present", "string"} /\ value \in Accepted(rule)

------------------------------------------------------------------------------
(* Contracts: sets of members, with the rule of each.                       *)

Required(rule, names) == {[at |-> <<n>>, rule |-> rule, optional |-> FALSE] : n \in names}
Optional(rule, names) == {[at |-> <<n>>, rule |-> rule, optional |-> TRUE] : n \in names}
Within(n, members) == {[m EXCEPT !.at = <<n>> \o @] : m \in members}

Record(n, members) == Required("object", {n}) \cup Within(n, members)
OptionalRecord(n, members) == Optional("object", {n}) \cup Within(n, members)
Item(members) == Optional("object", {"item"}) \cup Within("item", members)
ListOf(n, members) == Required("list", {n}) \cup Within(n, Item(members))
OptionalListOf(n, members) == Optional("list", {n}) \cup Within(n, Item(members))

Parent(path) == Front(path)

\* No member is unknown, each is what its rule says, and none that is required
\* of an object that is there is missing.
Conforms(doc, contract) ==
    /\ \A path \in DOMAIN doc :
          \E m \in contract : m.at = path /\ Satisfies(doc[path], m.rule)
    /\ \A m \in contract :
          \/ m.optional \/ m.at \in DOMAIN doc
          \/ Len(m.at) > 1 /\ Parent(m.at) \notin DOMAIN doc

\* Members that are read as a number lose its spelling; every other number only
\* the sign of zero.
Reread(value, rule) ==
    IF value = "-0" THEN "0"
    ELSE IF value = "1.0" /\ rule \in {"number", "tokens", "cached", "int64"} THEN "1"
    ELSE IF value = Quoted /\ rule \in {"tokens", "cached"} THEN "1"
    ELSE value

\* What no contract speaks of is raw JSON.
RuleOf(path, contract) ==
    IF \E m \in contract : m.at = path THEN (CHOOSE m \in contract : m.at = path).rule ELSE "any"

ReadBy(doc, contract) ==
    [path \in DOMAIN doc |-> Reread(doc[path], RuleOf(path, contract))]
==============================================================================
