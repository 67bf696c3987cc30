------------------------------ MODULE LLMStream ------------------------------
(****************************************************************************)
(* provider/stream.go: the order of the events of one provider turn.  The   *)
(* validator keeps a table of blocks; WellFormed says the same of the whole *)
(* sequence of events, without a state.                                     *)
(****************************************************************************)
EXTENDS Integers, Sequences

\* Events by what the order depends on; "" is an identity that is empty or has
\* spaces around it, a negative index one that is not a finite natural number.
BlockEvent(op, kind, id, name) == [type |-> op, kind |-> kind, id |-> id, name |-> name]
ToolEvent(type, id, name) == [type |-> type, id |-> id, name |-> name]
StepEvent(type, index) == [type |-> type, index |-> index]
Finish == [type |-> "finish"]
ProviderError == [type |-> "provider-error"]
\* nil, an event that the codec refuses to encode, or one of an unknown type.
BadEvent == [type |-> "bad"]

Blocks == {"text", "reasoning", "tool-input"}
Opening == {"start", "call"}
Terminal == {"finish", "provider-error"}
EventTypes == {"start", "delta", "end", "call", "result", "error", "step-start",
               "step-finish", "bad"} \cup Terminal

------------------------------------------------------------------------------
(* The validator.                                                           *)

NoStep == -1

NewStreamValidator == [blocks |-> <<>>, step |-> NoStep, terminal |-> FALSE]

\* A table of blocks that has b under id.
WithBlock(blocks, id, b) ==
    [i \in DOMAIN blocks \cup {id} |-> IF i = id THEN b ELSE blocks[i]]

NoOpenBlocks(v) == \A id \in DOMAIN v.blocks : v.blocks[id].closed

StartBlock(v, e) ==
    /\ e.type = "start"
    /\ e.id # "" /\ (e.kind = "tool-input" => e.name # "")
    /\ e.id \notin DOMAIN v.blocks

\* A delta of a tool input names its tool; an end may leave the name out.
InBlock(v, e) ==
    /\ e.type \in {"delta", "end"}
    /\ e.id \in DOMAIN v.blocks
    /\ LET b == v.blocks[e.id] IN
        /\ b.kind = e.kind /\ ~b.closed
        /\ e.kind = "tool-input" => e.name = b.name \/ (e.type = "end" /\ e.name = "")

ToolCall(v, e) ==
    /\ e.type = "call" /\ e.id # "" /\ e.name # ""
    /\ e.id \in DOMAIN v.blocks =>
        LET b == v.blocks[e.id] IN
        b.kind = "tool-input" /\ b.closed /\ ~b.called /\ b.name = e.name

ToolTerminal(v, e) ==
    /\ e.type \in {"result", "error"} /\ e.id # "" /\ e.name # ""
    /\ e.id \in DOMAIN v.blocks
    /\ LET b == v.blocks[e.id] IN b.called /\ ~b.settled /\ b.name = e.name

StepStart(v, e) == e.type = "step-start" /\ e.index \in Nat /\ v.step = NoStep

\* Mutant of StepFinish: blocks may stay open over a step.
StepFinishOpen(v, e) ==
    e.type = "step-finish" /\ e.index \in Nat /\ v.step # NoStep /\ e.index = v.step

StepFinish(v, e) ==
    /\ e.type = "step-finish" /\ e.index \in Nat
    /\ v.step # NoStep /\ e.index = v.step
    /\ NoOpenBlocks(v)

FinishTurn(v, e) ==
    \/ e.type = "finish" /\ v.step = NoStep /\ NoOpenBlocks(v)
    \/ e.type = "provider-error"

\* Does Accept return nil?
Accepts(v, e) ==
    /\ ~v.terminal
    /\ \/ StartBlock(v, e) \/ InBlock(v, e)
       \/ ToolCall(v, e) \/ ToolTerminal(v, e)
       \/ StepStart(v, e) \/ StepFinish(v, e) \/ FinishTurn(v, e)

\* The block that an accepted event leaves behind.
BlockAfter(v, e) ==
    LET old == IF e.id \in DOMAIN v.blocks THEN v.blocks[e.id]
               ELSE [kind |-> IF e.type = "call" THEN "tool-call" ELSE e.kind,
                     name |-> e.name, closed |-> e.type = "call",
                     called |-> FALSE, settled |-> FALSE]
    IN  CASE e.type = "end" -> [old EXCEPT !.closed = TRUE]
          [] e.type = "call" -> [old EXCEPT !.called = TRUE]
          [] e.type \in {"result", "error"} -> [old EXCEPT !.settled = TRUE]
          [] OTHER -> old

\* The validator after Accept: a rejected event makes it terminal too.
Accept(v, e) ==
    IF ~Accepts(v, e) \/ e.type \in Terminal THEN [v EXCEPT !.terminal = TRUE]
    ELSE IF e.type = "step-start" THEN [v EXCEPT !.step = e.index]
    ELSE IF e.type = "step-finish" THEN [v EXCEPT !.step = NoStep]
    ELSE [v EXCEPT !.blocks = WithBlock(@, e.id, BlockAfter(v, e))]

\* Done: nil when the validator is terminal, for whatever reason.
Done(v) == v.terminal

------------------------------------------------------------------------------
(* The reference: what a sequence of events must be.                        *)

\* Positions before i, and those of events of a block or tool.
Before(s, i, types) == {j \in 1 .. i - 1 : s[j].type \in types}
OfBlock(s, i, types) == {j \in Before(s, i, types) : s[j].id = s[i].id}

InStep(s, i) ==
    \E j \in Before(s, i, {"step-start"}) :
        ~ \E k \in Before(s, i, {"step-finish"}) : k > j

\* Every block that was started before i has ended before i.
AllEnded(s, i) ==
    \A j \in Before(s, i, {"start"}) : \E k \in Before(s, i, {"end"}) : s[k].id = s[j].id

\* A block is started once, and has its deltas and its end while it is open; a
\* tool is called once, after its input if it has any, and has one result.
BlockInOrder(s, i) ==
    LET opening == OfBlock(s, i, Opening) IN
    CASE s[i].type = "start" -> opening = {}
      [] s[i].type \in {"delta", "end"} ->
            /\ \E j \in opening :
                /\ s[j].type = "start" /\ s[j].kind = s[i].kind
                /\ s[i].kind = "tool-input" /\ s[i].name # "" => s[j].name = s[i].name
            /\ s[i].type = "delta" /\ s[i].kind = "tool-input" => s[i].name # ""
            /\ OfBlock(s, i, {"end"}) = {}
      [] s[i].type = "call" ->
            \/ opening = {}
            \/ /\ OfBlock(s, i, {"call"}) = {} /\ OfBlock(s, i, {"end"}) # {}
               /\ \A j \in opening : s[j].kind = "tool-input" /\ s[j].name = s[i].name
      [] s[i].type \in {"result", "error"} ->
            /\ \E j \in OfBlock(s, i, {"call"}) : s[j].name = s[i].name
            /\ OfBlock(s, i, {"result", "error"}) = {}

StepInOrder(s, i) ==
    CASE s[i].type = "step-start" -> ~InStep(s, i)
      [] s[i].type = "step-finish" ->
            /\ InStep(s, i) /\ AllEnded(s, i)
            /\ \E j \in Before(s, i, {"step-start"}) :
                s[j].index = s[i].index /\ \A k \in Before(s, i, {"step-start"}) : k <= j
      [] s[i].type = "finish" -> ~InStep(s, i) /\ AllEnded(s, i)
      [] s[i].type = "provider-error" -> TRUE

Identified(e) ==
    CASE e.type \in {"step-start", "step-finish"} -> e.index \in Nat
      [] e.type = "start" -> e.id # "" /\ (e.kind = "tool-input" => e.name # "")
      [] e.type \in {"call", "result", "error"} -> e.id # "" /\ e.name # ""
      [] OTHER -> TRUE

\* The beginning of a stream.
WellFormed(s) ==
    \A i \in DOMAIN s :
        /\ s[i].type # "bad" /\ Identified(s[i])
        /\ Before(s, i, Terminal) = {}
        /\ IF s[i].type \in Terminal \cup {"step-start", "step-finish"}
           THEN StepInOrder(s, i) ELSE BlockInOrder(s, i)

\* A whole stream.
Complete(s) == s # <<>> /\ WellFormed(s) /\ s[Len(s)].type \in Terminal
==============================================================================
