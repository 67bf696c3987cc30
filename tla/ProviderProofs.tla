--------------------------- MODULE ProviderProofs ---------------------------
(****************************************************************************)
(* Proofs about the stream of a turn: the table of blocks of the validator  *)
(* accepts exactly the beginnings of streams, for every vocabulary, and the *)
(* sink of a turn sees one of them, whatever the server sends.              *)
(*                                                                          *)
(* Stands relates a validator to the events that it has accepted; it is     *)
(* the invariant of both specifications.                                    *)
(****************************************************************************)
EXTENDS ProviderTurn, StreamValidator, SequenceTheorems, TLAPS

\* The events of s that a later event of the block or tool id looks back at.
Past(s, id, types) == {j \in DOMAIN s : s[j].type \in types /\ s[j].id = id}

\* What the entry b of the table says of the events of its block.
Knows(b, s, id) ==
    /\ b = [kind |-> b.kind, name |-> b.name, closed |-> b.closed,
            called |-> b.called, settled |-> b.settled]
    /\ b.closed \in BOOLEAN /\ b.called \in BOOLEAN /\ b.settled \in BOOLEAN
    /\ b.closed <=> Past(s, id, {"end"}) # {} \/ Past(s, id, {"start"}) = {}
    /\ b.called <=> Past(s, id, {"call"}) # {}
    /\ b.settled <=> Past(s, id, {"result", "error"}) # {}
    /\ \A j \in Past(s, id, Opening) : s[j].name = b.name
    /\ \A j \in Past(s, id, {"start"}) : s[j].kind = b.kind
    /\ Past(s, id, {"start"}) = {} => b.kind = "tool-call"
    /\ b.kind = "tool-input" => b.name # ""

KnowsBlocks(v, s) ==
    /\ v.blocks = [id \in DOMAIN v.blocks |-> v.blocks[id]]
    /\ DOMAIN v.blocks = {s[j].id : j \in {k \in DOMAIN s : s[k].type \in Opening}}
    /\ \A j \in DOMAIN s : s[j].type \in {"end", "result", "error"} => s[j].id \in DOMAIN v.blocks
    /\ \A id \in DOMAIN v.blocks : Knows(v.blocks[id], s, id)

\* The step that is open is the last one that was started.
KnowsStep(v, s) ==
    \/ /\ v.step = NoStep
       /\ \A j \in DOMAIN s : s[j].type = "step-start" =>
            \E k \in DOMAIN s : k > j /\ s[k].type = "step-finish"
    \/ /\ v.step \in Nat
       /\ \E j \in DOMAIN s :
            /\ s[j].type = "step-start" /\ s[j].index = v.step
            /\ \A k \in DOMAIN s : k > j => s[k].type \notin {"step-start", "step-finish"}

Running(v, s) ==
    /\ v.terminal = FALSE
    /\ \A j \in DOMAIN s : s[j].type \in EventTypes \ (Terminal \cup {"bad"})
    /\ KnowsBlocks(v, s)
    /\ KnowsStep(v, s)

\* The validator v has accepted s, and refused nothing.
Stands(v, s) ==
    /\ v = [blocks |-> v.blocks, step |-> v.step, terminal |-> v.terminal]
    /\ WellFormed(s)
    /\ \/ Running(v, s)
       \/ v.terminal = TRUE /\ Complete(s)

\* What WellFormed asks of the event at position i.
Fits(s, i) ==
    /\ s[i].type # "bad" /\ Identified(s[i])
    /\ Before(s, i, Terminal) = {}
    /\ IF s[i].type \in Terminal \cup {"step-start", "step-finish"}
       THEN StepInOrder(s, i) ELSE BlockInOrder(s, i)

Known(e) == e.type \in EventTypes

------------------------------------------------------------------------------
(* The grammar, one event at a time.                                        *)

\* Whether an event fits depends on it and on what came before it.
LEMMA FitsDependsOnThePast ==
    ASSUME NEW i \in Nat \ {0}, NEW s, NEW t, \A j \in 1 .. i : s[j] = t[j], Known(s[i])
    PROVE  Fits(s, i) <=> Fits(t, i)
  <1>1. s[i] = t[i] /\ \A j \in 1 .. i - 1 : s[j] = t[j]
    OBVIOUS
  <1>2. ASSUME NEW types
        PROVE  Before(s, i, types) = Before(t, i, types)
    BY <1>1 DEF Before
  <1>3. ASSUME NEW types
        PROVE  OfBlock(s, i, types) = OfBlock(t, i, types)
    BY <1>1, <1>2 DEF OfBlock, Before
  <1>4. InStep(s, i) <=> InStep(t, i)
    BY <1>2 DEF InStep
  <1>5. AllEnded(s, i) <=> AllEnded(t, i)
    <2>1. \A j \in Before(s, i, {"start"}) \cup Before(s, i, {"end"}) : s[j] = t[j]
      BY <1>1 DEF Before
    <2> QED
      BY <1>2, <2>1 DEF AllEnded
  <1>6. CASE s[i].type \in Terminal \cup {"step-start", "step-finish"}
    <2>1. \A j \in Before(s, i, {"step-start"}) : s[j] = t[j]
      BY <1>1 DEF Before
    <2>2. StepInOrder(s, i) <=> StepInOrder(t, i)
      BY <1>1, <1>2, <1>4, <1>5, <1>6, <2>1 DEF StepInOrder, Terminal
    <2> QED
      BY <1>1, <1>2, <1>6, <2>2 DEF Fits
  <1>7. CASE s[i].type \notin Terminal \cup {"step-start", "step-finish"}
    <2>1. CASE s[i].type = "bad"
      BY <1>1, <2>1 DEF Fits
    <2>2. CASE s[i].type # "bad"
      <3>1. s[i].type \in {"start", "delta", "end", "call", "result", "error"}
        BY <1>7, <2>2 DEF Known, EventTypes
      <3>2. \A types : \A j \in OfBlock(s, i, types) : s[j] = t[j]
        BY <1>1 DEF OfBlock, Before
      <3>3. BlockInOrder(s, i) <=> BlockInOrder(t, i)
        BY <1>1, <1>3, <3>1, <3>2 DEF BlockInOrder
      <3> QED
        BY <1>1, <1>2, <1>7, <3>3 DEF Fits
    <2> QED
      BY <2>1, <2>2
  <1> QED
    BY <1>6, <1>7

\* A stream with one more event.
LEMMA OneMore ==
    ASSUME NEW S, NEW s \in Seq(S), NEW e \in S
    PROVE  /\ Append(s, e) \in Seq(S) /\ Len(s) \in Nat
           /\ Len(Append(s, e)) = Len(s) + 1
           /\ DOMAIN s = 1 .. Len(s) /\ DOMAIN Append(s, e) = 1 .. Len(s) + 1
           /\ Append(s, e)[Len(s) + 1] = e
           /\ \A j \in DOMAIN s : Append(s, e)[j] = s[j]
  OBVIOUS

\* The beginning of a stream, and an event that fits after it.
LEMMA WellFormedOneMore ==
    ASSUME NEW S, NEW s \in Seq(S), NEW e \in S, Known(e), \A j \in DOMAIN s : Known(s[j])
    PROVE  WellFormed(Append(s, e)) <=> WellFormed(s) /\ Fits(Append(s, e), Len(s) + 1)
  <1> DEFINE t == Append(s, e)
  <1>1. \A i \in DOMAIN s : Fits(s, i) <=> Fits(t, i)
    <2> SUFFICES ASSUME NEW i \in DOMAIN s
                 PROVE  Fits(s, i) <=> Fits(t, i)
      OBVIOUS
    <2>1. i \in Nat \ {0} /\ \A j \in 1 .. i : s[j] = t[j]
      BY OneMore
    <2> QED
      BY <2>1, FitsDependsOnThePast
  <1>2. DOMAIN t = DOMAIN s \cup {Len(s) + 1}
    BY OneMore
  <1>3. \A r : WellFormed(r) <=> \A i \in DOMAIN r : Fits(r, i)
    BY DEF WellFormed, Fits
  <1> HIDE DEF t
  <1>4. WellFormed(t) <=> WellFormed(s) /\ Fits(t, Len(s) + 1)
    BY <1>1, <1>2, <1>3
  <1> QED
    BY <1>4 DEF t

\* What the last event of a stream looks back at.
LEMMA LookingBack ==
    ASSUME NEW S, NEW s \in Seq(S), NEW e \in S, NEW types
    PROVE  LET t == Append(s, e)
               n == Len(s) + 1
           IN  /\ Before(t, n, types) = {j \in DOMAIN s : s[j].type \in types}
               /\ OfBlock(t, n, types) = Past(s, e.id, types)
  <1> DEFINE t == Append(s, e)
             n == Len(s) + 1
  <1>1. 1 .. n - 1 = DOMAIN s /\ t[n] = e /\ \A j \in DOMAIN s : t[j] = s[j]
    BY OneMore
  <1> HIDE DEF t, n
  <1>2. Before(t, n, types) = {j \in DOMAIN s : s[j].type \in types}
    BY <1>1 DEF Before
  <1>3. OfBlock(t, n, types) = Past(s, e.id, types)
    BY <1>1, <1>2 DEF OfBlock, Past
  <1> QED
    BY <1>2, <1>3 DEF t, n

------------------------------------------------------------------------------
(* The validator accepts exactly the events that fit.                       *)

\* The fits of an event that the grammar asks of its block alone.
LEMMA BlockFits ==
    ASSUME NEW S, NEW s \in Seq(S), NEW e \in S, NEW v, Running(v, s),
           e.type \in {"start", "delta", "end", "call", "result", "error"}
    PROVE  Fits(Append(s, e), Len(s) + 1)
              <=> Identified(e) /\ BlockInOrder(Append(s, e), Len(s) + 1)
  <1>1. Append(s, e)[Len(s) + 1] = e
    BY OneMore
  <1>2. Before(Append(s, e), Len(s) + 1, Terminal) = {j \in DOMAIN s : s[j].type \in Terminal}
    BY LookingBack
  <1>3. Before(Append(s, e), Len(s) + 1, Terminal) = {}
    BY <1>2 DEF Running
  <1> QED
    BY <1>1, <1>3 DEF Fits, Terminal

\* A block is known exactly if it has been opened.
LEMMA KnownBlocks ==
    ASSUME NEW v, NEW s, NEW id, KnowsBlocks(v, s)
    PROVE  id \in DOMAIN v.blocks <=> Past(s, id, Opening) # {}
  BY DEF KnowsBlocks, Past

LEMMA StartIsExact ==
    ASSUME NEW S, NEW s \in Seq(S), NEW e \in S, NEW v, Running(v, s), e.type = "start"
    PROVE  StartBlock(v, e) <=> Fits(Append(s, e), Len(s) + 1)
  <1> DEFINE t == Append(s, e)
             n == Len(s) + 1
  <1>1. t[n] = e /\ OfBlock(t, n, Opening) = Past(s, e.id, Opening)
    BY OneMore, LookingBack
  <1> HIDE DEF t, n
  <1>2. BlockInOrder(t, n) <=> Past(s, e.id, Opening) = {}
    BY <1>1 DEF BlockInOrder
  <1>3. BlockInOrder(t, n) <=> e.id \notin DOMAIN v.blocks
    BY <1>2, KnownBlocks DEF Running
  <1>4. StartBlock(v, e) <=> Identified(e) /\ BlockInOrder(t, n)
    BY <1>3 DEF StartBlock, Identified
  <1> QED
    BY <1>4, BlockFits DEF t, n

LEMMA InBlockIsExact ==
    ASSUME NEW S, NEW s \in Seq(S), NEW e \in S, NEW v, Running(v, s),
           e.type \in {"delta", "end"}
    PROVE  InBlock(v, e) <=> Fits(Append(s, e), Len(s) + 1)
  <1> DEFINE t == Append(s, e)
             n == Len(s) + 1
  <1>1. /\ t[n] = e /\ \A j \in DOMAIN s : t[j] = s[j]
        /\ OfBlock(t, n, Opening) = Past(s, e.id, Opening)
        /\ OfBlock(t, n, {"end"}) = Past(s, e.id, {"end"})
    BY OneMore, LookingBack
  <1>2. Past(s, e.id, {"start"}) = {j \in Past(s, e.id, Opening) : s[j].type = "start"}
    BY DEF Past, Opening
  <1>3. Past(s, e.id, Opening) \subseteq DOMAIN s
    BY DEF Past
  <1> HIDE DEF t, n
  <1>4. BlockInOrder(t, n) <=>
            /\ \E j \in Past(s, e.id, {"start"}) :
                /\ s[j].kind = e.kind
                /\ e.kind = "tool-input" /\ e.name # "" => s[j].name = e.name
            /\ e.type = "delta" /\ e.kind = "tool-input" => e.name # ""
            /\ Past(s, e.id, {"end"}) = {}
    <2>1. BlockInOrder(t, n) <=>
            /\ \E j \in Past(s, e.id, Opening) :
                /\ t[j].type = "start" /\ t[j].kind = e.kind
                /\ e.kind = "tool-input" /\ e.name # "" => t[j].name = e.name
            /\ e.type = "delta" /\ e.kind = "tool-input" => e.name # ""
            /\ Past(s, e.id, {"end"}) = {}
      <3>1. CASE e.type = "delta"
        BY <1>1, <3>1 DEF BlockInOrder
      <3>2. CASE e.type = "end"
        BY <1>1, <3>2 DEF BlockInOrder
      <3> QED
        BY <3>1, <3>2
    <2>2. \A j \in Past(s, e.id, Opening) : t[j] = s[j]
      BY <1>1, <1>3
    <2> QED
      BY <1>2, <2>1, <2>2
  <1>5. CASE e.id \notin DOMAIN v.blocks
    <2>1. Past(s, e.id, Opening) = {}
      BY <1>5, KnownBlocks DEF Running
    <2>2. ~BlockInOrder(t, n)
      BY <1>2, <1>4, <2>1
    <2> QED
      BY <1>5, <2>2, BlockFits DEF InBlock, t, n
  <1>6. CASE e.id \in DOMAIN v.blocks
    <2> DEFINE b == v.blocks[e.id]
    <2>1. Knows(b, s, e.id)
      BY <1>6 DEF Running, KnowsBlocks
    <2> HIDE DEF b
    <2>2. \A j \in Past(s, e.id, {"start"}) : s[j].kind = b.kind /\ s[j].name = b.name
      BY <1>2, <2>1 DEF Knows
    <2>3. ~b.closed <=> Past(s, e.id, {"end"}) = {} /\ Past(s, e.id, {"start"}) # {}
      BY <2>1 DEF Knows
    <2>4. BlockInOrder(t, n) <=>
            /\ b.kind = e.kind /\ ~b.closed
            /\ e.kind = "tool-input" /\ e.name # "" => b.name = e.name
            /\ e.type = "delta" /\ e.kind = "tool-input" => e.name # ""
      BY <1>4, <2>2, <2>3
    <2>5. InBlock(v, e) <=>
            /\ b.kind = e.kind /\ ~b.closed
            /\ e.kind = "tool-input" => e.name = b.name \/ (e.type = "end" /\ e.name = "")
      BY <1>6 DEF InBlock, b
    <2>6. Identified(e)
      BY DEF Identified
    <2>7. Fits(t, n) <=> BlockInOrder(t, n)
      BY <2>6, BlockFits DEF t, n
    <2>8. b.kind = "tool-input" => b.name # ""
      BY <2>1 DEF Knows
    <2>9. InBlock(v, e) <=> BlockInOrder(t, n)
      BY <2>4, <2>5, <2>8
    <2> QED
      BY <2>7, <2>9 DEF t, n
  <1> QED
    BY <1>5, <1>6

LEMMA CallIsExact ==
    ASSUME NEW S, NEW s \in Seq(S), NEW e \in S, NEW v, Running(v, s), e.type = "call"
    PROVE  ToolCall(v, e) <=> Fits(Append(s, e), Len(s) + 1)
  <1> DEFINE t == Append(s, e)
             n == Len(s) + 1
  <1>1. /\ t[n] = e /\ \A j \in DOMAIN s : t[j] = s[j]
        /\ OfBlock(t, n, Opening) = Past(s, e.id, Opening)
        /\ OfBlock(t, n, {"end"}) = Past(s, e.id, {"end"})
        /\ OfBlock(t, n, {"call"}) = Past(s, e.id, {"call"})
    BY OneMore, LookingBack
  <1>2. /\ Past(s, e.id, Opening) = Past(s, e.id, {"start"}) \cup Past(s, e.id, {"call"})
        /\ Past(s, e.id, Opening) \subseteq DOMAIN s
    BY DEF Past, Opening
  <1> HIDE DEF t, n
  <1>3. BlockInOrder(t, n) <=>
            \/ Past(s, e.id, Opening) = {}
            \/ /\ Past(s, e.id, {"call"}) = {} /\ Past(s, e.id, {"end"}) # {}
               /\ \A j \in Past(s, e.id, Opening) : s[j].kind = "tool-input" /\ s[j].name = e.name
    <2>1. BlockInOrder(t, n) <=>
            \/ Past(s, e.id, Opening) = {}
            \/ /\ Past(s, e.id, {"call"}) = {} /\ Past(s, e.id, {"end"}) # {}
               /\ \A j \in Past(s, e.id, Opening) : t[j].kind = "tool-input" /\ t[j].name = e.name
      BY <1>1 DEF BlockInOrder
    <2>2. \A j \in Past(s, e.id, Opening) : t[j] = s[j]
      BY <1>1, <1>2
    <2> QED
      BY <2>1, <2>2
  <1>4. ASSUME e.id \in DOMAIN v.blocks
        PROVE  BlockInOrder(t, n) <=>
                  LET b == v.blocks[e.id] IN
                  b.kind = "tool-input" /\ b.closed /\ ~b.called /\ b.name = e.name
    <2> DEFINE b == v.blocks[e.id]
    <2>1. Knows(b, s, e.id)
      BY <1>4 DEF Running, KnowsBlocks
    <2>2. Past(s, e.id, Opening) # {}
      BY <1>4, KnownBlocks DEF Running
    <2> HIDE DEF b
    <2>3. /\ ~b.called <=> Past(s, e.id, {"call"}) = {}
          /\ b.closed <=> Past(s, e.id, {"end"}) # {} \/ Past(s, e.id, {"start"}) = {}
          /\ \A j \in Past(s, e.id, Opening) : s[j].name = b.name
          /\ \A j \in Past(s, e.id, {"start"}) : s[j].kind = b.kind
          /\ Past(s, e.id, {"start"}) = {} => b.kind = "tool-call"
      BY <2>1 DEF Knows
    <2>4. BlockInOrder(t, n) <=>
            b.kind = "tool-input" /\ b.closed /\ ~b.called /\ b.name = e.name
      BY <1>2, <1>3, <2>2, <2>3
    <2> QED
      BY <2>4 DEF b
  <1>5. ASSUME e.id \notin DOMAIN v.blocks
        PROVE  BlockInOrder(t, n)
    BY <1>3, <1>5, KnownBlocks DEF Running
  <1>6. ToolCall(v, e) <=> Identified(e) /\ BlockInOrder(t, n)
    BY <1>4, <1>5 DEF ToolCall, Identified
  <1> QED
    BY <1>6, BlockFits DEF t, n

LEMMA ResultIsExact ==
    ASSUME NEW S, NEW s \in Seq(S), NEW e \in S, NEW v, Running(v, s),
           e.type \in {"result", "error"}
    PROVE  ToolTerminal(v, e) <=> Fits(Append(s, e), Len(s) + 1)
  <1> DEFINE t == Append(s, e)
             n == Len(s) + 1
  <1>1. /\ t[n] = e /\ \A j \in DOMAIN s : t[j] = s[j]
        /\ OfBlock(t, n, {"call"}) = Past(s, e.id, {"call"})
        /\ OfBlock(t, n, {"result", "error"}) = Past(s, e.id, {"result", "error"})
    BY OneMore, LookingBack
  <1>2. /\ Past(s, e.id, {"call"}) \subseteq Past(s, e.id, Opening)
        /\ Past(s, e.id, {"call"}) \subseteq DOMAIN s
    BY DEF Past, Opening
  <1> HIDE DEF t, n
  <1>3. BlockInOrder(t, n) <=>
            /\ \E j \in Past(s, e.id, {"call"}) : s[j].name = e.name
            /\ Past(s, e.id, {"result", "error"}) = {}
    <2>1. BlockInOrder(t, n) <=>
            /\ \E j \in Past(s, e.id, {"call"}) : t[j].name = e.name
            /\ Past(s, e.id, {"result", "error"}) = {}
      <3>1. CASE e.type = "result"
        BY <1>1, <3>1 DEF BlockInOrder
      <3>2. CASE e.type = "error"
        BY <1>1, <3>2 DEF BlockInOrder
      <3> QED
        BY <3>1, <3>2
    <2> QED
      BY <1>1, <1>2, <2>1
  <1>4. ASSUME e.id \in DOMAIN v.blocks
        PROVE  BlockInOrder(t, n) <=>
                  LET b == v.blocks[e.id] IN b.called /\ ~b.settled /\ b.name = e.name
    <2> DEFINE b == v.blocks[e.id]
    <2>1. Knows(b, s, e.id)
      BY <1>4 DEF Running, KnowsBlocks
    <2> HIDE DEF b
    <2>2. /\ b.called <=> Past(s, e.id, {"call"}) # {}
          /\ ~b.settled <=> Past(s, e.id, {"result", "error"}) = {}
          /\ \A j \in Past(s, e.id, Opening) : s[j].name = b.name
      BY <2>1 DEF Knows
    <2>3. BlockInOrder(t, n) <=> b.called /\ ~b.settled /\ b.name = e.name
      BY <1>2, <1>3, <2>2
    <2> QED
      BY <2>3 DEF b
  <1>5. ASSUME e.id \notin DOMAIN v.blocks
        PROVE  ~BlockInOrder(t, n)
    BY <1>2, <1>3, <1>5, KnownBlocks DEF Running
  <1>6. ToolTerminal(v, e) <=> Identified(e) /\ BlockInOrder(t, n)
    BY <1>4, <1>5 DEF ToolTerminal, Identified
  <1> QED
    BY <1>6, BlockFits DEF t, n

------------------------------------------------------------------------------
\* The table has an open block exactly if one that was started has not ended.
LEMMA OpenBlocks ==
    ASSUME NEW S, NEW s \in Seq(S), NEW e \in S, NEW v, Running(v, s)
    PROVE  NoOpenBlocks(v) <=> AllEnded(Append(s, e), Len(s) + 1)
  <1> DEFINE t == Append(s, e)
             n == Len(s) + 1
  <1>1. /\ \A j \in DOMAIN s : t[j] = s[j]
        /\ Before(t, n, {"start"}) = {j \in DOMAIN s : s[j].type = "start"}
        /\ Before(t, n, {"end"}) = {j \in DOMAIN s : s[j].type = "end"}
    <2>1. /\ Before(t, n, {"start"}) = {j \in DOMAIN s : s[j].type \in {"start"}}
          /\ Before(t, n, {"end"}) = {j \in DOMAIN s : s[j].type \in {"end"}}
      BY LookingBack
    <2> QED
      BY <2>1, OneMore
  <1> HIDE DEF t, n
  <1>2. AllEnded(t, n) <=> \A j \in DOMAIN s : s[j].type = "start" => Past(s, s[j].id, {"end"}) # {}
    BY <1>1 DEF AllEnded, Past
  <1>3. \A id \in DOMAIN v.blocks :
            v.blocks[id].closed <=> Past(s, id, {"end"}) # {} \/ Past(s, id, {"start"}) = {}
    BY DEF Running, KnowsBlocks, Knows
  <1>4. \A j \in DOMAIN s : s[j].type = "start" =>
            s[j].id \in DOMAIN v.blocks /\ j \in Past(s, s[j].id, {"start"})
    BY DEF Running, KnowsBlocks, Past, Opening
  <1>5. ASSUME NoOpenBlocks(v)
        PROVE  AllEnded(t, n)
    BY <1>2, <1>3, <1>4, <1>5 DEF NoOpenBlocks
  <1>6. ASSUME AllEnded(t, n), NEW id \in DOMAIN v.blocks
        PROVE  v.blocks[id].closed
    <2>1. \A j \in Past(s, id, {"start"}) : j \in DOMAIN s /\ s[j].type = "start" /\ s[j].id = id
      BY DEF Past
    <2> QED
      BY <1>2, <1>3, <1>6, <2>1
  <1> QED
    BY <1>5, <1>6 DEF NoOpenBlocks, t, n

\* There is an open step exactly if the last step that was started is the one
\* that the validator has in mind.
LEMMA OpenStep ==
    ASSUME NEW S, NEW s \in Seq(S), NEW e \in S, NEW v, Running(v, s)
    PROVE  LET t == Append(s, e)
               n == Len(s) + 1
           IN  /\ v.step \in Nat \cup {NoStep}
               /\ InStep(t, n) <=> v.step # NoStep
               /\ v.step # NoStep =>
                    \E j \in Before(t, n, {"step-start"}) :
                        /\ t[j].index = v.step
                        /\ \A k \in Before(t, n, {"step-start"}) : k <= j
  <1> DEFINE t == Append(s, e)
             n == Len(s) + 1
  <1>1. /\ \A j \in DOMAIN s : t[j] = s[j]
        /\ DOMAIN s = 1 .. Len(s) /\ Len(s) \in Nat
        /\ Before(t, n, {"step-start"}) = {j \in DOMAIN s : s[j].type = "step-start"}
        /\ Before(t, n, {"step-finish"}) = {j \in DOMAIN s : s[j].type = "step-finish"}
    <2>1. /\ Before(t, n, {"step-start"}) = {j \in DOMAIN s : s[j].type \in {"step-start"}}
          /\ Before(t, n, {"step-finish"}) = {j \in DOMAIN s : s[j].type \in {"step-finish"}}
      BY LookingBack
    <2> QED
      BY <2>1, OneMore
  <1> HIDE DEF t, n
  <1>2. InStep(t, n) <=> \E j \in DOMAIN s : s[j].type = "step-start" /\
            ~ \E k \in DOMAIN s : s[k].type = "step-finish" /\ k > j
    BY <1>1 DEF InStep
  <1>3. NoStep \notin Nat
    BY DEF NoStep
  <1>4. CASE /\ v.step = NoStep
             /\ \A j \in DOMAIN s : s[j].type = "step-start" =>
                    \E k \in DOMAIN s : k > j /\ s[k].type = "step-finish"
    BY <1>2, <1>4 DEF t, n
  <1>5. CASE /\ v.step \in Nat
             /\ \E j \in DOMAIN s :
                    /\ s[j].type = "step-start" /\ s[j].index = v.step
                    /\ \A k \in DOMAIN s : k > j => s[k].type \notin {"step-start", "step-finish"}
    <2>1. PICK j \in DOMAIN s :
                /\ s[j].type = "step-start" /\ s[j].index = v.step
                /\ \A k \in DOMAIN s : k > j => s[k].type \notin {"step-start", "step-finish"}
      BY <1>5
    <2>2. InStep(t, n)
      BY <1>2, <2>1
    <2>3. \A k \in Before(t, n, {"step-start"}) : k <= j
      BY <1>1, <2>1
    <2> QED
      BY <1>1, <1>3, <1>5, <2>1, <2>2, <2>3 DEF t, n
  <1> QED
    BY <1>4, <1>5 DEF Running, KnowsStep

\* What the grammar asks of the events of a turn and its steps.
LEMMA TurnIsExact ==
    ASSUME NEW S, NEW s \in Seq(S), NEW e \in S, NEW v, Running(v, s),
           e.type \in Terminal \cup {"step-start", "step-finish"}
    PROVE  StepStart(v, e) \/ StepFinish(v, e) \/ FinishTurn(v, e)
              <=> Fits(Append(s, e), Len(s) + 1)
  <1> DEFINE t == Append(s, e)
             n == Len(s) + 1
  <1>1. t[n] = e
    BY OneMore
  <1>2. Before(t, n, Terminal) = {j \in DOMAIN s : s[j].type \in Terminal}
    BY LookingBack
  <1>3. Before(t, n, Terminal) = {}
    BY <1>2 DEF Running
  <1>4. NoOpenBlocks(v) <=> AllEnded(t, n)
    BY OpenBlocks
  <1>5. /\ v.step \in Nat \cup {NoStep}
        /\ InStep(t, n) <=> v.step # NoStep
        /\ v.step # NoStep =>
             \E j \in Before(t, n, {"step-start"}) :
                /\ t[j].index = v.step
                /\ \A k \in Before(t, n, {"step-start"}) : k <= j
    BY OpenStep
  <1>6. Before(t, n, {"step-start"}) \subseteq Nat
    BY OneMore DEF Before
  <1> HIDE DEF t, n
  <1>7. Fits(t, n) <=> Identified(e) /\ StepInOrder(t, n)
    BY <1>1, <1>3 DEF Fits, Terminal
  <1>8. CASE e.type = "step-start"
    BY <1>1, <1>5, <1>7, <1>8 DEF StepStart, StepFinish, FinishTurn, Identified, StepInOrder, t, n
  <1>9. CASE e.type = "step-finish"
    <2>1. v.step # NoStep =>
             ((\E j \in Before(t, n, {"step-start"}) :
                    t[j].index = e.index /\ \A k \in Before(t, n, {"step-start"}) : k <= j)
                <=> e.index = v.step)
      BY <1>5, <1>6
    <2>2. StepInOrder(t, n) <=> v.step # NoStep /\ NoOpenBlocks(v) /\ e.index = v.step
      BY <1>1, <1>4, <1>5, <1>9, <2>1 DEF StepInOrder
    <2> QED
      BY <1>7, <1>9, <2>2 DEF StepStart, StepFinish, FinishTurn, Identified, t, n
  <1>10. CASE e.type = "finish"
    BY <1>1, <1>4, <1>5, <1>7, <1>10
    DEF StepStart, StepFinish, FinishTurn, Identified, StepInOrder, t, n
  <1>11. CASE e.type = "provider-error"
    BY <1>1, <1>7, <1>11 DEF StepStart, StepFinish, FinishTurn, Identified, StepInOrder, t, n
  <1> QED
    BY <1>8, <1>9, <1>10, <1>11 DEF Terminal

\* The validator accepts an event exactly if it fits after those before it.
LEMMA AcceptsIsExact ==
    ASSUME NEW S, NEW s \in Seq(S), NEW e \in S, NEW v, Running(v, s), Known(e)
    PROVE  Accepts(v, e) <=> Fits(Append(s, e), Len(s) + 1)
  <1> DEFINE fits == Fits(Append(s, e), Len(s) + 1)
  <1> HIDE DEF fits
  <1>1. ~v.terminal
    BY DEF Running
  <1>2. CASE e.type = "start"
    <2>1. Accepts(v, e) <=> StartBlock(v, e)
      BY <1>1, <1>2 DEF Accepts, StartBlock, InBlock, ToolCall, ToolTerminal,
             StepStart, StepFinish, FinishTurn
    <2> QED
      BY <1>2, <2>1, StartIsExact DEF fits
  <1>3. CASE e.type \in {"delta", "end"}
    <2>1. Accepts(v, e) <=> InBlock(v, e)
      BY <1>1, <1>3 DEF Accepts, StartBlock, InBlock, ToolCall, ToolTerminal,
             StepStart, StepFinish, FinishTurn
    <2> QED
      BY <1>3, <2>1, InBlockIsExact DEF fits
  <1>4. CASE e.type = "call"
    <2>1. Accepts(v, e) <=> ToolCall(v, e)
      BY <1>1, <1>4 DEF Accepts, StartBlock, InBlock, ToolCall, ToolTerminal,
             StepStart, StepFinish, FinishTurn
    <2> QED
      BY <1>4, <2>1, CallIsExact DEF fits
  <1>5. CASE e.type \in {"result", "error"}
    <2>1. Accepts(v, e) <=> ToolTerminal(v, e)
      BY <1>1, <1>5 DEF Accepts, StartBlock, InBlock, ToolCall, ToolTerminal,
             StepStart, StepFinish, FinishTurn
    <2> QED
      BY <1>5, <2>1, ResultIsExact DEF fits
  <1>6. CASE e.type \in Terminal \cup {"step-start", "step-finish"}
    <2>1. Accepts(v, e) <=> StepStart(v, e) \/ StepFinish(v, e) \/ FinishTurn(v, e)
      BY <1>1, <1>6 DEF Accepts, Terminal, StartBlock, InBlock, ToolCall, ToolTerminal,
             StepStart, StepFinish, FinishTurn
    <2> QED
      BY <1>6, <2>1, TurnIsExact DEF fits
  <1>7. CASE e.type = "bad"
    <2>1. ~Accepts(v, e)
      BY <1>7 DEF Accepts, StartBlock, InBlock, ToolCall, ToolTerminal,
             StepStart, StepFinish, FinishTurn
    <2>2. ~fits
      BY <1>7, OneMore DEF Fits, fits
    <2> QED
      BY <2>1, <2>2 DEF fits
  <1> QED
    BY <1>2, <1>3, <1>4, <1>5, <1>6, <1>7 DEF Known, EventTypes

\* An event is accepted for what its type says.
LEMMA AcceptedTypes ==
    ASSUME NEW v, NEW e, Accepts(v, e)
    PROVE  e.type \in EventTypes \ {"bad"} /\ ~v.terminal
  BY DEF Accepts, StartBlock, InBlock, ToolCall, ToolTerminal, StepStart, StepFinish,
         FinishTurn, EventTypes, Terminal

------------------------------------------------------------------------------
(* The validator goes on as the stream does.                                *)

\* What one more event adds to the past of a block.
LEMMA OneMorePast ==
    ASSUME NEW S, NEW s \in Seq(S), NEW e \in S, NEW id, NEW types
    PROVE  Past(Append(s, e), id, types) =
              Past(s, id, types)
              \cup (IF e.type \in types /\ e.id = id THEN {Len(s) + 1} ELSE {})
  <1> DEFINE t == Append(s, e)
  <1>1. /\ DOMAIN t = DOMAIN s \cup {Len(s) + 1} /\ t[Len(s) + 1] = e
        /\ \A j \in DOMAIN s : t[j] = s[j]
    BY OneMore
  <1> HIDE DEF t
  <1>2. Past(t, id, types) = {j \in DOMAIN s : s[j].type \in types /\ s[j].id = id}
              \cup (IF e.type \in types /\ e.id = id THEN {Len(s) + 1} ELSE {})
    BY <1>1 DEF Past
  <1> QED
    BY <1>2 DEF Past, t

\* An event of another block, or of none, changes nothing of what is known.
LEMMA OthersKnow ==
    ASSUME NEW S, NEW s \in Seq(S), NEW e \in S, NEW b, NEW id, Knows(b, s, id),
           \/ e.type \in {"step-start", "step-finish"}
           \/ e.id # id
    PROVE  Knows(b, Append(s, e), id)
  <1> DEFINE t == Append(s, e)
  <1>1. ASSUME NEW types, "step-start" \notin types, "step-finish" \notin types
        PROVE  Past(t, id, types) = Past(s, id, types)
    <2>1. ~(e.type \in types /\ e.id = id)
      BY <1>1
    <2>2. Past(t, id, types) = Past(s, id, types)
              \cup (IF e.type \in types /\ e.id = id THEN {Len(s) + 1} ELSE {})
      BY OneMorePast
    <2> QED
      BY <2>1, <2>2
  <1>2. /\ Past(t, id, {"start"}) = Past(s, id, {"start"})
        /\ Past(t, id, {"end"}) = Past(s, id, {"end"})
        /\ Past(t, id, {"call"}) = Past(s, id, {"call"})
        /\ Past(t, id, {"result", "error"}) = Past(s, id, {"result", "error"})
        /\ Past(t, id, Opening) = Past(s, id, Opening)
    BY <1>1 DEF Opening
  <1>3. \A j \in Past(s, id, {"start"}) \cup Past(s, id, Opening) : t[j] = s[j]
    BY OneMore DEF Past
  <1> HIDE DEF t
  <1>4. Knows(b, t, id)
    BY <1>2, <1>3 DEF Knows
  <1> QED
    BY <1>4 DEF t

\* The block of an accepted event is known as it is left behind.
LEMMA ItsBlockKnows ==
    ASSUME NEW S, NEW s \in Seq(S), NEW e \in S, NEW v, Running(v, s), Accepts(v, e),
           e.type \in {"start", "delta", "end", "call", "result", "error"}
    PROVE  Knows(BlockAfter(v, e), Append(s, e), e.id)
  <1> DEFINE t == Append(s, e)
             b == BlockAfter(v, e)
             n == Len(s) + 1
             id == e.id
             Was(types) == Past(s, id, types)
             Is(types) == Past(t, id, types)
  <1>1. /\ t[n] = e /\ n \notin DOMAIN s
        /\ \A types : \A j \in Was(types) : t[j] = s[j] /\ j \in DOMAIN s
    BY OneMore DEF Past
  <1>2. \A types : Is(types) = Was(types) \cup (IF e.type \in types THEN {n} ELSE {})
    BY OneMorePast
  <1>3. Was(Opening) = Was({"start"}) \cup Was({"call"})
    BY DEF Past, Opening
  <1>4. id \in DOMAIN v.blocks <=> Was(Opening) # {}
    BY KnownBlocks DEF Running
  <1>5. id \in DOMAIN v.blocks => Knows(v.blocks[id], s, id)
    BY DEF Running, KnowsBlocks
  <1>6. e.type \notin {"start", "call"} => id \in DOMAIN v.blocks
    BY DEF Accepts, StartBlock, InBlock, ToolCall, ToolTerminal, StepStart, StepFinish, FinishTurn
  <1>7. Is(Opening) = Is({"start"}) \cup Is({"call"})
    BY DEF Past, Opening
  <1> HIDE DEF t, n, id, b, Was, Is
  <1> USE DEF StartBlock, InBlock, ToolCall, ToolTerminal, StepStart, StepFinish, FinishTurn
  <1>8. CASE id \notin DOMAIN v.blocks
    <2>1. /\ Was({"start"}) = {} /\ Was({"call"}) = {} /\ Was({"end"}) = {}
          /\ Was({"result", "error"}) = {}
      BY <1>3, <1>4, <1>8 DEF Running, KnowsBlocks, Past, Was, id
    <2>2. CASE e.type = "start"
      <3>1. b = [kind |-> e.kind, name |-> e.name, closed |-> FALSE, called |-> FALSE,
                 settled |-> FALSE]
        BY <1>8, <2>2 DEF BlockAfter, b, id
      <3>2. /\ Is({"start"}) = {n} /\ Is({"call"}) = {} /\ Is({"end"}) = {}
            /\ Is({"result", "error"}) = {} /\ Is(Opening) = {n}
        BY <1>2, <1>7, <2>1, <2>2
      <3>3. e.kind = "tool-input" => e.name # ""
        BY <2>2 DEF Accepts, Terminal
      <3>4. \A j \in {n} : t[j].name = b.name /\ t[j].kind = b.kind
        BY <1>1, <3>1
      <3>5. /\ b = [kind |-> b.kind, name |-> b.name, closed |-> b.closed,
                    called |-> b.called, settled |-> b.settled]
            /\ b.closed = FALSE /\ b.called = FALSE /\ b.settled = FALSE
            /\ b.kind = "tool-input" => b.name # ""
        BY <3>1, <3>3
      <3> QED
        BY <3>2, <3>4, <3>5 DEF Knows, t, id, b, Is
    <2>3. CASE e.type = "call"
      <3>1. b = [kind |-> "tool-call", name |-> e.name, closed |-> TRUE, called |-> TRUE,
                 settled |-> FALSE]
        BY <1>8, <2>3 DEF BlockAfter, b, id
      <3>2. /\ Is({"start"}) = {} /\ Is({"call"}) = {n} /\ Is({"end"}) = {}
            /\ Is({"result", "error"}) = {} /\ Is(Opening) = {n}
        BY <1>2, <1>7, <2>1, <2>3
      <3> QED
        BY <1>1, <3>1, <3>2 DEF Knows, t, n, id, b, Is
    <2> QED
      BY <1>6, <1>8, <2>2, <2>3
  <1>9. CASE id \in DOMAIN v.blocks
    <2> DEFINE old == v.blocks[id]
    <2>1. /\ old = [kind |-> old.kind, name |-> old.name, closed |-> old.closed,
                    called |-> old.called, settled |-> old.settled]
          /\ old.closed \in BOOLEAN /\ old.called \in BOOLEAN /\ old.settled \in BOOLEAN
          /\ old.closed <=> Was({"end"}) # {} \/ Was({"start"}) = {}
          /\ old.called <=> Was({"call"}) # {}
          /\ old.settled <=> Was({"result", "error"}) # {}
          /\ \A j \in Was(Opening) : s[j].name = old.name
          /\ \A j \in Was({"start"}) : s[j].kind = old.kind
          /\ Was({"start"}) = {} => old.kind = "tool-call"
          /\ old.kind = "tool-input" => old.name # ""
      BY <1>5, <1>9 DEF Knows, Was
    <2>2. /\ e.type = "call" => old.kind = "tool-input" /\ old.closed /\ old.name = e.name
          /\ e.type # "start"
      BY <1>9 DEF Accepts, Terminal, id
    <2> HIDE DEF old
    <2>3. b = [kind |-> old.kind, name |-> old.name,
               closed |-> old.closed \/ e.type = "end",
               called |-> old.called \/ e.type = "call",
               settled |-> old.settled \/ e.type \in {"result", "error"}]
      <3>1. b = CASE e.type = "end" -> [old EXCEPT !.closed = TRUE]
                  [] e.type = "call" -> [old EXCEPT !.called = TRUE]
                  [] e.type \in {"result", "error"} -> [old EXCEPT !.settled = TRUE]
                  [] OTHER -> old
        BY <1>9 DEF BlockAfter, b, id, old
      <3>2. CASE e.type = "end"
        BY <2>1, <3>1, <3>2
      <3>3. CASE e.type = "call"
        BY <2>1, <3>1, <3>3
      <3>4. CASE e.type \in {"result", "error"}
        BY <2>1, <3>1, <3>4
      <3>5. CASE e.type = "delta"
        BY <2>1, <3>1, <3>5
      <3> QED
        BY <2>2, <3>2, <3>3, <3>4, <3>5
    <2>4. /\ Is({"start"}) = Was({"start"})
          /\ Is({"end"}) = Was({"end"}) \cup (IF e.type = "end" THEN {n} ELSE {})
          /\ Is({"call"}) = Was({"call"}) \cup (IF e.type = "call" THEN {n} ELSE {})
          /\ Is({"result", "error"}) =
                Was({"result", "error"}) \cup (IF e.type \in {"result", "error"} THEN {n} ELSE {})
          /\ Is(Opening) = Was(Opening) \cup (IF e.type = "call" THEN {n} ELSE {})
      BY <1>2, <2>2 DEF Opening
    <2>5. /\ \A j \in Is({"start"}) : t[j].kind = old.kind
          /\ \A j \in Is(Opening) : t[j].name = old.name
      <3>1. \A j \in Was({"start"}) : t[j].kind = old.kind
        BY <1>1, <2>1
      <3>2. \A j \in Was(Opening) : t[j].name = old.name
        BY <1>1, <2>1
      <3>3. e.type = "call" => t[n].name = old.name
        BY <1>1, <2>2
      <3> QED
        BY <2>4, <3>1, <3>2, <3>3
    <2>6. /\ b = [kind |-> b.kind, name |-> b.name, closed |-> b.closed,
                  called |-> b.called, settled |-> b.settled]
          /\ b.closed \in BOOLEAN /\ b.called \in BOOLEAN /\ b.settled \in BOOLEAN
      BY <2>1, <2>3
    <2>7. /\ b.closed <=> Is({"end"}) # {} \/ Is({"start"}) = {}
          /\ b.called <=> Is({"call"}) # {}
          /\ b.settled <=> Is({"result", "error"}) # {}
      BY <2>1, <2>3, <2>4
    <2>8. /\ b.kind = old.kind /\ b.name = old.name
      BY <2>3
    <2> QED
      BY <2>1, <2>4, <2>5, <2>6, <2>7, <2>8 DEF Knows, t, id, b, Is
  <1> QED
    BY <1>8, <1>9

LEMMA AcceptKnowsBlocks ==
    ASSUME NEW S, NEW s \in Seq(S), NEW e \in S, NEW v, Running(v, s), Accepts(v, e),
           e.type \in {"start", "delta", "end", "call", "result", "error"},
           NEW w, w.blocks = WithBlock(v.blocks, e.id, BlockAfter(v, e))
    PROVE  KnowsBlocks(w, Append(s, e))
  <1> DEFINE t == Append(s, e)
             n == Len(s) + 1
             b == BlockAfter(v, e)
  <1>1. /\ DOMAIN t = DOMAIN s \cup {n} /\ t[n] = e
        /\ \A j \in DOMAIN s : t[j] = s[j]
    BY OneMore
  <1>2. Knows(b, t, e.id)
    BY ItsBlockKnows
  <1>3. \A id \in DOMAIN v.blocks : id # e.id => Knows(v.blocks[id], t, id)
    BY OthersKnow DEF Running, KnowsBlocks
  <1>4. e.type \notin Opening => e.id \in DOMAIN v.blocks
    BY DEF Accepts, StartBlock, InBlock, ToolCall, ToolTerminal, StepStart, StepFinish,
           FinishTurn, Opening
  <1> HIDE DEF t, n, b
  <1>5. w.blocks = [i \in DOMAIN v.blocks \cup {e.id} |-> IF i = e.id THEN b ELSE v.blocks[i]]
    BY DEF WithBlock, b
  <1>6. /\ DOMAIN w.blocks = DOMAIN v.blocks \cup {e.id}
        /\ w.blocks[e.id] = b
        /\ \A i \in DOMAIN v.blocks : i # e.id => w.blocks[i] = v.blocks[i]
        /\ w.blocks = [i \in DOMAIN w.blocks |-> w.blocks[i]]
    BY <1>5
  <1>7. DOMAIN v.blocks = {s[j].id : j \in {k \in DOMAIN s : s[k].type \in Opening}}
    BY DEF Running, KnowsBlocks
  <1>8. DOMAIN w.blocks = {t[j].id : j \in {k \in DOMAIN t : t[k].type \in Opening}}
    <2>1. {k \in DOMAIN t : t[k].type \in Opening} =
            {k \in DOMAIN s : s[k].type \in Opening} \cup (IF e.type \in Opening THEN {n} ELSE {})
      BY <1>1
    <2> QED
      BY <1>1, <1>4, <1>6, <1>7, <2>1
  <1>9. \A j \in DOMAIN t : t[j].type \in {"end", "result", "error"} => t[j].id \in DOMAIN w.blocks
    BY <1>1, <1>6 DEF Running, KnowsBlocks
  <1>10. \A id \in DOMAIN w.blocks : Knows(w.blocks[id], t, id)
    BY <1>2, <1>3, <1>6
  <1> QED
    BY <1>6, <1>8, <1>9, <1>10 DEF KnowsBlocks, t

LEMMA StepKnowsBlocks ==
    ASSUME NEW S, NEW s \in Seq(S), NEW e \in S, NEW v, Running(v, s),
           e.type \in {"step-start", "step-finish"},
           NEW w, w.blocks = v.blocks
    PROVE  KnowsBlocks(w, Append(s, e))
  <1> DEFINE t == Append(s, e)
             n == Len(s) + 1
  <1>1. /\ DOMAIN t = DOMAIN s \cup {n} /\ t[n] = e
        /\ \A j \in DOMAIN s : t[j] = s[j]
    BY OneMore
  <1>2. \A id \in DOMAIN v.blocks : Knows(v.blocks[id], t, id)
    BY OthersKnow DEF Running, KnowsBlocks
  <1> HIDE DEF t, n
  <1>3. {k \in DOMAIN t : t[k].type \in Opening} = {k \in DOMAIN s : s[k].type \in Opening}
    BY <1>1 DEF Opening
  <1>4. {t[j].id : j \in {k \in DOMAIN t : t[k].type \in Opening}} =
            {s[j].id : j \in {k \in DOMAIN s : s[k].type \in Opening}}
    BY <1>1, <1>3
  <1>5. \A j \in DOMAIN t : t[j].type \in {"end", "result", "error"} => t[j].id \in DOMAIN v.blocks
    BY <1>1 DEF Running, KnowsBlocks
  <1> QED
    BY <1>2, <1>4, <1>5 DEF Running, KnowsBlocks, t

LEMMA AcceptKnowsStep ==
    ASSUME NEW S, NEW s \in Seq(S), NEW e \in S, NEW v, Running(v, s), NEW w,
           \/ e.type = "step-start" /\ e.index \in Nat /\ w.step = e.index
           \/ e.type = "step-finish" /\ w.step = NoStep
           \/ e.type \notin {"step-start", "step-finish"} /\ w.step = v.step
    PROVE  KnowsStep(w, Append(s, e))
  <1> DEFINE t == Append(s, e)
             n == Len(s) + 1
  <1>1. /\ DOMAIN t = DOMAIN s \cup {n} /\ t[n] = e /\ n \in Nat
        /\ \A j \in DOMAIN s : t[j] = s[j] /\ j \in Nat /\ j < n
    BY OneMore
  <1> HIDE DEF t, n
  <1>2. CASE e.type = "step-start" /\ e.index \in Nat /\ w.step = e.index
    <2>1. /\ n \in DOMAIN t /\ t[n].type = "step-start" /\ t[n].index = w.step
          /\ \A k \in DOMAIN t : ~ k > n
      BY <1>1, <1>2
    <2> QED
      BY <1>2, <2>1 DEF KnowsStep, t
  <1>3. CASE e.type = "step-finish" /\ w.step = NoStep
    <2>1. \A j \in DOMAIN t : t[j].type = "step-start" =>
            n \in DOMAIN t /\ n > j /\ t[n].type = "step-finish"
      BY <1>1, <1>3
    <2> QED
      BY <1>3, <2>1 DEF KnowsStep, t
  <1>4. CASE e.type \notin {"step-start", "step-finish"} /\ w.step = v.step
    <2>1. CASE /\ v.step = NoStep
               /\ \A j \in DOMAIN s : s[j].type = "step-start" =>
                    \E k \in DOMAIN s : k > j /\ s[k].type = "step-finish"
      <3>1. \A j \in DOMAIN t : t[j].type = "step-start" =>
                \E k \in DOMAIN t : k > j /\ t[k].type = "step-finish"
        BY <1>1, <1>4, <2>1
      <3> QED
        BY <1>4, <2>1, <3>1 DEF KnowsStep, t
    <2>2. CASE /\ v.step \in Nat
               /\ \E j \in DOMAIN s :
                    /\ s[j].type = "step-start" /\ s[j].index = v.step
                    /\ \A k \in DOMAIN s : k > j => s[k].type \notin {"step-start", "step-finish"}
      <3>1. PICK j \in DOMAIN s :
                /\ s[j].type = "step-start" /\ s[j].index = v.step
                /\ \A k \in DOMAIN s : k > j => s[k].type \notin {"step-start", "step-finish"}
        BY <2>2
      <3>2. /\ j \in DOMAIN t /\ t[j].type = "step-start" /\ t[j].index = w.step
            /\ \A k \in DOMAIN t : k > j => t[k].type \notin {"step-start", "step-finish"}
        BY <1>1, <1>4, <3>1
      <3> QED
        BY <1>4, <2>2, <3>2 DEF KnowsStep, t
    <2> QED
      BY <2>1, <2>2 DEF Running, KnowsStep
  <1> QED
    BY <1>2, <1>3, <1>4

\* An accepted event keeps the validator and the stream together.
LEMMA AcceptStands ==
    ASSUME NEW S, NEW s \in Seq(S), NEW e \in S, NEW v, Stands(v, s), Accepts(v, e)
    PROVE  Stands(Accept(v, e), Append(s, e))
  <1> DEFINE t == Append(s, e)
             w == Accept(v, e)
  <1>1. /\ v = [blocks |-> v.blocks, step |-> v.step, terminal |-> v.terminal]
        /\ WellFormed(s) /\ Running(v, s) /\ Known(e) /\ e.type # "bad"
    BY AcceptedTypes DEF Stands, Known
  <1>2. /\ t \in Seq(S) /\ Len(t) = Len(s) + 1 /\ DOMAIN t = DOMAIN s \cup {Len(t)}
        /\ t[Len(t)] = e /\ \A j \in DOMAIN s : t[j] = s[j]
        /\ Len(s) \in Nat
    BY OneMore
  <1>3. WellFormed(t)
    <2>1. \A j \in DOMAIN s : Known(s[j])
      BY <1>1 DEF Running, Known
    <2> QED
      BY <1>1, <2>1, WellFormedOneMore, AcceptsIsExact
  <1> HIDE DEF t, w
  <1>4. CASE e.type \in Terminal
    <2>1. w = [blocks |-> v.blocks, step |-> v.step, terminal |-> TRUE]
      BY <1>1, <1>4 DEF Accept, w
    <2>2. Complete(t)
      BY <1>2, <1>3, <1>4 DEF Complete
    <2> QED
      BY <1>3, <2>1, <2>2 DEF Stands, t, w
  <1>5. CASE e.type \notin Terminal
    <2>1. \A j \in DOMAIN t : t[j].type \in EventTypes \ (Terminal \cup {"bad"})
      BY <1>1, <1>2, <1>5 DEF Running, Known
    <2>2. CASE e.type = "step-start"
      <3>1. w = [blocks |-> v.blocks, step |-> e.index, terminal |-> FALSE]
        BY <1>1, <1>5, <2>2 DEF Accept, Running, w
      <3>2. e.index \in Nat
        BY <2>2 DEF Accepts, StartBlock, InBlock, ToolCall, ToolTerminal, StepStart, StepFinish,
                    FinishTurn
      <3>3. KnowsBlocks(w, t)
        BY <1>1, <2>2, <3>1, StepKnowsBlocks DEF t
      <3>4. KnowsStep(w, t)
        BY <1>1, <2>2, <3>1, <3>2, AcceptKnowsStep DEF t
      <3> QED
        BY <1>3, <2>1, <3>1, <3>3, <3>4 DEF Stands, Running, t, w
    <2>3. CASE e.type = "step-finish"
      <3>1. w = [blocks |-> v.blocks, step |-> NoStep, terminal |-> FALSE]
        BY <1>1, <1>5, <2>3 DEF Accept, Running, w
      <3>2. KnowsBlocks(w, t)
        BY <1>1, <2>3, <3>1, StepKnowsBlocks DEF t
      <3>3. KnowsStep(w, t)
        BY <1>1, <2>3, <3>1, AcceptKnowsStep DEF t
      <3> QED
        BY <1>3, <2>1, <3>1, <3>2, <3>3 DEF Stands, Running, t, w
    <2>4. CASE e.type \in {"start", "delta", "end", "call", "result", "error"}
      <3>1. w = [blocks |-> WithBlock(v.blocks, e.id, BlockAfter(v, e)), step |-> v.step,
                 terminal |-> FALSE]
        BY <1>1, <1>5, <2>4 DEF Accept, Running, w
      <3>2. KnowsBlocks(w, t)
        BY <1>1, <2>4, <3>1, AcceptKnowsBlocks DEF t
      <3>3. KnowsStep(w, t)
        BY <1>1, <2>4, <3>1, AcceptKnowsStep DEF t
      <3> QED
        BY <1>3, <2>1, <3>1, <3>2, <3>3 DEF Stands, Running, t, w
    <2> QED
      BY <1>1, <1>5, <2>2, <2>3, <2>4 DEF Known, EventTypes
  <1> QED
    BY <1>4, <1>5

\* A validator that stands is terminal exactly if its stream is whole.
LEMMA StandsIsDone ==
    ASSUME NEW S, NEW s \in Seq(S), NEW v, Stands(v, s)
    PROVE  v.terminal \in BOOLEAN /\ (v.terminal <=> Complete(s))
  <1>1. CASE Running(v, s)
    <2>1. s # <<>> => Len(s) \in DOMAIN s
      OBVIOUS
    <2> QED
      BY <1>1, <2>1 DEF Running, Complete
  <1>2. CASE v.terminal = TRUE /\ Complete(s)
    BY <1>2
  <1> QED
    BY <1>1, <1>2 DEF Stands

------------------------------------------------------------------------------
(* The validator by itself.                                                 *)

FeedInv ==
    /\ accepted \in Seq(Vocabulary)
    /\ rejected \in BOOLEAN
    /\ IF rejected
       THEN table = [blocks |-> table.blocks, step |-> table.step, terminal |-> TRUE]
       ELSE Stands(table, accepted)

\* Nothing has been fed.
LEMMA NewStands == WellFormed(<<>>) /\ Stands(NewStreamValidator, <<>>)
  <1>1. WellFormed(<<>>)
    BY DEF WellFormed
  <1>2. Running(NewStreamValidator, <<>>)
    BY DEF Running, KnowsBlocks, KnowsStep, NewStreamValidator
  <1> QED
    BY <1>1, <1>2 DEF Stands, NewStreamValidator

LEMMA FeedKeeps ==
    ASSUME FeedInv, [FeedNext]_feedVars
    PROVE  FeedInv'
  <1>1. CASE UNCHANGED feedVars
    BY <1>1 DEF feedVars, FeedInv
  <1>2. ASSUME NEW e \in Vocabulary, Feed(e), Accepts(table, e)
        PROVE  FeedInv'
    <2>1. ~rejected
      BY <1>2, AcceptedTypes DEF FeedInv
    <2>2. Stands(Accept(table, e), Append(accepted, e))
      BY <1>2, <2>1, AcceptStands DEF FeedInv
    <2>3. table' = Accept(table, e) /\ accepted' = Append(accepted, e) /\ rejected' = rejected
      BY <1>2 DEF Feed
    <2>4. accepted' \in Seq(Vocabulary)
      BY <2>3 DEF FeedInv
    <2> QED
      BY <2>1, <2>2, <2>3, <2>4 DEF FeedInv
  <1>3. ASSUME NEW e \in Vocabulary, Feed(e), ~Accepts(table, e)
        PROVE  FeedInv'
    <2>1. table = [blocks |-> table.blocks, step |-> table.step, terminal |-> table.terminal]
      BY DEF FeedInv, Stands
    <2>2. table' = [blocks |-> table.blocks, step |-> table.step, terminal |-> TRUE]
      BY <1>3, <2>1 DEF Feed, Accept
    <2> QED
      BY <1>3, <2>2 DEF Feed, FeedInv
  <1> QED
    BY <1>1, <1>2, <1>3 DEF FeedNext

\* The validator agrees with the grammar at every event of every vocabulary:
\* what it accepts is the beginning of a stream, what it refuses is not.
THEOREM ValidatorsAreExact == FeedSpec => []ValidatorIsExact
  <1>1. FeedInit => FeedInv
    <2> SUFFICES ASSUME FeedInit
                 PROVE  FeedInv
      OBVIOUS
    <2>1. <<>> \in Seq(Vocabulary)
      OBVIOUS
    <2>2. Stands(table, accepted)
      BY NewStands DEF FeedInit
    <2> QED
      BY <2>1, <2>2 DEF FeedInit, FeedInv
  <1>2. FeedInv => ValidatorIsExact
    <2> SUFFICES ASSUME FeedInv
                 PROVE  ValidatorIsExact
      OBVIOUS
    <2>1. ASSUME ~rejected, NEW e \in Vocabulary
          PROVE  Accepts(table, e) <=> WellFormed(Append(accepted, e))
      <3>1. Stands(table, accepted) /\ WellFormed(accepted) /\ accepted \in Seq(Vocabulary)
        BY <2>1 DEF FeedInv, Stands
      <3>2. Known(e) /\ \A j \in DOMAIN accepted : Known(accepted[j])
        BY <3>1, VocabularyAssumption DEF Known
      <3>3. CASE Running(table, accepted)
        BY <3>1, <3>2, <3>3, AcceptsIsExact, WellFormedOneMore
      <3>4. CASE table.terminal = TRUE /\ Complete(accepted)
        <4>1. Len(accepted) \in {j \in DOMAIN accepted : accepted[j].type \in Terminal}
          BY <3>1, <3>4 DEF Complete
        <4>2. Before(Append(accepted, e), Len(accepted) + 1, Terminal)
                = {j \in DOMAIN accepted : accepted[j].type \in Terminal}
          BY <3>1, LookingBack
        <4>3. ~Fits(Append(accepted, e), Len(accepted) + 1)
          BY <4>1, <4>2 DEF Fits
        <4>4. ~WellFormed(Append(accepted, e))
          BY <3>1, <3>2, <4>3, WellFormedOneMore
        <4> QED
          BY <3>4, <4>4 DEF Accepts
      <3> QED
        BY <3>1, <3>3, <3>4 DEF Stands
    <2>2. Done(table) <=> rejected \/ Complete(accepted)
      BY StandsIsDone DEF FeedInv, Done
    <2> QED
      BY <2>1, <2>2 DEF ValidatorIsExact
  <1> QED
    BY <1>1, <1>2, FeedKeeps, PTL DEF FeedSpec

------------------------------------------------------------------------------
(* The turn.                                                                *)

\* What the validator of an attempt has accepted: the step that is held back
\* is the last of it.
Heard == IF pending = Nothing THEN Sent ELSE Append(Sent, pending)

HeardInv ==
    /\ sent \in Seq(ToSet(sent))
    /\ \A i \in DOMAIN sent : sent[i].attempt = attempt
    /\ pending = Nothing \/ pending.type = "step-start"

\* What an adapter that is within its stream may rely on.
EmitterInv ==
    /\ HeardInv
    /\ WellFormed(Sent)
    /\ IF failed = "none" THEN Stands(validator, Heard) ELSE queue = <<>>

\* An adapter at its request, within its stream, and when it has returned.
AdapterInv ==
    /\ phase \in {"attempt", "request", "stream", "rejected", "end", "sleep", "returned"}
    /\ WellFormed(Sent)
    /\ phase = "request" =>
        /\ sent = <<>> /\ queue = <<>> /\ failed = "none"
        /\ validator = NewStreamValidator /\ pending = Nothing
    /\ phase \in {"stream", "rejected"} => EmitterInv
    /\ phase = "end" /\ outcome = Success => Complete(Sent)
    /\ result = Success => phase = "returned" /\ Complete(Sent)

FakeInv ==
    /\ phase \in {"attempt", "play", "end", "sleep", "returned"}
    /\ phase = "play" /\ Retryable(script.error) => script.events = <<>> /\ sent = <<>>

TurnInv ==
    /\ HeardInv
    /\ phase \in {"attempt", "sleep"} => sent = <<>>
    /\ phase = "end" /\ Retryable(outcome) => sent = <<>>
    /\ IF adapter = "fake" THEN FakeInv ELSE AdapterInv

------------------------------------------------------------------------------
\* What a sink that has received a sequence receives next.
LEMMA SentIsASequence ==
    ASSUME sent \in Seq(ToSet(sent))
    PROVE  Sent \in Seq(ToSet(Sent)) /\ Len(Sent) = Len(sent) /\ DOMAIN Sent = DOMAIN sent
  <1>1. /\ DOMAIN sent = 1 .. Len(sent) /\ Len(sent) \in Nat
    OBVIOUS
  <1>2. Sent \in [1 .. Len(sent) -> ToSet(Sent)]
    BY <1>1 DEF Sent, ToSet
  <1>3. Sent \in Seq(ToSet(Sent))
    BY <1>1, <1>2, SeqDef
  <1> QED
    BY <1>1, <1>2, <1>3

LEMMA Receives ==
    ASSUME HeardInv, NEW S, NEW events \in Seq(S), sent' = Received(events), attempt' = attempt
    PROVE  /\ sent' \in Seq(ToSet(sent'))
           /\ \A i \in DOMAIN sent' : sent'[i].attempt = attempt'
           /\ Sent' = Sent \o events
  <1> DEFINE more == [i \in DOMAIN events |-> [attempt |-> attempt, event |-> events[i]]]
             R == {[attempt |-> attempt, event |-> events[i]] : i \in DOMAIN events}
             T == ToSet(sent) \cup R
             n == Len(sent)
             m == Len(events)
  <1>1. /\ sent \in Seq(T) /\ n \in Nat /\ DOMAIN sent = 1 .. n
        /\ m \in Nat /\ DOMAIN events = 1 .. m
    BY SeqMonotonic DEF HeardInv
  <1>2. more \in Seq(T) /\ Len(more) = m
    <2>1. more \in [1 .. m -> T]
      BY <1>1
    <2> QED
      BY <1>1, <2>1, SeqDef
  <1>3. sent' = sent \o more
    BY DEF Received
  <1>4. \A i \in 1 .. m : more[i].attempt = attempt /\ more[i].event = events[i]
    BY <1>1
  <1> HIDE DEF more, T, n, m
  <1>5. /\ sent' \in Seq(T) /\ DOMAIN sent' = 1 .. n + m /\ Len(sent') = n + m
        /\ \A i \in 1 .. n : sent'[i] = sent[i]
        /\ \A i \in n + 1 .. n + m : sent'[i] = more[i - n]
    BY <1>1, <1>2, <1>3, ConcatProperties DEF n
  <1>6. \A i \in n + 1 .. n + m : sent'[i].attempt = attempt /\ sent'[i].event = events[i - n]
    <2>1. \A i \in n + 1 .. n + m : i - n \in 1 .. m
      BY <1>1
    <2> QED
      BY <1>4, <1>5, <2>1
  <1>7. sent' \in Seq(ToSet(sent'))
    <2>1. sent' \in [1 .. n + m -> ToSet(sent')]
      BY <1>5 DEF ToSet
    <2> QED
      BY <1>1, <2>1, SeqDef
  <1>8. \A i \in DOMAIN sent' : sent'[i].attempt = attempt'
    <2>1. \A i \in 1 .. n : sent'[i].attempt = attempt
      BY <1>1, <1>5 DEF HeardInv
    <2>2. \A i \in n + 1 .. n + m : sent'[i].attempt = attempt
      BY <1>1, <1>6
    <2> QED
      BY <1>1, <1>5, <2>1, <2>2
  <1>9. Sent' = Sent \o events
    <2>1. /\ Sent \in Seq(ToSet(Sent) \cup S) /\ Len(Sent) = n /\ DOMAIN Sent = 1 .. n
          /\ events \in Seq(ToSet(Sent) \cup S)
      BY <1>1, SentIsASequence, SeqMonotonic DEF HeardInv, n
    <2>2. /\ Sent \o events \in Seq(ToSet(Sent) \cup S) /\ Len(Sent \o events) = n + m
          /\ \A i \in 1 .. n + m : (Sent \o events)[i] = IF i <= n THEN Sent[i] ELSE events[i - n]
      BY <2>1, ConcatProperties DEF m
    <2>3. Sent \o events = [i \in 1 .. n + m |-> (Sent \o events)[i]]
      BY <2>2, LenProperties
    <2>4. Sent' = [i \in 1 .. n + m |-> sent'[i].event]
      BY <1>5 DEF Sent
    <2>5. \A i \in 1 .. n + m : sent'[i].event = (Sent \o events)[i]
      <3>1. \A i \in 1 .. n : sent'[i].event = Sent[i]
        BY <1>1, <1>5 DEF Sent
      <3>2. \A i \in n + 1 .. n + m : sent'[i].event = events[i - n]
        BY <1>1, <1>6
      <3> QED
        BY <1>1, <2>2, <3>1, <3>2
    <2> QED
      BY <2>3, <2>4, <2>5
  <1> QED
    BY <1>7, <1>8, <1>9

\* What is sent with a step that may be held back.
LEMMA ReceivesHeard ==
    ASSUME HeardInv, NEW e, attempt' = attempt
    PROVE  /\ sent' = Received(Pending) => Sent' = Heard
           /\ sent' = Received(Append(Pending, e)) => Sent' = Append(Heard, e)
           /\ sent' = Received(Pending) \/ sent' = Received(Append(Pending, e)) =>
                /\ sent' \in Seq(ToSet(sent'))
                /\ \A i \in DOMAIN sent' : sent'[i].attempt = attempt'
  <1> DEFINE S == {pending, e}
             T == ToSet(Sent) \cup S
  <1>1. Pending \in Seq(S) /\ Append(Pending, e) \in Seq(S)
    <2>1. Pending = <<>> \/ Pending = <<pending>>
      BY DEF Pending
    <2>2. <<>> \in Seq(S) /\ <<pending>> \in Seq(S)
      OBVIOUS
    <2>3. Pending \in Seq(S)
      BY <2>1, <2>2
    <2> QED
      BY <2>3
  <1>2. Sent \in Seq(T)
    BY SentIsASequence, SeqMonotonic DEF HeardInv
  <1>3. Sent \o Pending = Heard
    <2>1. CASE pending = Nothing
      BY <1>2, <2>1, ConcatEmptySeq DEF Pending, Heard
    <2>2. CASE pending # Nothing
      BY <1>2, <2>2 DEF Pending, Heard
    <2> QED
      BY <2>1, <2>2
  <1>4. Sent \o Append(Pending, e) = Append(Sent \o Pending, e)
    <2>1. Append(Pending, e) = Pending \o <<e>>
      BY <1>1
    <2>2. Pending \in Seq(T) /\ <<e>> \in Seq(T)
      BY <1>1, SeqMonotonic
    <2>3. Sent \o (Pending \o <<e>>) = (Sent \o Pending) \o <<e>>
      BY <1>2, <2>2, ConcatAssociative
    <2>4. (Sent \o Pending) \o <<e>> = Append(Sent \o Pending, e)
      BY <1>2, <2>2, ConcatProperties
    <2> QED
      BY <2>1, <2>3, <2>4
  <1>5. ASSUME sent' = Received(Pending)
        PROVE  Sent' = Sent \o Pending /\ sent' \in Seq(ToSet(sent'))
               /\ \A i \in DOMAIN sent' : sent'[i].attempt = attempt'
    BY <1>1, <1>5, Receives
  <1>6. ASSUME sent' = Received(Append(Pending, e))
        PROVE  Sent' = Sent \o Append(Pending, e) /\ sent' \in Seq(ToSet(sent'))
               /\ \A i \in DOMAIN sent' : sent'[i].attempt = attempt'
    BY <1>1, <1>6, Receives
  <1> QED
    BY <1>3, <1>4, <1>5, <1>6

\* What has been accepted is a sequence, of the step that is held back too.
LEMMA HeardIsASequence ==
    ASSUME HeardInv, NEW e
    PROVE  /\ Sent \in Seq(ToSet(Sent) \cup {pending, e})
           /\ Heard \in Seq(ToSet(Sent) \cup {pending, e})
  <1> DEFINE T == ToSet(Sent) \cup {pending, e}
  <1>1. Sent \in Seq(T)
    BY SentIsASequence, SeqMonotonic DEF HeardInv
  <1>2. Append(Sent, pending) \in Seq(T)
    BY <1>1
  <1> QED
    BY <1>1, <1>2 DEF Heard

------------------------------------------------------------------------------
(* The emitter.                                                             *)

\* A second StepStart is refused while the first is held back.
LEMMA OneStepIsHeld ==
    ASSUME EmitterInv, failed = "none", NEW e, e.type = "step-start", Accepts(validator, e)
    PROVE  pending = Nothing
  <1> SUFFICES ASSUME pending # Nothing
               PROVE  FALSE
    OBVIOUS
  <1>1. Stands(validator, Heard) /\ Heard = Append(Sent, pending) /\ pending.type = "step-start"
    BY DEF EmitterInv, HeardInv, Heard
  <1>2. Sent \in Seq(ToSet(Sent) \cup {pending, e})
    BY HeardIsASequence DEF EmitterInv
  <1>3. /\ DOMAIN Heard = 1 .. Len(Sent) + 1 /\ Len(Sent) \in Nat
        /\ Heard[Len(Sent) + 1] = pending
    BY <1>1, <1>2
  <1>4. validator.step = NoStep /\ ~validator.terminal
    BY DEF Accepts, StepStart, StartBlock, InBlock, ToolCall, ToolTerminal, StepFinish, FinishTurn
  <1>5. KnowsStep(validator, Heard)
    BY <1>1, <1>4 DEF Stands, Running
  <1>6. ~ \E k \in DOMAIN Heard : k > Len(Sent) + 1
    BY <1>3
  <1> QED
    BY <1>1, <1>3, <1>4, <1>5, <1>6 DEF KnowsStep, NoStep

LEMMA EmitKeeps ==
    ASSUME EmitterInv, Emit
    PROVE  EmitterInv'
  <1> DEFINE e == Head(queue)
             T == ToSet(Sent) \cup {pending, e}
  <1>1. queue # <<>> /\ failed = "none" /\ Stands(validator, Heard) /\ WellFormed(Heard)
    BY DEF Emit, AdapterFails, HoldStepStart, EmitEvent, SinkFails, ToEmit, EmitterInv, Stands
  <1>2. HeardInv /\ WellFormed(Sent)
    BY DEF EmitterInv
  <1>3. Sent \in Seq(T) /\ Heard \in Seq(T) /\ e \in T
    BY <1>2, HeardIsASequence
  <1>4. attempt' = attempt
    BY DEF Emit, AdapterFails, HoldStepStart, EmitEvent, SinkFails
  <1>5. ASSUME sent' = sent
        PROVE  Sent' = Sent
    BY <1>5 DEF Sent
  <1>6. CASE AdapterFails
    BY <1>2, <1>5, <1>6 DEF AdapterFails, EmitterInv, HeardInv
  <1>7. CASE HoldStepStart
    <2>1. CASE Accepts(validator, e)
      <3>1. pending = Nothing /\ Heard = Sent
        BY <1>1, <1>7, <2>1, OneStepIsHeld DEF HoldStepStart, Heard
      <3>2. /\ pending' = e /\ e.type = "step-start" /\ sent' = sent /\ failed' = failed
            /\ validator' = Accept(validator, e)
        BY <1>7, <2>1 DEF HoldStepStart
      <3>3. Heard' = Append(Heard, e)
        BY <1>5, <3>1, <3>2 DEF Heard, Nothing
      <3>4. Stands(validator', Heard')
        BY <1>1, <1>3, <2>1, <3>2, <3>3, AcceptStands
      <3> QED
        BY <1>1, <1>2, <1>4, <1>5, <3>2, <3>4 DEF EmitterInv, HeardInv
    <2>2. CASE ~Accepts(validator, e)
      BY <1>2, <1>4, <1>5, <1>7, <2>2 DEF HoldStepStart, EmitterInv, HeardInv
    <2> QED
      BY <2>1, <2>2
  <1>8. CASE EmitEvent
    <2>1. CASE Accepts(validator, e)
      <3>1. /\ sent' = Received(Append(Pending, e)) /\ failed' = failed /\ pending' = Nothing
            /\ validator' = Accept(validator, e)
        BY <1>8, <2>1 DEF EmitEvent
      <3>2. Sent' = Append(Heard, e) /\ HeardInv'
        BY <1>2, <1>4, <3>1, ReceivesHeard DEF HeardInv
      <3>3. Stands(validator', Sent')
        BY <1>1, <1>3, <2>1, <3>1, <3>2, AcceptStands
      <3>4. Heard' = Sent'
        BY <3>1 DEF Heard
      <3> QED
        BY <1>1, <3>1, <3>2, <3>3, <3>4 DEF EmitterInv, Stands
    <2>2. CASE ~Accepts(validator, e)
      <3>1. /\ sent' = Received(Pending) /\ failed' = "protocol" /\ queue' = <<>>
            /\ pending' = Nothing
        BY <1>8, <2>2 DEF EmitEvent
      <3>2. Sent' = Heard /\ HeardInv'
        BY <1>2, <1>4, <3>1, ReceivesHeard DEF HeardInv
      <3> QED
        BY <1>1, <3>1, <3>2 DEF EmitterInv
    <2> QED
      BY <2>1, <2>2
  <1>9. CASE SinkFails
    <2>1. failed' = "sink" /\ queue' = <<>>
      BY <1>9 DEF SinkFails
    <2>2. CASE sent' = sent /\ pending' = pending
      BY <1>2, <1>4, <1>5, <2>1, <2>2 DEF EmitterInv, HeardInv
    <2>3. CASE sent' = Received(Pending) /\ pending' = Nothing
      <3>1. Sent' = Heard /\ HeardInv'
        BY <1>2, <1>4, <2>3, ReceivesHeard DEF HeardInv
      <3> QED
        BY <1>1, <2>1, <3>1 DEF EmitterInv
    <2> QED
      BY <1>9, <2>2, <2>3 DEF SinkFails
  <1> QED
    BY <1>6, <1>7, <1>8, <1>9 DEF Emit

\* An adapter whose validator is done, and that nothing has failed, has sent a
\* whole stream.
LEMMA DoneIsComplete ==
    ASSUME EmitterInv, failed = "none", Done(validator)
    PROVE  Complete(Sent)
  <1>1. Heard \in Seq(ToSet(Sent) \cup {pending, pending}) /\ Stands(validator, Heard)
    BY HeardIsASequence DEF EmitterInv
  <1>2. Complete(Heard)
    BY <1>1, StandsIsDone DEF Done
  <1>3. CASE pending = Nothing
    BY <1>2, <1>3 DEF Heard
  <1>4. CASE pending # Nothing
    <2>1. Sent \in Seq(ToSet(Sent) \cup {pending, pending})
      BY HeardIsASequence DEF EmitterInv
    <2>2. Heard = Append(Sent, pending) /\ pending.type = "step-start"
      BY <1>4 DEF EmitterInv, HeardInv, Heard
    <2>3. Heard[Len(Heard)] = pending
      BY <2>1, <2>2
    <2> QED
      BY <1>2, <2>2, <2>3 DEF Complete, Terminal
  <1> QED
    BY <1>3, <1>4

------------------------------------------------------------------------------
(* The steps of a turn.                                                     *)

\* Nothing has been sent.
LEMMA NothingSent ==
    ASSUME sent = <<>>
    PROVE  /\ Sent = <<>> /\ WellFormed(Sent)
           /\ sent \in Seq(ToSet(sent)) /\ \A i \in DOMAIN sent : sent[i].attempt = attempt
  <1>1. DOMAIN sent = {} /\ sent \in Seq(ToSet(sent))
    OBVIOUS
  <1>2. Sent = <<>>
    BY <1>1 DEF Sent
  <1> QED
    BY <1>1, <1>2, NewStands

LEMMA TurnBegins ==
    ASSUME TurnInit
    PROVE  TurnInv
  <1>1. /\ sent = <<>> /\ pending = Nothing /\ phase = "attempt" /\ result = Unknown
    BY DEF TurnInit
  <1>2. HeardInv /\ WellFormed(Sent)
    BY <1>1, NothingSent DEF HeardInv
  <1> QED
    BY <1>1, <1>2 DEF TurnInv, FakeInv, AdapterInv, Unknown, Success

\* A step that leaves the events alone, and what the emitter knows of them.
LEMMA Unsent ==
    ASSUME sent' = sent, attempt' = attempt
    PROVE  /\ Sent' = Sent /\ WellFormed(Sent)' = WellFormed(Sent)
           /\ Complete(Sent)' = Complete(Sent)
           /\ HeardInv /\ (pending' = pending \/ pending' = Nothing) => HeardInv'
           /\ HeardInv /\ pending' = pending /\ validator' = validator /\ failed' = failed
              /\ EmitterInv /\ (failed = "none" \/ queue' = queue) => EmitterInv'
  <1>1. Sent' = Sent
    BY DEF Sent
  <1>2. WellFormed(Sent)' = WellFormed(Sent) /\ Complete(Sent)' = Complete(Sent)
    BY <1>1
  <1>3. pending' = pending => Heard' = Heard
    BY <1>1 DEF Heard
  <1> QED
    BY <1>1, <1>2, <1>3 DEF HeardInv, EmitterInv

\* An attempt begins with nothing sent.
LEMMA AttemptKeeps ==
    ASSUME TurnInv, Attempt
    PROVE  TurnInv'
  <1>1. /\ phase = "attempt" /\ sent = <<>> /\ sent' = <<>>
        /\ adapter' = adapter /\ attempt' = attempt
        /\ pending' = Nothing /\ validator' = NewStreamValidator
        /\ queue' = <<>> /\ failed' = "none"
    BY DEF Attempt, TurnInv, NewEventEmitter
  <1>2. HeardInv' /\ WellFormed(Sent')
    BY <1>1, NothingSent, Unsent DEF HeardInv
  <1>3. CASE context
    <2>1. /\ phase' = IF adapter = "fake" THEN "play" ELSE "request"
          /\ result' = result
          /\ adapter = "fake" => script' \in Cassette
      BY <1>3 DEF Attempt
    <2>2. CASE adapter = "fake"
      <3>1. Retryable(script'.error) => script'.events = <<>>
        BY <2>1, <2>2, CassetteAssumption DEF Retryable
      <3>2. Retryable(script.error)' => script'.events = <<>>
        BY <3>1 DEF Retryable
      <3> QED
        BY <1>1, <1>2, <2>1, <2>2, <3>2 DEF TurnInv, FakeInv
    <2>3. CASE adapter # "fake"
      <3>1. result # Success
        BY <1>1, <2>3 DEF TurnInv, AdapterInv
      <3> QED
        BY <1>1, <1>2, <2>1, <2>3, <3>1 DEF TurnInv, AdapterInv
    <2> QED
      BY <2>2, <2>3
  <1>4. CASE ~context
    <2>1. phase' = "returned" /\ result' = OtherError
      BY <1>4 DEF Attempt, Return
    <2> QED
      BY <1>1, <1>2, <2>1 DEF TurnInv, FakeInv, AdapterInv, OtherError, Success
  <1> QED
    BY <1>3, <1>4

\* RunTurn returns: at its request, within its stream, and of the fake.
LEMMA RunTurnReturns ==
    ASSUME TurnInv, RequestFails \/ NoStream \/ RejectedEnds \/ StreamFails \/ StreamEnds
    PROVE  TurnInv'
  <1>1. /\ phase \in {"request", "stream", "rejected"} /\ phase' = "end"
        /\ sent' = sent /\ attempt' = attempt /\ adapter' = adapter /\ pending' = pending
        /\ result' = result
    BY DEF RequestFails, NoStream, RejectedEnds, StreamFails, StreamEnds, EndTurn, Reading,
           emitterVars
  <1>2. adapter # "fake" /\ AdapterInv
    BY <1>1 DEF TurnInv, FakeInv
  <1>3. HeardInv' /\ WellFormed(Sent)'
    BY <1>1, <1>2, Unsent DEF TurnInv, AdapterInv
  <1>4. Complete(Sent)' = Complete(Sent)
    BY <1>1, Unsent
  <1>5. (outcome' = Success => Complete(Sent)) /\ (Retryable(outcome') => sent = <<>>)
    <2>1. CASE RequestFails \/ NoStream
      BY <1>2, <2>1 DEF RequestFails, NoStream, EndTurn, AdapterInv, AttemptError, OtherError,
                        Success
    <2>2. CASE RejectedEnds
      <3>1. EmitterInv /\ outcome' = IF failed = "none" /\ Done(validator) THEN Success
                                     ELSE OtherError
        BY <1>2, <2>2 DEF RejectedEnds, EndTurn, AdapterInv
      <3> QED
        BY <3>1, DoneIsComplete DEF Success, OtherError, Retryable
    <2>3. CASE StreamFails
      BY <2>3 DEF StreamFails, EndTurn, AttemptError, OtherError, Success, Retryable
    <2>4. CASE StreamEnds
      <3>1. EmitterInv /\ failed = "none"
            /\ outcome' = IF native.terminal /\ Done(validator) THEN Success
                          ELSE AttemptError("ok", started)
        BY <1>2, <2>4 DEF StreamEnds, Reading, EndTurn, AdapterInv
      <3> QED
        BY <3>1, DoneIsComplete DEF Success, AttemptError, Retryable
    <2> QED
      BY <2>1, <2>2, <2>3, <2>4
  <1>6. Retryable(outcome)' = Retryable(outcome')
    BY DEF Retryable
  <1> QED
    BY <1>1, <1>2, <1>3, <1>4, <1>5, <1>6 DEF TurnInv, AdapterInv

\* A stream is opened, by the server or of the error that it has answered with.
LEMMA StreamOpens ==
    ASSUME TurnInv, Rejected \/ OpenStream
    PROVE  TurnInv'
  <1>1. /\ phase = "request" /\ phase' \in {"stream", "rejected"}
        /\ sent' = sent /\ attempt' = attempt /\ adapter' = adapter /\ pending' = pending
        /\ validator' = validator /\ failed' = failed /\ result' = result
    BY DEF Rejected, OpenStream, emitterVars
  <1>2. adapter # "fake" /\ AdapterInv /\ HeardInv
    BY <1>1 DEF TurnInv, FakeInv
  <1>3. /\ sent = <<>> /\ failed = "none" /\ pending = Nothing
        /\ validator = NewStreamValidator
    BY <1>1, <1>2 DEF AdapterInv
  <1>4. EmitterInv
    BY <1>2, <1>3, NothingSent, NewStands DEF EmitterInv, Heard
  <1>5. EmitterInv' /\ HeardInv' /\ WellFormed(Sent)' /\ Complete(Sent)' = Complete(Sent)
    BY <1>1, <1>2, <1>3, <1>4, NothingSent, Unsent
  <1> QED
    BY <1>1, <1>2, <1>5 DEF TurnInv, AdapterInv

\* The adapter takes a frame, or the emitter one of its events.
LEMMA StreamGoesOn ==
    ASSUME TurnInv, Frame \/ EmitOne
    PROVE  TurnInv'
  <1>1. /\ phase \in {"stream", "rejected"} /\ phase' = phase
        /\ adapter' = adapter /\ result' = result
    BY DEF Frame, EmitOne, Reading
  <1>2. adapter # "fake" /\ AdapterInv /\ EmitterInv
    BY <1>1 DEF TurnInv, FakeInv, AdapterInv
  <1>3. EmitterInv'
    <2>1. CASE Frame
      <3>1. /\ sent' = sent /\ attempt' = attempt /\ pending' = pending
            /\ validator' = validator /\ failed' = failed /\ failed = "none"
        BY <2>1 DEF Frame, Reading, emitterVars
      <3> QED
        BY <1>2, <3>1, Unsent DEF EmitterInv
    <2>2. CASE EmitOne
      BY <1>2, <2>2, EmitKeeps DEF EmitOne
    <2> QED
      BY <2>1, <2>2
  <1> QED
    BY <1>1, <1>2, <1>3 DEF TurnInv, AdapterInv, EmitterInv

\* The fake plays an event, or ends.
LEMMA FakeKeeps ==
    ASSUME TurnInv, Play \/ PlayFails \/ PlayEnds
    PROVE  TurnInv'
  <1>1. phase = "play" /\ adapter' = adapter /\ attempt' = attempt /\ pending' = pending
    BY DEF Play, PlayFails, PlayEnds, emitterVars
  <1>2. adapter = "fake" /\ FakeInv /\ HeardInv
    BY <1>1 DEF TurnInv, AdapterInv
  <1>3. CASE Play
    <2>1. /\ sent' = Received(<<Head(script.events)>>) /\ phase' = "play"
          /\ script.events # <<>> /\ script' = [script EXCEPT !.events = Tail(@)]
      BY <1>1, <1>3 DEF Play
    <2>2. HeardInv'
      <3>1. <<Head(script.events)>> \in Seq({Head(script.events)})
        OBVIOUS
      <3> QED
        BY <1>1, <1>2, <2>1, <3>1, Receives DEF HeardInv
    <2>3. ~Retryable(script.error)
      BY <1>1, <1>2, <2>1 DEF FakeInv
    <2>4. Retryable(script.error)' => Retryable(script.error)
      BY <2>1 DEF Retryable
    <2> QED
      BY <1>1, <1>2, <2>1, <2>2, <2>3, <2>4 DEF TurnInv, FakeInv
  <1>4. CASE PlayFails \/ PlayEnds
    <2>1. /\ phase' = "end" /\ sent' = sent
          /\ outcome' = OtherError \/ outcome' = script.error
      BY <1>4 DEF PlayFails, PlayEnds, EndTurn, emitterVars
    <2>2. HeardInv'
      BY <1>1, <1>2, <2>1, Unsent
    <2>3. Retryable(outcome)' => sent' = <<>>
      BY <1>1, <1>2, <2>1 DEF Retryable, FakeInv, OtherError
    <2> QED
      BY <1>1, <1>2, <2>1, <2>2, <2>3 DEF TurnInv, FakeInv
  <1> QED
    BY <1>3, <1>4

\* A turn is repeated only if nothing of it has been sent.
LEMMA RetryKeeps ==
    ASSUME TurnInv, Decide \/ Sleep
    PROVE  TurnInv'
  <1>1. /\ phase \in {"end", "sleep"} /\ phase' \in {"attempt", "sleep", "returned"}
        /\ sent' = sent /\ adapter' = adapter /\ pending' = pending /\ outcome' = outcome
    BY DEF Decide, Sleep, Return, emitterVars
  <1>2. phase' \in {"attempt", "sleep"} => sent = <<>>
    BY DEF Decide, Sleep, Return, TurnInv
  <1>3. HeardInv' /\ Sent' = Sent
    <2>1. Sent' = Sent
      BY <1>1 DEF Sent
    <2>2. CASE attempt' = attempt
      BY <1>1, <2>2, Unsent DEF TurnInv
    <2>3. CASE attempt' # attempt
      <3>1. sent = <<>>
        BY <1>2, <2>3 DEF Decide, Sleep, Return
      <3>2. sent' = <<>> /\ DOMAIN sent' = {}
        BY <1>1, <3>1
      <3>3. sent' \in Seq(ToSet(sent'))
        BY <3>2
      <3> QED
        BY <1>1, <2>1, <3>2, <3>3 DEF HeardInv, TurnInv
    <2> QED
      BY <2>1, <2>2, <2>3
  <1>4. adapter # "fake" => (result' = Success => phase' = "returned" /\ Complete(Sent))
    <2> SUFFICES ASSUME adapter # "fake", result' = Success
                 PROVE  phase' = "returned" /\ Complete(Sent)
      OBVIOUS
    <2>1. AdapterInv /\ OtherError # Success
      BY DEF TurnInv, OtherError, Success
    <2>2. result # Success
      BY <1>1, <2>1 DEF AdapterInv
    <2>3. Decide /\ phase' = "returned" /\ result' = outcome
      BY <2>1, <2>2 DEF Decide, Sleep, Return
    <2> QED
      BY <2>1, <2>3 DEF Decide, AdapterInv
  <1>5. CASE adapter = "fake"
    BY <1>1, <1>2, <1>3, <1>5 DEF TurnInv, FakeInv
  <1>6. CASE adapter # "fake"
    <2>1. WellFormed(Sent)' /\ Complete(Sent)' = Complete(Sent)
      BY <1>3, <1>6 DEF TurnInv, AdapterInv
    <2> QED
      BY <1>1, <1>2, <1>3, <1>4, <1>6, <2>1 DEF TurnInv, AdapterInv
  <1> QED
    BY <1>5, <1>6

LEMMA TurnKeeps ==
    ASSUME TurnInv, [TurnNext]_turnVars
    PROVE  TurnInv'
  <1>1. CASE UNCHANGED turnVars \/ EndContext
    <2>1. /\ sent' = sent /\ attempt' = attempt /\ adapter' = adapter /\ pending' = pending
          /\ validator' = validator /\ failed' = failed /\ queue' = queue
          /\ phase' = phase /\ result' = result /\ outcome' = outcome /\ script' = script
      BY <1>1 DEF turnVars, emitterVars, EndContext
    <2>2. /\ HeardInv' /\ (EmitterInv => EmitterInv')
          /\ WellFormed(Sent)' = WellFormed(Sent) /\ Complete(Sent)' = Complete(Sent)
      BY <2>1, Unsent DEF TurnInv
    <2>3. Retryable(outcome)' = Retryable(outcome)
          /\ Retryable(script.error)' = Retryable(script.error)
      BY <2>1 DEF Retryable
    <2> QED
      BY <2>1, <2>2, <2>3 DEF TurnInv, FakeInv, AdapterInv
  <1> QED
    BY <1>1, AttemptKeeps, RunTurnReturns, StreamOpens, StreamGoesOn, FakeKeeps, RetryKeeps
       DEF TurnNext, RunTurn

------------------------------------------------------------------------------
\* The sink of a turn receives the events of one attempt, and from an adapter
\* the beginning of one stream, whatever the server sends, whenever the sink
\* or the context ends it, and however often it is attempted.
THEOREM SinksSeeOneStream == TurnSpec => []SinkSeesOneStream
  <1>1. TurnInv => SinkSeesOneStream
    BY DEF TurnInv, HeardInv, AdapterInv, SinkSeesOneStream
  <1> QED
    BY <1>1, TurnBegins, TurnKeeps, PTL DEF TurnSpec

\* A turn of an adapter that succeeds has given its sink a whole stream.
THEOREM SuccessesAreComplete == TurnSpec => []SuccessIsComplete
  <1>1. TurnInv => SuccessIsComplete
    BY DEF TurnInv, AdapterInv, SuccessIsComplete
  <1> QED
    BY <1>1, TurnBegins, TurnKeeps, PTL DEF TurnSpec
==============================================================================
