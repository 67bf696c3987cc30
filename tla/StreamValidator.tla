--------------------------- MODULE StreamValidator ---------------------------
(****************************************************************************)
(* A StreamValidator that is given any events, in any order: it runs beside *)
(* the sequence of the events that it has accepted.                         *)
(****************************************************************************)
EXTENDS LLMStream

CONSTANTS
    Vocabulary,     \* the events
    MaxAccepted     \* bound on those that are accepted

ASSUME VocabularyAssumption == \A e \in Vocabulary : e.type \in EventTypes

VARIABLES
    table,          \* the StreamValidator
    accepted,       \* history: the events for which Accept has returned nil
    rejected        \* history: has it refused one?

feedVars == <<table, accepted, rejected>>

FeedInit == table = NewStreamValidator /\ accepted = <<>> /\ rejected = FALSE

Feed(e) ==
    /\ Len(accepted) < MaxAccepted
    /\ table' = Accept(table, e)
    /\ IF Accepts(table, e)
       THEN accepted' = Append(accepted, e) /\ UNCHANGED rejected
       ELSE rejected' = TRUE /\ UNCHANGED accepted

FeedNext == \E e \in Vocabulary : Feed(e)

FeedSpec == FeedInit /\ [][FeedNext]_feedVars

\* The table of blocks and the flags of the validator say neither more nor less
\* than the grammar of a turn: an event is accepted exactly if the events so
\* far and this one are the beginning of a stream, and Done is nil when the
\* stream is whole, or an event was refused (StreamValidator.Accept, Done).
ValidatorIsExact ==
    /\ ~rejected => \A e \in Vocabulary :
                        Accepts(table, e) <=> WellFormed(Append(accepted, e))
    /\ Done(table) <=> rejected \/ Complete(accepted)
==============================================================================
