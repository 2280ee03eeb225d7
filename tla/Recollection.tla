---------------------------- MODULE Recollection ----------------------------
(***************************************************************************)
(* Two pure algorithms of the memory service: packing what was recalled    *)
(* into a token budget (recall core/retrieval.py) and finding workflows    *)
(* that repeat across agent runs (recall core/consolidation.py).           *)
(***************************************************************************)
EXTENDS Integers, FiniteSets, Sequences

(* A memory is [id, full, short]: the tokens of its text and of the summary *)
(* the light model makes of it, 0 for an empty one.  Memories come best     *)
(* score first.                                                             *)

\* Mutant for RecollectionSound: a summary is taken as free.
SummaryIsFree(used, m, budget) == m.short > 0 /\ m.short <= budget
SummaryFits(used, m, budget) == m.short > 0 /\ used + m.short <= budget

FitsFull(used, m, budget) == used + m.full <= budget

Pack(packed, m, tokens, summarized) ==
  [items |-> Append(packed.items, [id |-> m.id, tokens |-> tokens, summarized |-> summarized]),
   used |-> packed.used + tokens]

\* What a memory makes of what is packed before it.
Consider(packed, m, budget, compress) ==
  IF FitsFull(packed.used, m, budget) THEN Pack(packed, m, m.full, FALSE)
  ELSE IF compress /\ SummaryFits(packed.used, m, budget) THEN Pack(packed, m, m.short, TRUE)
  ELSE packed

\* What is packed of the first n memories.
Packing(scored, budget, compress) ==
  LET packed[n \in 0..Len(scored)] ==
        IF n = 0 THEN [items |-> <<>>, used |-> 0]
        ELSE Consider(packed[n - 1], scored[n], budget, compress)
  IN  packed

PackToBudget(scored, budget, compress) == Packing(scored, budget, compress)[Len(scored)]

-----------------------------------------------------------------------------
(* A run is the sequence of the tools it called.                            *)

MIN_LEN == 2
MAX_LEN == 6
MIN_REPEATS == 3

Windows(run) == {w \in (1..Len(run)) \X (1..Len(run)) : w[2] - w[1] + 1 \in MIN_LEN..MAX_LEN}
Grams(run) == {SubSeq(run, w[1], w[2]) : w \in Windows(run)}

\* In how many runs a workflow occurs.
RunsWith(runs, gram) == Cardinality({r \in DOMAIN runs : gram \in Grams(runs[r])})

Qualifying(runs) ==
  {g \in UNION {Grams(runs[r]) : r \in DOMAIN runs} : RunsWith(runs, g) >= MIN_REPEATS}

Holds(haystack, needle) == \E i, j \in DOMAIN haystack : SubSeq(haystack, i, j) = needle

\* A longer workflow subsumes the parts that occur no more often.
Subsumed(runs, gram, other) ==
  Len(other) > Len(gram) /\ RunsWith(runs, gram) <= RunsWith(runs, other) /\ Holds(other, gram)

\* As a set of [workflow, count]; the order is for display.
FindRepeatedWorkflows(runs) ==
  {[workflow |-> g, count |-> RunsWith(runs, g)] :
     g \in {h \in Qualifying(runs) : ~\E other \in Qualifying(runs) : Subsumed(runs, h, other)}}
=============================================================================
