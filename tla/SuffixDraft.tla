---------------------------- MODULE SuffixDraft ----------------------------
(***************************************************************************)
(* Speculation from the suffix tree (speculate(), suffix_tree.cc:593-622   *)
(* and :825-905): the drafts it returns, compared with what the indexed    *)
(* sequences really contain.  Probabilities are fractions <<num, den>>:    *)
(* the rounding of floats is left out.                                     *)
(***************************************************************************)
EXTENDS SuffixTree

CONSTANTS MaxSpec,    \* max_spec_tokens
          Factor,     \* max_spec_factor
          Offset,     \* max_spec_offset
          MinProbs    \* the values of min_token_prob explored

\* Mutant of Times: the frequency of the last step alone.
TimesAlone(p, a, b) == <<a, b>>

\* The probability of a path that goes on with a of the b occurrences.
Times(p, a, b) == <<p[1] * a, p[2] * b>>
Below1(p, r) == p[1] * r[2] < r[1] * p[2]
Plus(p, r) == <<p[1] * r[2] + r[1] * p[2], p[2] * r[2]>>

Score(d) == FoldLeft(LAMBDA acc, x : Plus(acc, x.prob), <<0, 1>>, d)

TokenAt(n, idx) == seqs[nodes[n].refSeq][nodes[n].refIdx + idx + 1]

\* _speculate_path(): follow the most frequent child.
RECURSIVE SpeculatePath(_, _, _, _, _)
SpeculatePath(n, idx, d, prob, o) ==
  IF Len(d) >= o.max \/ Below1(prob, o.minProb) THEN d
  ELSE IF idx < nodes[n].length
  THEN SpeculatePath(n, idx + 1,
         Append(d, [token |-> TokenAt(n, idx), prob |-> prob, parent |-> Len(d)]),
         prob, o)
  ELSE IF nodes[n].sibs = <<>> THEN d
  ELSE LET c == nodes[n].sibs[1]
       IN SpeculatePath(c, 0, d, Times(prob, nodes[c].count, nodes[n].count), o)

\* The children a queue item stands for: the loop stops at the first sibling
\* below the minimum.
Expand(it, o) ==
  LET n    == it.node
      kids == [i \in DOMAIN nodes[n].sibs |->
                 LET c == nodes[n].sibs[i]
                 IN [node |-> c, idx |-> 0, parent |-> it.parent,
                     prob |-> Times(it.prob, nodes[c].count, nodes[n].count)]]
      low  == {i \in DOMAIN kids : Below1(kids[i].prob, o.minProb)}
  IN IF low = {} THEN kids ELSE SubSeq(kids, 1, Min(low) - 1)

\* _speculate_tree(): the queue gives the likeliest item first (of equals the
\* one that waited longest; the order of the heap is not modelled further).
RECURSIVE SpeculateTree(_, _, _)
SpeculateTree(queue, d, o) ==
  IF Len(d) >= o.max \/ queue = <<>> THEN d
  ELSE LET best == Min({i \in DOMAIN queue : \A j \in DOMAIN queue :
                          ~Below1(queue[i].prob, queue[j].prob)})
           it   == queue[best]
           rest == RemoveAt(queue, best)
       IN IF it.idx < nodes[it.node].length
          THEN SpeculateTree(
                 Append(rest, [it EXCEPT !.idx = @ + 1, !.parent = Len(d) + 1]),
                 Append(d, [token |-> TokenAt(it.node, it.idx), prob |-> it.prob,
                            parent |-> it.parent]), o)
          ELSE SpeculateTree(rest \o Expand(it, o), d, o)

DraftFrom(m, o, tree) ==
  IF tree THEN SpeculateTree(<<[node |-> m[1], idx |-> m[2], parent |-> 0,
                                prob |-> <<1, 1>>]>>, <<>>, o)
          ELSE SpeculatePath(m[1], m[2], <<>>, <<1, 1>>, o)

LastOf(w, k) == SubSeq(w, Len(w) - k + 1, Len(w))

\* speculate(): the best draft over the matches of growing length; a longer
\* match wins a tie.  The search ends at the first length that matches nothing.
RECURSIVE SpeculateFrom(_, _, _, _, _)
SpeculateFrom(w, k, minProb, tree, best) ==
  IF k >= Len(w) \/ MatchContext(LastOf(w, k)) = <<>> THEN best
  ELSE LET o == [max |-> Max({0, Min({MaxSpec, k * Factor + Offset})}),
                 minProb |-> minProb]
           d == DraftFrom(MatchContext(LastOf(w, k)), o, tree)
       IN SpeculateFrom(w, k + 1, minProb, tree,
            IF Below1(Score(d), Score(best.draft)) THEN best
            ELSE [draft |-> d, match |-> k])

Speculate(w, minProb, tree) ==
  SpeculateFrom(w, 1, minProb, tree, [draft |-> <<>>, match |-> 0])

(***************************************************************************)
(* Properties.                                                             *)
(***************************************************************************)

\* How often w stands in the indexed sequences: counted in the sequences, not
\* in the tree.
Occurrences(w) ==
  FoldFunction(LAMBDA q, sum : sum + Cardinality(Index!StartsIn(w, q)), 0, seqs)

\* The tokens from the match to the i-th of a draft.
RECURSIVE Branch(_, _)
Branch(d, i) == IF i = 0 THEN <<>> ELSE Append(Branch(d, d[i].parent), d[i].token)

\* Contexts to speculate from; the match is always shorter, so that their first
\* token does not matter.
Contexts == {<<CHOOSE t \in Tokens : TRUE>> \o w : w \in TupleOf(Tokens, MaxDepth - 1)}

\* A draft continues what follows its match in the indexed sequences, each token
\* with the probability "how often the match is followed so far, over how often
\* the match stands there", never below the minimum asked for, and no token is
\* proposed twice in one place (suffix_tree.h:102-117).
DraftsAreFrequencies ==
  \A w \in Contexts, p \in MinProbs, tree \in BOOLEAN :
    LET b     == Speculate(w, p, tree)
        d     == b.draft
        match == LastOf(w, b.match)
    IN \A i \in DOMAIN d :
         LET long == match \o Branch(d, i)
         IN /\ d[i].prob[1] * Occurrences(match) = Occurrences(long) * d[i].prob[2]
            /\ Occurrences(long) > 0
            /\ ~Below1(d[i].prob, p)
            /\ d[i].parent < i
            /\ \A j \in DOMAIN d : Branch(d, i) = Branch(d, j) => i = j

=============================================================================
