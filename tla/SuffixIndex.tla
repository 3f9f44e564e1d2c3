---------------------------- MODULE SuffixIndex ----------------------------
(***************************************************************************)
(* What the suffix tree promises (src/csrc/suffix_decoding/suffix_tree.h): *)
(* for every string of at most MaxDepth tokens, how many positions of the  *)
(* indexed sequences it starts at.  The empty string starts everywhere.    *)
(***************************************************************************)
EXTENDS Naturals, Sequences, FiniteSets, SequencesExt

CONSTANTS Seqs, Tokens, MaxDepth, MaxLength, MaxExtend

VARIABLES seqs,    \* the indexed sequences, by id
          occurs   \* string -> number of positions it starts at

Strings == BoundedSeq(Tokens, MaxDepth)

Init == /\ seqs = [s \in {} |-> <<>>]
        /\ occurs = [w \in Strings |-> 0]

Indexed(s) == IF s \in DOMAIN seqs THEN seqs[s] ELSE <<>>

\* The positions of q at which w starts.
StartsIn(w, q) ==
  {i \in 1 .. Len(q) : /\ i + Len(w) - 1 <= Len(q)
                       /\ SubSeq(q, i, i + Len(w) - 1) = w}

Recount(w, s, q) ==
  (occurs[w] + Cardinality(StartsIn(w, q))) - Cardinality(StartsIn(w, Indexed(s)))

Extend(s, toks) ==
  LET q == Indexed(s) \o toks
  IN /\ seqs' = [r \in DOMAIN seqs \union {s} |-> IF r = s THEN q ELSE seqs[r]]
     /\ occurs' = [w \in Strings |-> Recount(w, s, q)]

RemoveSeq(s) ==
  /\ s \in DOMAIN seqs
  /\ seqs' = [r \in DOMAIN seqs \ {s} |-> seqs[r]]
  /\ occurs' = [w \in Strings |-> Recount(w, s, <<>>)]

Next ==
  \E s \in Seqs :
    \/ \E toks \in BoundedSeq(Tokens, MaxExtend) \ {<<>>} : Extend(s, toks)
    \/ RemoveSeq(s)

Spec == Init /\ [][Next]_<<seqs, occurs>>

=============================================================================
