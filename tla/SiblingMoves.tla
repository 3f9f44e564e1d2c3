---------------------------- MODULE SiblingMoves ----------------------------
(***************************************************************************)
(* Where a child goes among its siblings, which are kept in order of       *)
(* nonincreasing count (suffix_tree.h:57-69), when its count changes by    *)
(* one.  sb is the list of siblings, cnt their counts.                     *)
(***************************************************************************)
EXTENDS Integers, Sequences, SequencesExt, FiniteSetsExt

Place(sb, n) == CHOOSE i \in DOMAIN sb : sb[i] = n

\* One more: in front of all that have the count of the one before it, unless
\* that one stays ahead.
Raised(sb, cnt, n) ==
  LET i    == Place(sb, n)
      same == {j \in DOMAIN sb : cnt[sb[j]] = cnt[sb[i - 1]]}
  IN IF i = 1 \/ cnt[sb[i - 1]] > cnt[n] + 1 THEN sb
     ELSE InsertAt(RemoveAt(sb, i), Min(same), n)

\* One less: behind the last that has its old count.
Lowered(sb, cnt, n) ==
  InsertAt(RemoveAt(sb, Place(sb, n)),
           Max({j \in DOMAIN sb : cnt[sb[j]] = cnt[n]}), n)

=============================================================================
