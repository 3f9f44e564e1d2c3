---------------------------- MODULE MCSuffixTree ----------------------------
(***************************************************************************)
(* The suffix tree on short sequences over two tokens, and the two         *)
(* structures it is built from, which share no state with it: the lists of *)
(* siblings and the hash map.  The variable part says which one runs.      *)
(***************************************************************************)
EXTENDS SuffixDraft, SiblingGroups, Int32Map

VARIABLE part

mcMinProbs == {<<0, 1>>, <<1, 3>>}

\* Keys that collide in 2, 4 and 8 slots.
mcHash == <<0, 0, 1, 5, 4, 3>>

\* The map only stores and returns values.
Interchangeable == Permutations(Values)

\* What the hash map asks of its keys.
ASSUME KeysAreHashed == HashedKeys

AllInit == /\ part \in {"tree", "siblings", "map"}
           /\ Init /\ SiblingsInit /\ MapInit

Steps ==
  /\ UNCHANGED part
  /\ \/ part = "tree" /\ Next /\ UNCHANGED <<list, mapVars>>
     \/ part = "siblings" /\ SiblingsNext /\ UNCHANGED <<vars, mapVars>>
     \/ part = "map" /\ MapNext /\ UNCHANGED <<vars, list>>

AllSpec == AllInit /\ [][Steps]_<<part, vars, list, mapVars>>

\* Modules SuffixTree, SiblingGroups and Int32Map: links, counts, references and
\* pointers agree with one another after any operations.
Integrity ==
  /\ part = "tree" => TreeSound
  /\ part = "siblings" => GroupsAgree
  /\ part = "map" => MapCountsExact

\* Module SuffixDraft: a draft has the frequencies of the indexed text.
DraftsExact == part = "tree" => DraftsAreFrequencies

=============================================================================
