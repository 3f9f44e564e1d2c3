------------------------------ MODULE MapOfKeys -----------------------------
(***************************************************************************)
(* A map from keys to values: what module Int32Map implements.             *)
(***************************************************************************)
EXTENDS Functions

CONSTANTS Keys, Values

VARIABLE store

Init == store = [k \in {} |-> {}]

\* emplace() leaves a key that is present alone.
Emplace(k, v) == /\ k \notin DOMAIN store
                 /\ store' = [j \in DOMAIN store \union {k} |-> IF j = k THEN v ELSE store[j]]

Erase(k) == /\ k \in DOMAIN store
            /\ store' = Restrict(store, DOMAIN store \ {k})

Next == \E k \in Keys : Erase(k) \/ \E v \in Values : Emplace(k, v)

Spec == Init /\ [][Next]_store

=============================================================================
