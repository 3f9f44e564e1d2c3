---------------------------- MODULE WeightChannel ---------------------------
(***************************************************************************)
(* What a weight transfer promises the model that receives it: in every    *)
(* round each weight the model has a place for arrives once, in the order  *)
(* of the sender and with the sender's bytes, and the receiver reports a   *)
(* round only when all of it is in place.                                  *)
(***************************************************************************)
EXTENDS Naturals, Sequences, SequencesExt

VARIABLES goals,    \* the weights of each round begun so far
          loaded,   \* what was written into the model, in order
          reported  \* rounds the receiver has reported as done

Init == goals = <<>> /\ loaded = <<>> /\ reported = 0

Begin(ws) == /\ goals' = Append(goals, ws)
             /\ UNCHANGED <<loaded, reported>>

Load == LET due == FlattenSeq(goals)
        IN /\ Len(loaded) < Len(due)
           /\ loaded' = Append(loaded, due[Len(loaded) + 1])
           /\ UNCHANGED <<goals, reported>>

Report == /\ reported < Len(goals)
          /\ Len(loaded) >= Len(FlattenSeq(SubSeq(goals, 1, reported + 1)))
          /\ reported' = reported + 1
          /\ UNCHANGED <<goals, loaded>>

\* The weights a round may have are the implementation's business.
Next == Load \/ Report \/ (goals' # goals /\ Begin(goals'[Len(goals')]))

Spec == Init /\ [][Next]_<<goals, loaded, reported>>

=============================================================================
