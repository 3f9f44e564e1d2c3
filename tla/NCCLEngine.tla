----------------------------- MODULE NCCLEngine -----------------------------
(***************************************************************************)
(* A weight transfer from a training process to one inference worker       *)
(* (src/arctic_inference/server/weight_sync/engine.py).  On each side the  *)
(* program only issues operations to two CUDA streams, the default one and *)
(* the one of NCCL; each runs its own in order, later, and only events and *)
(* synchronizations order one against the other.  Every packed bucket and  *)
(* every received one live in one of two buffers that are used again.      *)
(*                                                                         *)
(* A copy between host and device that the program does not ask to be      *)
(* non-blocking returns when its stream has drained (PyTorch), which is    *)
(* how _write_meta() and _parse_meta() wait for the default stream.        *)
(***************************************************************************)
EXTENDS Integers, Sequences, SequencesExt, Folds

CONSTANTS Models,       \* the models sent: sequences of the sizes of their weights
          BucketSize,
          Place,        \* weight -> the receiver's view of it: "fits", "padded", "none",
                        \* "mismatch" if the loader cannot fill it with that weight
                        \* (view.copy_() of the bucket path not even a padded one)
          Rounds,       \* bound: rounds of one engine
          MaxFaults,    \* bound: tensors whose gathering raises
          Nil

ASSUME EngineConstants ==
  /\ BucketSize \in Nat \ {0} /\ Rounds \in Nat /\ MaxFaults \in Nat
  /\ \A m \in Models : /\ m \in Seq(Nat)
                        /\ \A i \in DOMAIN m : Place[i] \in {"fits", "padded", "none", "mismatch"}
  /\ Nil \notin {0, 1}

VARIABLES direct,  \* per-weight transfers (send_weights_direct) or buckets
          model,   \* the sizes of the weights of this round
          snd,     \* send_weights(): its program counter and local variables
          sDefault, sNccl,   \* the sender's streams: operations not yet run
          sMeta, sData,      \* _meta_bufs, _data_bufs of the sender
          sendEvent,         \* _send_events: [made, reached], how often recorded
          rcv,     \* receive_weights()
          rDefault, rNccl, rMeta, rData,
          goals, loaded, reported, faults

engineVars == <<direct, model, snd, sDefault, sNccl, sMeta, sData, sendEvent, rcv,
                rDefault, rNccl, rMeta, rData, goals, loaded, reported, faults>>

sender   == <<model, snd, sDefault, sNccl, sMeta, sData, sendEvent, goals, faults>>
receiver == <<rcv, rDefault, rNccl, rMeta, rData, loaded, reported>>

Buffers == {0, 1}
NoMeta == [tensors |-> <<>>, last |-> FALSE]
Blank == [x \in 1 .. BucketSize |-> Nil]

Init == /\ direct \in BOOLEAN
        /\ model = <<>>
        /\ snd = [pc |-> "idle", round |-> 0, next |-> 1, pack |-> 0, prev |-> Nil,
                  meta |-> <<>>, offset |-> 0]
        /\ sDefault = <<>> /\ sNccl = <<>> /\ rDefault = <<>> /\ rNccl = <<>>
        /\ sMeta = [b \in Buffers |-> NoMeta] /\ rMeta = sMeta
        /\ sData = [b \in Buffers |-> Blank] /\ rData = sData
        /\ sendEvent = [b \in Buffers |-> [made |-> 0, reached |-> 0]]
        /\ rcv = [pc |-> "idle", buf |-> 0]
        /\ goals = <<>> /\ loaded = <<>> /\ reported = 0 /\ faults = 0

\* The weights of a round that the receiver's model has a place for.
Wanted(w) == Place[w[2]] # "none"

Chosen(ws) == FlattenSeq([i \in DOMAIN ws |-> IF Wanted(ws[i]) THEN <<ws[i]>> ELSE <<>>])

(***************************************************************************)
(* The sender's program.                                                   *)
(***************************************************************************)

Weight(i) == <<snd.round, i>>

\* A call of send_weights() or send_weights_direct(), after an earlier one ended.
SendBegins(m) ==
  /\ snd.pc \in {"idle", "done"} /\ snd.round < Rounds
  /\ model' = m
  /\ snd' = [pc |-> "pack", round |-> snd.round + 1, next |-> 1, pack |-> 0,
             prev |-> Nil, meta |-> <<>>, offset |-> 0]
  /\ goals' = Append(goals, Chosen([i \in DOMAIN m |-> <<snd.round + 1, i>>]))
  /\ UNCHANGED <<direct, sDefault, sNccl, sMeta, sData, sendEvent, faults, receiver>>

Packing == snd.pc = "pack" /\ snd.next <= Len(model)

Fits == snd.offset + model[snd.next] <= BucketSize

\* The next weight is copied into the bucket.
Pack ==
  LET n == model[snd.next]
  IN /\ Packing /\ ~direct /\ n <= BucketSize /\ Fits
     /\ sDefault' = Append(sDefault, [op |-> "copy", w |-> Weight(snd.next),
                                      buf |-> snd.pack, at |-> snd.offset, n |-> n])
     /\ snd' = [snd EXCEPT !.next = @ + 1, !.offset = @ + n,
                           !.meta = Append(@, [w |-> Weight(snd.next), at |-> snd.offset, n |-> n])]
     /\ UNCHANGED <<direct, model, sNccl, sMeta, sData, sendEvent, goals, faults, receiver>>

\* The bucket is full, or was the last: _flush_bucket_send() makes the default
\* stream wait until the other buffer, the next to be packed, has been sent.
FlushBegins ==
  /\ snd.pc = "pack" /\ ~direct
  /\ Packing => model[snd.next] <= BucketSize /\ ~Fits
  /\ sDefault' = IF snd.prev = Nil THEN sDefault
                 ELSE Append(sDefault, [op |-> "wait", buf |-> snd.prev,
                                        n |-> sendEvent[snd.prev].made])
  /\ snd' = [snd EXCEPT !.pc = "flush"]
  /\ UNCHANGED <<direct, model, sNccl, sMeta, sData, sendEvent, goals, faults, receiver>>

\* _write_meta() and _send_pair().
FlushIssues ==
  LET b == snd.pack
  IN /\ snd.pc = "flush" /\ sDefault = <<>>
     /\ sMeta' = [sMeta EXCEPT ![b] = [tensors |-> snd.meta, last |-> snd.next > Len(model)]]
     /\ sNccl' = sNccl \o <<[op |-> "meta", buf |-> b], [op |-> "data", buf |-> b],
                            [op |-> "event", buf |-> b]>>
     /\ sendEvent' = [sendEvent EXCEPT ![b].made = @ + 1]
     /\ snd' = [snd EXCEPT !.pc = IF snd.next > Len(model) THEN "sync" ELSE "pack",
                           !.prev = b, !.pack = 1 - b, !.meta = <<>>, !.offset = 0]
     /\ UNCHANGED <<direct, model, sDefault, sData, goals, faults, receiver>>

\* _send_one_direct(): the header of one weight.
DirectEntry(i) == [w |-> Weight(i), at |-> 0, n |-> model[i]]

\* One weight, or the sentinel after the last.
SendDirect ==
  LET more == snd.next <= Len(model)
      entry == DirectEntry(snd.next)
  IN /\ snd.pc = "pack" /\ direct /\ sNccl = <<>>
     /\ sMeta' = [sMeta EXCEPT ![0] = IF more THEN [tensors |-> <<entry>>, last |-> FALSE]
                                      ELSE [tensors |-> <<>>, last |-> TRUE]]
     /\ sNccl' = <<[op |-> "meta", buf |-> 0]>>
                 \o IF more THEN <<[op |-> "raw", w |-> entry.w]>> ELSE <<>>
     /\ snd' = [snd EXCEPT !.next = @ + 1, !.pc = IF more THEN "pack" ELSE "sync"]
     /\ UNCHANGED <<direct, model, sDefault, sData, sendEvent, goals, faults, receiver>>

\* A weight larger than a bucket, or one the trainer fails to gather.
SendRaises ==
  /\ Packing
  /\ \/ /\ ~direct /\ model[snd.next] > BucketSize
        /\ UNCHANGED faults
     \/ /\ faults < MaxFaults
        /\ faults' = faults + 1
  /\ snd' = [snd EXCEPT !.pc = "raised"]
  /\ UNCHANGED <<direct, model, sDefault, sNccl, sMeta, sData, sendEvent, goals, receiver>>

SendReturns ==
  /\ snd.pc = "sync" /\ sNccl = <<>>
  /\ snd' = [snd EXCEPT !.pc = "done"]
  /\ UNCHANGED <<direct, model, sDefault, sNccl, sMeta, sData, sendEvent, goals, faults, receiver>>

(***************************************************************************)
(* The receiver's program.                                                 *)
(***************************************************************************)

RecvPair(b) == <<[op |-> "meta", buf |-> b], [op |-> "data", buf |-> b]>>

ReceiveBegins ==
  /\ rcv.pc \in {"idle", "done"} /\ reported < Rounds
  /\ rcv' = [pc |-> "wait", buf |-> 0]
  /\ rNccl' = rNccl \o IF direct THEN <<[op |-> "meta", buf |-> 0]>> ELSE RecvPair(0)
  /\ UNCHANGED <<direct, sender, rDefault, rMeta, rData, loaded, reported>>

\* Mutant of Drained: copies into the model may still be under way.
Received == rNccl = <<>>

\* The NCCL stream is synchronized, and _parse_meta() drains the default stream.
Drained == rNccl = <<>> /\ rDefault = <<>>

CopiesOut(b) == [i \in DOMAIN rMeta[b].tensors |->
                   [op |-> "copy", buf |-> b, t |-> rMeta[b].tensors[i]]]

\* The tensors of a bucket whose copy into the model raises.
Refused(b) == {i \in DOMAIN rMeta[b].tensors : Place[rMeta[b].tensors[i].w[2]] = "mismatch"}

\* One bucket: the next one is received into the other buffer while the caller
\* copies the tensors of this one into the model.
TakeBucket ==
  LET b == rcv.buf
  IN /\ rcv.pc = "wait" /\ ~direct /\ Drained /\ Refused(b) = {}
     /\ rNccl' = IF rMeta[b].last THEN <<>> ELSE RecvPair(1 - b)
     /\ rDefault' = CopiesOut(b)
     /\ rcv' = IF rMeta[b].last THEN [rcv EXCEPT !.pc = "built"]
               ELSE [rcv EXCEPT !.buf = 1 - b]
     /\ UNCHANGED <<direct, sender, rMeta, rData, loaded, reported>>

\* The copy of one raises: the ones before it go into the model and the next
\* bucket is received, but no one asks for another.
LoadRaises ==
  LET b == rcv.buf
  IN /\ rcv.pc = "wait" /\ ~direct /\ Drained
     /\ rNccl' = IF rMeta[b].last THEN <<>> ELSE RecvPair(1 - b)
     /\ \E i \in Refused(b) : /\ \A j \in Refused(b) : i <= j
                             /\ rDefault' = SubSeq(CopiesOut(b), 1, i - 1)
     /\ rcv' = [rcv EXCEPT !.pc = "raised"]
     /\ UNCHANGED <<direct, sender, rMeta, rData, loaded, reported>>

\* One weight: NCCL writes into the view if it has the right size, else into
\* scratch memory, from which a padded view is filled.
TakeDirect ==
  /\ rcv.pc = "wait" /\ direct /\ Drained
  /\ IF rMeta[0].last THEN /\ rcv' = [rcv EXCEPT !.pc = "built"]
                           /\ UNCHANGED rNccl
     ELSE /\ rcv' = [rcv EXCEPT !.pc = "raw"]
          /\ rNccl' = <<[op |-> "raw", into |-> Place[rMeta[0].tensors[1].w[2]]]>>
  /\ UNCHANGED <<direct, sender, rDefault, rMeta, rData, loaded, reported>>

DirectTaken ==
  /\ rcv.pc = "raw" /\ rNccl = <<>> /\ Refused(0) = {}
  /\ rDefault' = IF Place[rMeta[0].tensors[1].w[2]] = "padded" THEN CopiesOut(0) ELSE <<>>
  /\ rNccl' = <<[op |-> "meta", buf |-> 0]>>
  /\ rcv' = [rcv EXCEPT !.pc = "wait"]
  /\ UNCHANGED <<direct, sender, rMeta, rData, loaded, reported>>

\* The weight has come, and the view is of another shape.
DirectRaises ==
  /\ rcv.pc = "raw" /\ rNccl = <<>> /\ Refused(0) # {}
  /\ rcv' = [rcv EXCEPT !.pc = "raised"]
  /\ UNCHANGED <<direct, sender, rDefault, rNccl, rMeta, rData, loaded, reported>>

\* _build_result() synchronizes the device.
ReceiveReturns ==
  /\ rcv.pc = "built" /\ Drained
  /\ reported' = reported + 1
  /\ rcv' = [rcv EXCEPT !.pc = "done"]
  /\ UNCHANGED <<direct, sender, rDefault, rNccl, rMeta, rData, loaded>>

(***************************************************************************)
(* The streams.                                                            *)
(***************************************************************************)

Filled(data, op) ==
  [data EXCEPT ![op.buf] = [x \in DOMAIN @ |-> IF x \in op.at + 1 .. op.at + op.n
                                               THEN op.w ELSE @[x]]]

SenderDefaultRuns ==
  /\ sDefault # <<>>
  /\ LET op == Head(sDefault)
     IN \/ /\ op.op = "copy"
           /\ sData' = Filled(sData, op)
        \/ /\ op.op = "wait" /\ sendEvent[op.buf].reached >= op.n
           /\ UNCHANGED sData
  /\ sDefault' = Tail(sDefault)
  /\ UNCHANGED <<direct, model, snd, sNccl, sMeta, sendEvent, goals, faults, receiver>>

EventReached ==
  /\ sNccl # <<>> /\ Head(sNccl).op = "event"
  /\ sendEvent' = [sendEvent EXCEPT ![Head(sNccl).buf].reached = @ + 1]
  /\ sNccl' = Tail(sNccl)
  /\ UNCHANGED <<direct, model, snd, sDefault, sMeta, sData, goals, faults, receiver>>

\* A send and a receive meet: what the send buffer holds now is transferred.
Transfer ==
  /\ sNccl # <<>> /\ rNccl # <<>> /\ Head(sNccl).op = Head(rNccl).op
  /\ LET s == Head(sNccl)
         r == Head(rNccl)
     IN \/ /\ s.op = "meta"
           /\ rMeta' = [rMeta EXCEPT ![r.buf] = sMeta[s.buf]]
           /\ UNCHANGED <<rData, loaded>>
        \/ /\ s.op = "data"
           /\ rData' = [rData EXCEPT ![r.buf] = sData[s.buf]]
           /\ UNCHANGED <<rMeta, loaded>>
        \/ /\ s.op = "raw" /\ r.into = "fits"
           /\ loaded' = Append(loaded, s.w)
           /\ UNCHANGED <<rMeta, rData>>
        \/ /\ s.op = "raw" /\ r.into # "fits"
           /\ rData' = [rData EXCEPT ![0] = [x \in DOMAIN @ |-> s.w]]
           /\ UNCHANGED <<rMeta, loaded>>
  /\ sNccl' = Tail(sNccl) /\ rNccl' = Tail(rNccl)
  /\ UNCHANGED <<direct, model, snd, sDefault, sMeta, sData, sendEvent, goals, faults,
                 rcv, rDefault, reported>>

\* A copy into the model takes the bytes the buffer holds when it runs: t.w if
\* all of them are that weight's.
ReceiverDefaultRuns ==
  /\ rDefault # <<>>
  /\ LET op == Head(rDefault)
         bytes == {rData[op.buf][x] : x \in (op.t.at + 1 .. op.t.at + op.t.n) \cap (1 .. BucketSize)}
     IN loaded' = IF ~Wanted(op.t.w) THEN loaded
                  ELSE Append(loaded, IF bytes \subseteq {op.t.w} THEN op.t.w ELSE <<Nil, bytes>>)
  /\ rDefault' = Tail(rDefault)
  /\ UNCHANGED <<direct, sender, rcv, rNccl, rMeta, rData, reported>>

SenderSteps == Pack \/ FlushBegins \/ FlushIssues \/ SendDirect \/ SendReturns
ReceiverSteps ==
  TakeBucket \/ LoadRaises \/ TakeDirect \/ DirectTaken \/ DirectRaises \/ ReceiveReturns
StreamSteps == SenderDefaultRuns \/ EventReached \/ Transfer \/ ReceiverDefaultRuns

Next == \/ \E m \in Models : SendBegins(m)
        \/ ReceiveBegins \/ SendRaises
        \/ SenderSteps \/ ReceiverSteps \/ StreamSteps

Spec == Init /\ [][Next]_engineVars

(***************************************************************************)
(* Properties.                                                             *)
(***************************************************************************)

Channel == INSTANCE WeightChannel

\* Both protocols implement the channel: no buffer is overwritten while a send
\* or a copy still needs it, and no part of a round is missing when the receiver
\* reports it.
ImplementsChannel == Channel!Spec

\* The sender is left in a transfer: the receiver raised and makes no more of them.
Stranded ==
  rcv.pc = "raised" /\ rNccl = <<>> /\ sNccl # <<>> /\ Head(sNccl).op # "event"

\* A call of send ends, returning or raising, and so does the receive that meets it
\* (engine.py:86-205).  The one way a side may wait for ever in a transfer the
\* other does not make is that the receiver refused a weight with more of the round
\* to come than it had asked for (engine.py:329-334, receiver.py:313).
TransfersEnd ==
  /\ snd.pc \notin {"idle", "done", "raised"} ~> snd.pc \in {"done", "raised"} \/ Stranded
  /\ \A k \in 1 .. Rounds :
       (snd.pc = "done" /\ snd.round = k) ~> reported >= k \/ rcv.pc = "raised"

=============================================================================
