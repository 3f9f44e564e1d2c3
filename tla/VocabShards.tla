---------------------------- MODULE VocabShards -----------------------------
(***************************************************************************)
(* How the drafter's embeddings and LM heads are split over the ranks      *)
(* (src/arctic_inference/vllm/spec_dec/vocab_parallel_embedding.py).  A    *)
(* rank holds a stretch of the original vocabulary and then a stretch of   *)
(* the tokens added to it, each padded so that all ranks hold equally      *)
(* many rows.                                                              *)
(*                                                                         *)
(* v is a vocabulary: its original size org, how many tokens were added,   *)
(* the multiple pad its parts are padded to, and the ranks tp_size it is   *)
(* split over.                                                             *)
(***************************************************************************)
EXTENDS Integers, Sequences

pad_vocab_size(n, pad_to) == ((n + pad_to - 1) \div pad_to) * pad_to

OrgPadded(v) == pad_vocab_size(v.org, v.pad)

NumPadded(v) == pad_vocab_size(OrgPadded(v) + v.added, v.pad)

\* divide() asserts it.
Divides(v) == OrgPadded(v) % v.tp_size = 0 /\ (NumPadded(v) - OrgPadded(v)) % v.tp_size = 0

PerPartition(v) == NumPadded(v) \div v.tp_size

\* vocab_range_from_global_vocab_size(): where the rank's stretch begins and ends.
RangeStart(global, rank, world, offset) == rank * (global \div world) + offset
RangeEnd(global, rank, world, offset) == (rank + 1) * (global \div world) + offset

AtMost(n, most) == IF n <= most THEN n ELSE most

\* The shard of a rank: the ids it holds, and the rows of the first stretch.
_get_indices(v, rank) ==
  LET more == NumPadded(v) - OrgPadded(v)
      at(n) == AtMost(n, v.org + v.added)
  IN [org_start   |-> AtMost(RangeStart(OrgPadded(v), rank, v.tp_size, 0), v.org),
      org_end     |-> AtMost(RangeEnd(OrgPadded(v), rank, v.tp_size, 0), v.org),
      org_padded  |-> OrgPadded(v) \div v.tp_size,
      added_start |-> at(RangeStart(more, rank, v.tp_size, v.org)),
      added_end   |-> at(RangeEnd(more, rank, v.tp_size, v.org))]

InOrg(s, id) == s.org_start <= id /\ id < s.org_end
InAdded(s, id) == s.added_start <= id /\ id < s.added_end

\* get_masked_input_and_mask(): does the shard hold the id, and at which row; a
\* masked id is looked up at row 0 and its embedding is zeroed.
Holds(s, id) == InOrg(s, id) \/ InAdded(s, id)

masked_input(s, id) ==
  LET padding      == s.org_padded - (s.org_end - s.org_start)
      added_offset == s.added_start - (s.org_end - s.org_start) - padding
  IN IF ~Holds(s, id) THEN 0
     ELSE id - (IF InOrg(s, id) THEN s.org_start ELSE 0)
             - (IF InAdded(s, id) THEN added_offset ELSE 0)

\* What the row of a shard is for: the inverse, as weight_loader() fills it for
\* the original vocabulary.
HoldsAt(s, id, row) == Holds(s, id) /\ masked_input(s, id) = row

(***************************************************************************)
(* get_sharded_to_full_mapping(): for each id where it is in the gathered  *)
(* shards, the padding last.                                               *)
(***************************************************************************)
Stretch(from, n) == [i \in 1 .. n |-> from + i - 1]

\* The stretches of all ranks, one after the other.
OfAllRanks(v, stretches) ==
  LET upto[k \in 0 .. v.tp_size] == IF k = 0 THEN <<>> ELSE upto[k - 1] \o stretches[k - 1]
  IN upto[v.tp_size]

get_sharded_to_full_mapping(v) ==
  LET ranks    == 0 .. v.tp_size - 1
      start(k) == PerPartition(v) * k
      shard(k) == _get_indices(v, k)
      orgs(k)  == shard(k).org_end - shard(k).org_start
      adds(k)  == shard(k).added_end - shard(k).added_start
      base     == [k \in ranks |-> Stretch(start(k), orgs(k))]
      added    == [k \in ranks |-> Stretch(start(k) + shard(k).org_padded, adds(k))]
      padding  == [k \in ranks |->
                     Stretch(start(k) + orgs(k), shard(k).org_padded - orgs(k))
                       \o Stretch(start(k) + shard(k).org_padded + adds(k),
                                  PerPartition(v) - shard(k).org_padded - adds(k))]
  IN OfAllRanks(v, base) \o OfAllRanks(v, added) \o OfAllRanks(v, padding)

-----------------------------------------------------------------------------
\* Properties.

Ids(v) == 0 .. v.org + v.added - 1

TpRanks(v) == 0 .. v.tp_size - 1

\* An id is embedded by exactly one rank, at a row it has (lines 156-176,
\* 294-322).
HeldOnce(v) ==
  \A id \in Ids(v) : \E k \in TpRanks(v) :
    /\ Holds(_get_indices(v, k), id)
    /\ masked_input(_get_indices(v, k), id) \in 0 .. PerPartition(v) - 1
    /\ \A j \in TpRanks(v) : Holds(_get_indices(v, j), id) => j = k

\* No row is for two ids.
RowsDistinct(v) ==
  \A k \in TpRanks(v) : \A x, y \in Ids(v) :
    /\ Holds(_get_indices(v, k), x) /\ Holds(_get_indices(v, k), y)
    /\ masked_input(_get_indices(v, k), x) = masked_input(_get_indices(v, k), y)
    => x = y

\* The mapping finds every id in the gathered shards, and uses every place once.
MappingExact(v) ==
  LET map == get_sharded_to_full_mapping(v)
  IN /\ {map[i] : i \in DOMAIN map} = 0 .. NumPadded(v) - 1 /\ Len(map) = NumPadded(v)
     /\ \A id \in Ids(v) :
          LET k == map[id + 1] \div PerPartition(v)
          IN HoldsAt(_get_indices(v, k), id, map[id + 1] % PerPartition(v))

ShardsExact(v) == HeldOnce(v) /\ RowsDistinct(v) /\ MappingExact(v)

=============================================================================
