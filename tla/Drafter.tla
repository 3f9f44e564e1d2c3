------------------------------ MODULE Drafter -------------------------------
(***************************************************************************)
(* The Arctic drafter (src/arctic_inference/vllm/spec_dec): what the       *)
(* proposer feeds it for each request, how the speculator runs a batch     *)
(* with or without CUDA graphs in static buffers, and how the ranks that   *)
(* share its vocabulary pick each token.                                   *)
(*                                                                         *)
(* The network is abstract: a state is a number below NumStates; a head    *)
(* makes the next state of the state and the embedding of the last token   *)
(* (Mix), and a score of the state and an id (Score).  The ranks of a      *)
(* group run in step, so a step here is a call of the drafter on all of    *)
(* them; the vocabulary's arithmetic is in VocabShards.                    *)
(***************************************************************************)
EXTENDS VocabShards, FiniteSets, FiniteSetsExt

CONSTANTS Drafters,    \* the drafters explored; see the variable drafter
          Batches,     \* the batches explored; see Feed
          NumStates,   \* hidden states
          QuantBatch,  \* largest batch the quantized head is for: 32
          MaxVersions, \* bound: versions of the weights
          Garbage      \* what a buffer holds before it is first written

VARIABLES drafter,  \* kind ("mlp", "lstm"), tied, tp, sp, vocab, pad, graphs, maxSeqs
                    \* (max_num_seqs), soft (disable_by_batch_size), n_predict, async
          weights,  \* version of the newest weights, of those in head and in qhead
          cuda_graphs, \* the padded sizes captured
          buffers,  \* static_cuda_buffers
          fed,      \* the batch of the last call, as the sampler left it, and the
                    \* version of the newest weights then
          given,    \* the rows the drafter was called with
          drafts    \* what it returned: row -> its n_predict ids

drafterVars == <<drafter, weights, cuda_graphs, buffers, fed, given, drafts>>

(***************************************************************************)
(* Sizes.                                                                  *)
(***************************************************************************)

\* 1 << (n - 1).bit_length()
UpToPower(n) == Min({p \in {2 ^ k : k \in 0 .. n} : p >= n})

padding_size(size) ==
  LET mult == UpToPower(size) \div 4
  IN IF mult < 1 THEN size ELSE ((size + mult - 1) \div mult) * mult

\* cuda_graph_max_batch_size: the MLP's is set twice, the last time by max_num_seqs.
Capacity(d) == padding_size(IF d.kind = "mlp" THEN d.maxSeqs ELSE d.soft)

\* SpeculatorTPInit: over how many ranks the vocabulary is split.
TpSize(d) == IF d.sp > d.tp THEN d.sp ELSE d.tp

Vocabulary(d) == [org |-> d.vocab, added |-> 0, pad |-> d.pad, tp_size |-> TpSize(d)]

\* The ranks of the group that gathers the shards, by their tp_rank.
Members(d) == 0 .. TpSize(d) - 1

\* The ranks whose embeddings tensor_model_parallel_all_reduce() adds up for m:
\* those of vLLM's tensor parallel group, also when the shards are over another.
Reduced(d, m) == IF d.sp > d.tp THEN {m} ELSE Members(d)

Shard(d, m) == _get_indices(Vocabulary(d), m)

(***************************************************************************)
(* The network.                                                            *)
(***************************************************************************)

\* The embedding of an id is id + 1, that of a padding row 0 (weight_loader()).
Mix(state, z) == (2 * state + z) % NumStates

\* Distinct for distinct ids; in state 0 no score is positive.
Score(version, state, id, vocab) ==
  IF state = 0 THEN 0 - 1 - id
  ELSE 1 + ((id + 2 * state + version) % vocab)

\* One lookup in the rows of rank m.
Lookup(d, m, row) ==
  LET s == Shard(d, m) IN IF row < s.org_end - s.org_start THEN s.org_start + row + 1 ELSE 0

\* VocabParallelEmbedding.forward() on rank m.
Embed(d, m, id) ==
  LET part(k) == IF Holds(Shard(d, k), id) THEN Lookup(d, k, masked_input(Shard(d, k), id)) ELSE 0
      clamped == IF id < 0 THEN 0 ELSE AtMost(id, PerPartition(Vocabulary(d)) - 1)
  IN IF TpSize(d) = 1 THEN Lookup(d, m, clamped)
     ELSE MapThenSumSet(part, Reduced(d, m))

\* The columns of rank m's logits: _get_logits() cuts each shard, not the whole,
\* to the size of the vocabulary.
Columns(d) == AtMost(PerPartition(Vocabulary(d)), d.vocab)

Logit(d, version, m, state, column) ==
  LET s == Shard(d, m)
  IN IF column < s.org_end - s.org_start
     THEN Score(version, state, s.org_start + column, d.vocab) ELSE 0

\* The first of the largest of rank m, and its place in the gathered logits.
LocalBest(d, version, m, state) ==
  LET columns == 0 .. Columns(d) - 1
      best    == Max({Logit(d, version, m, state, c) : c \in columns})
  IN [val |-> best,
      at  |-> m * Columns(d) + Min({c \in columns : Logit(d, version, m, state, c) = best})]

Clamp(d, id) == IF id < 0 THEN 0 ELSE AtMost(id, d.vocab - 1)

\* The first of the ranks with the largest.
PickToken(d, version, states) ==
  LET best == {LocalBest(d, version, m, states[m]) : m \in Members(d)}
      val  == Max({b.val : b \in best})
  IN Clamp(d, Min({b.at : b \in {c \in best : c.val = val}}))

(***************************************************************************)
(* generate_token_ids(): the rows do not see each other.  A row has the    *)
(* last token, the hidden state and, for an LSTM, the cell state.          *)
(***************************************************************************)
Draft(d, version, row) ==
  LET first == IF d.kind = "lstm" THEN Clamp(d, row.token) ELSE row.token
      head[k \in 0 .. d.n_predict] ==
        IF k = 0 THEN [token |-> first, states |-> [m \in Members(d) |-> row.hidden + row.cell]]
        ELSE LET before == head[k - 1]
                 states == [m \in Members(d) |-> Mix(before.states[m], Embed(d, m, before.token))]
             IN [token |-> PickToken(d, version, states), states |-> states]
  IN [k \in 1 .. d.n_predict |-> head[k].token]

\* The head for a batch (with graphs, for its padded size).
HeadVersion(d, size) ==
  IF d.tied /\ size <= QuantBatch THEN weights.qhead ELSE weights.head

(***************************************************************************)
(* The proposer.  A request of a batch has the number of its drafts that   *)
(* were verified, how many tokens were sampled for it (the rest of its row *)
(* is -1), and whether vLLM discards them, a chunk of its prompt being     *)
(* still to come.                                                          *)
(***************************************************************************)
NextToken(i, kept) == (2 * i + kept) % drafter.vocab

\* sample_hidden_states: the flattened rows of all requests, 1 + drafted each.
HiddenRows(batch) ==
  LET upto[k \in 0 .. Len(batch)] ==
        IF k = 0 THEN <<>>
        ELSE upto[k - 1] \o [j \in 1 .. batch[k].drafted + 1 |-> <<k, j>>]
  IN upto[Len(batch)]

prepare_hidden_states(batch) ==
  LET offset(i) == MapThenSumSet(LAMBDA k : batch[k].drafted + 1, 1 .. i - 1)
      last(i)   == IF batch[i].kept > 0 THEN batch[i].kept - 1 ELSE 0
  IN [i \in DOMAIN batch |-> HiddenRows(batch)[offset(i) + last(i) + 1]]

\* prepare_next_token_ids_padded() takes a token of the prompt for a request that
\* is discarded, prepare_next_token_ids_cpu() what was sampled.
PromptToken(i) == i % drafter.vocab

prepare_next_token_ids(batch) ==
  [i \in DOMAIN batch |->
     IF drafter.async /\ batch[i].discard THEN PromptToken(i)
     ELSE NextToken(i, batch[i].kept)]

HiddenOf(row) == (row[1] + 2 * row[2]) % NumStates

\* propose_draft_token_ids(): the rows of the first requests.
Feed(batch) ==
  [i \in 1 .. AtMost(Len(batch), drafter.soft) |->
     [token  |-> prepare_next_token_ids(batch)[i],
      hidden |-> HiddenOf(prepare_hidden_states(batch)[i]), cell |-> 0]]

(***************************************************************************)
(* generate_proposals()                                                    *)
(***************************************************************************)

\* _prepare_cuda_graph_ios(): the first rows are overwritten.
Written(rows) ==
  [i \in DOMAIN buffers.rows |-> IF i <= Len(rows) THEN rows[i] ELSE buffers.rows[i]]

\* The LSTM model writes its buffers in every call.
UsesBuffers(size) == drafter.kind = "lstm" \/ (drafter.graphs /\ size <= Capacity(drafter))

UsesGraph(size) == drafter.graphs /\ size <= Capacity(drafter)

\* The rows computed in the static buffers: a captured graph of the padded size,
\* or the run before and for its capture.
InGraph(rows) ==
  LET size == padding_size(Len(rows))
      new  == [i \in DOMAIN buffers.next |->
                 IF i <= size THEN Draft(drafter, HeadVersion(drafter, size), Written(rows)[i])
                 ELSE buffers.next[i]]
  IN /\ buffers' = [rows |-> Written(rows), next |-> new]
     /\ cuda_graphs' = cuda_graphs \union {size}
     /\ drafts' = [i \in 1 .. Len(rows) |-> new[i]]

Eagerly(rows) ==
  LET used == IF drafter.kind = "lstm" THEN Written(rows) ELSE rows
  IN /\ buffers' = IF drafter.kind = "lstm" THEN [buffers EXCEPT !.rows = Written(rows)]
                   ELSE buffers
     /\ drafts' = [i \in 1 .. Len(rows) |->
                     Draft(drafter, HeadVersion(drafter, Len(rows)), used[i])]
     /\ UNCHANGED cuda_graphs

Propose(batch) ==
  /\ Len(batch) <= drafter.maxSeqs
  /\ \A i \in DOMAIN batch : batch[i].drafted <= drafter.n_predict
  /\ fed' = [batch |-> batch, version |-> weights.newest]
  /\ given' = Feed(batch)
  /\ IF UsesGraph(Len(Feed(batch))) THEN InGraph(Feed(batch)) ELSE Eagerly(Feed(batch))
  /\ UNCHANGED <<drafter, weights>>

(***************************************************************************)
(* load_weights() again on a model that runs: the quantized head has lost  *)
(* its loader and is derived from the head once that is loaded.            *)
(***************************************************************************)
load_weights ==
  /\ weights.newest < MaxVersions
  /\ weights' = [newest |-> weights.newest + 1, head |-> weights.newest + 1,
                 qhead |-> IF drafter.tied THEN weights.newest + 1 ELSE weights.qhead]
  /\ UNCHANGED <<drafter, cuda_graphs, buffers, fed, given, drafts>>

Fresh(d) == [rows |-> [i \in 1 .. Capacity(d) |-> [token |-> Garbage, hidden |-> 0, cell |-> 0]],
             next |-> [i \in 1 .. Capacity(d) |-> <<>>]]

\* reload_weights(): a new model takes the place of the old one.
reload ==
  /\ weights.newest < MaxVersions
  /\ LET n == weights.newest + 1 IN weights' = [newest |-> n, head |-> n, qhead |-> n]
  /\ cuda_graphs' = {} /\ buffers' = Fresh(drafter)
  /\ UNCHANGED <<drafter, fed, given, drafts>>

Init ==
  /\ drafter \in Drafters
  /\ weights = [newest |-> 1, head |-> 1, qhead |-> 1]
  /\ cuda_graphs = {} /\ buffers = Fresh(drafter)
  /\ fed = [batch |-> <<>>, version |-> 1] /\ given = <<>> /\ drafts = <<>>

Next == (\E batch \in Batches : Propose(batch)) \/ load_weights \/ reload

Spec == Init /\ [][Next]_drafterVars

(***************************************************************************)
(* Properties.                                                             *)
(***************************************************************************)

\* What is fixed when the drafter is built: the shards and the padded sizes, which
\* fit the buffers and are sizes a graph of their own is not needed for.
SizesExact ==
  /\ ShardsExact(Vocabulary(drafter))
  /\ \A n \in 1 .. Capacity(drafter) :
       /\ n <= padding_size(n) /\ padding_size(n) <= Capacity(drafter)
       /\ padding_size(padding_size(n)) = padding_size(n)

\* A call computes in rows that exist.
RowsFit == Len(given) <= Capacity(drafter) \/ ~UsesBuffers(Len(given))

\* Each request's drafts start from its last accepted token and from the hidden
\* state that token was sampled from, wherever its rows begin in the batch.
FedRight ==
  \A i \in DOMAIN given :
    LET request == fed.batch[i]
    IN request.discard \/ /\ given[i].token = NextToken(i, request.kept)
                          /\ given[i].hidden = HiddenOf(<<i, request.kept>>)

\* The best id of the whole vocabulary, head after head, with one set of weights.
Best(version, state) ==
  LET ids == 0 .. drafter.vocab - 1
      score(id) == Score(version, state, id, drafter.vocab)
  IN Min({id \in ids : score(id) = Max({score(x) : x \in ids})})

Whole(version, row) ==
  LET head[k \in 0 .. drafter.n_predict] ==
        IF k = 0 THEN [token |-> row.token, state |-> row.hidden]
        ELSE LET state == Mix(head[k - 1].state, head[k - 1].token + 1)
             IN [token |-> Best(version, state), state |-> state]
  IN head

\* Some score is positive; otherwise the padding of a shard, which scores 0, wins.
Positive(version, row) ==
  TpSize(drafter) = 1 \/ \A k \in 1 .. drafter.n_predict : Whole(version, row)[k].state # 0

\* Whatever was computed in the buffers before, at whatever size and with whatever
\* weights, and however the vocabulary is split: the drafts of a row are those of
\* the newest weights and the whole vocabulary for that row alone.  Not so when the
\* shards are over the sequence parallel ranks, where the embeddings are not added.
DraftsExact ==
  \A i \in DOMAIN drafts :
    drafter.sp <= drafter.tp /\ Positive(fed.version, given[i]) =>
      drafts[i] = [k \in 1 .. drafter.n_predict |-> Whole(fed.version, given[i])[k].token]

=============================================================================
