------------------------------ MODULE SwiftKV ------------------------------
(***************************************************************************)
(* A forward pass of a SwiftKV model                                       *)
(* (src/arctic_inference/vllm/swiftkv/llama_swiftkv.py).  The first layers *)
(* process every token of the batch and yield the keys and values of all   *)
(* later layers; the later ones process only the tokens whose logits are   *)
(* wanted.  swiftkv_select() writes the cache for all tokens, drops the    *)
(* others and rewrites the metadata of the attention kernels to match.     *)
(*                                                                         *)
(* A token is <<request, position>> and stands for its hidden state, its   *)
(* key and its value.  The later layers are alike, one stands for all.     *)
(***************************************************************************)
EXTENDS Integers, Sequences, FiniteSets, SequencesExt, FiniteSetsExt, Folds

CONSTANTS MaxRequests,  \* bound: requests in the batch
          Contexts,     \* computed tokens a request may have
          MaxQuery,     \* bound: tokens of a request in the batch
          MaxKeep,      \* bound: of these, how many have logits (drafts and one)
          PageSize,     \* block_size
          GraphSizes,   \* captured sizes of the decode runner
          Nothing       \* a row of the buffers that is not used

VARIABLES backend,   \* "flash_attention" or "flashinfer"
          batch,     \* the requests: [ctx, n, keep]
          pc, rows,  \* where the pass is, and the rows of its tensors
          meta,      \* the attention metadata
          kv,        \* slot <<request, position>> -> the token whose key is there
          out        \* orig_hidden_states: row -> what the later layers made of it

swiftVars == <<backend, batch, pc, rows, meta, kv, out>>

Sums(seq) == [i \in 0 .. Len(seq) |-> FoldLeft(LAMBDA x, y : x + y, 0, SubSeq(seq, 1, i))]

\* The function on 0 .. n - 1 of a sequence, as the tensors are indexed.
Zero(seq) == [i \in 0 .. Len(seq) - 1 |-> seq[i + 1]]

Tokens(b) == FlattenSeq([r \in DOMAIN b |-> [i \in 1 .. b[r].n |-> <<r, b[r].ctx + i>>]])

Lengths(b) == [r \in DOMAIN b |-> b[r].ctx + b[r].n]

\* The rows whose logits are wanted: the last of each request.
LogitsIndices(b) ==
  LET start == Sums([r \in DOMAIN b |-> b[r].n])
  IN FlattenSeq([r \in DOMAIN b |->
       [i \in 1 .. b[r].keep |-> start[r] - b[r].keep + i - 1]])

Pages(length) == (length + PageSize - 1) \div PageSize

\* What vLLM builds for the batch.
BuildMetadata(b) ==
  LET len == Lengths(b)
  IN [qo_indptr   |-> Sums([r \in DOMAIN b |-> b[r].n]),
      slots       |-> Zero(Tokens(b)),
      num_tokens  |-> Len(Tokens(b)),
      seq_lens    |-> len,
      page_ptr    |-> Sums([r \in DOMAIN b |-> Pages(len[r])]),
      pages       |-> Zero(FlattenSeq([r \in DOMAIN b |-> [k \in 1 .. Pages(len[r]) |-> <<r, k>>]])),
      last_page   |-> Zero([r \in DOMAIN b |-> len[r] - (Pages(len[r]) - 1) * PageSize]),
      decodes     |-> Cardinality({r \in DOMAIN b : b[r].n = 1}),
      prefills    |-> Cardinality({r \in DOMAIN b : b[r].n > 1}),
      decode_tokens  |-> Cardinality({r \in DOMAIN b : b[r].n = 1}),
      prefill_tokens |-> Cardinality({i \in DOMAIN Tokens(b) : b[Tokens(b)[i][1]].n > 1}),
      wrappers    |-> {IF b[r].n = 1 THEN "decode" ELSE "prefill" : r \in DOMAIN b},
      inverse     |-> <<>>]

Init == /\ backend \in {"flash_attention", "flashinfer"}
        /\ batch = <<>> /\ pc = "idle" /\ rows = <<>> /\ meta = Nothing
        /\ kv = <<>> /\ out = <<>>

\* execute_model() with a batch, then prefill_runner(): the first layers and the
\* projections of keys and values, for all tokens.
Prefill(b) ==
  /\ pc = "idle"
  /\ batch' = b /\ meta' = BuildMetadata(b)
  /\ rows' = Tokens(b)
  /\ kv' = [s \in UNION {{r} \X (1 .. Lengths(b)[r]) : r \in DOMAIN b} |->
              IF s[2] <= b[s[1]].ctx THEN s ELSE Nothing]
  /\ out' = [i \in 0 .. Len(Tokens(b)) - 1 |-> Nothing]
  /\ pc' = "prefilled"
  /\ UNCHANGED backend

(***************************************************************************)
(* swiftkv_select()                                                        *)
(***************************************************************************)

\* torch.searchsorted() of one value: how many are below it (or equal, right).
Below(seq, x) == Cardinality({i \in DOMAIN seq : seq[i] < x})
UpTo(seq, x) == Cardinality({i \in DOMAIN seq : seq[i] <= x})

\* _fix_flash_attention_metadata()
FixFlashAttention(m, idx) ==
  [m EXCEPT !.num_tokens = Len(idx),
            !.qo_indptr = [r \in DOMAIN @ |-> Below(idx, @[r])],
            !.slots = Zero([i \in DOMAIN idx |-> @[idx[i]]])]

\* _fix_flashinfer_metadata(): requests with one surviving token become decodes
\* and move to the front.  The two sorts are taken to be stable.  The prefill tokens are
\* counted by the mask of the requests, one for each, however many it keeps.
FixFlashInfer(m, idx) ==
  LET req   == [i \in DOMAIN idx |-> UpTo(m.qo_indptr, idx[i]) - 1]
      left  == ToSet(req)
      kept(r) == Cardinality({i \in DOMAIN req : req[i] = r})
      sorted(S) == SortSeq(SetToSeq(S), <)
      dec   == sorted({r \in left : kept(r) = 1})
      order == dec \o sorted({r \in left : kept(r) > 1})
      new(r) == CHOOSE k \in DOMAIN order : order[k] = r
      sort  == SortSeq([i \in DOMAIN idx |-> i],
                 LAMBDA i, j : \/ new(req[i]) < new(req[j])
                               \/ new(req[i]) = new(req[j]) /\ i < j)
      mine(r) == [k \in 1 .. m.page_ptr[r + 1] - m.page_ptr[r] |-> m.pages[m.page_ptr[r] + k - 1]]
      kinds == (IF dec # <<>> THEN {"decode"} ELSE {})
                 \union (IF Len(order) > Len(dec) THEN {"prefill"} ELSE {})
  IN [m EXCEPT
        !.num_tokens = Len(idx),
        !.qo_indptr = Sums([k \in DOMAIN order |-> kept(order[k])]),
        !.pages = Zero(FlattenSeq([k \in DOMAIN order |-> mine(order[k])])),
        !.page_ptr = Sums([k \in DOMAIN order |-> Len(mine(order[k]))]),
        !.last_page = Zero([k \in DOMAIN order |-> @[order[k]]]),
        !.decodes = Len(dec), !.decode_tokens = Len(dec),
        !.prefills = Len(order) - Len(dec), !.prefill_tokens = Len(order) - Len(dec),
        !.slots = Zero([i \in DOMAIN sort |-> @[idx[sort[i]]]]),
        !.inverse = Zero([i \in DOMAIN sort |-> (CHOOSE j \in DOMAIN sort : sort[j] = i) - 1]),
        !.wrappers = @ \intersect kinds]

\* Mutant of FinalIndices: the rows stay in the order of the batch.
BatchOrder(m, idx) == idx

\* The order in which the surviving rows are handed on.
FinalIndices(m, idx) ==
  IF backend = "flash_attention" THEN idx
  ELSE [i \in DOMAIN idx |-> idx[(CHOOSE j \in DOMAIN m.inverse : m.inverse[j] = i - 1) + 1]]

\* index_fn(): into the decode runner's buffers, padded, if they are large enough.
Taken(idx) ==
  LET fits == {g \in GraphSizes : g >= Len(idx)}
  IN [i \in 1 .. (IF fits = {} THEN Len(idx) ELSE Min(fits)) |->
        IF i <= Len(idx) THEN rows[idx[i] + 1] ELSE Nothing]

\* reshape_and_cache_flash(): row i goes to slot i.
CacheWrites(m, from) ==
  [s \in DOMAIN kv |->
     LET at == {i \in DOMAIN m.slots : m.slots[i] = s}
     IN IF at = {} THEN kv[s] ELSE from[Max(at) + 1]]

Select ==
  LET idx   == LogitsIndices(batch)
      fixed == IF backend = "flashinfer" THEN FixFlashInfer(meta, idx)
               ELSE FixFlashAttention(meta, idx)
  IN /\ pc = "prefilled"
     /\ kv' = CacheWrites(meta, rows)
     /\ meta' = fixed
     /\ rows' = Taken(FinalIndices(fixed, idx))
     /\ pc' = "selected"
     /\ UNCHANGED <<backend, batch, out>>

(***************************************************************************)
(* The decode runner: attention of the later layers.  Query i of a         *)
(* request's m attends to all but the last m - i of its keys.              *)
(***************************************************************************)

FlashAttention(m, cache) ==
  [i \in 0 .. m.num_tokens - 1 |->
     LET r == Max({x \in DOMAIN m.qo_indptr : m.qo_indptr[x] <= i}) + 1
     IN {cache[<<r, p>>] : p \in 1 .. m.seq_lens[r] - (m.qo_indptr[r] - 1 - i)}]

FlashInferAttention(m, cache) ==
  LET held(k) == SubSeq([i \in 1 .. (m.page_ptr[k + 1] - m.page_ptr[k]) * PageSize |->
                           LET page == m.pages[m.page_ptr[k] + (i - 1) \div PageSize]
                           IN <<page[1], (page[2] - 1) * PageSize + ((i - 1) % PageSize) + 1>>],
                        1, (m.page_ptr[k + 1] - m.page_ptr[k] - 1) * PageSize + m.last_page[k])
      run(k) == (IF k < m.decodes THEN "decode" ELSE "prefill") \in m.wrappers
  IN [i \in 0 .. m.num_tokens - 1 |->
        LET k == Max({x \in DOMAIN m.qo_indptr : m.qo_indptr[x] <= i})
            n == Len(held(k)) - (m.qo_indptr[k + 1] - 1 - i)
        IN IF run(k) THEN {cache[held(k)[p]] : p \in 1 .. n} ELSE {}]

\* FlashInfer's forward checks that the tokens after the decodes are as many as the
\* metadata counts for the prefills, if there is a wrapper for them.
CountsAgree(m) ==
  backend = "flashinfer" /\ "prefill" \in m.wrappers =>
    m.num_tokens - m.decode_tokens = m.prefill_tokens

\* What comes back for the i-th wanted row, with the metadata and rows there are.
Made(i, cache) ==
  LET row == IF backend = "flashinfer" THEN meta.inverse[i - 1] ELSE i - 1
  IN [token |-> rows[row + 1],
      seen  |-> (IF backend = "flashinfer" THEN FlashInferAttention(meta, cache)
                 ELSE FlashAttention(meta, cache))[row]]

\* forward(): the surviving rows go back to where they were in the batch.
Decode ==
  LET idx   == LogitsIndices(batch)
      cache == CacheWrites(meta, rows)
  IN /\ pc = "selected" /\ CountsAgree(meta)
     /\ kv' = cache
     /\ out' = [x \in DOMAIN out |-> IF x \in ToSet(idx)
                  THEN Made(CHOOSE i \in DOMAIN idx : idx[i] = x, cache) ELSE out[x]]
     /\ pc' = "decoded"
     /\ UNCHANGED <<backend, batch, rows, meta>>

\* The first of the later layers writes its keys and raises.
AttentionRaises ==
  /\ pc = "selected" /\ ~CountsAgree(meta)
  /\ kv' = CacheWrites(meta, rows)
  /\ pc' = "raised"
  /\ UNCHANGED <<backend, batch, rows, meta, out>>

Shapes == {r \in [ctx : Contexts, n : 1 .. MaxQuery, keep : 1 .. MaxKeep] : r.keep <= r.n}

Next == \/ \E k \in 1 .. MaxRequests : \E b \in [1 .. k -> Shapes] : Prefill(b)
        \/ Select \/ Decode \/ AttentionRaises

Spec == Init /\ [][Next]_swiftVars

(***************************************************************************)
(* Properties.                                                             *)
(***************************************************************************)

\* FlashInfer plans only the kinds of requests the batch came with: without a
\* decode in it, a prefill that keeps one token is a decode without a wrapper.
Planned == backend = "flashinfer" =>
             \A r \in DOMAIN batch :
               (IF batch[r].keep = 1 THEN "decode" ELSE "prefill") \in BuildMetadata(batch).wrappers

\* What a wanted row must hold: its own token, attended to all tokens of its request
\* up to itself and to nothing else.
Own(t) == [token |-> t, seen |-> {t[1]} \X (1 .. t[2])]

\* swiftkv_select() drops, reorders and recounts, and forward() puts back: with the
\* offsets, pages and order that selection leaves, every row whose logits are wanted
\* gets what it would have got in the full batch, and every slot of the cache holds
\* its own token.  The pass ends so unless FlashInfer refuses the token counts, which
\* happens only to batches in which a request keeps several tokens
\* (llama_swiftkv.py:427-566, 640-740).
SelectionExact ==
  LET idx == LogitsIndices(batch)
      own(i) == Own(Tokens(batch)[idx[i] + 1])
  IN /\ pc = "selected" /\ Planned =>
          \A i \in DOMAIN idx : Made(i, CacheWrites(meta, rows)) = own(i)
     /\ pc = "decoded" /\ Planned => \A i \in DOMAIN idx : out[idx[i]] = own(i)
     /\ pc \in {"decoded", "raised"} => \A s \in DOMAIN kv : kv[s] = s
     /\ pc = "raised" => backend = "flashinfer" /\ \E r \in DOMAIN batch : batch[r].keep > 1

=============================================================================
