------------------------------ MODULE Ulysses ------------------------------
(***************************************************************************)
(* Sequence and shift parallelism                                          *)
(* (src/arctic_inference/vllm/ulysses.py and the parts of model_runner.py  *)
(* that switch between the two).  A large batch is run by the base model:  *)
(* its tokens are split over the SP ranks, and around the attention two    *)
(* all-to-alls trade tokens for heads.  A small batch is run by the shift  *)
(* model, whose weights are split over all SP x TP ranks.  Both use one    *)
(* KV cache.                                                               *)
(*                                                                         *)
(* All ranks run the same program on the same batches and meet in the      *)
(* collectives, so a step of the model is a step of all of them.  A tensor *)
(* is the sequence of its rows; a projected row is known by the heads it   *)
(* holds, an attention output by the position and head it is for.          *)
(***************************************************************************)
EXTENDS Integers, Sequences, FiniteSets, SequencesExt, FiniteSetsExt, Folds

CONSTANTS Settings,    \* deployments; see the variable set
          MaxTokens,   \* bound: tokens of the request
          VocabPad,    \* DEFAULT_VOCAB_PADDING_SIZE
          Wrong        \* an attention output computed from the wrong KV head

VARIABLES set,       \* sizes of the dimensions, heads, kvHeads, layers, vocab, shift (is
                     \* shift parallelism enabled), threshold, graphs, maxCapture
          groups,    \* the process groups of parallel_state
          phase,     \* "starting", "serving" or "failed"
          captured,  \* model -> sizes of its CUDA graphs
          runner,    \* self.model, SP_TP_MODE, parallel_state._TP and ._ORIG_TP, the
                     \* tables in use, and what the context managers saved
          step,      \* execute_model(): program counter, batch size, padded size
          ctx,       \* tokens whose keys and values were computed
          cache,     \* rank -> position -> KV heads in the cache
          out,       \* rank -> rows of attention output of the last batch
          logits     \* vocabulary ids in the order of the last logits

ulyssesVars == <<set, groups, phase, captured, runner, step, ctx, cache, out, logits>>

(***************************************************************************)
(* initialize_model_parallel()                                             *)
(***************************************************************************)

Dims(s) == <<s.ext, s.dp, s.pp, s.pcp, s.sp, s.tp>>

World(s) == FoldLeft(LAMBDA x, y : x * y, 1, Dims(s))

Ranks(s) == 0 .. World(s) - 1

\* all_ranks = arange(world_size).reshape(dims): where rank r is along dimension i.
Coord(s, r, i) ==
  (r \div FoldLeft(LAMBDA x, y : x * y, 1, SubSeq(Dims(s), i + 1, 6))) % Dims(s)[i]

\* Where r comes when all_ranks is read with its dimensions permuted.
Index(s, r, perm) ==
  FoldLeft(LAMBDA acc, i : acc * Dims(s)[i] + Coord(s, r, i), 0, perm)

\* permute(perm).reshape(-1, size)
Grouped(s, perm, size) ==
  LET by == [i \in Ranks(s) |-> CHOOSE r \in Ranks(s) : Index(s, r, perm) = i]
  IN [g \in 1 .. World(s) \div size |-> [i \in 1 .. size |-> by[(g - 1) * size + i - 1]]]

Straight == <<1, 2, 3, 4, 5, 6>>

GroupsOf(s) ==
  [tp    |-> Grouped(s, Straight, s.tp),
   dcp   |-> Grouped(s, Straight, s.dcp),
   pcp   |-> Grouped(s, <<1, 2, 3, 6, 5, 4>>, s.pcp),
   pp    |-> Grouped(s, <<1, 2, 6, 4, 5, 3>>, s.pp),
   dp    |-> Grouped(s, <<1, 6, 3, 4, 5, 2>>, s.dp),
   ep    |-> Grouped(s, <<1, 5, 3, 2, 4, 6>>, s.dp * s.pcp * s.tp),
   sp    |-> Grouped(s, <<1, 2, 3, 4, 6, 5>>, s.sp),
   sp_tp |-> Grouped(s, <<1, 2, 3, 4, 6, 5>>, s.sp * s.tp)]

GroupWith(all, r) == all[CHOOSE g \in DOMAIN all : r \in ToSet(all[g])]

\* rank_in_group
Place(all, r) ==
  LET g == GroupWith(all, r) IN (CHOOSE i \in DOMAIN g : g[i] = r) - 1

\* ParallelConfig leaves prefill context parallelism out of the world size that
\* _get_parallel_sizes() asserts.
Buildable(s) == /\ s.pp * s.tp * s.sp = s.tp * s.pp * s.pcp * s.sp
                /\ s.shift => s.sp > 1

\* Mutant of Layers: the formula without sequence parallelism.
LayersByTp(s, r) ==
  LET pp == (r \div s.tp) % s.pp
      n  == s.layers \div s.pp
  IN pp * n .. pp * n + n - 1

\* get_layers_start_end_indices(); get_pp_indices() splits evenly.
Layers(s, r) ==
  LET pp == (r \div (s.tp * s.sp)) % s.pp
      n  == s.layers \div s.pp
  IN pp * n .. pp * n + n - 1

\* SpeculatorTPInit: the shard of the drafter's vocabulary that r loads, and the
\* groups that gather the shards.
DrafterShard(s, r) == r % Max({s.tp, s.sp})
DrafterGroups(s, all) == IF s.sp > s.tp THEN all.sp ELSE all.tp

(***************************************************************************)
(* CUDA graph sizes.                                                       *)
(***************************************************************************)

GenerateCaptureSizes(max) ==
  {i \in {1, 2, 4} : i <= max}
    \union {i \in 8 .. Min({max, 255}) : i % 8 = 0}
    \union {i \in 256 .. Min({max, 511}) : i % 16 = 0}
    \union {i \in 512 .. max : i % 32 = 0}

\* The table of _build_bs_to_padded(): between two sizes, the upper one.
BsToPadded(sizes, max) ==
  [bs \in 0 .. max |-> IF bs \in sizes \union {0} THEN bs
                       ELSE Min({x \in sizes \union {max + 1} : x > bs})]

CaptureSizes(s, m) ==
  IF m = "shift" THEN GenerateCaptureSizes(s.maxCapture)
  ELSE {x * s.sp : x \in GenerateCaptureSizes(s.maxCapture)}

CaptureMax(s, m) == IF m = "shift" THEN s.maxCapture ELSE s.maxCapture * s.sp

\* Sizes at or below the threshold are the shift model's.
CapturedBase(s) == {x \in CaptureSizes(s, "base") : s.shift => x > s.threshold}

RoundUp(n, k) == ((n + k - 1) \div k) * k

\* vLLM pads a batch to the next captured size, if there is one.
PaddedSize(s, m, n) ==
  LET max == CaptureMax(s, m)
  IN IF s.graphs /\ n <= max /\ BsToPadded(CaptureSizes(s, m), max)[n] \in captured[m]
     THEN BsToPadded(CaptureSizes(s, m), max)[n] ELSE n

(***************************************************************************)
(* set_shift_parallel_mode() and the context managers around it.           *)
(***************************************************************************)

Enter(r, mode) ==
  LET orig == IF r.mode = "shift" THEN r.orig ELSE r.tp
  IN [r EXCEPT !.orig = orig, !.mode = mode,
               !.tp = IF mode = "shift" THEN "sp_tp" ELSE orig,
               !.saved = Append(@, [mode |-> r.mode, tp |-> r.tp])]

Leave(r) == [r EXCEPT !.mode = Last(r.saved).mode, !.tp = Last(r.saved).tp,
                      !.saved = Front(@)]

(***************************************************************************)
(* Weight shards.                                                          *)
(***************************************************************************)

Heads(s, shard, of) ==
  [i \in 1 .. s.heads \div of |-> shard * (s.heads \div of) + i - 1]

\* vLLM repeats a KV head when there are more shards than KV heads.
KVHeads(s, shard, of) ==
  IF s.kvHeads >= of
  THEN [i \in 1 .. s.kvHeads \div of |-> shard * (s.kvHeads \div of) + i - 1]
  ELSE <<shard \div (of \div s.kvHeads)>>

KVHeadOf(s, head) == head \div (s.heads \div s.kvHeads)

Chunk(seq, j, n) == SubSeq(seq, j * n + 1, (j + 1) * n)

\* The ranks that run the model together.
Team == ToSet(groups.sp_tp[1])

Init ==
  /\ set \in {s \in Settings : Buildable(s)}
  /\ groups = GroupsOf(set)
  /\ phase = "starting"
  /\ captured = [m \in {"base", "shift"} |-> {}]
  /\ runner = [model |-> "base", mode |-> "none", tp |-> "tp", orig |-> "tp",
               tables |-> "base", saved |-> <<>>]
  /\ step = [pc |-> "idle", n |-> 0, padded |-> 0]
  /\ ctx = 0
  /\ cache = [r \in Team |-> <<>>]
  /\ out = [r \in Team |-> <<>>]
  /\ logits = <<>>

\* _capture_cudagraphs().  With a shift model it uses two names that are defined
\* nowhere (model_runner.py:1956-1957), and the worker does not start.
Capture ==
  /\ phase = "starting"
  /\ captured' = [captured EXCEPT !.base = IF set.graphs THEN CapturedBase(set) ELSE {}]
  /\ phase' = IF set.graphs /\ set.shift THEN "failed" ELSE "serving"
  /\ UNCHANGED <<set, groups, runner, step, ctx, cache, out, logits>>

(***************************************************************************)
(* execute_model()                                                         *)
(***************************************************************************)

UseShift(n) == set.sp > 1 /\ set.shift /\ n <= set.threshold

Execute(n) ==
  /\ phase = "serving" /\ step.pc = "idle" /\ ctx + n <= MaxTokens
  /\ runner' = IF UseShift(n)
               THEN Enter([runner EXCEPT !.model = "shift", !.tables = "shift"], "shift")
               ELSE runner
  /\ step' = [pc |-> "pad", n |-> n, padded |-> 0]
  /\ UNCHANGED <<set, groups, phase, captured, ctx, cache, out, logits>>

\* _pad_for_sequence_parallelism() and the padding to a graph; then the model's
\* forward, which monkeypatch_forward() replaced in the base model.
Pad ==
  /\ step.pc = "pad"
  /\ step' = [step EXCEPT !.pc = "forward",
                          !.padded = PaddedSize(set, runner.tables, RoundUp(step.n, set.sp))]
  /\ runner' = IF runner.model = "base" /\ set.sp > 1 THEN Enter(runner, "base") ELSE runner
  /\ UNCHANGED <<set, groups, phase, captured, ctx, cache, out, logits>>

\* The position a row of the padded batch is for; 0 for padding.
RowAt(i) == IF i <= step.n THEN ctx + i ELSE 0

\* The attention kernel on one rank: first the keys and values of the rows are
\* written to the cache, then each query attends to all up to its position.
Written(r, rows) ==
  [p \in 1 .. ctx + step.n |->
     IF p <= ctx THEN cache[r][p]
     ELSE LET at == SelectSeq(rows, LAMBDA x : x.at = p)
          IN IF at = <<>> THEN <<>> ELSE at[1].kv]

Attend(r, rows) ==
  [i \in DOMAIN rows |->
    [k \in DOMAIN rows[i].q |->
      LET head == rows[i].q[k]
          kv   == ((k - 1) * Len(rows[i].kv)) \div Len(rows[i].q) + 1
          seen == Written(r, rows)
      IN IF \A p \in 1 .. rows[i].at : kv \in DOMAIN seen[p] /\ seen[p][kv] = KVHeadOf(set, head)
         THEN <<rows[i].at, head>> ELSE Wrong]]

\* all_to_all_single(): each rank of the group gets the chunks meant for it, in
\* the order of the group.
AllToAll(group, sent, r) ==
  FlattenSeq([k \in DOMAIN group |-> sent[group[k]][Place(<<group>>, r) + 1]])

\* Before the first exchange: the rows of this rank's tokens, one chunk of heads
\* for each SP rank; few KV heads are repeated.
Packed(r) ==
  LET s   == Place(groups.sp, r)
      t   == Place(groups.tp, r)
      own == step.padded \div set.sp
      nq  == (set.heads \div set.tp) \div set.sp
      kvs == KVHeads(set, t, set.tp)
      kv(j) == IF Len(kvs) < set.sp THEN <<kvs[j \div (set.sp \div Len(kvs)) + 1]>>
               ELSE Chunk(kvs, j, Len(kvs) \div set.sp)
  IN [j \in 1 .. set.sp |->
        [i \in 1 .. own |-> [at |-> RowAt(s * own + i),
                             q  |-> Chunk(Heads(set, t, set.tp), j - 1, nq),
                             kv |-> kv(j - 1)]]]

\* UlyssesAttention.forward() between ulysses_forward()'s slicing and its
\* all_gather.
BaseForward ==
  LET group(r) == GroupWith(groups.sp, r)
      own      == step.padded \div set.sp
      packed   == [r \in Team |-> Packed(r)]
      rows     == [r \in Team |-> AllToAll(group(r), packed, r)]
      heads    == [r \in Team |-> Attend(r, rows[r])]
      back     == [r \in Team |-> [j \in 1 .. set.sp |-> Chunk(heads[r], j - 1, own)]]
      mine(r)  == LET got == AllToAll(group(r), back, r)
                  IN [i \in 1 .. own |-> FlattenSeq([k \in 1 .. set.sp |-> got[(k - 1) * own + i]])]
      own_out  == [r \in Team |-> mine(r)]
  IN /\ cache' = [r \in Team |-> Written(r, rows[r])]
     /\ out' = [r \in Team |->
                  FlattenSeq([k \in 1 .. set.sp |-> own_out[group(r)[k]]])]

ShiftForward ==
  LET of == set.sp * set.tp
      place(r) == Place(groups.sp_tp, r)
      rows(r) == [i \in 1 .. step.padded |-> [at |-> RowAt(i), q |-> Heads(set, place(r), of),
                                              kv |-> KVHeads(set, place(r), of)]]
  IN /\ cache' = [r \in Team |-> Written(r, rows(r))]
     /\ out' = [r \in Team |-> Attend(r, rows(r))]

\* The LM head: the shards of a vocabulary, gathered by NCCL in the order of the
\* global ranks and cut to its size.
Gathered(group) ==
  LET per == RoundUp(set.vocab, VocabPad) \div Len(group)
      nccl == SortSeq(group, <)
      shard(r) == [i \in 1 .. per |-> Place(<<group>>, r) * per + i - 1]
  IN SubSeq(FlattenSeq([k \in DOMAIN nccl |-> shard(nccl[k])]), 1, set.vocab)

Forward ==
  /\ step.pc = "forward"
  /\ IF runner.mode = "shift" \/ set.sp = 1 THEN ShiftForward ELSE BaseForward
  /\ logits' = Gathered(groups[runner.tp][1])
  /\ step' = [step EXCEPT !.pc = "leave"]
  /\ ctx' = ctx + step.n
  /\ UNCHANGED <<set, groups, phase, captured, runner>>

\* Mutant of ShiftLogitsPerm: the gathered order is taken for the group's.
UnchangedPerm == [i \in DOMAIN groups.sp_tp[1] |-> i]

\* _compute_shift_logits_perm()
ShiftLogitsPerm ==
  LET group == groups.sp_tp[1]
      nccl  == SortSeq(group, <)
      shard == [i \in DOMAIN nccl |-> Place(<<group>>, nccl[i])]
  IN SortSeq([i \in DOMAIN shard |-> i], LAMBDA i, j : shard[i] < shard[j])

\* _fix_shift_logits_ordering()
FixedLogits ==
  LET k == Len(ShiftLogitsPerm)
      n == set.vocab \div k
  IN IF set.vocab % k # 0 THEN logits
     ELSE FlattenSeq([i \in 1 .. k |-> Chunk(logits, ShiftLogitsPerm[i] - 1, n)])

Return ==
  /\ step.pc = "leave"
  /\ runner' = IF runner.saved = <<>> THEN runner
               ELSE [Leave(runner) EXCEPT !.model = "base", !.tables = "base"]
  /\ logits' = IF runner.model = "shift" THEN FixedLogits ELSE logits
  /\ step' = [step EXCEPT !.pc = "idle"]
  /\ UNCHANGED <<set, groups, phase, captured, ctx, cache, out>>

Next == Capture \/ (\E n \in 1 .. MaxTokens : Execute(n)) \/ Pad \/ Forward \/ Return

Spec == Init /\ [][Next]_ulyssesVars

(***************************************************************************)
(* Properties.                                                             *)
(***************************************************************************)

\* The groups partition the ranks, and a group holds exactly the ranks that
\* differ in its own dimensions; the layers a rank loads are those of its place
\* in its pipeline; the drafter's shards cover the vocabulary in the order of
\* the group that gathers them (not so when 1 < tp < sp).
GroupsExact ==
  LET spans == [tp |-> {6}, pcp |-> {4}, pp |-> {3}, dp |-> {2}, ep |-> {2, 4, 6},
                sp |-> {5}, sp_tp |-> {5, 6}]
      n     == set.layers \div set.pp
  IN \A r \in Ranks(set) :
       /\ \A kind \in DOMAIN spans :
            ToSet(GroupWith(groups[kind], r)) =
              {q \in Ranks(set) : \A i \in (1 .. 6) \ spans[kind] :
                                    Coord(set, q, i) = Coord(set, r, i)}
       /\ Layers(set, r) = Place(groups.pp, r) * n .. (Place(groups.pp, r) + 1) * n - 1
       /\ (set.tp = 1 \/ set.sp <= set.tp) =>
            DrafterShard(set, r) = Place(DrafterGroups(set, groups), r)

\* The size a batch is padded to is the smallest captured one that fits, and the
\* base model can split it.
PaddingExact ==
  \A m \in {"base", "shift"} : \A n \in 1 .. CaptureMax(set, m) :
    LET to == BsToPadded(CaptureSizes(set, m), CaptureMax(set, m))[n]
    IN /\ to \in CaptureSizes(set, m) /\ to >= n /\ (m = "base" => to % set.sp = 0)
       /\ \A x \in CaptureSizes(set, m) : x < n \/ to <= x

\* The ranks are laid out for what follows: process groups, shards and the sizes
\* of graphs (ulysses.py:129-251, model_runner.py:545-618).
LayoutExact == phase = "starting" => GroupsExact /\ PaddingExact

\* Whichever model computed the tokens before, and however the batch was padded
\* and split: after a batch every rank holds each of its tokens once, in order,
\* with the attention outputs of its heads, computed from the right KV head; and
\* the sampler gets the vocabulary in order.
OutputsExact ==
  /\ step.pc = "leave" => \A r \in Team :
       LET mine == IF runner.model = "shift" \/ set.sp = 1
                   THEN Heads(set, Place(groups.sp_tp, r), set.sp * set.tp)
                   ELSE Heads(set, Place(groups.tp, r), set.tp)
       IN /\ Len(out[r]) = step.padded
          /\ \A i \in 1 .. step.n :
               out[r][i] = [k \in DOMAIN mine |-> <<ctx - step.n + i, mine[k]>>]
  /\ step.pc = "idle" => logits = [i \in DOMAIN logits |-> i - 1]

=============================================================================
