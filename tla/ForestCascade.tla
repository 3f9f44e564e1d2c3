--------------------------- MODULE ForestCascade ---------------------------
(***************************************************************************)
(* Forest cascade attention                                                *)
(* (src/arctic_inference/vllm/attention/flash_attn_forest_cascade.py).     *)
(* Requests that share cached blocks are sorted by their block tables and  *)
(* cut into groups; the queries of a group attend to its common prefix     *)
(* once, each request attends to the rest of its own blocks, and the two   *)
(* results are merged.                                                     *)
(*                                                                         *)
(* A key is known by its place in the KV cache, <<block, offset>>; an      *)
(* attention result is the set of the keys attended to.  Models with       *)
(* sliding windows, ALiBi or decode context parallelism are left out.      *)
(***************************************************************************)
EXTENDS Integers, Sequences, FiniteSets, SequencesExt, FiniteSetsExt, TLC

CONSTANTS Paths,            \* sequences of cached blocks a request may have hit
          Lens,             \* <<context length, query length>> of a request
          MaxReqs,          \* bound: requests of a batch
          BlockSize,
          Configs,          \* settings of --forest-cascade-attn-configs
          CascadeMinPrefix, \* thresholds of use_cascade_attention()
          CascadeMinReqs,
          None              \* a Python None

VARIABLES config,   \* the builder's knobs
          reqs,     \* the batch: [path, ctx, q]
          common,   \* common_prefix_len
          at,       \* "joining", "building" or "built"
          meta,     \* FlashAttentionMetadata
          attended  \* token -> <<keys of the first call, keys of the second>>

forestVars == <<config, reqs, common, at, meta, attended>>

SeqLen(r) == reqs[r].ctx + reqs[r].q

FullBlocks(r) == reqs[r].ctx \div BlockSize

CeilDiv(n, k) == (n + k - 1) \div k

\* Row r of the block table of KV cache group g: cached blocks are shared, the
\* blocks still being filled are the request's own, the rest of the row is 0.
Row(g, sharing, r) ==
  [c \in 1 .. Len(reqs[r].path) |->
     IF c <= FullBlocks(r) /\ (sharing \/ c <= common \div BlockSize)
     THEN 100 * g + reqs[r].path[c]
     ELSE IF c <= CeilDiv(SeqLen(r), BlockSize) THEN 100 * g + 10 * r + c ELSE 0]

BlockTable(g, sharing) == [r \in DOMAIN reqs |-> Row(g, sharing, r)]

\* cumsum() with a leading 0
Offsets(lens) ==
  LET sum[i \in 0 .. Len(lens)] == IF i = 0 THEN 0 ELSE sum[i - 1] + lens[i]
  IN [i \in 1 .. Len(lens) + 1 |-> sum[i - 1]]

QueryLens == [r \in DOMAIN reqs |-> reqs[r].q]

QueryStartLoc == Offsets(QueryLens)

SharedPrefix(a, b) ==
  Max({n \in 0 .. Len(a) : \A i \in 1 .. n : a[i] = b[i]})

(***************************************************************************)
(* _recursive_lcp_split(): the ranges s .. e of the sorted requests, each  *)
(* with its prefix in blocks.  lcp[i] is between requests i and i + 1.     *)
(***************************************************************************)

LcpSplit(lcp, full, start, cfg) ==
  LET lcps(s, e) == {lcp[i] : i \in s .. e - 1}
      prefix(s, e) == IF s = e THEN full[s]
                      ELSE Min({start + Min(lcps(s, e))} \union {full[i] : i \in s .. e})
      benefit(s, e) == IF e - s + 1 >= cfg.minGroup
                       THEN (e - s + 1) * Max({prefix(s, e) - start, 0}) ELSE 0
      cut(s, e) == Min({i \in s .. e - 1 : lcp[i] = Min(lcps(s, e))})
      worth(s, e) ==
        \/ benefit(s, cut(s, e)) + benefit(cut(s, e) + 1, e) > benefit(s, e)
        \/ Max(lcps(s, e)) > 2 * Min(lcps(s, e))
      split[s \in DOMAIN full, e \in DOMAIN full] ==
        IF s = e \/ ~worth(s, e) THEN {[s |-> s, e |-> e, prefix |-> prefix(s, e)]}
        ELSE split[s, cut(s, e)] \union split[cut(s, e) + 1, e]
  IN SetToSortSeq(split[1, Len(full)], LAMBDA a, b : a.s < b.s)

(***************************************************************************)
(* _forest_sort_and_group()                                                *)
(***************************************************************************)

\* Columns start .. last of a row; blocks that are not full are masked.
SortKey(table, start, last, r) ==
  [c \in 1 .. last - start |-> IF start + c <= FullBlocks(r) THEN table[r][start + c] ELSE -1]

Before(a, b) == \E i \in DOMAIN a : a[i] < b[i] /\ SubSeq(a, 1, i - 1) = SubSeq(b, 1, i - 1)

\* np.lexsort(), which is stable
LexSorted(key) ==
  SortSeq([i \in DOMAIN key |-> i],
          LAMBDA i, j : Before(key[i], key[j]) \/ (key[i] = key[j] /\ i < j))

SortAndGroup(table, start, cfg) ==
  LET last   == Min({Len(table[1]), Max({FullBlocks(r) : r \in DOMAIN reqs})})
      key    == [r \in DOMAIN reqs |-> SortKey(table, start, last, r)]
      perm   == LexSorted(key)
      full   == [i \in DOMAIN perm |-> FullBlocks(perm[i])]
      lcp    == [i \in 1 .. Len(perm) - 1 |->
                   Min({SharedPrefix(key[perm[i]], key[perm[i + 1]]),
                        Max({0, full[i] - start}), Max({0, full[i + 1] - start})})]
      cuts   == LcpSplit(lcp, full, start, cfg)
      groups == [g \in DOMAIN cuts |->
                   [cuts[g] EXCEPT !.prefix =
                      IF @ - start < cfg.minAdditional THEN start ELSE @]]
      size(g) == groups[g].e - groups[g].s + 1
      many   == {g \in DOMAIN groups : size(g) >= cfg.minGroup}
  IN IF \/ Len(reqs) <= 1 \/ last <= start
        \/ many = {} \/ Cardinality(many) > cfg.maxGroups
        \/ MapThenSumSet(size, many) * cfg.minFraction[2] < cfg.minFraction[1] * Len(reqs)
        \/ \A g \in many : groups[g].prefix <= start
     THEN None ELSE [perm |-> perm, groups |-> groups]
(***************************************************************************)
(* _try_build_forest_cascade_metadata()                                    *)
(***************************************************************************)

\* _forest_make_suffix_block_table(): n blocks of a row after its first k.
SuffixRow(row, k, n, width) ==
  [c \in 1 .. width |-> IF c <= n /\ k + c <= Len(row) THEN row[k + c] ELSE 0]

ForestMetadata(table, grouped) ==
  LET perm   == grouped.perm
      groups == grouped.groups
      qlens  == [i \in DOMAIN perm |-> reqs[perm[i]].q]
      packed == Offsets(qlens)
      in(i)  == CHOOSE g \in DOMAIN groups : groups[g].s <= i /\ i <= groups[g].e
      blocks == [i \in DOMAIN perm |-> groups[in(i)].prefix]
      suffix == [i \in DOMAIN perm |-> SeqLen(perm[i]) - blocks[i] * BlockSize]
      needed == [i \in DOMAIN perm |-> CeilDiv(suffix[i], BlockSize)]
      widest == Max({groups[g].prefix : g \in DOMAIN groups})
  IN [token_perm         |-> FlattenSeq([i \in DOMAIN perm |->
                               [k \in 1 .. qlens[i] |-> QueryStartLoc[perm[i]] + k]]),
      packed_start       |-> packed,
      group_offsets      |-> Offsets([g \in DOMAIN groups |->
                               packed[groups[g].e + 1] - packed[groups[g].s]]),
      prefix_kv_lens     |-> [g \in DOMAIN groups |-> groups[g].prefix * BlockSize],
      prefix_block_table |-> [g \in DOMAIN groups |-> SubSeq(table[perm[groups[g].s]], 1, widest)],
      suffix_kv_lens     |-> suffix,
      suffix_block_table |-> [i \in DOMAIN perm |->
                               SuffixRow(table[perm[i]], blocks[i], needed[i], Max(Range(needed)))]]

TryBuild(table, cfg) ==
  LET start   == common \div BlockSize
      grouped == SortAndGroup(table, start, cfg)
  IN IF \/ common % BlockSize # 0
        \/ \E r \in DOMAIN reqs : start > FullBlocks(r)
        \/ grouped = None
     THEN None ELSE ForestMetadata(table, grouped)

(***************************************************************************)
(* Attention.                                                              *)
(***************************************************************************)

\* flash_attn_varlen_func(): sequence b has the queries offsets[b] + 1 ..
\* offsets[b + 1] and lens[b] keys; a causal mask is aligned to the last key.
FlashAttn(offsets, lens, table, causal) ==
  LET of(t) == CHOOSE b \in DOMAIN lens : offsets[b] < t /\ t <= offsets[b + 1]
      last(t, b) == IF causal THEN lens[b] - offsets[b + 1] + t ELSE lens[b]
  IN [t \in 1 .. Last(offsets) |->
        {<<table[of(t)][(p - 1) \div BlockSize + 1], (p - 1) % BlockSize>> :
           p \in 1 .. last(t, of(t))}]

\* merge_attn_states()
Merge(first, second) == [t \in DOMAIN first |-> <<first[t], second[t]>>]

\* index_copy_() of the rows to where token_perm says they come from.
Scattered(perm, rows) ==
  [t \in DOMAIN rows |-> rows[CHOOSE i \in DOMAIN perm : perm[i] = t]]

ForestAttention(m) ==
  LET f == m.forest
  IN Scattered(f.token_perm,
       Merge(FlashAttn(f.group_offsets, f.prefix_kv_lens, f.prefix_block_table, FALSE),
             FlashAttn(f.packed_start, f.suffix_kv_lens, f.suffix_block_table, TRUE)))

CascadeAttention(m) ==
  LET skip == common \div BlockSize
  IN Merge(FlashAttn(m.cu_prefix, m.prefix_kv_lens, SubSeq(m.table, 1, 1), FALSE),
           FlashAttn(QueryStartLoc, m.suffix_kv_lens,
                     [r \in DOMAIN reqs |-> SubSeq(m.table[r], skip + 1, Len(m.table[r]))], TRUE))

StandardAttention(m) ==
  LET rows == FlashAttn(QueryStartLoc, [r \in DOMAIN reqs |-> SeqLen(r)], m.table, TRUE)
  IN Merge(rows, [t \in DOMAIN rows |-> {}])

(***************************************************************************)
(* The builder and the layer.                                              *)
(***************************************************************************)

Init ==
  /\ config \in Configs
  /\ reqs = <<>> /\ common = 0
  /\ at = "joining" /\ meta = None /\ attended = <<>>

\* vLLM puts a request into the batch.
Join(path, len) ==
  /\ at = "joining" /\ Len(reqs) < MaxReqs
  /\ reqs' = Append(reqs, [path |-> path, ctx |-> len[1], q |-> len[2]])
  /\ UNCHANGED <<config, common, at, meta, attended>>

\* use_cascade_attention(): vLLM asks it whether the prefix that all requests
\* share is worth it, and passes 0 if not.
UseCascadeAttention(prefix) == prefix >= CascadeMinPrefix /\ Len(reqs) >= CascadeMinReqs

CommonPrefixLen ==
  LET n == Min({SharedPrefix(reqs[1].path, reqs[r].path) : r \in DOMAIN reqs}
                 \union {FullBlocks(r) : r \in DOMAIN reqs}) * BlockSize
  IN IF UseCascadeAttention(n) THEN n ELSE 0

WantForest(cfg) ==
  /\ cfg.enabled /\ ~cfg.fullGraphs
  /\ Len(reqs) >= cfg.minBatch
  /\ \A r \in DOMAIN reqs : reqs[r].q <= cfg.maxQuery

\* The fields of the metadata that single-tree cascade uses.
CascadeFields == [cu_prefix      |-> <<0, Last(QueryStartLoc)>>,
                  prefix_kv_lens |-> <<common>>,
                  suffix_kv_lens |-> [r \in DOMAIN reqs |-> SeqLen(r) - common]]

NoFields == [cu_prefix |-> None, prefix_kv_lens |-> None, suffix_kv_lens |-> None]

Metadata(g, table, use, forest, fields) ==
  [group |-> g, table |-> table, use |-> use, forest |-> forest] @@ fields

\* build(), once common_prefix_len is there
Build ==
  /\ at = "joining" /\ reqs # <<>>
  /\ common' = CommonPrefixLen
  /\ at' = "building"
  /\ UNCHANGED <<config, reqs, meta, attended>>

Built ==
  LET table  == BlockTable(1, TRUE)
      forest == TryBuild(table, config)
  IN /\ at = "building"
     /\ meta' = IF WantForest(config) /\ forest # None
                THEN Metadata(1, table, "forest", forest, NoFields)
                ELSE IF common > 0 THEN Metadata(1, table, "cascade", None, CascadeFields)
                ELSE Metadata(1, table, "standard", None, NoFields)
     /\ at' = "built"
     /\ UNCHANGED <<config, reqs, common, attended>>

\* Mutant of UpdateBlockTable: the forest of the first group is kept.
UpdateTableOnly ==
  /\ at = "built" /\ meta.group = 1
  /\ \E sharing \in BOOLEAN :
       meta' = [meta EXCEPT !.group = 2, !.table = BlockTable(2, sharing)]
  /\ attended' = <<>>
  /\ UNCHANGED <<config, reqs, common, at>>

\* update_block_table(): the metadata is used for another KV cache group, where
\* the requests share what is common to all, and the rest or not.
UpdateBlockTable ==
  /\ at = "built" /\ meta.group = 1
  /\ \E sharing \in BOOLEAN :
     LET table  == BlockTable(2, sharing)
         forest == TryBuild(table, config)
     IN meta' = IF meta.use # "forest" THEN [meta EXCEPT !.group = 2, !.table = table]
                ELSE IF forest # None THEN Metadata(2, table, "forest", forest, NoFields)
                ELSE IF common > 0 THEN Metadata(2, table, "cascade", None, CascadeFields)
                ELSE Metadata(2, table, "standard", None, NoFields)
  /\ attended' = <<>>
  /\ UNCHANGED <<config, reqs, common, at>>

\* FlashAttentionImpl.forward(), one layer of the group.
Forward ==
  /\ at = "built" /\ attended = <<>>
  /\ attended' = CASE meta.use = "forest"   -> ForestAttention(meta)
                   [] meta.use = "cascade"  -> CascadeAttention(meta)
                   [] meta.use = "standard" -> StandardAttention(meta)
  /\ UNCHANGED <<config, reqs, common, at, meta>>

Next == \/ \E path \in Paths, len \in Lens : Join(path, len)
        \/ Build \/ Built \/ UpdateBlockTable \/ Forward

Spec == Init /\ [][Next]_forestVars

(***************************************************************************)
(* Properties.                                                             *)
(***************************************************************************)

\* Whatever groups are formed, and for each KV cache group's own blocks: a token
\* attends to the keys of its own request at positions up to its own, to each
\* once - none in both calls - and its output returns to its row
\* (forest_cascade_attention(), cascade_attention(), update_block_table()).
AttendedOnce ==
  \A r \in DOMAIN reqs : \A i \in 1 .. reqs[r].q :
    attended # <<>> =>
      LET row == meta.table[r]
          got == attended[QueryStartLoc[r] + i]
      IN /\ got[1] \intersect got[2] = {}
         /\ got[1] \union got[2] =
              {<<row[(p - 1) \div BlockSize + 1], (p - 1) % BlockSize>> : p \in 1 .. reqs[r].ctx + i}

=============================================================================
