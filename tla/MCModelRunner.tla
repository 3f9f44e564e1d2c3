--------------------------- MODULE MCModelRunner ---------------------------
(***************************************************************************)
(* What a step of the patched vLLM engine computes, in five parts that     *)
(* share no state, each in behaviours of its own: the life of draft tokens *)
(* (Speculation), the Arctic drafter (Drafter), sequence and shift         *)
(* parallelism (Ulysses), token selection in SwiftKV models (SwiftKV) and  *)
(* attention over shared prefixes (ForestCascade).  The variable part says *)
(* which one runs; the others stay in one initial state.                   *)
(***************************************************************************)
EXTENDS Speculation

CONSTANTS MaxTokens, VocabPad, Wrong,                                  \* Ulysses
          MaxRequests, Contexts, MaxQuery, MaxKeep, PageSize, GraphSizes, \* SwiftKV
          MaxReqs, BlockSize, CascadeMinPrefix, CascadeMinReqs,        \* ForestCascade
          NumStates, QuantBatch, MaxVersions, Garbage                  \* Drafter

VARIABLES part,
          set, groups, phase, captured, runner, step, ctx, kvcache, heads, logits,
          backend, batch, pc, hidden, meta, kv, out,
          config, reqs, common, at, amd, attended,
          drafter, weights, cuda_graphs, buffers, fed, given, drafts

Mode(m, a, rep, h) == [method |-> m, async |-> a, reported |-> rep, hard |-> h]

mcModes == {Mode("suffix", FALSE, TRUE, Nil), Mode("hybrid", FALSE, TRUE, 2),
            Mode("arctic", TRUE, TRUE, Nil), Mode("suffix", TRUE, TRUE, Nil),
            Mode("hybrid", TRUE, TRUE, 2), Mode("hybrid", TRUE, FALSE, Nil)}

\* ext, dp, pp, pcp, sp, tp, dcp; heads, KV heads; shift parallelism, its
\* threshold; CUDA graphs, their largest size.
Setting(dims, h, shift, graphs) ==
  [ext |-> dims[1], dp |-> dims[2], pp |-> dims[3], pcp |-> dims[4], sp |-> dims[5],
   tp |-> dims[6], dcp |-> dims[7], heads |-> h[1], kvHeads |-> h[2],
   layers |-> 2 * dims[3], vocab |-> 8, shift |-> shift[1], threshold |-> shift[2],
   graphs |-> graphs[1], maxCapture |-> graphs[2]]

\* KV heads fewer than, as many as and more than the ranks; pipelines and data
\* parallelism; with and without shift parallelism and graphs; a prefill context
\* parallel size that is refused.
mcSettings ==
  {Setting(<<1, 1, 1, 1, 2, 2, 1>>, <<8, 2>>, <<TRUE, 2>>, <<FALSE, 4>>),
   Setting(<<1, 1, 1, 1, 2, 2, 2>>, <<8, 8>>, <<TRUE, 2>>, <<FALSE, 4>>),
   Setting(<<1, 1, 1, 1, 2, 2, 2>>, <<4, 1>>, <<TRUE, 2>>, <<FALSE, 4>>),
   Setting(<<1, 1, 1, 1, 4, 1, 1>>, <<8, 2>>, <<TRUE, 3>>, <<FALSE, 4>>),
   Setting(<<1, 1, 1, 1, 4, 1, 1>>, <<8, 2>>, <<FALSE, 3>>, <<TRUE, 8>>),
   Setting(<<1, 2, 2, 1, 2, 1, 1>>, <<4, 4>>, <<TRUE, 2>>, <<TRUE, 4>>),
   Setting(<<2, 1, 1, 1, 1, 2, 1>>, <<4, 2>>, <<FALSE, 0>>, <<TRUE, 8>>),
   Setting(<<1, 1, 1, 2, 2, 1, 1>>, <<4, 2>>, <<FALSE, 0>>, <<TRUE, 8>>),
   Setting(<<2, 2, 2, 1, 2, 2, 2>>, <<4, 2>>, <<TRUE, 2>>, <<FALSE, 8>>),
   Setting(<<1, 1, 1, 1, 2, 4, 2>>, <<8, 2>>, <<TRUE, 2>>, <<FALSE, 4>>)}

\* Two requests may share one, two or all four blocks.
mcPaths == {<<1, 2, 3, 4>>, <<1, 2, 5, 6>>, <<1, 7, 8, 9>>}

\* A partly filled last block, and a full one.
mcLens == {<<3, 2>>, <<6, 1>>}

Knobs(q, b, g, a, f, m) ==
  [enabled |-> TRUE, fullGraphs |-> FALSE, maxQuery |-> q, minBatch |-> b, minGroup |-> g,
   minAdditional |-> a, minFraction |-> f, maxGroups |-> m]

mcConfigs == {Knobs(2, 2, 2, 1, <<1, 4>>, 9), Knobs(2, 3, 3, 2, <<3, 4>>, 1)}

\* Tensor and sequence parallel sizes; the vocabulary and what it is padded to;
\* max_num_seqs and disable_by_batch_size.
ADrafter(k, tied, ranks, v, g, limits, a) ==
  [kind |-> k, tied |-> tied, tp |-> ranks[1], sp |-> ranks[2], vocab |-> v[1], pad |-> v[2],
   graphs |-> g, maxSeqs |-> limits[1], soft |-> limits[2], n_predict |-> 2, async |-> a]

\* Whole vocabularies and shards, with a last shard that is partly or all padding,
\* over the tensor or the sequence parallel ranks; with and without graphs; batches
\* above and below the soft limit.
mcDrafters ==
  {ADrafter("mlp", TRUE, <<1, 1>>, <<5, 4>>, TRUE, <<6, 5>>, TRUE),
   ADrafter("mlp", FALSE, <<2, 1>>, <<5, 4>>, TRUE, <<3, 3>>, FALSE),
   ADrafter("lstm", TRUE, <<2, 1>>, <<7, 4>>, TRUE, <<6, 5>>, TRUE),
   ADrafter("lstm", TRUE, <<1, 1>>, <<6, 2>>, FALSE, <<5, 4>>, FALSE),
   ADrafter("lstm", FALSE, <<4, 2>>, <<6, 8>>, TRUE, <<5, 5>>, TRUE),
   ADrafter("mlp", TRUE, <<1, 2>>, <<4, 4>>, TRUE, <<2, 2>>, FALSE)}

Row(d, k, x) == [drafted |-> d, kept |-> k, discard |-> x]

\* A chunk of a prompt, all, some and none of the drafts kept, none drafted; the
\* third batch is padded.
mcBatches ==
  {<<Row(2, 1, FALSE), Row(0, 1, TRUE)>>,
   <<Row(0, 1, TRUE), Row(1, 2, FALSE), Row(2, 2, FALSE)>>,
   <<Row(1, 1, FALSE), Row(0, 1, FALSE), Row(2, 3, FALSE), Row(1, 2, FALSE), Row(0, 1, FALSE)>>}

Parallel == INSTANCE Ulysses WITH Settings <- mcSettings, cache <- kvcache, out <- heads

Swift == INSTANCE SwiftKV WITH Nothing <- Nil, rows <- hidden

Forest == INSTANCE ForestCascade
            WITH Paths <- mcPaths, Lens <- mcLens, Configs <- mcConfigs, None <- Nil, meta <- amd

Arctic == INSTANCE Drafter WITH Drafters <- mcDrafters, Batches <- mcBatches

parallelVars == <<set, groups, phase, captured, runner, step, ctx, kvcache, heads, logits>>
swiftVars == <<backend, batch, pc, hidden, meta, kv, out>>
forestVars == <<config, reqs, common, at, amd, attended>>
drafterVars == <<drafter, weights, cuda_graphs, buffers, fed, given, drafts>>

AllInit ==
  /\ Parallel!Init
  /\ part \in {"speculation", "parallelism", "swiftkv", "forest", "drafter"}
  /\ (part # "parallelism" => set = CHOOSE x \in mcSettings : Parallel!Buildable(x))
  /\ Init /\ (part # "speculation" => mode = CHOOSE x \in Modes : TRUE)
  /\ (part # "speculation" => cache.max = CHOOSE x \in CacheSizes : TRUE)
  /\ Swift!Init /\ (part # "swiftkv" => backend = "flash_attention")
  /\ Forest!Init /\ (part # "forest" => config = CHOOSE x \in mcConfigs : TRUE)
  /\ Arctic!Init /\ (part # "drafter" => drafter = CHOOSE x \in mcDrafters : TRUE)

Steps ==
  /\ UNCHANGED part
  /\ \/ part = "speculation" /\ Next /\ UNCHANGED <<parallelVars, swiftVars, forestVars, drafterVars>>
     \/ part = "parallelism" /\ Parallel!Next /\ UNCHANGED <<specVars, swiftVars, forestVars, drafterVars>>
     \/ part = "swiftkv" /\ Swift!Next /\ UNCHANGED <<specVars, parallelVars, forestVars, drafterVars>>
     \/ part = "forest" /\ Forest!Next /\ UNCHANGED <<specVars, parallelVars, swiftVars, drafterVars>>
     \/ part = "drafter" /\ Arctic!Next /\ UNCHANGED <<specVars, parallelVars, swiftVars, forestVars>>

AllSpec == AllInit /\ [][Steps]_<<part, specVars, parallelVars, swiftVars, forestVars, drafterVars>>

\* Modules Ulysses and Drafter: groups, shards, graph and buffer sizes fit together.
LayoutExact ==
  /\ part = "parallelism" => Parallel!LayoutExact
  /\ part = "drafter" => Arctic!SizesExact /\ Arctic!RowsFit

\* Modules Ulysses and Drafter: a batch yields the right outputs in either model,
\* and the drafter the right drafts for it.
OutputsExact ==
  /\ part = "parallelism" => Parallel!OutputsExact
  /\ part = "drafter" => Arctic!FedRight /\ Arctic!DraftsExact

\* Module SwiftKV: the selected tokens see the keys they should.
SelectionExact == part = "swiftkv" => Swift!SelectionExact

\* Module ForestCascade: a token attends once to each key of its request.
AttendedOnce == part = "forest" => Forest!AttendedOnce

=============================================================================
