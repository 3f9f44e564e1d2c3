----------------------------- MODULE WeightSync -----------------------------
(***************************************************************************)
(* A round of weight synchronization from the ranks of a trainer to the    *)
(* tensor-parallel workers of the inference replicas                       *)
(* (src/arctic_inference/server/weight_sync): the static schedule, the     *)
(* senders' connections made and used one after the other, the gathering   *)
(* of a sharded model in lockstep, and what each worker does with the      *)
(* weights it receives.  Module NCCLEngine shows that one connection       *)
(* delivers what is sent; here a weight crosses it in one step.            *)
(***************************************************************************)
EXTENDS Integers, Sequences, FiniteSets, SequencesExt, FiniteSetsExt

CONSTANTS Settings,   \* trainer and inference engines: see the variable set
          Names,      \* the names the inference model expects, in the trainer's order
          Fused,      \* sets of names that share a fused module (_STACKED_PARAMS)
          BasePort,
          SyncRounds  \* bound: rounds

VARIABLES set,     \* the setting: sharding, gpus, replicas, tp, path, the kind of iterable
                   \* the trainer passes, the names it ships, strict name checks or not
          round,   \* the trainer's version of the weights
          senders, \* rank -> its WeightSender and the call of send under way
          iter,    \* rank -> how many weights the iterable of this round has given
          workers, \* worker -> its engine's port and its call of sync_weights
          wgt      \* worker -> name -> version in the model

syncVars == <<set, round, senders, iter, workers, wgt>>

(***************************************************************************)
(* TransferSchedule.                                                       *)
(***************************************************************************)

Workers == (0 .. set.replicas - 1) \X (0 .. set.tp - 1)

\* all_targets, row by row.
AllTargets(s) == [i \in 1 .. s.replicas * s.tp |-> <<(i - 1) \div s.tp, (i - 1) % s.tp>>]

Buildable(s) == s.sharding = "zero3" => s.gpus >= s.replicas * s.tp

Senders(s) == IF s.sharding = "zero3" THEN s.gpus ELSE Min({s.gpus, s.replicas * s.tp})

\* TransferSchedule.build(): target i goes to sender i % n_senders.
Targets(s, g) ==
  LET all == AllTargets(s)
  IN [k \in 1 .. (Len(all) - g + Senders(s) - 1) \div Senders(s) |->
        all[g + (k - 1) * Senders(s) + 1]]


PortForTarget(s, w) == BasePort + w[1] * s.tp + w[2]

\* sync_weights() of the pool gives a replica its base port, the worker adds its
\* rank.
PortOfWorker(w) == (BasePort + w[1] * set.tp) + w[2]

Ranks == 0 .. Senders(set) - 1

(***************************************************************************)

\* The names the model can take, as compute_expected_hf_param_names() derives them.
Expected == ToSet(Names)

SyncInit ==
  /\ set \in {s \in Settings : Buildable(s)}
  /\ round = 0
  /\ senders = [g \in Ranks |-> [st |-> "idle", engines |-> {}, at |-> 0, next |-> 0]]
  /\ iter = [g \in Ranks |-> 0]
  /\ workers = [w \in Workers |-> [st |-> "idle", port |-> 0, got |-> {}, bufs |-> {}]]
  /\ wgt = [w \in Workers |-> [n \in Expected |-> 0]]

Shipped == set.ships

\* A round: every rank calls send() with its iterable, the pool every worker's
\* sync_weights().
RoundBegins ==
  /\ round < SyncRounds
  /\ \A g \in Ranks : senders[g].st \in {"idle", "done"}
  /\ \A w \in Workers : workers[w].st \in {"idle", "done"}
  /\ round' = round + 1
  /\ senders' = [g \in Ranks |-> [senders[g] EXCEPT !.st = "connect", !.at = 1, !.next = 1]]
  /\ iter' = [g \in Ranks |-> 0]
  /\ workers' = [w \in Workers |->
               [workers[w] EXCEPT !.st = IF workers[w].port = PortOfWorker(w) THEN "receive" ELSE "join",
                              !.got = {}, !.bufs = {}]]
  /\ UNCHANGED <<set, wgt>>

\* WeightSender.connect(): one rendezvous after another; each blocks until the
\* worker with that port has joined.
Connect(g) ==
  /\ senders[g].st = "connect"
  /\ LET left == SelectSeq(Targets(set, g), LAMBDA w : w \notin senders[g].engines)
     IN IF left = <<>>
        THEN /\ senders' = [senders EXCEPT ![g].st = "send"]
             /\ UNCHANGED workers
        ELSE \E w \in Workers :
               /\ workers[w].st = "join" /\ PortOfWorker(w) = PortForTarget(set, Head(left))
               /\ workers' = [workers EXCEPT ![w].st = "receive", ![w].port = PortOfWorker(w)]
               /\ senders' = [senders EXCEPT ![g].engines = @ \union {Head(left)}]
  /\ UNCHANGED <<set, round, iter, wgt>>

(***************************************************************************)
(* WeightSender.send().                                                    *)
(***************************************************************************)

Lazy == set.iterable = "generator"

\* The i-th weight of the iterable can be had: a generator over a sharded model
\* gathers it from all ranks, so every rank has asked for it.
Gathered(i) == (Lazy /\ set.sharding # "dp") => \A g \in Ranks : iter[g] >= i - 1

\* _replayable_iter(): a list is there for every target, a generator has only
\* what the first target left of it.
Remaining(g) ==
  IF ~Lazy \/ senders[g].at <= 1 THEN senders[g].next .. Len(Shipped)
  ELSE {i \in senders[g].next .. Len(Shipped) : i > iter[g]}

NextWeight(g) == Min(Remaining(g))

Sending(g) == senders[g].st = "send" /\ Remaining(g) # {} /\ Gathered(NextWeight(g))

Drawn(g) == iter' = [iter EXCEPT ![g] = Max({@, NextWeight(g)})]

\* A rank without a target only takes part in the gathering.
Participate(g) ==
  /\ Targets(set, g) = <<>> /\ Sending(g)
  /\ senders' = [senders EXCEPT ![g].next = NextWeight(g) + 1]
  /\ Drawn(g)
  /\ UNCHANGED <<set, round, workers, wgt>>

\* The names whose weights share a module with n's (_STACKED_PARAMS, _SHARD_COUNTS).
ModuleOf(n) == {n} \union UNION {f \in Fused : n \in f}

\* _FP8InplaceUpdater.feed(): the shards of a fused module are collected; with the
\* last of them all are quantized and written.
Fed(bufs, n) ==
  IF ModuleOf(n) \subseteq bufs \union {n}
  THEN [bufs |-> bufs \ ModuleOf(n), written |-> ModuleOf(n)]
  ELSE [bufs |-> bufs \union {n}, written |-> {}]

\* A received weight on its way into the model: the path of sync_weights().
Loads(w, n) ==
  LET fed == IF set.path = "fp8" THEN Fed(workers[w].bufs, n)
             ELSE [bufs |-> {}, written |-> {n}]
  IN /\ workers' = [workers EXCEPT ![w].got = @ \union {n}, ![w].bufs = fed.bufs]
     /\ wgt' = [wgt EXCEPT ![w] = [x \in DOMAIN @ |->
                                    IF x \in fed.written THEN round ELSE @[x]]]

SendWeight(g) ==
  /\ Targets(set, g) # <<>> /\ Sending(g)
  /\ LET w == Targets(set, g)[senders[g].at]
     IN /\ workers[w].st = "receive"
        /\ Loads(w, Shipped[NextWeight(g)])
  /\ senders' = [senders EXCEPT ![g].next = NextWeight(g) + 1]
  /\ Drawn(g)
  /\ UNCHANGED <<set, round>>

\* Mutant of NamesRefused: names that are missing are not noticed.
UnknownRefused(w) ==
  set.strict /\ set.path # "direct_zero_copy" /\ ~(workers[w].got \subseteq Expected)

\* _validate_weight_sync_names(), after the weights are in the model; the
\* zero-copy path collects no names and nothing received is not checked.
NamesRefused(w) ==
  /\ set.strict /\ set.path # "direct_zero_copy"
  /\ workers[w].got # {} /\ workers[w].got # Expected

\* The last bucket, or the sentinel: the worker's call ends and the sender turns
\* to its next target.
TargetServed(g) ==
  /\ senders[g].st = "send" /\ Targets(set, g) # <<>> /\ Remaining(g) = {}
  /\ LET w == Targets(set, g)[senders[g].at]
         more == senders[g].at < Len(Targets(set, g))
     IN /\ workers[w].st = "receive"
        /\ workers' = [workers EXCEPT ![w].st = IF NamesRefused(w) THEN "error" ELSE "done"]
        /\ senders' = [senders EXCEPT ![g].st = IF more THEN "send" ELSE "done",
                              ![g].at = IF more THEN @ + 1 ELSE @, ![g].next = 1]
  /\ UNCHANGED <<set, round, iter, wgt>>

ParticipationEnds(g) ==
  /\ senders[g].st = "send" /\ Targets(set, g) = <<>> /\ Remaining(g) = {}
  /\ senders' = [senders EXCEPT ![g].st = "done"]
  /\ UNCHANGED <<set, round, iter, workers, wgt>>

\* Between rounds: close_weight_sync() on all workers and destroy() on all senders.
Close ==
  /\ round > 0 /\ round < SyncRounds
  /\ \A g \in Ranks : senders[g].st = "done" /\ (Targets(set, g) # <<>> => senders[g].engines # {})
  /\ \A w \in Workers : workers[w].st = "done"
  /\ senders' = [g \in Ranks |-> [senders[g] EXCEPT !.engines = {}]]
  /\ workers' = [w \in Workers |-> [workers[w] EXCEPT !.port = 0]]
  /\ UNCHANGED <<set, round, iter, wgt>>

RankSteps(g) == \/ Connect(g) \/ SendWeight(g) \/ Participate(g)
                \/ TargetServed(g) \/ ParticipationEnds(g)

SyncNext == RoundBegins \/ Close \/ \E g \in Ranks : RankSteps(g)

SyncSpec == SyncInit /\ [][SyncNext]_syncVars

(***************************************************************************)
(* Properties.                                                             *)
(***************************************************************************)

\* A worker that reports done holds the trainer's version of every weight: it
\* was assigned to a sender, every target of a sender was sent the same weights
\* (sender.py:142-143), and an incomplete set of names or a fused module short
\* of a shard was noticed.
DoneMeansCurrent ==
  \A w \in Workers : workers[w].st = "done" => \A n \in Expected : wgt[w][n] = round

\* What a setting has to bring for the above: a schedule that can be used, a list
\* where a sender has several targets, and weights for all names or a path that
\* notices the missing ones.
Delivers(s) ==
  /\ {s.gpus, s.replicas, s.tp} \subseteq Nat \ {0}
  /\ s.iterable = "generator" => s.gpus >= s.replicas * s.tp
  /\ s.ships \in Seq(ToSet(s.ships)) /\ s.ships # <<>>
  /\ \/ Expected \subseteq ToSet(s.ships)
     \/ s.strict /\ s.path # "direct_zero_copy"

\* Names are fused in groups, and only names the model expects.
FusedApart ==
  /\ \A f \in Fused : f \subseteq Expected
  /\ \A e, f \in Fused : e = f \/ e \cap f = {}

\* A round ends on both sides: the ports the two sides work out meet, senders
\* with different numbers of targets do not wait for one another in a gather.
RoundEnds ==
  round > 0 ~> /\ \A g \in Ranks : senders[g].st = "done"
               /\ \A w \in Workers : workers[w].st \in {"done", "error"}

=============================================================================
