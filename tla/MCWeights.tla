----------------------------- MODULE MCWeights ------------------------------
(***************************************************************************)
(* The three layers of weight synchronization, each in behaviours of its   *)
(* own: one connection (NCCLEngine), a round over all workers (WeightSync) *)
(* and the hand-over through shared memory (ShmHandover).  The variable    *)
(* layer says which one runs; the other two never leave their initial      *)
(* states.                                                                 *)
(***************************************************************************)
EXTENDS NCCLEngine, WeightSync, ShmHandover

VARIABLE layer

mcModels == {<<2, 1, 3, 2>>, <<1>>, <<>>, <<3, 4>>, <<1, 1, 2, 3>>, <<1, 1, 1, 1, 1>>,
             <<1, 1, 1, 1, 1, 3, 3>>}
mcPlace == <<"fits", "padded", "none", "fits", "mismatch", "fits", "fits">>

Setting(sharding, gpus, replicas, tp, path, iterable, ships, strict) ==
  [sharding |-> sharding, gpus |-> gpus, replicas |-> replicas, tp |-> tp, path |-> path,
   iterable |-> iterable, ships |-> ships, strict |-> strict]

mcNames == <<"q", "o", "k">>
mcFused == {{"q", "k"}}

\* Every sharding, fewer and more trainer ranks than targets, every load path, a
\* trainer that cannot be scheduled and one that ships too little.
mcSettings ==
  {Setting("dp", 2, 3, 1, "direct", "list", mcNames, TRUE),
   Setting("fsdp", 3, 2, 2, "fp8", "list", mcNames, TRUE),
   Setting("fsdp", 3, 1, 2, "batched", "generator", mcNames, TRUE),
   Setting("zero3", 3, 1, 2, "fp8", "generator", mcNames, TRUE),
   Setting("zero3", 1, 1, 2, "fp8", "generator", mcNames, TRUE),
   Setting("dp", 1, 1, 2, "fp8", "list", <<"q", "o">>, TRUE),
   Setting("dp", 2, 2, 1, "direct_zero_copy", "generator", mcNames, FALSE)}

\* A worker gets all it should only from settings like these.
ASSUME SettingsDeliver ==
  FusedApart /\ \A s \in Settings : Buildable(s) => Delivers(s)

AllInit ==
  /\ layer \in {"connection", "round", "shm"}
  /\ Init /\ (layer # "connection" => direct)
  /\ SyncInit /\ (layer # "round" => set = CHOOSE x \in Settings : Buildable(x))
  /\ ShmInit

Steps ==
  /\ UNCHANGED layer
  /\ \/ layer = "connection" /\ Next /\ UNCHANGED <<syncVars, shmVars>>
     \/ layer = "round" /\ SyncNext /\ UNCHANGED <<engineVars, shmVars>>
     \/ layer = "shm" /\ ShmNext /\ UNCHANGED <<engineVars, syncVars>>

\* Programs go on, streams run what they can, both sides of the hand-over poll
\* for ever, and a worker is asked to receive what the trainer sends; how often
\* the trainer sends, and whether a wait is given up, is open.
AllSpec ==
  /\ AllInit /\ [][Steps]_<<layer, engineVars, syncVars, shmVars>>
  /\ WF_engineVars(layer = "connection" /\ (SenderSteps \/ SendRaises))
  /\ WF_engineVars(layer = "connection" /\ ReceiverSteps)
  /\ WF_engineVars(layer = "connection" /\ SenderDefaultRuns)
  /\ WF_engineVars(layer = "connection" /\ EventReached)
  /\ WF_engineVars(layer = "connection" /\ Transfer)
  /\ WF_engineVars(layer = "connection" /\ ReceiverDefaultRuns)
  /\ WF_engineVars(layer = "connection" /\ ReceiveBegins)
  /\ \A g \in 0 .. 2 : WF_syncVars(layer = "round" /\ g \in Ranks /\ RankSteps(g))
  /\ WF_shmVars(layer = "shm" /\ SaveSteps)
  /\ WF_shmVars(layer = "shm" /\ LoadCalled /\ calls < save.v)
  /\ \A r \in Readers : WF_shmVars(layer = "shm" /\ LoadSteps(r))

\* One rank of a trainer that passes an iterator and serves two workers.
mcReplaySettings == {Setting("dp", 1, 2, 1, "direct", "generator", mcNames, TRUE)}

Replay == INSTANCE WeightSync
            WITH Settings <- mcReplaySettings

ReplayInit == layer = "round" /\ Init /\ direct = TRUE /\ Replay!SyncInit /\ ShmInit

ReplaySpec == ReplayInit /\ [][Replay!SyncNext /\ UNCHANGED <<layer, engineVars, shmVars>>
                               ]_<<layer, engineVars, syncVars, shmVars>>

\* Every target of a sender is sent the same weights, also when they come from
\* an iterator (sender.py:142-143, 276-287).
ReplayedToEach == Replay!DoneMeansCurrent


=============================================================================
