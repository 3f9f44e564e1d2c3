----------------------------- MODULE Embedding ------------------------------
(***************************************************************************)
(* The embedding service (src/arctic_inference/embedding): a manager       *)
(* launches replica processes, checks their health in a loop, and forwards *)
(* each Encode call of a client to one that is healthy; the replica        *)
(* encodes the prompts of a call concurrently.                             *)
(*                                                                         *)
(* The manager is one event loop: a step ends at an await.                 *)
(***************************************************************************)
EXTENDS Integers, FiniteSets, FiniteSetsExt

CONSTANTS Ports,       \* 1 .. num_replicas: a replica is named by its port
          Calls,       \* Encode calls of the clients
          Prompts,     \* [Calls -> Int]: n_prompts, an int32 the client fills in
          Policies,    \* load balancing policies explored
          MaxFaults,   \* bound: crashes of replica processes and late answers to checks
          None

ASSUME EmbeddingConstants ==
  /\ IsFiniteSet(Ports) /\ Ports \subseteq Nat \ {0}
  /\ Policies \subseteq {"round_robin", "least_loaded", "random"}
  /\ \A c \in Calls : Prompts[c] \in Int
  /\ None \notin Ports

VARIABLES
  policy,
  manager,   \* "launching", "ready", "failed", "stopped", "broken off"
  proc,      \* port -> its process: "loading", "up" (start() has ended), "dead"
  launch,    \* port -> _launch_replica_process(): "waiting", "healthy", "failed"
  replicas,  \* _replicas: inserted, and gone through, in the order of the ports
  healthy, load,  \* ReplicaInfo.healthy, .current_load
  rrIndex,   \* _rr_index
  check,     \* port -> the health loop's check: "idle", "asked", "yes", "no", "recorded"
  info,      \* GetReplicaInfo: the replica it asks next, 0: not running
  call,      \* call -> [st, at, left]: state, replica, number of prompts to encode
  faults

vars == <<policy, manager, proc, launch, replicas, healthy, load, rrIndex, check,
          info, call, faults>>

Init == /\ policy \in Policies
        /\ manager = "launching"
        /\ proc = [p \in Ports |-> "loading"]
        /\ launch = [p \in Ports |-> "waiting"]
        /\ replicas = {}
        /\ healthy = [p \in Ports |-> FALSE]
        /\ load = [p \in Ports |-> 0]
        /\ rrIndex = -1
        /\ check = [p \in Ports |-> "idle"]
        /\ info = 0
        /\ call = [c \in Calls |-> [st |-> "new", at |-> None, left |-> 0]]
        /\ faults = 0

\* self._replicas.values() if r.healthy
HealthySet == {p \in replicas : healthy[p]}

SetHealthy(p, h) == healthy' = [healthy EXCEPT ![p] = h]

(***************************************************************************)
(* Replica processes.                                                      *)
(***************************************************************************)

\* InferenceServer.start(): the port is opened once the engine is there.
Loaded(p) ==
  /\ proc[p] = "loading"
  /\ proc' = [proc EXCEPT ![p] = "up"]
  /\ UNCHANGED <<policy, manager, launch, replicas, healthy, load, rrIndex, check,
                 info, call, faults>>

Crash(p) ==
  /\ proc[p] # "dead" /\ faults < MaxFaults
  /\ proc' = [proc EXCEPT ![p] = "dead"]
  /\ faults' = faults + 1
  /\ UNCHANGED <<policy, manager, launch, replicas, healthy, load, rrIndex, check,
                 info, call>>

\* Encode(): one prompt of the call has its embedding.
EncodePrompt(c) ==
  /\ call[c].st = "sent" /\ proc[call[c].at] = "up"
  /\ call[c].left > 0
  /\ call' = [call EXCEPT ![c].left = @ - 1]
  /\ UNCHANGED <<policy, manager, proc, launch, replicas, healthy, load, rrIndex,
                 check, info, faults>>

(***************************************************************************)
(* Starting and stopping the manager.                                      *)
(***************************************************************************)

\* Mutant of LaunchPoll: a process that is given up is left alone.
LaunchPollLeaves(p) ==
  /\ manager = "launching" /\ launch[p] = "waiting"
  /\ \E ok \in {proc[p] = "up", FALSE} :
       /\ launch' = [launch EXCEPT ![p] = IF ok THEN "healthy" ELSE "failed"]
       /\ healthy' = [healthy EXCEPT ![p] = ok]
  /\ UNCHANGED <<proc, policy, manager, replicas, load, rrIndex, check, info, call,
                 faults>>

\* The polling of a launched process: it answers a health check, or it has died
\* or taken longer than the startup timeout and is closed.
LaunchPoll(p) ==
  /\ manager = "launching" /\ launch[p] = "waiting"
  /\ \/ /\ proc[p] = "up"
        /\ launch' = [launch EXCEPT ![p] = "healthy"]
        /\ healthy' = [healthy EXCEPT ![p] = TRUE]
        /\ UNCHANGED proc
     \/ /\ launch' = [launch EXCEPT ![p] = "failed"]
        /\ proc' = [proc EXCEPT ![p] = "dead"]
        /\ UNCHANGED healthy
  /\ UNCHANGED <<policy, manager, replicas, load, rrIndex, check, info, call,
                 faults>>

\* start(), after the gather.
Started ==
  /\ manager = "launching" /\ \A p \in Ports : launch[p] # "waiting"
  /\ replicas' = {p \in Ports : launch[p] = "healthy"}
  /\ manager' = IF replicas' = {} THEN "failed" ELSE "ready"
  /\ UNCHANGED <<policy, proc, launch, healthy, load, rrIndex, check, info, call,
                 faults>>

\* serve() calls start() before its try: a launch that raises, an interrupt or a
\* cancellation ends the manager without stop(), and closes no process.
StartBreaks ==
  /\ manager = "launching"
  /\ manager' = "broken off"
  /\ UNCHANGED <<policy, proc, launch, replicas, healthy, load, rrIndex, check, info,
                 call, faults>>

\* stop(): the loop is cancelled, every process is terminated.
Stop ==
  /\ manager = "ready"
  /\ manager' = "stopped"
  /\ check' = [p \in Ports |-> "idle"]
  /\ proc' = [p \in Ports |-> IF p \in replicas THEN "dead" ELSE proc[p]]
  /\ UNCHANGED <<policy, launch, replicas, healthy, load, rrIndex, info, call,
                 faults>>

(***************************************************************************)
(* The health loop and GetReplicaInfo.                                     *)
(***************************************************************************)

\* Every health_interval all replicas are asked.
HealthRound ==
  /\ manager = "ready" /\ \A p \in replicas : check[p] = "idle"
  /\ check' = [p \in Ports |-> IF p \in replicas THEN "asked" ELSE "idle"]
  /\ UNCHANGED <<policy, manager, proc, launch, replicas, healthy, load, rrIndex,
                 info, call, faults>>

\* _check_health(): a replica that is up answers, but may need more than the two
\* seconds the check has.
CheckAnswered(p) ==
  /\ check[p] = "asked"
  /\ \/ /\ check' = [check EXCEPT ![p] = IF proc[p] = "up" THEN "yes" ELSE "no"]
        /\ UNCHANGED faults
     \/ /\ proc[p] = "up" /\ faults < MaxFaults
        /\ check' = [check EXCEPT ![p] = "no"]
        /\ faults' = faults + 1
  /\ UNCHANGED <<policy, manager, proc, launch, replicas, healthy, load, rrIndex,
                 info, call>>

\* Mutant of CheckRecorded: a replica that answers again stays marked.
CheckRecordedBad(p) ==
  /\ check[p] \in {"yes", "no"}
  /\ SetHealthy(p, healthy[p] /\ check[p] = "yes")
  /\ check' = [check EXCEPT ![p] = "recorded"]
  /\ UNCHANGED <<policy, manager, proc, launch, replicas, load, rrIndex, info, call,
                 faults>>

\* _periodic_health() goes on with the answer; the gather of the round waits for
\* all of them.
CheckRecorded(p) ==
  /\ check[p] \in {"yes", "no"}
  /\ SetHealthy(p, check[p] = "yes")
  /\ check' = [check EXCEPT ![p] = "recorded"]
  /\ UNCHANGED <<policy, manager, proc, launch, replicas, load, rrIndex, info, call,
                 faults>>

RoundEnds ==
  /\ replicas # {} /\ \A p \in replicas : check[p] = "recorded"
  /\ check' = [p \in Ports |-> "idle"]
  /\ UNCHANGED <<policy, manager, proc, launch, replicas, healthy, load, rrIndex,
                 info, call, faults>>

\* The replica after p, 0 after the last.
Following(p) == LET more == {q \in replicas : q > p}
                IN IF more = {} THEN 0 ELSE Min(more)

\* ManagerServicer.GetReplicaInfo(): one replica after the other; one that fails
\* or answers too late is marked.
AskInfo ==
  /\ replicas # {}
  /\ \/ /\ info # 0 => proc[info] = "up"
        /\ UNCHANGED healthy
     \/ info # 0 /\ SetHealthy(info, FALSE)
  /\ info' = Following(info)
  /\ UNCHANGED <<policy, manager, proc, launch, replicas, load, rrIndex, check, call,
                 faults>>

(***************************************************************************)
(* Calls.                                                                  *)
(***************************************************************************)

\* _select_replica(): the next in turn, the first of those with the least load, any.
Selectable ==
  CASE policy = "round_robin" ->
         {p \in HealthySet : Cardinality({q \in HealthySet : q < p})
                               = (rrIndex + 1) % Cardinality(HealthySet)}
    [] policy = "least_loaded" ->
         {p \in HealthySet : \A q \in HealthySet :
            load[p] < load[q] \/ (load[p] = load[q] /\ p <= q)}
    [] policy = "random" -> HealthySet

\* route_request() up to the call of the replica.
Route(c) ==
  /\ call[c].st = "new"
  /\ IF HealthySet = {}
     THEN /\ call' = [call EXCEPT ![c].st = "unavailable"]
          /\ UNCHANGED <<load, rrIndex>>
     ELSE \E p \in Selectable :
            /\ call' = [call EXCEPT ![c] = [st |-> "sent", at |-> p,
                                            left |-> Prompts[c]]]
            /\ load' = [load EXCEPT ![p] = @ + Prompts[c]]
            /\ rrIndex' = IF policy = "round_robin" THEN (rrIndex + 1) % Cardinality(HealthySet)
                          ELSE rrIndex
  /\ UNCHANGED <<policy, manager, proc, launch, replicas, healthy, check, info, faults>>

\* Mutant of Unload: the load is cleared when a call ends.
UnloadAll(p) == load' = [load EXCEPT ![p] = 0]

\* The finally block.
Unload(p) == load' = [load EXCEPT ![p] = Max({@ - 1, 0})]

\* The replica has answered, with all the embeddings; at once when there are none
\* to make, or when it refuses a number of prompts that cannot be.
Answer(c) ==
  /\ call[c].st = "sent" /\ proc[call[c].at] = "up" /\ call[c].left <= 0
  /\ call' = [call EXCEPT ![c].st = "answered"]
  /\ Unload(call[c].at)
  /\ UNCHANGED <<policy, manager, proc, launch, replicas, healthy, rrIndex, check,
                 info, faults>>

\* RpcError: the replica is gone, or the answer took longer than the timeout.
RpcFails(c) ==
  /\ call[c].st = "sent"
  /\ call' = [call EXCEPT ![c].st = "unavailable"]
  /\ Unload(call[c].at)
  /\ SetHealthy(call[c].at, FALSE)
  /\ UNCHANGED <<policy, manager, proc, launch, replicas, rrIndex, check, info, faults>>

Next ==
  \/ \E p \in Ports : \/ Loaded(p) \/ Crash(p) \/ LaunchPoll(p)
                      \/ CheckAnswered(p) \/ CheckRecorded(p)
  \/ Started \/ StartBreaks \/ Stop \/ HealthRound \/ RoundEnds \/ AskInfo
  \/ \E c \in Calls : EncodePrompt(c) \/ Route(c) \/ Answer(c) \/ RpcFails(c)

Spec == Init /\ [][Next]_vars

\* Processes load or are given up, the loop goes round, an answer or a timeout
\* comes for every call: what asyncio and the timeouts of the code ensure.
Fairness ==
  /\ WF_vars(Started) /\ WF_vars(HealthRound) /\ WF_vars(RoundEnds)
  /\ \A p \in Ports : /\ WF_vars(LaunchPoll(p))
                      /\ WF_vars(CheckAnswered(p)) /\ WF_vars(CheckRecorded(p))
  /\ \A c \in Calls : WF_vars(Route(c)) /\ WF_vars(RpcFails(c))

FairSpec == Spec /\ Fairness

(***************************************************************************)
(* Properties.                                                             *)
(***************************************************************************)

Running(p) == {c \in Calls : call[c].st = "sent" /\ call[c].at = p}

\* The prompts that were sent to p and whose calls have not ended.
Work(p) == UNION {{c} \X (1 .. Prompts[c]) : c \in Running(p)}

\* What calls that announce no prompt, or fewer, have taken off the load of p: the
\* number itself when they came, the one of the finally block when they ended.
Debt(p) == UNION {{c} \X ((IF call[c].st = "sent" THEN 1 ELSE 0) .. -Prompts[c]) :
                  c \in {d \in Calls : call[d].at = p}}

\* Type invariant.
EmbeddingTypeOK ==
  /\ manager \in {"launching", "ready", "failed", "stopped", "broken off"}
  /\ replicas \subseteq Ports /\ rrIndex \in -1 .. Cardinality(Ports) - 1
  /\ \A c \in Calls : call[c].st = "sent" => call[c].at \in replicas
  /\ \A p \in Ports : load[p] \in Int

\* route_request() adds the number the client gives to the load of a replica and
\* takes one off, so that both do not match; still, when calls overlap and fail in
\* any order, the load falls below the prompts the replica has to encode by no
\* more than what calls without a prompt have taken off: only such calls can make
\* least-loaded selection take a busy replica for an idle one
\* (replica_manager.py:173-196).
LoadCoversRunning ==
  \A p \in Ports : load[p] + Cardinality(Debt(p)) >= Cardinality(Work(p))

\* A process that start() gave up is terminated, so that a process is alive only
\* if the manager waits for it or has it in its table: nothing is left behind on
\* the GPU when the manager fails or stops, only when start() itself was broken
\* off (replica_manager.py:439).
NoOrphanProcess ==
  \A p \in Ports :
    proc[p] # "dead" => \/ manager \in {"launching", "broken off"} /\ launch[p] # "failed"
                        \/ manager = "ready" /\ p \in replicas

\* Health marks follow the processes, whatever set them before - a timed-out
\* call, a failed query, a check begun before either: a replica that stays up
\* while the manager runs comes back into rotation again and again, one that has
\* died leaves it for good (replica_manager.py:305-331).
HealthFollows ==
  \A p \in Ports :
    LET watched == manager = "ready" /\ p \in replicas
    IN /\ <>[](watched /\ proc[p] = "up") => []<>healthy[p]
       /\ <>[](watched /\ proc[p] = "dead") => <>[](~healthy[p])

=============================================================================
