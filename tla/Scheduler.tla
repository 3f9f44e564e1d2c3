------------------------------ MODULE Scheduler ------------------------------
(***************************************************************************)
(* The request scheduler of the inference server                           *)
(* (src/arctic_inference/server/scheduler.py).  One asyncio event loop     *)
(* runs every coroutine, so a step here is the code between two awaits.    *)
(*                                                                         *)
(* A request is accepted by submit(), which only creates a task.  The task *)
(* (_process_request) routes the request, takes a slot of the chosen       *)
(* worker or backs off and routes again, waits for the worker's answer,    *)
(* and gives the slot back in its finally block.  The owner of the         *)
(* scheduler meanwhile pauses it, marks workers (un)available, cancels the *)
(* tasks of a worker, adds and removes workers and stops it.               *)
(*                                                                         *)
(* Workers are addressed in two ways that scaling pulls apart: a task      *)
(* holds a reference to its WorkerState object (here a WorkerId), while    *)
(* the in-flight sets and the group pins hold positions in the list.       *)
(* Positions are 1-based here, 0-based in the code.                        *)
(***************************************************************************)
EXTENDS Integers, Sequences, FiniteSets

CONSTANTS
  Requests,        \* the calls of submit() that may be accepted
  WorkerIds,       \* WorkerState objects: a bound on workers ever created
  InitialWorkers,  \* the list of workers the scheduler is built with
  Limits,          \* the values a concurrency limit takes
  Keys,            \* affinity keys (hashes of a routing key or a prompt)
  NoKey,           \* prefix_hash is None
  NoWorker,        \* the local variable ws is None
  Policy,          \* the routing function the scheduler is built with
  ClientOps,       \* the management calls the owner makes in this instance
  CounterCycle     \* the round-robin counter is kept modulo this multiple
                   \* of every possible number of candidates

Policies == {"least_loaded", "prefix_affinity", "strict_affinity"}

AllOps == {"pause", "availability", "cancel", "scale", "affinity",
           "adjust", "stop", "metrics"}

ASSUME RequestsFinite == IsFiniteSet(Requests)

ASSUME InitialWorkersDistinct ==
  /\ InitialWorkers \in Seq(WorkerIds)
  /\ InitialWorkers # <<>>
  /\ \A i, j \in DOMAIN InitialWorkers :
        InitialWorkers[i] = InitialWorkers[j] => i = j

ASSUME NoWorkerIsNoWorker == NoWorker \notin WorkerIds

ASSUME LimitsPositive == Limits \subseteq Nat \ {0}

ASSUME CounterCyclePositive == CounterCycle \in Nat \ {0}

ASSUME CounterCycleMultiple == CounterCycle % Len(InitialWorkers) = 0

ASSUME KeysAreHashes == Keys \subseteq Int

ASSUME PolicyKnown == Policy \in Policies /\ ClientOps \subseteq AllOps

VARIABLES
  workers,       \* _workers: the list of WorkerState objects
  created,       \* the WorkerState objects constructed so far
  active,        \* ws.active_requests
  limit,         \* ws.concurrency_limit
  available,     \* ws.available
  inflight,      \* _inflight_tasks: one set of tasks per position
  paused,        \* _paused
  stopped,       \* _stopped
  groupWorker,   \* _group_worker: key -> position, 0 when absent
  groupCounter,  \* _group_counter modulo CounterCycle
  pc,            \* where the task of a request is
  key,           \* req.prefix_hash
  strict,        \* req.strict
  ws,            \* the task's local ws
  tracked,       \* the task's tracked_worker_idx, 0 when None
  future,        \* the outcome the caller of submit() is given
  records,       \* _request_records
  reported,      \* history: the records drain_metrics() has returned
  misreleased    \* history: workers a slot of which was given back by a
                 \* task that had not taken one

workerVars == <<workers, created, limit, available>>
gateVars   == <<paused, stopped>>
groupVars  == <<groupWorker, groupCounter>>
reqVars    == <<key, strict>>
taskVars   == <<pc, ws, tracked, future>>
metricVars == <<records, reported>>
loadVars   == <<active, inflight, misreleased>>

vars == <<workerVars, gateVars, groupVars, reqVars, taskVars, metricVars,
          loadVars>>

(***************************************************************************)
(* "new": not submitted.  "queued": at the head of the dispatch loop, not  *)
(* run yet or sleeping between two attempts.  "generating": awaiting the   *)
(* worker.  "cancelling": cancel() was called, CancelledError is still to  *)
(* be delivered.  "done": the task has ended.                              *)
(***************************************************************************)
TaskStates == {"new", "queued", "generating", "cancelling", "done"}
Outcomes   == {"pending", "result", "error", "cancelled", "stopped"}

TypeOK ==
  /\ workers \in Seq(WorkerIds)
  /\ created \in SUBSET WorkerIds
  /\ active \in [WorkerIds -> Nat]
  /\ limit \in [WorkerIds -> Limits]
  /\ available \in [WorkerIds -> BOOLEAN]
  /\ inflight \in Seq(SUBSET Requests)
  /\ paused \in BOOLEAN /\ stopped \in BOOLEAN
  /\ groupWorker \in [Keys -> Nat]
  /\ groupCounter \in Nat
  /\ pc \in [Requests -> TaskStates]
  /\ key \in [Requests -> Keys \cup {NoKey}]
  /\ strict \in [Requests -> BOOLEAN]
  /\ ws \in [Requests -> WorkerIds \cup {NoWorker}]
  /\ tracked \in [Requests -> Nat]
  /\ future \in [Requests -> Outcomes]
  /\ records \in SUBSET Requests /\ reported \in SUBSET Requests
  /\ misreleased \in SUBSET WorkerIds

Init ==
  /\ workers = InitialWorkers
  /\ created = {InitialWorkers[i] : i \in DOMAIN InitialWorkers}
  /\ active = [w \in WorkerIds |-> 0]
  /\ limit \in {[w \in WorkerIds |-> l] : l \in Limits}
  /\ available = [w \in WorkerIds |-> TRUE]
  /\ inflight = [i \in DOMAIN InitialWorkers |-> {}]
  /\ paused = FALSE /\ stopped = FALSE
  /\ groupWorker = [k \in Keys |-> 0]
  /\ groupCounter = 0
  /\ pc = [r \in Requests |-> "new"]
  /\ key = [r \in Requests |-> NoKey]
  /\ strict = [r \in Requests |-> FALSE]
  /\ ws = [r \in Requests |-> NoWorker]
  /\ tracked = [r \in Requests |-> 0]
  /\ future = [r \in Requests |-> "pending"]
  /\ records = {} /\ reported = {}
  /\ misreleased = {}

-----------------------------------------------------------------------------
(* Routing: which position of the list a request is sent to. *)

Positions == DOMAIN workers

\* Mutant of Usable: mark_worker_unavailable() is forgotten by routing.
UsableByLimit(i) == limit[workers[i]] > 0

Usable(i) == available[workers[i]] /\ limit[workers[i]] > 0

AllPositions == [i \in Positions |-> i]

\* The candidates among the first n workers.
CandidatesUpTo[n \in 0 .. Len(workers)] ==
  IF n = 0 THEN <<>>
  ELSE IF Usable(n) THEN Append(CandidatesUpTo[n - 1], n)
  ELSE CandidatesUpTo[n - 1]

Candidates == CandidatesUpTo[Len(workers)]

CandidatesOrAll == IF Candidates = <<>> THEN AllPositions ELSE Candidates

\* The element a hash or a counter selects: seq[n % len(seq)].
Pick(seq, n) == seq[1 + (n % Len(seq))]

Elements(seq) == {seq[i] : i \in DOMAIN seq}

\* active / max(limit, 1), compared without division.
Lighter(i, j) ==
  LET divisor(p) == IF limit[workers[p]] > 1 THEN limit[workers[p]] ELSE 1
  IN  active[workers[i]] * divisor(j) < active[workers[j]] * divisor(i)

\* The first position of the lowest load ratio.
least_loaded_routing ==
  CHOOSE i \in Elements(CandidatesOrAll) :
    \A j \in Elements(CandidatesOrAll) :
      ~Lighter(j, i) /\ (j < i => Lighter(i, j))

\* active < limit * 0.85
BelowThreshold(i) == 100 * active[workers[i]] < 85 * limit[workers[i]]

\* The keyed worker, else the next on the ring below the load threshold.
prefix_affinity_routing(k) ==
  LET C    == Candidates
      open == {o \in 0..(Len(C) - 1) : BelowThreshold(Pick(C, k + o))}
  IN  IF C = <<>> \/ k = NoKey \/ open = {}
      THEN least_loaded_routing
      ELSE Pick(C, k + (CHOOSE o \in open : \A p \in open : o <= p))

\* The keyed worker whatever its load.
strict_affinity_routing(k) ==
  IF Candidates = <<>> \/ k = NoKey
  THEN least_loaded_routing
  ELSE Pick(Candidates, k)

\* Strict requests with a key are routed by their group's pin.
Grouped(r) == strict[r] /\ key[r] # NoKey

PinOf(r) == groupWorker[key[r]]

\* Mutant of PinHolds: a group spills over when its worker is full.
PinHasRoom(r) ==
  PinOf(r) # 0 /\ Usable(PinOf(r)) /\ active[workers[PinOf(r)]] < limit[workers[PinOf(r)]]

PinHolds(r) == PinOf(r) # 0 /\ Usable(PinOf(r))

\* Mutant of equal_affinity_routing: groups are placed by their hash.
hashed_group_routing(r) ==
  IF PinHolds(r) THEN PinOf(r) ELSE Pick(CandidatesOrAll, key[r])

equal_affinity_routing(r) ==
  IF PinHolds(r) THEN PinOf(r) ELSE Pick(CandidatesOrAll, groupCounter)

Route(r) ==
  CASE Grouped(r)                   -> equal_affinity_routing(r)
    [] ~Grouped(r) /\ Policy = "least_loaded"    -> least_loaded_routing
    [] ~Grouped(r) /\ Policy = "prefix_affinity" -> prefix_affinity_routing(key[r])
    [] ~Grouped(r) /\ Policy = "strict_affinity" -> strict_affinity_routing(key[r])

(***************************************************************************)
(* Routing raises when there is no worker at all (min() of nothing, or a   *)
(* modulo by zero) and when a group's pin is past the end of the list.     *)
(***************************************************************************)
RouteRaises(r) ==
  \/ workers = <<>>
  \/ Grouped(r) /\ PinOf(r) # 0 /\ PinOf(r) \notin Positions

\* What routing r to position i leaves in the group tables.
RememberGroup(r, i) ==
  IF Grouped(r) /\ ~PinHolds(r)
  THEN /\ groupWorker' = [groupWorker EXCEPT ![key[r]] = i]
       /\ groupCounter' = (groupCounter + 1) % CounterCycle
  ELSE UNCHANGED groupVars

-----------------------------------------------------------------------------
(* The task of a request: _process_request. *)

\* ws.active_requests = max(0, ws.active_requests - 1)
ReleaseSlot(w) ==
  active' = [active EXCEPT ![w] = IF @ > 0 THEN @ - 1 ELSE 0]

\* Mutant of submit: the pause is forgotten.
submitWhilePaused(r, k, s) ==
  /\ pc[r] = "new"
  /\ ~stopped
  /\ pc' = [pc EXCEPT ![r] = "queued"]
  /\ key' = [key EXCEPT ![r] = k]
  /\ strict' = [strict EXCEPT ![r] = s]
  /\ UNCHANGED <<workerVars, gateVars, groupVars, metricVars,
                 loadVars, ws, tracked, future>>

submit(r, k, s) ==
  /\ pc[r] = "new"
  /\ ~stopped /\ ~paused
  /\ pc' = [pc EXCEPT ![r] = "queued"]
  /\ key' = [key EXCEPT ![r] = k]
  /\ strict' = [strict EXCEPT ![r] = s]
  /\ UNCHANGED <<workerVars, gateVars, groupVars, metricVars,
                 loadVars, ws, tracked, future>>

\* Mutant of HasSlot: off by one.
HasSlotOrOneMore(w) == active[w] <= limit[w]

HasSlot(w) == active[w] < limit[w]

\* One attempt that finds a free slot: the task is tracked and calls the worker.
Dispatch(r) ==
  /\ pc[r] = "queued" /\ ~stopped
  /\ ~RouteRaises(r)
  /\ \E i \in Positions :
       LET w == workers[i] IN
       /\ i = Route(r)
       /\ HasSlot(w)
       /\ active' = [active EXCEPT ![w] = @ + 1]
       /\ ws' = [ws EXCEPT ![r] = w]
       /\ tracked' = [tracked EXCEPT ![r] = i]
       /\ inflight' = [inflight EXCEPT ![i] = @ \cup {r}]
       /\ RememberGroup(r, i)
  /\ pc' = [pc EXCEPT ![r] = "generating"]
  /\ UNCHANGED <<workerVars, gateVars, reqVars, metricVars, future, misreleased>>

\* One attempt that finds the worker full: ws is bound, the task sleeps.
Backoff(r) ==
  /\ pc[r] = "queued" /\ ~stopped
  /\ ~RouteRaises(r)
  /\ \E i \in Positions :
       LET w == workers[i] IN
       /\ i = Route(r)
       /\ ~HasSlot(w)
       /\ ws' = [ws EXCEPT ![r] = w]
       /\ RememberGroup(r, i)
  /\ UNCHANGED <<workerVars, gateVars, reqVars, metricVars, loadVars,
                 pc, tracked, future>>

\* The task ends: its caller has the outcome and its locals are gone.
EndTask(r, outcome) ==
  /\ pc' = [pc EXCEPT ![r] = "done"]
  /\ future' = [future EXCEPT ![r] = outcome]
  /\ ws' = [ws EXCEPT ![r] = NoWorker]
  /\ tracked' = [tracked EXCEPT ![r] = 0]

(***************************************************************************)
(* The task ends without having been dispatched.  Its finally block gives  *)
(* a slot back whenever ws is bound, which an earlier full attempt did     *)
(* without taking a slot.                                                  *)
(***************************************************************************)
EndUndispatched(r, outcome) ==
  /\ EndTask(r, outcome)
  /\ IF ws[r] = NoWorker
     THEN UNCHANGED <<active, misreleased>>
     ELSE ReleaseSlot(ws[r]) /\ misreleased' = misreleased \cup {ws[r]}
  /\ UNCHANGED <<workerVars, gateVars, groupVars, reqVars, metricVars, inflight>>

RouteError(r) ==
  /\ pc[r] = "queued" /\ ~stopped
  /\ RouteRaises(r)
  /\ EndUndispatched(r, "error")

\* Mutant of StopQueued: the loop is left without an answer to the caller.
StopQueuedSilently(r) ==
  /\ pc[r] = "queued" /\ stopped
  /\ EndUndispatched(r, "pending")

StopQueued(r) ==
  /\ pc[r] = "queued" /\ stopped
  /\ EndUndispatched(r, "stopped")

\* Mutant of EndDispatched: the slot is given back only after a result, not in
\* a finally block.
EndDispatchedLeaks(r, outcome) ==
  /\ EndTask(r, outcome)
  /\ IF tracked[r] \in DOMAIN inflight
     THEN /\ inflight' = [inflight EXCEPT ![tracked[r]] = @ \ {r}]
          /\ IF outcome = "result"
             THEN ReleaseSlot(ws[r]) /\ records' = records \cup {r}
             ELSE UNCHANGED <<active, records>>
     ELSE UNCHANGED <<inflight, active, records>>
  /\ UNCHANGED <<workerVars, gateVars, groupVars, reqVars, reported, misreleased>>

(***************************************************************************)
(* The task of a dispatched request ends.  When its position has left      *)
(* _inflight_tasks the finally block raises KeyError before it gives the   *)
(* slot back or records the request.                                       *)
(***************************************************************************)
EndDispatched(r, outcome) ==
  /\ EndTask(r, outcome)
  /\ IF tracked[r] \in DOMAIN inflight
     THEN /\ inflight' = [inflight EXCEPT ![tracked[r]] = @ \ {r}]
          /\ ReleaseSlot(ws[r])
          /\ records' = IF outcome = "result" THEN records \cup {r} ELSE records
     ELSE UNCHANGED <<inflight, active, records>>
  /\ UNCHANGED <<workerVars, gateVars, groupVars, reqVars, reported, misreleased>>

Complete(r) == pc[r] = "generating" /\ EndDispatched(r, "result")
Fail(r) == pc[r] = "generating" /\ EndDispatched(r, "error")
Cancelled(r) == pc[r] = "cancelling" /\ EndDispatched(r, "cancelled")

-----------------------------------------------------------------------------
(* What the owner of the scheduler does. *)

pause ==
  /\ "pause" \in ClientOps
  /\ paused' = TRUE
  /\ UNCHANGED <<workerVars, groupVars, reqVars, taskVars, metricVars,
                 loadVars, stopped>>

resume ==
  /\ "pause" \in ClientOps
  /\ paused' = FALSE
  /\ UNCHANGED <<workerVars, groupVars, reqVars, taskVars, metricVars,
                 loadVars, stopped>>

mark_worker(i, up) ==
  /\ "availability" \in ClientOps
  /\ available' = [available EXCEPT ![workers[i]] = up]
  /\ UNCHANGED <<workers, created, limit, gateVars, groupVars, reqVars,
                 taskVars, metricVars, loadVars>>

\* Mutant of CancelTasks: a cancelled task tries another worker.
RequeueTasks(I) ==
  pc' = [r \in Requests |->
           IF pc[r] = "generating" /\ \E i \in I : r \in inflight[i]
           THEN "queued" ELSE pc[r]]

\* task.cancel() on every tracked task of the positions in I.
CancelTasks(I) ==
  pc' = [r \in Requests |->
           IF pc[r] = "generating" /\ \E i \in I : r \in inflight[i]
           THEN "cancelling" ELSE pc[r]]

cancel_worker_inflight(i) ==
  /\ "cancel" \in ClientOps
  /\ CancelTasks({i})
  /\ UNCHANGED <<workerVars, gateVars, groupVars, reqVars, metricVars,
                 loadVars, ws, tracked, future>>

\* Mutant of add_worker: the worker shares the set of its predecessor, which
\* removing the last worker left behind.
add_worker_reusing_set(w, l) ==
  /\ "scale" \in ClientOps
  /\ w \notin created
  /\ created' = created \cup {w}
  /\ workers' = Append(workers, w)
  /\ inflight' = Append(inflight, {r \in Requests : tracked[r] = Len(workers) + 1})
  /\ active' = [active EXCEPT ![w] = 0]
  /\ limit' = [limit EXCEPT ![w] = l]
  /\ available' = [available EXCEPT ![w] = TRUE]
  /\ UNCHANGED <<gateVars, groupVars, reqVars, taskVars, metricVars, misreleased>>

add_worker(w, l) ==
  /\ "scale" \in ClientOps
  /\ w \notin created
  /\ created' = created \cup {w}
  /\ workers' = Append(workers, w)
  /\ inflight' = Append(inflight, {})
  /\ active' = [active EXCEPT ![w] = 0]
  /\ limit' = [limit EXCEPT ![w] = l]
  /\ available' = [available EXCEPT ![w] = TRUE]
  /\ UNCHANGED <<gateVars, groupVars, reqVars, taskVars, metricVars, misreleased>>

\* Mutant of remove_last_worker: the tasks of the worker are not cancelled.
remove_last_worker_only ==
  /\ "scale" \in ClientOps
  /\ workers # <<>>
  /\ workers' = SubSeq(workers, 1, Len(workers) - 1)
  /\ inflight' = SubSeq(inflight, 1, Len(workers) - 1)
  /\ UNCHANGED <<created, limit, available, gateVars, groupVars, reqVars,
                 metricVars, active, misreleased, taskVars>>

remove_last_worker ==
  /\ "scale" \in ClientOps
  /\ workers # <<>>
  /\ CancelTasks({Len(workers)})
  /\ workers' = SubSeq(workers, 1, Len(workers) - 1)
  /\ inflight' = SubSeq(inflight, 1, Len(workers) - 1)
  /\ UNCHANGED <<created, limit, available, gateVars, groupVars, reqVars,
                 metricVars, active, misreleased, ws, tracked, future>>

reset_affinity ==
  /\ "affinity" \in ClientOps
  /\ groupWorker' = [k \in Keys |-> 0]
  /\ groupCounter' = 0
  /\ UNCHANGED <<workerVars, gateVars, reqVars, taskVars, metricVars,
                 loadVars>>

\* One round of the adjust loop, which the first submit() starts; the
\* concurrency function is a parameter and may return any limit.
concurrency_adjust ==
  /\ "adjust" \in ClientOps
  /\ ~stopped /\ \E r \in Requests : pc[r] # "new"
  /\ \E l \in [Elements(workers) -> Limits] :
       limit' = [w \in WorkerIds |-> IF w \in DOMAIN l THEN l[w] ELSE limit[w]]
  /\ UNCHANGED <<workers, created, available, gateVars, groupVars, reqVars,
                 taskVars, metricVars, loadVars>>

shutdown ==
  /\ "stop" \in ClientOps
  /\ stopped' = TRUE
  /\ UNCHANGED <<workerVars, groupVars, reqVars, taskVars, metricVars,
                 loadVars, paused>>

\* Mutant of drain_metrics: the records are kept.
drain_metrics_copy ==
  /\ "metrics" \in ClientOps
  /\ reported' = reported \cup records
  /\ UNCHANGED <<workerVars, gateVars, groupVars, reqVars, taskVars,
                 loadVars, records>>

drain_metrics ==
  /\ "metrics" \in ClientOps
  /\ reported' = reported \cup records
  /\ records' = {}
  /\ UNCHANGED <<workerVars, gateVars, groupVars, reqVars, taskVars,
                 loadVars>>

-----------------------------------------------------------------------------

\* One turn of a task of the event loop that needs no worker's answer.
TaskStep(r) ==
  Dispatch(r) \/ Backoff(r) \/ RouteError(r) \/ StopQueued(r) \/ Cancelled(r)

Answer(r) == Complete(r) \/ Fail(r)

\* strict is ignored without a key.
Submit(r) ==
  \/ submit(r, NoKey, FALSE)
  \/ \E k \in Keys, s \in BOOLEAN : submit(r, k, s)

Manage ==
  \/ pause \/ resume
  \/ \E i \in Positions, up \in BOOLEAN : mark_worker(i, up)
  \/ \E i \in Positions : cancel_worker_inflight(i)
  \/ \E w \in WorkerIds, l \in Limits : add_worker(w, l)
  \/ remove_last_worker
  \/ reset_affinity
  \/ concurrency_adjust
  \/ shutdown
  \/ drain_metrics

Next ==
  \/ \E r \in Requests : Submit(r) \/ TaskStep(r) \/ Answer(r)
  \/ Manage

Spec == Init /\ [][Next]_vars

(***************************************************************************)
(* The event loop runs every task that is ready, and a worker eventually   *)
(* answers a call or its actor fails; the owner is under no obligation.    *)
(***************************************************************************)
Fairness ==
  \A r \in Requests : WF_vars(TaskStep(r)) /\ WF_vars(Answer(r))

FairSpec == Spec /\ Fairness

-----------------------------------------------------------------------------
(* Properties *)

Running(r) == pc[r] \in {"generating", "cancelling"}

\* The tasks that hold a slot of w.
Holders(w) == {r \in Requests : Running(r) /\ ws[r] = w}

(***************************************************************************)
(* active_requests is the counter that bounds a worker's load and that     *)
(* drain() and drain_worker() wait on.  It never counts a slot nobody      *)
(* holds, so a drain cannot wait for a request that has gone, whatever     *)
(* mixture of failures, cancellations and scaling came before; and it is   *)
(* exact for every worker that was not misreleased.                        *)
(***************************************************************************)
SlotsAccounted ==
  \A i \in Positions :
    LET w == workers[i] IN
    /\ active[w] <= Cardinality(Holders(w))
    /\ w \notin misreleased => active[w] = Cardinality(Holders(w))

(***************************************************************************)
(* _inflight_tasks, indexed by position, is exactly the set of tasks whose *)
(* WorkerState object is now at that position: cancel_worker_inflight      *)
(* cancels all of a worker's requests and never those of a worker that     *)
(* was at the same position before it.                                     *)
(***************************************************************************)
InflightExact ==
  /\ DOMAIN inflight = Positions
  /\ \A i \in Positions : inflight[i] = Holders(workers[i])

(***************************************************************************)
(* A request that is still waiting for the answer of a worker waits for a  *)
(* worker in the list: removing a worker cancels every request on it.      *)
(***************************************************************************)
NoOrphans ==
  \A r \in Requests : pc[r] = "generating" => ws[r] \in Elements(workers)

(***************************************************************************)
(* The records drain_metrics() hands out are those of the requests that    *)
(* were answered with a result, each once, none lost between the drains.   *)
(***************************************************************************)
RecordsExact ==
  /\ records \cap reported = {}
  /\ records \cup reported = {r \in Requests : future[r] = "result"}

Stage(r) ==
  CASE pc[r] = "new"    -> "unseen"
    [] pc[r] = "queued" -> "waiting"
    [] Running(r)       -> "served"
    [] pc[r] = "done"   -> "answered"

Ledger == INSTANCE RequestLedger WITH
  Workers <- WorkerIds,
  stage   <- [r \in Requests |-> Stage(r)],
  holder  <- [r \in Requests |-> IF Running(r) THEN ws[r] ELSE NoWorker],
  answer  <- future

(***************************************************************************)
(* The scheduler keeps the ledger's promises: every accepted request is    *)
(* answered at most once and served at most once, although its future is   *)
(* set in four places that cancellation, the worker's answer, removal of   *)
(* the worker and stopping race for.                                       *)
(***************************************************************************)
KeepsLedger == Ledger!LedgerSpec

(***************************************************************************)
(* A dispatch leaves the worker with at most as many requests as its       *)
(* current limit, counted by the requests it really holds and not by       *)
(* active_requests, after any history of cancellations, scaling and limit  *)
(* changes, unless the worker was misreleased.                             *)
(***************************************************************************)
NoOverCommit ==
  [][\A r \in Requests, w \in WorkerIds :
       (pc[r] = "queued" /\ pc'[r] = "generating" /\ ws'[r] = w /\ w \notin misreleased)
         => Cardinality(Holders(w)') <= limit[w]]_vars

(***************************************************************************)
(* While another worker is usable, a worker that was marked unavailable    *)
(* receives no request, keyed, pinned or not: its load only falls, which   *)
(* is what scale_down relies on when it drains the last worker.            *)
(***************************************************************************)
UnavailableOnlyDrains ==
  [][\A w \in Elements(workers) :
       (~available[w] /\ \E j \in Positions : Usable(j))
         => Holders(w)' \subseteq Holders(w)]_vars

(***************************************************************************)
(* A request of a group goes to the group's worker, and as long as the     *)
(* workers and their availability are left alone that worker stays the     *)
(* same from one turn to the next until reset_affinity().                  *)
(***************************************************************************)
GroupTogether ==
  [][\A r \in Requests :
       (Grouped(r) /\ pc[r] = "queued" /\ pc'[r] = "generating") =>
         /\ ws'[r] = workers[groupWorker'[key[r]]]
         /\ PinOf(r) # 0 => groupWorker'[key[r]] = PinOf(r)]_vars

\* Groups are spread evenly: two workers' numbers of groups differ by at most one.
GroupsSpread ==
  LET groups(i) == {k \in Keys : groupWorker[k] = i} IN
  \A i, j \in Positions : Cardinality(groups(i)) <= Cardinality(groups(j)) + 1

(***************************************************************************)
(* "Reuse this group's existing assignment if its worker is still usable": *)
(* routing finds a worker for every queued request while there is one.     *)
(***************************************************************************)
RoutingTotal ==
  \A r \in Requests :
    pc[r] = "queued" /\ ~stopped /\ workers # <<>> => ~RouteRaises(r)

(***************************************************************************)
(* Every accepted request is answered, whatever the owner does meanwhile:  *)
(* a task that backs off is not starved for ever by finitely many others.  *)
(***************************************************************************)
EveryRequestAnswered ==
  \A r \in Requests : pc[r] = "queued" ~> future[r] # "pending"

\* drain() after pause() returns: with submissions held off, every slot is
\* eventually given back, also when workers fail or are removed meanwhile.
PausedDrains ==
  <>[]paused => <>[](\A i \in Positions : active[workers[i]] = 0)

=============================================================================
