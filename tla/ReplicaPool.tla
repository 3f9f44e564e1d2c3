----------------------------- MODULE ReplicaPool -----------------------------
(***************************************************************************)
(* The replica pool of one model                                           *)
(* (src/arctic_inference/server/replica_pool.py), composed with its        *)
(* scheduler.  The pool's coroutines (calls) put workers to sleep and wake *)
(* them, synchronise weights, reset prefix caches and scale, one at a time *)
(* under _lock; generate() and shutdown() do not take the lock.  Between   *)
(* two awaits of a call every task of the scheduler may run.               *)
(*                                                                         *)
(* A step of a call is the code between two awaits: it takes the lock and  *)
(* runs up to the first wait, leaves the drain loop, hears from one        *)
(* worker, or runs from the last answer to the release of the lock.  Other *)
(* tasks may run in between also where the await does not suspend (a free  *)
(* lock, a drain with nothing to wait for).                                *)
(***************************************************************************)
EXTENDS Scheduler, Worker

CONSTANTS
  Calls,        \* coroutines of the pool's API that may be under way at once
  NoCall,       \* the lock is free
  PoolOps,      \* the operations the callers of this instance ask for
  WorkerErrors, \* whether a call to a worker may raise: {FALSE} or {TRUE, FALSE}
  PartialGroups,\* whether a trainer's groups may leave out replicas
  Generations   \* bound: the weight versions a trainer publishes

WakeOps  == {"wake_up", "wake_weights", "wake_kv"}
DrainOps == {"sleep", "sync_drain", "ipc_drain"}
SkipOps  == {"sync_skip", "ipc_skip"}
SyncOps  == {"sync_drain", "sync_skip", "sync_hotswap"}
IpcOps   == {"ipc_drain", "ipc_skip", "ipc_hotswap"}
AllPoolOps == {"sleep", "scale_down", "scale_up", "reset", "shutdown"}
                \cup WakeOps \cup SyncOps \cup IpcOps

ASSUME NoCallIsNoCall == NoCall \notin Calls
ASSUME PoolOpsKnown == PoolOps \subseteq AllPoolOps
ASSUME PoolSwitches ==
  /\ WorkerErrors \subseteq BOOLEAN /\ PartialGroups \in BOOLEAN
  /\ Generations \in Nat

VARIABLES
  poolWorkers,  \* _workers: the actor handles
  up,           \* _scheduler is not None
  sleeping,     \* _sleeping
  lockHolder,   \* the call that holds _lock
  lockQueue,    \* the calls waiting for it, in order
  op,           \* what each call does
  at,           \* where each call is
  goal,         \* target_count of a scaling call; of a weight sync, the number
                \* of replicas its groups name, or the replica_id it is for
  awaiting,     \* the workers whose answer the lock holder waits for
  failed,       \* the workers whose call raised
  engine,       \* the state of each worker's engine
  version,      \* the version of the weights each worker has loaded
  published,    \* the latest version a trainer has sent
  closing,      \* how far shutdown() is
  backlog       \* history: the tasks that were still queued when the lock
                \* holder's drain returned

callVars == <<lockHolder, lockQueue, op, at, goal>>
engineVars == <<engine, version, published>>
poolVars == <<poolWorkers, up, sleeping, callVars, awaiting, failed,
              engineVars, closing, backlog>>
allVars == <<vars, poolVars>>

\* initialize() has returned: the workers run and the scheduler is built.
PoolInit ==
  /\ Init
  /\ poolWorkers = InitialWorkers
  /\ up = TRUE /\ sleeping = FALSE
  /\ lockHolder = NoCall /\ lockQueue = <<>>
  /\ op = [c \in Calls |-> "none"] /\ at = [c \in Calls |-> "idle"]
  /\ goal = [c \in Calls |-> 0]
  /\ awaiting = {} /\ failed = {}
  /\ engine = [w \in WorkerIds |->
                 IF w \in Elements(InitialWorkers) THEN "ready" ELSE "uninitialized"]
  /\ version = [w \in WorkerIds |-> 0] /\ published = 0
  /\ closing = "no" /\ backlog = {}

-----------------------------------------------------------------------------
(* generate(): both checks and submit() run without an await between them. *)

generate(r) ==
  /\ up /\ ~sleeping
  /\ Submit(r)
  /\ UNCHANGED poolVars

-----------------------------------------------------------------------------
(* Pieces of a call. *)

\* The call returns or raises; if it held the lock, the lock is free.
Leave(c) ==
  /\ at' = [at EXCEPT ![c] = "idle"]
  /\ op' = [op EXCEPT ![c] = "none"]
  /\ goal' = [goal EXCEPT ![c] = 0]
  /\ lockHolder' = IF lockHolder = c THEN NoCall ELSE lockHolder
  /\ lockQueue' = SelectSeq(lockQueue, LAMBDA d : d # c)
  /\ failed' = {}
  /\ backlog' = {}

\* Which workers a call asks: all of them, or over shared memory the one that is
\* now in the place it names.
Asked(c) ==
  IF op[c] \in IpcOps THEN {poolWorkers[goal[c]]} ELSE Elements(poolWorkers)

\* The call sends its remote calls and waits for the answers.
AskWorkers(c) ==
  /\ at' = [at EXCEPT ![c] = "remote"]
  /\ awaiting' = Asked(c)
  /\ failed' = {}
  /\ published' = IF op[c] \in SyncOps \cup IpcOps THEN published + 1 ELSE published
  /\ backlog' = {r \in Requests : pc[r] = "queued"}

\* What a weight sync names was named before the lock was taken: groups that do
\* not cover every replica there is now, a replica that is no longer there.
MissesReplica(c) ==
  \/ op[c] \in SyncOps /\ Len(poolWorkers) > goal[c]
  \/ op[c] \in IpcOps /\ Len(poolWorkers) < goal[c]

\* The remote calls are made with the lock held, unless the sync misses a
\* replica: it then raises while it builds them, its strategy still in force.
AskOrRaise(c) ==
  \/ /\ ~MissesReplica(c)
     /\ AskWorkers(c)
     /\ lockHolder' = c
     /\ lockQueue' = SelectSeq(lockQueue, LAMBDA d : d # c)
     /\ UNCHANGED <<op, goal>>
  \/ /\ MissesReplica(c)
     /\ Leave(c)
     /\ UNCHANGED <<awaiting, published>>

\* pc and availability of a skip: every worker unavailable, its tasks cancelled.
TakeAllOut ==
  /\ available' = [w \in WorkerIds |-> available[w] /\ w \notin Elements(workers)]
  /\ CancelTasks(Positions)
  /\ UNCHANGED <<workers, created, limit, gateVars, groupVars, reqVars,
                 metricVars, loadVars, ws, tracked, future>>

PutAllBack ==
  /\ available' = [w \in WorkerIds |-> available[w] \/ w \in Elements(workers)]
  /\ UNCHANGED <<workers, created, limit, gateVars, groupVars, reqVars,
                 taskVars, metricVars, loadVars>>

-----------------------------------------------------------------------------
(* A call from its entry to its first wait. *)

\* The checks made before the lock; a call that fails them changes nothing.
Enter(c, o, n) ==
  /\ at[c] = "idle" /\ up
  /\ o = "sleep" => ~sleeping
  /\ o \in WakeOps => sleeping
  /\ o \in SyncOps \cup IpcOps => published < Generations
  /\ at' = [at EXCEPT ![c] = "locking"]
  /\ op' = [op EXCEPT ![c] = o]
  /\ goal' = [goal EXCEPT ![c] = n]
  /\ lockQueue' = Append(lockQueue, c)
  /\ UNCHANGED <<vars, poolWorkers, up, sleeping, lockHolder, awaiting, failed,
                 engineVars, closing, backlog>>

\* Mutant of HasTurn: scaling does not wait for the lock.
HasTurnOrScales(c) ==
  /\ at[c] = "locking" /\ lockQueue # <<>> /\ Head(lockQueue) = c
  /\ lockHolder = NoCall \/ op[c] \in {"scale_up", "scale_down"}

HasTurn(c) ==
  /\ at[c] = "locking"
  /\ lockHolder = NoCall /\ lockQueue # <<>> /\ Head(lockQueue) = c

TakeLock(c) == lockHolder' = c /\ lockQueue' = Tail(lockQueue)

\* sleep() and the drain strategies: pause, then wait in drain().
AcquireAndPause(c) ==
  /\ HasTurn(c) /\ up /\ op[c] \in DrainOps
  /\ pause
  /\ TakeLock(c)
  /\ at' = [at EXCEPT ![c] = "draining"]
  /\ UNCHANGED <<poolWorkers, up, sleeping, op, goal, awaiting, failed,
                 engineVars, closing, backlog>>

DrainReturns(c) ==
  /\ at[c] = "draining"
  /\ \A i \in Positions : active[workers[i]] = 0
  /\ AskOrRaise(c)
  /\ UNCHANGED <<vars, poolWorkers, up, sleeping, engine, version, closing>>

\* The skip strategies: no await before the remote calls.
AcquireAndSkip(c) ==
  /\ HasTurn(c) /\ up /\ op[c] \in SkipOps
  /\ TakeAllOut
  /\ AskOrRaise(c)
  /\ UNCHANGED <<poolWorkers, up, sleeping, engine, version, closing>>

\* wake_up, hot swap and reset_prefix_cache() ask the workers at once.
AcquireAndAsk(c) ==
  /\ HasTurn(c) /\ up
  /\ op[c] \in WakeOps \cup {"sync_hotswap", "ipc_hotswap", "reset"}
  /\ AskOrRaise(c)
  /\ UNCHANGED <<vars, poolWorkers, up, sleeping, engine, version, closing>>

AcquireAndScale(c) ==
  /\ HasTurn(c) /\ up /\ op[c] \in {"scale_up", "scale_down"}
  /\ TakeLock(c)
  /\ at' = [at EXCEPT ![c] = "scaling"]
  /\ UNCHANGED <<vars, poolWorkers, up, sleeping, op, goal, awaiting, failed,
                 engineVars, closing, backlog>>

\* The pool was shut down while the call waited for the lock: the call raises
\* on the missing scheduler, a completing wake-up only after it cleared the flag.
AcquireTooLate(c) ==
  /\ HasTurn(c) /\ ~up
  /\ Leave(c)
  /\ sleeping' = (sleeping /\ op[c] \notin {"wake_up", "wake_kv"})
  /\ UNCHANGED <<vars, poolWorkers, up, awaiting, engineVars, closing>>

-----------------------------------------------------------------------------
(* The workers' answers, gathered with return_exceptions=True. *)

\* What a worker's engine is after the call of the lock holder.
EngineAfter(o, s) ==
  CASE o = "sleep"                -> SleepTarget(s)
    [] o = "wake_up"              -> WakeTarget(s, "all")
    [] o = "wake_weights"         -> WakeTarget(s, "weights")
    [] o = "wake_kv"              -> WakeTarget(s, "kv_cache")
    [] o = "reset"                -> ResetTarget(s)
    [] o \in SyncOps \cup IpcOps  -> s

WorkerDone(c, w) ==
  LET after == EngineAfter(op[c], engine[w]) IN
  /\ at[c] = "remote" /\ w \in awaiting
  /\ after # Refused
  /\ engine' = [engine EXCEPT ![w] = after]
  /\ version' = IF op[c] \in SyncOps \cup IpcOps
                THEN [version EXCEPT ![w] = published] ELSE version
  /\ awaiting' = awaiting \ {w}
  /\ UNCHANGED <<vars, poolWorkers, up, sleeping, callVars, failed, published,
                 closing, backlog>>

WorkerRaises(c, w) ==
  /\ at[c] = "remote" /\ w \in awaiting
  /\ EngineAfter(op[c], engine[w]) = Refused \/ TRUE \in WorkerErrors
  /\ awaiting' = awaiting \ {w}
  /\ failed' = failed \cup {w}
  /\ UNCHANGED <<vars, poolWorkers, up, sleeping, callVars, engineVars,
                 closing, backlog>>

HasAnswers(c) == at[c] = "remote" /\ awaiting = {}

\* sleep(): the pool counts as asleep whatever the workers answered.
FinishSleep(c) ==
  /\ HasAnswers(c) /\ op[c] = "sleep"
  /\ sleeping' = TRUE
  /\ Leave(c)
  /\ UNCHANGED <<vars, poolWorkers, up, awaiting, engineVars, closing>>

\* Mutant of WakeCompletes: every stage of a wake-up opens the pool.
EveryWakeCompletes(c) == op[c] \in WakeOps /\ failed = {}

\* wake_up(): a wake that restores the KV cache completes only without errors.
WakeCompletes(c) == op[c] \in {"wake_up", "wake_kv"} /\ failed = {}

FinishWake(c) ==
  /\ HasAnswers(c) /\ WakeCompletes(c)
  /\ sleeping' = FALSE
  /\ IF up THEN resume ELSE UNCHANGED vars
  /\ Leave(c)
  /\ UNCHANGED <<poolWorkers, up, awaiting, engineVars, closing>>

\* Mutant of Undoes: a weight sync raises for failed workers first.
UndoesIfAllDone(c) ==
  op[c] \in {"sync_drain", "sync_skip", "ipc_drain", "ipc_skip"} /\ failed = {}

\* A weight sync undoes its strategy before it raises for the failed workers;
\* the shared-memory sync awaits its single worker unprotected.
Undoes(c) ==
  \/ op[c] \in {"sync_drain", "sync_skip"}
  \/ op[c] \in {"ipc_drain", "ipc_skip"} /\ failed = {}

FinishReset(c) ==
  /\ HasAnswers(c) /\ up /\ op[c] = "reset"
  /\ reset_affinity
  /\ Leave(c)
  /\ UNCHANGED <<poolWorkers, up, sleeping, awaiting, engineVars, closing>>

FinishSync(c) ==
  /\ HasAnswers(c) /\ up /\ Undoes(c)
  /\ IF op[c] \in DrainOps THEN resume ELSE PutAllBack
  /\ Leave(c)
  /\ UNCHANGED <<poolWorkers, up, sleeping, awaiting, engineVars, closing>>

\* Any other call ends by changing nothing but the lock.
FinishPlain(c) ==
  /\ HasAnswers(c) /\ op[c] # "sleep" /\ ~WakeCompletes(c)
  /\ up => op[c] # "reset" /\ ~Undoes(c)
  /\ Leave(c)
  /\ UNCHANGED <<vars, poolWorkers, up, sleeping, awaiting, engineVars, closing>>

-----------------------------------------------------------------------------
(* Scaling. *)

\* scale_down() picks the last worker and waits for it to drain.
RetireLast(c) ==
  /\ at[c] = "scaling" /\ op[c] = "scale_down" /\ up
  /\ Len(poolWorkers) > goal[c]
  /\ mark_worker(Len(poolWorkers), FALSE)
  /\ at' = [at EXCEPT ![c] = "draining_worker"]
  /\ UNCHANGED <<poolWorkers, up, sleeping, lockHolder, lockQueue, op, goal,
                 awaiting, failed, engineVars, closing, backlog>>

\* Mutant of DropLast: the scheduler is not told.
DropLastHandle(c) ==
  /\ at[c] = "draining_worker" /\ up
  /\ engine' = [engine EXCEPT ![poolWorkers[Len(poolWorkers)]] = "uninitialized"]
  /\ poolWorkers' = SubSeq(poolWorkers, 1, Len(poolWorkers) - 1)
  /\ at' = [at EXCEPT ![c] = "scaling"]
  /\ UNCHANGED <<vars, up, sleeping, lockHolder, lockQueue, op, goal, awaiting,
                 failed, version, published, closing, backlog>>

\* drain_worker() returned or timed out: the actor is killed and forgotten.
DropLast(c) ==
  /\ at[c] = "draining_worker" /\ up
  /\ engine' = [engine EXCEPT ![poolWorkers[Len(poolWorkers)]] = "uninitialized"]
  /\ poolWorkers' = SubSeq(poolWorkers, 1, Len(poolWorkers) - 1)
  /\ remove_last_worker
  /\ at' = [at EXCEPT ![c] = "scaling"]
  /\ UNCHANGED <<up, sleeping, lockHolder, lockQueue, op, goal, awaiting, failed,
                 version, published, closing, backlog>>

\* An actor may fail to start; once the bound on workers is reached it does.
WorkerFails == TRUE \in WorkerErrors \/ WorkerIds \subseteq created

\* scale_up() creates an actor and waits for its engine.
BuildWorker(c) ==
  /\ at[c] = "scaling" /\ op[c] = "scale_up" /\ up
  /\ Len(poolWorkers) < goal[c]
  /\ awaiting' \in IF WorkerIds \subseteq created THEN {{}}
                   ELSE {{w} : w \in WorkerIds \ created}
  /\ at' = [at EXCEPT ![c] = "building"]
  /\ UNCHANGED <<vars, poolWorkers, up, sleeping, lockHolder, lockQueue, op, goal,
                 failed, engineVars, closing, backlog>>

\* The engine is up, loaded from the model's checkpoint.
WorkerBuilt(c) ==
  /\ at[c] = "building" /\ up
  /\ \E w \in awaiting, l \in Limits :
       /\ poolWorkers' = Append(poolWorkers, w)
       /\ add_worker(w, l)
       /\ engine' = [engine EXCEPT ![w] = "ready"]
       /\ version' = [version EXCEPT ![w] = 0]
  /\ at' = [at EXCEPT ![c] = "scaling"]
  /\ awaiting' = {}
  /\ UNCHANGED <<up, sleeping, lockHolder, lockQueue, op, goal, failed,
                 published, closing, backlog>>

(***************************************************************************)
(* A scaling call ends: the target is reached, the new worker fails to     *)
(* initialise and is killed, or the pool was shut down in between.         *)
(***************************************************************************)
FinishScale(c) ==
  /\ \/ at[c] = "scaling" /\ op[c] = "scale_down" /\ Len(poolWorkers) <= goal[c]
     \/ at[c] = "scaling" /\ op[c] = "scale_up" /\ Len(poolWorkers) >= goal[c]
     \/ at[c] = "building" /\ WorkerFails
     \/ at[c] \in {"scaling", "draining_worker", "building"} /\ ~up
  /\ Leave(c)
  /\ awaiting' = {}
  /\ UNCHANGED <<vars, poolWorkers, up, sleeping, engineVars, closing>>

-----------------------------------------------------------------------------
(* shutdown() takes no lock. *)

\* It cancels the background scale_up, which kills its half-built actor and
\* gives up the lock or its place in the queue ...
CancelScaling ==
  /\ "shutdown" \in PoolOps /\ up /\ closing = "no"
  /\ closing' = "cancelled"
  /\ LET scaling == {c \in Calls : op[c] = "scale_up"} IN
     /\ at' = [c \in Calls |-> IF c \in scaling THEN "idle" ELSE at[c]]
     /\ op' = [c \in Calls |-> IF c \in scaling THEN "none" ELSE op[c]]
     /\ goal' = [c \in Calls |-> IF c \in scaling THEN 0 ELSE goal[c]]
     /\ lockQueue' = SelectSeq(lockQueue, LAMBDA d : d \notin scaling)
     /\ lockHolder' = IF lockHolder \in scaling THEN NoCall ELSE lockHolder
     /\ awaiting' = IF lockHolder \in scaling THEN {} ELSE awaiting
  /\ UNCHANGED <<vars, poolWorkers, up, sleeping, failed, engineVars, backlog>>

\* ... stops the scheduler and waits for its background loops ...
StopScheduler ==
  /\ closing = "cancelled"
  /\ closing' = "stopped"
  /\ shutdown
  /\ UNCHANGED <<poolWorkers, up, sleeping, callVars, awaiting, failed,
                 engineVars, backlog>>

\* ... and forgets the scheduler and the workers.
ForgetWorkers ==
  /\ closing = "stopped"
  /\ closing' = "closed"
  /\ up' = FALSE
  /\ poolWorkers' = <<>>
  /\ engine' = [w \in WorkerIds |->
                  IF w \in Elements(poolWorkers) THEN "uninitialized" ELSE engine[w]]
  /\ UNCHANGED <<vars, sleeping, callVars, awaiting, failed, version, published,
                 backlog>>

-----------------------------------------------------------------------------

CallStep(c) ==
  \/ AcquireAndPause(c) \/ AcquireAndSkip(c) \/ AcquireAndAsk(c)
  \/ AcquireAndScale(c) \/ AcquireTooLate(c)
  \/ DrainReturns(c)
  \/ FinishSleep(c) \/ FinishWake(c) \/ FinishPlain(c) \/ FinishReset(c)
  \/ FinishSync(c)
  \/ RetireLast(c) \/ DropLast(c)
  \/ BuildWorker(c) \/ WorkerBuilt(c) \/ FinishScale(c)

WorkerStep(c) == \E w \in WorkerIds : WorkerDone(c, w) \/ WorkerRaises(c, w)

ClosingStep == StopScheduler \/ ForgetWorkers

\* What a call is asked for: a number of replicas to reach; for a weight sync the
\* replicas its groups cover, all there are if the pool makes them; for one over
\* shared memory the place of a replica.
Targets(o) ==
  CASE o \in {"scale_up", "scale_down"} -> 1..Cardinality(WorkerIds)
    [] o \in SyncOps                    -> IF PartialGroups THEN 0..Len(poolWorkers)
                                           ELSE {Len(poolWorkers)}
    [] o \in IpcOps                     -> 1..Len(poolWorkers)
    [] OTHER                            -> {0}

RequestStep(r) == (TaskStep(r) \/ Answer(r)) /\ UNCHANGED poolVars

PoolNext ==
  \/ \E r \in Requests : generate(r) \/ RequestStep(r)
  \/ \E c \in Calls :
       \/ \E o \in PoolOps \ {"shutdown"} : \E n \in Targets(o) : Enter(c, o, n)
       \/ CallStep(c) \/ WorkerStep(c)
  \/ CancelScaling \/ ClosingStep

PoolSpec == PoolInit /\ [][PoolNext]_allVars

(***************************************************************************)
(* Besides the tasks of the scheduler, the event loop runs every call that *)
(* is ready and the lock is handed on in order; workers answer or fail.    *)
(* Nobody is obliged to call the pool.                                     *)
(***************************************************************************)
PoolFairness ==
  /\ \A r \in Requests : WF_allVars(TaskStep(r) /\ UNCHANGED poolVars)
                       /\ WF_allVars(Answer(r) /\ UNCHANGED poolVars)
  /\ \A c \in Calls : WF_allVars(CallStep(c)) /\ WF_allVars(WorkerStep(c))
  /\ WF_allVars(ClosingStep)

FairPoolSpec == PoolSpec /\ PoolFairness

-----------------------------------------------------------------------------
(* Properties *)

LockFree == lockHolder = NoCall

\* Between a successful drain and the end of the call it was made for.
Quiet == \E c \in Calls : at[c] = "remote" /\ op[c] \in DrainOps

(***************************************************************************)
(* The pool and its scheduler agree on the list of workers at every await, *)
(* whatever failed, was cancelled or shut down half-way: positions used by *)
(* the pool name the worker the scheduler routes to.                       *)
(***************************************************************************)
ListsAgree == up => poolWorkers = workers

(***************************************************************************)
(* While engines are put to sleep or are sent weights after a drain, the   *)
(* only requests on a worker are tasks that were submitted before and      *)
(* still queued when drain() returned: nothing submitted later gets        *)
(* through, and nothing that was running is left.                          *)
(***************************************************************************)
OnlyBacklogRuns == Quiet => \A r \in Requests : Running(r) => r \in backlog

(***************************************************************************)
(* When nobody holds the lock, what a call changed for its own duration is *)
(* undone: the scheduler is paused only if the pool sleeps, and no worker  *)
(* is left out of routing.                                                 *)
(***************************************************************************)
GateRestored ==
  LockFree /\ up /\ closing = "no" =>
    /\ paused => sleeping
    /\ \A i \in Positions : available[workers[i]]

(***************************************************************************)
(* When generate() lets requests in and no call is under way, the engine   *)
(* of every worker can serve them, after any order of overlapping sleeps,  *)
(* full and staged wake-ups, and failed wake-ups.                          *)
(***************************************************************************)
AwakeEnginesReady ==
  LockFree /\ up /\ ~sleeping => \A i \in Positions : engine[workers[i]] = "ready"

(***************************************************************************)
(* A weight sync that returns without an error has given its version to    *)
(* every replica of the pool, whatever scaling was asked for while it      *)
(* waited for the lock or for its workers (replica_pool.py:657-753).       *)
(***************************************************************************)
SyncReachesAll ==
  [][\A c \in Calls :
       HasAnswers(c) /\ op[c] \in SyncOps /\ failed = {} /\ at'[c] = "idle" =>
         \A i \in DOMAIN poolWorkers : version[poolWorkers[i]] = published]_allVars

\* Every call returns: no drain, lock or gather waits for ever.
CallsReturn == \A c \in Calls : at[c] # "idle" ~> at[c] = "idle"

\* Every accepted request is answered, also across sleeps, syncs and shutdown.
GenerateAnswered == \A r \in Requests : pc[r] = "queued" ~> future[r] # "pending"

=============================================================================
