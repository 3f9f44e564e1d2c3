-------------------------------- MODULE Driver --------------------------------
(***************************************************************************)
(* The driver of several models on one set of GPUs                         *)
(* (src/arctic_inference/server/multi_model.py).  A load shrinks the pools *)
(* that exceed an even share and then builds a pool of its own; a shutdown *)
(* of one model lets the others grow in the background.  Nothing locks the *)
(* table of pools, and every wait of one call lets the others run.         *)
(*                                                                         *)
(* A pool is seen from outside: how many replicas it lists, how many of    *)
(* its actors Ray has placed on GPUs, who holds its lock, and its          *)
(* background scale_up task.  A pool is an object and not a name, because  *)
(* a model may be loaded again while calls still hold its previous pool.   *)
(***************************************************************************)
EXTENDS Integers, Sequences, FiniteSets

CONSTANTS
  Models,     \* model ids
  Tp,         \* tensor_parallel_size of each model
  TotalGpus,  \* _total_gpus
  PoolIds,    \* pool objects (numbers), used again when nothing refers to them
  NoPool,     \* a call that works on no pool
  Calls,      \* calls of initialize() and shutdown() that may overlap
  Nobody,     \* a pool's lock is free
  Scaler,     \* a pool's lock is held by its background task
  Explicit,   \* the values of num_replicas that callers give
  DriverOps,  \* the calls made in this instance
  HastyBound  \* bound: calls and failures once a call did not wait its turn

AllDriverOps == {"load", "shutdown", "shutdown_all", "fail"}

ASSUME DriverConstants ==
  /\ TotalGpus \in Nat \ {0} /\ Tp \in [Models -> Nat \ {0}]
  /\ HastyBound \in Nat /\ IsFiniteSet(Models) /\ Models # {} /\ DriverOps \subseteq AllDriverOps
  /\ PoolIds \subseteq Nat /\ IsFiniteSet(PoolIds) /\ NoPool \notin PoolIds /\ Nobody \notin Calls /\ Scaler \notin Calls
  /\ Nobody # Scaler /\ Explicit \subseteq Nat \ {0}

VARIABLES
  pools,     \* _pools: the pools in the order of their insertion
  model,     \* the model of each pool
  state,     \* what became of each pool object
  replicas,  \* num_replicas: how many workers the pool lists
  placed,    \* how many of its actors have their GPUs
  target,    \* target_count of its scale task, 0 when there is none
  building,  \* the scale task waits for a new actor
  lock,      \* who holds the pool's lock
  at,        \* where each call is
  subject,   \* the model a call is about
  pool,      \* the pool it is working on
  seen,      \* the pools its loop over _pools has passed
  known,     \* the models that were loaded when its loop began
  hasty      \* history: the calls and failures since a call first did not
             \* wait its turn, 0 while all did

poolObjVars == <<model, state, replicas, placed, target, building, lock>>
driverCallVars == <<at, subject, pool, seen, known>>
driverVars == <<pools, poolObjVars, driverCallVars, hasty>>

Table == {pools[i] : i \in DOMAIN pools}
LoadedModels == {model[p] : p \in Table}

AnyModel == CHOOSE m \in Models : TRUE

DriverInit ==
  /\ pools = <<>>
  /\ model = [p \in PoolIds |-> AnyModel]
  /\ state = [p \in PoolIds |-> "free"]
  /\ replicas = [p \in PoolIds |-> 0] /\ placed = [p \in PoolIds |-> 0]
  /\ target = [p \in PoolIds |-> 0] /\ building = [p \in PoolIds |-> FALSE]
  /\ lock = [p \in PoolIds |-> Nobody]
  /\ at = [c \in Calls |-> "idle"]
  /\ subject = [c \in Calls |-> AnyModel] /\ pool = [c \in Calls |-> NoPool]
  /\ seen = [c \in Calls |-> {}] /\ known = [c \in Calls |-> {}]
  /\ hasty = 0

-----------------------------------------------------------------------------
(* GPUs and shares. *)

\* The actors a pool has asked Ray for.
Asked(p) == replicas[p] + (IF building[p] THEN 1 ELSE 0)

\* The GPUs of count[p] actors of each pool p, Tp of its model for an actor.
GpusOf(count) ==
  Cardinality(UNION {{p} \X (1 .. count[p]) \X (1 .. Tp[model[p]]) : p \in PoolIds})

\* Mutant of PerModel: the model being loaded is not counted.
PerModelBefore(M) == TotalGpus \div (IF Cardinality(M) > 1 THEN Cardinality(M) - 1 ELSE 1)

PerModel(M) == TotalGpus \div Cardinality(M)

\* The replicas of m when the models M share the GPUs evenly.
EvenShare(M, m) == PerModel(M) \div Tp[m]

\* _compute_even_share() raises when a model would get no replica.
HasPlan(M) == \A m \in M : EvenShare(M, m) > 0

\* tp_size of a pool that was shut down raises.
SizesKnown(T) == \A p \in T : state[p] # "down"

-----------------------------------------------------------------------------
(* initialize() *)

Quiet == \A c \in Calls : at[c] = "idle"

\* A load waits its turn when no call is under way and no pool is scaling ...
TurnToLoad == Quiet /\ \A p \in PoolIds : target[p] = 0

\* ... and a shutdown of one model when no load is.
TurnToClose == \A c \in Calls : at[c] \in {"idle", "closing"}

Called(inTurn) ==
  /\ hasty' = IF inTurn /\ hasty = 0 THEN 0 ELSE hasty + 1
  /\ hasty' <= HastyBound

Unused(p) == state[p] = "free"

\* Nothing but call c refers to a pool that is not in T.
Forgotten(p, T, c) ==
  p \notin T /\ target[p] = 0 /\ \A d \in Calls \ {c} : pool[d] # p

\* The memory of the pools in dead is free for other pools.
Bury(dead) == model' = [q \in PoolIds |-> IF q \in dead THEN AnyModel ELSE model[q]]

\* A new pool lists its n workers before any of them has started.
BuildPool(c, m, n) ==
  \E p \in PoolIds :
    /\ Unused(p) /\ \A q \in PoolIds : Unused(q) => p <= q
    /\ model' = [model EXCEPT ![p] = m]
    /\ state' = [state EXCEPT ![p] = "starting"]
    /\ replicas' = [replicas EXCEPT ![p] = n]
    /\ placed' = [placed EXCEPT ![p] = 0]
    /\ pool' = [pool EXCEPT ![c] = p]
    /\ at' = [at EXCEPT ![c] = "loading"]
    /\ UNCHANGED <<target, building>>

Position(p) == CHOOSE i \in DOMAIN pools : pools[i] = p

\* The pool among those of S that a loop over _pools comes to first.
First(S) == CHOOSE p \in S : \A q \in S : Position(p) <= Position(q)

\* Mutant of Exceeds: a pool at its share shrinks, too.
Reaches(p, M) == replicas[p] >= EvenShare(M, model[p])

Exceeds(p, M) == replicas[p] > EvenShare(M, model[p])

ToShrink(S, M) == {p \in Table \ S : model[p] \in M /\ Exceeds(p, M)}

\* The loop goes on: it shrinks the next pool above its share or, past the last,
\* builds the new one.
GoOn(c, m, S, M) ==
  IF ToShrink(S, M) = {}
  THEN /\ BuildPool(c, m, EvenShare(M, m))
       /\ seen' = [seen EXCEPT ![c] = {}] /\ known' = [known EXCEPT ![c] = {}]
  ELSE LET p == First(ToShrink(S, M)) IN
       /\ at' = [at EXCEPT ![c] = "shrinking"]
       /\ pool' = [pool EXCEPT ![c] = p]
       /\ seen' = [seen EXCEPT ![c] = S \cup {pools[i] : i \in 1..Position(p)}]
       /\ known' = [known EXCEPT ![c] = M]
       /\ UNCHANGED <<model, state, replicas, placed, target, building>>

initialize(c, m) ==
  /\ "load" \in DriverOps /\ at[c] = "idle"
  /\ m \notin LoadedModels /\ SizesKnown(Table) /\ HasPlan(LoadedModels \cup {m})
  /\ subject' = [subject EXCEPT ![c] = m]
  /\ GoOn(c, m, {}, LoadedModels \cup {m})
  /\ Called(TurnToLoad)
  /\ UNCHANGED <<pools, lock>>

\* num_replicas is given: no pool makes room.
initialize_explicit(c, m, n) ==
  /\ "load" \in DriverOps /\ at[c] = "idle"
  /\ m \notin LoadedModels
  /\ subject' = [subject EXCEPT ![c] = m]
  /\ BuildPool(c, m, n)
  /\ Called(FALSE)
  /\ UNCHANGED <<pools, lock, seen, known>>

\* The call returns or raises.
EndCall(c) ==
  /\ at' = [at EXCEPT ![c] = "idle"]
  /\ subject' = [subject EXCEPT ![c] = AnyModel]
  /\ pool' = [pool EXCEPT ![c] = NoPool]
  /\ seen' = [seen EXCEPT ![c] = {}] /\ known' = [known EXCEPT ![c] = {}]

\* One round of scale_down(): the last worker has drained and is killed.
ShrinkOne(c) ==
  LET p == pool[c] IN
  /\ at[c] = "shrinking" /\ lock[p] \in {Nobody, c} /\ state[p] # "down"
  /\ Exceeds(p, known[c])
  /\ lock' = [lock EXCEPT ![p] = c]
  /\ replicas' = [replicas EXCEPT ![p] = @ - 1]
  /\ placed' = [placed EXCEPT ![p] = @ - 1]
  /\ UNCHANGED <<pools, model, state, target, building, driverCallVars, hasty>>

\* Python ends a loop over a dict whose size or keys changed with an error.
LoopBroken(c) ==
  \/ Len(pools) # Cardinality(known[c]) - 1
  \/ \E p \in Table \ seen[c] : model[p] \notin known[c]

\* Mutant of Release: the lock stays taken.
ReleaseNothing(c, p) == lock' = lock

Release(c, p) == lock' = [lock EXCEPT ![p] = IF @ = c THEN Nobody ELSE @]

ShrinkDone(c) ==
  LET p == pool[c] IN
  /\ at[c] = "shrinking" /\ lock[p] \in {Nobody, c}
  /\ ~Exceeds(p, known[c]) /\ ~LoopBroken(c)
  /\ GoOn(c, subject[c], seen[c], known[c])
  /\ Release(c, p)
  /\ UNCHANGED <<pools, subject, hasty>>

\* The loop is broken, or the pool was shut down while its worker drained.
ShrinkRaises(c) ==
  LET p == pool[c] IN
  /\ at[c] = "shrinking"
  /\ \/ lock[p] \in {Nobody, c} /\ ~Exceeds(p, known[c]) /\ LoopBroken(c)
     \/ state[p] = "down"
  /\ EndCall(c)
  /\ Release(c, p)
  /\ UNCHANGED <<pools, model, state, replicas, placed, target, building, hasty>>

\* All engines are up: the pool enters the table under its model, in the place
\* of a pool that another load put there meanwhile.
LoadDone(c) ==
  LET p == pool[c]
      same(q) == model[q] = subject[c] IN
  /\ at[c] = "loading" /\ placed[p] = replicas[p]
  /\ IF \E q \in Table : same(q)
     THEN /\ pools' = [i \in DOMAIN pools |-> IF same(pools[i]) THEN p ELSE pools[i]]
          /\ state' = [q \in PoolIds |->
                         IF q = p THEN "up"
                         ELSE IF q \in Table /\ same(q) THEN "lost" ELSE state[q]]
     ELSE /\ pools' = Append(pools, p)
          /\ state' = [state EXCEPT ![p] = "up"]
  /\ EndCall(c)
  /\ UNCHANGED <<model, replicas, placed, target, building, lock, hasty>>

\* An engine fails to start: the pool is dropped with its actors.
LoadFails(c) ==
  LET p == pool[c] IN
  /\ at[c] = "loading" /\ "fail" \in DriverOps
  /\ state' = [state EXCEPT ![p] = "free"]
  /\ replicas' = [replicas EXCEPT ![p] = 0]
  /\ placed' = [placed EXCEPT ![p] = 0]
  /\ EndCall(c)
  /\ Bury({p})
  /\ Called(FALSE)
  /\ UNCHANGED <<pools, target, building, lock>>

-----------------------------------------------------------------------------
(* shutdown() *)

\* Placed actors once the half-built ones of the pools in T are killed.
WithoutHalfBuilt(actors, listed, T) ==
  [q \in PoolIds |-> IF q \in T /\ actors[q] > listed[q] THEN listed[q] ELSE actors[q]]

\* Placed actors once the workers that p lists are killed.
WithoutListed(p) ==
  [placed EXCEPT ![p] = IF @ > replicas[p] THEN @ - replicas[p] ELSE 0]

\* The scale_up tasks of the pools in T are cancelled: each kills its half-built
\* actor and releases its lock before any other task runs.
CancelScale(T) ==
  /\ building' = [q \in PoolIds |-> building[q] /\ q \notin T]
  /\ lock' = [q \in PoolIds |-> IF q \in T /\ lock[q] = Scaler THEN Nobody ELSE lock[q]]

shutdown(c, m) ==
  /\ "shutdown" \in DriverOps /\ at[c] = "idle"
  /\ \E p \in Table :
       /\ model[p] = m
       /\ CancelScale({p})
       /\ placed' = WithoutHalfBuilt(placed, replicas, {p})
       /\ target' = [target EXCEPT ![p] = 0]
       /\ state' = [state EXCEPT ![p] = IF @ = "down" THEN @ ELSE "closing"]
       /\ pool' = [pool EXCEPT ![c] = p]
  /\ at' = [at EXCEPT ![c] = "closing"]
  /\ subject' = [subject EXCEPT ![c] = m]
  /\ Called(TurnToClose)
  /\ UNCHANGED <<pools, model, replicas, seen, known>>

\* Mutant of Growing: the pools that remain are left as they are.
NothingGrows(T) == {}

\* _rebalance_up(): the pools of T below their share, unless planning raises.
Growing(T) ==
  LET M == {model[p] : p \in T} IN
  {p \in T : SizesKnown(T) /\ HasPlan(M) /\ EvenShare(M, model[p]) > replicas[p]}

\* del _pools[m]: the table without the pool of model m.
Without(m) ==
  LET i == Position(CHOOSE q \in Table : model[q] = m) IN
  IF m \in LoadedModels
  THEN [j \in 1 .. Len(pools) - 1 |-> pools[IF j < i THEN j ELSE j + 1]]
  ELSE pools

(***************************************************************************)
(* The pool is down, and whatever the table has under its model is         *)
(* deleted; the remaining pools are given scale tasks.  The call raises    *)
(* when the table has nothing under the model any more.                    *)
(***************************************************************************)
CloseDone(c) ==
  LET p    == pool[c]
      left == {q \in Table : model[q] # subject[c]}
      grow == IF left = Table THEN {} ELSE Growing(left)
      dead == {q \in {p} : Forgotten(q, left, c)}
      share(q) == EvenShare({model[r] : r \in left}, model[q]) IN
  /\ at[c] = "closing"
  /\ pools' = Without(subject[c])
  /\ state' = [q \in PoolIds |-> CASE q \in dead                  -> "free"
                                  [] q \in {p} \ dead            -> "down"
                                  [] q \in (Table \ left) \ {p}  -> "lost"
                                  [] OTHER                       -> state[q]]
  /\ Bury(dead)
  /\ replicas' = [replicas EXCEPT ![p] = 0]
  /\ CancelScale(grow)
  /\ placed' = WithoutHalfBuilt(WithoutListed(p), replicas, grow)
  /\ target' = [q \in PoolIds |-> IF q \in grow THEN share(q) ELSE target[q]]
  /\ EndCall(c)
  /\ UNCHANGED hasty

\* shutdown() of every model: a loop over _pools with a wait in each round.
shutdown_all(c) ==
  /\ "shutdown_all" \in DriverOps /\ at[c] = "idle" /\ pools # <<>>
  /\ LET p == Head(pools) IN
     /\ CancelScale({p})
     /\ placed' = WithoutHalfBuilt(placed, replicas, {p})
     /\ target' = [target EXCEPT ![p] = 0]
     /\ state' = [state EXCEPT ![p] = IF @ = "down" THEN @ ELSE "closing"]
     /\ pool' = [pool EXCEPT ![c] = p]
     /\ seen' = [seen EXCEPT ![c] = {p}]
  /\ at' = [at EXCEPT ![c] = "closing_all"]
  /\ known' = [known EXCEPT ![c] = LoadedModels]
  /\ Called(TurnToLoad)
  /\ UNCHANGED <<pools, model, replicas, subject>>

\* One pool is down and the loop starts on the next.
CloseNext(c) ==
  LET p    == pool[c]
      next == First(Table \ seen[c]) IN
  /\ at[c] = "closing_all" /\ Len(pools) = Cardinality(known[c]) /\ ~(Table \subseteq seen[c])
  /\ CancelScale({next})
  /\ placed' = WithoutHalfBuilt(WithoutListed(p), replicas, {next})
  /\ replicas' = [replicas EXCEPT ![p] = 0]
  /\ target' = [target EXCEPT ![next] = 0]
  /\ state' = [state EXCEPT ![p] = "down",
                            ![next] = IF @ = "down" THEN @ ELSE "closing"]
  /\ pool' = [pool EXCEPT ![c] = next]
  /\ seen' = [seen EXCEPT ![c] = @ \cup {next}]
  /\ UNCHANGED <<pools, model, at, subject, known, hasty>>

(***************************************************************************)
(* The last round: the table is cleared, unless its size has changed; the  *)
(* call then raises and leaves the pools it has shut down in the table.    *)
(***************************************************************************)
CloseLast(c) ==
  LET p      == pool[c]
      broken == Len(pools) # Cardinality(known[c])
      left   == IF broken THEN pools ELSE <<>>
      dead   == {q \in Table \cup {p} : (q = p \/ state[q] = "down")
                   /\ Forgotten(q, {left[i] : i \in DOMAIN left}, c)} IN
  /\ at[c] = "closing_all" /\ (broken \/ Table \subseteq seen[c])
  /\ pools' = left
  /\ state' = [q \in PoolIds |-> IF q \in dead THEN "free"
                                 ELSE IF q = p THEN "down" ELSE state[q]]
  /\ Bury(dead)
  /\ replicas' = [replicas EXCEPT ![p] = 0]
  /\ placed' = WithoutListed(p)
  /\ EndCall(c)
  /\ UNCHANGED <<target, building, lock, hasty>>

-----------------------------------------------------------------------------
(* Background scaling, and Ray. *)

TaskEnds(p) ==
  /\ target' = [target EXCEPT ![p] = 0]
  /\ building' = [building EXCEPT ![p] = FALSE]
  /\ lock' = [lock EXCEPT ![p] = IF @ = Scaler THEN Nobody ELSE @]

\* The task gets the pool's lock and asks for its first actor.
ScaleBegins(p) ==
  /\ target[p] > replicas[p] /\ ~building[p] /\ lock[p] = Nobody /\ state[p] # "down"
  /\ building' = [building EXCEPT ![p] = TRUE]
  /\ lock' = [lock EXCEPT ![p] = Scaler]
  /\ UNCHANGED <<pools, model, state, replicas, placed, target, driverCallVars, hasty>>

\* Its actor is ready: the pool lists it, and the next one is asked for.
ScaleBuilt(p) ==
  /\ building[p] /\ placed[p] > replicas[p] /\ state[p] # "down"
  /\ replicas' = [replicas EXCEPT ![p] = @ + 1]
  /\ IF replicas[p] + 1 < target[p] THEN UNCHANGED <<target, building, lock>>
                                     ELSE TaskEnds(p)
  /\ UNCHANGED <<pools, model, state, placed, driverCallVars, hasty>>

\* The task finds nothing to do, or its pool shut down.
ScaleIdles(p) ==
  /\ target[p] > 0
  /\ IF building[p] THEN placed[p] > replicas[p] /\ state[p] = "down"
                    ELSE lock[p] = Nobody /\ (target[p] <= replicas[p] \/ state[p] = "down")
  /\ TaskEnds(p)
  /\ placed' = WithoutHalfBuilt(placed, replicas, {p})
  /\ UNCHANGED <<pools, model, state, replicas, driverCallVars, hasty>>

ScaleFails(p) ==
  /\ building[p] /\ "fail" \in DriverOps
  /\ TaskEnds(p)
  /\ placed' = WithoutHalfBuilt(placed, replicas, {p})
  /\ Called(FALSE)
  /\ UNCHANGED <<pools, model, state, replicas, driverCallVars>>

\* Ray starts an actor when its GPUs are free.
PlaceActor(p) ==
  /\ placed[p] < Asked(p)
  /\ GpusOf(placed) + Tp[model[p]] <= TotalGpus
  /\ placed' = [placed EXCEPT ![p] = @ + 1]
  /\ UNCHANGED <<pools, model, state, replicas, target, building, lock,
                 driverCallVars, hasty>>

\* Nothing refers to a pool that left the table any more: its actors go.
Collect(p) ==
  /\ state[p] \in {"lost", "down"} /\ p \notin Table /\ target[p] = 0
  /\ \A c \in Calls : pool[c] # p
  /\ state' = [state EXCEPT ![p] = "free"]
  /\ replicas' = [replicas EXCEPT ![p] = 0] /\ placed' = [placed EXCEPT ![p] = 0]
  /\ Bury({p})
  /\ UNCHANGED <<pools, target, building, lock, driverCallVars, hasty>>

-----------------------------------------------------------------------------

DriverCallStep(c) ==
  \/ ShrinkOne(c) \/ ShrinkDone(c) \/ ShrinkRaises(c) \/ LoadDone(c)
  \/ CloseDone(c) \/ CloseNext(c) \/ CloseLast(c)

PoolStep(p) == ScaleBegins(p) \/ ScaleBuilt(p) \/ ScaleIdles(p) \/ Collect(p)

DriverNext ==
  \/ \E c \in Calls :
       \/ \E m \in Models :
            \/ initialize(c, m) \/ shutdown(c, m)
            \/ \E n \in Explicit : initialize_explicit(c, m, n)
       \/ shutdown_all(c)
       \/ DriverCallStep(c) \/ LoadFails(c)
  \/ \E p \in PoolIds : PoolStep(p) \/ PlaceActor(p) \/ ScaleFails(p)

DriverSpec == DriverInit /\ [][DriverNext]_driverVars

(***************************************************************************)
(* The event loop runs every call and task that is ready, requests drain,  *)
(* and Ray uses free GPUs.  Nobody has to call the driver or fail.         *)
(***************************************************************************)
DriverFairness ==
  /\ \A c \in Calls : WF_driverVars(DriverCallStep(c))
  /\ \A p \in PoolIds : WF_driverVars(PoolStep(p)) /\ WF_driverVars(PlaceActor(p))

FairDriverSpec == DriverSpec /\ DriverFairness

-----------------------------------------------------------------------------
(* Properties *)

(***************************************************************************)
(* Whatever loads, shutdowns and background scaling overlap, a model that  *)
(* is served keeps a replica: no plan made for others shrinks it to none.  *)
(***************************************************************************)
NeverEmptied == \A p \in Table : state[p] = "up" => replicas[p] > 0

(***************************************************************************)
(* As long as loads were made one at a time, each after the background     *)
(* scaling before it had ended, the pools together never ask Ray for more  *)
(* GPUs than there are, at no moment of a load or a shutdown.  Not counted *)
(* is the actor that a scale_up given to a pool while it was closing still *)
(* waits for: it is discarded as soon as it is ready.                      *)
(***************************************************************************)
FitsInTurn ==
  hasty = 0 =>
    GpusOf([p \in PoolIds |-> IF state[p] = "down" THEN 0 ELSE Asked(p)]) <= TotalGpus

(***************************************************************************)
(* "When multiple models are loaded, GPUs are split evenly": after the     *)
(* last call, when all calls waited their turn, every model ends up with   *)
(* exactly its share, also after shutdowns that overlapped.                *)
(***************************************************************************)
SplitEvenly ==
  <>[](hasty = 0 /\ Quiet) =>
    <>[](\A p \in Table : replicas[p] = EvenShare(LoadedModels, model[p]))

\* A load that waited its turn returns: it waits for no GPU that is not freed.
LoadsInTurnReturn ==
  \A c \in Calls : at[c] \in {"shrinking", "loading"} /\ hasty = 0 ~> at[c] = "idle" \/ hasty > 0

=============================================================================
