---------------------------- MODULE ServerProofs ----------------------------
(***************************************************************************)
(* Theorems about the server above its pools.  First the driver of several *)
(* models, for any models, sizes, GPUs, pools and calls.                   *)
(***************************************************************************)
EXTENDS Driver, WeightSync, ShmHandover, ProofLemmas, SequenceTheorems

PoolStates == {"free", "starting", "up", "closing", "down", "lost"}
CallStates == {"idle", "shrinking", "loading", "closing", "closing_all"}

DriverTypeOK ==
  /\ pools \in Seq(PoolIds)
  /\ model \in [PoolIds -> Models] /\ state \in [PoolIds -> PoolStates]
  /\ replicas \in [PoolIds -> Nat]
  /\ at \in [Calls -> CallStates] /\ subject \in [Calls -> Models]
  /\ pool \in [Calls -> PoolIds \cup {NoPool}] /\ known \in [Calls -> SUBSET Models]

\* _pools is a dict: a model has one entry.
OneEntryPerModel ==
  \A i, j \in DOMAIN pools : model[pools[i]] = model[pools[j]] => i = j

\* A pool that is used again is in nobody's hands.
FreeIsUnused ==
  \A p \in PoolIds : state[p] = "free" => p \notin Table /\ \A c \in Calls : pool[c] # p

\* The pool a call loads is in no other hands and not yet in the table.
LoadsItsOwn ==
  \A c \in Calls : at[c] = "loading" =>
    /\ pool[c] \in PoolIds \ Table /\ state[pool[c]] = "starting"
    /\ model[pool[c]] = subject[c]
    /\ \A d \in Calls \ {c} : pool[d] # pool[c]

\* A call that shrinks a pool has a plan in which its model has a share.
ShrinksByPlan ==
  \A c \in Calls : at[c] = "shrinking" =>
    /\ pool[c] \in PoolIds /\ model[pool[c]] \in known[c]
    /\ subject[c] \in known[c] /\ HasPlan(known[c])

ServesSomething ==
  \A p \in PoolIds : state[p] \in {"starting", "up"} => replicas[p] > 0

Held == FreeIsUnused /\ LoadsItsOwn /\ ShrinksByPlan

Sound == DriverTypeOK /\ OneEntryPerModel /\ Held /\ ServesSomething

-----------------------------------------------------------------------------
(* The operators of the module. *)

LEMMA ShareIsNatural ==
  ASSUME NEW M \in SUBSET Models, M # {}, NEW m \in Models
  PROVE  EvenShare(M, m) \in Nat
<1>1. IsFiniteSet(M) /\ TotalGpus \in Nat /\ Tp[m] \in Nat \ {0}
  BY DriverConstants, FS_Subset
<1>2. Cardinality(M) \in Nat \ {0}
  BY <1>1, FS_CardinalityType, FS_EmptySet
<1>3. PerModel(M) \in Nat
  BY <1>1, <1>2, DivMod DEF PerModel
<1> QED
  BY <1>1, <1>3, DivMod DEF EvenShare

LEMMA TableInPools ==
  ASSUME DriverTypeOK
  PROVE  /\ Table \subseteq PoolIds
         /\ \A p \in Table : Position(p) \in DOMAIN pools /\ pools[Position(p)] = p
         /\ Len(pools) \in Nat /\ DOMAIN pools = 1 .. Len(pools)
BY DEF DriverTypeOK, Table, Position

LEMMA FirstIsElement ==
  ASSUME DriverTypeOK, NEW S \in SUBSET Table, S # {}
  PROVE  First(S) \in S /\ \A q \in S : Position(First(S)) <= Position(q)
<1> DEFINE P == {Position(q) : q \in S}
<1>1. P \in SUBSET Nat /\ P # {}
  BY TableInPools
<1>2. PICK n \in P : \A k \in P : n <= k
  BY <1>1, Smallest
<1>3. \E p \in S : \A q \in S : Position(p) <= Position(q)
  BY <1>2
<1> QED
  BY <1>3 DEF First

\* Deleting a model's entry leaves the entries of the others.
LEMMA WithoutModel ==
  ASSUME DriverTypeOK, OneEntryPerModel, NEW m
  PROVE  /\ Without(m) \in Seq(PoolIds)
         /\ \A i \in DOMAIN Without(m) : Without(m)[i] \in {q \in Table : model[q] # m}
         /\ \A i, j \in DOMAIN Without(m) :
              model[Without(m)[i]] = model[Without(m)[j]] => i = j
         /\ \A q \in Table : model[q] # m => \E i \in DOMAIN Without(m) : Without(m)[i] = q
<1> DEFINE N == Len(pools)
           i0 == Position(CHOOSE q \in Table : model[q] = m)
           at0(j) == IF j < i0 THEN j ELSE j + 1
<1>1. N \in Nat /\ DOMAIN pools = 1 .. N /\ pools \in Seq(PoolIds) /\ Table \subseteq PoolIds
  BY TableInPools DEF DriverTypeOK
<1>2. CASE m \in LoadedModels
  <2>1. i0 \in 1 .. N /\ model[pools[i0]] = m
    BY <1>1, <1>2, TableInPools DEF LoadedModels
  <2> HIDE DEF i0
  <2>2. Without(m) = [j \in 1 .. N - 1 |-> pools[at0(j)]]
    BY <1>2 DEF Without, i0
  <2>3. \A j \in 1 .. N - 1 : at0(j) \in 1 .. N /\ at0(j) # i0
    BY <1>1, <2>1
  <2>4. \A j, k \in 1 .. N - 1 : at0(j) = at0(k) => j = k
    BY <1>1, <2>1
  <2> HIDE DEF at0
  <2>5. \A j \in 1 .. N - 1 : pools[at0(j)] \in PoolIds /\ pools[at0(j)] \in Table
                              /\ model[pools[at0(j)]] # m
    BY <1>1, <2>1, <2>3 DEF OneEntryPerModel, Table
  <2>6. Without(m) \in Seq(PoolIds) /\ DOMAIN Without(m) = 1 .. N - 1
    BY <1>1, <2>1, <2>2, <2>5, IsASeq
  <2>7. \A j, k \in 1 .. N - 1 : model[pools[at0(j)]] = model[pools[at0(k)]] => j = k
    BY <1>1, <2>3, <2>4 DEF OneEntryPerModel
  <2>8. ASSUME NEW q \in Table, model[q] # m
        PROVE  \E j \in 1 .. N - 1 : pools[at0(j)] = q
    <3>1. PICK k \in 1 .. N : pools[k] = q
      BY <1>1 DEF Table
    <3>2. k # i0
      BY <2>1, <2>8, <3>1
    <3> DEFINE j == IF k < i0 THEN k ELSE k - 1
    <3>3. j \in 1 .. N - 1 /\ at0(j) = k
      BY <1>1, <2>1, <3>2 DEF at0
    <3> QED
      BY <3>1, <3>3
  <2>9. PICK w : w = Without(m)
    OBVIOUS
  <2>10. /\ w \in Seq(PoolIds) /\ DOMAIN w = 1 .. N - 1
         /\ \A j \in 1 .. N - 1 : w[j] = pools[at0(j)]
    BY <2>2, <2>6, <2>9
  <2>11. \A i \in DOMAIN w : w[i] \in {q \in Table : model[q] # m}
    BY <2>5, <2>10
  <2>12. \A i, j \in DOMAIN w : model[w[i]] = model[w[j]] => i = j
    BY <2>7, <2>10
  <2>13. \A q \in Table : model[q] # m => \E i \in DOMAIN w : w[i] = q
    BY <2>8, <2>10
  <2> QED
    BY <2>9, <2>10, <2>11, <2>12, <2>13
<1>3. CASE m \notin LoadedModels
  <2>1. Without(m) = pools
    BY <1>3 DEF Without
  <2> QED
    BY <1>1, <1>3, <2>1 DEF OneEntryPerModel, LoadedModels, Table
<1> QED
  BY <1>2, <1>3

-----------------------------------------------------------------------------
(* What every step preserves. *)

SameCalls(c) ==
  \A d \in Calls \ {c} : /\ at'[d] = at[d] /\ pool'[d] = pool[d]
                         /\ subject'[d] = subject[d] /\ known'[d] = known[d]

(***************************************************************************)
(* A step by call c, or by none, after which c neither loads nor shrinks,  *)
(* and which frees the pools in dead.                                      *)
(***************************************************************************)
LEMMA CallMoves ==
  ASSUME Sound, DriverTypeOK', ServesSomething', NEW c, SameCalls(c),
         NEW dead \in SUBSET PoolIds,
         c \in Calls => /\ at'[c] \notin {"loading", "shrinking"}
                        /\ pool'[c] \in Table' \cup {NoPool},
         \A q \in Table' : q \in Table \/ (c \in Calls /\ q = pool[c]),
         Bury(dead),
         \A i, j \in DOMAIN pools' : model[pools'[i]] = model[pools'[j]] => i = j,
         \A q \in dead : q \notin Table' /\ \A d \in Calls \ {c} : pool[d] # q,
         \A q \in PoolIds : state'[q] = "free" => q \in dead \/ state[q] = "free",
         \A q \in PoolIds \ (Table \cup dead) :
           state[q] = "starting" /\ (c \in Calls => q # pool[c]) => state'[q] = "starting"
  PROVE  Sound'
<1>0. DriverTypeOK /\ FreeIsUnused /\ LoadsItsOwn /\ ShrinksByPlan
  BY DEF Sound, Held
<1>1. \A q \in PoolIds : q \notin dead => model'[q] = model[q]
  BY DEF Bury
<1>2. Table' \subseteq PoolIds /\ NoPool \notin PoolIds
  BY DriverConstants DEF DriverTypeOK, Table
<1>3. OneEntryPerModel'
  <2>1. \A i \in DOMAIN pools' : pools'[i] \in Table'
    BY DEF Table
  <2>2. \A i \in DOMAIN pools' : model'[pools'[i]] = model[pools'[i]]
    BY <1>1, <1>2, <2>1
  <2> QED
    BY <2>2 DEF OneEntryPerModel
<1>4. FreeIsUnused'
  <2> SUFFICES ASSUME NEW q \in PoolIds, state'[q] = "free"
               PROVE  q \notin Table' /\ \A d \in Calls : pool'[d] # q
    BY DEF FreeIsUnused
  <2>1. q \notin Table'
    BY <1>0 DEF FreeIsUnused
  <2>2. ASSUME NEW d \in Calls PROVE pool'[d] # q
    <3>1. CASE d = c
      BY <1>2, <2>1, <3>1
    <3>2. CASE d # c
      BY <1>0, <3>2 DEF FreeIsUnused, SameCalls
    <3> QED
      BY <3>1, <3>2
  <2> QED
    BY <2>1, <2>2
<1>5. ASSUME NEW d \in Calls, at'[d] = "loading"
      PROVE  /\ d # c /\ pool[d] \in PoolIds \ (Table \cup Table' \cup dead)
             /\ state'[pool[d]] = "starting" /\ model'[pool[d]] = subject[d]
             /\ \A e \in Calls \ {d} : pool'[e] # pool[d]
  <2>1. d # c
    BY <1>5
  <2>2. /\ pool[d] \in PoolIds \ Table /\ state[pool[d]] = "starting"
        /\ model[pool[d]] = subject[d] /\ \A e \in Calls \ {d} : pool[e] # pool[d]
    BY <1>0, <1>5, <2>1 DEF SameCalls, LoadsItsOwn
  <2>3. pool[d] \notin dead /\ pool[d] \notin Table' /\ (c \in Calls => pool[d] # pool[c])
    BY <2>1, <2>2
  <2>4. \A e \in Calls \ {d} : pool'[e] # pool[d]
    BY <1>2, <2>2, <2>3 DEF SameCalls
  <2> QED
    BY <1>1, <2>1, <2>2, <2>3, <2>4
<1>6. LoadsItsOwn'
  BY <1>5 DEF LoadsItsOwn, SameCalls
<1>7. ShrinksByPlan'
  <2> SUFFICES ASSUME NEW d \in Calls, at'[d] = "shrinking"
               PROVE  /\ pool'[d] \in PoolIds /\ model'[pool'[d]] \in known'[d]
                      /\ subject'[d] \in known'[d] /\ HasPlan(known'[d])
    BY DEF ShrinksByPlan, HasPlan, EvenShare, PerModel
  <2>1. d # c
    OBVIOUS
  <2>2. /\ pool[d] \in PoolIds /\ model[pool[d]] \in known[d]
        /\ subject[d] \in known[d] /\ HasPlan(known[d])
    BY <1>0, <2>1 DEF ShrinksByPlan, SameCalls
  <2>3. pool[d] \notin dead
    BY <2>1
  <2> QED
    BY <1>1, <2>1, <2>2, <2>3 DEF SameCalls
<1> QED
  BY <1>3, <1>4, <1>6, <1>7 DEF Sound, Held

\* Call c starts to build a pool of n workers for model m.
LEMMA BuildKeepsSound ==
  ASSUME Sound, NEW c \in Calls, NEW m \in Models, NEW n \in Nat \ {0}, BuildPool(c, m, n),
         SameCalls(c), subject' \in [Calls -> Models], subject'[c] = m,
         known' \in [Calls -> SUBSET Models], UNCHANGED pools
  PROVE  Sound'
<1>0. DriverTypeOK /\ FreeIsUnused /\ LoadsItsOwn /\ ShrinksByPlan /\ NoPool \notin PoolIds
  BY DriverConstants DEF Sound, Held
<1>1. PICK p \in PoolIds :
        /\ state[p] = "free"
        /\ model' = [model EXCEPT ![p] = m] /\ state' = [state EXCEPT ![p] = "starting"]
        /\ replicas' = [replicas EXCEPT ![p] = n] /\ pool' = [pool EXCEPT ![c] = p]
        /\ at' = [at EXCEPT ![c] = "loading"]
  BY DEF BuildPool, Unused
<1>2. p \notin Table /\ (\A d \in Calls : pool[d] # p) /\ Table' = Table
  BY <1>0, <1>1 DEF FreeIsUnused, Table
<1>3. DriverTypeOK'
  BY <1>0, <1>1 DEF DriverTypeOK, PoolStates, CallStates
<1>4. \A q \in PoolIds \ {p} : model'[q] = model[q] /\ state'[q] = state[q]
                               /\ replicas'[q] = replicas[q]
  BY <1>0, <1>1 DEF DriverTypeOK
<1>5. /\ model'[p] = m /\ state'[p] = "starting" /\ replicas'[p] = n
      /\ pool'[c] = p /\ at'[c] = "loading"
  BY <1>0, <1>1 DEF DriverTypeOK
<1>6. OneEntryPerModel'
  <2>1. \A i \in DOMAIN pools : pools[i] \in Table /\ pools[i] \in PoolIds
    BY <1>0, TableInPools DEF Table
  <2> QED
    BY <1>2, <1>4, <2>1 DEF OneEntryPerModel, Sound
<1>7. FreeIsUnused'
  BY <1>0, <1>2, <1>4, <1>5 DEF FreeIsUnused, SameCalls
<1>8. LoadsItsOwn'
  <2> SUFFICES ASSUME NEW d \in Calls, at'[d] = "loading"
               PROVE  /\ pool'[d] \in PoolIds \ Table' /\ state'[pool'[d]] = "starting"
                      /\ model'[pool'[d]] = subject'[d]
                      /\ \A e \in Calls \ {d} : pool'[e] # pool'[d]
    BY DEF LoadsItsOwn
  <2>1. CASE d = c
    BY <1>2, <1>5, <2>1 DEF SameCalls
  <2>2. CASE d # c
    <3>1. /\ pool[d] \in PoolIds \ Table /\ state[pool[d]] = "starting"
          /\ model[pool[d]] = subject[d] /\ \A e \in Calls \ {d} : pool[e] # pool[d]
      BY <1>0, <2>2 DEF LoadsItsOwn, SameCalls
    <3>2. pool[d] # p
      BY <1>2
    <3>3. \A e \in Calls \ {d} : pool'[e] # pool[d]
      BY <1>5, <3>1, <3>2 DEF SameCalls
    <3> QED
      BY <1>2, <1>4, <2>2, <3>1, <3>2, <3>3 DEF SameCalls
  <2> QED
    BY <2>1, <2>2
<1>9. ShrinksByPlan'
  BY <1>0, <1>2, <1>4, <1>5 DEF ShrinksByPlan, SameCalls, HasPlan, EvenShare, PerModel
<1>10. ServesSomething'
  BY <1>4, <1>5 DEF ServesSomething, Sound
<1> QED
  BY <1>3, <1>6, <1>7, <1>8, <1>9, <1>10 DEF Sound, Held

\* Call c goes on to shrink pool p by the plan for M.
LEMMA ShrinkKeepsSound ==
  ASSUME Sound, NEW c \in Calls, NEW p \in Table, NEW M \in SUBSET Models, HasPlan(M),
         model[p] \in M, SameCalls(c), subject' \in [Calls -> Models], subject'[c] \in M,
         at' = [at EXCEPT ![c] = "shrinking"], pool' = [pool EXCEPT ![c] = p],
         known' = [known EXCEPT ![c] = M], UNCHANGED <<pools, model, state, replicas>>
  PROVE  Sound'
<1>0. DriverTypeOK /\ FreeIsUnused /\ LoadsItsOwn /\ ShrinksByPlan /\ Table' = Table
  BY DEF Sound, Held, Table
<1>1. p \in PoolIds
  BY <1>0, TableInPools
<1>2. DriverTypeOK'
  BY <1>0, <1>1 DEF DriverTypeOK, CallStates
<1>3. at'[c] = "shrinking" /\ pool'[c] = p /\ known'[c] = M
  BY <1>0 DEF DriverTypeOK
<1>4. OneEntryPerModel' /\ ServesSomething'
  BY DEF Sound, OneEntryPerModel, ServesSomething
<1>5. FreeIsUnused'
  BY <1>0, <1>3 DEF FreeIsUnused, SameCalls
<1>6. LoadsItsOwn'
  <2> SUFFICES ASSUME NEW d \in Calls, at'[d] = "loading"
               PROVE  /\ pool'[d] \in PoolIds \ Table' /\ state'[pool'[d]] = "starting"
                      /\ model'[pool'[d]] = subject'[d]
                      /\ \A e \in Calls \ {d} : pool'[e] # pool'[d]
    BY DEF LoadsItsOwn
  <2>1. d # c
    BY <1>3
  <2>2. /\ pool[d] \in PoolIds \ Table /\ state[pool[d]] = "starting"
        /\ model[pool[d]] = subject[d] /\ \A e \in Calls \ {d} : pool[e] # pool[d]
    BY <1>0, <2>1 DEF LoadsItsOwn, SameCalls
  <2>3. \A e \in Calls \ {d} : pool'[e] # pool[d]
    BY <1>3, <2>2 DEF SameCalls
  <2> QED
    BY <1>0, <2>1, <2>2, <2>3 DEF SameCalls
<1>7. ShrinksByPlan'
  BY <1>0, <1>1, <1>3 DEF ShrinksByPlan, SameCalls, HasPlan, EvenShare, PerModel
<1> QED
  BY <1>2, <1>4, <1>5, <1>6, <1>7 DEF Sound, Held

LEMMA GoOnKeepsSound ==
  ASSUME Sound, NEW c \in Calls, NEW M \in SUBSET Models, NEW m \in M, HasPlan(M), NEW S,
         GoOn(c, m, S, M), subject' = [subject EXCEPT ![c] = m], UNCHANGED pools
  PROVE  Sound'
<1>0. DriverTypeOK /\ m \in Models
  BY DEF Sound, Held
<1>1. subject' \in [Calls -> Models] /\ subject'[c] = m
  BY <1>0 DEF DriverTypeOK
<1>2. CASE ToShrink(S, M) = {}
  <2>1. BuildPool(c, m, EvenShare(M, m)) /\ known' = [known EXCEPT ![c] = {}]
    BY <1>2 DEF GoOn
  <2>2. known' \in [Calls -> SUBSET Models] /\ SameCalls(c)
    BY <1>0, <2>1 DEF DriverTypeOK, SameCalls, BuildPool
  <2>3. EvenShare(M, m) \in Nat \ {0}
    BY <1>0, ShareIsNatural DEF HasPlan
  <2> QED
    BY <1>0, <1>1, <2>1, <2>2, <2>3, BuildKeepsSound
<1>3. CASE ToShrink(S, M) # {}
  <2> DEFINE p == First(ToShrink(S, M))
  <2>1. p \in ToShrink(S, M)
    BY <1>0, <1>3, FirstIsElement DEF ToShrink
  <2>2. p \in Table /\ model[p] \in M
    BY <2>1 DEF ToShrink
  <2>3. /\ at' = [at EXCEPT ![c] = "shrinking"] /\ pool' = [pool EXCEPT ![c] = p]
        /\ known' = [known EXCEPT ![c] = M] /\ UNCHANGED <<model, state, replicas>>
    BY <1>3 DEF GoOn
  <2>4. SameCalls(c)
    BY <1>0, <2>3 DEF DriverTypeOK, SameCalls
  <2> HIDE DEF p
  <2> QED
    BY <1>1, <2>2, <2>3, <2>4, ShrinkKeepsSound
<1> QED
  BY <1>2, <1>3

LEMMA LoadsKeepSound ==
  ASSUME Sound, NEW c \in Calls, NEW m \in Models,
         initialize(c, m) \/ \E n \in Explicit : initialize_explicit(c, m, n)
  PROVE  Sound'
<1>0. DriverTypeOK
  BY DEF Sound
<1>1. CASE initialize(c, m)
  <2> DEFINE M == LoadedModels \cup {m}
  <2>1. M \in SUBSET Models /\ m \in M
    BY <1>0, TableInPools DEF LoadedModels, DriverTypeOK
  <2> HIDE DEF M
  <2>2. /\ HasPlan(M) /\ GoOn(c, m, {}, M) /\ subject' = [subject EXCEPT ![c] = m]
        /\ UNCHANGED pools
    BY <1>1 DEF initialize, M
  <2> QED
    BY <2>1, <2>2, GoOnKeepsSound
<1>2. CASE \E n \in Explicit : initialize_explicit(c, m, n)
  <2>1. PICK n \in Nat \ {0} : initialize_explicit(c, m, n)
    BY <1>2, DriverConstants
  <2>2. /\ BuildPool(c, m, n) /\ UNCHANGED <<pools, known>>
        /\ subject' = [subject EXCEPT ![c] = m]
    BY <2>1 DEF initialize_explicit
  <2>3. SameCalls(c) /\ subject' \in [Calls -> Models] /\ subject'[c] = m
    BY <1>0, <2>2 DEF DriverTypeOK, SameCalls, BuildPool
  <2>4. known' \in [Calls -> SUBSET Models]
    BY <1>0, <2>2 DEF DriverTypeOK
  <2> QED
    BY <2>2, <2>3, <2>4, BuildKeepsSound
<1> QED
  BY <1>1, <1>2

LEMMA ShrinkOneKeepsSound ==
  ASSUME Sound, NEW c \in Calls, ShrinkOne(c)
  PROVE  Sound'
<1> DEFINE p == pool[c]
<1>0. DriverTypeOK /\ ShrinksByPlan
  BY DEF Sound, Held
<1>1. /\ p \in PoolIds /\ model[p] \in known[c] /\ HasPlan(known[c])
      /\ known[c] \in SUBSET Models /\ model[p] \in Models
  BY <1>0 DEF ShrinkOne, ShrinksByPlan, DriverTypeOK
<1>2. EvenShare(known[c], model[p]) \in Nat \ {0}
  BY <1>1, ShareIsNatural DEF HasPlan
<1>3. replicas[p] > EvenShare(known[c], model[p]) /\ replicas[p] \in Nat
  BY <1>0, <1>1 DEF ShrinkOne, Exceeds, DriverTypeOK
<1>4. /\ replicas' = [replicas EXCEPT ![p] = @ - 1]
      /\ UNCHANGED <<pools, model, state, at, subject, pool, known>>
  BY DEF ShrinkOne, driverCallVars
<1>5. replicas[p] - 1 \in Nat /\ replicas[p] - 1 > 0
  BY <1>2, <1>3
<1>6. ServesSomething'
  BY <1>0, <1>1, <1>4, <1>5 DEF ServesSomething, Sound, DriverTypeOK
<1>7. DriverTypeOK'
  BY <1>0, <1>1, <1>4, <1>5 DEF DriverTypeOK
<1>8. (OneEntryPerModel /\ Held)'
  BY <1>4 DEF Sound, Held, OneEntryPerModel, FreeIsUnused, LoadsItsOwn, ShrinksByPlan, Table,
              HasPlan, EvenShare, PerModel
<1> QED
  BY <1>6, <1>7, <1>8 DEF Sound

LEMMA ShrinkDoneKeepsSound ==
  ASSUME Sound, NEW c \in Calls, ShrinkDone(c)
  PROVE  Sound'
<1>0. DriverTypeOK /\ ShrinksByPlan
  BY DEF Sound, Held
<1>1. subject[c] \in known[c] /\ HasPlan(known[c]) /\ known[c] \in SUBSET Models
  BY <1>0 DEF ShrinkDone, ShrinksByPlan, DriverTypeOK
<1>2. subject' = [subject EXCEPT ![c] = subject[c]]
  BY <1>0 DEF ShrinkDone, DriverTypeOK
<1>3. GoOn(c, subject[c], seen[c], known[c]) /\ UNCHANGED pools
  BY DEF ShrinkDone
<1> QED
  BY <1>1, <1>2, <1>3, GoOnKeepsSound

LEMMA EndOfCall ==
  ASSUME DriverTypeOK, NEW c \in Calls, EndCall(c)
  PROVE  /\ SameCalls(c) /\ at'[c] = "idle" /\ pool'[c] = NoPool
         /\ at' \in [Calls -> CallStates] /\ subject' \in [Calls -> Models]
         /\ pool' \in [Calls -> PoolIds \cup {NoPool}]
         /\ known' \in [Calls -> SUBSET Models]
<1>1. AnyModel \in Models
  BY DriverConstants DEF AnyModel
<1> QED
  BY <1>1 DEF EndCall, DriverTypeOK, SameCalls, CallStates

LEMMA BuryTypes ==
  ASSUME DriverTypeOK
  PROVE  /\ UNCHANGED model => Bury({})
         /\ \A dead : Bury(dead) => model' \in [PoolIds -> Models]
<1>1. AnyModel \in Models
  BY DriverConstants DEF AnyModel
<1> QED
  BY <1>1 DEF Bury, DriverTypeOK

LEMMA ShrinkRaisesKeepsSound ==
  ASSUME Sound, NEW c \in Calls, ShrinkRaises(c)
  PROVE  Sound'
<1>0. DriverTypeOK /\ EndCall(c) /\ UNCHANGED <<pools, model, state, replicas>>
  BY DEF Sound, ShrinkRaises
<1>1. Bury({}) /\ Table' = Table
  BY <1>0, BuryTypes DEF Table
<1>2. DriverTypeOK' /\ ServesSomething'
  BY <1>0, EndOfCall DEF DriverTypeOK, ServesSomething, Sound
<1>3. \A i, j \in DOMAIN pools' : model[pools'[i]] = model[pools'[j]] => i = j
  BY <1>0 DEF Sound, OneEntryPerModel
<1> QED
  BY <1>0, <1>1, <1>2, <1>3, EndOfCall, CallMoves

LEMMA LoadDoneKeepsSound ==
  ASSUME Sound, NEW c \in Calls, LoadDone(c)
  PROVE  Sound'
<1> DEFINE p == pool[c]
           same(q) == model[q] = subject[c]
<1>0. /\ DriverTypeOK /\ EndCall(c) /\ UNCHANGED <<model, replicas>>
      /\ p \in PoolIds \ Table /\ state[p] = "starting" /\ same(p) /\ replicas[p] > 0
  BY DEF Sound, Held, LoadDone, LoadsItsOwn, ServesSomething
<1>a. Table \subseteq PoolIds /\ DOMAIN pools = 1 .. Len(pools) /\ Len(pools) \in Nat
  BY <1>0, TableInPools
<1>1. /\ pools' \in Seq(PoolIds) /\ Table' \subseteq Table \cup {p}
      /\ \A i, j \in DOMAIN pools' : model[pools'[i]] = model[pools'[j]] => i = j
      /\ state'[p] = "up" /\ state' \in [PoolIds -> PoolStates]
      /\ \A q \in PoolIds \ {p} : state'[q] = "lost" \/ state'[q] = state[q]
      /\ \A q \in PoolIds \ Table : q # p => state'[q] = state[q]
  <2>1. CASE \E q \in Table : same(q)
    <3>1. /\ pools' = [i \in DOMAIN pools |-> IF same(pools[i]) THEN p ELSE pools[i]]
          /\ state' = [q \in PoolIds |->
                         IF q = p THEN "up"
                         ELSE IF q \in Table /\ same(q) THEN "lost" ELSE state[q]]
      BY <2>1 DEF LoadDone
    <3>2. \A i \in DOMAIN pools : pools[i] \in Table
      BY DEF Table
    <3>3. \A i \in 1 .. Len(pools) : (IF same(pools[i]) THEN p ELSE pools[i]) \in PoolIds
      BY <1>0, <1>a, <3>2
    <3>4. pools' \in Seq(PoolIds) /\ DOMAIN pools' = DOMAIN pools
      BY <1>a, <3>1, <3>3, IsASeq
    <3>5. \A i \in DOMAIN pools : model[pools'[i]] = model[pools[i]]
      BY <1>0, <3>1
    <3>6. Table' \subseteq Table \cup {p}
      BY <3>1, <3>2, <3>4 DEF Table
    <3>7. \A i, j \in DOMAIN pools' : model[pools'[i]] = model[pools'[j]] => i = j
      BY <3>4, <3>5 DEF Sound, OneEntryPerModel
    <3>8. state' \in [PoolIds -> PoolStates]
      BY <1>0, <3>1 DEF DriverTypeOK, PoolStates
    <3>9. /\ state'[p] = "up"
          /\ \A q \in PoolIds \ {p} : state'[q] = "lost" \/ state'[q] = state[q]
          /\ \A q \in PoolIds \ Table : q # p => state'[q] = state[q]
      BY <1>0, <3>1
    <3> QED
      BY <3>4, <3>6, <3>7, <3>8, <3>9
  <2>2. CASE ~\E q \in Table : same(q)
    <3>1. pools' = Append(pools, p) /\ state' = [state EXCEPT ![p] = "up"]
      BY <2>2 DEF LoadDone
    <3>a. pools \in Seq(PoolIds)
      BY <1>0 DEF DriverTypeOK
    <3>b. \A i \in 1 .. Len(pools) : pools[i] \in Table
      BY <1>a DEF Table
    <3>c. /\ pools' \in Seq(PoolIds) /\ Len(pools') = Len(pools) + 1
          /\ pools'[Len(pools) + 1] = p
          /\ \A i \in 1 .. Len(pools) : pools'[i] = pools[i]
      BY <1>0, <3>1, <3>a, AppendProperties
    <3>2. /\ pools' \in Seq(PoolIds) /\ DOMAIN pools' = 1 .. (Len(pools) + 1)
          /\ pools'[Len(pools) + 1] = p
          /\ \A i \in 1 .. Len(pools) : pools'[i] = pools[i] /\ pools[i] \in Table
      BY <3>b, <3>c
    <3>3. \A i \in 1 .. Len(pools) : model[pools'[i]] # model[p]
      BY <1>0, <2>2, <3>2
    <3>4. \A i \in DOMAIN pools' : i \in 1 .. Len(pools) \/ i = Len(pools) + 1
      BY <1>a, <3>2
    <3>5. \A i, j \in DOMAIN pools' : model[pools'[i]] = model[pools'[j]] => i = j
      BY <1>a, <3>2, <3>3, <3>4 DEF Sound, OneEntryPerModel
    <3>6. Table' \subseteq Table \cup {p}
      BY <3>2, <3>4 DEF Table
    <3> QED
      BY <1>0, <3>1, <3>2, <3>5, <3>6 DEF DriverTypeOK, PoolStates
  <2> QED
    BY <2>1, <2>2
<1>2. DriverTypeOK'
  BY <1>0, <1>1, EndOfCall DEF DriverTypeOK
<1>3. ServesSomething'
  BY <1>0, <1>1 DEF ServesSomething, Sound
<1>4. Bury({})
  BY <1>0, BuryTypes
<1> QED
  BY <1>0, <1>1, <1>2, <1>3, <1>4, EndOfCall, CallMoves

LEMMA LoadFailsKeepsSound ==
  ASSUME Sound, NEW c \in Calls, LoadFails(c)
  PROVE  Sound'
<1> DEFINE p == pool[c]
<1>0. /\ DriverTypeOK /\ EndCall(c) /\ UNCHANGED pools /\ Bury({p})
      /\ p \in PoolIds \ Table /\ \A d \in Calls \ {c} : pool[d] # p
      /\ state' = [state EXCEPT ![p] = "free"] /\ replicas' = [replicas EXCEPT ![p] = 0]
  BY DEF Sound, Held, LoadFails, LoadsItsOwn
<1>1. Table' = Table
  BY <1>0 DEF Table
<1>2. DriverTypeOK'
  BY <1>0, EndOfCall, BuryTypes DEF DriverTypeOK, PoolStates
<1>3. ServesSomething'
  BY <1>0 DEF ServesSomething, Sound, DriverTypeOK
<1>4. \A q \in PoolIds : /\ state'[q] = "free" => q = p \/ state[q] = "free"
                         /\ state[q] = "starting" /\ q # p => state'[q] = "starting"
  BY <1>0 DEF DriverTypeOK
<1>5. \A i, j \in DOMAIN pools' : model[pools'[i]] = model[pools'[j]] => i = j
  BY <1>0 DEF Sound, OneEntryPerModel
<1> QED
  BY <1>0, <1>1, <1>2, <1>3, <1>4, <1>5, EndOfCall, CallMoves

LEMMA ShutdownKeepsSound ==
  ASSUME Sound, NEW c \in Calls, NEW m \in Models, shutdown(c, m) \/ shutdown_all(c)
  PROVE  Sound'
<1>0. DriverTypeOK
  BY DEF Sound
<1>1. PICK p \in Table :
        /\ state' = [state EXCEPT ![p] = IF @ = "down" THEN @ ELSE "closing"]
        /\ pool' = [pool EXCEPT ![c] = p]
  <2>1. CASE shutdown(c, m)
    BY <2>1 DEF shutdown
  <2>2. CASE shutdown_all(c)
    <3>1. pools # <<>> /\ Head(pools) \in Table
      BY <1>0, <2>2 DEF shutdown_all, DriverTypeOK, Table
    <3> QED
      BY <2>2, <3>1 DEF shutdown_all
  <2> QED
    BY <2>1, <2>2
<1>2. \E s \in {"closing", "closing_all"} : at' = [at EXCEPT ![c] = s]
  BY DEF shutdown, shutdown_all
<1>3. UNCHANGED <<pools, model, replicas>> /\ Table' = Table /\ p \in PoolIds
  BY <1>0, TableInPools DEF shutdown, shutdown_all, Table
<1>4. /\ subject' \in [Calls -> Models] /\ known' \in [Calls -> SUBSET Models]
      /\ \A d \in Calls \ {c} : subject'[d] = subject[d] /\ known'[d] = known[d]
  <2>1. LoadedModels \in SUBSET Models
    BY <1>0, TableInPools DEF LoadedModels, DriverTypeOK
  <2>2. CASE shutdown(c, m)
    BY <1>0, <2>2 DEF shutdown, DriverTypeOK
  <2>3. CASE shutdown_all(c)
    BY <1>0, <2>1, <2>3 DEF shutdown_all, DriverTypeOK
  <2> QED
    BY <2>2, <2>3
<1>5. at'[c] \in {"closing", "closing_all"} /\ pool'[c] = p /\ SameCalls(c)
  BY <1>0, <1>1, <1>2, <1>4 DEF DriverTypeOK, SameCalls
<1>6. DriverTypeOK'
  BY <1>0, <1>1, <1>2, <1>3, <1>4 DEF DriverTypeOK, PoolStates, CallStates
<1>7. \A q \in PoolIds : /\ state'[q] = "free" => state[q] = "free"
                         /\ state'[q] \in {"starting", "up"} => state'[q] = state[q]
                         /\ q \notin Table => state'[q] = state[q]
  BY <1>0, <1>1 DEF DriverTypeOK
<1>8. ServesSomething'
  BY <1>3, <1>7 DEF ServesSomething, Sound
<1>9. \A i, j \in DOMAIN pools' : model[pools'[i]] = model[pools'[j]] => i = j
  BY <1>3 DEF Sound, OneEntryPerModel
<1>10. Bury({})
  BY <1>0, <1>3, BuryTypes
<1> QED
  BY <1>3, <1>5, <1>6, <1>7, <1>8, <1>9, <1>10, CallMoves

LEMMA CloseDoneKeepsSound ==
  ASSUME Sound, NEW c \in Calls, CloseDone(c)
  PROVE  Sound'
<1> DEFINE p    == pool[c]
           left == {q \in Table : model[q] # subject[c]}
           dead == {q \in {p} : Forgotten(q, left, c)} \cap PoolIds
<1>0. DriverTypeOK /\ EndCall(c) /\ pools' = Without(subject[c])
  BY DEF Sound, CloseDone
<1>1. /\ pools' \in Seq(PoolIds) /\ Table' \subseteq left
      /\ \A i, j \in DOMAIN pools' : model[pools'[i]] = model[pools'[j]] => i = j
  BY <1>0, WithoutModel DEF Sound, Table
<1>2. /\ state' = [q \in PoolIds |-> CASE q \in dead                  -> "free"
                                     [] q \in {p} \ dead            -> "down"
                                     [] q \in (Table \ left) \ {p}  -> "lost"
                                     [] OTHER                       -> state[q]]
      /\ replicas' = [replicas EXCEPT ![p] = 0]
  BY DEF CloseDone
<1>3. Bury(dead)
  BY DEF CloseDone, Bury
<1>4. \A q \in dead : q \notin left /\ \A d \in Calls \ {c} : pool[d] # q
  BY DEF Forgotten
<1>5. /\ dead \subseteq {p} /\ dead \in SUBSET PoolIds
      /\ left \subseteq Table
  OBVIOUS
<1> HIDE DEF dead, left
<1>6. \A q \in PoolIds :
        /\ q \in dead => state'[q] = "free"
        /\ q \notin dead /\ q = p => state'[q] = "down"
        /\ q # p => state'[q] \in {state[q], "lost"} /\ (q \notin Table => state'[q] = state[q])
  BY <1>2, <1>5
<1>7. DriverTypeOK'
  <2>1. state' \in [PoolIds -> PoolStates]
    BY <1>0, <1>2, <1>5, <1>6 DEF DriverTypeOK, PoolStates
  <2>2. replicas' \in [PoolIds -> Nat]
    BY <1>0, <1>2 DEF DriverTypeOK
  <2> QED
    BY <1>0, <1>1, <1>3, <2>1, <2>2, EndOfCall, BuryTypes DEF DriverTypeOK
<1>8. ServesSomething'
  BY <1>0, <1>2, <1>5, <1>6 DEF ServesSomething, Sound, DriverTypeOK
<1>9. \A q \in Table' : q \in Table
  BY <1>1, <1>5
<1>10. \A q \in PoolIds : state'[q] = "free" => q \in dead \/ state[q] = "free"
  BY <1>6
<1>11. \A q \in PoolIds \ (Table \cup dead) : state[q] = "starting" /\ q # p => state'[q] = "starting"
  BY <1>6
<1>12. \A q \in dead : q \notin Table' /\ \A d \in Calls \ {c} : pool[d] # q
  BY <1>1, <1>4
<1>13. SameCalls(c) /\ at'[c] \notin {"loading", "shrinking"} /\ pool'[c] = NoPool
  BY <1>0, EndOfCall
<1> QED
  BY <1>1, <1>3, <1>5, <1>7, <1>8, <1>9, <1>10, <1>11, <1>12, <1>13, CallMoves

LEMMA CloseNextKeepsSound ==
  ASSUME Sound, NEW c \in Calls, CloseNext(c)
  PROVE  Sound'
<1> DEFINE p    == pool[c]
           next == First(Table \ seen[c])
<1>0. DriverTypeOK /\ ~(Table \subseteq seen[c])
  BY DEF Sound, CloseNext
<1>1. next \in Table \ seen[c]
  BY <1>0, FirstIsElement
<1>2. /\ replicas' = [replicas EXCEPT ![p] = 0]
      /\ state' = [state EXCEPT ![p] = "down",
                                ![next] = IF @ = "down" THEN @ ELSE "closing"]
      /\ pool' = [pool EXCEPT ![c] = next]
      /\ UNCHANGED <<pools, model, at, subject, known>> /\ at[c] = "closing_all"
  BY DEF CloseNext
<1> HIDE DEF next
<1>3. next \in PoolIds /\ Table' = Table
  BY <1>0, <1>1, <1>2, TableInPools DEF Table
<1>4. /\ state' \in [PoolIds -> PoolStates]
      /\ \A q \in PoolIds : /\ q \in {p, next} => state'[q] \in {"down", "closing"}
                            /\ q \notin {p, next} => state'[q] = state[q]
  BY <1>0, <1>2, <1>3 DEF DriverTypeOK, PoolStates
<1>5. DriverTypeOK'
  BY <1>0, <1>2, <1>3, <1>4 DEF DriverTypeOK
<1>6. SameCalls(c) /\ pool'[c] \in Table' /\ at'[c] = "closing_all"
  BY <1>0, <1>1, <1>2, <1>3 DEF SameCalls, DriverTypeOK
<1>7. ServesSomething'
  BY <1>0, <1>2, <1>4 DEF ServesSomething, Sound, DriverTypeOK
<1>8. \A i, j \in DOMAIN pools' : model[pools'[i]] = model[pools'[j]] => i = j
  BY <1>2 DEF Sound, OneEntryPerModel
<1>9. Bury({})
  BY <1>0, <1>2, BuryTypes
<1>10. \A q \in PoolIds : /\ state'[q] = "free" => state[q] = "free"
                          /\ q \notin Table /\ q # p => state'[q] = state[q]
  BY <1>1, <1>4
<1> QED
  BY <1>3, <1>5, <1>6, <1>7, <1>8, <1>9, <1>10, CallMoves

LEMMA CloseLastKeepsSound ==
  ASSUME Sound, NEW c \in Calls, CloseLast(c)
  PROVE  Sound'
<1> DEFINE p    == pool[c]
           left == IF Len(pools) # Cardinality(known[c]) THEN pools ELSE <<>>
           dead == {q \in Table \cup {p} : (q = p \/ state[q] = "down")
                      /\ Forgotten(q, {left[i] : i \in DOMAIN left}, c)} \cap PoolIds
<1>0. DriverTypeOK /\ EndCall(c) /\ pools' = left
  BY DEF Sound, CloseLast
<1>1. left \in {pools, <<>>}
  OBVIOUS
<1>2. /\ pools' \in Seq(PoolIds) /\ Table' \subseteq Table
      /\ \A i, j \in DOMAIN pools' : model[pools'[i]] = model[pools'[j]] => i = j
  BY <1>0, <1>1 DEF Sound, DriverTypeOK, OneEntryPerModel, Table
<1>3. /\ state' = [q \in PoolIds |-> IF q \in dead THEN "free"
                                     ELSE IF q = p THEN "down" ELSE state[q]]
      /\ replicas' = [replicas EXCEPT ![p] = 0] /\ Bury(dead)
  BY DEF CloseLast, Bury
<1>4. \A q \in dead : q \notin Table' /\ \A d \in Calls \ {c} : pool[d] # q
  BY <1>0 DEF Forgotten, Table
<1>5. dead \subseteq Table \cup {p} /\ dead \in SUBSET PoolIds
  OBVIOUS
<1> HIDE DEF dead, left
<1>6. \A q \in PoolIds : /\ q \in dead => state'[q] = "free"
                         /\ q \notin dead /\ q = p => state'[q] = "down"
                         /\ q \notin dead /\ q # p => state'[q] = state[q]
  BY <1>3
<1>7. DriverTypeOK'
  <2>1. state' \in [PoolIds -> PoolStates]
    BY <1>0, <1>3 DEF DriverTypeOK, PoolStates
  <2>2. replicas' \in [PoolIds -> Nat]
    BY <1>0, <1>3 DEF DriverTypeOK
  <2> QED
    BY <1>0, <1>2, <1>3, <2>1, <2>2, EndOfCall, BuryTypes DEF DriverTypeOK
<1>8. ServesSomething'
  BY <1>0, <1>3, <1>6 DEF ServesSomething, Sound, DriverTypeOK
<1>9. SameCalls(c) /\ at'[c] \notin {"loading", "shrinking"} /\ pool'[c] = NoPool
  BY <1>0, EndOfCall
<1>10. /\ \A q \in PoolIds : state'[q] = "free" => q \in dead \/ state[q] = "free"
       /\ \A q \in PoolIds \ (Table \cup dead) :
            state[q] = "starting" /\ q # p => state'[q] = "starting"
  BY <1>6
<1> QED
  BY <1>2, <1>3, <1>4, <1>5, <1>7, <1>8, <1>9, <1>10, CallMoves

\* Background scaling, Ray, and steps of others leave the calls alone.
LEMMA ScalingKeepsSound ==
  ASSUME Sound,
         \/ UNCHANGED driverVars
         \/ \E p \in PoolIds : ScaleBegins(p) \/ ScaleBuilt(p) \/ ScaleIdles(p)
                                 \/ ScaleFails(p) \/ PlaceActor(p)
  PROVE  Sound'
<1>0. DriverTypeOK /\ Held
  BY DEF Sound
<1>1. /\ UNCHANGED <<pools, model, state, at, subject, pool, known>>
      /\ replicas' \in [PoolIds -> Nat]
      /\ \A q \in PoolIds : replicas'[q] = replicas[q] \/ replicas'[q] = replicas[q] + 1
  <2>1. CASE UNCHANGED driverVars
    BY <1>0, <2>1 DEF driverVars, poolObjVars, driverCallVars, DriverTypeOK
  <2>2. CASE \E p \in PoolIds : ScaleBuilt(p)
    <3>1. PICK p \in PoolIds : /\ replicas' = [replicas EXCEPT ![p] = @ + 1]
                               /\ UNCHANGED <<pools, model, state, driverCallVars>>
      BY <2>2 DEF ScaleBuilt
    <3> QED
      BY <1>0, <3>1 DEF driverCallVars, DriverTypeOK
  <2>3. CASE \E p \in PoolIds : ScaleBegins(p) \/ ScaleIdles(p) \/ ScaleFails(p) \/ PlaceActor(p)
    BY <1>0, <2>3 DEF ScaleBegins, ScaleIdles, ScaleFails, PlaceActor, driverCallVars,
                      DriverTypeOK
  <2> QED
    BY <2>1, <2>2, <2>3
<1>2. DriverTypeOK'
  BY <1>0, <1>1 DEF DriverTypeOK
<1>3. ServesSomething'
  <2>1. \A q \in PoolIds : replicas[q] \in Nat
    BY <1>0 DEF DriverTypeOK
  <2> QED
    BY <1>1, <2>1 DEF ServesSomething, Sound
<1>4. (OneEntryPerModel /\ Held)'
  BY <1>1 DEF Sound, Held, OneEntryPerModel, FreeIsUnused, LoadsItsOwn, ShrinksByPlan, Table,
              HasPlan, EvenShare, PerModel
<1> QED
  BY <1>2, <1>3, <1>4 DEF Sound

LEMMA CollectKeepsSound ==
  ASSUME Sound, NEW p \in PoolIds, Collect(p)
  PROVE  Sound'
<1>0. /\ DriverTypeOK /\ p \notin Table /\ (\A d \in Calls : pool[d] # p) /\ Bury({p})
      /\ state' = [state EXCEPT ![p] = "free"] /\ replicas' = [replicas EXCEPT ![p] = 0]
      /\ UNCHANGED <<pools, at, subject, pool, known>> /\ state[p] # "starting"
  BY DEF Sound, Collect, driverCallVars
<1>1. Table' = Table /\ Nobody \notin Calls
  BY <1>0, DriverConstants DEF Table
<1>2. DriverTypeOK'
  BY <1>0, BuryTypes DEF DriverTypeOK, PoolStates
<1>3. ServesSomething'
  BY <1>0 DEF ServesSomething, Sound, DriverTypeOK
<1>4. \A q \in PoolIds : /\ state'[q] = "free" => q = p \/ state[q] = "free"
                         /\ state[q] = "starting" => state'[q] = "starting"
  BY <1>0 DEF DriverTypeOK
<1>5. SameCalls(Nobody)
  BY <1>0 DEF SameCalls
<1>6. \A i, j \in DOMAIN pools' : model[pools'[i]] = model[pools'[j]] => i = j
  BY <1>0 DEF Sound, OneEntryPerModel
<1> QED
  BY <1>0, <1>1, <1>2, <1>3, <1>4, <1>5, <1>6, CallMoves

-----------------------------------------------------------------------------

LEMMA NextKeepsSound == Sound /\ [DriverNext]_driverVars => Sound'
<1> SUFFICES ASSUME Sound, [DriverNext]_driverVars PROVE Sound'
  OBVIOUS
<1>1. CASE \E c \in Calls, m \in Models :
             initialize(c, m) \/ \E n \in Explicit : initialize_explicit(c, m, n)
  BY <1>1, LoadsKeepSound
<1>2. CASE \E c \in Calls, m \in Models : shutdown(c, m) \/ shutdown_all(c)
  BY <1>2, ShutdownKeepsSound
<1>3. CASE \E c \in Calls : shutdown_all(c)
  BY <1>3, ShutdownKeepsSound, DriverConstants
<1>4. CASE \E c \in Calls : DriverCallStep(c) \/ LoadFails(c)
  BY <1>4, ShrinkOneKeepsSound, ShrinkDoneKeepsSound, ShrinkRaisesKeepsSound,
     LoadDoneKeepsSound, CloseDoneKeepsSound, CloseNextKeepsSound, CloseLastKeepsSound,
     LoadFailsKeepsSound DEF DriverCallStep
<1>5. CASE \E p \in PoolIds : PoolStep(p) \/ PlaceActor(p) \/ ScaleFails(p)
  BY <1>5, ScalingKeepsSound, CollectKeepsSound DEF PoolStep
<1>6. CASE UNCHANGED driverVars
  BY <1>6, ScalingKeepsSound
<1> QED
  BY <1>1, <1>2, <1>3, <1>4, <1>5, <1>6 DEF DriverNext

LEMMA InitSound == DriverInit => Sound
<1> SUFFICES ASSUME DriverInit PROVE Sound
  OBVIOUS
<1>1. AnyModel \in Models
  BY DriverConstants DEF AnyModel
<1>2. DriverTypeOK
  BY <1>1, EmptySeq DEF DriverInit, DriverTypeOK, PoolStates, CallStates
<1>3. Table = {} /\ DOMAIN pools = {}
  BY DEF DriverInit, Table
<1>4. FreeIsUnused
  BY <1>3, DriverConstants DEF DriverInit, FreeIsUnused
<1>5. LoadsItsOwn /\ ShrinksByPlan
  BY DEF DriverInit, LoadsItsOwn, ShrinksByPlan
<1>6. OneEntryPerModel /\ ServesSomething
  BY <1>3 DEF DriverInit, OneEntryPerModel, ServesSomething
<1> QED
  BY <1>2, <1>4, <1>5, <1>6 DEF Sound, Held

LEMMA AlwaysSound == DriverSpec => []Sound
BY InitSound, NextKeepsSound, PTL DEF DriverSpec

(***************************************************************************)
(* Whatever loads, shutdowns, failures and background scaling overlap, for *)
(* any models and GPUs: a model that is served keeps a replica.            *)
(***************************************************************************)
THEOREM ServedModelsKeepReplicas == DriverSpec => []NeverEmptied
<1>1. Sound => NeverEmptied
  BY TableInPools DEF Sound, NeverEmptied, ServesSomething
<1> QED
  BY <1>1, AlwaysSound, PTL

(***************************************************************************)
(* _pools has at most one pool per model, and a pool that a load builds    *)
(* enters it for the model of that load and no other.                      *)
(***************************************************************************)
THEOREM TableIsADict == DriverSpec => [](DriverTypeOK /\ OneEntryPerModel /\ LoadsItsOwn)
<1>1. Sound => DriverTypeOK /\ OneEntryPerModel /\ LoadsItsOwn
  BY DEF Sound, Held
<1> QED
  BY <1>1, AlwaysSound, PTL

-----------------------------------------------------------------------------
(***************************************************************************)
(* While all calls wait their turn.  First what holds in any case.         *)
(***************************************************************************)
ScalingTypeOK ==
  /\ target \in [PoolIds -> Nat] /\ building \in [PoolIds -> BOOLEAN]
  /\ seen \in [Calls -> SUBSET PoolIds] /\ hasty \in Nat

\* An actor is built by a task whose target is not reached.
BuildingByTask == \A p \in PoolIds : building[p] => target[p] > replicas[p]

\* A pool that is not in use or not up yet has no task.
FreshIdle == \A p \in PoolIds : state[p] \in {"free", "starting"} => target[p] = 0

GoneIsEmpty == \A p \in PoolIds : state[p] \in {"free", "down"} => replicas[p] = 0

StartingIsLoaded ==
  \A p \in PoolIds : state[p] = "starting" =>
    \E c \in Calls : at[c] = "loading" /\ pool[c] = p

Tidy == ScalingTypeOK /\ BuildingByTask /\ FreshIdle /\ GoneIsEmpty /\ StartingIsLoaded

Loaders == {c \in Calls : at[c] = "loading"}

\* The models that share the GPUs: those of the table and the one being loaded.
Sharers == LoadedModels \cup {subject[c] : c \in Loaders}

OneAtATime ==
  \A c, d \in Calls :
    at[c] \in {"shrinking", "loading", "closing_all"} /\ c # d => at[d] = "idle"

\* Nothing scales during a load, and its model is new.
LoadsAlone ==
  \A c \in Calls : at[c] \in {"shrinking", "loading"} =>
    /\ \A p \in PoolIds : target[p] = 0
    /\ subject[c] \notin LoadedModels
    /\ at[c] = "shrinking" => known[c] = LoadedModels \cup {subject[c]}

\* The pool a call shuts down is the one of its model, or another call was faster.
ClosesItsOwn ==
  \A c \in Calls : at[c] = "closing" =>
    /\ pool[c] \in PoolIds /\ model[pool[c]] = subject[c]
    /\ pool[c] \in Table \/ subject[c] \notin LoadedModels

OutOfTable ==
  \A p \in PoolIds \ Table : state[p] \in {"free", "starting", "down"}

\* The pools the loop over _pools has passed fit their share by the plan.
ShrunkSoFar ==
  \A c \in Calls : at[c] = "shrinking" =>
    \A p \in (seen[c] \cap Table) \ {pool[c]} : ~Exceeds(p, known[c])

ClosedSoFar ==
  \A c \in Calls : at[c] = "closing_all" =>
    \A p \in (seen[c] \cap Table) \ {pool[c]} : state[p] = "down"

\* No pool asks for more than its share, now or when its task is done.
WithinShare ==
  \A p \in PoolIds : (p \in Table \/ state[p] = "starting") /\ state[p] # "down" =>
    /\ Asked(p) <= EvenShare(Sharers, model[p])
    /\ target[p] <= EvenShare(Sharers, model[p])

Shared ==
  /\ OneAtATime /\ LoadsAlone /\ ClosesItsOwn /\ OutOfTable
  /\ ShrunkSoFar /\ ClosedSoFar /\ WithinShare

InTurn == Sound /\ Tidy /\ (hasty = 0 => Shared)

\* Numbering the T GPUs of each of E actors.
LEMMA SlotNumbers ==
  ASSUME NEW T \in Nat \ {0}, NEW i \in Nat \ {0}, NEW g \in 1 .. T
  PROVE  /\ (i - 1) * T + g \in Nat \ {0}
         /\ \A e \in Nat : i <= e => (i - 1) * T + g <= e * T
         /\ \A j \in Nat \ {0}, h \in 1 .. T :
              (i - 1) * T + g = (j - 1) * T + h => i = j /\ g = h
<1> DEFINE place(k) == (k - 1) * T
<1>1. \A k \in Nat \ {0} : place(k) \in Nat /\ k * T = place(k) + T
  <2> SUFFICES ASSUME NEW k \in Nat \ {0} PROVE place(k) \in Nat /\ k * T = place(k) + T
    OBVIOUS
  <2>1. k - 1 \in Nat /\ (k - 1) + 1 = k
    OBVIOUS
  <2> QED
    BY <2>1, TimesNext
<1>2. \A k, e \in Nat \ {0} : k <= e => place(k) + T <= e * T
  BY <1>1, TimesMonotonic
<1>3. \A k, e \in Nat \ {0} : k < e => place(k) + T <= place(e)
  <2> SUFFICES ASSUME NEW k \in Nat \ {0}, NEW e \in Nat \ {0}, k < e
               PROVE  place(k) + T <= place(e)
    OBVIOUS
  <2>1. k \in Nat /\ e - 1 \in Nat /\ k <= e - 1
    OBVIOUS
  <2>2. k * T <= (e - 1) * T
    BY <2>1, TimesMonotonic
  <2> QED
    BY <1>1, <2>2
<1> HIDE DEF place
<1>4. place(i) + g \in Nat \ {0}
  BY <1>1
<1>5. \A e \in Nat : i <= e => place(i) + g <= e * T
  <2> SUFFICES ASSUME NEW e \in Nat, i <= e PROVE place(i) + g <= e * T
    OBVIOUS
  <2>1. place(i) + T <= e * T /\ place(i) \in Nat
    BY <1>1, <1>2
  <2> QED
    BY <2>1
<1>6. ASSUME NEW j \in Nat \ {0}, NEW h \in 1 .. T, place(i) + g = place(j) + h
      PROVE  i = j /\ g = h
  <2>1. place(i) \in Nat /\ place(j) \in Nat
    BY <1>1
  <2>2. ~(i < j)
    BY <1>3, <1>6, <2>1
  <2>3. ~(j < i)
    BY <1>3, <1>6, <2>1
  <2> QED
    BY <1>6, <2>1, <2>2, <2>3
<1> QED
  BY <1>4, <1>5, <1>6 DEF place

LEMMA SharersInModels ==
  ASSUME DriverTypeOK
  PROVE  LoadedModels \in SUBSET Models /\ Sharers \in SUBSET Models
BY TableInPools DEF LoadedModels, Sharers, Loaders, DriverTypeOK

\* The pools that have GPUs are of different models.
LEMMA OnePoolPerSharer ==
  ASSUME Sound, Tidy, Shared, NEW p \in PoolIds, p \in Table \/ state[p] = "starting"
  PROVE  /\ model[p] \in Sharers
         /\ \A q \in PoolIds : (q \in Table \/ state[q] = "starting") /\ model[q] = model[p]
                                 => q = p
<1>1. ASSUME NEW q \in PoolIds, state[q] = "starting"
      PROVE  \E c \in Loaders : /\ pool[c] = q /\ model[q] = subject[c]
                                /\ subject[c] \notin LoadedModels
  BY <1>1 DEF Sound, Held, LoadsItsOwn, Tidy, StartingIsLoaded, Shared, LoadsAlone, Loaders
<1>2. \A c, d \in Loaders : c = d
  BY DEF Shared, OneAtATime, Loaders
<1>3. \A q, r \in Table : model[q] = model[r] => q = r
  BY DEF Sound, OneEntryPerModel, Table
<1>4. \A q \in Table : model[q] \in LoadedModels
  BY DEF LoadedModels
<1>5. model[p] \in Sharers
  BY <1>1, <1>4 DEF Sharers
<1>6. ASSUME NEW q \in PoolIds, q \in Table \/ state[q] = "starting", model[q] = model[p]
      PROVE  q = p
  <2>1. CASE p \in Table /\ q \in Table
    BY <1>3, <1>6, <2>1
  <2>2. CASE p \in Table /\ state[q] = "starting"
    BY <1>1, <1>4, <1>6, <2>2
  <2>3. CASE state[p] = "starting" /\ q \in Table
    BY <1>1, <1>4, <1>6, <2>3
  <2>4. CASE state[p] = "starting" /\ state[q] = "starting"
    BY <1>1, <1>2, <2>4
  <2> QED
    BY <1>6, <2>1, <2>2, <2>3, <2>4
<1> QED
  BY <1>5, <1>6

\* Pools within their shares fit the GPUs.
LEMMA SharesFit ==
  ASSUME Sound, Tidy, Shared
  PROVE  GpusOf([p \in PoolIds |-> IF state[p] = "down" THEN 0 ELSE Asked(p)]) <= TotalGpus
<1> DEFINE count == [p \in PoolIds |-> IF state[p] = "down" THEN 0 ELSE Asked(p)]
           size(p) == Tp[model[p]]
           slots == UNION {{p} \X (1 .. count[p]) \X (1 .. size(p)) : p \in PoolIds}
           places == Sharers \X (1 .. PerModel(Sharers))
           number == [s \in slots |-> <<model[s[1]], (s[2] - 1) * size(s[1]) + s[3]>>]
<1>0. /\ DriverTypeOK /\ ScalingTypeOK /\ BuildingByTask /\ FreshIdle /\ GoneIsEmpty
      /\ OutOfTable /\ WithinShare
  BY DEF Sound, Tidy, Shared
<1>1. \A p \in PoolIds : size(p) \in Nat \ {0} /\ count[p] \in Nat /\ model[p] \in Models
  BY <1>0, DriverConstants DEF DriverTypeOK, ScalingTypeOK, Asked
<1>2. ASSUME NEW p \in PoolIds, count[p] # 0
      PROVE  /\ p \in Table \/ state[p] = "starting"
             /\ count[p] <= EvenShare(Sharers, model[p])
  <2>1. state[p] # "down" /\ Asked(p) # 0 /\ count[p] = Asked(p)
    BY <1>2
  <2>2. state[p] # "free"
    <3>1. state[p] = "free" => replicas[p] = 0 /\ target[p] = 0
      BY <1>0 DEF FreshIdle, GoneIsEmpty
    <3> QED
      BY <1>0, <2>1, <3>1 DEF BuildingByTask, Asked
  <2>3. p \in Table \/ state[p] = "starting"
    BY <1>0, <2>1, <2>2 DEF OutOfTable
  <2> QED
    BY <1>0, <2>1, <2>3 DEF WithinShare
<1>3. ASSUME NEW s \in slots
      PROVE  /\ s[1] \in PoolIds /\ s[2] \in 1 .. count[s[1]] /\ s[3] \in 1 .. size(s[1])
             /\ s = <<s[1], s[2], s[3]>>
  <2>1. PICK p \in PoolIds : s \in {p} \X (1 .. count[p]) \X (1 .. size(p))
    BY <1>3
  <2> HIDE DEF count, size
  <2> QED
    BY <2>1
<1> HIDE DEF count, slots
<1>4. \A s \in slots : /\ s[1] \in Table \/ state[s[1]] = "starting"
                       /\ s[2] \in Nat \ {0} /\ s[2] <= EvenShare(Sharers, model[s[1]])
  <2> SUFFICES ASSUME NEW s \in slots
               PROVE  /\ s[1] \in Table \/ state[s[1]] = "starting"
                      /\ s[2] \in Nat \ {0} /\ s[2] <= EvenShare(Sharers, model[s[1]])
    OBVIOUS
  <2>1. s[1] \in PoolIds /\ s[2] \in 1 .. count[s[1]] /\ count[s[1]] \in Nat
    BY <1>1, <1>3
  <2>2. EvenShare(Sharers, model[s[1]]) \in Nat
    <3>1. count[s[1]] # 0
      BY <2>1
    <3>2. model[s[1]] \in Sharers /\ model[s[1]] \in Models
      BY <1>1, <1>2, <2>1, <3>1, OnePoolPerSharer
    <3> QED
      BY <1>0, <3>2, SharersInModels, ShareIsNatural
  <2>3. /\ s[1] \in Table \/ state[s[1]] = "starting"
        /\ count[s[1]] <= EvenShare(Sharers, model[s[1]])
    BY <1>2, <2>1
  <2> QED
    BY <2>1, <2>2, <2>3
<1>5. CASE Sharers = {}
  <2>1. slots = {}
    BY <1>3, <1>4, <1>5, OnePoolPerSharer
  <2> QED
    BY <2>1, FS_EmptySet, DriverConstants DEF GpusOf, slots, count
<1>6. CASE Sharers # {}
  <2>1. /\ IsFiniteSet(Sharers) /\ Cardinality(Sharers) \in Nat \ {0}
        /\ PerModel(Sharers) \in Nat /\ TotalGpus \in Nat
        /\ Cardinality(Sharers) * PerModel(Sharers) <= TotalGpus
    <3>1. IsFiniteSet(Sharers) /\ TotalGpus \in Nat
      BY <1>0, SharersInModels, FS_Subset, DriverConstants
    <3>2. Cardinality(Sharers) \in Nat \ {0}
      BY <1>6, <3>1, FS_CardinalityType, FS_EmptySet
    <3>3. /\ PerModel(Sharers) \in Nat
          /\ PerModel(Sharers) * Cardinality(Sharers) <= TotalGpus
      BY <3>1, <3>2, DivTimes DEF PerModel
    <3> QED
      BY <3>1, <3>2, <3>3, TimesCommute
  <2>2. \A s \in slots : number[s] \in places
    <3> SUFFICES ASSUME NEW s \in slots PROVE number[s] \in places
      OBVIOUS
    <3>1. /\ s[1] \in PoolIds /\ s[2] \in Nat \ {0} /\ s[3] \in 1 .. size(s[1])
          /\ model[s[1]] \in Sharers /\ size(s[1]) \in Nat \ {0} /\ model[s[1]] \in Models
          /\ s[2] <= EvenShare(Sharers, model[s[1]])
      BY <1>1, <1>3, <1>4, OnePoolPerSharer
    <3>2. EvenShare(Sharers, model[s[1]]) \in Nat
      BY <1>0, <3>1, SharersInModels, ShareIsNatural
    <3>3. EvenShare(Sharers, model[s[1]]) * size(s[1]) <= PerModel(Sharers)
      BY <2>1, <3>1, DivTimes DEF EvenShare
    <3> DEFINE k == (s[2] - 1) * size(s[1]) + s[3]
    <3>4. k \in Nat \ {0} /\ k <= EvenShare(Sharers, model[s[1]]) * size(s[1])
      <4> HIDE DEF size
      <4>1. size(s[1]) \in Nat \ {0} /\ s[2] \in Nat \ {0} /\ s[3] \in 1 .. size(s[1])
        BY <3>1
      <4>2. /\ k \in Nat \ {0}
            /\ \A e \in Nat : s[2] <= e => k <= e * size(s[1])
        BY <4>1, SlotNumbers
      <4> HIDE DEF k
      <4>3. s[2] <= EvenShare(Sharers, model[s[1]])
        BY <3>1
      <4> QED
        BY <3>2, <4>2, <4>3, Zenon
    <3>5. EvenShare(Sharers, model[s[1]]) * size(s[1]) \in Nat
      BY <3>1, <3>2
    <3> HIDE DEF k, size
    <3>6. k \in 1 .. PerModel(Sharers)
      BY <2>1, <3>3, <3>4, <3>5
    <3> QED
      BY <3>1, <3>6 DEF k
  <2>3. ASSUME NEW s \in slots, NEW t \in slots, number[s] = number[t]
        PROVE  s = t
    <3>1. /\ s[1] \in PoolIds /\ t[1] \in PoolIds /\ model[s[1]] = model[t[1]]
          /\ s[1] \in Table \/ state[s[1]] = "starting"
          /\ t[1] \in Table \/ state[t[1]] = "starting"
      BY <1>3, <1>4, <2>3
    <3>2. s[1] = t[1]
      BY <3>1, OnePoolPerSharer
    <3>3. (s[2] - 1) * size(s[1]) + s[3] = (t[2] - 1) * size(s[1]) + t[3]
      BY <2>3, <3>2
    <3>4. /\ size(s[1]) \in Nat \ {0} /\ s[2] \in Nat \ {0} /\ t[2] \in Nat \ {0}
          /\ s[3] \in 1 .. size(s[1]) /\ t[3] \in 1 .. size(s[1])
      BY <1>1, <1>3, <1>4, <3>1, <3>2
    <3>5. s[2] = t[2] /\ s[3] = t[3]
      <4> DEFINE T == size(s[1])
                 i == s[2]
                 g == s[3]
                 j == t[2]
                 h == t[3]
      <4>1. /\ T \in Nat \ {0} /\ i \in Nat \ {0} /\ j \in Nat \ {0}
            /\ g \in 1 .. T /\ h \in 1 .. T
        BY <3>4
      <4>2. (i - 1) * T + g = (j - 1) * T + h
        BY <3>3
      <4> HIDE DEF T, i, g, j, h
      <4>3. i = j /\ g = h
        BY <4>1, <4>2, SlotNumbers
      <4> QED
        BY <4>3 DEF i, g, j, h
    <3> QED
      BY <1>3, <3>2, <3>5
  <2> HIDE DEF number, places
  <2>4. number \in [slots -> places]
    BY <2>2 DEF number
  <2>5. number \in Injection(slots, places)
    BY <2>3, <2>4 DEF Injection, IsInjective
  <2>6. /\ IsFiniteSet(1 .. PerModel(Sharers))
        /\ Cardinality(1 .. PerModel(Sharers)) = PerModel(Sharers)
    BY <2>1, FS_Interval
  <2>7. /\ IsFiniteSet(places)
        /\ Cardinality(places) = Cardinality(Sharers) * PerModel(Sharers)
    BY <2>1, <2>6, FS_Product DEF places
  <2>8. IsFiniteSet(slots) /\ Cardinality(slots) <= Cardinality(places)
    BY <2>5, <2>7, FS_Injection
  <2>9. Cardinality(slots) \in Nat /\ Cardinality(places) \in Nat
    BY <2>7, <2>8, FS_CardinalityType
  <2>10. Cardinality(slots) <= TotalGpus
    BY <2>1, <2>7, <2>8, <2>9
  <2> QED
    BY <2>10 DEF GpusOf, slots, count
<1> QED
  BY <1>5, <1>6

\* The fewer models, the larger the shares.
LEMMA SharesGrow ==
  ASSUME NEW N \in SUBSET Models, NEW M \in SUBSET N, M # {}, NEW m \in Models
  PROVE  /\ EvenShare(N, m) \in Nat /\ EvenShare(M, m) \in Nat
         /\ EvenShare(N, m) <= EvenShare(M, m)
<1>1. IsFiniteSet(N) /\ TotalGpus \in Nat /\ Tp[m] \in Nat \ {0}
  BY DriverConstants, FS_Subset
<1>2. IsFiniteSet(M) /\ Cardinality(M) <= Cardinality(N)
  BY <1>1, FS_Subset
<1>3. Cardinality(M) \in Nat \ {0} /\ Cardinality(N) \in Nat \ {0}
  BY <1>1, <1>2, FS_CardinalityType, FS_EmptySet
<1>4. PerModel(N) \in Nat /\ PerModel(M) \in Nat /\ PerModel(N) <= PerModel(M)
  BY <1>1, <1>2, <1>3, DivAntitone, DivTimes DEF PerModel
<1>5. EvenShare(N, m) <= EvenShare(M, m)
  BY <1>1, <1>4, DivMonotonic DEF EvenShare
<1> QED
  BY <1>5, ShareIsNatural

\* A step of the scaling of pool p: it does not ask for more than its task is for.
LEMMA ScaleStep ==
  ASSUME InTurn, NEW p \in PoolIds, UNCHANGED <<pools, model, state, at, subject, pool, seen, known>>,
         \A q \in PoolIds \ {p} : /\ target'[q] = target[q] /\ building'[q] = building[q]
                                  /\ replicas'[q] = replicas[q],
         ScalingTypeOK', replicas' \in [PoolIds -> Nat],
         building'[p] => target'[p] > replicas'[p],
         target'[p] <= target[p],
         state[p] = "down" => replicas'[p] = replicas[p],
         replicas'[p] > replicas[p] => target[p] > 0,
         Asked(p)' <= Asked(p) \/ Asked(p)' <= target[p],
         hasty' = 0 => hasty = 0
  PROVE  (Tidy /\ (hasty = 0 => Shared))'
<1>0. Tidy /\ DriverTypeOK
  BY DEF InTurn, Sound
<1>1. target[p] \in Nat /\ target'[p] \in Nat /\ Asked(p) \in Nat /\ Asked(p)' \in Nat
  BY <1>0 DEF Tidy, ScalingTypeOK, Asked, DriverTypeOK
<1>2. BuildingByTask' /\ StartingIsLoaded' /\ FreshIdle' /\ GoneIsEmpty'
  <2>1. BuildingByTask'
    BY <1>0 DEF Tidy, BuildingByTask
  <2>2. StartingIsLoaded'
    BY <1>0 DEF Tidy, StartingIsLoaded
  <2>3. FreshIdle'
    BY <1>0, <1>1 DEF Tidy, FreshIdle
  <2>4. GoneIsEmpty'
    <3>1. ASSUME state[p] \in {"free", "down"} PROVE replicas'[p] = 0
      <4>1. replicas[p] = 0 /\ replicas'[p] \in Nat /\ (state[p] = "free" => target[p] = 0)
        BY <1>0, <3>1 DEF Tidy, GoneIsEmpty, FreshIdle
      <4> QED
        BY <3>1, <4>1
    <3> QED
      BY <1>0, <3>1 DEF Tidy, GoneIsEmpty
  <2> QED
    BY <2>1, <2>2, <2>3, <2>4
<1>3. ASSUME hasty' = 0 PROVE Shared'
  <2>1. Shared
    BY <1>3 DEF InTurn
  <2>2. /\ Table' = Table /\ LoadedModels' = LoadedModels /\ Loaders' = Loaders
        /\ Sharers' = Sharers
    BY DEF Table, LoadedModels, Loaders, Sharers
  <2>3. OneAtATime' /\ ClosesItsOwn' /\ OutOfTable' /\ ClosedSoFar'
    BY <2>1, <2>2 DEF Shared, OneAtATime, ClosesItsOwn, OutOfTable, ClosedSoFar
  <2>4. LoadsAlone'
    BY <1>1, <2>1, <2>2 DEF Shared, LoadsAlone
  <2>5. ShrunkSoFar'
    <3> SUFFICES ASSUME NEW c \in Calls, at[c] = "shrinking",
                        NEW q \in (seen[c] \cap Table) \ {pool[c]}
                 PROVE  ~Exceeds(q, known[c])'
      BY <2>2 DEF ShrunkSoFar
    <3>1. ~Exceeds(q, known[c]) /\ q \in PoolIds
      BY <1>0, <2>1, TableInPools DEF Shared, ShrunkSoFar
    <3>2. target[p] = 0
      BY <2>1 DEF Shared, LoadsAlone
    <3>3. replicas'[q] <= replicas[q]
      <4>1. replicas[q] \in Nat /\ replicas'[q] \in Nat
        BY <1>0, <3>1 DEF DriverTypeOK
      <4> QED
        BY <3>1, <3>2, <4>1
    <3>4. EvenShare(known[c], model[q]) \in Nat /\ replicas[q] \in Nat /\ replicas'[q] \in Nat
      <4>1. known[c] # {} /\ known[c] \in SUBSET Models /\ model[q] \in Models
        BY <1>0, <2>1, <3>1 DEF Shared, LoadsAlone, DriverTypeOK
      <4> QED
        BY <1>0, <3>1, <4>1, ShareIsNatural DEF DriverTypeOK
    <3>5. ~(replicas'[q] > EvenShare(known[c], model[q]))
      BY <3>1, <3>3, <3>4 DEF Exceeds
    <3> QED
      BY <3>5 DEF Exceeds, EvenShare, PerModel
  <2>6. WithinShare'
    <3> SUFFICES ASSUME NEW q \in PoolIds, q \in Table \/ state[q] = "starting",
                        state[q] # "down"
                 PROVE  /\ Asked(q)' <= EvenShare(Sharers, model[q])
                        /\ target'[q] <= EvenShare(Sharers, model[q])
      BY <2>2 DEF WithinShare, EvenShare, PerModel
    <3>1. /\ Asked(q) <= EvenShare(Sharers, model[q])
          /\ target[q] <= EvenShare(Sharers, model[q])
      BY <2>1 DEF Shared, WithinShare
    <3>2. EvenShare(Sharers, model[q]) \in Nat
      <4>1. model[q] \in Sharers /\ model[q] \in Models
        BY <1>0, <2>1, OnePoolPerSharer DEF InTurn, DriverTypeOK
      <4> QED
        BY <1>0, <4>1, SharersInModels, ShareIsNatural
    <3>3. CASE q = p
      BY <1>1, <3>1, <3>2, <3>3
    <3>4. CASE q # p
      BY <3>1, <3>4 DEF Asked
    <3> QED
      BY <3>3, <3>4
  <2> QED
    BY <2>3, <2>4, <2>5, <2>6 DEF Shared
<1> QED
  BY <1>2, <1>3 DEF Tidy

Kept == Tidy /\ (hasty = 0 => Shared)

\* A call made out of turn, or a failure, ends the claim.
LEMMA CountedCall ==
  ASSUME hasty \in Nat, NEW inTurn \in BOOLEAN, Called(inTurn)
  PROVE  hasty' \in Nat /\ (hasty' = 0 => hasty = 0 /\ inTurn)
BY DEF Called

LEMMA ScalingKeepsTurn ==
  ASSUME InTurn, NEW p \in PoolIds,
         ScaleBegins(p) \/ ScaleBuilt(p) \/ ScaleIdles(p) \/ ScaleFails(p) \/ PlaceActor(p)
  PROVE  Kept'
<1>0. /\ ScalingTypeOK /\ DriverTypeOK /\ BuildingByTask /\ FreshIdle /\ GoneIsEmpty
      /\ replicas[p] \in Nat /\ target[p] \in Nat /\ building[p] \in BOOLEAN
  BY DEF InTurn, Tidy, Sound, ScalingTypeOK, DriverTypeOK
<1>1. UNCHANGED <<pools, model, state, at, subject, pool, seen, known>>
  BY DEF ScaleBegins, ScaleBuilt, ScaleIdles, ScaleFails, PlaceActor, driverCallVars
<1>2. hasty' \in Nat /\ (hasty' = 0 => hasty = 0)
  BY <1>0, CountedCall DEF ScalingTypeOK, ScaleBegins, ScaleBuilt, ScaleIdles, ScaleFails,
                           PlaceActor
<1>3. CASE ScaleBegins(p)
  <2>1. /\ target[p] > replicas[p] /\ ~building[p]
        /\ building' = [building EXCEPT ![p] = TRUE] /\ UNCHANGED <<replicas, target>>
    BY <1>3 DEF ScaleBegins
  <2>2. ScalingTypeOK' /\ building'[p] = TRUE
    BY <1>0, <1>1, <1>2, <2>1 DEF ScalingTypeOK
  <2>3. Asked(p)' <= target[p]
    BY <1>0, <2>1, <2>2 DEF Asked
  <2>4. \A q \in PoolIds \ {p} : /\ target'[q] = target[q] /\ building'[q] = building[q]
                                  /\ replicas'[q] = replicas[q]
    BY <1>0, <2>1 DEF ScalingTypeOK
  <2>5. replicas' \in [PoolIds -> Nat] /\ replicas'[p] = replicas[p] /\ target'[p] = target[p]
    BY <1>0, <2>1 DEF DriverTypeOK
  <2>6. target'[p] > replicas'[p] /\ target'[p] <= target[p]
    BY <1>0, <2>1, <2>5
  <2> QED
    BY <1>1, <1>2, <2>2, <2>3, <2>4, <2>5, <2>6, ScaleStep DEF Kept
<1>4. CASE ScaleBuilt(p)
  <2>1. building[p] /\ target[p] > replicas[p]
    BY <1>0, <1>4 DEF ScaleBuilt, BuildingByTask
  <2>2. /\ replicas' = [replicas EXCEPT ![p] = @ + 1]
        /\ \/ replicas[p] + 1 < target[p] /\ UNCHANGED <<target, building>>
           \/ /\ target' = [target EXCEPT ![p] = 0]
              /\ building' = [building EXCEPT ![p] = FALSE]
    BY <1>4 DEF ScaleBuilt, TaskEnds
  <2>3. /\ ScalingTypeOK' /\ replicas' \in [PoolIds -> Nat] /\ replicas'[p] = replicas[p] + 1
        /\ \A q \in PoolIds \ {p} : /\ target'[q] = target[q] /\ building'[q] = building[q]
                                    /\ replicas'[q] = replicas[q]
        /\ \/ replicas[p] + 1 < target[p] /\ target'[p] = target[p]
           \/ target'[p] = 0 /\ building'[p] = FALSE
    <3>1. replicas[p] + 1 \in Nat
      BY <1>0
    <3>2. /\ replicas' \in [PoolIds -> Nat] /\ replicas'[p] = replicas[p] + 1
          /\ \A q \in PoolIds \ {p} : replicas'[q] = replicas[q]
      BY <1>0, <2>2, <3>1 DEF DriverTypeOK
    <3>3. CASE replicas[p] + 1 < target[p] /\ UNCHANGED <<target, building>>
      BY <1>0, <1>1, <1>2, <3>2, <3>3 DEF ScalingTypeOK
    <3>4. CASE /\ target' = [target EXCEPT ![p] = 0]
               /\ building' = [building EXCEPT ![p] = FALSE]
      BY <1>0, <1>1, <1>2, <3>2, <3>4 DEF ScalingTypeOK
    <3> QED
      BY <2>2, <3>3, <3>4
  <2>4. Asked(p)' <= target[p]
    BY <1>0, <2>1, <2>3 DEF Asked
  <2>5. building'[p] => target'[p] > replicas'[p]
    BY <1>0, <2>3
  <2>6. target'[p] <= target[p]
    BY <1>0, <2>3
  <2>7. target[p] > 0 /\ state[p] # "down"
    BY <1>0, <1>4, <2>1 DEF ScaleBuilt
  <2> QED
    BY <1>1, <1>2, <2>3, <2>4, <2>5, <2>6, <2>7, ScaleStep DEF Kept
<1>5. CASE ScaleIdles(p) \/ ScaleFails(p)
  <2>1. /\ target' = [target EXCEPT ![p] = 0] /\ building' = [building EXCEPT ![p] = FALSE]
        /\ UNCHANGED replicas
    BY <1>5 DEF ScaleIdles, ScaleFails, TaskEnds
  <2>2. /\ ScalingTypeOK' /\ target'[p] = 0 /\ building'[p] = FALSE
        /\ \A q \in PoolIds \ {p} : target'[q] = target[q] /\ building'[q] = building[q]
    BY <1>0, <1>1, <1>2, <2>1 DEF ScalingTypeOK
  <2>3. Asked(p)' <= Asked(p) /\ target'[p] <= target[p]
    BY <1>0, <2>1, <2>2 DEF Asked
  <2>4. replicas' \in [PoolIds -> Nat] /\ ~(replicas'[p] > replicas[p])
    BY <1>0, <2>1 DEF DriverTypeOK
  <2>5. \A q \in PoolIds \ {p} : /\ target'[q] = target[q] /\ building'[q] = building[q]
                                 /\ replicas'[q] = replicas[q]
    BY <2>1, <2>2
  <2>6. ~building'[p] /\ replicas'[p] = replicas[p]
    BY <2>1, <2>2
  <2> QED
    BY <1>1, <1>2, <2>2, <2>3, <2>4, <2>5, <2>6, ScaleStep DEF Kept
<1>6. CASE PlaceActor(p)
  <2>1. UNCHANGED <<target, building, replicas>>
    BY <1>6 DEF PlaceActor
  <2>2. ScalingTypeOK' /\ replicas' \in [PoolIds -> Nat]
    BY <1>0, <1>1, <1>2, <2>1 DEF ScalingTypeOK, DriverTypeOK
  <2>3. Asked(p)' <= Asked(p) /\ target'[p] <= target[p]
    BY <1>0, <2>1 DEF Asked
  <2> QED
    BY <1>0, <1>1, <1>2, <2>1, <2>2, <2>3, ScaleStep DEF Kept, BuildingByTask
<1> QED
  BY <1>3, <1>4, <1>5, <1>6

LEMMA CollectKeepsTurn ==
  ASSUME InTurn, NEW p \in PoolIds, Collect(p)
  PROVE  Kept'
<1>0. /\ ScalingTypeOK /\ DriverTypeOK /\ Tidy
      /\ p \notin Table /\ target[p] = 0 /\ (\A d \in Calls : pool[d] # p) /\ Bury({p})
      /\ state[p] # "starting"
      /\ state' = [state EXCEPT ![p] = "free"] /\ replicas' = [replicas EXCEPT ![p] = 0]
      /\ UNCHANGED <<pools, target, building, at, subject, pool, seen, known, hasty>>
  BY DEF InTurn, Tidy, Sound, Collect, driverCallVars
<1>1. \A q \in PoolIds \ {p} : /\ model'[q] = model[q] /\ state'[q] = state[q]
                               /\ replicas'[q] = replicas[q]
  BY <1>0 DEF Bury, DriverTypeOK
<1>2. state'[p] = "free" /\ replicas'[p] = 0
  BY <1>0 DEF DriverTypeOK
<1>3. Tidy'
  <2>1. ScalingTypeOK'
    BY <1>0 DEF ScalingTypeOK
  <2>2. ~building[p]
    BY <1>0 DEF Tidy, BuildingByTask, DriverTypeOK
  <2>3. BuildingByTask' /\ FreshIdle' /\ GoneIsEmpty'
    BY <1>0, <1>1, <1>2, <2>2 DEF Tidy, BuildingByTask, FreshIdle, GoneIsEmpty
  <2>4. StartingIsLoaded'
    BY <1>0, <1>1, <1>2 DEF Tidy, StartingIsLoaded
  <2> QED
    BY <2>1, <2>3, <2>4 DEF Tidy
<1>4. ASSUME hasty' = 0 PROVE Shared'
  <2>1. Shared
    BY <1>0, <1>4 DEF InTurn
  <2>2. Table' = Table /\ Table \subseteq PoolIds
    BY <1>0, TableInPools DEF Table
  <2>3. /\ LoadedModels' = LoadedModels /\ Loaders' = Loaders /\ Sharers' = Sharers
    BY <1>0, <1>1, <2>2 DEF LoadedModels, Loaders, Sharers
  <2>4. OneAtATime' /\ LoadsAlone'
    BY <1>0, <2>1, <2>3 DEF Shared, OneAtATime, LoadsAlone
  <2>5. ClosesItsOwn' /\ OutOfTable'
    BY <1>0, <1>1, <1>2, <2>1, <2>2, <2>3 DEF Shared, ClosesItsOwn, OutOfTable
  <2>6. ShrunkSoFar'
    BY <1>0, <1>1, <2>1, <2>2 DEF Shared, ShrunkSoFar, Exceeds, EvenShare, PerModel
  <2>7. ClosedSoFar'
    <3> SUFFICES ASSUME NEW c \in Calls, at[c] = "closing_all",
                        NEW q \in (seen[c] \cap Table) \ {pool[c]}
                 PROVE  state'[q] = "down"
      BY <1>0, <2>2 DEF ClosedSoFar
    <3> QED
      BY <1>0, <1>1, <2>1, <2>2 DEF Shared, ClosedSoFar
  <2>8. WithinShare'
    BY <1>0, <1>1, <1>2, <2>1, <2>2, <2>3
       DEF Shared, WithinShare, Asked, EvenShare, PerModel
  <2> QED
    BY <2>4, <2>5, <2>6, <2>7, <2>8 DEF Shared
<1> QED
  BY <1>3, <1>4 DEF Kept

\* A load makes its plan in turn: only call c is under way, and nothing scales.
AloneLoading(c, m, M) ==
  /\ hasty = 0 /\ m \notin LoadedModels /\ M = LoadedModels \cup {m}
  /\ \A d \in Calls \ {c} : at[d] = "idle"
  /\ \A q \in PoolIds : target[q] = 0

LEMMA BuildKeepsTurn ==
  ASSUME InTurn, NEW c \in Calls, NEW m \in Models, NEW n \in Nat \ {0}, BuildPool(c, m, n),
         at[c] # "loading", SameCalls(c), subject'[c] = m, UNCHANGED pools,
         seen' \in [Calls -> SUBSET PoolIds], hasty' \in Nat, NEW M \in SUBSET Models,
         hasty' = 0 => /\ AloneLoading(c, m, M) /\ n = EvenShare(M, m)
                       /\ \A q \in Table : replicas[q] <= EvenShare(M, model[q])
  PROVE  Kept'
<1>0. /\ DriverTypeOK /\ Tidy /\ ScalingTypeOK /\ FreeIsUnused
  BY DEF InTurn, Sound, Tidy, Held
<1>1. PICK p \in PoolIds :
        /\ state[p] = "free"
        /\ model' = [model EXCEPT ![p] = m] /\ state' = [state EXCEPT ![p] = "starting"]
        /\ replicas' = [replicas EXCEPT ![p] = n] /\ pool' = [pool EXCEPT ![c] = p]
        /\ at' = [at EXCEPT ![c] = "loading"] /\ UNCHANGED <<target, building>>
  BY DEF BuildPool, Unused
<1>2. p \notin Table /\ Table' = Table /\ Table \subseteq PoolIds
  BY <1>0, <1>1, TableInPools DEF FreeIsUnused, Table
<1>3. target[p] = 0 /\ ~building[p]
  BY <1>0, <1>1 DEF Tidy, FreshIdle, BuildingByTask, DriverTypeOK
<1>4. \A q \in PoolIds \ {p} : model'[q] = model[q] /\ state'[q] = state[q]
                               /\ replicas'[q] = replicas[q]
  BY <1>0, <1>1 DEF DriverTypeOK
<1>5. /\ model'[p] = m /\ state'[p] = "starting" /\ replicas'[p] = n
      /\ pool'[c] = p /\ at'[c] = "loading"
  BY <1>0, <1>1 DEF DriverTypeOK
<1>6. Tidy'
  <2>1. ScalingTypeOK'
    BY <1>0, <1>1 DEF ScalingTypeOK
  <2>2. BuildingByTask' /\ FreshIdle' /\ GoneIsEmpty'
    BY <1>0, <1>1, <1>3, <1>4, <1>5 DEF Tidy, BuildingByTask, FreshIdle, GoneIsEmpty
  <2>3. StartingIsLoaded'
    <3> SUFFICES ASSUME NEW q \in PoolIds, state'[q] = "starting"
                 PROVE  \E d \in Calls : at'[d] = "loading" /\ pool'[d] = q
      BY DEF StartingIsLoaded
    <3>1. CASE q = p
      BY <1>5, <3>1
    <3>2. CASE q # p
      <4>1. PICK d \in Calls : at[d] = "loading" /\ pool[d] = q
        BY <1>0, <1>4, <3>2 DEF Tidy, StartingIsLoaded
      <4> QED
        BY <4>1 DEF SameCalls
    <3> QED
      BY <3>1, <3>2
  <2> QED
    BY <2>1, <2>2, <2>3 DEF Tidy
<1>7. ASSUME hasty' = 0 PROVE Shared'
  <2>1. /\ Shared /\ m \notin LoadedModels /\ M = LoadedModels \cup {m}
        /\ n = EvenShare(M, m) /\ \A q \in Table : replicas[q] <= EvenShare(M, model[q])
        /\ \A d \in Calls \ {c} : at'[d] = "idle"
        /\ \A q \in PoolIds : target[q] = 0 /\ target'[q] = 0
    BY <1>1, <1>7 DEF InTurn, AloneLoading, SameCalls
  <2>2. LoadedModels' = LoadedModels /\ Loaders' = {c} /\ Sharers' = M
    BY <1>2, <1>4, <1>5, <2>1 DEF LoadedModels, Loaders, Sharers
  <2>3. OneAtATime' /\ LoadsAlone' /\ ClosesItsOwn' /\ ShrunkSoFar' /\ ClosedSoFar'
    BY <1>5, <2>1, <2>2 DEF OneAtATime, LoadsAlone, ClosesItsOwn, ShrunkSoFar, ClosedSoFar
  <2>4. OutOfTable'
    BY <1>2, <1>4, <1>5, <2>1 DEF Shared, OutOfTable
  <2>5. WithinShare'
    <3> SUFFICES ASSUME NEW q \in PoolIds, q \in Table \/ state'[q] = "starting"
                 PROVE  /\ Asked(q)' <= EvenShare(M, model'[q])
                        /\ target'[q] <= EvenShare(M, model'[q])
      BY <1>2, <2>2 DEF WithinShare, EvenShare, PerModel
    <3>1. CASE q = p
      <4>1. Asked(q)' = n
        BY <1>1, <1>3, <1>5, <3>1 DEF Asked
      <4> QED
        BY <1>5, <2>1, <3>1, <4>1
    <3>2. CASE q # p
      <4>1. q \in Table
        <5>1. ASSUME state[q] = "starting" PROVE FALSE
          BY <1>0, <2>1, <5>1 DEF Tidy, StartingIsLoaded, SameCalls
        <5> QED
          BY <1>4, <3>2, <5>1
      <4>2. ~building[q] /\ replicas[q] \in Nat
        BY <1>0, <2>1 DEF Tidy, BuildingByTask, DriverTypeOK
      <4>3. Asked(q)' = replicas[q]
        BY <1>1, <1>4, <3>2, <4>2 DEF Asked
      <4>4. EvenShare(M, model[q]) \in Nat
        BY <1>0, <2>1, <4>1, ShareIsNatural DEF DriverTypeOK, LoadedModels
      <4>5. model'[q] = model[q] /\ replicas[q] <= EvenShare(M, model[q]) /\ target'[q] = 0
        BY <1>4, <2>1, <3>2, <4>1
      <4> QED
        BY <4>3, <4>4, <4>5
    <3> QED
      BY <3>1, <3>2
  <2> QED
    BY <2>3, <2>4, <2>5 DEF Shared
<1> QED
  BY <1>6, <1>7 DEF Kept

LEMMA ShrinkKeepsTurn ==
  ASSUME InTurn, NEW c \in Calls, NEW m \in Models, NEW p \in Table, NEW T \in SUBSET PoolIds,
         NEW M \in SUBSET Models,
         at[c] # "loading", SameCalls(c), subject'[c] = m,
         at' = [at EXCEPT ![c] = "shrinking"], pool' = [pool EXCEPT ![c] = p],
         seen' = [seen EXCEPT ![c] = T], known' = [known EXCEPT ![c] = M],
         UNCHANGED <<pools, model, state, replicas, target, building>>, hasty' \in Nat,
         hasty' = 0 => /\ AloneLoading(c, m, M)
                       /\ \A q \in (T \cap Table) \ {p} : ~Exceeds(q, M)
  PROVE  Kept'
<1>0. DriverTypeOK /\ Tidy /\ ScalingTypeOK /\ Table' = Table
  BY DEF InTurn, Sound, Tidy, Table
<1>1. at'[c] = "shrinking" /\ pool'[c] = p /\ seen'[c] = T /\ known'[c] = M
  BY <1>0 DEF DriverTypeOK, ScalingTypeOK
<1>2. Tidy'
  <2>1. ScalingTypeOK'
    BY <1>0 DEF ScalingTypeOK
  <2>2. BuildingByTask' /\ FreshIdle' /\ GoneIsEmpty'
    BY <1>0 DEF Tidy, BuildingByTask, FreshIdle, GoneIsEmpty
  <2>3. StartingIsLoaded'
    BY <1>0 DEF Tidy, StartingIsLoaded, SameCalls
  <2> QED
    BY <2>1, <2>2, <2>3 DEF Tidy
<1>3. ASSUME hasty' = 0 PROVE Shared'
  <2>1. /\ Shared /\ m \notin LoadedModels /\ M = LoadedModels \cup {m}
        /\ \A d \in Calls \ {c} : at[d] = "idle" /\ at'[d] = "idle"
        /\ \A q \in PoolIds : target[q] = 0
        /\ \A q \in (T \cap Table) \ {p} : ~Exceeds(q, M)
    BY <1>3 DEF InTurn, AloneLoading, SameCalls
  <2>2. /\ LoadedModels' = LoadedModels /\ Loaders' = {} /\ Loaders = {}
        /\ Sharers' = Sharers
    BY <1>0, <1>1, <2>1 DEF LoadedModels, Loaders, Sharers
  <2>3. OneAtATime' /\ LoadsAlone' /\ ClosesItsOwn' /\ ClosedSoFar'
    BY <1>1, <2>1, <2>2 DEF OneAtATime, LoadsAlone, ClosesItsOwn, ClosedSoFar
  <2>4. ShrunkSoFar'
    BY <1>0, <1>1, <2>1 DEF ShrunkSoFar, Exceeds, EvenShare, PerModel
  <2>5. OutOfTable'
    BY <1>0, <2>1 DEF Shared, OutOfTable
  <2>6. WithinShare'
    BY <1>0, <2>1, <2>2 DEF Shared, WithinShare, Asked, EvenShare, PerModel
  <2> QED
    BY <2>3, <2>4, <2>5, <2>6 DEF Shared
<1> QED
  BY <1>2, <1>3 DEF Kept

LEMMA GoOnKeepsTurn ==
  ASSUME InTurn, NEW c \in Calls, NEW M \in SUBSET Models, NEW m \in M, HasPlan(M),
         NEW S \in SUBSET PoolIds, GoOn(c, m, S, M),
         subject' = [subject EXCEPT ![c] = m], UNCHANGED pools, at[c] # "loading",
         hasty' \in Nat,
         hasty' = 0 => /\ AloneLoading(c, m, M) /\ \A q \in S \cap Table : ~Exceeds(q, M)
  PROVE  Kept'
<1>0. DriverTypeOK /\ ScalingTypeOK /\ OneEntryPerModel /\ m \in Models /\ Table \subseteq PoolIds
  BY TableInPools DEF InTurn, Sound, Tidy
<1>1. subject'[c] = m
  BY <1>0 DEF DriverTypeOK
<1>2. ASSUME hasty' = 0, NEW q \in Table
      PROVE  /\ model[q] \in M /\ EvenShare(M, model[q]) \in Nat /\ replicas[q] \in Nat
             /\ q \notin ToShrink(S, M) => ~Exceeds(q, M)
  <2>1. model[q] \in M
    BY <1>2 DEF AloneLoading, LoadedModels
  <2>2. EvenShare(M, model[q]) \in Nat
    BY <1>0, <2>1, ShareIsNatural
  <2>3. q \notin ToShrink(S, M) => ~Exceeds(q, M)
    BY <1>2, <2>1 DEF ToShrink
  <2> QED
    BY <1>0, <2>1, <2>2, <2>3 DEF DriverTypeOK
<1>3. CASE ToShrink(S, M) = {}
  <2>1. BuildPool(c, m, EvenShare(M, m)) /\ seen' = [seen EXCEPT ![c] = {}]
    BY <1>3 DEF GoOn
  <2>2. /\ SameCalls(c) /\ seen' \in [Calls -> SUBSET PoolIds]
    <3>1. seen' \in [Calls -> SUBSET PoolIds]
      BY <1>0, <2>1 DEF ScalingTypeOK
    <3>2. known' = [known EXCEPT ![c] = {}]
      BY <1>3 DEF GoOn
    <3>3. \A d \in Calls \ {c} : at'[d] = at[d] /\ pool'[d] = pool[d]
      BY <1>0, <2>1 DEF DriverTypeOK, BuildPool
    <3>4. \A d \in Calls \ {c} : subject'[d] = subject[d] /\ known'[d] = known[d]
      BY <1>0, <3>2 DEF DriverTypeOK
    <3> QED
      BY <3>1, <3>3, <3>4 DEF SameCalls
  <2>3. EvenShare(M, m) \in Nat \ {0}
    BY <1>0, ShareIsNatural DEF HasPlan
  <2>4. ASSUME hasty' = 0, NEW q \in Table PROVE replicas[q] <= EvenShare(M, model[q])
    BY <1>2, <1>3, <2>4 DEF Exceeds
  <2> QED
    BY <1>0, <1>1, <2>1, <2>2, <2>3, <2>4, BuildKeepsTurn
<1>4. CASE ToShrink(S, M) # {}
  <2> DEFINE p == First(ToShrink(S, M))
             T == S \cup {pools[i] : i \in 1 .. Position(p)}
  <2>1. /\ p \in ToShrink(S, M)
        /\ \A q \in ToShrink(S, M) : Position(p) <= Position(q)
    BY <1>0, <1>4, FirstIsElement DEF ToShrink
  <2>2. p \in Table
    BY <2>1 DEF ToShrink
  <2>3. /\ at' = [at EXCEPT ![c] = "shrinking"] /\ pool' = [pool EXCEPT ![c] = p]
        /\ seen' = [seen EXCEPT ![c] = T] /\ known' = [known EXCEPT ![c] = M]
        /\ UNCHANGED <<model, state, replicas, target, building>>
    BY <1>4 DEF GoOn
  <2>4. SameCalls(c)
    BY <1>0, <2>3 DEF DriverTypeOK, SameCalls
  <2>5. /\ Position(p) \in 1 .. Len(pools) /\ Len(pools) \in Nat /\ DOMAIN pools = 1 .. Len(pools)
        /\ \A i \in 1 .. Position(p) : i \in DOMAIN pools
    <3>1. Position(p) \in DOMAIN pools /\ Len(pools) \in Nat /\ DOMAIN pools = 1 .. Len(pools)
      BY <1>0, <2>2, TableInPools
    <3> HIDE DEF p
    <3> QED
      BY <3>1
  <2>6. T \in SUBSET PoolIds
    <3> HIDE DEF p
    <3> QED
      BY <1>0, <2>5 DEF Table
  <2>7. ASSUME hasty' = 0, NEW q \in (T \cap Table) \ {p} PROVE ~Exceeds(q, M)
    <3>1. CASE q \in S
      BY <2>7, <3>1
    <3>2. CASE q \notin S
      <4>1. PICK i \in 1 .. Position(p) : q = pools[i]
        BY <2>7, <3>2
      <4>2. Position(q) = i
        BY <1>0, <2>5, <4>1, TableInPools DEF OneEntryPerModel, Table
      <4>3. ASSUME q \in ToShrink(S, M) PROVE FALSE
        <5>1. Position(p) <= Position(q)
          BY <2>1, <4>3
        <5>2. Position(p) \in Nat /\ Position(q) = Position(p)
          BY <2>5, <4>2, <5>1
        <5>3. q = p
          BY <1>0, <2>2, <2>7, <5>2, TableInPools
        <5> QED
          BY <2>7, <5>3
      <4> QED
        BY <1>2, <2>7, <4>3
    <3> QED
      BY <3>1, <3>2
  <2> HIDE DEF p, T
  <2> QED
    BY <1>0, <1>1, <2>2, <2>3, <2>4, <2>6, <2>7, ShrinkKeepsTurn
<1> QED
  BY <1>3, <1>4

LEMMA LoadsKeepTurn ==
  ASSUME InTurn, NEW c \in Calls, NEW m \in Models,
         initialize(c, m) \/ \E n \in Explicit : initialize_explicit(c, m, n)
  PROVE  Kept'
<1>0. DriverTypeOK /\ ScalingTypeOK /\ at[c] = "idle" /\ hasty \in Nat
  BY DEF InTurn, Sound, Tidy, ScalingTypeOK, initialize, initialize_explicit
<1>1. CASE initialize(c, m)
  <2> DEFINE M == LoadedModels \cup {m}
  <2>1. M \in SUBSET Models /\ m \in M
    BY <1>0, SharersInModels
  <2>2. hasty' \in Nat /\ (hasty' = 0 => hasty = 0 /\ TurnToLoad)
    BY <1>0, <1>1, CountedCall DEF initialize, TurnToLoad
  <2>3. hasty' = 0 => AloneLoading(c, m, M)
    BY <1>1, <2>2 DEF initialize, AloneLoading, TurnToLoad, Quiet
  <2> HIDE DEF M
  <2>4. /\ HasPlan(M) /\ GoOn(c, m, {}, M) /\ subject' = [subject EXCEPT ![c] = m]
        /\ UNCHANGED pools
    BY <1>1 DEF initialize, M
  <2>5. hasty' = 0 => /\ AloneLoading(c, m, M) /\ \A q \in {} \cap Table : ~Exceeds(q, M)
    BY <2>3
  <2>6. hasty' \in Nat /\ at[c] # "loading" /\ {} \in SUBSET PoolIds
    BY <1>0, <2>2
  <2> QED
    BY <2>1, <2>4, <2>5, <2>6, GoOnKeepsTurn
<1>2. CASE \E n \in Explicit : initialize_explicit(c, m, n)
  <2>1. PICK n \in Nat \ {0} : initialize_explicit(c, m, n)
    BY <1>2, DriverConstants
  <2>2. /\ BuildPool(c, m, n) /\ UNCHANGED <<pools, seen>> /\ subject' = [subject EXCEPT ![c] = m]
        /\ UNCHANGED known
    BY <2>1 DEF initialize_explicit
  <2>3. SameCalls(c) /\ subject'[c] = m
    BY <1>0, <2>2 DEF DriverTypeOK, SameCalls, BuildPool
  <2>4. seen' \in [Calls -> SUBSET PoolIds]
    BY <1>0, <2>2 DEF ScalingTypeOK
  <2>5. hasty' \in Nat /\ hasty' # 0
    BY <1>0, <2>1, CountedCall DEF initialize_explicit
  <2> QED
    BY <1>0, <2>2, <2>3, <2>4, <2>5, BuildKeepsTurn
<1> QED
  BY <1>1, <1>2

LEMMA ShrinkDoneKeepsTurn ==
  ASSUME InTurn, NEW c \in Calls, ShrinkDone(c)
  PROVE  Kept'
<1>0. DriverTypeOK /\ ScalingTypeOK /\ ShrinksByPlan /\ at[c] = "shrinking"
  BY DEF InTurn, Sound, Held, Tidy, ShrinkDone
<1>1. subject[c] \in known[c] /\ HasPlan(known[c]) /\ known[c] \in SUBSET Models
  BY <1>0 DEF ShrinksByPlan, DriverTypeOK
<1>2. subject' = [subject EXCEPT ![c] = subject[c]]
  BY <1>0 DEF ShrinkDone, DriverTypeOK
<1>3. /\ GoOn(c, subject[c], seen[c], known[c]) /\ UNCHANGED <<pools, hasty>>
      /\ ~Exceeds(pool[c], known[c])
  BY DEF ShrinkDone
<1>4. seen[c] \in SUBSET PoolIds /\ hasty' \in Nat
  BY <1>0, <1>3 DEF ScalingTypeOK
<1>5. ASSUME hasty' = 0
      PROVE  /\ AloneLoading(c, subject[c], known[c])
             /\ \A q \in seen[c] \cap Table : ~Exceeds(q, known[c])
  <2>1. Shared /\ hasty = 0
    BY <1>3, <1>5 DEF InTurn
  <2>2. AloneLoading(c, subject[c], known[c])
    BY <1>0, <2>1 DEF Shared, OneAtATime, LoadsAlone, AloneLoading
  <2>3. \A q \in seen[c] \cap Table : ~Exceeds(q, known[c])
    BY <1>0, <1>3, <2>1 DEF Shared, ShrunkSoFar
  <2> QED
    BY <2>2, <2>3
<1> QED
  BY <1>0, <1>1, <1>2, <1>3, <1>4, <1>5, GoOnKeepsTurn

LEMMA ShrinkOneKeepsTurn ==
  ASSUME InTurn, NEW c \in Calls, ShrinkOne(c)
  PROVE  Kept'
<1>0. DriverTypeOK /\ ScalingTypeOK /\ BuildingByTask /\ ShrinksByPlan /\ at[c] = "shrinking"
  BY DEF InTurn, Sound, Tidy, Held, ShrinkOne
<1>p. PICK p \in PoolIds : p = pool[c]
  BY <1>0 DEF ShrinksByPlan
<1>1. /\ model[p] \in known[c] /\ known[c] \in SUBSET Models
      /\ model[p] \in Models /\ replicas[p] \in Nat /\ target[p] \in Nat
  BY <1>0, <1>p DEF ShrinksByPlan, DriverTypeOK, ScalingTypeOK
<1>2. EvenShare(known[c], model[p]) \in Nat
  BY <1>1, ShareIsNatural
<1>3. /\ replicas[p] > EvenShare(known[c], model[p]) /\ state[p] # "down"
      /\ replicas' = [replicas EXCEPT ![p] = @ - 1]
      /\ UNCHANGED <<pools, model, state, target, building, at, subject, pool, seen, known, hasty>>
  BY <1>p DEF ShrinkOne, Exceeds, driverCallVars
<1>4. replicas'[p] = replicas[p] - 1 /\ replicas' \in [PoolIds -> Nat]
  BY <1>0, <1>1, <1>2, <1>3 DEF DriverTypeOK
<1>5. ScalingTypeOK'
  BY <1>0, <1>3 DEF ScalingTypeOK
<1>6. \A q \in PoolIds \ {p} : /\ target'[q] = target[q] /\ building'[q] = building[q]
                               /\ replicas'[q] = replicas[q]
  BY <1>0, <1>3 DEF DriverTypeOK
<1>7. building'[p] => target'[p] > replicas'[p]
  BY <1>0, <1>1, <1>3, <1>4 DEF BuildingByTask
<1>8. target'[p] <= target[p] /\ ~(replicas'[p] > replicas[p]) /\ Asked(p)' <= Asked(p)
  BY <1>1, <1>3, <1>4 DEF Asked
<1> QED
  BY <1>1, <1>3, <1>4, <1>5, <1>6, <1>7, <1>8, ScaleStep DEF Kept

\* While all calls wait their turn, a call that ends leaves no load under way.
LEMMA EndsInTurn ==
  ASSUME DriverTypeOK, ScalingTypeOK, OneAtATime, NEW c \in Calls, EndCall(c), at[c] # "idle"
  PROVE  /\ OneAtATime' /\ LoadsAlone' /\ ShrunkSoFar' /\ ClosedSoFar'
         /\ Loaders' = {} /\ Sharers' = LoadedModels'
         /\ at[c] # "closing" => \A d \in Calls : at'[d] = "idle"
         /\ at[c] # "loading" => Loaders = {} /\ Sharers = LoadedModels
<1>1. at'[c] = "idle" /\ \A d \in Calls \ {c} : at'[d] = at[d]
  BY DEF EndCall, DriverTypeOK
<1>2. \A d \in Calls : at'[d] \notin {"shrinking", "loading", "closing_all"}
  BY <1>1 DEF OneAtATime
<1>3. \A d \in Calls \ {c} : at[d] \notin {"shrinking", "loading", "closing_all"}
  BY DEF OneAtATime
<1>4. OneAtATime' /\ LoadsAlone' /\ ShrunkSoFar' /\ ClosedSoFar'
  BY <1>2 DEF OneAtATime, LoadsAlone, ShrunkSoFar, ClosedSoFar
<1>5. Loaders' = {} /\ Sharers' = LoadedModels'
  BY <1>2 DEF Loaders, Sharers
<1>6. at[c] # "loading" => Loaders = {} /\ Sharers = LoadedModels
  BY <1>3 DEF Loaders, Sharers
<1>7. ASSUME at[c] # "closing" PROVE \A d \in Calls : at'[d] = "idle"
  <2>1. at[c] \in {"shrinking", "loading", "closing_all"}
    BY <1>7 DEF DriverTypeOK, CallStates
  <2> QED
    BY <1>1, <2>1 DEF OneAtATime
<1> QED
  BY <1>4, <1>5, <1>6, <1>7

LEMMA EndKeepsTypes ==
  ASSUME DriverTypeOK, NEW c \in Calls, EndCall(c), ScalingTypeOK, hasty' \in Nat,
         target' \in [PoolIds -> Nat], building' \in [PoolIds -> BOOLEAN]
  PROVE  ScalingTypeOK'
BY DEF EndCall, ScalingTypeOK

\* A call that ends, and did not load, has built no pool.
LEMMA EndKeepsLoaded ==
  ASSUME DriverTypeOK, StartingIsLoaded, NEW c \in Calls, EndCall(c),
         \A q \in PoolIds : state'[q] = "starting" =>
           state[q] = "starting" /\ (at[c] = "loading" => q # pool[c])
  PROVE  StartingIsLoaded'
<1>1. \A d \in Calls \ {c} : at'[d] = at[d] /\ pool'[d] = pool[d]
  BY DEF EndCall, DriverTypeOK
<1> QED
  BY <1>1 DEF StartingIsLoaded

LEMMA ShrinkRaisesKeepsTurn ==
  ASSUME InTurn, NEW c \in Calls, ShrinkRaises(c)
  PROVE  Kept'
<1>0. /\ DriverTypeOK /\ ScalingTypeOK /\ Tidy /\ EndCall(c) /\ at[c] = "shrinking"
      /\ UNCHANGED <<pools, model, state, replicas, target, building, hasty>> /\ Table' = Table
  BY DEF InTurn, Sound, Tidy, ShrinkRaises, Table
<1>1. Tidy'
  <2>1. ScalingTypeOK'
    BY <1>0, EndKeepsTypes DEF ScalingTypeOK
  <2>2. BuildingByTask' /\ FreshIdle' /\ GoneIsEmpty'
    BY <1>0 DEF Tidy, BuildingByTask, FreshIdle, GoneIsEmpty
  <2>3. StartingIsLoaded'
    BY <1>0, EndKeepsLoaded DEF Tidy
  <2> QED
    BY <2>1, <2>2, <2>3 DEF Tidy
<1>2. ASSUME hasty' = 0 PROVE Shared'
  <2>1. Shared /\ OneAtATime
    BY <1>0, <1>2 DEF InTurn, Shared
  <2>2. /\ OneAtATime' /\ LoadsAlone' /\ ShrunkSoFar' /\ ClosedSoFar'
        /\ Sharers' = LoadedModels' /\ Sharers = LoadedModels
        /\ \A d \in Calls : at'[d] = "idle"
    BY <1>0, <2>1, EndsInTurn
  <2>3. Sharers' = Sharers
    BY <1>0, <2>2 DEF LoadedModels
  <2>4. ClosesItsOwn' /\ OutOfTable'
    BY <1>0, <2>1, <2>2 DEF Shared, ClosesItsOwn, OutOfTable
  <2>5. WithinShare'
    BY <1>0, <2>1, <2>3 DEF Shared, WithinShare, Asked, EvenShare, PerModel
  <2> QED
    BY <2>2, <2>4, <2>5 DEF Shared
<1> QED
  BY <1>1, <1>2 DEF Kept

LEMMA LoadDoneKeepsTurn ==
  ASSUME InTurn, NEW c \in Calls, LoadDone(c)
  PROVE  Kept'
<1> DEFINE p == pool[c]
<1>0. /\ DriverTypeOK /\ ScalingTypeOK /\ Tidy /\ EndCall(c) /\ at[c] = "loading"
      /\ p \in PoolIds \ Table /\ state[p] = "starting" /\ model[p] = subject[c]
      /\ UNCHANGED <<model, replicas, target, building, hasty>>
      /\ Table \subseteq PoolIds /\ DOMAIN pools = 1 .. Len(pools) /\ Len(pools) \in Nat
  BY TableInPools DEF InTurn, Sound, Held, Tidy, LoadDone, LoadsItsOwn
<1>1. /\ state'[p] = "up"
      /\ \A q \in PoolIds \ {p} : state'[q] = state[q] \/ state'[q] = "lost"
  <2>1. CASE \E q \in Table : model[q] = subject[c]
    BY <1>0, <2>1 DEF LoadDone
  <2>2. CASE ~\E q \in Table : model[q] = subject[c]
    BY <1>0, <2>2 DEF LoadDone, DriverTypeOK
  <2> QED
    BY <2>1, <2>2
<1>2. Tidy'
  <2>1. ScalingTypeOK'
    BY <1>0, EndKeepsTypes DEF ScalingTypeOK
  <2>2. BuildingByTask' /\ FreshIdle' /\ GoneIsEmpty'
    BY <1>0, <1>1 DEF Tidy, BuildingByTask, FreshIdle, GoneIsEmpty
  <2>3. StartingIsLoaded'
    BY <1>0, <1>1, EndKeepsLoaded DEF Tidy
  <2> QED
    BY <2>1, <2>2, <2>3 DEF Tidy
<1>3. ASSUME hasty' = 0 PROVE Shared'
  <2>1. Shared /\ OneAtATime /\ subject[c] \notin LoadedModels
    BY <1>0, <1>3 DEF InTurn, Shared, LoadsAlone
  <2>2. /\ OneAtATime' /\ LoadsAlone' /\ ShrunkSoFar' /\ ClosedSoFar'
        /\ Sharers' = LoadedModels' /\ \A d \in Calls : at'[d] = "idle"
    BY <1>0, <2>1, EndsInTurn
  <2>3. pools' = Append(pools, p) /\ state' = [state EXCEPT ![p] = "up"]
    BY <2>1 DEF LoadDone, LoadedModels
  <2>4. Table' = Table \cup {p}
    <3>1. pools \in Seq(PoolIds) /\ p \in PoolIds
      BY <1>0 DEF DriverTypeOK
    <3>2. /\ DOMAIN pools' = 1 .. (Len(pools) + 1) /\ pools'[Len(pools) + 1] = p
          /\ \A i \in 1 .. Len(pools) : pools'[i] = pools[i]
      BY <2>3, <3>1, AppendProperties
    <3>3. \A i \in DOMAIN pools' : i \in DOMAIN pools \/ i = Len(pools) + 1
      BY <1>0, <3>2
    <3>4. \A i \in DOMAIN pools : i \in DOMAIN pools' /\ pools'[i] = pools[i]
      BY <1>0, <3>2
    <3>5. Len(pools) + 1 \in DOMAIN pools'
      BY <1>0, <3>2
    <3> HIDE DEF p
    <3> QED
      BY <3>2, <3>3, <3>4, <3>5 DEF Table
  <2>5. Loaders = {c}
    BY <1>0, <2>1 DEF OneAtATime, Loaders
  <2>6. Sharers' = Sharers
    BY <1>0, <2>2, <2>4, <2>5 DEF LoadedModels, Sharers
  <2>7. ClosesItsOwn' /\ OutOfTable'
    BY <1>0, <2>1, <2>2, <2>3, <2>4 DEF Shared, ClosesItsOwn, OutOfTable, DriverTypeOK
  <2>8. WithinShare'
    <3>1. \A q \in PoolIds : (q \in Table' \/ state'[q] = "starting") /\ state'[q] # "down"
                               => (q \in Table \/ state[q] = "starting") /\ state[q] # "down"
      BY <1>0, <2>3, <2>4 DEF DriverTypeOK
    <3> QED
      BY <1>0, <2>1, <2>6, <3>1 DEF Shared, WithinShare, Asked, EvenShare, PerModel
  <2> QED
    BY <2>2, <2>7, <2>8 DEF Shared
<1> QED
  BY <1>2, <1>3 DEF Kept

LEMMA LoadFailsKeepsTurn ==
  ASSUME InTurn, NEW c \in Calls, LoadFails(c)
  PROVE  Kept'
<1> DEFINE p == pool[c]
<1>0. /\ DriverTypeOK /\ ScalingTypeOK /\ Tidy /\ EndCall(c) /\ hasty \in Nat /\ at[c] = "loading"
      /\ p \in PoolIds \ Table /\ state[p] = "starting" /\ Called(FALSE)
      /\ state' = [state EXCEPT ![p] = "free"] /\ replicas' = [replicas EXCEPT ![p] = 0]
      /\ UNCHANGED <<target, building>>
  BY DEF InTurn, Sound, Held, Tidy, ScalingTypeOK, LoadFails, LoadsItsOwn
<1>1. hasty' \in Nat /\ hasty' # 0
  BY <1>0, CountedCall
<1>2. /\ state'[p] = "free" /\ replicas'[p] = 0
      /\ \A q \in PoolIds \ {p} : state'[q] = state[q] /\ replicas'[q] = replicas[q]
  BY <1>0 DEF DriverTypeOK
<1>3. target[p] = 0 /\ ~building[p]
  BY <1>0 DEF Tidy, FreshIdle, BuildingByTask, DriverTypeOK
<1>4. ScalingTypeOK'
  BY <1>0, <1>1, EndKeepsTypes DEF ScalingTypeOK
<1>5. BuildingByTask' /\ FreshIdle' /\ GoneIsEmpty'
  BY <1>0, <1>2, <1>3 DEF Tidy, BuildingByTask, FreshIdle, GoneIsEmpty
<1>6. StartingIsLoaded'
  BY <1>0, <1>2, EndKeepsLoaded DEF Tidy
<1> QED
  BY <1>1, <1>4, <1>5, <1>6 DEF Kept, Tidy

LEMMA ShutdownKeepsTurn ==
  ASSUME InTurn, NEW c \in Calls, NEW m \in Models, shutdown(c, m) \/ shutdown_all(c)
  PROVE  Kept'
<1>0. /\ DriverTypeOK /\ ScalingTypeOK /\ Tidy /\ at[c] = "idle" /\ hasty \in Nat
      /\ UNCHANGED <<pools, model, replicas>> /\ Table' = Table
  BY DEF InTurn, Sound, Tidy, ScalingTypeOK, shutdown, shutdown_all, Table
<1>1. PICK p \in Table :
        /\ state' = [state EXCEPT ![p] = IF @ = "down" THEN @ ELSE "closing"]
        /\ target' = [target EXCEPT ![p] = 0]
        /\ building' = [q \in PoolIds |-> building[q] /\ q \notin {p}]
        /\ pool' = [pool EXCEPT ![c] = p]
        /\ \/ /\ at' = [at EXCEPT ![c] = "closing"] /\ subject' = [subject EXCEPT ![c] = m]
              /\ model[p] = m /\ UNCHANGED <<seen, known>> /\ Called(TurnToClose)
           \/ /\ at' = [at EXCEPT ![c] = "closing_all"] /\ UNCHANGED subject
              /\ seen' = [seen EXCEPT ![c] = {p}] /\ known' = [known EXCEPT ![c] = LoadedModels]
              /\ Called(TurnToLoad)
  <2>1. CASE shutdown(c, m)
    BY <2>1 DEF shutdown, CancelScale
  <2>2. CASE shutdown_all(c)
    <3>1. pools # <<>> /\ Head(pools) \in Table
      BY <1>0, <2>2 DEF shutdown_all, DriverTypeOK, Table
    <3> QED
      BY <2>2, <3>1 DEF shutdown_all, CancelScale
  <2> QED
    BY <2>1, <2>2
<1>2. p \in PoolIds /\ Table \subseteq PoolIds
  BY <1>0, TableInPools
<1>3. /\ \A q \in PoolIds \ {p} : /\ state'[q] = state[q] /\ target'[q] = target[q]
                                  /\ building'[q] = building[q]
      /\ target'[p] = 0 /\ building'[p] = FALSE /\ pool'[c] = p
      /\ state'[p] \in {"closing", "down"} /\ (state'[p] = "down" <=> state[p] = "down")
  BY <1>0, <1>1, <1>2 DEF DriverTypeOK, ScalingTypeOK
<1>4. /\ hasty' \in Nat
      /\ hasty' = 0 => /\ hasty = 0
                       /\ \A d \in Calls : at[d] \in {"idle", "closing"}
                       /\ at'[c] = "closing_all" => \A d \in Calls : at[d] = "idle"
  BY <1>0, <1>1, CountedCall DEF TurnToClose, TurnToLoad, Quiet, DriverTypeOK
<1>5. Tidy'
  <2>1. ScalingTypeOK'
    BY <1>0, <1>1, <1>2, <1>4 DEF ScalingTypeOK
  <2>2. BuildingByTask' /\ FreshIdle' /\ GoneIsEmpty'
    BY <1>0, <1>3 DEF Tidy, BuildingByTask, FreshIdle, GoneIsEmpty
  <2>3. StartingIsLoaded'
    <3> SUFFICES ASSUME NEW q \in PoolIds, state'[q] = "starting"
                 PROVE  \E d \in Calls : at'[d] = "loading" /\ pool'[d] = q
      BY DEF StartingIsLoaded
    <3>1. PICK d \in Calls : at[d] = "loading" /\ pool[d] = q
      BY <1>0, <1>3 DEF Tidy, StartingIsLoaded
    <3> QED
      BY <1>0, <1>1, <3>1 DEF DriverTypeOK
  <2> QED
    BY <2>1, <2>2, <2>3 DEF Tidy
<1>6. ASSUME hasty' = 0 PROVE Shared'
  <2>1. Shared /\ \A d \in Calls : at[d] \in {"idle", "closing"}
    BY <1>4, <1>6 DEF InTurn
  <2>2. \A d \in Calls \ {c} : /\ at'[d] = at[d] /\ pool'[d] = pool[d]
                               /\ subject'[d] = subject[d]
    BY <1>0, <1>1 DEF DriverTypeOK
  <2>3. \/ at'[c] = "closing" /\ subject'[c] = m /\ model[p] = m
        \/ /\ at'[c] = "closing_all" /\ seen'[c] = {p}
           /\ \A d \in Calls \ {c} : at'[d] = "idle"
    BY <1>0, <1>1, <1>4, <1>6, <2>2 DEF DriverTypeOK, ScalingTypeOK
  <2>4. OneAtATime' /\ LoadsAlone' /\ ShrunkSoFar'
    BY <2>1, <2>2, <2>3 DEF OneAtATime, LoadsAlone, ShrunkSoFar
  <2>5. Loaders = {} /\ Loaders' = {} /\ Sharers' = Sharers /\ LoadedModels' = LoadedModels
        /\ Sharers = LoadedModels
    BY <1>0, <2>1, <2>2, <2>3 DEF Loaders, Sharers, LoadedModels
  <2>6. ClosedSoFar'
    BY <1>3, <2>1, <2>2, <2>3 DEF ClosedSoFar
  <2>7. ClosesItsOwn'
    BY <1>0, <1>2, <1>3, <2>1, <2>2, <2>3, <2>5 DEF Shared, ClosesItsOwn
  <2>8. OutOfTable'
    BY <1>0, <1>3, <2>1 DEF Shared, OutOfTable
  <2>9. WithinShare'
    <3> SUFFICES ASSUME NEW q \in PoolIds, q \in Table \/ state'[q] = "starting",
                        state'[q] # "down"
                 PROVE  /\ Asked(q)' <= EvenShare(Sharers, model[q])
                        /\ target'[q] <= EvenShare(Sharers, model[q])
      BY <1>0, <2>5 DEF WithinShare, EvenShare, PerModel
    <3>1. /\ q \in Table \/ state[q] = "starting"
          /\ state[q] # "down"
      BY <1>3
    <3>2. /\ Asked(q) <= EvenShare(Sharers, model[q])
          /\ target[q] <= EvenShare(Sharers, model[q])
      BY <2>1, <3>1 DEF Shared, WithinShare
    <3>3. CASE q = p
      <4>1. EvenShare(Sharers, model[p]) \in Nat
        <5>1. /\ model[p] \in Sharers /\ model[p] \in Models
              /\ Sharers \in SUBSET Models
          BY <1>0, <1>2, <2>5, SharersInModels DEF DriverTypeOK, LoadedModels
        <5> QED
          BY <5>1, ShareIsNatural
      <4>2. Asked(p)' <= Asked(p) /\ Asked(p)' \in Nat /\ Asked(p) \in Nat
        BY <1>0, <1>2, <1>3 DEF Asked, DriverTypeOK
      <4> QED
        BY <1>3, <3>2, <3>3, <4>1, <4>2
    <3>4. CASE q # p
      BY <1>0, <1>3, <3>2, <3>4 DEF Asked
    <3> QED
      BY <3>3, <3>4
  <2> QED
    BY <2>4, <2>6, <2>7, <2>8, <2>9 DEF Shared
<1> QED
  BY <1>5, <1>6 DEF Kept

LEMMA CloseNextKeepsTurn ==
  ASSUME InTurn, NEW c \in Calls, CloseNext(c)
  PROVE  Kept'
<1>0. /\ DriverTypeOK /\ ScalingTypeOK /\ Tidy /\ at[c] = "closing_all"
      /\ ~(Table \subseteq seen[c]) /\ Table \subseteq PoolIds
  BY TableInPools DEF InTurn, Sound, Tidy, CloseNext
<1>1. First(Table \ seen[c]) \in Table \ seen[c]
  BY <1>0, FirstIsElement
<1>2. PICK next \in Table \ seen[c] : next = First(Table \ seen[c])
  BY <1>1
<1>3. PICK p : p = pool[c]
  OBVIOUS
<1>4. /\ replicas' = [replicas EXCEPT ![p] = 0] /\ target' = [target EXCEPT ![next] = 0]
      /\ state' = [state EXCEPT ![p] = "down",
                                ![next] = IF @ = "down" THEN @ ELSE "closing"]
      /\ building' = [q \in PoolIds |-> building[q] /\ q \notin {next}]
      /\ pool' = [pool EXCEPT ![c] = next] /\ seen' = [seen EXCEPT ![c] = @ \cup {next}]
      /\ UNCHANGED <<pools, model, at, subject, known, hasty>> /\ Table' = Table
  BY <1>2, <1>3 DEF CloseNext, CancelScale, Table
<1>5. /\ \A q \in PoolIds \ {p} : replicas'[q] = replicas[q]
      /\ \A q \in PoolIds \ {next} : target'[q] = target[q] /\ building'[q] = building[q]
      /\ \A q \in PoolIds \ {p, next} : state'[q] = state[q]
      /\ target'[next] = 0 /\ building'[next] = FALSE /\ next \in PoolIds
      /\ p \in PoolIds => replicas'[p] = 0 /\ state'[p] = "down"
      /\ next # p => /\ state'[next] \in {"closing", "down"}
                     /\ state'[next] = "down" <=> state[next] = "down"
  <2>1. next \in PoolIds
    BY <1>0
  <2>2. /\ \A q \in PoolIds \ {p} : replicas'[q] = replicas[q]
        /\ p \in PoolIds => replicas'[p] = 0
    BY <1>0, <1>4 DEF DriverTypeOK
  <2>3. /\ \A q \in PoolIds \ {next} : target'[q] = target[q] /\ building'[q] = building[q]
        /\ target'[next] = 0 /\ building'[next] = FALSE
    BY <1>0, <1>4, <2>1 DEF ScalingTypeOK
  <2>4. \A q \in PoolIds \ {p, next} : state'[q] = state[q]
    BY <1>0, <1>4 DEF DriverTypeOK
  <2>5. p \in PoolIds => state'[p] = "down"
    BY <1>0, <1>4 DEF DriverTypeOK
  <2>6. next # p => state'[next] = IF state[next] = "down" THEN "down" ELSE "closing"
    BY <1>0, <1>4, <2>1 DEF DriverTypeOK
  <2>7. next # p => /\ state'[next] \in {"closing", "down"}
                    /\ state'[next] = "down" <=> state[next] = "down"
    BY <2>6
  <2> QED
    BY <2>1, <2>2, <2>3, <2>4, <2>5, <2>7
<1>6. Tidy'
  <2>1. ScalingTypeOK'
    BY <1>0, <1>4 DEF ScalingTypeOK
  <2>2. FreshIdle' /\ GoneIsEmpty'
    BY <1>0, <1>5 DEF Tidy, FreshIdle, GoneIsEmpty
  <2>3. BuildingByTask'
    <3> SUFFICES ASSUME NEW q \in PoolIds, building'[q] PROVE target'[q] > replicas'[q]
      BY DEF BuildingByTask
    <3>1. q # next /\ building[q] /\ target'[q] = target[q] /\ target[q] > replicas[q]
      BY <1>0, <1>5 DEF Tidy, BuildingByTask
    <3>2. replicas'[q] = 0 \/ replicas'[q] = replicas[q]
      BY <1>5
    <3>3. target[q] \in Nat /\ replicas[q] \in Nat
      BY <1>0 DEF DriverTypeOK, ScalingTypeOK
    <3> QED
      BY <3>1, <3>2, <3>3
  <2>4. StartingIsLoaded'
    <3> SUFFICES ASSUME NEW q \in PoolIds, state'[q] = "starting"
                 PROVE  \E d \in Calls : at'[d] = "loading" /\ pool'[d] = q
      BY DEF StartingIsLoaded
    <3>1. PICK d \in Calls : at[d] = "loading" /\ pool[d] = q
      BY <1>0, <1>5 DEF Tidy, StartingIsLoaded
    <3> QED
      BY <1>0, <1>4, <3>1 DEF DriverTypeOK
  <2> QED
    BY <2>1, <2>2, <2>3, <2>4 DEF Tidy
<1>7. ASSUME hasty' = 0 PROVE Shared'
  <2>1. Shared /\ \A d \in Calls \ {c} : at[d] = "idle"
    BY <1>0, <1>4, <1>7 DEF InTurn, Shared, OneAtATime
  <2>2. OneAtATime' /\ LoadsAlone' /\ ShrunkSoFar' /\ ClosesItsOwn'
    BY <1>0, <1>4, <2>1 DEF OneAtATime, LoadsAlone, ShrunkSoFar, ClosesItsOwn
  <2>3. Loaders = {} /\ Sharers' = Sharers /\ Sharers = LoadedModels
    BY <1>0, <1>4, <2>1 DEF Loaders, Sharers, LoadedModels
  <2>4. ClosedSoFar'
    <3> SUFFICES ASSUME NEW q \in (seen'[c] \cap Table) \ {next} PROVE state'[q] = "down"
      BY <1>0, <1>4, <2>1 DEF ClosedSoFar, DriverTypeOK
    <3>1. q \in seen[c] /\ q \in PoolIds /\ q \in Table
      BY <1>0, <1>4 DEF ScalingTypeOK
    <3>2. CASE q = p
      BY <1>5, <3>1, <3>2
    <3>3. CASE q # p
      BY <1>0, <1>3, <1>5, <2>1, <3>1, <3>3 DEF Shared, ClosedSoFar
    <3> QED
      BY <3>2, <3>3
  <2>5. OutOfTable'
    BY <1>4, <1>5, <2>1 DEF Shared, OutOfTable
  <2>6. WithinShare'
    <3> SUFFICES ASSUME NEW q \in PoolIds, q \in Table \/ state'[q] = "starting",
                        state'[q] # "down"
                 PROVE  /\ Asked(q)' <= EvenShare(Sharers, model[q])
                        /\ target'[q] <= EvenShare(Sharers, model[q])
      BY <1>4, <2>3 DEF WithinShare, EvenShare, PerModel
    <3>1. /\ q # p /\ (q \in Table \/ state[q] = "starting") /\ state[q] # "down"
      BY <1>5
    <3>2. /\ Asked(q) <= EvenShare(Sharers, model[q])
          /\ target[q] <= EvenShare(Sharers, model[q])
      BY <2>1, <3>1 DEF Shared, WithinShare
    <3>3. CASE q = next
      <4>1. EvenShare(Sharers, model[q]) \in Nat
        <5>1. /\ model[q] \in Sharers /\ model[q] \in Models
              /\ Sharers \in SUBSET Models
          BY <1>0, <1>2, <2>3, <3>3, SharersInModels DEF DriverTypeOK, LoadedModels
        <5> QED
          BY <5>1, ShareIsNatural
      <4>2. Asked(q)' <= Asked(q) /\ Asked(q)' \in Nat /\ Asked(q) \in Nat
        BY <1>0, <1>5, <3>1, <3>3 DEF Asked, DriverTypeOK
      <4> QED
        BY <1>5, <3>2, <3>3, <4>1, <4>2
    <3>4. CASE q # next
      BY <1>5, <3>1, <3>2, <3>4 DEF Asked
    <3> QED
      BY <3>3, <3>4
  <2> QED
    BY <2>2, <2>4, <2>5, <2>6 DEF Shared
<1> QED
  BY <1>6, <1>7 DEF Kept

\* A pool that a load builds is not in the table yet.
LEMMA StartingNotInTable ==
  ASSUME Sound, Tidy, NEW q \in PoolIds, state[q] = "starting"
  PROVE  q \notin Table
BY DEF Sound, Held, LoadsItsOwn, Tidy, StartingIsLoaded

LEMMA CloseDoneKeepsTurn ==
  ASSUME InTurn, NEW c \in Calls, CloseDone(c)
  PROVE  Kept'
<1> DEFINE left == {q \in Table : model[q] # subject[c]}
           grow == IF left = Table THEN {} ELSE Growing(left)
           dead == {q \in {pool[c]} : Forgotten(q, left, c)}
           M    == {model[r] : r \in left}
<1>0. /\ Sound /\ DriverTypeOK /\ ScalingTypeOK /\ Tidy /\ OneEntryPerModel /\ EndCall(c)
      /\ at[c] = "closing" /\ Table \subseteq PoolIds /\ FreeIsUnused
  BY TableInPools DEF InTurn, Sound, Held, Tidy, CloseDone
<1>1. PICK p : p = pool[c]
  OBVIOUS
<1>2. /\ pools' = Without(subject[c])
      /\ state' = [q \in PoolIds |-> CASE q \in dead                  -> "free"
                                      [] q \in {p} \ dead            -> "down"
                                      [] q \in (Table \ left) \ {p}  -> "lost"
                                      [] OTHER                       -> state[q]]
      /\ Bury(dead) /\ replicas' = [replicas EXCEPT ![p] = 0]
      /\ building' = [q \in PoolIds |-> building[q] /\ q \notin grow]
      /\ target' = [q \in PoolIds |-> IF q \in grow THEN EvenShare(M, model[q]) ELSE target[q]]
      /\ UNCHANGED hasty
  BY <1>1 DEF CloseDone, CancelScale
<1>3. Table' = left
  <2>1. /\ \A i \in DOMAIN pools' : pools'[i] \in left
        /\ \A q \in left : \E i \in DOMAIN pools' : pools'[i] = q
    BY <1>0, <1>2, WithoutModel
  <2> HIDE DEF left
  <2> QED
    BY <2>1 DEF Table
<1>4. /\ grow \subseteq left /\ left \subseteq Table /\ M \subseteq LoadedModels
      /\ M \in SUBSET Models /\ \A q \in left : model[q] \in M
  BY <1>0, SharersInModels DEF Growing, LoadedModels
<1>5. /\ dead \subseteq {p} /\ dead \cap left = {}
      /\ \A q \in dead : target[q] = 0 /\ \A d \in Calls \ {c} : pool[d] # q
  BY <1>1 DEF Forgotten
<1>6. ASSUME NEW q \in grow
      PROVE  /\ EvenShare(M, model[q]) \in Nat /\ EvenShare(M, model[q]) > replicas[q]
             /\ left # Table
  <2>1. left # Table /\ q \in Growing(left)
    BY <1>6
  <2>2. q \in left /\ model[q] \in M /\ model[q] \in Models
    BY <1>0, <1>4 DEF DriverTypeOK
  <2>3. EvenShare(M, model[q]) \in Nat
    BY <1>4, <2>2, ShareIsNatural
  <2> QED
    BY <2>1, <2>3 DEF Growing
<1> HIDE DEF left, grow, dead, M
<1>7. \A q \in PoolIds :
        /\ q \in dead => state'[q] = "free"
        /\ q \notin dead /\ q = p => state'[q] = "down"
        /\ q \in (Table \ left) \ {p} => state'[q] = "lost"
        /\ q \notin (Table \ left) \cup {p} => state'[q] = state[q]
  BY <1>2, <1>5
<1>8. /\ \A q \in PoolIds : /\ q # p => replicas'[q] = replicas[q]
                            /\ q = p => replicas'[q] = 0
                            /\ q \in grow => target'[q] = EvenShare(M, model[q]) /\ ~building'[q]
                            /\ q \notin grow => target'[q] = target[q] /\ building'[q] = building[q]
      /\ target' \in [PoolIds -> Nat] /\ building' \in [PoolIds -> BOOLEAN]
  <2>1. \A q \in PoolIds : /\ q # p => replicas'[q] = replicas[q]
                           /\ q = p => replicas'[q] = 0
    BY <1>0, <1>2 DEF DriverTypeOK
  <2>2. target' \in [PoolIds -> Nat]
    BY <1>0, <1>2, <1>6 DEF ScalingTypeOK
  <2>3. building' \in [PoolIds -> BOOLEAN]
    BY <1>2
  <2>4. \A q \in PoolIds : building'[q] = (building[q] /\ q \notin grow)
    BY <1>2
  <2>5. \A q \in PoolIds : /\ q \in grow => target'[q] = EvenShare(M, model[q])
                           /\ q \notin grow => target'[q] = target[q]
    BY <1>2
  <2>6. \A q \in PoolIds : building[q] \in BOOLEAN
    BY <1>0 DEF ScalingTypeOK
  <2>7. \A q \in PoolIds : /\ q \in grow => ~building'[q]
                           /\ q \notin grow => building'[q] = building[q]
    BY <2>4, <2>6
  <2> QED
    BY <2>1, <2>2, <2>3, <2>5, <2>7
<1>9. Tidy'
  <2>1. ScalingTypeOK'
    BY <1>0, <1>2, <1>8, EndKeepsTypes DEF ScalingTypeOK
  <2>2. BuildingByTask'
    <3> SUFFICES ASSUME NEW q \in PoolIds, building'[q] PROVE target'[q] > replicas'[q]
      BY DEF BuildingByTask
    <3>1. /\ building[q] /\ target'[q] = target[q] /\ target[q] > replicas[q]
          /\ replicas'[q] = 0 \/ replicas'[q] = replicas[q]
      BY <1>0, <1>8 DEF Tidy, BuildingByTask
    <3>2. target[q] \in Nat /\ replicas[q] \in Nat
      BY <1>0 DEF DriverTypeOK, ScalingTypeOK
    <3> QED
      BY <3>1, <3>2
  <2>3. FreshIdle'
    <3> SUFFICES ASSUME NEW q \in PoolIds, state'[q] \in {"free", "starting"}
                 PROVE  target'[q] = 0
      BY DEF FreshIdle
    <3>1. CASE q \in dead
      BY <1>4, <1>5, <1>8, <3>1
    <3>2. CASE q \notin dead
      <4>1. state[q] \in {"free", "starting"}
        BY <1>7, <3>2
      <4>2. target[q] = 0 /\ q \notin Table
        BY <1>0, <4>1, StartingNotInTable DEF Tidy, FreshIdle, FreeIsUnused
      <4> QED
        BY <1>4, <1>8, <4>2
    <3> QED
      BY <3>1, <3>2
  <2>4. GoneIsEmpty'
    BY <1>0, <1>5, <1>7, <1>8 DEF Tidy, GoneIsEmpty
  <2>5. StartingIsLoaded'
    BY <1>0, <1>7, EndKeepsLoaded DEF Tidy
  <2> QED
    BY <2>1, <2>2, <2>3, <2>4, <2>5 DEF Tidy
<1>10. ASSUME hasty' = 0 PROVE Shared'
  <2>1. Shared /\ OneAtATime
    BY <1>2, <1>10 DEF InTurn, Shared
  <2>2. /\ OneAtATime' /\ LoadsAlone' /\ ShrunkSoFar' /\ ClosedSoFar'
        /\ Sharers' = LoadedModels' /\ Sharers = LoadedModels /\ Loaders = {}
    BY <1>0, <2>1, EndsInTurn
  <2>3. \A q \in PoolIds \ dead : model'[q] = model[q]
    BY <1>2 DEF Bury
  <2>4. LoadedModels' = M
    BY <1>0, <1>3, <1>4, <1>5, <2>3 DEF LoadedModels, M
  <2>5. p \in PoolIds /\ model[p] = subject[c] /\ (p \in Table \/ subject[c] \notin LoadedModels)
    BY <1>0, <1>1, <2>1 DEF Shared, ClosesItsOwn
  <2>6. p \notin left /\ subject[c] \notin M
    BY <2>5 DEF left, M
  <2>7. \A q \in Table : model[q] = subject[c] => q = p
    BY <1>0, <2>5 DEF OneEntryPerModel, Table, LoadedModels
  <2>8. \A q \in PoolIds : state[q] # "starting"
    BY <1>0, <2>2 DEF Tidy, StartingIsLoaded, Loaders
  <2>9. ClosesItsOwn'
    <3> SUFFICES ASSUME NEW d \in Calls, at'[d] = "closing"
                 PROVE  /\ pool'[d] \in PoolIds /\ model'[pool'[d]] = subject'[d]
                        /\ pool'[d] \in left \/ subject'[d] \notin M
      BY <1>3, <2>4 DEF ClosesItsOwn
    <3>1. /\ d # c /\ at[d] = "closing" /\ pool'[d] = pool[d] /\ subject'[d] = subject[d]
      BY <1>0 DEF EndCall, DriverTypeOK
    <3>2. /\ pool[d] \in PoolIds /\ model[pool[d]] = subject[d]
          /\ pool[d] \in Table \/ subject[d] \notin LoadedModels
      BY <2>1, <3>1 DEF Shared, ClosesItsOwn
    <3>3. model'[pool[d]] = model[pool[d]]
      BY <1>5, <2>3, <3>1, <3>2
    <3>4. pool[d] \in left \/ subject[d] \notin M
      BY <1>4, <2>6, <3>2 DEF left
    <3> QED
      BY <3>1, <3>2, <3>3, <3>4
  <2>10. OutOfTable'
    <3> SUFFICES ASSUME NEW q \in PoolIds \ left
                 PROVE  state'[q] \in {"free", "starting", "down"}
      BY <1>3 DEF OutOfTable
    <3>1. CASE q = p
      BY <1>7, <3>1
    <3>2. CASE q # p
      <4>1. q \notin Table
        BY <2>7, <3>2 DEF left
      <4> QED
        BY <1>7, <2>1, <3>2, <4>1 DEF Shared, OutOfTable
    <3> QED
      BY <3>1, <3>2
  <2>11. WithinShare'
    <3> SUFFICES ASSUME NEW q \in PoolIds, q \in left \/ state'[q] = "starting",
                        state'[q] # "down"
                 PROVE  /\ Asked(q)' <= EvenShare(M, model'[q])
                        /\ target'[q] <= EvenShare(M, model'[q])
      BY <1>3, <2>2, <2>4 DEF WithinShare, EvenShare, PerModel
    <3>1. q \in left
      BY <1>5, <1>7, <2>8
    <3>2. /\ q # p /\ q \notin dead /\ q \in Table /\ state'[q] = state[q]
          /\ replicas'[q] = replicas[q] /\ model'[q] = model[q]
      BY <1>4, <1>5, <1>7, <1>8, <2>3, <2>6, <3>1
    <3>3. /\ Asked(q) <= EvenShare(LoadedModels, model[q])
          /\ target[q] <= EvenShare(LoadedModels, model[q])
      BY <2>1, <2>2, <3>2 DEF Shared, WithinShare
    <3>4. /\ EvenShare(LoadedModels, model[q]) \in Nat /\ EvenShare(M, model[q]) \in Nat
          /\ EvenShare(LoadedModels, model[q]) <= EvenShare(M, model[q])
      <4>1. M \in SUBSET LoadedModels /\ LoadedModels \in SUBSET Models /\ M # {}
            /\ model[q] \in Models
        BY <1>0, <1>4, <3>1, SharersInModels DEF DriverTypeOK
      <4> QED
        BY <4>1, SharesGrow
    <3>5. replicas[q] \in Nat /\ target[q] \in Nat /\ Asked(q) \in Nat
      BY <1>0 DEF DriverTypeOK, ScalingTypeOK, Asked
    <3>6. CASE q \in grow
      <4>1. ~building'[q] /\ target'[q] = EvenShare(M, model[q])
            /\ EvenShare(M, model[q]) > replicas[q]
        BY <1>6, <1>8, <3>6
      <4>2. Asked(q)' = replicas[q]
        BY <3>2, <3>5, <4>1 DEF Asked
      <4> QED
        BY <3>2, <3>4, <3>5, <4>1, <4>2
    <3>7. CASE q \notin grow
      <4>1. target'[q] = target[q] /\ building'[q] = building[q]
        BY <1>8, <3>7
      <4>2. Asked(q)' = Asked(q)
        BY <3>2, <4>1 DEF Asked
      <4> QED
        BY <3>2, <3>3, <3>4, <3>5, <4>1, <4>2
    <3> QED
      BY <3>6, <3>7
  <2> QED
    BY <2>2, <2>9, <2>10, <2>11 DEF Shared
<1> QED
  BY <1>9, <1>10 DEF Kept

LEMMA CloseLastKeepsTurn ==
  ASSUME InTurn, NEW c \in Calls, CloseLast(c)
  PROVE  Kept'
<1> DEFINE left == IF Len(pools) # Cardinality(known[c]) THEN pools ELSE <<>>
           dead == {q \in Table \cup {pool[c]} : (q = pool[c] \/ state[q] = "down")
                      /\ Forgotten(q, {left[i] : i \in DOMAIN left}, c)}
<1>0. /\ Sound /\ DriverTypeOK /\ ScalingTypeOK /\ Tidy /\ EndCall(c)
      /\ at[c] = "closing_all" /\ Table \subseteq PoolIds
  BY TableInPools DEF InTurn, Sound, Tidy, CloseLast
<1>1. PICK p : p = pool[c]
  OBVIOUS
<1>2. /\ pools' = left
      /\ state' = [q \in PoolIds |-> IF q \in dead THEN "free"
                                     ELSE IF q = p THEN "down" ELSE state[q]]
      /\ Bury(dead) /\ replicas' = [replicas EXCEPT ![p] = 0]
      /\ UNCHANGED <<target, building, hasty>>
  BY <1>1 DEF CloseLast
<1>3. \/ Table' = Table /\ left = pools
      \/ Table' = {} /\ Table \subseteq seen[c]
  <2>1. CASE Len(pools) # Cardinality(known[c])
    BY <1>2, <2>1 DEF Table
  <2>2. CASE Len(pools) = Cardinality(known[c])
    BY <1>2, <2>2 DEF CloseLast, Table
  <2> QED
    BY <2>1, <2>2
<1>4. \A q \in dead : /\ q \notin Table' /\ target[q] = 0
                      /\ q = p \/ state[q] = "down"
  <2>1. Table' = {left[i] : i \in DOMAIN left}
    BY <1>2 DEF Table
  <2> QED
    BY <1>1, <2>1 DEF Forgotten
<1> HIDE DEF left, dead
<1>5. \A q \in PoolIds :
        /\ q \in dead => state'[q] = "free"
        /\ q \notin dead /\ q = p => state'[q] = "down"
        /\ q \notin dead /\ q # p => state'[q] = state[q]
        /\ q = p => replicas'[q] = 0
        /\ q # p => replicas'[q] = replicas[q]
  <2>1. \A q \in PoolIds : /\ q = p => replicas'[q] = 0
                           /\ q # p => replicas'[q] = replicas[q]
    BY <1>0, <1>2 DEF DriverTypeOK
  <2> QED
    BY <1>2, <2>1
<1>6. Tidy'
  <2>1. ScalingTypeOK'
    BY <1>0, <1>2, EndKeepsTypes DEF ScalingTypeOK
  <2>2. BuildingByTask'
    <3> SUFFICES ASSUME NEW q \in PoolIds, building[q] PROVE target[q] > replicas'[q]
      BY <1>2 DEF BuildingByTask
    <3>1. target[q] > replicas[q] /\ (replicas'[q] = 0 \/ replicas'[q] = replicas[q])
      BY <1>0, <1>5 DEF Tidy, BuildingByTask
    <3>2. target[q] \in Nat /\ replicas[q] \in Nat
      BY <1>0 DEF DriverTypeOK, ScalingTypeOK
    <3> QED
      BY <3>1, <3>2
  <2>3. FreshIdle' /\ GoneIsEmpty'
    BY <1>0, <1>2, <1>4, <1>5 DEF Tidy, FreshIdle, GoneIsEmpty
  <2>4. StartingIsLoaded'
    BY <1>0, <1>5, EndKeepsLoaded DEF Tidy
  <2> QED
    BY <2>1, <2>2, <2>3, <2>4 DEF Tidy
<1>7. ASSUME hasty' = 0 PROVE Shared'
  <2>1. Shared /\ OneAtATime
    BY <1>2, <1>7 DEF InTurn, Shared
  <2>2. /\ OneAtATime' /\ LoadsAlone' /\ ShrunkSoFar' /\ ClosedSoFar'
        /\ Sharers' = LoadedModels' /\ Sharers = LoadedModels /\ Loaders = {}
        /\ \A d \in Calls : at'[d] = "idle"
    BY <1>0, <2>1, EndsInTurn
  <2>3. ClosesItsOwn'
    BY <2>2 DEF ClosesItsOwn
  <2>4. \A q \in PoolIds : state[q] # "starting" /\ state'[q] # "starting"
    BY <1>0, <1>5, <2>2 DEF Tidy, StartingIsLoaded, Loaders
  <2>5. CASE Table' = Table
    <3>1. \A q \in Table : model'[q] = model[q]
      BY <1>0, <1>2, <1>4, <2>5 DEF Bury
    <3>2. LoadedModels' = LoadedModels
      BY <2>5, <3>1 DEF LoadedModels
    <3>3. OutOfTable'
      BY <1>5, <2>1, <2>5 DEF Shared, OutOfTable
    <3>4. WithinShare'
      <4> SUFFICES ASSUME NEW q \in Table, state'[q] # "down"
                   PROVE  /\ Asked(q)' <= EvenShare(LoadedModels, model[q])
                          /\ target'[q] <= EvenShare(LoadedModels, model[q])
        BY <2>2, <2>4, <2>5, <3>1, <3>2 DEF WithinShare, EvenShare, PerModel
      <4>1. q \in PoolIds /\ q # p /\ state[q] # "down" /\ replicas'[q] = replicas[q]
        BY <1>0, <1>4, <1>5, <2>5
      <4>2. /\ Asked(q) <= EvenShare(LoadedModels, model[q])
            /\ target[q] <= EvenShare(LoadedModels, model[q])
        BY <2>1, <2>2, <4>1 DEF Shared, WithinShare
      <4> QED
        BY <1>2, <4>1, <4>2 DEF Asked
    <3> QED
      BY <2>2, <2>3, <3>3, <3>4 DEF Shared
  <2>6. CASE Table' = {} /\ Table \subseteq seen[c]
    <3>1. OutOfTable'
      <4> SUFFICES ASSUME NEW q \in PoolIds PROVE state'[q] \in {"free", "starting", "down"}
        BY DEF OutOfTable
      <4>1. CASE q \in dead \/ q = p
        BY <1>5, <4>1
      <4>2. CASE q \notin dead /\ q # p /\ q \in Table
        BY <1>0, <1>1, <1>5, <2>1, <2>6, <4>2 DEF Shared, ClosedSoFar
      <4>3. CASE q \notin dead /\ q # p /\ q \notin Table
        BY <1>5, <2>1, <4>3 DEF Shared, OutOfTable
      <4> QED
        BY <4>1, <4>2, <4>3
    <3>2. WithinShare'
      BY <2>4, <2>6 DEF WithinShare
    <3> QED
      BY <2>2, <2>3, <3>1, <3>2 DEF Shared
  <2> QED
    BY <1>3, <2>5, <2>6
<1> QED
  BY <1>6, <1>7 DEF Kept

-----------------------------------------------------------------------------

LEMMA NextKeepsTurn == InTurn /\ [DriverNext]_driverVars => InTurn'
<1> SUFFICES ASSUME InTurn, [DriverNext]_driverVars PROVE InTurn'
  OBVIOUS
<1>1. Sound'
  BY NextKeepsSound DEF InTurn
<1>2. Kept'
  <2>1. CASE \E c \in Calls, m \in Models :
               initialize(c, m) \/ \E n \in Explicit : initialize_explicit(c, m, n)
    BY <2>1, LoadsKeepTurn
  <2>2. CASE \E c \in Calls, m \in Models : shutdown(c, m) \/ shutdown_all(c)
    BY <2>2, ShutdownKeepsTurn
  <2>3. CASE \E c \in Calls : shutdown_all(c)
    BY <2>3, ShutdownKeepsTurn, DriverConstants
  <2>4. CASE \E c \in Calls : DriverCallStep(c) \/ LoadFails(c)
    BY <2>4, ShrinkOneKeepsTurn, ShrinkDoneKeepsTurn, ShrinkRaisesKeepsTurn, LoadDoneKeepsTurn,
       CloseDoneKeepsTurn, CloseNextKeepsTurn, CloseLastKeepsTurn, LoadFailsKeepsTurn
       DEF DriverCallStep
  <2>5. CASE \E p \in PoolIds : PoolStep(p) \/ PlaceActor(p) \/ ScaleFails(p)
    BY <2>5, ScalingKeepsTurn, CollectKeepsTurn DEF PoolStep
  <2>6. CASE UNCHANGED driverVars
    BY <2>6 DEF InTurn, Kept, driverVars, poolObjVars, driverCallVars,
                Tidy, ScalingTypeOK, BuildingByTask, FreshIdle, GoneIsEmpty, StartingIsLoaded,
                Shared, OneAtATime, LoadsAlone, ClosesItsOwn, OutOfTable, ShrunkSoFar,
                ClosedSoFar, WithinShare, Asked, Exceeds, EvenShare, PerModel, Sharers, Loaders,
                LoadedModels, Table
  <2> QED
    BY <2>1, <2>2, <2>3, <2>4, <2>5, <2>6 DEF DriverNext
<1> QED
  BY <1>1, <1>2 DEF InTurn, Kept

LEMMA InitInTurn == DriverInit => InTurn
<1> SUFFICES ASSUME DriverInit PROVE InTurn
  OBVIOUS
<1>1. Sound
  BY InitSound
<1>2. Table = {} /\ \A c \in Calls : at[c] = "idle"
  BY DEF DriverInit, Table
<1>3. Tidy
  BY DEF DriverInit, Tidy, ScalingTypeOK, BuildingByTask, FreshIdle, GoneIsEmpty,
         StartingIsLoaded
<1>4. Shared
  BY <1>2 DEF DriverInit, Shared, OneAtATime, LoadsAlone, ClosesItsOwn, OutOfTable,
              ShrunkSoFar, ClosedSoFar, WithinShare
<1> QED
  BY <1>1, <1>3, <1>4 DEF InTurn

(***************************************************************************)
(* For any models, sizes and GPUs: as long as calls were made in turn, the *)
(* pools together never ask Ray for more GPUs than there are, at no moment *)
(* of a load, a shutdown or the scaling after it.                          *)
(***************************************************************************)
THEOREM LoadsInTurnFit == DriverSpec => []FitsInTurn
<1>1. InTurn => FitsInTurn
  BY SharesFit DEF InTurn, FitsInTurn
<1> QED
  BY <1>1, InitInTurn, NextKeepsTurn, PTL DEF DriverSpec

-----------------------------------------------------------------------------
(***************************************************************************)
(* Weight synchronization above a single transfer.  For a round with any   *)
(* trainers, inference engines, names and fused modules: a worker that     *)
(* reports done has the weights of the round.  The schedule comes first:   *)
(* it gives every worker to one sender, at one place in the sender's list. *)
(* For the hand-over through shared memory: it is exact for a worker of    *)
(* one rank as long as no wait is given up.                                *)
(***************************************************************************)
LEMMA QuotientUnique ==
  ASSUME NEW d \in Nat \ {0}, NEW q \in Nat, NEW z \in 0 .. d - 1
  PROVE  (q * d + z) \div d = q
<1> DEFINE x == q * d + z
           a == x \div d
           y == x % d
<1>1. q * d \in Nat
  OBVIOUS
<1>2. x \in Nat
  BY <1>1
<1>3. a \in Nat /\ y \in 0 .. d - 1 /\ x = a * d + y
  BY <1>2, DivMod
<1>4. q * d + z = a * d + y
  BY <1>3
<1>5. y = z
  BY ModUnique
<1> HIDE DEF x, a, y
<1>6. a * d \in Nat
  BY <1>3
<1>7. q * d = a * d
  BY <1>1, <1>3, <1>4, <1>5, <1>6
<1>8. ~(a < q) /\ ~(q < a)
  <2>1. CASE a < q
    BY <2>1, <1>3, <1>7, TimesNext, TimesMonotonic
  <2>2. CASE q < a
    BY <2>2, <1>3, <1>7, TimesNext, TimesMonotonic
  <2> QED
    BY <2>1, <2>2
<1> QED
  BY <1>3, <1>8 DEF a, x

\* Equal multiples have equal factors.
LEMMA TimesSame ==
  ASSUME NEW a \in Nat, NEW b \in Nat, NEW q \in Nat \ {0}, a * q = b * q
  PROVE  a = b
<1>1. a * q + 0 = b * q + 0 /\ 0 \in 0 .. q - 1
  BY TimesCommute
<1>2. (a * q + 0) \div q = a /\ (b * q + 0) \div q = b
  BY <1>1, QuotientUnique
<1> QED
  BY <1>1, <1>2

LEMMA MinOfTwo ==
  ASSUME NEW a \in Nat, NEW b \in Nat
  PROVE  Min({a, b}) \in {a, b} /\ Min({a, b}) <= a /\ Min({a, b}) <= b
<1>1. \E x \in {a, b} : \A y \in {a, b} : x <= y
  <2>1. CASE a <= b
    BY <2>1
  <2>2. CASE b <= a
    BY <2>2
  <2> QED
    BY <2>1, <2>2
<1>2. Min({a, b}) \in {a, b} /\ \A y \in {a, b} : Min({a, b}) <= y
  BY <1>1 DEF Min
<1> QED
  BY <1>2

LEMMA MinOfStretch ==
  ASSUME NEW a \in Nat, NEW b \in Nat, a <= b
  PROVE  Min(a .. b) = a
<1>1. a \in a .. b /\ \A y \in a .. b : a <= y
  OBVIOUS
<1>2. Min(a .. b) \in a .. b /\ \A y \in a .. b : Min(a .. b) <= y
  BY <1>1 DEF Min
<1> QED
  BY <1>1, <1>2

-----------------------------------------------------------------------------
(***************************************************************************)
(* The schedule.                                                           *)
(***************************************************************************)

\* The number of targets, and a sender's k-th as an index of the whole list.
Count(s) == s.replicas * s.tp
Seat(s, g, k) == g + (k - 1) * Senders(s)
Worker(s, i) == <<i \div s.tp, i % s.tp>>

Sizes(s) == s.gpus \in Nat \ {0} /\ s.replicas \in Nat \ {0} /\ s.tp \in Nat \ {0}

LEMMA CountPositive ==
  ASSUME NEW s, Sizes(s)
  PROVE  Count(s) \in Nat \ {0}
<1>1. s.replicas \in Nat /\ s.tp \in Nat /\ 1 <= s.replicas /\ 1 * s.tp = s.tp /\ s.tp # 0
  BY DEF Sizes
<1>2. 1 * s.tp <= s.replicas * s.tp /\ s.replicas * s.tp \in Nat
  BY <1>1, TimesMonotonic, TimesCommute
<1> QED
  BY <1>1, <1>2 DEF Count

LEMMA SendersPositive ==
  ASSUME NEW s, Sizes(s)
  PROVE  Senders(s) \in Nat \ {0}
<1>1. Count(s) \in Nat \ {0} /\ s.gpus \in Nat \ {0}
  BY CountPositive DEF Sizes
<1>2. Min({s.gpus, Count(s)}) \in Nat \ {0}
  BY <1>1, MinOfTwo
<1> QED
  BY <1>1, <1>2 DEF Senders, Count

LEMMA TargetsShape ==
  ASSUME NEW s, Sizes(s), NEW g \in 0 .. Senders(s) - 1
  PROVE  /\ Len(Targets(s, g)) \in Nat
         /\ DOMAIN Targets(s, g) = 1 .. Len(Targets(s, g))
         /\ Len(Targets(s, g)) = (Count(s) - g + Senders(s) - 1) \div Senders(s)
         /\ Targets(s, g) = <<>> <=> Len(Targets(s, g)) = 0
<1> DEFINE S == Senders(s)
           M == (Count(s) - g + S - 1) \div S
<1>1. S \in Nat \ {0} /\ Count(s) \in Nat \ {0}
  BY SendersPositive, CountPositive
<1>2. Count(s) - g + S - 1 \in Nat
  BY <1>1
<1>3. M \in Nat
  BY <1>1, <1>2, DivTimes
<1>4. AllTargets(s) = [i \in 1 .. Count(s) |-> Worker(s, i - 1)]
  BY DEF AllTargets, Count, Worker
<1>5. Len(AllTargets(s)) = Count(s)
  BY <1>1, <1>4
<1>6. Targets(s, g) = [k \in 1 .. M |-> AllTargets(s)[g + (k - 1) * S + 1]]
  BY <1>5 DEF Targets
<1> HIDE DEF M, S
<1>7. Len(Targets(s, g)) = M /\ DOMAIN Targets(s, g) = 1 .. M
  BY <1>3, <1>6
<1>8. Targets(s, g) = <<>> <=> M = 0
  <2>1. ASSUME M = 0 PROVE Targets(s, g) = <<>>
    BY <1>6, <2>1
  <2>2. ASSUME Targets(s, g) = <<>> PROVE M = 0
    BY <1>7, <2>2
  <2> QED
    BY <2>1, <2>2
<1> QED
  BY <1>3, <1>7, <1>8 DEF M, S

\* A sender's k-th target is the worker at its seat.
LEMMA TargetAtSeat ==
  ASSUME NEW s, Sizes(s), NEW g \in 0 .. Senders(s) - 1, NEW k \in DOMAIN Targets(s, g)
  PROVE  /\ Seat(s, g, k) \in 0 .. Count(s) - 1
         /\ Targets(s, g)[k] = Worker(s, Seat(s, g, k))
<1> DEFINE S == Senders(s)
           n == Count(s) - g + S - 1
           M == n \div S
<1>1. S \in Nat \ {0} /\ Count(s) \in Nat \ {0}
  BY SendersPositive, CountPositive
<1>2. n \in Nat
  BY <1>1
<1>3. M \in Nat /\ M * S \in Nat /\ M * S <= n
  BY <1>1, <1>2, DivTimes
<1>4. k \in 1 .. M
  BY TargetsShape
<1> HIDE DEF M, S
<1>5. k * S <= M * S
  BY <1>1, <1>3, <1>4, TimesMonotonic
<1>6. ((k - 1) + 1) * S = (k - 1) * S + S /\ (k - 1) * S \in Nat
  BY <1>1, <1>4, TimesNext, TimesCommute
<1>7. (k - 1) * S + S <= n
  <2>1. (k - 1) + 1 = k
    BY <1>4
  <2>2. (k - 1) * S + S <= M * S
    BY <1>5, <1>6, <2>1
  <2> HIDE DEF n
  <2> QED
    BY <1>1, <1>2, <1>3, <1>6, <2>2
<1>8. g + (k - 1) * S \in 0 .. Count(s) - 1
  BY <1>1, <1>6, <1>7 DEF S
<1>9. Targets(s, g)[k] = AllTargets(s)[g + (k - 1) * S + 1]
  <2>1. AllTargets(s) = [i \in 1 .. Count(s) |-> Worker(s, i - 1)]
    BY DEF AllTargets, Count, Worker
  <2>2. Len(AllTargets(s)) = Count(s)
    BY <1>1, <2>1
  <2>3. Targets(s, g) = [j \in 1 .. M |-> AllTargets(s)[g + (j - 1) * S + 1]]
    BY <2>2 DEF Targets, M, S
  <2> QED
    BY <1>4, <2>3
<1>10. AllTargets(s)[g + (k - 1) * S + 1] = Worker(s, g + (k - 1) * S)
  <2> DEFINE i == g + (k - 1) * S
  <2>1. i \in 0 .. Count(s) - 1
    BY <1>8
  <2> HIDE DEF i
  <2>2. i + 1 \in 1 .. Count(s) /\ (i + 1) - 1 = i
    BY <1>1, <2>1
  <2>3. AllTargets(s)[i + 1] = Worker(s, (i + 1) - 1)
    BY <2>2 DEF AllTargets, Count, Worker
  <2> QED
    BY <2>2, <2>3 DEF i
<1> QED
  BY <1>8, <1>9, <1>10 DEF Seat, S

\* Every seat is some sender's.
LEMMA SeatTaken ==
  ASSUME NEW s, Sizes(s), NEW i \in 0 .. Count(s) - 1
  PROVE  \E g \in 0 .. Senders(s) - 1 : \E k \in DOMAIN Targets(s, g) : Seat(s, g, k) = i
<1> DEFINE S == Senders(s)
           g == i % S
           q == i \div S
           n == Count(s) - g + S - 1
<1>1. S \in Nat \ {0} /\ Count(s) \in Nat \ {0}
  BY SendersPositive, CountPositive
<1>2. i \in Nat /\ i <= Count(s) - 1
  BY <1>1
<1>3. g \in 0 .. S - 1 /\ q \in Nat /\ i = q * S + g
  BY <1>1, <1>2, DivMod
<1>4. DOMAIN Targets(s, g) = 1 .. (n \div S)
  <2> HIDE DEF g
  <2> QED
    BY <1>3, TargetsShape
<1> HIDE DEF S, g, q
<1>5. q * S \in Nat /\ (q + 1) * S = q * S + S
  BY <1>1, <1>3, TimesNext, TimesCommute
<1>6. n \in Nat /\ (q + 1) * S <= n
  BY <1>1, <1>2, <1>3, <1>5
<1>7. q + 1 <= n \div S /\ n \div S \in Nat
  <2> HIDE DEF n
  <2>1. q + 1 \in Nat
    BY <1>3
  <2> QED
    BY <1>1, <1>6, <2>1, QuotientAtLeast, DivTimes
<1>8. q + 1 \in DOMAIN Targets(s, g)
  BY <1>3, <1>4, <1>7
<1>9. Seat(s, g, q + 1) = i
  <2>1. (q + 1) - 1 = q
    BY <1>3
  <2>2. Seat(s, g, q + 1) = g + q * S
    BY <2>1 DEF Seat, S
  <2> QED
    BY <1>3, <1>5, <2>2
<1> QED
  BY <1>3, <1>8, <1>9 DEF S

\* No two senders have the same seat, and no sender has one twice.
LEMMA SeatsApart ==
  ASSUME NEW s, Sizes(s), NEW g \in 0 .. Senders(s) - 1, NEW h \in 0 .. Senders(s) - 1,
         NEW k \in Nat \ {0}, NEW l \in Nat \ {0}, Seat(s, g, k) = Seat(s, h, l)
  PROVE  g = h /\ k = l
<1> DEFINE S == Senders(s)
<1>1. S \in Nat \ {0}
  BY SendersPositive
<1>2. g \in 0 .. S - 1 /\ h \in 0 .. S - 1
  OBVIOUS
<1>3. g + (k - 1) * S = h + (l - 1) * S
  BY DEF Seat
<1> HIDE DEF S
<1>4. k - 1 \in Nat /\ l - 1 \in Nat
  OBVIOUS
<1>5. (k - 1) * S \in Nat /\ (l - 1) * S \in Nat
  BY <1>1, <1>4, TimesCommute
<1>6. (k - 1) * S + g = (l - 1) * S + h
  BY <1>2, <1>3, <1>5
<1>7. ((k - 1) * S + g) % S = g /\ ((l - 1) * S + h) % S = h
  BY <1>1, <1>2, <1>4, ModUnique
<1>8. g = h
  BY <1>6, <1>7
<1>9. (k - 1) * S = (l - 1) * S
  BY <1>2, <1>5, <1>6, <1>8
<1>10. k - 1 = l - 1
  BY <1>1, <1>4, <1>9, TimesSame
<1> QED
  BY <1>8, <1>10

\* A sender has one target at most when there are as many senders as targets.
LEMMA OneSeat ==
  ASSUME NEW s, Sizes(s), NEW g \in 0 .. Senders(s) - 1, NEW k \in DOMAIN Targets(s, g),
         s.gpus >= Count(s)
  PROVE  k = 1
<1> DEFINE S == Senders(s)
<1>1. S \in Nat \ {0} /\ Count(s) \in Nat \ {0} /\ k \in Nat \ {0}
  BY SendersPositive, CountPositive, TargetsShape
<1>2. S >= Count(s)
  <2>1. Min({s.gpus, Count(s)}) \in {s.gpus, Count(s)}
    BY <1>1, MinOfTwo DEF Sizes
  <2> QED
    BY <1>1, <2>1 DEF Senders, Count, Sizes
<1>3. g + (k - 1) * S \in 0 .. Count(s) - 1 /\ g \in 0 .. S - 1
  BY TargetAtSeat DEF Seat
<1> HIDE DEF S
<1>4. k - 1 \in Nat /\ (k - 1) * S \in Nat /\ 1 * S = S
  BY <1>1, TimesCommute
<1>5. (k - 1) * S < 1 * S
  BY <1>1, <1>2, <1>3, <1>4
<1>6. k - 1 < 1
  BY <1>1, <1>4, <1>5, TimesCancel
<1> QED
  BY <1>1, <1>6

\* Different seats are different workers.
LEMMA WorkersApart ==
  ASSUME NEW s, Sizes(s), NEW i \in Nat, NEW j \in Nat, Worker(s, i) = Worker(s, j)
  PROVE  i = j
<1> DEFINE a == i \div s.tp
           y == i % s.tp
<1>1. s.tp \in Nat \ {0}
  BY DEF Sizes
<1>2. i = a * s.tp + y
  BY <1>1, DivMod
<1>3. j = (j \div s.tp) * s.tp + (j % s.tp)
  BY <1>1, DivMod
<1>4. j \div s.tp = a /\ j % s.tp = y
  BY DEF Worker
<1> HIDE DEF a, y
<1> QED
  BY <1>2, <1>3, <1>4

LEMMA TargetsApart ==
  ASSUME NEW s, Sizes(s), NEW g \in 0 .. Senders(s) - 1, NEW h \in 0 .. Senders(s) - 1,
         NEW k \in DOMAIN Targets(s, g), NEW l \in DOMAIN Targets(s, h),
         Targets(s, g)[k] = Targets(s, h)[l]
  PROVE  g = h /\ k = l
<1>1. k \in Nat \ {0} /\ l \in Nat \ {0}
  BY TargetsShape
<1>2. /\ Seat(s, g, k) \in 0 .. Count(s) - 1 /\ Targets(s, g)[k] = Worker(s, Seat(s, g, k))
      /\ Seat(s, h, l) \in 0 .. Count(s) - 1 /\ Targets(s, h)[l] = Worker(s, Seat(s, h, l))
  BY TargetAtSeat
<1>3. Seat(s, g, k) \in Nat /\ Seat(s, h, l) \in Nat
  BY <1>2, CountPositive
<1>4. Seat(s, g, k) = Seat(s, h, l)
  BY <1>2, <1>3, WorkersApart
<1> QED
  BY <1>1, <1>4, SeatsApart

\* The workers are the targets.
LEMMA WorkerIsTarget ==
  ASSUME NEW s, Sizes(s), NEW w \in (0 .. s.replicas - 1) \X (0 .. s.tp - 1)
  PROVE  \E g \in 0 .. Senders(s) - 1 : \E k \in DOMAIN Targets(s, g) : Targets(s, g)[k] = w
<1> DEFINE a == w[1]
           b == w[2]
           i == a * s.tp + b
<1>1. s.tp \in Nat \ {0} /\ s.replicas \in Nat \ {0}
  BY DEF Sizes
<1>2. a \in 0 .. s.replicas - 1 /\ b \in 0 .. s.tp - 1 /\ w = <<a, b>>
  OBVIOUS
<1> HIDE DEF a, b
<1>3. a \in Nat /\ a * s.tp \in Nat /\ (a + 1) * s.tp = a * s.tp + s.tp
  BY <1>1, <1>2, TimesNext, TimesCommute
<1>4. (a + 1) * s.tp <= s.replicas * s.tp /\ s.replicas * s.tp \in Nat
  <2>1. a + 1 <= s.replicas /\ a + 1 \in Nat
    BY <1>1, <1>2
  <2> QED
    BY <1>1, <2>1, TimesMonotonic, TimesCommute
<1>5. i \in 0 .. Count(s) - 1
  BY <1>1, <1>2, <1>3, <1>4 DEF Count
<1>6. i \div s.tp = a /\ i % s.tp = b
  BY <1>1, <1>2, <1>3, QuotientUnique, ModUnique
<1>7. Worker(s, i) = w
  BY <1>2, <1>6 DEF Worker
<1> HIDE DEF i
<1>8. PICK g \in 0 .. Senders(s) - 1 :
        \E k \in DOMAIN Targets(s, g) : Seat(s, g, k) = i
  BY <1>5, SeatTaken
<1>9. PICK k \in DOMAIN Targets(s, g) : Seat(s, g, k) = i
  BY <1>8
<1> QED
  BY <1>7, <1>9, TargetAtSeat

LEMMA TargetIsWorker ==
  ASSUME NEW s, Sizes(s), NEW g \in 0 .. Senders(s) - 1, NEW k \in DOMAIN Targets(s, g)
  PROVE  Targets(s, g)[k] \in (0 .. s.replicas - 1) \X (0 .. s.tp - 1)
<1> DEFINE i == Seat(s, g, k)
           a == i \div s.tp
           y == i % s.tp
<1>1. s.tp \in Nat \ {0} /\ s.replicas \in Nat \ {0}
  BY DEF Sizes
<1>2. i \in 0 .. Count(s) - 1 /\ Targets(s, g)[k] = Worker(s, i)
  BY TargetAtSeat
<1> HIDE DEF i
<1>3. Count(s) \in Nat \ {0} /\ i \in Nat
  BY <1>2, CountPositive
<1>4. a \in Nat /\ y \in 0 .. s.tp - 1 /\ a * s.tp \in Nat /\ a * s.tp <= i
  BY <1>1, <1>3, DivTimes, DivMod
<1>5. Worker(s, i) = <<a, y>>
  BY DEF Worker
<1> HIDE DEF a, y
<1>6. a * s.tp < s.replicas * s.tp
  BY <1>2, <1>3, <1>4 DEF Count
<1>7. a < s.replicas
  BY <1>1, <1>4, <1>6, TimesCancel
<1> QED
  BY <1>1, <1>2, <1>4, <1>5, <1>7

-----------------------------------------------------------------------------
(***************************************************************************)
(* The invariant: what a worker has, from where its sender is.             *)
(***************************************************************************)
SenderRecord(x) == x = [st |-> x.st, engines |-> x.engines, at |-> x.at, next |-> x.next]
WorkerRecord(x) == x = [st |-> x.st, port |-> x.port, got |-> x.got, bufs |-> x.bufs]

\* Sender g is where its call says: at a target it has.
Turned(g) ==
  /\ SenderRecord(senders[g])
  /\ senders[g].st \in {"idle", "connect", "send", "done"}
  /\ senders[g].st \in {"connect", "send"} =>
       /\ senders[g].next \in Nat \ {0}
       /\ Targets(set, g) # <<>> => senders[g].at \in DOMAIN Targets(set, g)

SyncTyped ==
  /\ set \in Settings /\ Buildable(set)
  /\ round \in Nat
  /\ DOMAIN senders = Ranks /\ \A g \in Ranks : Turned(g)
  /\ DOMAIN workers = Workers /\ \A w \in Workers : WorkerRecord(workers[w])
  /\ wgt \in [Workers -> [Expected -> 0 .. round]]

Before(m) == {set.ships[i] : i \in {j \in DOMAIN set.ships : j < m}}

\* A name received is in the model or kept for its module, of which a part is
\* missing; the parts of a module enter the model together.
Taken(w) ==
  /\ \A x \in workers[w].got \cap Expected : wgt[w][x] = round \/ x \in workers[w].bufs
  /\ \A x \in workers[w].bufs : ~(ModuleOf(x) \subseteq workers[w].bufs)
  /\ set.path # "fp8" => workers[w].bufs = {}
  /\ set.path = "fp8" =>
       \A x \in Expected : \A y \in ModuleOf(x) : (wgt[w][x] = round) <=> (wgt[w][y] = round)

Underway(w, m) ==
  /\ workers[w].st \in {"join", "receive"}
  /\ workers[w].got = Before(m)
  /\ Taken(w)

Finished(w) ==
  /\ workers[w].st \in {"done", "error"}
  /\ workers[w].st = "done" => \A n \in Expected : wgt[w][n] = round

Placed(g, k, w) ==
  /\ senders[g].st = "idle" => workers[w].st = "idle"
  /\ senders[g].st \in {"connect", "send"} =>
       /\ k < senders[g].at => Finished(w)
       /\ k = senders[g].at => Underway(w, senders[g].next)
       /\ k > senders[g].at => Underway(w, 1)
  /\ senders[g].st = "done" => Finished(w)

SyncInv ==
  /\ SyncTyped
  /\ \A g \in Ranks : \A k \in DOMAIN Targets(set, g) : Placed(g, k, Targets(set, g)[k])

Delivering == (\A s \in Settings : Buildable(s) => Delivers(s)) /\ FusedApart

-----------------------------------------------------------------------------
LEMMA SizesOf ==
  ASSUME NEW s, Delivers(s)
  PROVE  /\ Sizes(s)
         /\ s.ships \in Seq(ToSet(s.ships)) /\ s.ships # <<>>
         /\ s.iterable = "generator" => s.gpus >= Count(s)
  BY DEF Delivers, Sizes, Count

LEMMA ShipsShape ==
  ASSUME NEW s, Delivers(s)
  PROVE  /\ Len(s.ships) \in Nat \ {0} /\ DOMAIN s.ships = 1 .. Len(s.ships)
         /\ ToSet(s.ships) = {s.ships[i] : i \in DOMAIN s.ships}
<1>1. s.ships \in Seq(ToSet(s.ships)) /\ s.ships # <<>>
  BY SizesOf
<1>2. Len(s.ships) \in Nat \ {0} /\ DOMAIN s.ships = 1 .. Len(s.ships)
  BY <1>1
<1> QED
  BY <1>2 DEF ToSet

\* The places of the schedule, as the steps use them.
LEMMA Schedule ==
  ASSUME Delivers(set)
  PROVE  /\ Senders(set) \in Nat \ {0}
         /\ \A g \in Ranks :
              /\ Len(Targets(set, g)) \in Nat
              /\ DOMAIN Targets(set, g) = 1 .. Len(Targets(set, g))
              /\ (Targets(set, g) = <<>>) <=> (Len(Targets(set, g)) = 0)
              /\ \A k \in DOMAIN Targets(set, g) : Targets(set, g)[k] \in Workers
         /\ \A g, h \in Ranks :
              \A k \in DOMAIN Targets(set, g) : \A l \in DOMAIN Targets(set, h) :
                Targets(set, g)[k] = Targets(set, h)[l] => g = h /\ k = l
         /\ \A w \in Workers : \E g \in Ranks :
              \E k \in DOMAIN Targets(set, g) : Targets(set, g)[k] = w
         /\ Lazy => \A g \in Ranks : \A k \in DOMAIN Targets(set, g) : k = 1
<1>1. Sizes(set) /\ (Lazy => set.gpus >= Count(set))
  BY SizesOf DEF Lazy
<1>2. Senders(set) \in Nat \ {0}
  BY <1>1, SendersPositive
<1>3. \A g \in Ranks :
              /\ Len(Targets(set, g)) \in Nat
              /\ DOMAIN Targets(set, g) = 1 .. Len(Targets(set, g))
              /\ (Targets(set, g) = <<>>) <=> (Len(Targets(set, g)) = 0)
              /\ \A k \in DOMAIN Targets(set, g) : Targets(set, g)[k] \in Workers
  BY <1>1, TargetsShape, TargetIsWorker DEF Ranks, Workers
<1>4. \A g, h \in Ranks :
              \A k \in DOMAIN Targets(set, g) : \A l \in DOMAIN Targets(set, h) :
                Targets(set, g)[k] = Targets(set, h)[l] => g = h /\ k = l
  BY <1>1, TargetsApart DEF Ranks
<1>5. \A w \in Workers : \E g \in Ranks :
              \E k \in DOMAIN Targets(set, g) : Targets(set, g)[k] = w
  BY <1>1, WorkerIsTarget DEF Ranks, Workers
<1>6. Lazy => \A g \in Ranks : \A k \in DOMAIN Targets(set, g) : k = 1
  BY <1>1, OneSeat DEF Ranks
<1> QED
  BY <1>2, <1>3, <1>4, <1>5, <1>6

LEMMA SameModule ==
  \A x, y : y \in ModuleOf(x) <=> (y = x \/ \E f \in Fused : x \in f /\ y \in f)
<1> SUFFICES ASSUME NEW x, NEW y
             PROVE  y \in ModuleOf(x) <=> (y = x \/ \E f \in Fused : x \in f /\ y \in f)
  OBVIOUS
<1>1. y \in UNION {f \in Fused : x \in f} <=> \E f \in Fused : x \in f /\ y \in f
  OBVIOUS
<1> QED
  BY <1>1 DEF ModuleOf

LEMMA ModulesApart ==
  ASSUME FusedApart
  PROVE  /\ \A x : x \in ModuleOf(x)
         /\ \A x : \A y \in ModuleOf(x) : ModuleOf(y) = ModuleOf(x)
         /\ \A x \in Expected : ModuleOf(x) \subseteq Expected
<1>1. \A x : x \in ModuleOf(x)
  BY SameModule
<1>2. ASSUME NEW x, NEW y \in ModuleOf(x) PROVE ModuleOf(y) = ModuleOf(x)
  <2> SUFFICES ASSUME NEW z PROVE z \in ModuleOf(y) <=> z \in ModuleOf(x)
    OBVIOUS
  <2>1. y = x \/ \E f \in Fused : x \in f /\ y \in f
    BY SameModule
  <2>2. z \in ModuleOf(y) <=> (z = y \/ \E f \in Fused : y \in f /\ z \in f)
    BY SameModule
  <2>3. z \in ModuleOf(x) <=> (z = x \/ \E f \in Fused : x \in f /\ z \in f)
    BY SameModule
  <2>4. \A e, f \in Fused : y \in e /\ y \in f => e = f
    BY DEF FusedApart
  <2>5. \A e, f \in Fused : x \in e /\ x \in f => e = f
    BY DEF FusedApart
  <2> QED
    BY <2>1, <2>2, <2>3, <2>4, <2>5
<1>3. \A x \in Expected : ModuleOf(x) \subseteq Expected
  BY SameModule DEF FusedApart
<1> QED
  BY <1>1, <1>2, <1>3

\* The first target of a list, or the only one, is sent all that is left.
LEMMA RestIsAll ==
  ASSUME SyncTyped, Delivers(set), NEW g \in Ranks, senders[g].st = "send", Targets(set, g) # <<>>
  PROVE  /\ Remaining(g) = senders[g].next .. Len(Shipped)
         /\ Remaining(g) # {} => /\ NextWeight(g) = senders[g].next
                                 /\ senders[g].next \in DOMAIN set.ships
         /\ Remaining(g) = {} => Before(senders[g].next) = ToSet(set.ships)
<1>1. senders[g].next \in Nat \ {0} /\ senders[g].at \in DOMAIN Targets(set, g)
  BY DEF SyncTyped, Turned
<1>2. Lazy => senders[g].at = 1
  BY <1>1, Schedule
<1>3. Remaining(g) = senders[g].next .. Len(Shipped)
  BY <1>2 DEF Remaining
<1>4. Len(Shipped) \in Nat /\ DOMAIN set.ships = 1 .. Len(Shipped)
  BY ShipsShape DEF Shipped
<1>5. ASSUME Remaining(g) # {}
      PROVE  NextWeight(g) = senders[g].next /\ senders[g].next \in DOMAIN set.ships
  <2>1. senders[g].next <= Len(Shipped)
    BY <1>1, <1>3, <1>4, <1>5
  <2>2. Min(senders[g].next .. Len(Shipped)) = senders[g].next
    BY <1>1, <1>4, <2>1, MinOfStretch
  <2> QED
    BY <1>1, <1>3, <1>4, <2>1, <2>2 DEF NextWeight
<1>6. ASSUME Remaining(g) = {}
      PROVE  Before(senders[g].next) = ToSet(set.ships)
  <2>1. senders[g].next > Len(Shipped)
    BY <1>1, <1>3, <1>4, <1>6
  <2>2. {j \in DOMAIN set.ships : j < senders[g].next} = DOMAIN set.ships
    BY <1>1, <1>4, <2>1
  <2> QED
    BY <2>2, ShipsShape DEF Before
<1> QED
  BY <1>3, <1>5, <1>6

\* All names received, none of them waits for its module.
LEMMA AllTakenIsCurrent ==
  ASSUME FusedApart, NEW w \in Workers, Taken(w), Expected \subseteq workers[w].got
  PROVE  \A n \in Expected : wgt[w][n] = round
<1> SUFFICES ASSUME NEW n \in Expected, wgt[w][n] # round PROVE FALSE
  OBVIOUS
<1>1. n \in workers[w].bufs
  BY DEF Taken
<1>2. set.path = "fp8"
  BY <1>1 DEF Taken
<1>3. PICK y \in ModuleOf(n) : y \notin workers[w].bufs
  BY <1>1 DEF Taken
<1>4. y \in Expected
  BY ModulesApart
<1>5. wgt[w][y] = round
  BY <1>3, <1>4 DEF Taken
<1> QED
  BY <1>2, <1>5 DEF Taken

LEMMA SyncInvGivesCurrent ==
  ASSUME SyncInv, Delivering
  PROVE  DoneMeansCurrent
<1> SUFFICES ASSUME NEW w \in Workers, workers[w].st = "done"
             PROVE  \A n \in Expected : wgt[w][n] = round
  BY DEF DoneMeansCurrent
<1>1. Delivers(set)
  BY DEF SyncInv, SyncTyped, Delivering
<1>2. PICK g \in Ranks : \E k \in DOMAIN Targets(set, g) : Targets(set, g)[k] = w
  BY <1>1, Schedule
<1>3. PICK k \in DOMAIN Targets(set, g) : Targets(set, g)[k] = w
  BY <1>2
<1>4. Placed(g, k, w) /\ Turned(g) /\ k \in Nat
  BY <1>1, <1>3, Schedule DEF SyncInv, SyncTyped
<1>5. CASE senders[g].st \in {"connect", "send"}
  <2>1. Targets(set, g) # <<>>
    BY <1>1, <1>3, Schedule
  <2>2. senders[g].at \in Nat
    BY <1>1, <1>4, <1>5, <2>1, Schedule DEF Turned
  <2>3. k < senders[g].at
    BY <1>4, <1>5, <2>2 DEF Placed, Underway
  <2> QED
    BY <1>4, <1>5, <2>3 DEF Placed, Finished
<1>6. CASE senders[g].st \in {"idle", "done"}
  BY <1>4, <1>6 DEF Placed, Finished
<1> QED
  BY <1>4, <1>5, <1>6 DEF Turned

-----------------------------------------------------------------------------
LEMMA SyncFirst ==
  ASSUME SyncInit, Delivering
  PROVE  SyncInv
<1>1. Delivers(set)
  BY DEF SyncInit, Delivering
<1>2. /\ senders = [g \in Ranks |-> [st |-> "idle", engines |-> {}, at |-> 0, next |-> 0]]
      /\ workers = [w \in Workers |-> [st |-> "idle", port |-> 0, got |-> {}, bufs |-> {}]]
      /\ wgt = [w \in Workers |-> [n \in Expected |-> 0]] /\ round = 0
  BY DEF SyncInit
<1>3. \A g \in Ranks : senders[g] = [st |-> "idle", engines |-> {}, at |-> 0, next |-> 0]
  BY <1>2
<1>4. \A g \in Ranks : Turned(g)
  BY <1>3 DEF Turned, SenderRecord
<1>5. \A w \in Workers : workers[w] = [st |-> "idle", port |-> 0, got |-> {}, bufs |-> {}]
  BY <1>2
<1>6. \A w \in Workers : WorkerRecord(workers[w])
  BY <1>5 DEF WorkerRecord
<1>7. SyncTyped
  BY <1>2, <1>4, <1>6 DEF SyncTyped, SyncInit
<1>8. \A g \in Ranks : \A k \in DOMAIN Targets(set, g) : Placed(g, k, Targets(set, g)[k])
  BY <1>1, <1>3, <1>5, Schedule DEF Placed
<1> QED
  BY <1>7, <1>8 DEF SyncInv

-----------------------------------------------------------------------------
(***************************************************************************)
(* The steps.                                                              *)
(***************************************************************************)
LEMMA SameSetting ==
  ASSUME set' = set
  PROVE  Workers' = Workers /\ Ranks' = Ranks
  BY DEF Workers, Ranks

\* A place another sender's or another target's step leaves alone.
LEMMA PlacedKept ==
  ASSUME set' = set, round' = round, NEW g, NEW k, NEW w, Placed(g, k, w),
         senders[g].st' = senders[g].st \/ (senders[g].st = "connect" /\ senders[g].st' = "send"),
         senders[g].at' = senders[g].at,
         senders[g].next' = senders[g].next \/ k # senders[g].at,
         workers[w].st' = workers[w].st \/ (workers[w].st = "join" /\ workers[w].st' = "receive"),
         workers[w].got' = workers[w].got, workers[w].bufs' = workers[w].bufs,
         wgt[w]' = wgt[w]
  PROVE  Placed(g, k, w)'
<1>1. Taken(w) => Taken(w)'
  BY DEF Taken, ModuleOf
<1>2. \A m : Underway(w, m) => Underway(w, m)'
  BY <1>1 DEF Underway, Before
<1>3. Finished(w) => Finished(w)'
  BY DEF Finished
<1>4. CASE senders[g].st = "idle"
  BY <1>4 DEF Placed
<1>5. CASE senders[g].st = "done"
  BY <1>3, <1>5 DEF Placed
<1>6. CASE senders[g].st \in {"connect", "send"}
  BY <1>2, <1>3, <1>6 DEF Placed
<1>7. CASE senders[g].st \notin {"idle", "done", "connect", "send"}
  BY <1>7 DEF Placed
<1> QED
  BY <1>4, <1>5, <1>6, <1>7

LEMMA RoundBeginsKeeps ==
  ASSUME SyncInv, Delivering, RoundBegins
  PROVE  SyncInv'
<1>1. Delivers(set) /\ SyncTyped
  BY DEF SyncInv, SyncTyped, Delivering
<1>2. set' = set /\ wgt' = wgt /\ round' = round + 1 /\ Workers' = Workers /\ Ranks' = Ranks
  BY SameSetting DEF RoundBegins
<1>3. ASSUME NEW g \in Ranks
      PROVE  /\ senders'[g].st = "connect" /\ senders'[g].at = 1 /\ senders'[g].next = 1
             /\ SenderRecord(senders[g])'
  <2> DEFINE r == senders[g]
             s == senders'[g]
  <2>1. SenderRecord(r)
    BY <1>1 DEF SyncTyped, Turned
  <2>2. s = [r EXCEPT !.st = "connect", !.at = 1, !.next = 1]
    BY DEF RoundBegins
  <2> HIDE DEF r, s
  <2>3. s.st = "connect" /\ s.at = 1 /\ s.next = 1 /\ SenderRecord(s)
    BY <2>1, <2>2 DEF SenderRecord
  <2> QED
    BY <2>3 DEF s, SenderRecord
<1>4. ASSUME NEW w \in Workers
      PROVE  /\ workers'[w].st \in {"join", "receive"} /\ workers'[w].got = {} /\ workers'[w].bufs = {}
             /\ WorkerRecord(workers[w])'
  <2> DEFINE r == workers[w]
             s == workers'[w]
  <2>1. WorkerRecord(r)
    BY <1>1 DEF SyncTyped
  <2>2. PICK a \in {"join", "receive"} : s = [r EXCEPT !.st = a, !.got = {}, !.bufs = {}]
    BY DEF RoundBegins
  <2> HIDE DEF r, s
  <2>3. s.st = a /\ s.got = {} /\ s.bufs = {} /\ WorkerRecord(s)
    BY <2>1, <2>2 DEF WorkerRecord
  <2> QED
    BY <2>3 DEF s, WorkerRecord
<1>5. \A g \in Ranks : Turned(g)'
  <2> SUFFICES ASSUME NEW g \in Ranks PROVE Turned(g)'
    OBVIOUS
  <2>1. Targets(set, g) # <<>> => 1 \in DOMAIN Targets(set, g)
    BY <1>1, Schedule
  <2> QED
    BY <1>2, <1>3, <2>1 DEF Turned
<1>6. SyncTyped'
  <2>1. wgt \in [Workers -> [Expected -> 0 .. round]] /\ round \in Nat
    BY <1>1 DEF SyncTyped
  <2>2. 0 .. round \subseteq 0 .. round'
    BY <1>2, <2>1
  <2>3. \A w \in Workers : wgt[w] \in [Expected -> 0 .. round']
    BY <2>1, <2>2
  <2>4. wgt' \in [Workers -> [Expected -> 0 .. round']]
    BY <1>2, <2>1, <2>3
  <2>5. DOMAIN senders' = Ranks /\ DOMAIN workers' = Workers
    BY DEF RoundBegins
  <2>6. Expected' = Expected
    BY DEF Expected
  <2> QED
    BY <1>1, <1>2, <1>4, <1>5, <2>1, <2>4, <2>5, <2>6 DEF SyncTyped, Buildable
<1>7. ASSUME NEW w \in Workers PROVE Underway(w, 1)'
  <2>1. Before(1)' = {}
    <3>1. \A j \in DOMAIN set.ships : ~(j < 1)
      BY <1>1, ShipsShape
    <3> QED
      BY <1>2, <3>1 DEF Before
  <2>2. \A n \in Expected : wgt[w][n] # round'
    BY <1>1, <1>2 DEF SyncTyped
  <2>3. workers[w]'.st \in {"join", "receive"} /\ workers[w]'.got = {} /\ workers[w]'.bufs = {}
    BY <1>4
  <2>4. \A x \in Expected : ModuleOf(x) \subseteq Expected
    BY ModulesApart DEF Delivering
  <2>5. Taken(w)'
    BY <1>2, <2>2, <2>3, <2>4 DEF Taken, Expected, ModuleOf
  <2> QED
    BY <2>1, <2>3, <2>5 DEF Underway
<1>8. ASSUME NEW g \in Ranks, NEW k \in DOMAIN Targets(set, g)
      PROVE  Placed(g, k, Targets(set, g)[k])'
  <2>1. Targets(set, g)[k] \in Workers /\ k \in Nat \ {0}
    BY <1>1, Schedule
  <2>2. ~(k < 1) /\ Targets(set, g)' = Targets(set, g)
    BY <1>2, <2>1
  <2> QED
    BY <1>2, <1>3, <1>7, <2>1, <2>2 DEF Placed
<1> QED
  BY <1>2, <1>6, <1>8 DEF SyncInv

\* A step of sender g moves no other sender.
LEMMA OneSenderTurns ==
  ASSUME SyncTyped, set' = set, NEW g \in Ranks, NEW r, senders' = [senders EXCEPT ![g] = r],
         SenderRecord(r), r.st \in {"idle", "connect", "send", "done"},
         r.st \in {"connect", "send"} =>
           /\ r.next \in Nat \ {0}
           /\ Targets(set, g) # <<>> => r.at \in DOMAIN Targets(set, g)
  PROVE  /\ DOMAIN senders' = Ranks /\ senders'[g] = r
         /\ \A h \in Ranks : h # g => senders'[h] = senders[h]
         /\ \A h \in Ranks : Turned(h)'
<1>1. DOMAIN senders = Ranks /\ \A h \in Ranks : Turned(h)
  BY DEF SyncTyped
<1>2. DOMAIN senders' = Ranks /\ senders'[g] = r /\ \A h \in Ranks : h # g => senders'[h] = senders[h]
  BY <1>1
<1>3. ASSUME NEW h \in Ranks PROVE Turned(h)'
  <2>1. Targets(set, h)' = Targets(set, h)
    OBVIOUS
  <2>2. CASE h = g
    BY <1>2, <2>1, <2>2 DEF Turned, SenderRecord
  <2>3. CASE h # g
    BY <1>1, <1>2, <2>1, <2>3 DEF Turned, SenderRecord
  <2> QED
    BY <2>2, <2>3
<1> QED
  BY <1>2, <1>3

LEMMA OneWorkerSteps ==
  ASSUME SyncTyped, NEW w \in Workers, NEW q, workers' = [workers EXCEPT ![w] = q], WorkerRecord(q)
  PROVE  /\ DOMAIN workers' = Workers /\ workers'[w] = q
         /\ \A v \in Workers : v # w => workers'[v] = workers[v]
         /\ \A v \in Workers : WorkerRecord(workers[v])'
<1>1. DOMAIN workers = Workers /\ \A v \in Workers : WorkerRecord(workers[v])
  BY DEF SyncTyped
<1>2. DOMAIN workers' = Workers /\ workers'[w] = q /\ \A v \in Workers : v # w => workers'[v] = workers[v]
  BY <1>1
<1>3. ASSUME NEW v \in Workers PROVE WorkerRecord(workers[v])'
  BY <1>1, <1>2 DEF WorkerRecord
<1> QED
  BY <1>2, <1>3

LEMMA SyncTypedKept ==
  ASSUME SyncTyped, set' = set, round' = round, DOMAIN senders' = Ranks, DOMAIN workers' = Workers,
         \A g \in Ranks : Turned(g)', \A w \in Workers : WorkerRecord(workers[w])',
         wgt' \in [Workers -> [Expected -> 0 .. round]]
  PROVE  SyncTyped'
<1>1. Workers' = Workers /\ Ranks' = Ranks
  BY SameSetting
<1> QED
  BY <1>1 DEF SyncTyped, Buildable, Expected

\* What no step of the weights themselves touches stays as it is.
LEMMA PlacesKept ==
  ASSUME SyncInv, Delivers(set), set' = set, round' = round, wgt' = wgt,
         \A h \in Ranks :
           /\ senders'[h].st = senders[h].st \/ (senders[h].st = "connect" /\ senders'[h].st = "send")
           /\ senders'[h].at = senders[h].at /\ senders'[h].next = senders[h].next,
         \A v \in Workers :
           /\ workers'[v].st = workers[v].st \/ (workers[v].st = "join" /\ workers'[v].st = "receive")
           /\ workers'[v].got = workers[v].got /\ workers'[v].bufs = workers[v].bufs
  PROVE  (\A g \in Ranks : \A k \in DOMAIN Targets(set, g) : Placed(g, k, Targets(set, g)[k]))'
<1>1. Ranks' = Ranks
  BY SameSetting
<1>2. ASSUME NEW h \in Ranks, NEW k \in DOMAIN Targets(set, h)
      PROVE  Placed(h, k, Targets(set, h)[k])'
  <2>1. PICK v \in Workers : v = Targets(set, h)[k]
    BY Schedule
  <2>2. Placed(h, k, v)
    BY <2>1 DEF SyncInv
  <2>3. Placed(h, k, v)'
    BY <2>2, PlacedKept
  <2>4. (Targets(set, h)[k])' = v
    BY <2>1
  <2> QED
    BY <2>3, <2>4
<1> QED
  BY <1>1, <1>2

LEMMA ConnectKeeps ==
  ASSUME SyncInv, Delivering, NEW g \in Ranks, Connect(g)
  PROVE  SyncInv'
<1>1. Delivers(set) /\ SyncTyped
  BY DEF SyncInv, SyncTyped, Delivering
<1>2. /\ set' = set /\ wgt' = wgt /\ round' = round
      /\ senders[g].st = "connect"
  BY DEF Connect
<1>3. wgt' \in [Workers -> [Expected -> 0 .. round]]
  BY <1>1, <1>2 DEF SyncTyped
<1>4. /\ SenderRecord(senders[g]) /\ Turned(g)
      /\ DOMAIN workers = Workers /\ \A v \in Workers : WorkerRecord(workers[v])
  BY <1>1 DEF SyncTyped, Turned
<1>5. CASE UNCHANGED workers /\ senders' = [senders EXCEPT ![g].st = "send"]
  <2> DEFINE o == senders[g]
             r == [o EXCEPT !.st = "send"]
  <2>1. senders' = [senders EXCEPT ![g] = r]
    BY <1>5
  <2>2. SenderRecord(o)
    BY <1>4
  <2>3. SenderRecord(r) /\ r.st = "send" /\ r.at = o.at /\ r.next = o.next
    <3> HIDE DEF o
    <3> QED
      BY <2>2 DEF SenderRecord
  <2> HIDE DEF r
  <2>4. /\ DOMAIN senders' = Ranks /\ senders'[g] = r
        /\ \A h \in Ranks : h # g => senders'[h] = senders[h]
        /\ \A h \in Ranks : Turned(h)'
    BY <1>1, <1>2, <1>4, <2>1, <2>3, OneSenderTurns DEF Turned
  <2>5. SyncTyped'
    BY <1>1, <1>2, <1>3, <1>4, <1>5, <2>4, SyncTypedKept DEF WorkerRecord
  <2> QED
    BY <1>1, <1>2, <1>5, <2>3, <2>4, <2>5, PlacesKept DEF SyncInv
<1>6. ASSUME NEW w \in Workers, workers[w].st = "join",
             workers' = [workers EXCEPT ![w].st = "receive", ![w].port = PortOfWorker(w)],
             NEW v, senders' = [senders EXCEPT ![g].engines = @ \union {v}]
      PROVE  SyncInv'
  <2> DEFINE o == senders[g]
             e == o.engines \union {v}
             r == [o EXCEPT !.engines = e]
             u == workers[w]
             p == PortOfWorker(w)
             q == [u EXCEPT !.st = "receive", !.port = p]
  <2>1. senders' = [senders EXCEPT ![g] = r] /\ workers' = [workers EXCEPT ![w] = q]
    BY <1>6
  <2>2. SenderRecord(o) /\ WorkerRecord(u)
    BY <1>4
  <2>3. SenderRecord(r) /\ r.st = o.st /\ r.at = o.at /\ r.next = o.next
    <3> HIDE DEF o, e
    <3> QED
      BY <2>2 DEF SenderRecord
  <2>4. WorkerRecord(q) /\ q.st = "receive" /\ q.got = u.got /\ q.bufs = u.bufs
    <3> HIDE DEF u, p
    <3>1. PICK s : s = q
      OBVIOUS
    <3>2. s = [u EXCEPT !.st = "receive", !.port = p]
      BY <3>1
    <3> HIDE DEF q
    <3>3. WorkerRecord(s) /\ s.st = "receive" /\ s.got = u.got /\ s.bufs = u.bufs
      BY <2>2, <3>2 DEF WorkerRecord
    <3> QED
      BY <3>1, <3>3
  <2> HIDE DEF r, q
  <2>5. /\ DOMAIN senders' = Ranks /\ senders'[g] = r
        /\ \A h \in Ranks : h # g => senders'[h] = senders[h]
        /\ \A h \in Ranks : Turned(h)'
    BY <1>1, <1>2, <1>4, <2>1, <2>3, OneSenderTurns DEF Turned
  <2>6. /\ DOMAIN workers' = Workers /\ workers'[w] = q
        /\ \A x \in Workers : x # w => workers'[x] = workers[x]
        /\ \A x \in Workers : WorkerRecord(workers[x])'
    BY <1>1, <2>1, <2>4, OneWorkerSteps
  <2>7. SyncTyped'
    BY <1>1, <1>2, <1>3, <2>5, <2>6, SyncTypedKept
  <2> QED
    BY <1>1, <1>2, <1>6, <2>3, <2>4, <2>5, <2>6, <2>7, PlacesKept DEF SyncInv
<1> QED
  BY <1>5, <1>6 DEF Connect

LEMMA CloseKeeps ==
  ASSUME SyncInv, Delivering, Close
  PROVE  SyncInv'
<1>1. Delivers(set) /\ SyncTyped
  BY DEF SyncInv, SyncTyped, Delivering
<1>2. set' = set /\ wgt' = wgt /\ round' = round
  BY DEF Close
<1>3. wgt' \in [Workers -> [Expected -> 0 .. round]] /\ DOMAIN senders' = Ranks /\ DOMAIN workers' = Workers
  BY <1>1, <1>2 DEF SyncTyped, Close
<1>4. ASSUME NEW g \in Ranks
      PROVE  /\ senders'[g].st = senders[g].st /\ senders'[g].at = senders[g].at /\ senders'[g].next = senders[g].next
             /\ SenderRecord(senders[g])' /\ Turned(g)'
  <2> DEFINE r == senders[g]
             s == senders'[g]
  <2>1. SenderRecord(r) /\ Turned(g)
    BY <1>1 DEF SyncTyped, Turned
  <2>2. s = [r EXCEPT !.engines = {}]
    BY DEF Close
  <2>3. s.st = r.st /\ s.at = r.at /\ s.next = r.next /\ SenderRecord(s)
    <3> HIDE DEF r, s
    <3> QED
      BY <2>1, <2>2 DEF SenderRecord
  <2>4. Turned(g)'
    BY <1>2, <2>1, <2>3 DEF Turned, SenderRecord
  <2> QED
    BY <2>3, <2>4 DEF SenderRecord
<1>5. ASSUME NEW w \in Workers
      PROVE  /\ workers'[w].st = workers[w].st /\ workers'[w].got = workers[w].got /\ workers'[w].bufs = workers[w].bufs
             /\ WorkerRecord(workers[w])'
  <2> DEFINE r == workers[w]
             s == workers'[w]
  <2>1. WorkerRecord(r)
    BY <1>1 DEF SyncTyped
  <2>2. s = [r EXCEPT !.port = 0]
    BY DEF Close
  <2> HIDE DEF r, s
  <2>3. s.st = r.st /\ s.got = r.got /\ s.bufs = r.bufs /\ WorkerRecord(s)
    BY <2>1, <2>2 DEF WorkerRecord
  <2> QED
    BY <2>3 DEF r, s, WorkerRecord
<1>6. SyncTyped'
  BY <1>1, <1>2, <1>3, <1>4, <1>5, SyncTypedKept
<1> QED
  BY <1>1, <1>2, <1>4, <1>5, <1>6, PlacesKept DEF SyncInv

Updater(w, n) ==
  IF set.path = "fp8" THEN Fed(workers[w].bufs, n) ELSE [bufs |-> {}, written |-> {n}]

\* What a received weight does to its worker, and to no other.
LEMMA LoadsOne ==
  ASSUME SyncTyped, NEW w \in Workers, NEW n, Loads(w, n),
         NEW fed, fed = Updater(w, n)
  PROVE  /\ DOMAIN workers' = Workers /\ \A v \in Workers : WorkerRecord(workers[v])'
         /\ \A v \in Workers : v # w => workers'[v] = workers[v] /\ wgt'[v] = wgt[v]
         /\ workers'[w].st = workers[w].st /\ workers'[w].got = workers[w].got \union {n}
         /\ workers'[w].bufs = fed.bufs
         /\ \A x \in Expected : wgt'[w][x] = IF x \in fed.written THEN round ELSE wgt[w][x]
         /\ wgt' \in [Workers -> [Expected -> 0 .. round]]
<1> DEFINE u == workers[w]
           b == fed.bufs
           m == u.got \union {n}
           q == [u EXCEPT !.got = m, !.bufs = b]
           z == [x \in Expected |-> IF x \in fed.written THEN round ELSE wgt[w][x]]
<1>1. WorkerRecord(u) /\ DOMAIN wgt[w] = Expected /\ round \in 0 .. round
      /\ wgt \in [Workers -> [Expected -> 0 .. round]]
  BY DEF SyncTyped
<1>2. workers' = [workers EXCEPT ![w] = q]
  BY DEF Loads, Updater
<1>3. wgt' = [wgt EXCEPT ![w] = z]
  BY <1>1 DEF Loads, Updater
<1>4. WorkerRecord(q) /\ q.st = u.st /\ q.got = m /\ q.bufs = b
  <2> HIDE DEF u, m, b
  <2>1. PICK s : s = q
    OBVIOUS
  <2>2. s = [u EXCEPT !.got = m, !.bufs = b]
    BY <2>1
  <2> HIDE DEF q
  <2>3. WorkerRecord(s) /\ s.st = u.st /\ s.got = m /\ s.bufs = b
    BY <1>1, <2>2 DEF WorkerRecord
  <2> QED
    BY <2>1, <2>3
<1> HIDE DEF q
<1>5. /\ DOMAIN workers' = Workers /\ workers'[w] = q
      /\ \A v \in Workers : v # w => workers'[v] = workers[v]
      /\ \A v \in Workers : WorkerRecord(workers[v])'
  BY <1>2, <1>4, OneWorkerSteps
<1>6. z \in [Expected -> 0 .. round]
  BY <1>1
<1>7. \A x \in Expected : z[x] = IF x \in fed.written THEN round ELSE wgt[w][x]
  OBVIOUS
<1> HIDE DEF z
<1>8. /\ wgt'[w] = z /\ \A v \in Workers : v # w => wgt'[v] = wgt[v]
      /\ wgt' \in [Workers -> [Expected -> 0 .. round]]
  BY <1>1, <1>3, <1>6
<1> QED
  BY <1>4, <1>5, <1>7, <1>8

LEMMA LoadsTakes ==
  ASSUME SyncTyped, FusedApart, NEW w \in Workers, NEW n, Loads(w, n), Taken(w),
         set' = set, round' = round
  PROVE  Taken(w)'
<1>1. PICK fed : fed = Updater(w, n)
  OBVIOUS
<1>2. /\ workers'[w].got = workers[w].got \union {n} /\ workers'[w].bufs = fed.bufs
      /\ \A x \in Expected : wgt'[w][x] = IF x \in fed.written THEN round ELSE wgt[w][x]
  BY <1>1, LoadsOne
<1>3. \A x : ModuleOf(x)' = ModuleOf(x)
  BY DEF ModuleOf
<1>4. Expected' = Expected
  BY DEF Expected
<1>5. CASE set.path # "fp8"
  <2>1. fed.bufs = {} /\ fed.written = {n}
    BY <1>1, <1>5 DEF Updater
  <2>2. workers[w].bufs = {}
    BY <1>5 DEF Taken
  <2>3. \A x \in workers'[w].got \cap Expected : wgt'[w][x] = round
    BY <1>2, <2>1, <2>2 DEF Taken
  <2> QED
    BY <1>2, <1>4, <1>5, <2>1, <2>3 DEF Taken
<1>6. CASE set.path = "fp8" /\ ModuleOf(n) \subseteq workers[w].bufs \union {n}
  <2>1. fed.bufs = workers[w].bufs \ ModuleOf(n) /\ fed.written = ModuleOf(n)
    BY <1>1, <1>6 DEF Fed, Updater
  <2>2. ASSUME NEW x \in workers'[w].got \cap Expected
        PROVE  wgt'[w][x] = round \/ x \in workers'[w].bufs
    <3>1. CASE x \in ModuleOf(n)
      BY <1>2, <2>1, <3>1
    <3>2. CASE x \notin ModuleOf(n)
      BY <1>2, <2>1, <3>2, ModulesApart DEF Taken
    <3> QED
      BY <3>1, <3>2
  <2>3. \A x \in workers'[w].bufs : ~(ModuleOf(x) \subseteq workers'[w].bufs)
    <3> SUFFICES ASSUME NEW x \in workers'[w].bufs PROVE ~(ModuleOf(x) \subseteq workers'[w].bufs)
      OBVIOUS
    <3>1. PICK y \in ModuleOf(x) : y \notin workers[w].bufs
      BY <1>2, <2>1 DEF Taken
    <3> QED
      BY <1>2, <2>1, <3>1
  <2>4. ASSUME NEW x \in Expected, NEW y \in ModuleOf(x)
        PROVE  (wgt'[w][x] = round) <=> (wgt'[w][y] = round)
    <3>1. y \in Expected /\ ModuleOf(y) = ModuleOf(x) /\ x \in ModuleOf(x) /\ y \in ModuleOf(y)
      BY ModulesApart
    <3>2. (x \in ModuleOf(n)) <=> (y \in ModuleOf(n))
      BY <3>1, ModulesApart
    <3>3. (wgt[w][x] = round) <=> (wgt[w][y] = round)
      BY <1>6 DEF Taken
    <3> QED
      BY <1>2, <2>1, <3>1, <3>2, <3>3
  <2>5. (\A x \in Expected : \A y \in ModuleOf(x) :
           (wgt[w][x] = round) <=> (wgt[w][y] = round))'
    BY <1>3, <1>4, <2>4
  <2> QED
    BY <1>3, <1>4, <1>6, <2>2, <2>3, <2>5 DEF Taken
<1>7. CASE set.path = "fp8" /\ ~(ModuleOf(n) \subseteq workers[w].bufs \union {n})
  <2>1. fed.bufs = workers[w].bufs \union {n} /\ fed.written = {}
    BY <1>1, <1>7 DEF Fed, Updater
  <2>2. \A x \in workers'[w].got \cap Expected : wgt'[w][x] = round \/ x \in workers'[w].bufs
    BY <1>2, <2>1 DEF Taken
  <2>3. ASSUME NEW x \in workers'[w].bufs, ModuleOf(x) \subseteq workers'[w].bufs PROVE FALSE
    <3>1. CASE x = n
      BY <1>2, <1>7, <2>1, <2>3, <3>1
    <3>2. CASE x # n
      <4>1. PICK y \in ModuleOf(x) : y \notin workers[w].bufs
        BY <1>2, <2>1, <3>2 DEF Taken
      <4>2. y = n
        BY <1>2, <2>1, <2>3, <4>1
      <4>3. ModuleOf(n) = ModuleOf(x)
        BY <4>1, <4>2, ModulesApart
      <4> QED
        BY <1>2, <1>7, <2>1, <2>3, <4>3
    <3> QED
      BY <3>1, <3>2
  <2>4. ASSUME NEW x \in Expected, NEW y \in ModuleOf(x)
        PROVE  (wgt'[w][x] = round) <=> (wgt'[w][y] = round)
    <3>1. y \in Expected
      BY ModulesApart
    <3>2. (wgt[w][x] = round) <=> (wgt[w][y] = round)
      BY <1>7 DEF Taken
    <3> QED
      BY <1>2, <2>1, <3>1, <3>2
  <2>5. (\A x \in Expected : \A y \in ModuleOf(x) :
           (wgt[w][x] = round) <=> (wgt[w][y] = round))'
    BY <1>3, <1>4, <2>4
  <2> QED
    BY <1>3, <1>4, <1>7, <2>2, <2>3, <2>5 DEF Taken
<1> QED
  BY <1>5, <1>6, <1>7

\* The sender's step to another weight, common to the ranks with a target and
\* without one.
LEMMA NextTurn ==
  ASSUME SyncTyped, Delivers(set), set' = set, NEW g \in Ranks, senders[g].st = "send",
         NEW m \in Nat \ {0}, senders' = [senders EXCEPT ![g].next = m]
  PROVE  /\ DOMAIN senders' = Ranks /\ \A h \in Ranks : Turned(h)'
         /\ \A h \in Ranks : senders'[h].st = senders[h].st /\ senders'[h].at = senders[h].at
         /\ senders'[g].next = m /\ \A h \in Ranks : h # g => senders'[h].next = senders[h].next
<1> DEFINE o == senders[g]
           r == [o EXCEPT !.next = m]
<1>1. SenderRecord(o) /\ Turned(g)
  BY DEF SyncTyped, Turned
<1>2. SenderRecord(r) /\ r.st = o.st /\ r.at = o.at /\ r.next = m
  <2> HIDE DEF o
  <2> QED
    BY <1>1 DEF SenderRecord
<1>3. senders' = [senders EXCEPT ![g] = r]
  OBVIOUS
<1> HIDE DEF r
<1>4. /\ DOMAIN senders' = Ranks /\ senders'[g] = r
      /\ \A h \in Ranks : h # g => senders'[h] = senders[h]
      /\ \A h \in Ranks : Turned(h)'
  BY <1>1, <1>2, <1>3, OneSenderTurns DEF Turned
<1> QED
  BY <1>2, <1>4

\* A place with another sender or further along, after a step that changes one
\* worker and one sender's turn.
LEMMA OtherPlaces ==
  ASSUME SyncInv, Delivers(set), set' = set, round' = round,
         NEW g \in Ranks, NEW i \in DOMAIN Targets(set, g), NEW w, w = Targets(set, g)[i],
         \A v \in Workers : v # w => workers'[v] = workers[v] /\ wgt'[v] = wgt[v],
         NEW h \in Ranks, NEW k \in DOMAIN Targets(set, h), h # g \/ k # i
  PROVE  /\ Targets(set, h)[k] \in Workers /\ Targets(set, h)[k] # w
         /\ workers'[Targets(set, h)[k]] = workers[Targets(set, h)[k]]
         /\ wgt'[Targets(set, h)[k]] = wgt[Targets(set, h)[k]]
         /\ Placed(h, k, Targets(set, h)[k])
<1>1. Targets(set, h)[k] \in Workers /\ Targets(set, h)[k] # w
  BY Schedule
<1> QED
  BY <1>1 DEF SyncInv

LEMMA BeforeNext ==
  ASSUME Delivers(set), set' = set, NEW m \in DOMAIN set.ships
  PROVE  Before(m + 1)' = Before(m) \union {set.ships[m]}
<1>1. DOMAIN set.ships = 1 .. Len(set.ships) /\ Len(set.ships) \in Nat
  BY ShipsShape
<1>2. {j \in DOMAIN set.ships : j < m + 1} = {j \in DOMAIN set.ships : j < m} \union {m}
  BY <1>1
<1> QED
  BY <1>2 DEF Before

LEMMA SendWeightKeeps ==
  ASSUME SyncInv, Delivering, NEW g \in Ranks, SendWeight(g)
  PROVE  SyncInv'
<1>1. Delivers(set) /\ SyncTyped /\ FusedApart
  BY DEF SyncInv, SyncTyped, Delivering
<1>2. /\ set' = set /\ round' = round /\ Ranks' = Ranks
      /\ Targets(set, g) # <<>> /\ senders[g].st = "send" /\ Remaining(g) # {}
  BY SameSetting DEF SendWeight, Sending
<1>3. PICK i : i = senders[g].at
  OBVIOUS
<1>4. PICK m : m = senders[g].next
  OBVIOUS
<1>5. /\ i \in DOMAIN Targets(set, g) /\ m \in Nat \ {0}
      /\ NextWeight(g) = m /\ m \in DOMAIN set.ships
  BY <1>1, <1>2, <1>3, <1>4, RestIsAll DEF SyncTyped, Turned
<1>6. PICK w \in Workers : w = Targets(set, g)[i]
  BY <1>1, <1>5, Schedule
<1>7. /\ workers[w].st = "receive" /\ Loads(w, set.ships[m])
      /\ senders' = [senders EXCEPT ![g].next = m + 1]
  BY <1>3, <1>5, <1>6 DEF SendWeight, Shipped
<1>8. PICK n : n = set.ships[m]
  OBVIOUS
<1>9. Placed(g, i, w)
  BY <1>5, <1>6 DEF SyncInv
<1>10. Underway(w, m)
  BY <1>2, <1>3, <1>4, <1>9 DEF Placed
<1>11. PICK fed : fed = Updater(w, n)
  OBVIOUS
<1>12. /\ DOMAIN workers' = Workers /\ \A v \in Workers : WorkerRecord(workers[v])'
       /\ \A v \in Workers : v # w => workers'[v] = workers[v] /\ wgt'[v] = wgt[v]
       /\ workers'[w].st = workers[w].st /\ workers'[w].got = workers[w].got \union {n}
       /\ wgt' \in [Workers -> [Expected -> 0 .. round]]
  BY <1>1, <1>7, <1>8, <1>11, LoadsOne
<1>13. Taken(w)'
  BY <1>1, <1>2, <1>7, <1>8, <1>10, LoadsTakes DEF Underway
<1>14. Underway(w, m + 1)'
  BY <1>1, <1>2, <1>5, <1>8, <1>10, <1>12, <1>13, BeforeNext DEF Underway
<1>15. m + 1 \in Nat \ {0}
  BY <1>5
<1>16. /\ DOMAIN senders' = Ranks /\ \A h \in Ranks : Turned(h)'
       /\ \A h \in Ranks : senders'[h].st = senders[h].st /\ senders'[h].at = senders[h].at
       /\ senders'[g].next = m + 1 /\ \A h \in Ranks : h # g => senders'[h].next = senders[h].next
  BY <1>1, <1>2, <1>7, <1>15, NextTurn
<1>17. SyncTyped'
  BY <1>1, <1>2, <1>12, <1>16, SyncTypedKept
<1>18. ASSUME NEW h \in Ranks, NEW k \in DOMAIN Targets(set, h)
       PROVE  Placed(h, k, Targets(set, h)[k])'
  <2>1. CASE h = g /\ k = i
    <3>1. Placed(g, i, w)'
      <4>1. i \in Nat /\ senders'[g].st = "send" /\ senders'[g].at = i /\ senders'[g].next = m + 1
        BY <1>1, <1>2, <1>3, <1>5, <1>16, Schedule
      <4> QED
        BY <1>14, <4>1 DEF Placed
    <3> QED
      BY <1>2, <1>6, <2>1, <3>1
  <2>2. CASE h # g \/ k # i
    <3>1. PICK v : v = Targets(set, h)[k]
      OBVIOUS
    <3>2. v \in Workers /\ workers'[v] = workers[v] /\ wgt'[v] = wgt[v] /\ Placed(h, k, v)
      BY <1>1, <1>2, <1>5, <1>6, <1>12, <2>2, <3>1, OtherPlaces
    <3>3. senders'[h].next = senders[h].next \/ k # senders[h].at
      BY <1>3, <1>16, <2>2
    <3>4. Placed(h, k, v)'
      BY <1>2, <1>16, <3>2, <3>3, PlacedKept
    <3> QED
      BY <1>2, <3>1, <3>4
  <2> QED
    BY <2>1, <2>2
<1> QED
  BY <1>2, <1>17, <1>18 DEF SyncInv

LEMMA ParticipateKeeps ==
  ASSUME SyncInv, Delivering, NEW g \in Ranks, Participate(g)
  PROVE  SyncInv'
<1>1. Delivers(set) /\ SyncTyped
  BY DEF SyncInv, SyncTyped, Delivering
<1>2. /\ set' = set /\ round' = round /\ wgt' = wgt /\ workers' = workers
      /\ Workers' = Workers /\ Ranks' = Ranks
      /\ Targets(set, g) = <<>> /\ senders[g].st = "send" /\ Remaining(g) # {}
  BY SameSetting DEF Participate, Sending
<1>3. PICK m : m = NextWeight(g) + 1
  OBVIOUS
<1>4. m \in Nat \ {0}
  <2>1. senders[g].next \in Nat \ {0} /\ Len(Shipped) \in Nat
    BY <1>1, <1>2, ShipsShape DEF SyncTyped, Turned, Shipped
  <2>2. Remaining(g) \in SUBSET Nat
    BY <2>1 DEF Remaining
  <2>3. \E x \in Remaining(g) : \A y \in Remaining(g) : x <= y
    BY <1>2, <2>2, Smallest
  <2>4. NextWeight(g) \in Remaining(g)
    BY <2>3 DEF NextWeight, Min
  <2> QED
    BY <1>3, <2>2, <2>4
<1>5. senders' = [senders EXCEPT ![g].next = m]
  BY <1>3 DEF Participate
<1>6. /\ DOMAIN senders' = Ranks /\ \A h \in Ranks : Turned(h)'
      /\ \A h \in Ranks : senders'[h].st = senders[h].st /\ senders'[h].at = senders[h].at
      /\ \A h \in Ranks : h # g => senders'[h].next = senders[h].next
  BY <1>1, <1>2, <1>4, <1>5, NextTurn
<1>7. SyncTyped'
  <2>1. DOMAIN workers' = Workers /\ \A w \in Workers : WorkerRecord(workers[w])'
    BY <1>1, <1>2 DEF SyncTyped, WorkerRecord
  <2> QED
    BY <1>1, <1>2, <1>6, <2>1, SyncTypedKept DEF SyncTyped
<1>8. ASSUME NEW h \in Ranks, NEW k \in DOMAIN Targets(set, h)
      PROVE  Placed(h, k, Targets(set, h)[k])'
  <2>1. h # g
    BY <1>1, <1>2, Schedule
  <2>2. PICK v : v = Targets(set, h)[k]
    OBVIOUS
  <2>3. Placed(h, k, v)
    BY <2>2 DEF SyncInv
  <2>4. Placed(h, k, v)'
    BY <1>2, <1>6, <2>1, <2>3, PlacedKept
  <2> QED
    BY <1>2, <2>2, <2>4
<1> QED
  BY <1>2, <1>7, <1>8 DEF SyncInv

\* A worker that was sent everything and did not refuse it.
LEMMA ServedIsFinished ==
  ASSUME SyncInv, Delivering, NEW w \in Workers, Taken(w), workers[w].got = ToSet(set.ships),
         ~NamesRefused(w)
  PROVE  \A n \in Expected : wgt[w][n] = round
<1>1. Delivers(set) /\ FusedApart
  BY DEF SyncInv, SyncTyped, Delivering
<1>2. ToSet(set.ships) # {}
  <2>1. 1 \in DOMAIN set.ships
    BY <1>1, ShipsShape
  <2>2. ToSet(set.ships) = {set.ships[i] : i \in DOMAIN set.ships}
    BY <1>1, ShipsShape
  <2>3. set.ships[1] \in ToSet(set.ships)
    BY <2>1, <2>2, Zenon
  <2> QED
    BY <2>3
<1>3. Expected \subseteq workers[w].got
  BY <1>1, <1>2 DEF NamesRefused, Delivers
<1> QED
  BY <1>1, <1>3, AllTakenIsCurrent

LEMMA TargetServedKeeps ==
  ASSUME SyncInv, Delivering, NEW g \in Ranks, TargetServed(g)
  PROVE  SyncInv'
<1>1. Delivers(set) /\ SyncTyped /\ FusedApart
  BY DEF SyncInv, SyncTyped, Delivering
<1>2. /\ set' = set /\ round' = round /\ wgt' = wgt /\ Ranks' = Ranks /\ Expected' = Expected
      /\ Targets(set, g) # <<>> /\ senders[g].st = "send" /\ Remaining(g) = {}
  BY SameSetting DEF TargetServed, Expected
<1>3. PICK i : i = senders[g].at
  OBVIOUS
<1>4. PICK N : N = Len(Targets(set, g))
  OBVIOUS
<1>5. N \in Nat /\ DOMAIN Targets(set, g) = 1 .. N /\ i \in 1 .. N
  BY <1>1, <1>2, <1>3, <1>4, Schedule DEF SyncTyped, Turned
<1>6. PICK w \in Workers : w = Targets(set, g)[i]
  BY <1>1, <1>5, Schedule
<1>7. Placed(g, i, w)
  BY <1>5, <1>6 DEF SyncInv
<1>8. Underway(w, senders[g].next)
  BY <1>2, <1>3, <1>5, <1>7 DEF Placed
<1>9. Taken(w) /\ workers[w].got = ToSet(set.ships)
  BY <1>1, <1>2, <1>8, RestIsAll DEF Underway
<1>10. PICK e : e = IF NamesRefused(w) THEN "error" ELSE "done"
  OBVIOUS
<1>11. PICK a : a = IF i < N THEN "send" ELSE "done"
  OBVIOUS
<1>12. PICK b : b = IF i < N THEN i + 1 ELSE i
  OBVIOUS
<1>13. /\ e \in {"error", "done"} /\ a \in {"send", "done"} /\ b \in 1 .. N
       /\ a = "send" => b = i + 1
  BY <1>5, <1>10, <1>11, <1>12
<1>14. workers' = [workers EXCEPT ![w].st = e]
  BY <1>3, <1>6, <1>10 DEF TargetServed
<1>15. senders' = [senders EXCEPT ![g].st = a, ![g].at = b, ![g].next = 1]
  BY <1>3, <1>4, <1>11, <1>12 DEF TargetServed
<1> DEFINE o == senders[g]
           r == [o EXCEPT !.st = a, !.at = b, !.next = 1]
           u == workers[w]
           q == [u EXCEPT !.st = e]
<1>16. SenderRecord(o) /\ WorkerRecord(u) /\ Turned(g)
  BY <1>1 DEF SyncTyped, Turned
<1>17. SenderRecord(r) /\ r.st = a /\ r.at = b /\ r.next = 1
  <2> HIDE DEF o
  <2>1. PICK s : s = r
    OBVIOUS
  <2>2. s = [o EXCEPT !.st = a, !.at = b, !.next = 1]
    BY <2>1
  <2> HIDE DEF r
  <2>3. SenderRecord(s) /\ s.st = a /\ s.at = b /\ s.next = 1
    BY <1>16, <2>2 DEF SenderRecord
  <2> QED
    BY <2>1, <2>3
<1>18. WorkerRecord(q) /\ q.st = e /\ q.got = u.got /\ q.bufs = u.bufs
  <2> HIDE DEF u
  <2>1. PICK s : s = q
    OBVIOUS
  <2>2. s = [u EXCEPT !.st = e]
    BY <2>1
  <2> HIDE DEF q
  <2>3. WorkerRecord(s) /\ s.st = e /\ s.got = u.got /\ s.bufs = u.bufs
    BY <1>16, <2>2 DEF WorkerRecord
  <2> QED
    BY <2>1, <2>3
<1>19. senders' = [senders EXCEPT ![g] = r] /\ workers' = [workers EXCEPT ![w] = q]
  BY <1>14, <1>15
<1> HIDE DEF r, q
<1>20. /\ DOMAIN senders' = Ranks /\ senders'[g] = r
       /\ \A h \in Ranks : h # g => senders'[h] = senders[h]
       /\ \A h \in Ranks : Turned(h)'
  <2>1. /\ r.st \in {"idle", "connect", "send", "done"}
        /\ r.next \in Nat \ {0} /\ r.at \in DOMAIN Targets(set, g)
    BY <1>5, <1>13, <1>17
  <2>2. SyncTyped /\ set' = set /\ SenderRecord(r) /\ senders' = [senders EXCEPT ![g] = r]
    BY <1>1, <1>2, <1>17, <1>19
  <2> QED
    BY <2>1, <2>2, OneSenderTurns
<1>21. /\ DOMAIN workers' = Workers /\ workers'[w] = q
       /\ \A v \in Workers : v # w => workers'[v] = workers[v]
       /\ \A v \in Workers : WorkerRecord(workers[v])'
  BY <1>1, <1>18, <1>19, OneWorkerSteps
<1>22. SyncTyped'
  <2>1. wgt' \in [Workers -> [Expected -> 0 .. round]]
    BY <1>1, <1>2 DEF SyncTyped
  <2> QED
    BY <1>1, <1>2, <1>20, <1>21, <2>1, SyncTypedKept
<1>23. Finished(w)'
  <2>1. ~NamesRefused(w) => \A n \in Expected : wgt[w][n] = round
    BY <1>9, ServedIsFinished
  <2> QED
    BY <1>2, <1>10, <1>18, <1>21, <2>1 DEF Finished
<1>24. ASSUME NEW h \in Ranks, NEW k \in DOMAIN Targets(set, h)
       PROVE  Placed(h, k, Targets(set, h)[k])'
  <2>1. CASE h = g /\ k = i
    <3>1. Placed(g, i, w)'
      BY <1>5, <1>13, <1>17, <1>20, <1>23 DEF Placed
    <3> QED
      BY <1>2, <1>6, <2>1, <3>1
  <2>2. CASE h # g \/ k # i
    <3>1. PICK v : v = Targets(set, h)[k]
      OBVIOUS
    <3>2. v \in Workers /\ workers'[v] = workers[v] /\ wgt'[v] = wgt[v] /\ Placed(h, k, v)
      BY <1>1, <1>2, <1>5, <1>6, <1>21, <2>2, <3>1, OtherPlaces
    <3>3. CASE h # g
      <4>1. Placed(h, k, v)'
        BY <1>2, <1>20, <3>2, <3>3, PlacedKept
      <4> QED
        BY <1>2, <3>1, <4>1
    <3>4. CASE h = g
      <4>1. k \in 1 .. N /\ k # i
        BY <1>5, <2>2, <3>4
      <4>2. /\ k < i => Finished(v)
            /\ k > i => Underway(v, 1)
        BY <1>2, <1>3, <3>2, <3>4 DEF Placed
      <4>3. Taken(v) => Taken(v)'
        BY <1>2, <3>2 DEF Taken, ModuleOf
      <4>4. /\ k < i => Finished(v)'
            /\ k > i => Underway(v, 1)'
        BY <1>2, <3>2, <4>2, <4>3 DEF Finished, Underway, Before
      <4>5. senders'[g].st = a /\ senders'[g].at = b /\ senders'[g].next = 1
        BY <1>17, <1>20
      <4>6. CASE i < N
        <5>1. a = "send" /\ b = i + 1
          BY <1>11, <1>12, <4>6
        <5>2. /\ k < i + 1 => k < i
              /\ k >= i + 1 => k > i
          BY <1>5, <4>1
        <5>3. Placed(g, k, v)'
          BY <1>5, <4>1, <4>4, <4>5, <5>1, <5>2 DEF Placed
        <5> QED
          BY <1>2, <3>1, <3>4, <5>3
      <4>7. CASE ~(i < N)
        <5>1. a = "done" /\ k < i
          BY <1>5, <1>11, <4>1, <4>7
        <5>2. Placed(g, k, v)'
          BY <4>4, <4>5, <5>1 DEF Placed
        <5> QED
          BY <1>2, <3>1, <3>4, <5>2
      <4> QED
        BY <4>6, <4>7
    <3> QED
      BY <3>3, <3>4
  <2> QED
    BY <2>1, <2>2
<1> QED
  BY <1>2, <1>22, <1>24 DEF SyncInv

LEMMA ParticipationEndsKeeps ==
  ASSUME SyncInv, Delivering, NEW g \in Ranks, ParticipationEnds(g)
  PROVE  SyncInv'
<1>1. Delivers(set) /\ SyncTyped
  BY DEF SyncInv, SyncTyped, Delivering
<1>2. /\ set' = set /\ round' = round /\ wgt' = wgt /\ workers' = workers
      /\ Workers' = Workers /\ Ranks' = Ranks
      /\ Targets(set, g) = <<>> /\ senders' = [senders EXCEPT ![g].st = "done"]
  BY SameSetting DEF ParticipationEnds
<1> DEFINE o == senders[g]
           r == [o EXCEPT !.st = "done"]
<1>3. SenderRecord(o)
  BY <1>1 DEF SyncTyped, Turned
<1>4. SenderRecord(r) /\ r.st = "done"
  <2> HIDE DEF o
  <2> QED
    BY <1>3 DEF SenderRecord
<1>5. senders' = [senders EXCEPT ![g] = r]
  BY <1>2
<1> HIDE DEF r
<1>6. /\ DOMAIN senders' = Ranks /\ \A h \in Ranks : h # g => senders'[h] = senders[h]
      /\ \A h \in Ranks : Turned(h)'
  BY <1>1, <1>2, <1>4, <1>5, OneSenderTurns
<1>7. SyncTyped'
  <2>1. DOMAIN workers' = Workers /\ \A w \in Workers : WorkerRecord(workers[w])'
    BY <1>1, <1>2 DEF SyncTyped, WorkerRecord
  <2> QED
    BY <1>1, <1>2, <1>6, <2>1, SyncTypedKept DEF SyncTyped
<1>8. ASSUME NEW h \in Ranks, NEW k \in DOMAIN Targets(set, h)
      PROVE  Placed(h, k, Targets(set, h)[k])'
  <2>1. h # g
    BY <1>1, <1>2, Schedule
  <2>2. PICK v : v = Targets(set, h)[k]
    OBVIOUS
  <2>3. Placed(h, k, v)
    BY <2>2 DEF SyncInv
  <2>4. Placed(h, k, v)'
    BY <1>2, <1>6, <2>1, <2>3, PlacedKept
  <2> QED
    BY <1>2, <2>2, <2>4
<1> QED
  BY <1>2, <1>7, <1>8 DEF SyncInv

LEMMA SyncInvInductive ==
  ASSUME Delivering, SyncInv, [SyncNext]_syncVars
  PROVE  SyncInv'
<1>1. CASE RoundBegins
  BY <1>1, RoundBeginsKeeps
<1>2. CASE Close
  BY <1>2, CloseKeeps
<1>3. ASSUME NEW g \in Ranks, Connect(g) PROVE SyncInv'
  BY <1>3, ConnectKeeps
<1>4. ASSUME NEW g \in Ranks, SendWeight(g) PROVE SyncInv'
  BY <1>4, SendWeightKeeps
<1>5. ASSUME NEW g \in Ranks, Participate(g) PROVE SyncInv'
  BY <1>5, ParticipateKeeps
<1>6. ASSUME NEW g \in Ranks, TargetServed(g) PROVE SyncInv'
  BY <1>6, TargetServedKeeps
<1>7. ASSUME NEW g \in Ranks, ParticipationEnds(g) PROVE SyncInv'
  BY <1>7, ParticipationEndsKeeps
<1>8. CASE UNCHANGED syncVars
  <2>1. SyncTyped'
    BY <1>8 DEF syncVars, SyncInv, SyncTyped, Turned, SenderRecord, WorkerRecord, Ranks,
                Workers, Expected, Buildable
  <2>2. Delivers(set) /\ Ranks' = Ranks /\ set' = set
    BY <1>8 DEF syncVars, SyncInv, SyncTyped, Delivering, Ranks
  <2> QED
    BY <1>8, <2>1, <2>2, PlacesKept DEF syncVars, SyncInv
<1> QED
  BY <1>1, <1>2, <1>3, <1>4, <1>5, <1>6, <1>7, <1>8 DEF SyncNext, RankSteps

\* A worker that reports done has the trainer's version of every weight
\* (sender.py:142-143, worker.py): every setting that can be built is scheduled,
\* has a list where a sender serves several targets and ships weights of which no
\* missing name would go unnoticed; fused modules do not share names.
THEOREM DoneIsCurrent == ASSUME \A s \in Settings : Buildable(s) => Delivers(s), FusedApart
                         PROVE  SyncSpec => []DoneMeansCurrent
<1>1. Delivering
  BY DEF Delivering
<1>2. SyncInit => SyncInv
  BY <1>1, SyncFirst
<1>3. SyncInv /\ [SyncNext]_syncVars => SyncInv'
  BY <1>1, SyncInvInductive
<1>4. SyncInv => DoneMeansCurrent
  BY <1>1, SyncInvGivesCurrent
<1> QED
  BY <1>2, <1>3, <1>4, PTL DEF SyncSpec

-----------------------------------------------------------------------------
(***************************************************************************)
(* The hand-over through shared memory, for a worker of one rank and any   *)
(* number of rounds, as long as no wait is given up.  With more ranks the  *)
(* property does not hold: the first rank that has read touches "done"     *)
(* (ipc_engine.py:141) and the trainer removes the files under the others. *)
(***************************************************************************)
SavePcs == {"idle", "unlink_data", "unlink_ready", "unlink_done", "write", "fill",
            "touch", "wait", "clear_data", "clear_ready", "clear_done", "failed"}
LoadPcs == {"idle", "poll_ready", "poll_data", "read", "touch", "copy", "failed"}

\* Type invariant.
ShmTypeOK ==
  /\ data \in Nat \union {Partial} /\ ready \in BOOLEAN /\ done \in BOOLEAN
  /\ save \in [pc : SavePcs, v : Nat]
  /\ load \in [Readers -> [pc : LoadPcs, v : Nat]]
  /\ calls \in Nat
  /\ installed \in [Readers -> Nat]
  /\ timeouts \in Nat

NoFiles == data = NoFile /\ ~ready /\ ~done

\* Where the reader may be while the trainer prepares a version, waits for it to
\* be read, clears the files, and is away.
Preparing(r) ==
  /\ ~ready /\ ~done
  /\ \/ LoadAt(r, "idle") /\ calls = save.v - 1
     \/ LoadAt(r, "poll_ready") /\ calls = save.v

HasRead(r) ==
  load[r].pc \in {"copy", "idle"} /\ load[r].v = save.v /\ calls = save.v

Offered(r) ==
  /\ data = save.v /\ ready
  /\ \/ LoadAt(r, "idle") /\ calls = save.v - 1 /\ ~done
     \/ load[r].pc \in {"poll_ready", "poll_data", "read"} /\ calls = save.v /\ ~done
     \/ LoadAt(r, "touch") /\ load[r].v = save.v /\ calls = save.v /\ ~done
     \/ HasRead(r) /\ done

Away(r) ==
  /\ NoFiles
  /\ \/ load[r].pc \in {"idle", "copy"} /\ calls = save.v
     \/ LoadAt(r, "poll_ready") /\ calls = save.v + 1

\* The two sides go through a round in step as long as no wait is given up.
InStep(r) ==
  timeouts = 0 =>
    /\ load[r].pc # "failed" /\ save.pc # "failed"
    /\ ~SaveAt("idle") => save.v > 0
    /\ SaveAt("idle") => Away(r)
    /\ save.pc \in {"unlink_data", "unlink_ready", "unlink_done", "write", "fill", "touch"}
         => Preparing(r)
    /\ SaveAt("touch") => data = save.v
    /\ SaveAt("wait") => Offered(r)
    /\ save.pc \in {"clear_data", "clear_ready", "clear_done"} => HasRead(r)
    /\ save.pc \in {"clear_ready", "clear_done"} => data = NoFile
    /\ SaveAt("clear_done") => ~ready

ShmInv == ShmTypeOK /\ \A r \in Readers : InStep(r)

-----------------------------------------------------------------------------

LEMMA ShmTypedFirst == ShmInit => ShmTypeOK
PROOF
<1> SUFFICES ASSUME ShmInit
             PROVE  ShmTypeOK
  OBVIOUS
<1>1. save \in [pc : SavePcs, v : Nat]
  BY DEF ShmInit, SavePcs
<1>2. load \in [Readers -> [pc : LoadPcs, v : Nat]]
  <2>1. [pc |-> "idle", v |-> 0] \in [pc : LoadPcs, v : Nat]
    BY DEF LoadPcs
  <2> QED
    BY <2>1 DEF ShmInit
<1>3. installed \in [Readers -> Nat]
  BY DEF ShmInit
<1> QED
  BY <1>1, <1>2, <1>3 DEF ShmInit, ShmTypeOK, NoFile, Partial

LEMMA ShmFirst == ASSUME NEW q, Readers = {q}
                 PROVE  ShmInit => ShmInv
PROOF
<1> SUFFICES ASSUME ShmInit
             PROVE  ShmInv
  OBVIOUS
<1>1. ShmTypeOK
  BY ShmTypedFirst
<1>2. InStep(q)
  BY DEF ShmInit, InStep, Away, NoFiles, SaveAt, LoadAt, NoFile
<1> QED
  BY <1>1, <1>2 DEF ShmInv

\* Every step keeps the types.
LEMMA ShmTyped == ASSUME ShmTypeOK, [ShmNext]_shmVars
                  PROVE  ShmTypeOK'
PROOF
<1> USE DEF ShmTypeOK, SavePcs, LoadPcs, NoFile, Partial
<1>1. CASE SaveCalled
  BY <1>1 DEF SaveCalled
<1>2. CASE SaveSteps
  <2>1. CASE Unlink
    <3>1. save' \in [pc : SavePcs, v : Nat]
      <4>1. \/ SaveGoes("unlink_ready") \/ SaveGoes("unlink_done") \/ SaveGoes("write")
            \/ SaveGoes("clear_ready") \/ SaveGoes("clear_done") \/ SaveGoes("idle")
        BY <2>1 DEF Unlink
      <4>2. ASSUME NEW to \in SavePcs, SaveGoes(to)
            PROVE  save' \in [pc : SavePcs, v : Nat]
        BY <4>2 DEF SaveGoes
      <4> QED
        BY <4>1, <4>2
    <3>2. data' \in Nat \union {Partial} /\ UNCHANGED <<load, calls, installed, timeouts>>
      BY <2>1 DEF Unlink
    <3>3. ready' \in BOOLEAN
      BY <2>1 DEF Unlink
    <3>4. done' \in BOOLEAN
      BY <2>1 DEF Unlink
    <3> QED
      BY <3>1, <3>2, <3>3, <3>4
  <2>2. CASE Write
    BY <2>2 DEF Write, SaveAt, SaveGoes
  <2>3. CASE SeesDone
    BY <2>3 DEF SeesDone, SaveAt, SaveGoes
  <2> QED
    BY <1>2, <2>1, <2>2, <2>3 DEF SaveSteps
<1>3. CASE SaveTimesOut
  BY <1>3 DEF SaveTimesOut, SaveGoes
<1>4. CASE LoadCalled
  BY <1>4 DEF LoadCalled
<1>5. CASE Cleanup
  BY <1>5 DEF Cleanup
<1>6. ASSUME NEW r \in Readers, LoadSteps(r) \/ LoadTimesOut(r)
      PROVE  ShmTypeOK'
  <2>1. CASE Poll(r)
    BY <2>1 DEF Poll, LoadAt, LoadGoes
  <2>2. CASE Read(r)
    BY <2>2 DEF Read, LoadAt, LoadGoes
  <2>3. CASE TouchDone(r)
    BY <2>3 DEF TouchDone, LoadAt, LoadGoes
  <2>4. CASE CopyIn(r)
    BY <2>4 DEF CopyIn, LoadAt, LoadGoes
  <2>5. CASE LoadTimesOut(r)
    BY <2>5 DEF LoadTimesOut, LoadGoes
  <2> QED
    BY <1>6, <2>1, <2>2, <2>3, <2>4, <2>5 DEF LoadSteps
<1>7. CASE UNCHANGED shmVars
  BY <1>7 DEF shmVars
<1> QED
  BY <1>1, <1>2, <1>3, <1>4, <1>5, <1>6, <1>7 DEF ShmNext

\* A worker of one rank stays in step.
LEMMA ShmStep == ASSUME NEW q, Readers = {q}, ShmInv, [ShmNext]_shmVars
                 PROVE  ShmInv'
PROOF
<1>0. ShmTypeOK /\ ShmTypeOK'
  BY ShmTyped DEF ShmInv
<1>1. InStep(q)
  BY DEF ShmInv
<1>2. SUFFICES InStep(q)'
  BY <1>0 DEF ShmInv
<1>3. SUFFICES ASSUME timeouts' = 0
               PROVE  InStep(q)'
  BY DEF InStep
<1> USE <1>0, <1>1, <1>3 DEF ShmTypeOK, InStep, NoFile, Partial, SaveAt, LoadAt
<1>4. CASE SaveCalled
  BY <1>4 DEF SaveCalled, SaveEnded, LoadEnded, Away, NoFiles, Preparing
<1>5. CASE Unlink
  BY <1>5 DEF Unlink, SaveGoes, Away, NoFiles, Preparing, HasRead
<1>6. CASE Write
  BY <1>6 DEF Write, SaveGoes, Preparing, Offered, HasRead
<1>7. CASE SeesDone
  BY <1>7 DEF SeesDone, SaveGoes, Offered, HasRead
<1>8. CASE SaveTimesOut
  BY <1>8 DEF SaveTimesOut
<1>9. CASE LoadCalled
  BY <1>9 DEF LoadCalled, LoadEnded, SaveEnded, Away, NoFiles, Preparing, Offered, HasRead
<1>10. CASE Cleanup
  BY <1>10 DEF Cleanup, SaveEnded, LoadEnded, Away, NoFiles
<1>11. CASE Poll(q)
  BY <1>11 DEF Poll, LoadGoes, Away, NoFiles, Preparing, Offered, HasRead
<1>12. CASE Read(q)
  <2>1. load[q].pc = "read" /\ data = save.v /\ data \in Nat \ {0}
    BY <1>12 DEF Read, Away, NoFiles, Preparing, Offered, HasRead, SavePcs
  <2>2. load' = [load EXCEPT ![q] = [pc |-> "touch", v |-> data]]
    BY <1>12, <2>1 DEF Read
  <2> QED
    BY <1>12, <2>1, <2>2 DEF Read, Away, NoFiles, Preparing, Offered, HasRead
<1>13. CASE TouchDone(q)
  BY <1>13 DEF TouchDone, LoadGoes, Away, NoFiles, Preparing, Offered, HasRead
<1>14. CASE CopyIn(q)
  BY <1>14 DEF CopyIn, LoadGoes, Away, NoFiles, Preparing, Offered, HasRead
<1>15. CASE LoadTimesOut(q)
  BY <1>15 DEF LoadTimesOut
<1>16. CASE UNCHANGED shmVars
  BY <1>16 DEF shmVars, Away, NoFiles, Preparing, Offered, HasRead
<1> QED
  BY <1>4, <1>5, <1>6, <1>7, <1>8, <1>9, <1>10, <1>11, <1>12, <1>13, <1>14, <1>15, <1>16
     DEF ShmNext, SaveSteps, LoadSteps

LEMMA ShmSafe == ASSUME NEW q, Readers = {q}, ShmInv
                 PROVE  HandoverExact
PROOF
<1> SUFFICES ASSUME timeouts = 0
             PROVE  /\ load[q].pc # "failed"
                    /\ LoadAt(q, "touch") => load[q].v = save.v
                    /\ save.pc \in {"clear_data", "clear_ready", "clear_done"}
                         => load[q].v = save.v
  BY DEF HandoverExact
<1>1. InStep(q) /\ save.pc \in SavePcs
  BY DEF ShmInv, ShmTypeOK
<1> QED
  BY <1>1 DEF InStep, HasRead, Offered, Preparing, Away, LoadAt, SaveAt, SavePcs

(***************************************************************************)
(* Every variable of the hand-over keeps its type, for any ranks.          *)
(***************************************************************************)
THEOREM HandoverTyped == ShmSpec => []ShmTypeOK
PROOF
<1>1. ShmInit => ShmTypeOK
  BY ShmTypedFirst
<1>2. ShmTypeOK /\ [ShmNext]_shmVars => ShmTypeOK'
  BY ShmTyped
<1> QED
  BY <1>1, <1>2, PTL DEF ShmSpec

(***************************************************************************)
(* With one rank and no wait given up, the files of a version go only when *)
(* it has been read, and what is read is this round's version, whole: the  *)
(* sentinels of ipc_engine.py are enough although each side may start a    *)
(* round before the other.                                                 *)
(***************************************************************************)
THEOREM HandoverIsExact == ASSUME NEW q, Readers = {q}
                           PROVE  ShmSpec => []HandoverExact
PROOF
<1>1. ShmInit => ShmInv
  BY ShmFirst
<1>2. ShmInv /\ [ShmNext]_shmVars => ShmInv'
  BY ShmStep
<1>3. ShmInv => HandoverExact
  BY ShmSafe
<1> QED
  BY <1>1, <1>2, <1>3, PTL DEF ShmSpec

=============================================================================
