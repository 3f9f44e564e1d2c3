--------------------------- MODULE EmbeddingProofs --------------------------
(***************************************************************************)
(* Proofs about the manager of the embedding service, for any number of    *)
(* replicas, calls, crashes and late answers: it never sends a call to a   *)
(* replica it does not have, leaves no process behind once it has started, *)
(* and knows the load it gave but for what senseless calls took off.       *)
(***************************************************************************)
EXTENDS Embedding, FiniteSetTheorems, TLAPS

\* Loads and numbers of prompts; a name of its own for the steps without arithmetic.
Amount == Int

CallType == [st : {"new", "sent", "answered", "unavailable"}, at : Ports \union {None},
             left : Amount]

\* The types the steps need.
Typed ==
  /\ policy \in Policies
  /\ manager \in {"launching", "ready", "failed", "stopped", "broken off"}
  /\ proc \in [Ports -> {"loading", "up", "dead"}]
  /\ launch \in [Ports -> {"waiting", "healthy", "failed"}]
  /\ replicas \subseteq Ports
  /\ healthy \in [Ports -> BOOLEAN]
  /\ load \in [Ports -> Amount]
  /\ call \in [Calls -> CallType]

\* Calls at work are at replicas of the table, calls to come at none.
Placed == \A c \in Calls : /\ call[c].st = "sent" => call[c].at \in replicas
                           /\ call[c].st = "new" => call[c].at = None

\* Round-robin goes on from a position in the table.
InTurn == rrIndex \in -1 .. Cardinality(Ports) - 1

\* The table holds the replicas that were launched, and nobody but them lives on:
\* start() leaves the polling only when every launch has ended, and none of the
\* processes given up is alive.
Accounted ==
  /\ manager \in {"launching", "broken off"} => replicas = {}
  /\ manager \in {"ready", "failed", "stopped"} => \A p \in Ports : launch[p] # "waiting"
  /\ manager \in {"ready", "stopped"} => \A p \in Ports : launch[p] = "healthy" <=> p \in replicas
  /\ manager = "failed" => \A p \in Ports : launch[p] = "failed"
  /\ manager = "stopped" => \A p \in replicas : proc[p] = "dead"
  /\ \A p \in Ports : launch[p] = "failed" => proc[p] = "dead"

EmbeddingInv == Typed /\ Placed /\ InTurn /\ Accounted

-----------------------------------------------------------------------------

\* What the finally block of route_request() leaves is a load.
LEMMA UnloadedLoad == ASSUME NEW n \in Int
                      PROVE  Max({n - 1, 0}) \in Nat /\ Max({n - 1, 0}) >= n - 1
PROOF
<1> DEFINE S == {n - 1, 0}
<1>1. \E x \in S : \A y \in S : x >= y
  <2>1. CASE n <= 0
    BY <2>1
  <2>2. CASE n > 0
    BY <2>2
  <2> QED
    BY <2>1, <2>2
<1>2. Max(S) \in S /\ \A y \in S : Max(S) >= y
  BY <1>1 DEF Max
<1> QED
  BY <1>2

\* The healthy replicas, when there are any, can be counted.
LEMMA HealthyCounted == ASSUME Typed, HealthySet # {}
                        PROVE  Cardinality(HealthySet) \in 1 .. Cardinality(Ports)
PROOF
<1>1. IsFiniteSet(Ports) /\ HealthySet \in SUBSET Ports
  BY EmbeddingConstants DEF Typed, HealthySet
<1>2. IsFiniteSet(HealthySet) /\ Cardinality(HealthySet) <= Cardinality(Ports)
  BY <1>1, FS_Subset
<1>3. Cardinality(HealthySet) \in Nat /\ Cardinality(Ports) \in Nat
  BY <1>1, <1>2, FS_CardinalityType
<1>4. Cardinality(HealthySet) # 0
  BY <1>2, FS_EmptySet
<1> QED
  BY <1>2, <1>3, <1>4

\* A call whose state is written is the same call at the same replica.
LEMMA Restated ==
  ASSUME call \in [Calls -> CallType], NEW c \in Calls, NEW s,
         call' = [call EXCEPT ![c].st = s]
  PROVE  /\ call'[c].st = s /\ call'[c].at = call[c].at
         /\ \A d \in Calls \ {c} : call'[d] = call[d]
PROOF
<1>1. call'[c] = [call[c] EXCEPT !.st = s]
  OBVIOUS
<1>2. \A d \in Calls \ {c} : call'[d] = call[d]
  OBVIOUS
<1>3. call[c] \in CallType
  OBVIOUS
<1> QED
  BY <1>1, <1>2, <1>3 DEF CallType

LEMMA EmbeddingInit == Init => EmbeddingInv
PROOF
<1> SUFFICES ASSUME Init
             PROVE  EmbeddingInv
  OBVIOUS
<1>1. Typed
  <2>1. 0 \in Amount
    BY DEF Amount
  <2> QED
    BY <2>1, EmbeddingConstants DEF Init, Typed, CallType
<1>2. Placed
  BY DEF Init, Placed
<1>3. InTurn
  BY EmbeddingConstants, FS_CardinalityType DEF Init, InTurn
<1>4. Accounted
  BY DEF Init, Accounted
<1> QED
  BY <1>1, <1>2, <1>3, <1>4 DEF EmbeddingInv

\* A call that ends takes one off the load of its replica.
LEMMA CallEnds ==
  ASSUME Typed, Placed, NEW c \in Calls, call[c].st = "sent",
         NEW s \in {"answered", "unavailable"},
         call' = [call EXCEPT ![c].st = s], Unload(call[c].at)
  PROVE  load' \in [Ports -> Amount] /\ call' \in [Calls -> CallType]
PROOF
<1>1. call[c].at \in Ports
  BY DEF Typed, Placed
<1>2. Max({load[call[c].at] - 1, 0}) \in Amount
  <2>1. load[call[c].at] \in Int
    BY <1>1 DEF Typed, Amount
  <2> QED
    BY <2>1, UnloadedLoad DEF Amount
<1>3. load' \in [Ports -> Amount]
  BY <1>1, <1>2 DEF Typed, Unload
<1>4. call' \in [Calls -> CallType]
  BY DEF Typed, CallType
<1> QED
  BY <1>3, <1>4

\* Processes, launches, health checks.
LEMMA ProcessSteps ==
  ASSUME EmbeddingInv, NEW p \in Ports,
         Loaded(p) \/ Crash(p) \/ LaunchPoll(p) \/ CheckAnswered(p) \/ CheckRecorded(p)
  PROVE  EmbeddingInv'
PROOF
<1> USE DEF EmbeddingInv, Typed, Placed, InTurn, Accounted
<1>1. CASE Loaded(p)
  BY <1>1 DEF Loaded
<1>2. CASE Crash(p)
  BY <1>2 DEF Crash
<1>3. CASE LaunchPoll(p)
  BY <1>3 DEF LaunchPoll
<1>4. CASE CheckAnswered(p)
  BY <1>4 DEF CheckAnswered
<1>5. CASE CheckRecorded(p)
  BY <1>5 DEF CheckRecorded, SetHealthy
<1> QED
  BY <1>1, <1>2, <1>3, <1>4, <1>5

\* The manager's own steps.
LEMMA ManagerSteps ==
  ASSUME EmbeddingInv, Started \/ StartBreaks \/ Stop \/ HealthRound \/ RoundEnds \/ AskInfo
  PROVE  EmbeddingInv'
PROOF
<1> USE DEF EmbeddingInv, Typed, Placed, InTurn, Accounted
<1>1. CASE Started
  BY <1>1 DEF Started
<1>2. CASE Stop
  BY <1>2 DEF Stop
<1>3. CASE HealthRound \/ RoundEnds
  <2>1. UNCHANGED <<policy, manager, proc, launch, replicas, healthy, load, rrIndex, call>>
    BY <1>3 DEF HealthRound, RoundEnds
  <2> QED
    BY <2>1
<1>4. CASE AskInfo
  BY <1>4 DEF AskInfo, SetHealthy
<1>5. CASE StartBreaks
  BY <1>5 DEF StartBreaks
<1> QED
  BY <1>1, <1>2, <1>3, <1>4, <1>5

\* A call is routed to a replica of the table, and the turn goes on in range.
LEMMA RouteStep ==
  ASSUME EmbeddingInv, NEW c \in Calls, Route(c)
  PROVE  EmbeddingInv'
PROOF
<1>1. /\ UNCHANGED <<policy, manager, proc, launch, replicas, healthy>>
      /\ Typed /\ Placed /\ InTurn /\ Accounted
  BY DEF EmbeddingInv, Route
<1>2. Accounted'
  BY <1>1 DEF Accounted
<1>3. CASE HealthySet = {}
  <2>1. call' = [call EXCEPT ![c].st = "unavailable"] /\ UNCHANGED <<load, rrIndex>>
    BY <1>3 DEF Route
  <2>2. Typed'
    BY <1>1, <2>1 DEF Typed, CallType
  <2>3. Placed'
    <3>1. /\ call'[c].st = "unavailable" /\ call'[c].at = call[c].at
          /\ \A d \in Calls \ {c} : call'[d] = call[d]
      BY <1>1, <2>1, Restated DEF Typed
    <3> QED
      BY <1>1, <3>1 DEF Placed
  <2> QED
    BY <1>1, <1>2, <2>1, <2>2, <2>3 DEF EmbeddingInv, InTurn
<1>4. CASE HealthySet # {}
  <2>1. PICK p \in Selectable :
          /\ call' = [call EXCEPT ![c] = [st |-> "sent", at |-> p, left |-> Prompts[c]]]
          /\ load' = [load EXCEPT ![p] = @ + Prompts[c]]
          /\ rrIndex' = IF policy = "round_robin" THEN (rrIndex + 1) % Cardinality(HealthySet)
                        ELSE rrIndex
    BY <1>4 DEF Route
  <2>2. p \in HealthySet
    BY <1>1, EmbeddingConstants DEF Selectable, Typed
  <2>3. p \in replicas /\ p \in Ports
    BY <1>1, <2>2 DEF HealthySet, Typed
  <2>4. Prompts[c] \in Amount /\ load[p] + Prompts[c] \in Amount
    <3>1. load[p] \in Amount
      BY <1>1, <2>3 DEF Typed
    <3> QED
      BY <3>1, EmbeddingConstants DEF Amount
  <2>5. Typed'
    BY <1>1, <2>1, <2>3, <2>4 DEF Typed, CallType
  <2>6. Placed'
    BY <1>1, <2>1, <2>3 DEF Placed, Typed
  <2>7. InTurn'
    <3>1. Cardinality(HealthySet) \in 1 .. Cardinality(Ports)
      BY <1>1, <1>4, HealthyCounted
    <3>2. Cardinality(Ports) \in Nat
      BY EmbeddingConstants, FS_CardinalityType
    <3> QED
      BY <1>1, <2>1, <3>1, <3>2 DEF InTurn
  <2> QED
    BY <1>2, <2>5, <2>6, <2>7 DEF EmbeddingInv
<1> QED
  BY <1>3, <1>4

\* A call at work, or ending.
LEMMA CallSteps ==
  ASSUME EmbeddingInv, NEW c \in Calls, EncodePrompt(c) \/ Answer(c) \/ RpcFails(c)
  PROVE  EmbeddingInv'
PROOF
<1>1. Typed /\ Placed /\ InTurn /\ Accounted
  BY DEF EmbeddingInv
<1>2. CASE EncodePrompt(c)
  <2>1. call[c].left - 1 \in Amount
    <3>1. call[c].left \in Amount
      BY <1>1 DEF Typed, CallType
    <3> QED
      BY <3>1 DEF Amount
  <2> QED
    BY <1>1, <1>2, <2>1 DEF EncodePrompt, EmbeddingInv, Typed, Placed, InTurn, Accounted,
                            CallType
<1>3. CASE Answer(c) \/ RpcFails(c)
  <2>1. load' \in [Ports -> Amount] /\ call' \in [Calls -> CallType]
    BY <1>1, <1>3, CallEnds DEF Answer, RpcFails
  <2>2. /\ call[c].st = "sent"
        /\ \/ call' = [call EXCEPT ![c].st = "answered"]
           \/ call' = [call EXCEPT ![c].st = "unavailable"]
        /\ UNCHANGED <<policy, manager, proc, launch, replicas, rrIndex>>
    BY <1>3 DEF Answer, RpcFails
  <2>3. healthy' \in [Ports -> BOOLEAN]
    BY <1>1, <1>3 DEF Answer, RpcFails, SetHealthy, Typed
  <2>4. Typed'
    BY <1>1, <2>1, <2>2, <2>3 DEF Typed
  <2>5. Placed'
    <3>1. SUFFICES ASSUME NEW d \in Calls
                   PROVE  /\ call'[d].st = "sent" => call'[d].at \in replicas
                          /\ call'[d].st = "new" => call'[d].at = None
      BY <2>2 DEF Placed
    <3>2. call'[c].st \notin {"sent", "new"}
      BY <1>1, <2>2 DEF Typed, CallType
    <3>3. d # c => call'[d] = call[d]
      BY <1>1, <2>2 DEF Typed
    <3> QED
      BY <1>1, <3>1, <3>2, <3>3 DEF Placed
  <2>6. InTurn' /\ Accounted'
    BY <1>1, <2>2 DEF InTurn, Accounted
  <2> QED
    BY <2>4, <2>5, <2>6 DEF EmbeddingInv
<1> QED
  BY <1>2, <1>3

LEMMA EmbeddingStep == EmbeddingInv /\ [Next]_vars => EmbeddingInv'
PROOF
<1> SUFFICES ASSUME EmbeddingInv, [Next]_vars
             PROVE  EmbeddingInv'
  OBVIOUS
<1>1. CASE UNCHANGED vars
  BY <1>1 DEF vars, EmbeddingInv, Typed, Placed, InTurn, Accounted
<1>2. CASE Next
  BY <1>2, ProcessSteps, ManagerSteps, RouteStep, CallSteps DEF Next
<1> QED
  BY <1>1, <1>2

(***************************************************************************)
(* A call is always at a replica of the manager's table, loads are         *)
(* integers and the round-robin position stays in range.                    *)
(***************************************************************************)
THEOREM EmbeddingTyped == Spec => []EmbeddingTypeOK
PROOF
<1>1. EmbeddingInv => EmbeddingTypeOK
  BY DEF EmbeddingInv, Typed, Placed, InTurn, EmbeddingTypeOK, Amount
<1> QED
  BY <1>1, EmbeddingInit, EmbeddingStep, PTL DEF Spec

(***************************************************************************)
(* Whatever crashes and however many checks come late, a process that is   *)
(* alive is one the manager waits for or has in its table, and none is     *)
(* alive once the manager has failed to start or has stopped; only a       *)
(* start() that was itself broken off leaves processes behind, and then    *)
(* none of those it had given up.                                          *)
(***************************************************************************)
THEOREM NoProcessIsOrphaned == Spec => []NoOrphanProcess
PROOF
<1>1. EmbeddingInv => NoOrphanProcess
  BY DEF EmbeddingInv, Typed, Accounted, NoOrphanProcess
<1> QED
  BY <1>1, EmbeddingInit, EmbeddingStep, PTL DEF Spec

-----------------------------------------------------------------------------
(* The load of a replica. *)

Covered == \A p \in Ports : /\ IsFiniteSet(Work(p)) /\ IsFiniteSet(Debt(p))
                            /\ Cardinality(Work(p)) <= load[p] + Cardinality(Debt(p))

CoveringInv == EmbeddingInv /\ Covered

\* The pairs that one call adds to Work or to Debt.
LEMMA ColumnCounted ==
  ASSUME NEW c \in Calls, NEW a \in Int, NEW b \in Int
  PROVE  /\ IsFiniteSet({c} \X (a .. b))
         /\ Cardinality({c} \X (a .. b)) = IF a > b THEN 0 ELSE b - a + 1
PROOF
<1>1. IsFiniteSet({c}) /\ Cardinality({c}) = 1
  BY FS_Singleton
<1>2. /\ IsFiniteSet(a .. b)
      /\ Cardinality(a .. b) = IF a > b THEN 0 ELSE b - a + 1
  BY FS_Interval, SMTT(30)
<1>3. /\ IsFiniteSet({c} \X (a .. b))
      /\ Cardinality({c} \X (a .. b)) = 1 * Cardinality(a .. b)
  BY <1>1, <1>2, FS_Product, ZenonT(30)
<1>4. PICK k \in Nat : k = Cardinality(a .. b)
  BY <1>2, FS_CardinalityType
<1>5. 1 * k = k
  OBVIOUS
<1>6. Cardinality({c} \X (a .. b)) = Cardinality(a .. b)
  BY <1>3, <1>4, <1>5, Zenon
<1> QED
  BY <1>2, <1>3, <1>6, Zenon

\* What a union counts.
LEMMA UnionCounted ==
  ASSUME NEW S, NEW T, IsFiniteSet(S), IsFiniteSet(T)
  PROVE  /\ IsFiniteSet(S \cup T)
         /\ Cardinality(S \cup T) <= Cardinality(S) + Cardinality(T)
         /\ S \cap T = {} => Cardinality(S \cup T) = Cardinality(S) + Cardinality(T)
         /\ \A x \in T : x \notin S => Cardinality(S \cup T) >= Cardinality(S) + 1
PROOF
<1>1. S \cap T \in SUBSET S
  OBVIOUS
<1>2. /\ IsFiniteSet(S \cup T) /\ IsFiniteSet(S \cap T)
      /\ Cardinality(S \cup T) = Cardinality(S) + Cardinality(T) - Cardinality(S \cap T)
  BY <1>1, FS_Union, FS_Subset
<1>3. /\ Cardinality(S) \in Nat /\ Cardinality(T) \in Nat
      /\ Cardinality(S \cap T) \in Nat /\ Cardinality(S \cup T) \in Nat
  BY <1>2, FS_CardinalityType
<1>4. S \cap T = {} => Cardinality(S \cap T) = 0
  BY FS_EmptySet
<1>5. ASSUME NEW x \in T, x \notin S
      PROVE  Cardinality(S \cup T) >= Cardinality(S) + 1
  <2>1. IsFiniteSet(S \cup {x}) /\ Cardinality(S \cup {x}) = Cardinality(S) + 1
    BY <1>5, FS_AddElement
  <2>2. S \cup {x} \in SUBSET (S \cup T)
    OBVIOUS
  <2>3. Cardinality(S \cup {x}) <= Cardinality(S \cup T)
    BY <1>2, <2>2, FS_Subset
  <2> QED
    BY <1>3, <2>1, <2>3
<1>6. Cardinality(S \cup T) <= Cardinality(S) + Cardinality(T)
  BY <1>2, <1>3
<1>7. ASSUME S \cap T = {}
      PROVE  Cardinality(S \cup T) = Cardinality(S) + Cardinality(T)
  BY <1>2, <1>3, <1>4, <1>7
<1> QED
  BY <1>2, <1>5, <1>6, <1>7, Zenon

\* What one call has taken off.
Owed(c) == {c} \X ((IF call[c].st = "sent" THEN 1 ELSE 0) .. -Prompts[c])

LEMMA InDebt == \A p, x : x \in Debt(p) <=> \E d \in Calls : call[d].at = p /\ x \in Owed(d)
PROOF
BY DEF Debt, Owed

LEMMA DebtKept ==
  ASSUME \A d \in Calls : call'[d].st = call[d].st /\ call'[d].at = call[d].at
  PROVE  \A p \in Ports : Debt(p)' = Debt(p)
PROOF
<1>1. \A d \in Calls : Owed(d)' = Owed(d)
  BY DEF Owed
<1>2. \A p, x : x \in Debt(p)' <=> \E d \in Calls : call'[d].at = p /\ x \in Owed(d)'
  BY DEF Debt, Owed
<1>3. ASSUME NEW p \in Ports, NEW x
      PROVE  x \in Debt(p)' <=> x \in Debt(p)
  BY <1>1, <1>2, InDebt
<1> QED
  BY <1>3

\* A call that is routed adds its prompts to the load of its replica ...
LEMMA RouteCovers ==
  ASSUME CoveringInv, NEW c \in Calls, Route(c)
  PROVE  Covered'
PROOF
<1>1. Typed /\ Placed /\ Covered /\ call[c].st = "new" /\ call[c].at = None
  BY DEF CoveringInv, EmbeddingInv, Route, Placed
<1>0. \A q, x : x \in Debt(q)' <=> \E d \in Calls : call'[d].at = q /\ x \in Owed(d)'
  BY DEF Debt, Owed
<1>2. CASE HealthySet = {}
  <2>1. call' = [call EXCEPT ![c].st = "unavailable"] /\ UNCHANGED load
    BY <1>2 DEF Route
  <2>2. \A p \in Ports : Running(p)' = Running(p)
    BY <1>1, <2>1 DEF Running, Typed, CallType
  <2>3. \A p \in Ports : Work(p)' = Work(p)
    BY <2>2 DEF Work
  <2>4. /\ \A d \in Calls : call'[d].at = call[d].at
        /\ \A d \in Calls \ {c} : call'[d] = call[d]
    BY <1>1, <2>1 DEF Typed, CallType
  <2>5. \A d \in Calls \ {c} : Owed(d)' = Owed(d)
    BY <2>4 DEF Owed
  <2>6. ASSUME NEW p \in Ports, NEW x
        PROVE  x \in Debt(p)' <=> x \in Debt(p)
    <3>1. call[c].at # p /\ call'[c].at # p
      BY <1>1, <2>4, EmbeddingConstants
    <3> QED
      BY <1>0, <2>4, <2>5, <3>1, InDebt
  <2>7. \A p \in Ports : Debt(p)' = Debt(p)
    BY <2>6
  <2> QED
    BY <1>1, <2>1, <2>3, <2>7 DEF Covered
<1>3. CASE HealthySet # {}
  <2>1. PICK p \in Ports :
          /\ call' = [call EXCEPT ![c] = [st |-> "sent", at |-> p, left |-> Prompts[c]]]
          /\ load' = [load EXCEPT ![p] = @ + Prompts[c]]
    BY <1>1, <1>3, EmbeddingConstants DEF Route, Selectable, HealthySet, Typed
  <2>2. /\ Running(p)' = Running(p) \cup {c}
        /\ \A q \in Ports \ {p} : Running(q)' = Running(q)
    BY <1>1, <2>1 DEF Running, Typed
  <2>3. /\ Work(p)' = Work(p) \cup ({c} \X (1 .. Prompts[c]))
        /\ \A q \in Ports \ {p} : Work(q)' = Work(q)
    BY <2>2 DEF Work
  <2>4. /\ call'[c].at = p /\ call'[c].st = "sent"
        /\ \A d \in Calls \ {c} : call'[d] = call[d]
    BY <1>1, <2>1 DEF Typed, CallType
  <2>5. /\ \A d \in Calls \ {c} : Owed(d)' = Owed(d)
        /\ Owed(c)' = {c} \X (1 .. -Prompts[c])
    BY <2>4 DEF Owed
  <2>6. \A q \in Ports : call[c].at # q
    BY <1>1, EmbeddingConstants
  <2>7. Debt(p)' = Debt(p) \cup ({c} \X (1 .. -Prompts[c]))
    <3>1. ASSUME NEW x
          PROVE  x \in Debt(p)' <=> x \in Debt(p) \/ x \in {c} \X (1 .. -Prompts[c])
      <4>1. ASSUME x \in Debt(p)'
            PROVE  x \in Debt(p) \/ x \in {c} \X (1 .. -Prompts[c])
        <5>1. PICK d \in Calls : call'[d].at = p /\ x \in Owed(d)'
          BY <1>0, <4>1
        <5>2. CASE d = c
          BY <2>5, <5>1, <5>2
        <5>3. CASE d # c
          <6>1. call[d].at = p /\ x \in Owed(d)
            BY <2>4, <2>5, <5>1, <5>3
          <6> QED
            BY <6>1, InDebt
        <5> QED
          BY <5>2, <5>3
      <4>2. ASSUME x \in Debt(p)
            PROVE  x \in Debt(p)'
        <5>1. PICK d \in Calls : call[d].at = p /\ x \in Owed(d)
          BY <4>2, InDebt
        <5>2. d # c
          BY <2>6, <5>1
        <5>3. call'[d].at = p /\ x \in Owed(d)'
          BY <2>4, <2>5, <5>1, <5>2
        <5> QED
          BY <1>0, <5>3
      <4>3. ASSUME x \in {c} \X (1 .. -Prompts[c])
            PROVE  x \in Debt(p)'
        <5>1. call'[c].at = p /\ x \in Owed(c)'
          BY <2>4, <2>5, <4>3
        <5> QED
          BY <1>0, <5>1
      <4> QED
        BY <4>1, <4>2, <4>3
    <3> QED
      BY <3>1
  <2>8. \A q \in Ports \ {p} : Debt(q)' = Debt(q)
    <3>1. ASSUME NEW q \in Ports \ {p}, NEW x
          PROVE  x \in Debt(q)' <=> x \in Debt(q)
      <4>1. call[c].at # q /\ call'[c].at # q
        BY <2>4, <2>6
      <4>2. \A d \in Calls : call[d].at = q <=> call'[d].at = q
        BY <2>4, <4>1
      <4>3. \A d \in Calls : call[d].at = q => Owed(d)' = Owed(d)
        BY <2>5, <4>1
      <4> QED
        BY <1>0, <4>2, <4>3, InDebt
    <3> QED
      BY <3>1
  <2>9. Debt(p) \cap ({c} \X (1 .. -Prompts[c])) = {}
    <3>1. SUFFICES ASSUME NEW x \in Debt(p), x \in {c} \X (1 .. -Prompts[c])
                   PROVE  FALSE
      OBVIOUS
    <3>2. PICK d \in Calls : call[d].at = p /\ x \in Owed(d)
      BY InDebt
    <3>3. x[1] = d /\ x[1] = c
      BY <3>1, <3>2 DEF Owed
    <3> QED
      BY <2>6, <3>2, <3>3
  <2>10. ASSUME NEW q \in Ports
         PROVE  /\ IsFiniteSet(Work(q)') /\ IsFiniteSet(Debt(q)')
                /\ Cardinality(Work(q)') <= load'[q] + Cardinality(Debt(q)')
    <3>1. CASE q = p
      <4> DEFINE W == Work(p)
                 D == Debt(p)
                 X == {c} \X (1 .. Prompts[c])
                 Y == {c} \X (1 .. -Prompts[c])
                 n == Prompts[c]
      <4>1. /\ IsFiniteSet(W) /\ IsFiniteSet(D) /\ load[p] \in Int
            /\ Cardinality(W) <= load[p] + Cardinality(D)
            /\ load'[p] = load[p] + n
        <5>1. load \in [Ports -> Amount] /\ load'[p] = load[p] + Prompts[c]
          BY <1>1, <2>1 DEF Typed
        <5>2. load[p] \in Int
          BY <5>1 DEF Amount
        <5> QED
          BY <1>1, <5>1, <5>2 DEF Covered
      <4>2. n \in Int /\ -n \in Int
        BY EmbeddingConstants
      <4>3. /\ IsFiniteSet(X) /\ Cardinality(X) = IF 1 > n THEN 0 ELSE n - 1 + 1
            /\ IsFiniteSet(Y) /\ Cardinality(Y) = IF 1 > -n THEN 0 ELSE -n - 1 + 1
        <5>1. PICK a \in Int, b \in Int : a = n /\ b = -n /\ 1 \in Int
          BY <4>2
        <5>2. /\ IsFiniteSet({c} \X (1 .. a))
              /\ Cardinality({c} \X (1 .. a)) = IF 1 > a THEN 0 ELSE a - 1 + 1
          BY <5>1, ColumnCounted, Zenon
        <5>3. /\ IsFiniteSet({c} \X (1 .. b))
              /\ Cardinality({c} \X (1 .. b)) = IF 1 > b THEN 0 ELSE b - 1 + 1
          BY <5>1, ColumnCounted, Zenon
        <5> QED
          BY <5>1, <5>2, <5>3
      <4>4. Cardinality(X) - Cardinality(Y) = n
        BY <4>2, <4>3
      <4>5. D \cap Y = {}
        BY <2>9
      <4>6. Work(p)' = W \cup X /\ Debt(p)' = D \cup Y
        BY <2>3, <2>7
      <4> HIDE DEF W, D, X, Y, n
      <4>7. /\ IsFiniteSet(W \cup X) /\ Cardinality(W \cup X) <= Cardinality(W) + Cardinality(X)
            /\ IsFiniteSet(D \cup Y) /\ Cardinality(D \cup Y) = Cardinality(D) + Cardinality(Y)
        BY <4>1, <4>3, <4>5, UnionCounted
      <4>8. /\ Cardinality(W) \in Nat /\ Cardinality(X) \in Nat
            /\ Cardinality(D) \in Nat /\ Cardinality(Y) \in Nat
            /\ Cardinality(W \cup X) \in Nat
        BY <4>1, <4>3, <4>7, FS_CardinalityType
      <4>9. Cardinality(W \cup X) <= load'[p] + Cardinality(D \cup Y)
        BY <4>1, <4>2, <4>4, <4>7, <4>8
      <4> QED
        BY <3>1, <4>6, <4>7, <4>9
    <3>2. CASE q # p
      BY <1>1, <2>1, <2>3, <2>8, <3>2 DEF Covered, Typed
    <3> QED
      BY <3>1, <3>2
  <2> QED
    BY <2>10 DEF Covered
<1> QED
  BY <1>2, <1>3

\* ... and one that ends takes off no more than it had, or owes it.
LEMMA EndCovers ==
  ASSUME CoveringInv, NEW c \in Calls, Answer(c) \/ RpcFails(c)
  PROVE  Covered'
PROOF
<1>1. Typed /\ Covered /\ call[c].st = "sent"
  BY DEF CoveringInv, EmbeddingInv, Answer, RpcFails
<1>2. PICK p \in Ports : p = call[c].at
  BY <1>1 DEF CoveringInv, EmbeddingInv, Placed, Typed
<1>3. /\ \/ call' = [call EXCEPT ![c].st = "answered"]
         \/ call' = [call EXCEPT ![c].st = "unavailable"]
      /\ load' = [load EXCEPT ![p] = Max({load[p] - 1, 0})]
  BY <1>2 DEF Answer, RpcFails, Unload
<1>7. /\ \A d \in Calls : call'[d].at = call[d].at
      /\ call'[c].st # "sent" /\ \A d \in Calls \ {c} : call'[d] = call[d]
  <2>1. PICK s \in {"answered", "unavailable"} : call' = [call EXCEPT ![c].st = s]
    BY <1>3
  <2>2. call \in [Calls -> CallType]
    BY <1>1 DEF Typed
  <2>3. /\ call'[c].st = s /\ call'[c].at = call[c].at
        /\ \A d \in Calls \ {c} : call'[d] = call[d]
    BY <2>1, <2>2, Restated
  <2> QED
    BY <2>3
<1>4. /\ c \in Running(p) /\ Running(p)' = Running(p) \ {c}
      /\ \A q \in Ports \ {p} : Running(q)' = Running(q)
  BY <1>1, <1>2, <1>7 DEF Running
<1>5. /\ \A q \in Ports \ {p} : Work(q)' = Work(q)
      /\ Work(p)' \in SUBSET Work(p)
  BY <1>4 DEF Work
<1>6. Prompts[c] >= 1 => /\ <<c, 1>> \in Work(p)
                         /\ Work(p)' \in SUBSET (Work(p) \ {<<c, 1>>})
  <2>1. SUFFICES ASSUME Prompts[c] >= 1
                 PROVE  /\ <<c, 1>> \in Work(p)
                        /\ Work(p)' \in SUBSET (Work(p) \ {<<c, 1>>})
    OBVIOUS
  <2>2. 1 \in 1 .. Prompts[c]
    BY <2>1, EmbeddingConstants
  <2>3. <<c, 1>> \in Work(p)
    <3>1. <<c, 1>> \in {c} \X (1 .. Prompts[c])
      BY <2>2
    <3> QED
      BY <1>4, <3>1 DEF Work
  <2>4. ASSUME NEW x \in Work(p)' PROVE x \in Work(p) /\ x # <<c, 1>>
    <3>1. PICK d \in Running(p)' : x \in {d} \X (1 .. Prompts[d])
      BY DEF Work
    <3>2. d \in Running(p) /\ d # c
      BY <1>4
    <3>3. x \in Work(p)
      BY <3>1, <3>2 DEF Work
    <3>4. x[1] = d
      BY <3>1
    <3> QED
      BY <3>2, <3>3, <3>4
  <2> QED
    BY <2>3, <2>4
<1>8. /\ \A d \in Calls \ {c} : Owed(d)' = Owed(d)
      /\ Owed(c)' = {c} \X (0 .. -Prompts[c]) /\ Owed(c) = {c} \X (1 .. -Prompts[c])
  BY <1>1, <1>7 DEF Owed
<1>9. \A q, x : x \in Debt(q)' <=> \E d \in Calls : call'[d].at = q /\ x \in Owed(d)'
  BY DEF Debt, Owed
<1>10. \A x : x \in Owed(c) => x \in Owed(c)'
  <2>1. Prompts[c] \in Int
    BY EmbeddingConstants
  <2>2. \A i \in 1 .. -Prompts[c] : i \in 0 .. -Prompts[c]
    BY <2>1
  <2> QED
    BY <1>8, <2>2
<1>11. \A q \in Ports \ {p} : Debt(q)' = Debt(q)
  <2>1. ASSUME NEW q \in Ports \ {p}, NEW x
        PROVE  x \in Debt(q)' <=> x \in Debt(q)
    <3>1. \A d \in Calls : call[d].at = q <=> call'[d].at = q
      BY <1>7
    <3>2. \A d \in Calls : call[d].at = q => Owed(d)' = Owed(d)
      BY <1>2, <1>8
    <3> QED
      BY <1>9, <3>1, <3>2, InDebt
  <2> QED
    BY <2>1
<1>12. Debt(p)' = Debt(p) \cup ({c} \X (0 .. -Prompts[c]))
  <2>1. ASSUME NEW x
        PROVE  x \in Debt(p)' <=> x \in Debt(p) \/ x \in Owed(c)'
    <3>1. ASSUME x \in Debt(p)'
          PROVE  x \in Debt(p) \/ x \in Owed(c)'
      <4>1. PICK d \in Calls : call'[d].at = p /\ x \in Owed(d)'
        BY <1>9, <3>1
      <4>2. CASE d # c
        BY <1>7, <1>8, <4>1, <4>2, InDebt
      <4> QED
        BY <4>1, <4>2
    <3>2. ASSUME x \in Debt(p)
          PROVE  x \in Debt(p)'
      <4>1. PICK d \in Calls : call[d].at = p /\ x \in Owed(d)
        BY <3>2, InDebt
      <4>2. x \in Owed(d)'
        BY <1>8, <1>10, <4>1
      <4> QED
        BY <1>7, <1>9, <4>1, <4>2
    <3>3. ASSUME x \in Owed(c)'
          PROVE  x \in Debt(p)'
      BY <1>2, <1>7, <1>9, <3>3
    <3> QED
      BY <3>1, <3>2, <3>3
  <2> QED
    BY <1>8, <2>1
<1>13. <<c, 0>> \notin Debt(p)
  <2>1. SUFFICES ASSUME <<c, 0>> \in Debt(p) PROVE FALSE
    OBVIOUS
  <2>2. PICK d \in Calls : call[d].at = p /\ <<c, 0>> \in Owed(d)
    BY <2>1, InDebt
  <2>3. d = c
    BY <2>2 DEF Owed
  <2>4. <<c, 0>> \in {c} \X (1 .. -Prompts[c])
    BY <1>8, <2>2, <2>3
  <2> QED
    BY <2>4, EmbeddingConstants
<1>14. ASSUME NEW q \in Ports
       PROVE  /\ IsFiniteSet(Work(q)') /\ IsFiniteSet(Debt(q)')
              /\ Cardinality(Work(q)') <= load'[q] + Cardinality(Debt(q)')
  <2>1. CASE q = p
    <3> DEFINE W == Work(p)
               D == Debt(p)
               Z == {c} \X (0 .. -Prompts[c])
               n == Prompts[c]
    <3>1. /\ IsFiniteSet(W) /\ IsFiniteSet(D) /\ load[p] \in Int /\ n \in Int /\ -n \in Int
          /\ Cardinality(W) <= load[p] + Cardinality(D)
      <4>1. load[p] \in Amount
        BY <1>1 DEF Typed
      <4> QED
        BY <1>1, <4>1, EmbeddingConstants DEF Covered, Amount
    <3>2. IsFiniteSet(Z)
      <4>1. PICK b \in Int : b = -Prompts[c]
        BY <3>1
      <4>2. IsFiniteSet({c} \X (0 .. b))
        BY ColumnCounted
      <4> QED
        BY <4>1, <4>2
    <3>3. Debt(p)' = D \cup Z
      BY <1>12
    <3>4. n < 1 => <<c, 0>> \in Z
      BY <3>1
    <3>5. n >= 1 => <<c, 1>> \in W /\ Work(p)' \in SUBSET (W \ {<<c, 1>>})
      BY <1>6
    <3>6. Work(p)' \in SUBSET W /\ <<c, 0>> \notin D
      BY <1>5, <1>13
    <3>7. load'[p] = Max({load[p] - 1, 0})
      BY <1>1, <1>3 DEF Typed
    <3>8. PICK k \in Nat : k = Max({load[p] - 1, 0}) /\ k >= load[p] - 1
      BY <3>1, UnloadedLoad
    <3>9. PICK V : V = Work(p)'
      OBVIOUS
    <3> HIDE DEF W, D, Z, n
    <3>10. /\ IsFiniteSet(D \cup Z)
           /\ n < 1 => Cardinality(D \cup Z) >= Cardinality(D) + 1
      BY <3>1, <3>2, <3>4, <3>6, UnionCounted
    <3>11. Cardinality(D \cup Z) >= Cardinality(D)
      <4>1. D \in SUBSET (D \cup Z)
        OBVIOUS
      <4>2. Cardinality(D) <= Cardinality(D \cup Z)
        BY <3>10, <4>1, FS_Subset
      <4>3. Cardinality(D) \in Nat /\ Cardinality(D \cup Z) \in Nat
        BY <3>1, <3>10, FS_CardinalityType
      <4> QED
        BY <4>2, <4>3
    <3>12. IsFiniteSet(V) /\ Cardinality(V) <= Cardinality(W)
      BY <3>1, <3>6, <3>9, FS_Subset
    <3>13. /\ Cardinality(W) \in Nat /\ Cardinality(D) \in Nat
           /\ Cardinality(V) \in Nat /\ Cardinality(D \cup Z) \in Nat
      BY <3>1, <3>10, <3>12, FS_CardinalityType
    <3>14. n >= 1 => Cardinality(V) <= Cardinality(W) - 1
      <4>1. SUFFICES ASSUME n >= 1 PROVE Cardinality(V) <= Cardinality(W) - 1
        OBVIOUS
      <4>2. /\ IsFiniteSet(W \ {<<c, 1>>})
            /\ Cardinality(W \ {<<c, 1>>}) = Cardinality(W) - 1
        BY <3>1, <3>5, <4>1, FS_RemoveElement
      <4>3. V \in SUBSET (W \ {<<c, 1>>})
        BY <3>5, <3>9, <4>1
      <4> QED
        BY <4>2, <4>3, FS_Subset
    <3>15. Cardinality(V) <= k + Cardinality(D \cup Z)
      BY <3>1, <3>8, <3>10, <3>11, <3>12, <3>13, <3>14
    <3> QED
      BY <2>1, <3>3, <3>7, <3>8, <3>9, <3>10, <3>12, <3>15
  <2>2. CASE q # p
    BY <1>1, <1>3, <1>5, <1>11, <2>2 DEF Covered, Typed
  <2> QED
    BY <2>1, <2>2
<1> QED
  BY <1>14 DEF Covered

LEMMA CoveringStep == CoveringInv /\ [Next]_vars => CoveringInv'
PROOF
<1> SUFFICES ASSUME CoveringInv, [Next]_vars
             PROVE  CoveringInv'
  OBVIOUS
<1>1. EmbeddingInv'
  BY EmbeddingStep DEF CoveringInv
<1>2. CASE \E c \in Calls : Route(c)
  BY <1>1, <1>2, RouteCovers DEF CoveringInv
<1>3. CASE \E c \in Calls : Answer(c) \/ RpcFails(c)
  BY <1>1, <1>3, EndCovers DEF CoveringInv
<1>4. CASE \E c \in Calls : EncodePrompt(c)
  <2>1. PICK c \in Calls : call' = [call EXCEPT ![c].left = @ - 1] /\ UNCHANGED load
    BY <1>4 DEF EncodePrompt
  <2>2. \A p \in Ports : Running(p)' = Running(p)
    BY <2>1 DEF CoveringInv, EmbeddingInv, Running, Typed, CallType
  <2>3. \A p \in Ports : Work(p)' = Work(p)
    BY <2>2 DEF Work
  <2>4. \A d \in Calls : call'[d].st = call[d].st /\ call'[d].at = call[d].at
    BY <2>1 DEF CoveringInv, EmbeddingInv, Typed, CallType
  <2>5. \A p \in Ports : Debt(p)' = Debt(p)
    BY <2>4, DebtKept
  <2> QED
    BY <1>1, <2>1, <2>3, <2>5 DEF CoveringInv, Covered
<1>5. CASE UNCHANGED <<call, load>>
  BY <1>1, <1>5 DEF CoveringInv, Covered, Work, Running, Debt
<1>6. (\E p \in Ports : Loaded(p) \/ Crash(p) \/ LaunchPoll(p) \/ CheckAnswered(p)
                          \/ CheckRecorded(p))
      \/ Started \/ StartBreaks \/ Stop \/ HealthRound \/ RoundEnds \/ AskInfo \/ UNCHANGED vars
        => UNCHANGED <<call, load>>
  BY DEF Loaded, Crash, LaunchPoll, CheckAnswered, CheckRecorded, Started,
         StartBreaks, Stop,
         HealthRound, RoundEnds, AskInfo, vars
<1> QED
  BY <1>2, <1>3, <1>4, <1>5, <1>6 DEF Next

(***************************************************************************)
(* For any replicas, any policy and whatever numbers the clients give:     *)
(* overlapping calls, failing ones and the finally block together never    *)
(* lower the load that selection compares below the prompts a replica      *)
(* still has, except by what calls that announced none took off.           *)
(***************************************************************************)
THEOREM LoadsCoverRunning == Spec => []LoadCoversRunning
PROOF
<1>1. CoveringInv => LoadCoversRunning
  <2> SUFFICES ASSUME CoveringInv, NEW p \in Ports
               PROVE  load[p] + Cardinality(Debt(p)) >= Cardinality(Work(p))
    BY DEF LoadCoversRunning
  <2>1. /\ IsFiniteSet(Work(p)) /\ IsFiniteSet(Debt(p)) /\ load[p] \in Int
        /\ Cardinality(Work(p)) <= load[p] + Cardinality(Debt(p))
    <3>1. load[p] \in Amount
      BY DEF CoveringInv, EmbeddingInv, Typed
    <3> QED
      BY <3>1 DEF CoveringInv, Covered, Amount
  <2>2. Cardinality(Work(p)) \in Nat /\ Cardinality(Debt(p)) \in Nat
    BY <2>1, FS_CardinalityType
  <2> QED
    BY <2>1, <2>2
<1>2. Init => CoveringInv
  <2> SUFFICES ASSUME Init PROVE CoveringInv
    OBVIOUS
  <2>1. \A p \in Ports : Work(p) = {} /\ load[p] = 0
    BY DEF Init, Work, Running
  <2>2. \A p \in Ports : {d \in Calls : call[d].at = p} = {}
    BY EmbeddingConstants DEF Init
  <2>3. \A p \in Ports : Debt(p) = {}
    BY <2>2 DEF Debt
  <2> QED
    BY <2>1, <2>3, EmbeddingInit, FS_EmptySet DEF CoveringInv, Covered
<1> QED
  BY <1>1, <1>2, CoveringStep, PTL DEF Spec

=============================================================================
