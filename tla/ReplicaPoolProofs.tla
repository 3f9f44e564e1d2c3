-------------------------- MODULE ReplicaPoolProofs -------------------------
(***************************************************************************)
(* Theorems about the scheduler and about the replica pool around it, for  *)
(* any calls, requests, workers, limits, keys, routing policy and          *)
(* management calls.                                                       *)
(***************************************************************************)
EXTENDS ReplicaPool, ProofLemmas

(***************************************************************************)
(* The scheduler: first its books, then where it sends requests, from the  *)
(* candidate list as a set of positions and the least loaded worker as one *)
(* of them.                                                                *)
(***************************************************************************)

(***************************************************************************)
(* The kinds of step, endings of a task told apart only by whether it had  *)
(* been dispatched: the case split the proofs below start from.            *)
(***************************************************************************)
LEMMA StepCases ==
  ASSUME [Next]_vars
  PROVE  \/ \E r \in Requests, k \in Keys \cup {NoKey}, s \in BOOLEAN : submit(r, k, s)
         \/ \E r \in Requests : Dispatch(r)
         \/ \E r \in Requests : Backoff(r)
         \/ \E r \in Requests, o \in {"error", "stopped"} :
               pc[r] = "queued" /\ EndUndispatched(r, o)
         \/ \E r \in Requests, o \in {"result", "error", "cancelled"} :
               /\ Running(r) /\ (o = "result" => pc[r] = "generating")
               /\ EndDispatched(r, o)
         \/ pause \/ resume
         \/ \E i \in Positions, b \in BOOLEAN : mark_worker(i, b)
         \/ \E i \in Positions : cancel_worker_inflight(i)
         \/ \E w \in WorkerIds, l \in Limits : add_worker(w, l)
         \/ remove_last_worker
         \/ reset_affinity
         \/ concurrency_adjust
         \/ shutdown
         \/ drain_metrics
         \/ UNCHANGED vars
<1>1. CASE \E r \in Requests : Submit(r)
  BY <1>1 DEF Submit
<1>2. CASE \E r \in Requests : TaskStep(r)
  <2>1. PICK r \in Requests : TaskStep(r)
    BY <1>2
  <2>2. Cancelled(r) => Running(r) /\ EndDispatched(r, "cancelled")
    BY DEF Cancelled, Running
  <2>3. RouteError(r) => pc[r] = "queued" /\ EndUndispatched(r, "error")
    BY DEF RouteError
  <2>4. StopQueued(r) => pc[r] = "queued" /\ EndUndispatched(r, "stopped")
    BY DEF StopQueued
  <2> QED
    BY <2>1, <2>2, <2>3, <2>4 DEF TaskStep
<1>3. CASE \E r \in Requests : Answer(r)
  <2>1. PICK r \in Requests : Answer(r)
    BY <1>3
  <2>2. /\ Running(r) /\ pc[r] = "generating"
        /\ EndDispatched(r, "result") \/ EndDispatched(r, "error")
    BY <2>1 DEF Answer, Complete, Fail, Running
  <2> QED
    BY <2>1, <2>2
<1>4. CASE Manage
  BY <1>4 DEF Manage
<1> QED
  BY <1>1, <1>2, <1>3, <1>4 DEF Next

-----------------------------------------------------------------------------
(***************************************************************************)
(* Type correctness.  _workers and _inflight_tasks grow and shrink         *)
(* together: without that, removing the last worker could cut the second   *)
(* beyond its end, so TypeOK alone is not inductive.                       *)
(***************************************************************************)
WellTyped == TypeOK /\ DOMAIN inflight = DOMAIN workers

LEMMA SeqExcept ==
  ASSUME NEW S, NEW s \in Seq(S), NEW i, NEW x, i \in DOMAIN s => x \in S
  PROVE  /\ [s EXCEPT ![i] = x] \in Seq(S)
         /\ DOMAIN [s EXCEPT ![i] = x] = DOMAIN s
<1>1. s \in [1..Len(s) -> S] /\ Len(s) \in Nat
  OBVIOUS
<1> DEFINE t == [s EXCEPT ![i] = x]
<1>2. t \in [1..Len(s) -> S]
  BY <1>1
<1> QED
  BY <1>1, <1>2

LEMMA CutLast ==
  ASSUME NEW S, NEW s \in Seq(S), s # <<>>
  PROVE  /\ SubSeq(s, 1, Len(s) - 1) \in Seq(S)
         /\ DOMAIN SubSeq(s, 1, Len(s) - 1) = 1..(Len(s) - 1)
         /\ \A i \in 1..(Len(s) - 1) : SubSeq(s, 1, Len(s) - 1)[i] = s[i]
<1>1. Len(s) - 1 \in Nat
  OBVIOUS
<1> QED
  BY <1>1

LEMMA ReleaseKeepsType ==
  ASSUME active \in [WorkerIds -> Nat], NEW w, ReleaseSlot(w)
  PROVE  active' \in [WorkerIds -> Nat]
<1> DEFINE x == IF active[w] > 0 THEN active[w] - 1 ELSE 0
<1>1. active' = [active EXCEPT ![w] = x]
  BY DEF ReleaseSlot
<1>2. w \in WorkerIds => x \in Nat
  OBVIOUS
<1> HIDE DEF x
<1> QED
  BY <1>1, <1>2

LEMMA InitWellTyped == Init => WellTyped
<1> SUFFICES ASSUME Init PROVE TypeOK /\ DOMAIN inflight = DOMAIN workers
  BY DEF WellTyped
<1>1. workers \in Seq(WorkerIds) /\ created \in SUBSET WorkerIds
  BY InitialWorkersDistinct DEF Init
<1>2. inflight \in Seq(SUBSET Requests)
  BY InitialWorkersDistinct DEF Init
<1>3. limit \in [WorkerIds -> Limits]
  BY DEF Init
<1> QED
  BY <1>1, <1>2, <1>3 DEF Init, TypeOK, TaskStates, Outcomes

LEMMA NextWellTyped ==
  ASSUME WellTyped, [Next]_vars
  PROVE  WellTyped'
<1> USE DEF WellTyped, TypeOK, TaskStates, Outcomes, Positions
<1>1. CASE \E r \in Requests, k \in Keys \cup {NoKey}, s \in BOOLEAN : submit(r, k, s)
  BY <1>1 DEF submit, workerVars, gateVars, groupVars, metricVars, loadVars
<1>2. ASSUME NEW r \in Requests, NEW i \in Positions, RememberGroup(r, i)
      PROVE  groupWorker' \in [Keys -> Nat] /\ groupCounter' \in Nat
  <2>1. i \in Nat /\ (groupCounter + 1) % CounterCycle \in Nat
    BY CounterCyclePositive
  <2> QED
    BY <1>2, <2>1 DEF RememberGroup, groupVars
<1>3. CASE \E r \in Requests : Dispatch(r)
  <2>1. PICK r \in Requests : Dispatch(r)
    BY <1>3
  <2>2. groupWorker' \in [Keys -> Nat] /\ groupCounter' \in Nat
    BY <1>2, <2>1 DEF Dispatch
  <2>3. PICK i \in Positions :
          /\ active' = [active EXCEPT ![workers[i]] = @ + 1]
          /\ ws' = [ws EXCEPT ![r] = workers[i]]
          /\ tracked' = [tracked EXCEPT ![r] = i]
          /\ inflight' = [inflight EXCEPT ![i] = @ \cup {r}]
    BY <2>1 DEF Dispatch
  <2>4. workers[i] \in WorkerIds
    OBVIOUS
  <2>5. active' \in [WorkerIds -> Nat] /\ ws' \in [Requests -> WorkerIds \cup {NoWorker}]
    BY <2>3, <2>4
  <2>6. inflight' \in Seq(SUBSET Requests) /\ DOMAIN inflight' = DOMAIN inflight
    BY <2>3, SeqExcept
  <2> QED
    BY <2>1, <2>2, <2>3, <2>5, <2>6
       DEF Dispatch, workerVars, gateVars, reqVars, metricVars
<1>4. CASE \E r \in Requests : Backoff(r)
  <2>1. PICK r \in Requests : Backoff(r)
    BY <1>4
  <2>2. groupWorker' \in [Keys -> Nat] /\ groupCounter' \in Nat
    BY <1>2, <2>1 DEF Backoff
  <2>3. ws' \in [Requests -> WorkerIds \cup {NoWorker}]
    BY <2>1 DEF Backoff
  <2> QED
    BY <2>1, <2>2, <2>3
       DEF Backoff, workerVars, gateVars, reqVars, metricVars, loadVars
<1>5. CASE \E r \in Requests, o \in {"error", "stopped"} :
             pc[r] = "queued" /\ EndUndispatched(r, o)
  BY <1>5, ReleaseKeepsType
     DEF EndUndispatched, EndTask, workerVars, gateVars, groupVars, reqVars,
         metricVars
<1>6. CASE \E r \in Requests, o \in {"result", "error", "cancelled"} :
             EndDispatched(r, o)
  <2>1. PICK r \in Requests, o \in {"result", "error", "cancelled"} : EndDispatched(r, o)
    BY <1>6
  <2>2. active' \in [WorkerIds -> Nat]
    BY <2>1, ReleaseKeepsType DEF EndDispatched
  <2>3. inflight' \in Seq(SUBSET Requests) /\ DOMAIN inflight' = DOMAIN inflight
    <3>1. CASE tracked[r] \in DOMAIN inflight
      <4>1. inflight[tracked[r]] \ {r} \in SUBSET Requests
        BY <3>1
      <4>2. inflight' = [inflight EXCEPT ![tracked[r]] = inflight[tracked[r]] \ {r}]
        BY <2>1, <3>1 DEF EndDispatched
      <4> QED
        BY <4>1, <4>2, SeqExcept
    <3>2. CASE tracked[r] \notin DOMAIN inflight
      BY <2>1, <3>2 DEF EndDispatched
    <3> QED
      BY <3>1, <3>2
  <2>4. records' \in SUBSET Requests
    BY <2>1 DEF EndDispatched
  <2> QED
    BY <2>1, <2>2, <2>3, <2>4
       DEF EndDispatched, EndTask, workerVars, gateVars, groupVars, reqVars
<1>7. CASE pause \/ resume \/ shutdown
  BY <1>7 DEF pause, resume, shutdown, workerVars, groupVars, reqVars,
              taskVars, metricVars, loadVars
<1>8. CASE \E i \in Positions, b \in BOOLEAN : mark_worker(i, b)
  BY <1>8 DEF mark_worker, gateVars, groupVars, reqVars, taskVars, metricVars,
              loadVars
<1>9. CASE \E i \in Positions : cancel_worker_inflight(i)
  BY <1>9 DEF cancel_worker_inflight, CancelTasks, workerVars, gateVars,
              groupVars, reqVars, metricVars, loadVars
<1>10. CASE \E w \in WorkerIds, l \in Limits : add_worker(w, l)
  BY <1>10 DEF add_worker, gateVars, groupVars, reqVars, taskVars, metricVars
<1>11. CASE remove_last_worker
  <2>1. workers' \in Seq(WorkerIds) /\ DOMAIN workers' = 1..(Len(workers) - 1)
    BY <1>11, CutLast DEF remove_last_worker
  <2>2. inflight' \in Seq(SUBSET Requests) /\ DOMAIN inflight' = 1..(Len(workers) - 1)
    <3>1. Len(inflight) = Len(workers) /\ inflight # <<>>
      BY <1>11 DEF remove_last_worker
    <3> QED
      BY <1>11, <3>1, CutLast DEF remove_last_worker
  <2>3. pc' \in [Requests -> TaskStates]
    BY <1>11 DEF remove_last_worker, CancelTasks
  <2> QED
    BY <1>11, <2>1, <2>2, <2>3
       DEF remove_last_worker, gateVars, groupVars, reqVars, metricVars
<1>12. CASE reset_affinity
  BY <1>12 DEF reset_affinity, workerVars, gateVars, reqVars, taskVars,
               metricVars, loadVars
<1>13. CASE concurrency_adjust
  <2>1. limit' \in [WorkerIds -> Limits]
    BY <1>13 DEF concurrency_adjust
  <2> QED
    BY <1>13, <2>1 DEF concurrency_adjust, gateVars, groupVars, reqVars,
                       taskVars, metricVars, loadVars
<1>14. CASE drain_metrics
  BY <1>14 DEF drain_metrics, workerVars, gateVars, groupVars, reqVars,
               taskVars, loadVars
<1>15. CASE UNCHANGED vars
  BY <1>15 DEF vars, workerVars, gateVars, groupVars, reqVars, taskVars,
               metricVars, loadVars
<1> QED
  BY <1>1, <1>3, <1>4, <1>5, <1>6, <1>7, <1>8, <1>9, <1>10, <1>11, <1>12,
     <1>13, <1>14, <1>15, StepCases

(***************************************************************************)
(* Every variable keeps its type; in particular active_requests never goes *)
(* below zero.                                                             *)
(***************************************************************************)
THEOREM TypeCorrect == Spec => []TypeOK
<1>1. WellTyped => TypeOK
  BY DEF WellTyped
<1> QED
  BY InitWellTyped, NextWellTyped, <1>1, PTL DEF Spec

-----------------------------------------------------------------------------
(***************************************************************************)
(* Tasks, workers and positions.  The scheduler keeps no invariant of its  *)
(* own between a task's worker object and the position it recorded; what   *)
(* makes the two agree is that workers are only added and removed at the   *)
(* end of the list, under identities never used before.                    *)
(***************************************************************************)
WorkersDistinct ==
  /\ \A i, j \in Positions : workers[i] = workers[j] => i = j
  /\ \A i \in Positions : workers[i] \in created

TasksBound == \A r \in Requests : Running(r) => ws[r] \in created

TrackedHere ==
  \A r \in Requests, i \in Positions :
    Running(r) /\ ws[r] = workers[i] => tracked[r] = i

Linked ==
  /\ WellTyped /\ WorkersDistinct /\ TasksBound /\ TrackedHere
  /\ InflightExact /\ NoOrphans

LEMMA InitLinked == Init => Linked
<1> SUFFICES ASSUME Init PROVE Linked
  OBVIOUS
<1>1. WellTyped
  BY InitWellTyped
<1>2. \A r \in Requests : ~Running(r) /\ pc[r] # "generating"
  BY DEF Init, Running
<1>3. WorkersDistinct
  BY InitialWorkersDistinct DEF Init, WorkersDistinct, Positions
<1>4. InflightExact
  BY <1>2 DEF Init, InflightExact, Positions, Holders
<1> QED
  BY <1>1, <1>2, <1>3, <1>4 DEF Linked, TasksBound, TrackedHere, NoOrphans

\* A step that leaves the list and the running tasks alone, or only turns
\* generating tasks into cancelled ones.
LEMMA SameRunning ==
  ASSUME Linked, WellTyped', UNCHANGED <<workers, created, inflight>>,
         \A r \in Requests : Running(r)' <=> Running(r),
         \A r \in Requests : Running(r) => ws'[r] = ws[r] /\ tracked'[r] = tracked[r],
         \A r \in Requests : pc'[r] = "generating" => pc[r] = "generating"
  PROVE  /\ Linked'
         /\ \A w : Holders(w)' = Holders(w)
<1>1. \A w : Holders(w)' = Holders(w)
  BY DEF Holders
<1>2. WorkersDistinct' /\ TasksBound' /\ TrackedHere'
  BY DEF Linked, WorkersDistinct, TasksBound, TrackedHere, Positions
<1>3. InflightExact'
  BY <1>1 DEF Linked, InflightExact, Positions
<1>4. NoOrphans'
  BY DEF Linked, NoOrphans, Elements, Running
<1> QED
  BY <1>1, <1>2, <1>3, <1>4 DEF Linked

LEMMA CancelKeepsRunning ==
  ASSUME NEW I, CancelTasks(I), pc \in [Requests -> TaskStates]
  PROVE  /\ \A r \in Requests : Running(r)' <=> Running(r)
         /\ \A r \in Requests : pc'[r] = "generating" => pc[r] = "generating"
         /\ \A r \in Requests, i \in I : r \in inflight[i] => pc'[r] # "generating"
BY DEF CancelTasks, Running

\* The steps in which no task starts or ends on a worker and no worker comes
\* or goes.
LEMMA QuietSteps ==
  ASSUME Linked, WellTyped',
         \/ \E r \in Requests, k \in Keys \cup {NoKey}, s \in BOOLEAN : submit(r, k, s)
         \/ \E r \in Requests : Backoff(r)
         \/ \E r \in Requests, o \in {"error", "stopped"} :
               pc[r] = "queued" /\ EndUndispatched(r, o)
         \/ pause \/ resume
         \/ \E i \in Positions, b \in BOOLEAN : mark_worker(i, b)
         \/ \E i \in Positions : cancel_worker_inflight(i)
         \/ reset_affinity
         \/ concurrency_adjust
         \/ shutdown
         \/ drain_metrics
         \/ UNCHANGED vars
  PROVE  /\ Linked'
         /\ \A w : Holders(w)' = Holders(w)
         /\ UNCHANGED <<workers, created>>
<1>0. WellTyped /\ TypeOK /\ pc \in [Requests -> TaskStates]
  BY DEF Linked, WellTyped, TypeOK
<1> USE <1>0
<1> DEFINE Same ==
      /\ UNCHANGED <<workers, created, inflight>>
      /\ \A r \in Requests : Running(r)' <=> Running(r)
      /\ \A r \in Requests : Running(r) => ws'[r] = ws[r] /\ tracked'[r] = tracked[r]
      /\ \A r \in Requests : pc'[r] = "generating" => pc[r] = "generating"
<1>1. CASE \E r \in Requests, k \in Keys \cup {NoKey}, s \in BOOLEAN : submit(r, k, s)
  <2>1. Same
    BY <1>1 DEF submit, workerVars, loadVars, Running
  <2> QED
    BY <2>1, SameRunning
<1>2. CASE \E r \in Requests : Backoff(r)
  <2>1. PICK q \in Requests : Backoff(q)
    BY <1>2
  <2>2. PICK w : ws' = [ws EXCEPT ![q] = w]
    BY <2>1 DEF Backoff
  <2>3. Same
    BY <2>1, <2>2 DEF Backoff, workerVars, loadVars, Running, TypeOK
  <2> QED
    BY <2>3, SameRunning
<1>3. CASE \E r \in Requests, o \in {"error", "stopped"} :
             pc[r] = "queued" /\ EndUndispatched(r, o)
  <2>1. Same
    BY <1>3 DEF EndUndispatched, EndTask, workerVars, Running, TypeOK
  <2> QED
    BY <2>1, SameRunning
<1>4. CASE \E i \in Positions : cancel_worker_inflight(i)
  <2>1. Same
    BY <1>4, CancelKeepsRunning DEF cancel_worker_inflight, workerVars, loadVars
  <2> QED
    BY <2>1, SameRunning
<1>5. CASE \/ pause \/ resume \/ shutdown \/ reset_affinity \/ drain_metrics
           \/ \E i \in Positions, b \in BOOLEAN : mark_worker(i, b)
           \/ concurrency_adjust
           \/ UNCHANGED vars
  <2>1. UNCHANGED <<workers, created, inflight, taskVars>>
    BY <1>5 DEF pause, resume, shutdown, reset_affinity, drain_metrics, mark_worker,
                concurrency_adjust, vars, workerVars, loadVars
  <2>2. Same
    BY <2>1 DEF taskVars, Running
  <2> QED
    BY <2>2, SameRunning
<1> QED
  BY <1>1, <1>2, <1>3, <1>4, <1>5

LEMMA DispatchLinked ==
  ASSUME Linked, WellTyped', NEW r \in Requests, NEW i \in Positions,
         pc[r] = "queued",
         pc' = [pc EXCEPT ![r] = "generating"],
         ws' = [ws EXCEPT ![r] = workers[i]],
         tracked' = [tracked EXCEPT ![r] = i],
         inflight' = [inflight EXCEPT ![i] = @ \cup {r}],
         UNCHANGED <<workers, created>>
  PROVE  /\ Linked'
         /\ r \notin Holders(workers[i])
         /\ Holders(workers[i])' = Holders(workers[i]) \cup {r}
         /\ \A w : w # workers[i] => Holders(w)' = Holders(w)
<1>0. /\ pc \in [Requests -> TaskStates] /\ tracked \in [Requests -> Nat]
      /\ ws \in [Requests -> WorkerIds \cup {NoWorker}]
      /\ DOMAIN inflight = Positions /\ inflight \in Seq(SUBSET Requests)
  BY DEF Linked, WellTyped, TypeOK, Positions
<1>1. \A q \in Requests \ {r} : /\ pc'[q] = pc[q] /\ ws'[q] = ws[q]
                                /\ tracked'[q] = tracked[q]
  BY <1>0
<1>2. pc'[r] = "generating" /\ ws'[r] = workers[i] /\ tracked'[r] = i
  BY <1>0
<1>3. \A w : r \notin Holders(w)
  BY DEF Holders, Running
<1>4. /\ Holders(workers[i])' = Holders(workers[i]) \cup {r}
      /\ \A w : w # workers[i] => Holders(w)' = Holders(w)
  BY <1>1, <1>2, <1>3 DEF Holders, Running
<1>5. WorkersDistinct'
  BY DEF Linked, WorkersDistinct, Positions
<1>6. TasksBound'
  BY <1>1, <1>2 DEF Linked, TasksBound, WorkersDistinct, Running
<1>7. TrackedHere'
  BY <1>1, <1>2 DEF Linked, TrackedHere, WorkersDistinct, Running, Positions
<1>8. InflightExact'
  <2>1. DOMAIN inflight' = Positions
    BY <1>0
  <2>2. ASSUME NEW j \in Positions PROVE inflight'[j] = Holders(workers[j])'
    <3>1. inflight[j] = Holders(workers[j])
      BY DEF Linked, InflightExact
    <3>2. CASE j = i
      BY <1>0, <1>4, <3>1, <3>2
    <3>3. CASE j # i
      <4>1. workers[j] # workers[i]
        BY <3>3 DEF Linked, WorkersDistinct
      <4> QED
        BY <1>0, <1>4, <3>1, <3>3, <4>1
    <3> QED
      BY <3>2, <3>3
  <2> QED
    BY <2>1, <2>2 DEF InflightExact, Positions
<1>9. NoOrphans'
  BY <1>1, <1>2 DEF Linked, NoOrphans, Elements, Positions
<1> QED
  BY <1>3, <1>4, <1>5, <1>6, <1>7, <1>8, <1>9 DEF Linked

\* A task that was dispatched ends.  Its recorded position names its worker
\* exactly when that worker is still in the list.
LEMMA EndLinked ==
  ASSUME Linked, WellTyped', NEW r \in Requests, NEW o,
         Running(r), EndDispatched(r, o), NEW v, v = ws[r]
  PROVE  /\ Linked'
         /\ UNCHANGED <<workers, created>>
         /\ tracked[r] \notin DOMAIN inflight =>
              \A j \in Positions : workers[j] # v
         /\ r \in Holders(v)
         /\ Holders(v)' = Holders(v) \ {r}
         /\ \A w : w # v => Holders(w)' = Holders(w)
<1>0. /\ pc \in [Requests -> TaskStates] /\ tracked \in [Requests -> Nat]
      /\ ws \in [Requests -> WorkerIds \cup {NoWorker}]
      /\ DOMAIN inflight = Positions /\ inflight \in Seq(SUBSET Requests)
  BY DEF Linked, WellTyped, TypeOK, Positions
<1>1. \A q \in Requests \ {r} : /\ pc'[q] = pc[q] /\ ws'[q] = ws[q]
                                /\ tracked'[q] = tracked[q]
  BY <1>0 DEF EndDispatched, EndTask
<1>2. pc'[r] = "done" /\ UNCHANGED <<workers, created>>
  BY <1>0 DEF EndDispatched, EndTask, workerVars
<1>3. ~Running(r)' /\ \A q \in Requests \ {r} : Running(q)' <=> Running(q)
  BY <1>1, <1>2 DEF Running
<1>4. /\ r \in Holders(v)
      /\ Holders(v)' = Holders(v) \ {r}
      /\ \A w : w # v => Holders(w)' = Holders(w)
  BY <1>1, <1>3 DEF Holders
<1>5. WorkersDistinct'
  BY <1>2 DEF Linked, WorkersDistinct, Positions
<1>6. TasksBound'
  BY <1>1, <1>2, <1>3 DEF Linked, TasksBound
<1>7. TrackedHere'
  BY <1>1, <1>2, <1>3 DEF Linked, TrackedHere, Positions
<1>8. \A j \in Positions : workers[j] = v => tracked[r] = j
  BY DEF Linked, TrackedHere
<1>9. InflightExact'
  <2>1. ASSUME NEW j \in Positions, NEW w, w = workers[j]
        PROVE  inflight'[j] = Holders(w)'
    <3>1. inflight[j] = Holders(w)
      BY <2>1 DEF Linked, InflightExact
    <3>2. inflight'[j] = IF j = tracked[r] THEN inflight[j] \ {r} ELSE inflight[j]
      BY <1>0 DEF EndDispatched
    <3>3. CASE w = v
      BY <1>4, <1>8, <2>1, <3>1, <3>2, <3>3
    <3>4. CASE w # v
      <4>1. r \notin Holders(w)
        BY <3>4 DEF Holders
      <4> QED
        BY <1>4, <3>1, <3>2, <3>4, <4>1
    <3> QED
      BY <3>3, <3>4
  <2>2. DOMAIN inflight' = Positions
    BY <1>0 DEF EndDispatched
  <2> QED
    BY <1>2, <2>1, <2>2 DEF InflightExact, Positions
<1>10. NoOrphans'
  BY <1>1, <1>2 DEF Linked, NoOrphans, Elements
<1> QED
  BY <1>0, <1>2, <1>4, <1>5, <1>6, <1>7, <1>8, <1>9, <1>10 DEF Linked

LEMMA AddLinked ==
  ASSUME Linked, WellTyped', NEW n \in WorkerIds, NEW l \in Limits, add_worker(n, l)
  PROVE  /\ Linked'
         /\ \A w : Holders(w)' = Holders(w)
         /\ Holders(n) = {}
         /\ Positions' = Positions \cup {Len(workers) + 1}
         /\ workers'[Len(workers) + 1] = n
         /\ \A i \in Positions : workers'[i] = workers[i] /\ workers[i] # n
<1>0. /\ workers \in Seq(WorkerIds) /\ inflight \in Seq(SUBSET Requests)
      /\ DOMAIN inflight = Positions /\ Len(inflight) = Len(workers)
      /\ Positions = 1..Len(workers)
  BY DEF Linked, WellTyped, TypeOK, Positions
<1>1. /\ Positions' = Positions \cup {Len(workers) + 1}
      /\ workers'[Len(workers) + 1] = n
      /\ \A i \in Positions : workers'[i] = workers[i]
      /\ Len(workers) + 1 \notin Positions
  BY <1>0 DEF add_worker, Positions
<1>2. /\ DOMAIN inflight' = Positions'
      /\ inflight'[Len(workers) + 1] = {}
      /\ \A i \in Positions : inflight'[i] = inflight[i]
  BY <1>0, <1>1 DEF add_worker
<1>3. n \notin created /\ created' = created \cup {n} /\ UNCHANGED <<pc, ws, tracked>>
  BY DEF add_worker, taskVars
<1>4. \A r \in Requests : Running(r)' <=> Running(r)
  BY <1>3 DEF Running
<1>5. \A w : Holders(w)' = Holders(w)
  BY <1>3, <1>4 DEF Holders
<1>6. Holders(n) = {} /\ \A i \in Positions : workers[i] # n
  BY <1>3 DEF Holders, Linked, TasksBound, WorkersDistinct
<1>7. WorkersDistinct'
  BY <1>1, <1>3, <1>6 DEF Linked, WorkersDistinct
<1>8. TasksBound'
  BY <1>3, <1>4 DEF Linked, TasksBound
<1>9. TrackedHere'
  <2>1. ASSUME NEW r \in Requests, NEW i \in Positions', Running(r), ws[r] = workers'[i]
        PROVE  tracked[r] = i
    <3>1. i # Len(workers) + 1
      BY <1>1, <1>6, <2>1 DEF Holders
    <3> QED
      BY <1>1, <2>1, <3>1 DEF Linked, TrackedHere
  <2> QED
    BY <1>3, <1>4, <2>1 DEF TrackedHere
<1>10. InflightExact'
  BY <1>1, <1>2, <1>5, <1>6 DEF Linked, InflightExact
<1>11. NoOrphans'
  BY <1>1, <1>3 DEF Linked, NoOrphans, Elements, Positions
<1> QED
  BY <1>1, <1>5, <1>6, <1>7, <1>8, <1>9, <1>10, <1>11 DEF Linked

\* The tasks of the removed worker are exactly those its set holds, so every
\* one of them is cancelled.
LEMMA RemoveLinked ==
  ASSUME Linked, WellTyped', remove_last_worker
  PROVE  /\ Linked'
         /\ \A w : Holders(w)' = Holders(w)
         /\ Positions' \subseteq Positions
         /\ \A i \in Positions' : workers'[i] = workers[i]
<1>0. /\ workers \in Seq(WorkerIds) /\ inflight \in Seq(SUBSET Requests)
      /\ DOMAIN inflight = Positions /\ Len(inflight) = Len(workers)
      /\ Positions = 1..Len(workers) /\ pc \in [Requests -> TaskStates]
      /\ workers # <<>> /\ inflight # <<>> /\ Len(workers) \in Positions
  BY DEF Linked, WellTyped, TypeOK, Positions, remove_last_worker
<1>1. /\ Positions' = 1..(Len(workers) - 1) /\ Positions' \subseteq Positions
      /\ \A i \in Positions' : workers'[i] = workers[i]
  BY <1>0, CutLast DEF remove_last_worker, Positions
<1>2. /\ DOMAIN inflight' = Positions'
      /\ \A i \in Positions' : inflight'[i] = inflight[i]
  BY <1>0, <1>1, CutLast DEF remove_last_worker
<1>3. UNCHANGED <<created, ws, tracked>> /\ CancelTasks({Len(workers)})
  BY DEF remove_last_worker
<1>4. /\ \A r \in Requests : Running(r)' <=> Running(r)
      /\ \A r \in Requests : pc'[r] = "generating" => pc[r] = "generating"
      /\ \A r \in inflight[Len(workers)] : r \in Requests => pc'[r] # "generating"
  BY <1>0, <1>3, CancelKeepsRunning
<1>5. \A w : Holders(w)' = Holders(w)
  BY <1>3, <1>4 DEF Holders
<1>6. WorkersDistinct' /\ TasksBound' /\ TrackedHere'
  BY <1>1, <1>3, <1>4 DEF Linked, WorkersDistinct, TasksBound, TrackedHere
<1>7. InflightExact'
  BY <1>1, <1>2, <1>5 DEF Linked, InflightExact
<1>8. NoOrphans'
  <2>1. ASSUME NEW r \in Requests, pc'[r] = "generating"
        PROVE  ws'[r] \in Elements(workers)'
    <3>1. Running(r) /\ pc[r] = "generating"
      BY <1>4, <2>1 DEF Running
    <3>2. PICK i \in Positions : ws[r] = workers[i]
      BY <3>1 DEF Linked, NoOrphans, Elements, Positions
    <3>3. r \in inflight[i]
      BY <3>1, <3>2 DEF Linked, InflightExact, Holders
    <3>4. i # Len(workers)
      BY <1>4, <2>1, <3>3
    <3>5. i \in Positions'
      <4>1. Len(workers) \in Nat /\ i \in 1..Len(workers)
        BY <1>0
      <4> QED
        BY <1>1, <3>4, <4>1
    <3> QED
      BY <1>1, <1>3, <3>2, <3>5 DEF Elements, Positions
  <2> QED
    BY <2>1 DEF NoOrphans
<1> QED
  BY <1>1, <1>5, <1>6, <1>7, <1>8 DEF Linked

LEMMA NextLinked ==
  ASSUME Linked, [Next]_vars
  PROVE  Linked'
<1>0. WellTyped'
  BY NextWellTyped DEF Linked
<1>1. CASE \E r \in Requests : Dispatch(r)
  <2>1. PICK r \in Requests : Dispatch(r)
    BY <1>1
  <2>2. PICK i \in Positions :
          /\ ws' = [ws EXCEPT ![r] = workers[i]]
          /\ tracked' = [tracked EXCEPT ![r] = i]
          /\ inflight' = [inflight EXCEPT ![i] = @ \cup {r}]
    BY <2>1 DEF Dispatch
  <2>3. UNCHANGED <<workers, created>> /\ pc[r] = "queued"
        /\ pc' = [pc EXCEPT ![r] = "generating"]
    BY <2>1 DEF Dispatch, workerVars
  <2> QED
    BY <1>0, <2>2, <2>3, DispatchLinked
<1>2. CASE \E r \in Requests, o \in {"result", "error", "cancelled"} :
             Running(r) /\ EndDispatched(r, o)
  <2>1. PICK r \in Requests, o \in {"result", "error", "cancelled"} :
          Running(r) /\ EndDispatched(r, o)
    BY <1>2
  <2> QED
    BY <1>0, <2>1, EndLinked
<1>3. CASE \E w \in WorkerIds, l \in Limits : add_worker(w, l)
  BY <1>0, <1>3, AddLinked
<1>4. CASE remove_last_worker
  BY <1>0, <1>4, RemoveLinked
<1> QED
  BY <1>0, <1>1, <1>2, <1>3, <1>4, StepCases, QuietSteps

(***************************************************************************)
(* The in-flight set of a position is always the set of tasks that hold a  *)
(* slot of the worker now at that position, whatever was added, removed    *)
(* and cancelled; hence no request keeps waiting for a removed worker.     *)
(***************************************************************************)
THEOREM InflightIsExact == Spec => []InflightExact
<1>1. Linked => InflightExact
  BY DEF Linked
<1> QED
  BY InitLinked, NextLinked, <1>1, PTL DEF Spec

(***************************************************************************)
(* No request waits for the answer of a worker that has left the list.     *)
(***************************************************************************)
THEOREM NobodyIsOrphaned == Spec => []NoOrphans
<1>1. Linked => NoOrphans
  BY DEF Linked
<1> QED
  BY InitLinked, NextLinked, <1>1, PTL DEF Spec

-----------------------------------------------------------------------------
(***************************************************************************)
(* Slots.  active_requests is compared with the tasks that hold a slot.    *)
(***************************************************************************)
SlotsOf(w) ==
  /\ active[w] <= Cardinality(Holders(w))
  /\ w \notin misreleased => active[w] = Cardinality(Holders(w))

LEMMA HoldersFinite ==
  \A w : IsFiniteSet(Holders(w)) /\ Cardinality(Holders(w)) \in Nat
<1>1. \A w : Holders(w) \subseteq Requests
  BY DEF Holders
<1> QED
  BY <1>1, RequestsFinite, FS_Subset, FS_CardinalityType

\* Steps that move no task on or off a worker and give no slot back.
LEMMA SlotsKept ==
  ASSUME SlotsAccounted, Positions' \subseteq Positions,
         \A i \in Positions' : workers'[i] = workers[i],
         \A w : Holders(w)' = Holders(w),
         UNCHANGED <<active, misreleased>>
  PROVE  SlotsAccounted'
BY DEF SlotsAccounted

LEMMA DispatchSlots ==
  ASSUME Linked, SlotsAccounted, WellTyped', NEW r \in Requests, Dispatch(r)
  PROVE  /\ SlotsAccounted'
         /\ \A w \in WorkerIds : ws'[r] = w /\ w \notin misreleased =>
              Cardinality(Holders(w)') <= limit[w]
<1>0. /\ active \in [WorkerIds -> Nat] /\ workers \in Seq(WorkerIds)
      /\ ws \in [Requests -> WorkerIds \cup {NoWorker}]
      /\ limit \in [WorkerIds -> Limits] /\ Limits \subseteq Nat
  BY LimitsPositive DEF Linked, WellTyped, TypeOK
<1>1. UNCHANGED <<workers, created, misreleased>> /\ pc[r] = "queued"
      /\ pc' = [pc EXCEPT ![r] = "generating"]
  BY DEF Dispatch, workerVars
<1>2. PICK i \in Positions :
          /\ HasSlot(workers[i])
          /\ active' = [active EXCEPT ![workers[i]] = @ + 1]
          /\ ws' = [ws EXCEPT ![r] = workers[i]]
          /\ tracked' = [tracked EXCEPT ![r] = i]
          /\ inflight' = [inflight EXCEPT ![i] = @ \cup {r}]
  BY DEF Dispatch
<1>3. PICK v \in WorkerIds : v = workers[i]
  BY <1>0 DEF Positions
<1>4. /\ r \notin Holders(v)
      /\ Holders(v)' = Holders(v) \cup {r}
      /\ \A w : w # v => Holders(w)' = Holders(w)
  BY <1>1, <1>2, <1>3, DispatchLinked
<1>5. Cardinality(Holders(v)') = Cardinality(Holders(v)) + 1
  BY <1>4, HoldersFinite, FS_AddElement
<1>6. active'[v] = active[v] + 1 /\ \A w \in WorkerIds \ {v} : active'[w] = active[w]
  BY <1>0, <1>2, <1>3
<1>7. SlotsOf(v)
  BY <1>2, <1>3 DEF SlotsAccounted, SlotsOf
<1>8. SlotsAccounted'
  <2>1. ASSUME NEW j \in Positions, NEW w \in WorkerIds, w = workers[j]
        PROVE  SlotsOf(w)'
    <3>1. SlotsOf(w)
      BY <2>1 DEF SlotsAccounted, SlotsOf
    <3>2. CASE w = v
      BY <1>0, <1>1, <1>5, <1>6, <1>7, <3>2, HoldersFinite DEF SlotsOf
    <3>3. CASE w # v
      BY <1>1, <1>4, <1>6, <3>1, <3>3 DEF SlotsOf
    <3> QED
      BY <3>2, <3>3
  <2>2. \A j \in Positions : workers[j] \in WorkerIds
    BY <1>0 DEF Positions
  <2> QED
    BY <1>1, <2>1, <2>2 DEF SlotsAccounted, SlotsOf, Positions
<1>9. v \notin misreleased => Cardinality(Holders(v)') <= limit[v]
  <2>1. active[v] < limit[v] /\ active[v] \in Nat /\ limit[v] \in Nat
    BY <1>0, <1>2, <1>3 DEF HasSlot
  <2> QED
    BY <1>5, <1>7, <2>1 DEF SlotsOf
<1> QED
  BY <1>0, <1>2, <1>3, <1>8, <1>9

LEMMA EndSlots ==
  ASSUME Linked, SlotsAccounted, WellTyped', NEW r \in Requests, NEW o,
         Running(r), EndDispatched(r, o)
  PROVE  SlotsAccounted'
<1>0. active \in [WorkerIds -> Nat] /\ workers \in Seq(WorkerIds)
  BY DEF Linked, WellTyped, TypeOK
<1>1. ws[r] \in WorkerIds
  BY DEF Linked, TasksBound, WellTyped, TypeOK
<1>2. PICK v \in WorkerIds : v = ws[r]
  BY <1>1
<1>3. /\ UNCHANGED <<workers, created>>
      /\ tracked[r] \notin DOMAIN inflight => \A j \in Positions : workers[j] # v
      /\ r \in Holders(v)
      /\ Holders(v)' = Holders(v) \ {r}
      /\ \A w : w # v => Holders(w)' = Holders(w)
  BY <1>2, EndLinked
<1>4. UNCHANGED misreleased
  BY DEF EndDispatched
<1>5. Cardinality(Holders(v)') = Cardinality(Holders(v)) - 1
      /\ Cardinality(Holders(v)) > 0
  <2>1. Cardinality(Holders(v)') = Cardinality(Holders(v)) - 1
    BY <1>3, HoldersFinite, FS_RemoveElement
  <2>2. Cardinality(Holders(v)') \in Nat
    BY <1>3, HoldersFinite, FS_RemoveElement, FS_CardinalityType
  <2> QED
    BY <2>1, <2>2, HoldersFinite
<1>6. \A w \in WorkerIds \ {v} : active'[w] = active[w]
  BY <1>0, <1>2 DEF EndDispatched, ReleaseSlot
<1>7. tracked[r] \in DOMAIN inflight =>
        active'[v] = IF active[v] > 0 THEN active[v] - 1 ELSE 0
  BY <1>0, <1>2 DEF EndDispatched, ReleaseSlot
<1>8. ASSUME NEW j \in Positions, NEW w \in WorkerIds, w = workers[j]
      PROVE  SlotsOf(w)'
  <2>1. SlotsOf(w)
    BY <1>8 DEF SlotsAccounted, SlotsOf
  <2>2. CASE w = v
    <3>1. active'[v] = IF active[v] > 0 THEN active[v] - 1 ELSE 0
      BY <1>3, <1>7, <1>8, <2>2
    <3> QED
      BY <1>0, <1>4, <1>5, <2>1, <2>2, <3>1, HoldersFinite DEF SlotsOf
  <2>3. CASE w # v
    BY <1>3, <1>4, <1>6, <2>1, <2>3 DEF SlotsOf
  <2> QED
    BY <2>2, <2>3
<1>9. \A j \in Positions : workers[j] \in WorkerIds
  BY <1>0 DEF Positions
<1> QED
  BY <1>3, <1>8, <1>9 DEF SlotsAccounted, SlotsOf, Positions

\* A slot is given back by a task that never had one: the count may fall
\* below the holders of that worker, which is misreleased from then on.
LEMMA MisreleaseSlots ==
  ASSUME Linked, SlotsAccounted, WellTyped', NEW r \in Requests, NEW o,
         pc[r] = "queued", EndUndispatched(r, o),
         UNCHANGED workers, \A w : Holders(w)' = Holders(w)
  PROVE  SlotsAccounted'
<1>0. active \in [WorkerIds -> Nat] /\ workers \in Seq(WorkerIds)
  BY DEF Linked, WellTyped, TypeOK
<1>1. CASE ws[r] = NoWorker
  <2>1. UNCHANGED <<active, misreleased>>
    BY <1>1 DEF EndUndispatched
  <2> QED
    BY <2>1, SlotsKept DEF Positions
<1>2. CASE ws[r] # NoWorker
  <2>1. misreleased' = misreleased \cup {ws[r]} /\ ReleaseSlot(ws[r])
    BY <1>2 DEF EndUndispatched
  <2>2. ASSUME NEW w \in WorkerIds
        PROVE  active'[w] <= active[w] /\ (w # ws[r] => active'[w] = active[w])
    BY <1>0, <2>1, <2>2 DEF ReleaseSlot
  <2>3. ASSUME NEW j \in Positions, NEW w \in WorkerIds, w = workers[j]
        PROVE  SlotsOf(w)'
    <3>1. SlotsOf(w)
      BY <2>3 DEF SlotsAccounted, SlotsOf
    <3>2. active'[w] \in Nat /\ active[w] \in Nat
      BY <1>0 DEF WellTyped, TypeOK
    <3> QED
      BY <2>1, <2>2, <3>1, <3>2, HoldersFinite DEF SlotsOf
  <2>4. \A j \in Positions : workers[j] \in WorkerIds
    BY <1>0 DEF Positions
  <2> QED
    BY <2>3, <2>4 DEF SlotsAccounted, SlotsOf, Positions
<1> QED
  BY <1>1, <1>2

LEMMA NextSlots ==
  ASSUME Linked, SlotsAccounted, [Next]_vars
  PROVE  SlotsAccounted'
<1>0. WellTyped'
  BY NextWellTyped DEF Linked
<1>1. CASE \E r \in Requests : Dispatch(r)
  BY <1>0, <1>1, DispatchSlots
<1>2. CASE \E r \in Requests, o \in {"error", "stopped"} :
             pc[r] = "queued" /\ EndUndispatched(r, o)
  BY <1>0, <1>2, QuietSteps, MisreleaseSlots
<1>3. CASE \E r \in Requests, o \in {"result", "error", "cancelled"} :
             Running(r) /\ EndDispatched(r, o)
  BY <1>0, <1>3, EndSlots
<1>4. CASE \E w \in WorkerIds, l \in Limits : add_worker(w, l)
  <2>1. PICK n \in WorkerIds, l \in Limits : add_worker(n, l)
    BY <1>4
  <2>2. /\ \A w : Holders(w)' = Holders(w)
        /\ Holders(n) = {}
        /\ Positions' = Positions \cup {Len(workers) + 1}
        /\ workers'[Len(workers) + 1] = n
        /\ \A i \in Positions : workers'[i] = workers[i] /\ workers[i] # n
    BY <1>0, <2>1, AddLinked
  <2>3. active' = [active EXCEPT ![n] = 0] /\ UNCHANGED misreleased
    BY <2>1 DEF add_worker
  <2>4. active \in [WorkerIds -> Nat] /\ workers \in Seq(WorkerIds)
    BY DEF Linked, WellTyped, TypeOK
  <2>5. active'[n] = 0 /\ \A w \in WorkerIds \ {n} : active'[w] = active[w]
    BY <2>3, <2>4
  <2>6. Cardinality(Holders(n)') = 0
    BY <2>2, FS_EmptySet
  <2>7. SlotsOf(n)'
    BY <2>5, <2>6 DEF SlotsOf
  <2>8. ASSUME NEW j \in Positions, NEW w \in WorkerIds, w = workers[j]
        PROVE  SlotsOf(w)'
    <3>1. w # n /\ SlotsOf(w)
      BY <2>2, <2>8 DEF SlotsAccounted, SlotsOf
    <3> QED
      BY <2>2, <2>3, <2>5, <3>1 DEF SlotsOf
  <2>9. \A j \in Positions : workers[j] \in WorkerIds
    BY <2>4 DEF Positions
  <2> QED
    BY <2>2, <2>7, <2>8, <2>9 DEF SlotsAccounted, SlotsOf
<1>5. CASE remove_last_worker
  <2>1. UNCHANGED <<active, misreleased>>
    BY <1>5 DEF remove_last_worker
  <2> QED
    BY <1>0, <1>5, <2>1, RemoveLinked, SlotsKept
<1>6. CASE \/ \E r \in Requests, k \in Keys \cup {NoKey}, s \in BOOLEAN : submit(r, k, s)
           \/ \E r \in Requests : Backoff(r)
           \/ pause \/ resume
           \/ \E i \in Positions, b \in BOOLEAN : mark_worker(i, b)
           \/ \E i \in Positions : cancel_worker_inflight(i)
           \/ reset_affinity
           \/ concurrency_adjust
           \/ shutdown
           \/ drain_metrics
           \/ UNCHANGED vars
  <2>1. UNCHANGED <<active, misreleased>>
    BY <1>6 DEF submit, Backoff, pause, resume, mark_worker, cancel_worker_inflight,
                reset_affinity, concurrency_adjust, shutdown, drain_metrics,
                vars, loadVars
  <2>2. UNCHANGED workers /\ \A w : Holders(w)' = Holders(w)
    BY <1>0, <1>6, QuietSteps
  <2> QED
    BY <2>1, <2>2, SlotsKept DEF Positions
<1> QED
  BY <1>1, <1>2, <1>3, <1>4, <1>5, <1>6, StepCases

LEMMA InitSlots == Init => SlotsAccounted
<1> SUFFICES ASSUME Init PROVE SlotsAccounted
  OBVIOUS
<1>1. \A w : Holders(w) = {}
  BY DEF Init, Holders, Running
<1>2. \A i \in Positions : active[workers[i]] = 0
  BY InitialWorkersDistinct DEF Init, Positions
<1> QED
  BY <1>1, <1>2, FS_EmptySet DEF SlotsAccounted

(***************************************************************************)
(* A worker's active_requests never exceeds the tasks that hold one of its *)
(* slots, and equals their number unless a task that had backed off from   *)
(* that worker later ended without having been dispatched.                 *)
(***************************************************************************)
THEOREM SlotsAreAccounted == Spec => []SlotsAccounted
<1>1. Init => Linked /\ SlotsAccounted
  BY InitLinked, InitSlots
<1>2. Linked /\ SlotsAccounted /\ [Next]_vars => (Linked /\ SlotsAccounted)'
  BY NextLinked, NextSlots
<1> QED
  BY <1>1, <1>2, PTL DEF Spec

-----------------------------------------------------------------------------
(* The load limit *)

LEMMA OnlyDispatchStarts ==
  ASSUME TypeOK, [Next]_vars, NEW r \in Requests,
         pc[r] = "queued", pc'[r] = "generating"
  PROVE  Dispatch(r)
<1>0. pc \in [Requests -> TaskStates]
  BY DEF TypeOK
<1>1. ASSUME NEW q \in Requests, Dispatch(q) PROVE q = r
  BY <1>0, <1>1 DEF Dispatch
<1>2. ASSUME NEW q \in Requests, NEW k, NEW s, submit(q, k, s) PROVE FALSE
  BY <1>0, <1>2 DEF submit
<1>3. ASSUME NEW q \in Requests, NEW o, EndUndispatched(q, o) \/ EndDispatched(q, o)
      PROVE  FALSE
  BY <1>0, <1>3 DEF EndUndispatched, EndDispatched, EndTask
<1>4. ASSUME NEW I, CancelTasks(I) PROVE FALSE
  BY <1>0, <1>4 DEF CancelTasks
<1>5. pc' # pc
  OBVIOUS
<1>6. ~(\E q \in Requests : Backoff(q))
  BY <1>5 DEF Backoff
<1>7. /\ ~pause /\ ~resume /\ ~shutdown /\ ~reset_affinity /\ ~concurrency_adjust
      /\ ~drain_metrics /\ ~UNCHANGED vars
      /\ ~\E i \in Positions, b \in BOOLEAN : mark_worker(i, b)
      /\ ~\E w \in WorkerIds, l \in Limits : add_worker(w, l)
  BY <1>5 DEF pause, resume, shutdown, reset_affinity, concurrency_adjust,
              drain_metrics, mark_worker, add_worker, vars, taskVars
<1>8. ~remove_last_worker /\ ~\E i \in Positions : cancel_worker_inflight(i)
  BY <1>4 DEF remove_last_worker, cancel_worker_inflight
<1> QED
  BY <1>1, <1>2, <1>3, <1>6, <1>7, <1>8, StepCases

(***************************************************************************)
(* Dispatching never puts more requests on a worker than its limit at that *)
(* moment, except on a worker one of whose slots was given back twice.     *)
(***************************************************************************)
THEOREM NeverOverCommitted == Spec => NoOverCommit
<1> DEFINE Bounded ==
      \A r \in Requests, w \in WorkerIds :
        (pc[r] = "queued" /\ pc'[r] = "generating" /\ ws'[r] = w /\ w \notin misreleased)
          => Cardinality(Holders(w)') <= limit[w]
<1>1. Init => Linked /\ SlotsAccounted
  BY InitLinked, InitSlots
<1>2. Linked /\ SlotsAccounted /\ [Next]_vars => (Linked /\ SlotsAccounted)'
  BY NextLinked, NextSlots
<1>3. Linked /\ SlotsAccounted /\ [Next]_vars => Bounded
  <2>1. ASSUME Linked, SlotsAccounted, [Next]_vars,
               NEW r \in Requests, NEW w \in WorkerIds,
               pc[r] = "queued", pc'[r] = "generating", ws'[r] = w, w \notin misreleased
        PROVE  Cardinality(Holders(w)') <= limit[w]
    <3>1. Dispatch(r)
      BY <2>1, OnlyDispatchStarts DEF Linked, WellTyped
    <3> QED
      BY <2>1, <3>1, NextWellTyped, DispatchSlots DEF Linked
  <2> QED
    BY <2>1
<1> QED
  BY <1>1, <1>2, <1>3, PTL DEF Spec, NoOverCommit

-----------------------------------------------------------------------------
(***************************************************************************)
(* Groups.  A pin is moved only when its worker is not usable, so pins     *)
(* stay as long as workers are neither removed nor marked unavailable:     *)
(* a limit is never zero.                                                  *)
(***************************************************************************)
PinsHold ==
  /\ WellTyped
  /\ \A i \in Positions : available[workers[i]]
  /\ \A k \in Keys : groupWorker[k] # 0 => groupWorker[k] \in Positions

LEMMA InitPinsHold == Init => PinsHold
<1> SUFFICES ASSUME Init PROVE PinsHold
  OBVIOUS
<1>1. WellTyped
  BY InitWellTyped
<1>2. \A i \in Positions : workers[i] \in WorkerIds
  BY <1>1 DEF WellTyped, TypeOK, Positions
<1> QED
  BY <1>1, <1>2 DEF Init, PinsHold

\* Where a pin holds, routing follows it and leaves it; elsewhere it makes one.
LEMMA PinnedSteps ==
  ASSUME PinsHold, NEW r \in Requests, NEW i \in Positions, key[r] \in Keys \cup {NoKey},
         i = Route(r), RememberGroup(r, i)
  PROVE  /\ Grouped(r) /\ PinOf(r) # 0 => i = PinOf(r) /\ UNCHANGED groupWorker
         /\ Grouped(r) => groupWorker'[key[r]] = i
         /\ \A k \in Keys : groupWorker'[k] # 0 => groupWorker'[k] \in Positions
<1>0. limit \in [WorkerIds -> Nat \ {0}] /\ groupWorker \in [Keys -> Nat]
  BY LimitsPositive DEF PinsHold, WellTyped, TypeOK
<1>1. \A j \in Positions : Usable(j)
  BY <1>0 DEF PinsHold, WellTyped, TypeOK, Usable, Positions
<1>2. Grouped(r) => key[r] \in Keys
  BY DEF Grouped
<1>3. Grouped(r) /\ PinOf(r) # 0 => PinHolds(r)
  BY <1>1, <1>2 DEF PinHolds, PinOf, PinsHold
<1>4. CASE Grouped(r) /\ PinOf(r) # 0
  <2>1. i = PinOf(r)
    BY <1>3, <1>4 DEF Route, equal_affinity_routing
  <2>2. UNCHANGED groupWorker
    BY <1>3, <1>4 DEF RememberGroup, groupVars
  <2> QED
    BY <2>1, <2>2 DEF PinOf, PinsHold
<1>5. CASE Grouped(r) /\ PinOf(r) = 0
  <2>1. groupWorker' = [groupWorker EXCEPT ![key[r]] = i]
    BY <1>5 DEF RememberGroup, PinHolds
  <2> QED
    BY <1>0, <1>2, <1>5, <2>1 DEF PinsHold
<1>6. CASE ~Grouped(r)
  BY <1>6 DEF RememberGroup, groupVars, PinsHold
<1> QED
  BY <1>4, <1>5, <1>6

LEMMA NextPinsHold ==
  ASSUME "availability" \notin ClientOps, "scale" \notin ClientOps, PinsHold, [Next]_vars
  PROVE  PinsHold'
<1>0. WellTyped'
  BY NextWellTyped DEF PinsHold
<1>1. key \in [Requests -> Keys \cup {NoKey}]
  BY DEF PinsHold, WellTyped, TypeOK
<1>2. UNCHANGED <<workers, available>>
  BY StepCases DEF submit, Dispatch, Backoff, EndUndispatched, EndDispatched, pause, resume,
     mark_worker, cancel_worker_inflight, add_worker, remove_last_worker, reset_affinity,
     concurrency_adjust, shutdown, drain_metrics, vars, workerVars
<1>3. CASE \E r \in Requests : Dispatch(r)
  BY <1>0, <1>1, <1>2, <1>3, PinnedSteps DEF Dispatch, PinsHold, Positions
<1>4. CASE \E r \in Requests : Backoff(r)
  BY <1>0, <1>1, <1>2, <1>4, PinnedSteps DEF Backoff, PinsHold, Positions
<1>5. CASE reset_affinity
  BY <1>0, <1>2, <1>5 DEF reset_affinity, PinsHold, Positions
<1>6. CASE UNCHANGED groupWorker
  BY <1>0, <1>2, <1>6 DEF PinsHold, Positions
<1>7. \/ \E r \in Requests : Dispatch(r) \/ Backoff(r)
      \/ reset_affinity
      \/ UNCHANGED groupWorker
  BY StepCases DEF submit, EndUndispatched, EndDispatched, pause, resume,
     mark_worker, cancel_worker_inflight, add_worker, remove_last_worker,
     concurrency_adjust, shutdown, drain_metrics, vars, groupVars
<1> QED
  BY <1>3, <1>4, <1>5, <1>6, <1>7

(***************************************************************************)
(* With workers left in the list and available, all requests of a group go *)
(* to one worker from its first attempt to the next reset_affinity(),      *)
(* however they back off, end and are limited in between.                  *)
(***************************************************************************)
THEOREM GroupsStayTogether ==
  ASSUME "availability" \notin ClientOps, "scale" \notin ClientOps
  PROVE  Spec => GroupTogether
<1> DEFINE Together ==
      \A r \in Requests :
        (Grouped(r) /\ pc[r] = "queued" /\ pc'[r] = "generating") =>
          /\ ws'[r] = workers[groupWorker'[key[r]]]
          /\ PinOf(r) # 0 => groupWorker'[key[r]] = PinOf(r)
<1>1. PinsHold /\ [Next]_vars => PinsHold'
  BY NextPinsHold
<1>2. PinsHold /\ [Next]_vars => Together
  <2>1. ASSUME PinsHold, [Next]_vars, NEW r \in Requests,
               Grouped(r), pc[r] = "queued", pc'[r] = "generating"
        PROVE  /\ ws'[r] = workers[groupWorker'[key[r]]]
               /\ PinOf(r) # 0 => groupWorker'[key[r]] = PinOf(r)
    <3>1. Dispatch(r)
      BY <2>1, OnlyDispatchStarts DEF PinsHold, WellTyped
    <3>2. PICK i \in Positions : /\ i = Route(r)
                                /\ ws' = [ws EXCEPT ![r] = workers[i]]
                                /\ RememberGroup(r, i)
      BY <3>1 DEF Dispatch
    <3>3. ws'[r] = workers[i] /\ key[r] \in Keys \cup {NoKey}
      BY <2>1, <3>2 DEF PinsHold, WellTyped, TypeOK
    <3> QED
      BY <2>1, <3>2, <3>3, PinnedSteps DEF PinOf
  <2> QED
    BY <2>1
<1> QED
  BY InitPinsHold, <1>1, <1>2, PTL DEF Spec, GroupTogether

-----------------------------------------------------------------------------
(***************************************************************************)
(* Metrics.  A dispatched request whose position has left _inflight_tasks  *)
(* is not recorded; such a request was cancelled, because a request that   *)
(* still awaits its answer is on a worker in the list.                     *)
(***************************************************************************)
Unanswered == \A r \in Requests : pc[r] # "done" => future[r] = "pending"

RecordsKept == UNCHANGED <<records, reported, future>>
               /\ \A r \in Requests : pc'[r] # "done" => pc[r] # "done"

LEMMA RecordsAlone ==
  ASSUME RecordsExact, Unanswered, RecordsKept
  PROVE  RecordsExact' /\ Unanswered'
BY DEF RecordsExact, Unanswered, RecordsKept

LEMMA NextRecords ==
  ASSUME Linked, RecordsExact, Unanswered, [Next]_vars
  PROVE  RecordsExact' /\ Unanswered'
<1>0. /\ future \in [Requests -> Outcomes] /\ pc \in [Requests -> TaskStates]
      /\ records \subseteq Requests
  BY DEF Linked, WellTyped, TypeOK
<1>1. CASE \E r \in Requests, o \in {"error", "stopped"} :
             pc[r] = "queued" /\ EndUndispatched(r, o)
  <2>1. PICK r \in Requests, o \in {"error", "stopped"} :
          pc[r] = "queued" /\ EndUndispatched(r, o)
    BY <1>1
  <2>2. UNCHANGED <<records, reported>> /\ future' = [future EXCEPT ![r] = o]
        /\ pc' = [pc EXCEPT ![r] = "done"]
    BY <2>1 DEF EndUndispatched, EndTask, metricVars
  <2>3. future[r] # "result" /\ o # "result"
    BY <2>1 DEF Unanswered
  <2>4. {q \in Requests : future'[q] = "result"} = {q \in Requests : future[q] = "result"}
    BY <1>0, <2>2, <2>3
  <2> QED
    BY <1>0, <2>2, <2>4 DEF RecordsExact, Unanswered
<1>2. CASE \E r \in Requests, o \in {"result", "error", "cancelled"} :
             /\ Running(r) /\ (o = "result" => pc[r] = "generating")
             /\ EndDispatched(r, o)
  <2>1. PICK r \in Requests, o \in {"result", "error", "cancelled"} :
             /\ Running(r) /\ (o = "result" => pc[r] = "generating")
             /\ EndDispatched(r, o)
    BY <1>2
  <2>2. UNCHANGED reported /\ future' = [future EXCEPT ![r] = o]
        /\ pc' = [pc EXCEPT ![r] = "done"]
    BY <2>1 DEF EndDispatched, EndTask
  <2>3. o = "result" => tracked[r] \in DOMAIN inflight
    BY <2>1 DEF Linked, NoOrphans, TrackedHere, InflightExact, Elements, Positions
  <2>4. records' = IF o = "result" THEN records \cup {r} ELSE records
    BY <2>1, <2>3 DEF EndDispatched
  <2>5. future[r] = "pending"
    BY <2>1 DEF Unanswered, Running
  <2>6. {q \in Requests : future'[q] = "result"} =
          {q \in Requests : future[q] = "result"} \cup (IF o = "result" THEN {r} ELSE {})
    BY <1>0, <2>2, <2>5
  <2>7. r \notin reported
    BY <2>5 DEF RecordsExact
  <2>8. Unanswered'
    BY <1>0, <2>2 DEF Unanswered
  <2> QED
    BY <2>2, <2>4, <2>6, <2>7, <2>8 DEF RecordsExact
<1>3. CASE drain_metrics
  <2>1. UNCHANGED <<pc, future>> /\ reported' = reported \cup records /\ records' = {}
    BY <1>3 DEF drain_metrics, taskVars
  <2> QED
    BY <2>1 DEF RecordsExact, Unanswered
<1>4. CASE remove_last_worker \/ \E i \in Positions : cancel_worker_inflight(i)
  <2>1. PICK I : CancelTasks(I)
    BY <1>4 DEF remove_last_worker, cancel_worker_inflight
  <2>2. RecordsKept
    BY <1>0, <1>4, <2>1 DEF remove_last_worker, cancel_worker_inflight, CancelTasks,
                            RecordsKept, metricVars
  <2> QED
    BY <2>2, RecordsAlone
<1>5. CASE \/ \E r \in Requests, k \in Keys \cup {NoKey}, s \in BOOLEAN : submit(r, k, s)
           \/ \E r \in Requests : Dispatch(r)
  <2>1. RecordsKept
    BY <1>0, <1>5 DEF submit, Dispatch, RecordsKept, metricVars
  <2> QED
    BY <2>1, RecordsAlone
<1>6. CASE \/ \E r \in Requests : Backoff(r)
           \/ pause \/ resume
           \/ \E i \in Positions, b \in BOOLEAN : mark_worker(i, b)
           \/ \E w \in WorkerIds, l \in Limits : add_worker(w, l)
           \/ reset_affinity
           \/ concurrency_adjust
           \/ shutdown
           \/ UNCHANGED vars
  <2>1. RecordsKept
    BY <1>6 DEF Backoff, pause, resume, mark_worker, add_worker, reset_affinity,
                concurrency_adjust, shutdown, vars, taskVars, metricVars, RecordsKept
  <2> QED
    BY <2>1, RecordsAlone
<1> QED
  BY <1>1, <1>2, <1>3, <1>4, <1>5, <1>6, StepCases

(***************************************************************************)
(* Every request answered with a result is in exactly one report of        *)
(* drain_metrics(), or in the next one, and nothing else is: also when     *)
(* workers are removed while their requests are being answered.            *)
(***************************************************************************)
THEOREM RecordsAreExact == Spec => []RecordsExact
<1>1. Init => Linked /\ RecordsExact /\ Unanswered
  BY InitLinked DEF Init, RecordsExact, Unanswered
<1>2. Linked /\ RecordsExact /\ Unanswered /\ [Next]_vars
        => (Linked /\ RecordsExact /\ Unanswered)'
  BY NextLinked, NextRecords
<1> QED
  BY <1>1, <1>2, PTL DEF Spec

-----------------------------------------------------------------------------
(***************************************************************************)
(* Refinement of the ledger.                                               *)
(***************************************************************************)
stageOf  == [r \in Requests |-> Stage(r)]
holderOf == [r \in Requests |-> IF Running(r) THEN ws[r] ELSE NoWorker]

LEMMA InitLedger == Init => Ledger!LedgerInit
BY DEF Init, Ledger!LedgerInit, Stage, Running

\* A step in which no request changes its stage, worker or answer.
LEMMA LedgerStutters ==
  ASSUME UNCHANGED future,
         \A r \in Requests : Stage(r)' = Stage(r),
         \A r \in Requests : Running(r)' <=> Running(r),
         \A r \in Requests : Running(r) => ws'[r] = ws[r]
  PROVE  UNCHANGED <<stageOf, holderOf, future>>
BY DEF stageOf, holderOf

\* A step that concerns the task of q alone.
LEMMA LedgerMoves ==
  ASSUME NEW q \in Requests, NEW st, NEW h,
         \A r \in Requests \ {q} : pc'[r] = pc[r] /\ ws'[r] = ws[r],
         Stage(q)' = st, (IF Running(q) THEN ws[q] ELSE NoWorker)' = h
  PROVE  /\ stageOf' = [stageOf EXCEPT ![q] = st]
         /\ holderOf' = [holderOf EXCEPT ![q] = h]
<1>1. \A r \in Requests \ {q} : /\ Stage(r)' = Stage(r)
                                /\ Running(r)' <=> Running(r)
  BY DEF Stage, Running
<1> QED
  BY <1>1 DEF stageOf, holderOf

LEMMA NextLedger ==
  ASSUME Linked, [Next]_vars
  PROVE  [\E r \in Requests : Ledger!LedgerStep(r)]_<<stageOf, holderOf, future>>
<1>0. /\ pc \in [Requests -> TaskStates] /\ ws \in [Requests -> WorkerIds \cup {NoWorker}]
      /\ future \in [Requests -> Outcomes] /\ workers \in Seq(WorkerIds)
  BY DEF Linked, WellTyped, TypeOK
<1> DEFINE Alone(q) == \A r \in Requests \ {q} : pc'[r] = pc[r] /\ ws'[r] = ws[r]
<1>1. CASE \E r \in Requests, k \in Keys \cup {NoKey}, s \in BOOLEAN : submit(r, k, s)
  <2>1. PICK q \in Requests : /\ pc[q] = "new" /\ pc' = [pc EXCEPT ![q] = "queued"]
                              /\ UNCHANGED <<ws, future>>
    BY <1>1 DEF submit
  <2>2. /\ Alone(q) /\ Stage(q) = "unseen" /\ Stage(q)' = "waiting"
        /\ ~Running(q) /\ ~Running(q)'
    BY <1>0, <2>1 DEF Stage, Running
  <2>3. /\ stageOf' = [stageOf EXCEPT ![q] = "waiting"]
        /\ holderOf' = [holderOf EXCEPT ![q] = NoWorker]
    BY <2>2, LedgerMoves
  <2>4. stageOf[q] = "unseen" /\ holderOf' = holderOf
    BY <2>2, <2>3 DEF stageOf, holderOf
  <2>5. Ledger!Accept(q)
    BY <2>1, <2>3, <2>4 DEF Ledger!Accept, stageOf, holderOf
  <2> QED
    BY <2>5 DEF Ledger!LedgerStep
<1>2. CASE \E r \in Requests : Dispatch(r)
  <2>a. PICK q \in Requests : Dispatch(q)
    BY <1>2
  <2>b. PICK i \in Positions : ws' = [ws EXCEPT ![q] = workers[i]]
    BY <2>a DEF Dispatch
  <2>c. PICK w \in WorkerIds : w = workers[i]
    BY <1>0 DEF Positions
  <2>1. /\ pc[q] = "queued" /\ pc' = [pc EXCEPT ![q] = "generating"]
        /\ ws' = [ws EXCEPT ![q] = w] /\ UNCHANGED future
    BY <2>a, <2>b, <2>c DEF Dispatch
  <2>2. /\ Alone(q) /\ Stage(q) = "waiting" /\ Stage(q)' = "served"
        /\ Running(q)' /\ ws'[q] = w
    BY <1>0, <2>1 DEF Stage, Running
  <2>3. /\ stageOf' = [stageOf EXCEPT ![q] = "served"]
        /\ holderOf' = [holderOf EXCEPT ![q] = w]
    BY <2>2, LedgerMoves
  <2>4. stageOf[q] = "waiting"
    BY <2>2 DEF stageOf
  <2>5. Ledger!Serve(q, w)
    BY <2>1, <2>3, <2>4 DEF Ledger!Serve, stageOf, holderOf
  <2> QED
    BY <2>5 DEF Ledger!LedgerStep
<1>3. CASE \E r \in Requests, o \in {"error", "stopped"} :
             pc[r] = "queued" /\ EndUndispatched(r, o)
  <2>1. PICK q \in Requests, o \in {"error", "stopped"} :
          /\ pc[q] = "queued" /\ pc' = [pc EXCEPT ![q] = "done"]
          /\ ws' = [ws EXCEPT ![q] = NoWorker] /\ future' = [future EXCEPT ![q] = o]
    BY <1>3 DEF EndUndispatched, EndTask
  <2>2. /\ Alone(q) /\ Stage(q) = "waiting" /\ Stage(q)' = "answered"
        /\ ~Running(q) /\ ~Running(q)'
    BY <1>0, <2>1 DEF Stage, Running
  <2>3. /\ stageOf' = [stageOf EXCEPT ![q] = "answered"]
        /\ holderOf' = [holderOf EXCEPT ![q] = NoWorker]
    BY <2>2, LedgerMoves
  <2>4. stageOf[q] = "waiting" /\ holderOf' = holderOf
    BY <2>2, <2>3 DEF stageOf, holderOf
  <2>5. Ledger!TurnDown(q, o)
    BY <2>1, <2>3, <2>4 DEF Ledger!TurnDown, stageOf, holderOf
  <2> QED
    BY <2>5 DEF Ledger!LedgerStep
<1>4. CASE \E r \in Requests, o \in {"result", "error", "cancelled"} :
             Running(r) /\ EndDispatched(r, o)
  <2>1. PICK q \in Requests, o \in {"result", "error", "cancelled"} :
          /\ Running(q) /\ pc' = [pc EXCEPT ![q] = "done"]
          /\ ws' = [ws EXCEPT ![q] = NoWorker] /\ future' = [future EXCEPT ![q] = o]
    BY <1>4 DEF EndDispatched, EndTask
  <2>2. /\ Alone(q) /\ Stage(q) = "served" /\ Stage(q)' = "answered"
        /\ ~Running(q)'
    BY <1>0, <2>1 DEF Stage, Running
  <2>3. /\ stageOf' = [stageOf EXCEPT ![q] = "answered"]
        /\ holderOf' = [holderOf EXCEPT ![q] = NoWorker]
    BY <2>2, LedgerMoves
  <2>4. stageOf[q] = "served"
    BY <2>2 DEF stageOf
  <2>5. Ledger!Conclude(q, o)
    BY <2>1, <2>3, <2>4 DEF Ledger!Conclude, stageOf, holderOf
  <2> QED
    BY <2>5 DEF Ledger!LedgerStep
<1>5. CASE \E r \in Requests : Backoff(r)
  <2>1. PICK q \in Requests : Backoff(q)
    BY <1>5
  <2>2. PICK w : /\ pc[q] = "queued" /\ ws' = [ws EXCEPT ![q] = w]
                 /\ UNCHANGED <<pc, future>>
    BY <2>1 DEF Backoff
  <2> QED
    BY <1>0, <2>2, LedgerStutters DEF Stage, Running
<1>6. CASE remove_last_worker \/ \E i \in Positions : cancel_worker_inflight(i)
  <2>1. PICK I : CancelTasks(I) /\ UNCHANGED <<ws, future>>
    BY <1>6 DEF remove_last_worker, cancel_worker_inflight
  <2> QED
    BY <1>0, <2>1, LedgerStutters DEF CancelTasks, Stage, Running
<1>7. CASE \/ pause \/ resume
           \/ \E i \in Positions, b \in BOOLEAN : mark_worker(i, b)
           \/ \E w \in WorkerIds, l \in Limits : add_worker(w, l)
           \/ reset_affinity
           \/ concurrency_adjust
           \/ shutdown
           \/ drain_metrics
           \/ UNCHANGED vars
  <2>1. UNCHANGED <<pc, ws, future>>
    BY <1>7 DEF pause, resume, mark_worker, add_worker, reset_affinity,
                concurrency_adjust, shutdown, drain_metrics, vars, taskVars
  <2> QED
    BY <2>1, LedgerStutters DEF Stage, Running
<1> QED
  BY <1>1, <1>2, <1>3, <1>4, <1>5, <1>6, <1>7, StepCases

(***************************************************************************)
(* The scheduler implements the ledger: whatever the owner does, every     *)
(* request is handed to one worker at most and answered at most once.      *)
(***************************************************************************)
THEOREM SchedulerKeepsLedger == Spec => KeepsLedger
<1>1. Init => Ledger!LedgerInit
  BY InitLedger
<1>2. Linked /\ [Next]_vars
        => [\E r \in Requests : Ledger!LedgerStep(r)]_<<stageOf, holderOf, future>>
  BY NextLedger
<1> QED
  BY <1>1, <1>2, InitLinked, NextLinked, PTL
     DEF Spec, KeepsLedger, Ledger!LedgerSpec, stageOf, holderOf

-----------------------------------------------------------------------------
(***************************************************************************)
(* Routing.  The candidates are exactly the usable positions, in order.    *)
(***************************************************************************)
UpToBody(f, n) ==
  IF n = 0 THEN <<>> ELSE IF Usable(n) THEN Append(f[n - 1], n) ELSE f[n - 1]

LEMMA CandidatesRecursion ==
  ASSUME WellTyped
  PROVE  CandidatesUpTo = [n \in 0 .. Len(workers) |-> UpToBody(CandidatesUpTo, n)]
<1> DEFINE N == Len(workers)
           Fixed(f, m) == f = [n \in 0 .. m |-> UpToBody(f, n)]
           G == {m \in Nat : \E f : Fixed(f, m)}
<1>1. 0 \in G
  <2> DEFINE f == [n \in 0 .. 0 |-> <<>>]
  <2>1. f = [n \in 0 .. 0 |-> UpToBody(f, n)]
    BY DEF UpToBody
  <2> QED
    BY <2>1
<1>2. ASSUME NEW m \in Nat, m \in G PROVE m + 1 \in G
  <2>1. PICK f : Fixed(f, m)
    BY <1>2
  <2> DEFINE g == [n \in 0 .. m + 1 |-> IF n <= m THEN f[n] ELSE UpToBody(f, n)]
  <2>2. ASSUME NEW n \in 0 .. m + 1 PROVE g[n] = UpToBody(g, n)
    <3>1. CASE n = 0
      BY <2>1, <3>1 DEF UpToBody
    <3>2. CASE n # 0
      <4>1. n - 1 \in 0 .. m + 1 /\ n - 1 <= m
        BY <2>2, <3>2
      <4>2. g[n - 1] = f[n - 1]
        BY <4>1
      <4>3. g[n] = UpToBody(f, n)
        BY <2>1, <2>2
      <4> HIDE DEF g
      <4> QED
        BY <3>2, <4>2, <4>3 DEF UpToBody
    <3> QED
      BY <3>1, <3>2
  <2>3. Fixed(g, m + 1)
    <3> SUFFICES g = [n \in 0 .. m + 1 |-> UpToBody(g, n)]
      OBVIOUS
    <3> QED
      BY <2>2
  <2> HIDE DEF g
  <2>4. \E h : Fixed(h, m + 1)
    BY <2>3
  <2> QED
    BY <2>4
<1>3. N \in Nat
  BY DEF WellTyped, TypeOK
<1>4. N \in G
  <2> HIDE DEF G
  <2> QED
    BY <1>1, <1>2, <1>3, NatInductionOnSet
<1>5. \E f : Fixed(f, N)
  BY <1>4
<1>6. CandidatesUpTo = CHOOSE f : Fixed(f, N)
  BY DEF CandidatesUpTo, UpToBody
<1> QED
  BY <1>5, <1>6

LEMMA CandidatesStep ==
  ASSUME WellTyped, NEW n \in 0 .. Len(workers)
  PROVE  CandidatesUpTo[n] = IF n = 0 THEN <<>>
                             ELSE IF Usable(n) THEN Append(CandidatesUpTo[n - 1], n)
                             ELSE CandidatesUpTo[n - 1]
BY CandidatesRecursion DEF UpToBody

LEMMA CandidatesExact ==
  ASSUME WellTyped
  PROVE  /\ Candidates \in Seq(Positions)
         /\ Elements(Candidates) = {i \in Positions : Usable(i)}
<1> DEFINE N == Len(workers)
           G == {n \in 0 .. N : /\ CandidatesUpTo[n] \in Seq(1 .. n)
                                /\ Elements(CandidatesUpTo[n]) = {i \in 1 .. n : Usable(i)}}
<1>1. N \in Nat /\ Positions = 1 .. N
  BY DEF WellTyped, TypeOK, Positions
<1>2. 0 \in G
  <2>1. CandidatesUpTo[0] = <<>>
    BY <1>1, CandidatesStep
  <2>2. CandidatesUpTo[0] \in Seq(1 .. 0)
    BY <2>1
  <2>3. Elements(CandidatesUpTo[0]) = {} /\ {i \in 1 .. 0 : Usable(i)} = {}
    BY <2>1 DEF Elements
  <2> QED
    BY <1>1, <2>2, <2>3
<1>3. ASSUME NEW n \in 0 .. N - 1, n \in G PROVE n + 1 \in G
  <2> DEFINE s == CandidatesUpTo[n]
             t == CandidatesUpTo[n + 1]
  <2>1. n + 1 \in 0 .. N /\ n + 1 # 0 /\ (n + 1) - 1 = n
    BY <1>1
  <2>2. t = IF Usable(n + 1) THEN Append(s, n + 1) ELSE s
    BY <2>1, CandidatesStep
  <2>3. s \in Seq(1 .. n) /\ Elements(s) = {i \in 1 .. n : Usable(i)}
    BY <1>3
  <2> HIDE DEF s, t
  <2>4. s \in Seq(1 .. (n + 1))
    BY <2>3
  <2>5. ASSUME Usable(n + 1)
        PROVE  t \in Seq(1 .. (n + 1)) /\ Elements(t) = {i \in 1 .. (n + 1) : Usable(i)}
    <3>1. t = Append(s, n + 1)
      BY <2>2, <2>5
    <3>2. t \in Seq(1 .. (n + 1)) /\ Len(t) = Len(s) + 1 /\ Len(s) \in Nat
          /\ DOMAIN t = 1 .. Len(t) /\ DOMAIN s = 1 .. Len(s)
      BY <2>4, <3>1
    <3>3. t[Len(s) + 1] = n + 1 /\ \A i \in DOMAIN s : t[i] = s[i]
      BY <2>4, <3>1, <3>2
    <3>4. DOMAIN t = DOMAIN s \cup {Len(s) + 1}
      BY <3>2
    <3>5. Elements(t) = Elements(s) \cup {n + 1}
      BY <3>3, <3>4 DEF Elements
    <3>6. {i \in 1 .. (n + 1) : Usable(i)} = {i \in 1 .. n : Usable(i)} \cup {n + 1}
      BY <2>5
    <3> QED
      BY <2>3, <3>2, <3>5, <3>6
  <2>6. ASSUME ~Usable(n + 1)
        PROVE  t \in Seq(1 .. (n + 1)) /\ Elements(t) = {i \in 1 .. (n + 1) : Usable(i)}
    <3>1. {i \in 1 .. (n + 1) : Usable(i)} = {i \in 1 .. n : Usable(i)}
      BY <2>6
    <3> QED
      BY <2>2, <2>3, <2>4, <2>6, <3>1
  <2>7. t \in Seq(1 .. (n + 1)) /\ Elements(t) = {i \in 1 .. (n + 1) : Usable(i)}
    BY <2>5, <2>6
  <2> QED
    BY <2>1, <2>7 DEF t
<1>4. N \in G
  <2> HIDE DEF G, N
  <2>1. \A n \in 0 .. N - 1 : n \in G => n + 1 \in G
    BY <1>3
  <2>2. 0 .. N \subseteq G
    BY <1>1, <1>2, <2>1, UpToInduction
  <2> QED
    BY <1>1, <2>2
<1> QED
  BY <1>1, <1>4 DEF Candidates

\* The element a hash selects is an element.
LEMMA PickAnElement ==
  ASSUME NEW S, NEW s \in Seq(S), s # <<>>, NEW n \in Int
  PROVE  Pick(s, n) \in Elements(s)
<1>1. Len(s) \in Nat \ {0} /\ DOMAIN s = 1 .. Len(s)
  OBVIOUS
<1>2. n % Len(s) \in 0 .. Len(s) - 1
  BY <1>1
<1>3. 1 + (n % Len(s)) \in DOMAIN s
  BY <1>1, <1>2
<1> QED
  BY <1>3 DEF Pick, Elements


-----------------------------------------------------------------------------
(***************************************************************************)
(* The least loaded candidate exists: comparing two load ratios without a  *)
(* division is an asymmetric order, negatively transitive because limits   *)
(* are positive, so every nonempty set of positions has a first lightest.  *)
(***************************************************************************)
LEMMA ProductOrder ==
  ASSUME NEW a \in Nat, NEW b \in Nat, NEW c \in Nat,
         NEW p \in Nat \ {0}, NEW q \in Nat \ {0}, NEW r \in Nat \ {0},
         a * q < b * p, ~(c * q < b * r)
  PROVE  a * r < c * p
<1>1. (a * q) * r < (b * p) * r
  OBVIOUS
<1>2. (b * r) * p <= (c * q) * p
  OBVIOUS
<1>3. (a * r) * q < (c * p) * q
  BY <1>1, <1>2
<1> QED
  BY <1>3

Divisor(i) == IF limit[workers[i]] > 1 THEN limit[workers[i]] ELSE 1

LEMMA LighterOrder ==
  ASSUME WellTyped, NEW i \in Positions, NEW j \in Positions, NEW k \in Positions
  PROVE  /\ Lighter(i, j) /\ ~Lighter(k, j) => Lighter(i, k)
         /\ Lighter(i, j) => ~Lighter(j, i)
         /\ Lighter(i, j) /\ Lighter(j, k) => Lighter(i, k)
<1>1. \A p \in Positions : active[workers[p]] \in Nat /\ Divisor(p) \in Nat \ {0}
  <2> SUFFICES ASSUME NEW p \in Positions
               PROVE  active[workers[p]] \in Nat /\ Divisor(p) \in Nat \ {0}
    OBVIOUS
  <2>1. workers[p] \in WorkerIds
    BY DEF WellTyped, TypeOK, Positions
  <2>2. active[workers[p]] \in Nat /\ limit[workers[p]] \in Nat \ {0}
    BY <2>1, LimitsPositive DEF WellTyped, TypeOK
  <2> QED
    BY <2>2 DEF Divisor
<1>2. \A p, q \in Positions :
        Lighter(p, q) <=> active[workers[p]] * Divisor(q) < active[workers[q]] * Divisor(p)
  BY DEF Lighter, Divisor
<1>3. \A p, q, s \in Positions : Lighter(p, q) /\ ~Lighter(s, q) => Lighter(p, s)
  BY <1>1, <1>2, ProductOrder
<1>4. \A p, q \in Positions : Lighter(p, q) => ~Lighter(q, p)
  BY <1>1, <1>2
<1> QED
  BY <1>3, <1>4

FirstLightest(S, i) ==
  i \in S /\ \A j \in S : ~Lighter(j, i) /\ (j < i => Lighter(i, j))

LEMMA LightestExists ==
  ASSUME WellTyped, NEW S \in SUBSET Positions, S # {}
  PROVE  \E i : FirstLightest(S, i)
<1> DEFINE N == Len(workers)
           G == {n \in 0 .. N : \A T \in SUBSET (1 .. n) :
                                  T # {} => \E i : FirstLightest(T, i)}
<1>1. N \in Nat /\ Positions = 1 .. N
  BY DEF WellTyped, TypeOK, Positions
<1>2. 0 \in G
  <2>1. 0 \in 0 .. N
    BY <1>1
  <2>2. \A T \in SUBSET (1 .. 0) : T = {}
    OBVIOUS
  <2> QED
    BY <2>1, <2>2
<1>3. ASSUME NEW n \in 0 .. N - 1, n \in G PROVE n + 1 \in G
  <2>0. n + 1 \in 0 .. N
    BY <1>1
  <2> SUFFICES ASSUME NEW T \in SUBSET (1 .. (n + 1)), T # {}
               PROVE  \E i : FirstLightest(T, i)
    BY <2>0
  <2> DEFINE R == T \ {n + 1}
  <2>1. R \in SUBSET (1 .. n) /\ T \in SUBSET Positions
    BY <1>1
  <2>2. CASE R = {}
    <3>1. T = {n + 1}
      BY <2>2
    <3>2. ~Lighter(n + 1, n + 1) /\ ~(n + 1 < n + 1)
      BY <2>1, <3>1, LighterOrder
    <3> QED
      BY <3>1, <3>2 DEF FirstLightest
  <2>3. CASE R # {}
    <3>1. PICK i : FirstLightest(R, i)
      BY <1>3, <2>1, <2>3
    <3>2. i \in R /\ i \in Positions /\ i <= n /\ R \subseteq Positions
      BY <1>1, <2>1, <3>1 DEF FirstLightest
    <3>3. CASE n + 1 \in T /\ Lighter(n + 1, i)
      <4>1. \A j \in R : Lighter(n + 1, j)
        BY <2>1, <3>1, <3>2, <3>3, LighterOrder DEF FirstLightest
      <4>2. \A j \in T : ~Lighter(j, n + 1) /\ (j < n + 1 => Lighter(n + 1, j))
        <5> SUFFICES ASSUME NEW j \in T
                     PROVE  ~Lighter(j, n + 1) /\ (j < n + 1 => Lighter(n + 1, j))
          OBVIOUS
        <5>1. n + 1 \in Positions /\ j \in Positions
          BY <2>1, <3>3
        <5>2. CASE j = n + 1
          BY <5>1, <5>2, LighterOrder
        <5>3. CASE j # n + 1
          BY <4>1, <5>1, <5>3, LighterOrder
        <5> QED
          BY <5>2, <5>3
      <4> QED
        BY <3>3, <4>2 DEF FirstLightest
    <3>4. CASE n + 1 \notin T \/ ~Lighter(n + 1, i)
      <4>1. \A j \in T : ~Lighter(j, i) /\ (j < i => Lighter(i, j))
        BY <2>1, <3>1, <3>2, <3>4 DEF FirstLightest
      <4> QED
        BY <3>1, <4>1 DEF FirstLightest
    <3> QED
      BY <3>3, <3>4
  <2> QED
    BY <2>2, <2>3
<1>4. N \in G
  <2> HIDE DEF G, N
  <2>1. \A n \in 0 .. N - 1 : n \in G => n + 1 \in G
    BY <1>3
  <2>2. 0 .. N \subseteq G
    BY <1>1, <1>2, <2>1, UpToInduction
  <2> QED
    BY <1>1, <2>2
<1> QED
  BY <1>1, <1>4

LEMMA LeastLoadedCandidate ==
  ASSUME WellTyped, workers # <<>>
  PROVE  least_loaded_routing \in Elements(CandidatesOrAll)
<1> DEFINE S == Elements(CandidatesOrAll)
<1>1. S \in SUBSET Positions /\ S # {}
  <2>1. Positions = 1 .. Len(workers) /\ Len(workers) \in Nat \ {0}
    BY DEF WellTyped, TypeOK, Positions
  <2>2. Elements(AllPositions) = Positions
    BY DEF AllPositions, Elements
  <2>3. Candidates # <<>> => Elements(Candidates) # {} /\ Elements(Candidates) \subseteq Positions
    BY CandidatesExact DEF Elements
  <2> QED
    BY <2>1, <2>2, <2>3 DEF CandidatesOrAll
<1>2. \E i : FirstLightest(S, i)
  <2> HIDE DEF S
  <2> QED
    BY <1>1, LightestExists
<1>3. least_loaded_routing = CHOOSE i \in S : \A j \in S : ~Lighter(j, i) /\ (j < i => Lighter(i, j))
  BY DEF least_loaded_routing
<1> HIDE DEF S
<1>4. least_loaded_routing \in S
  BY <1>2, <1>3 DEF FirstLightest
<1> QED
  BY <1>4 DEF S

-----------------------------------------------------------------------------
(***************************************************************************)
(* Whatever the policy, a request goes to a usable worker when there is    *)
(* one.                                                                    *)
(***************************************************************************)
LEMMA RouteIsUsable ==
  ASSUME WellTyped, \E j \in Positions : Usable(j), NEW r \in Requests
  PROVE  Usable(Route(r))
<1> DEFINE C == Candidates
<1>1. C \in Seq(Positions) /\ Elements(C) = {i \in Positions : Usable(i)}
  BY CandidatesExact
<1>2. C # <<>>
  BY <1>1 DEF Elements
<1>3. CandidatesOrAll = C /\ workers # <<>>
  BY <1>2 DEF CandidatesOrAll, Positions
<1>4. \A i \in Elements(C) : Usable(i)
  BY <1>1
<1>5. \A n \in Int : Usable(Pick(C, n))
  <2> HIDE DEF C
  <2> QED
    BY <1>1, <1>2, <1>4, PickAnElement
<1>6. Usable(least_loaded_routing)
  BY <1>3, <1>4, LeastLoadedCandidate
<1>7. key[r] # NoKey => key[r] \in Int
  BY KeysAreHashes DEF WellTyped, TypeOK
<1>8. CASE Grouped(r)
  <2>1. groupCounter \in Int
    BY DEF WellTyped, TypeOK
  <2>2. Usable(equal_affinity_routing(r))
    BY <1>3, <1>5, <2>1 DEF equal_affinity_routing, PinHolds
  <2> QED
    BY <1>8, <2>2 DEF Route
<1>9. CASE ~Grouped(r)
  <2>1. Usable(strict_affinity_routing(key[r]))
    BY <1>5, <1>6, <1>7 DEF strict_affinity_routing
  <2>2. Usable(prefix_affinity_routing(key[r]))
    <3> DEFINE open == {o \in 0..(Len(C) - 1) : BelowThreshold(Pick(C, key[r] + o))}
               first == CHOOSE o \in open : \A p \in open : o <= p
    <3>1. CASE key[r] = NoKey \/ open = {}
      BY <1>6, <3>1 DEF prefix_affinity_routing
    <3>2. CASE key[r] # NoKey /\ open # {}
      <4>1. open \in SUBSET Nat
        OBVIOUS
      <4>2. first \in Nat
        <5> HIDE DEF open
        <5>1. \E o \in open : \A p \in open : o <= p
          BY <3>2, <4>1, Smallest
        <5> QED
          BY <4>1, <5>1
      <4>3. prefix_affinity_routing(key[r]) = Pick(C, key[r] + first)
        BY <1>2, <3>2 DEF prefix_affinity_routing
      <4>4. key[r] + first \in Int
        BY <1>7, <3>2, <4>2
      <4> QED
        BY <1>5, <4>3, <4>4
    <3> QED
      BY <3>1, <3>2
  <2> QED
    BY <1>6, <1>9, <2>1, <2>2, PolicyKnown DEF Route, Policies
<1> QED
  BY <1>8, <1>9

\* Only a dispatch adds to the holders of a worker's slots.
LEMMA OnlyDispatchAdds ==
  ASSUME WellTyped, [Next]_vars, NEW w \in WorkerIds, NEW r \in Requests,
         r \in Holders(w)', r \notin Holders(w)
  PROVE  \E i \in Positions : Dispatch(r) /\ i = Route(r) /\ w = workers[i]
<1>0. pc \in [Requests -> TaskStates] /\ ws \in [Requests -> WorkerIds \cup {NoWorker}]
  BY DEF WellTyped, TypeOK
<1>1. pc'[r] \in {"generating", "cancelling"} /\ ws'[r] = w
  BY DEF Holders, Running
<1>2. pc[r] \notin {"generating", "cancelling"} \/ ws[r] # w
  BY DEF Holders, Running
<1>3. ASSUME NEW q \in Requests, Dispatch(q)
      PROVE  \E i \in Positions : Dispatch(r) /\ i = Route(r) /\ w = workers[i]
  <2>1. PICK i \in Positions : i = Route(q) /\ ws' = [ws EXCEPT ![q] = workers[i]]
                              /\ pc' = [pc EXCEPT ![q] = "generating"]
    BY <1>3 DEF Dispatch
  <2>2. q = r
    BY <1>0, <1>1, <1>2, <2>1
  <2> QED
    BY <1>0, <1>1, <1>3, <2>1, <2>2
<1>4. ASSUME NEW q \in Requests, NEW k, NEW s, submit(q, k, s) PROVE FALSE
  BY <1>0, <1>1, <1>2, <1>4 DEF submit
<1>5. ASSUME NEW q \in Requests, Backoff(q) PROVE FALSE
  BY <1>0, <1>1, <1>2, <1>5 DEF Backoff
<1>6. ASSUME NEW q \in Requests, NEW o, EndUndispatched(q, o) \/ EndDispatched(q, o)
      PROVE  FALSE
  BY <1>0, <1>1, <1>2, <1>6 DEF EndUndispatched, EndDispatched, EndTask
<1>7. ASSUME NEW I, CancelTasks(I), UNCHANGED ws PROVE FALSE
  BY <1>0, <1>1, <1>2, <1>7 DEF CancelTasks
<1>8. ~UNCHANGED <<pc, ws>>
  BY <1>1, <1>2
<1>9. /\ ~pause /\ ~resume /\ ~shutdown /\ ~reset_affinity /\ ~concurrency_adjust
      /\ ~drain_metrics /\ ~UNCHANGED vars
      /\ ~\E i \in Positions, b \in BOOLEAN : mark_worker(i, b)
      /\ ~\E v \in WorkerIds, l \in Limits : add_worker(v, l)
  BY <1>8 DEF pause, resume, shutdown, reset_affinity, concurrency_adjust,
              drain_metrics, mark_worker, add_worker, vars, taskVars
<1>10. ~remove_last_worker /\ ~\E i \in Positions : cancel_worker_inflight(i)
  BY <1>7 DEF remove_last_worker, cancel_worker_inflight
<1> QED
  BY <1>3, <1>4, <1>5, <1>6, <1>9, <1>10, StepCases

(***************************************************************************)
(* A worker marked unavailable gets no request while another one is        *)
(* usable, under any policy and any management calls: draining it ends     *)
(* when the requests it has end.                                           *)
(***************************************************************************)
THEOREM UnavailableWorkersDrain == Spec => UnavailableOnlyDrains
<1> DEFINE Drains ==
      \A w \in Elements(workers) :
        (~available[w] /\ \E j \in Positions : Usable(j)) => Holders(w)' \subseteq Holders(w)
<1>1. WellTyped /\ [Next]_vars => Drains
  <2>1. ASSUME WellTyped, [Next]_vars, NEW w \in Elements(workers), ~available[w],
               \E j \in Positions : Usable(j), NEW r, r \in Holders(w)', r \notin Holders(w)
        PROVE  FALSE
    <3>1. w \in WorkerIds /\ r \in Requests
      BY <2>1 DEF Elements, Holders, WellTyped, TypeOK
    <3>2. PICK i \in Positions : i = Route(r) /\ w = workers[i]
      BY <2>1, <3>1, OnlyDispatchAdds
    <3>3. Usable(i)
      BY <2>1, <3>1, <3>2, RouteIsUsable
    <3> QED
      BY <2>1, <3>2, <3>3 DEF Usable
  <2> QED
    BY <2>1
<1>2. WellTyped /\ [Next]_vars => WellTyped'
  BY NextWellTyped
<1> QED
  BY InitWellTyped, <1>1, <1>2, PTL DEF Spec, UnavailableOnlyDrains

-----------------------------------------------------------------------------
(***************************************************************************)
(* Groups are spread.  With all workers usable the candidates are all      *)
(* positions, so the counter deals new groups out in turn: after q rounds  *)
(* and m groups more, the first m positions have q + 1 groups and the      *)
(* others q.  The counter modulo the number of workers is m.               *)
(***************************************************************************)
GroupsAt(i) == {k \in Keys : groupWorker[k] = i}

DealtOut(q, m) ==
  /\ groupCounter % Len(workers) = m
  /\ \A i \in Positions : /\ IsFiniteSet(GroupsAt(i))
                          /\ Cardinality(GroupsAt(i)) = IF i <= m THEN q + 1 ELSE q

DealtInTurn == \E q \in Nat, m \in 0 .. Len(workers) - 1 : DealtOut(q, m)

Dealt == PinsHold /\ workers = InitialWorkers /\ DealtInTurn

LEMMA AllAreCandidates ==
  ASSUME WellTyped, \A i \in Positions : Usable(i)
  PROVE  CandidatesOrAll = AllPositions
<1> DEFINE N == Len(workers)
           G == {n \in 0 .. N : CandidatesUpTo[n] = [i \in 1 .. n |-> i]}
<1>1. N \in Nat /\ Positions = 1 .. N
  BY DEF WellTyped, TypeOK, Positions
<1>2. 0 \in G
  <2>1. CandidatesUpTo[0] = <<>>
    BY <1>1, CandidatesStep
  <2>2. [i \in 1 .. 0 |-> i] = <<>>
    OBVIOUS
  <2> QED
    BY <1>1, <2>1, <2>2
<1>3. ASSUME NEW n \in 0 .. N - 1, n \in G PROVE n + 1 \in G
  <2>1. n + 1 \in 0 .. N /\ n + 1 # 0 /\ (n + 1) - 1 = n /\ n + 1 \in Positions
    BY <1>1
  <2>2. CandidatesUpTo[n + 1] = Append(CandidatesUpTo[n], n + 1)
    BY <2>1, CandidatesStep
  <2>3. CandidatesUpTo[n] = [i \in 1 .. n |-> i]
    BY <1>3
  <2>4. Append([i \in 1 .. n |-> i], n + 1) = [i \in 1 .. (n + 1) |-> i]
    BY <2>1
  <2> QED
    BY <2>1, <2>2, <2>3, <2>4
<1>4. N \in G
  <2> HIDE DEF G, N
  <2>1. \A n \in 0 .. N - 1 : n \in G => n + 1 \in G
    BY <1>3
  <2>2. 0 .. N \subseteq G
    BY <1>1, <1>2, <2>1, UpToInduction
  <2> QED
    BY <1>1, <2>2
<1>5. Candidates = AllPositions
  BY <1>1, <1>4 DEF Candidates, AllPositions
<1> QED
  BY <1>5 DEF CandidatesOrAll

LEMMA PinsUsable ==
  ASSUME PinsHold
  PROVE  /\ \A i \in Positions : Usable(i)
         /\ \A r \in Requests : Grouped(r) => (PinHolds(r) <=> PinOf(r) # 0)
<1>0. /\ workers \in Seq(WorkerIds)
      /\ limit \in [WorkerIds -> Nat \ {0}] /\ key \in [Requests -> Keys \cup {NoKey}]
  BY LimitsPositive DEF PinsHold, WellTyped, TypeOK
<1>1. \A i \in Positions : Usable(i)
  BY <1>0 DEF PinsHold, Usable, Positions
<1>2. ASSUME NEW r \in Requests, Grouped(r), PinOf(r) # 0 PROVE Usable(PinOf(r))
  <2>1. key[r] \in Keys
    BY <1>0, <1>2 DEF Grouped
  <2>2. PinOf(r) \in Positions
    BY <1>2, <2>1 DEF PinOf, PinsHold
  <2> QED
    BY <1>1, <2>2
<1> QED
  BY <1>1, <1>2 DEF PinHolds

\* A new group is dealt to the next position.
LEMMA NextGroup ==
  ASSUME Dealt, NEW r \in Requests, NEW i \in Positions, i = Route(r),
         RememberGroup(r, i), workers' = workers
  PROVE  DealtInTurn'
<1>0. PICK q \in Nat, m \in 0 .. Len(workers) - 1 : DealtOut(q, m)
  BY DEF Dealt, DealtInTurn
<1> DEFINE N == Len(workers)
<1>a. WellTyped /\ PinsHold /\ workers = InitialWorkers
  BY DEF Dealt, PinsHold
<1>b. N \in Nat \ {0}
  BY <1>a, InitialWorkersDistinct
<1>1. /\ N \in Nat \ {0} /\ Positions = 1 .. N /\ groupCounter \in Nat
      /\ groupWorker \in [Keys -> Nat] /\ key \in [Requests -> Keys \cup {NoKey}]
      /\ WellTyped /\ PinsHold /\ workers = InitialWorkers
  BY <1>a, <1>b DEF WellTyped, TypeOK, Positions
<1>2. CASE ~Grouped(r) \/ PinHolds(r)
  <2>1. UNCHANGED groupVars
    BY <1>2 DEF RememberGroup
  <2>2. DealtOut(q, m)'
    BY <1>0, <2>1 DEF DealtOut, groupVars, GroupsAt, Positions
  <2> QED
    BY <1>0, <2>2 DEF DealtInTurn
<1>3. CASE Grouped(r) /\ ~PinHolds(r)
  <2> DEFINE k == key[r]
  <2>1. /\ groupWorker' = [groupWorker EXCEPT ![k] = i]
        /\ groupCounter' = (groupCounter + 1) % CounterCycle
    BY <1>3 DEF RememberGroup
  <2>2. k \in Keys /\ groupWorker[k] = 0
    BY <1>1, <1>3, PinsUsable DEF Grouped, PinOf
  <2>3. i = 1 + m
    <3>1. i = Pick(AllPositions, groupCounter)
      BY <1>1, <1>3, PinsUsable, AllAreCandidates DEF Route, equal_affinity_routing
    <3>2. Len(AllPositions) = N /\ \A j \in 1 .. N : AllPositions[j] = j
      BY <1>1 DEF AllPositions
    <3>3. groupCounter % N = m
      BY <1>0 DEF DealtOut
    <3> QED
      BY <1>0, <1>1, <3>1, <3>2, <3>3 DEF Pick
  <2>4. GroupsAt(i)' = GroupsAt(i) \cup {k} /\ k \notin GroupsAt(i)
    BY <1>1, <2>1, <2>2 DEF GroupsAt
  <2>5. \A j \in Positions : j # i => GroupsAt(j)' = GroupsAt(j)
    BY <1>1, <2>1, <2>2 DEF GroupsAt
  <2>6. IsFiniteSet(GroupsAt(i)) /\ Cardinality(GroupsAt(i)) = q
    <3>1. ~(i <= m)
      BY <1>0, <2>3
    <3> QED
      BY <1>0, <3>1 DEF DealtOut
  <2>7. IsFiniteSet(GroupsAt(i)') /\ Cardinality(GroupsAt(i)') = q + 1
    BY <2>4, <2>6, FS_AddElement
  <2>8. groupCounter' % N = IF m + 1 = N THEN 0 ELSE m + 1
    <3>1. CounterCycle % N = 0 /\ groupCounter % N = m
      BY <1>0, <1>1, CounterCycleMultiple DEF DealtOut
    <3>2. groupCounter + 1 \in Nat /\ N \in Nat \ {0} /\ groupCounter \in Nat
      BY <1>1
    <3> HIDE DEF N
    <3>3. groupCounter' % N = (groupCounter + 1) % N
      BY <2>1, <3>1, <3>2, CounterCyclePositive, ModOfMultiple
    <3>4. (groupCounter + 1) % N = IF (groupCounter % N) + 1 = N THEN 0
                                   ELSE (groupCounter % N) + 1
      BY <3>2, ModNext
    <3> QED
      BY <3>1, <3>3, <3>4
  <2>9. \A j \in Positions : /\ IsFiniteSet(GroupsAt(j)')
                            /\ Cardinality(GroupsAt(j)') = IF j <= m + 1 THEN q + 1 ELSE q
    <3> SUFFICES ASSUME NEW j \in Positions
                 PROVE  /\ IsFiniteSet(GroupsAt(j)')
                        /\ Cardinality(GroupsAt(j)') = IF j <= m + 1 THEN q + 1 ELSE q
      OBVIOUS
    <3>1. CASE j = i
      BY <2>3, <2>7, <3>1
    <3>2. CASE j # i
      <4>1. IsFiniteSet(GroupsAt(j)) /\ Cardinality(GroupsAt(j)) = IF j <= m THEN q + 1 ELSE q
        BY <1>0 DEF DealtOut
      <4>2. j <= m <=> j <= m + 1
        BY <1>0, <1>1, <2>3, <3>2
      <4> QED
        BY <2>5, <3>2, <4>1, <4>2
    <3> QED
      BY <3>1, <3>2
  <2>10. Positions' = Positions /\ Len(workers') = N
    BY DEF Positions
  <2>11. CASE m + 1 = N
    <3>1. DealtOut(q + 1, 0)'
      BY <1>0, <1>1, <2>8, <2>9, <2>10, <2>11 DEF DealtOut
    <3>2. q + 1 \in Nat /\ 0 \in 0 .. Len(workers') - 1
      BY <1>1, <2>10
    <3> QED
      BY <3>1, <3>2 DEF DealtInTurn
  <2>12. CASE m + 1 # N
    <3>1. DealtOut(q, m + 1)'
      BY <1>0, <1>1, <2>8, <2>9, <2>10, <2>12 DEF DealtOut
    <3>2. q \in Nat /\ m + 1 \in 0 .. Len(workers') - 1
      BY <1>0, <1>1, <2>10, <2>12
    <3> QED
      BY <3>1, <3>2 DEF DealtInTurn
  <2> QED
    BY <2>11, <2>12
<1> QED
  BY <1>2, <1>3

\* No group is placed at first and after reset_affinity().
NoneDealt ==
  WellTyped /\ workers # <<>> /\ groupWorker = [k \in Keys |-> 0] /\ groupCounter = 0

LEMMA NoGroups == NoneDealt => DealtInTurn
<1> SUFFICES ASSUME WellTyped, workers # <<>>, groupWorker = [k \in Keys |-> 0],
                    groupCounter = 0
             PROVE  DealtInTurn
  BY DEF NoneDealt
<1>1. Len(workers) \in Nat \ {0} /\ Positions = 1 .. Len(workers)
  BY DEF WellTyped, TypeOK, Positions
<1>2. \A i \in Positions : GroupsAt(i) = {}
  BY <1>1 DEF GroupsAt
<1>3. 0 % Len(workers) = 0
  BY <1>1
<1>4. DealtOut(0, 0)
  BY <1>1, <1>2, <1>3, FS_EmptySet DEF DealtOut
<1> QED
  BY <1>1, <1>4 DEF DealtInTurn

LEMMA NextDealt ==
  ASSUME "availability" \notin ClientOps, "scale" \notin ClientOps, Dealt, [Next]_vars
  PROVE  Dealt'
<1>1. PinsHold'
  BY NextPinsHold DEF Dealt
<1>2. UNCHANGED workers
  BY StepCases DEF submit, Dispatch, Backoff, EndUndispatched, EndDispatched, pause, resume,
     mark_worker, cancel_worker_inflight, add_worker, remove_last_worker, reset_affinity,
     concurrency_adjust, shutdown, drain_metrics, vars, workerVars
<1>3. CASE \E r \in Requests : Dispatch(r) \/ Backoff(r)
  <2>1. PICK r \in Requests, i \in Positions : i = Route(r) /\ RememberGroup(r, i)
    BY <1>3 DEF Dispatch, Backoff
  <2>2. DealtInTurn'
    BY <1>2, <2>1, NextGroup
  <2> QED
    BY <1>1, <1>2, <2>2 DEF Dealt
<1>4. CASE reset_affinity
  <2>1. WellTyped' /\ workers' # <<>>
    BY <1>1, <1>2, InitialWorkersDistinct DEF Dealt, PinsHold
  <2>2. NoneDealt'
    BY <1>4, <2>1 DEF reset_affinity, NoneDealt
  <2>3. DealtInTurn'
    BY <2>2, NoGroups, PTL
  <2> QED
    BY <1>1, <1>2, <2>3 DEF Dealt
<1>5. CASE UNCHANGED groupVars
  <2>1. \A q, m : DealtOut(q, m) => DealtOut(q, m)'
    BY <1>2, <1>5 DEF DealtOut, groupVars, GroupsAt, Positions
  <2> QED
    BY <1>1, <1>2, <2>1 DEF Dealt, DealtInTurn
<1>6. \/ \E r \in Requests : Dispatch(r) \/ Backoff(r)
      \/ reset_affinity
      \/ UNCHANGED groupVars
  BY StepCases DEF submit, EndUndispatched, EndDispatched, pause, resume,
     mark_worker, cancel_worker_inflight, add_worker, remove_last_worker,
     concurrency_adjust, shutdown, drain_metrics, vars, groupVars
<1> QED
  BY <1>3, <1>4, <1>5, <1>6

(***************************************************************************)
(* With workers left in the list and available, the numbers of groups of   *)
(* two workers never differ by more than one, however requests of groups   *)
(* arrive, back off and end, limits change and affinity is reset.          *)
(***************************************************************************)
THEOREM GroupsAreSpread ==
  ASSUME "availability" \notin ClientOps, "scale" \notin ClientOps
  PROVE  Spec => []GroupsSpread
<1>1. Init => Dealt
  <2> SUFFICES ASSUME Init PROVE Dealt
    OBVIOUS
  <2>1. PinsHold /\ workers = InitialWorkers
    BY InitPinsHold DEF Init
  <2>2. DealtInTurn
    BY <2>1, InitialWorkersDistinct, NoGroups DEF Init, PinsHold, NoneDealt
  <2> QED
    BY <2>1, <2>2 DEF Dealt
<1>2. Dealt /\ [Next]_vars => Dealt'
  BY NextDealt
<1>3. Dealt => GroupsSpread
  <2> SUFFICES ASSUME Dealt, NEW i \in Positions, NEW j \in Positions
               PROVE  Cardinality(GroupsAt(i)) <= Cardinality(GroupsAt(j)) + 1
    BY DEF GroupsSpread, GroupsAt
  <2>1. PICK q \in Nat, m \in 0 .. Len(workers) - 1 : DealtOut(q, m)
    BY DEF Dealt, DealtInTurn
  <2> QED
    BY <2>1 DEF DealtOut
<1> QED
  BY <1>1, <1>2, <1>3, PTL DEF Spec

-----------------------------------------------------------------------------
(***************************************************************************)
(* The replica pool.  Most of what a call does is undone by the same call, *)
(* so the invariants rest on the lock: while a call is between two awaits  *)
(* of its own, whatever the pool is out of order for, this call accounts   *)
(* for.                                                                    *)
(***************************************************************************)

Scales == {"scale_up", "scale_down"}

\* Where a call is while it has the lock.
Holding == {"draining", "remote", "scaling", "draining_worker", "building"}

PoolTyped ==
  /\ poolWorkers \in Seq(WorkerIds) /\ workers \in Seq(WorkerIds)
  /\ created \subseteq WorkerIds /\ awaiting \subseteq WorkerIds
  /\ available \in [WorkerIds -> BOOLEAN]
  /\ lockHolder \in Calls \cup {NoCall}
  /\ at \in [Calls -> {"idle", "locking"} \cup Holding]
  /\ op \in [Calls -> PoolOps \cup {"none"}]
  /\ goal \in [Calls -> Nat]
  /\ engine \in [WorkerIds -> EngineStates]

\* No worker is listed twice, and a new one is not in the list.
Distinct ==
  /\ Elements(workers) \subseteq created
  /\ \A i, j \in Positions : workers[i] = workers[j] => i = j

\* At most one call is past the lock.
LockHeld == \A c \in Calls : at[c] \in Holding => lockHolder = c

\* Where a call with the lock is follows from what it does.
Purposes ==
  \A c \in Calls :
    /\ at[c] \in {"scaling", "draining_worker", "building"} => op[c] \in Scales
    /\ at[c] = "draining" => op[c] \in DrainOps
    /\ at[c] = "remote" => op[c] \in {"sleep", "reset"} \cup WakeOps \cup SyncOps \cup IpcOps

\* Only scaling calls and shutdown change the list; without them, the groups that
\* the pool made for a weight sync name every replica, and the replica that a
\* shared-memory sync is for is still there.
Sized ==
  /\ \A c \in Calls : op[c] \in IpcOps => goal[c] >= 1
  /\ up /\ PoolOps \cap Scales = {} =>
       \A c \in Calls :
         /\ op[c] \in SyncOps /\ ~PartialGroups => Len(poolWorkers) <= goal[c]
         /\ op[c] \in IpcOps => goal[c] <= Len(poolWorkers)

\* A worker refuses a weight sync only by an error.
IpcFailed ==
  \A c \in Calls :
    at[c] = "remote" /\ op[c] \in IpcOps /\ failed # {} => TRUE \in WorkerErrors

Pausing(c)  == at[c] \in {"draining", "remote"} /\ op[c] \in DrainOps
Skipping(c) == at[c] = "remote" /\ op[c] \in SkipOps
Retiring(c) == at[c] = "draining_worker"
Sending(c)  == at[c] = "remote" /\ op[c] = "sleep"

\* The calls that can leave the gate shut behind them are not made: a
\* shared-memory sync of a worker that raises (replica_pool.py:785) or that
\* scaling has removed while the call waited for the lock (:783), and a sync whose
\* groups scaling has outgrown meanwhile, or never named every replica (:706).
GateProtected ==
  /\ TRUE \notin WorkerErrors \/ PoolOps \cap {"ipc_drain", "ipc_skip"} = {}
  /\ PoolOps \cap Scales = {}
       \/ PoolOps \cap {"sync_drain", "sync_skip", "ipc_drain", "ipc_skip"} = {}
  /\ ~PartialGroups \/ PoolOps \cap {"sync_drain", "sync_skip"} = {}

\* A pause is for a call that has the lock, or for the sleep it ended with; a
\* worker that is left out is left out by such a call.
GateHeld ==
  up /\ closing = "no" =>
    /\ paused => sleeping \/ \E c \in Calls : Pausing(c)
    /\ \A i \in Positions :
         \/ available[workers[i]]
         \/ \E c \in Calls : Skipping(c) \/ (Retiring(c) /\ i = Len(workers))

\* An engine that is not ready belongs to a pool that sleeps or is going to.
EnginesHeld ==
  up => \A i \in Positions :
          engine[workers[i]] = "ready" \/ sleeping \/ \E c \in Calls : Sending(c)

\* A wake-up that restores the cache leaves no engine behind without an error.
WokenSoFar ==
  up => \A c \in Calls : at[c] = "remote" /\ op[c] \in {"wake_up", "wake_kv"} =>
          \A i \in Positions : workers[i] \in awaiting \cup failed \/ engine[workers[i]] = "ready"

PoolInv ==
  /\ PoolTyped /\ Distinct /\ ListsAgree /\ LockHeld /\ Purposes
  /\ Sized /\ IpcFailed
  /\ GateProtected => GateHeld
  /\ EnginesHeld /\ WokenSoFar

-----------------------------------------------------------------------------

\* What the invariant reads, apart from the sequence of waiting calls.
readVars == <<poolWorkers, workers, created, available, paused, up, sleeping, lockHolder, op, at,
              goal, awaiting, failed, engine, closing>>

LEMMA PoolStill == ASSUME PoolInv, UNCHANGED readVars
                   PROVE  PoolInv'
PROOF
<1> USE DEF readVars, PoolInv
<1>1. PoolTyped' /\ Distinct' /\ ListsAgree' /\ LockHeld'
  BY DEF PoolTyped, Distinct, ListsAgree, LockHeld, Positions, Elements
<1>2. Purposes' /\ Sized' /\ IpcFailed'
  BY DEF Purposes, Sized, IpcFailed
<1>3. GateProtected => GateHeld'
  BY DEF GateHeld, Positions, Pausing, Skipping, Retiring
<1>4. EnginesHeld' /\ WokenSoFar'
  BY DEF EnginesHeld, WokenSoFar, Positions, Sending
<1> QED
  BY <1>1, <1>2, <1>3, <1>4 DEF GateProtected

\* A request's own steps leave the list, the gate and the pool alone.
LEMMA RequestSteps ==
  ASSUME PoolInv, NEW r \in Requests, generate(r) \/ RequestStep(r)
  PROVE  PoolInv'
PROOF
<1>1. UNCHANGED <<poolVars, workerVars, gateVars>>
  <2>1. CASE generate(r)
    BY <2>1 DEF generate, Submit, submit
  <2>2. CASE RequestStep(r)
    <3>1. CASE Dispatch(r)
      BY <2>2, <3>1 DEF RequestStep, Dispatch
    <3>2. CASE Backoff(r)
      BY <2>2, <3>2 DEF RequestStep, Backoff
    <3>3. CASE RouteError(r) \/ StopQueued(r)
      BY <2>2, <3>3 DEF RequestStep, RouteError, StopQueued, EndUndispatched
    <3>4. CASE Cancelled(r) \/ Answer(r)
      BY <2>2, <3>4 DEF RequestStep, Cancelled, Answer, Complete, Fail, EndDispatched
    <3> QED
      BY <2>2, <3>1, <3>2, <3>3, <3>4 DEF RequestStep, TaskStep
  <2> QED
    BY <2>1, <2>2
<1>2. UNCHANGED readVars
  BY <1>1 DEF readVars, poolVars, callVars, engineVars, workerVars, gateVars
<1> QED
  BY <1>2, PoolStill

LEMMA PoolFirst == PoolInit => PoolInv
PROOF
<1> SUFFICES ASSUME PoolInit
             PROVE  PoolInv
  OBVIOUS
<1> USE DEF PoolInit, Init
<1>1. PoolTyped
  BY InitialWorkersDistinct DEF PoolTyped, EngineStates
<1>2. Distinct
  BY InitialWorkersDistinct DEF Distinct, Elements, Positions
<1>3. ListsAgree /\ LockHeld
  BY DEF ListsAgree, LockHeld, Holding
<1>4. Purposes /\ Sized /\ IpcFailed
  BY DEF Purposes, Sized, IpcFailed, SyncOps, IpcOps
<1>5. GateHeld
  BY InitialWorkersDistinct DEF GateHeld, Positions
<1>6. EnginesHeld /\ WokenSoFar
  BY InitialWorkersDistinct DEF EnginesHeld, WokenSoFar, Positions, Elements
<1> QED
  BY <1>1, <1>2, <1>3, <1>4, <1>5, <1>6 DEF PoolInv

-----------------------------------------------------------------------------
(* Who has the lock. *)

LEMMA Alone == ASSUME PoolInv, NEW c \in Calls, at[c] \in Holding
               PROVE  \A d \in Calls : d # c => at[d] \notin Holding
PROOF
  BY DEF PoolInv, LockHeld

LEMMA Nobody == ASSUME PoolInv, lockHolder = NoCall
                PROVE  \A d \in Calls : at[d] \notin Holding
PROOF
  BY NoCallIsNoCall DEF PoolInv, LockHeld

\* With nobody past the lock, what calls account for is in order.
LEMMA InOrder ==
  ASSUME PoolInv, \A d \in Calls : at[d] \notin Holding
  PROVE  /\ GateProtected /\ up /\ closing = "no" =>
              (paused => sleeping) /\ \A i \in Positions : available[workers[i]]
         /\ up => \A i \in Positions : engine[workers[i]] = "ready" \/ sleeping
PROOF
  BY DEF PoolInv, GateHeld, EnginesHeld, Pausing, Skipping, Retiring, Sending, Holding

-----------------------------------------------------------------------------
(* A call ends, with the gate and the engines in order. *)

LEMMA Left ==
  ASSUME PoolInv, NEW c \in Calls, at[c] \in Holding \/ lockHolder = NoCall, Leave(c),
         UNCHANGED <<poolWorkers, workers, created, engine, up, closing>>,
         available' \in [WorkerIds -> BOOLEAN], awaiting' \subseteq awaiting,
         GateProtected /\ up /\ closing = "no" =>
           (paused' => sleeping') /\ \A i \in Positions : available'[workers[i]],
         up => \A i \in Positions : engine[workers[i]] = "ready" \/ sleeping'
  PROVE  PoolInv'
PROOF
<1>1. /\ at' = [at EXCEPT ![c] = "idle"] /\ op' = [op EXCEPT ![c] = "none"]
      /\ goal' = [goal EXCEPT ![c] = 0]
      /\ lockHolder' = IF lockHolder = c THEN NoCall ELSE lockHolder
  BY DEF Leave
<1>2. PoolTyped'
  BY <1>1 DEF PoolInv, PoolTyped
<1>3. \A d \in Calls : at'[d] \notin Holding
  BY <1>1, Alone, Nobody DEF PoolInv, PoolTyped, Holding
<1>4. Distinct' /\ ListsAgree'
  BY DEF PoolInv, Distinct, ListsAgree, Positions, Elements
<1>5. LockHeld' /\ Purposes' /\ IpcFailed' /\ WokenSoFar'
  BY <1>3 DEF LockHeld, Purposes, IpcFailed, WokenSoFar, Holding
<1>6. Sized'
  <2>1. ASSUME NEW d \in Calls, op'[d] \in SyncOps \cup IpcOps
        PROVE  op'[d] = op[d] /\ goal'[d] = goal[d]
    BY <1>1, <2>1 DEF PoolInv, PoolTyped, SyncOps, IpcOps
  <2> QED
    BY <2>1 DEF PoolInv, Sized
<1>7. (GateProtected => GateHeld)' /\ EnginesHeld'
  BY DEF GateProtected, GateHeld, EnginesHeld, Positions
<1> QED
  BY <1>2, <1>4, <1>5, <1>6, <1>7 DEF PoolInv

\* A call ends from the answers of its workers.
LEMMA Finishes ==
  ASSUME PoolInv, NEW c \in Calls,
         \/ FinishSleep(c) \/ FinishWake(c) \/ FinishReset(c) \/ FinishSync(c) \/ FinishPlain(c)
  PROVE  PoolInv'
PROOF
<1>1. /\ HasAnswers(c) /\ Leave(c) /\ at[c] = "remote" /\ at[c] \in Holding
      /\ UNCHANGED <<poolWorkers, up, awaiting, engine, closing>>
  BY DEF FinishSleep, FinishWake, FinishReset, FinishSync, FinishPlain, HasAnswers,
         engineVars, Holding
<1>2. UNCHANGED <<workers, created>>
  BY DEF FinishSleep, FinishWake, FinishReset, FinishSync, FinishPlain, resume, reset_affinity,
         PutAllBack, vars, workerVars
<1>3. \A d \in Calls : d # c => at[d] \notin Holding
  BY <1>1, Alone
<1>4. available \in [WorkerIds -> BOOLEAN] /\ op[c] \in PoolOps \cup {"none"}
  BY DEF PoolInv, PoolTyped
\* What the call accounted for, when it did not.
<1>5. GateProtected /\ up /\ closing = "no" =>
        /\ paused => sleeping \/ op[c] \in DrainOps
        /\ op[c] \notin SkipOps => \A i \in Positions : available[workers[i]]
  BY <1>1, <1>3 DEF PoolInv, GateHeld, Pausing, Skipping, Retiring, Holding
<1>6. up => \A i \in Positions :
              engine[workers[i]] = "ready" \/ sleeping \/ op[c] = "sleep"
  BY <1>1, <1>3 DEF PoolInv, EnginesHeld, Sending, Holding
<1>7. CASE FinishSleep(c)
  <2>1. sleeping' = TRUE /\ UNCHANGED <<available, paused>> /\ op[c] = "sleep"
    BY <1>7 DEF FinishSleep, vars, workerVars, gateVars
  <2> QED
    BY <1>1, <1>2, <1>4, <1>5, <2>1, Left DEF SkipOps
<1>8. CASE FinishWake(c)
  <2>1. /\ op[c] \in {"wake_up", "wake_kv"} /\ failed = {} /\ awaiting = {}
        /\ sleeping' = FALSE /\ UNCHANGED available /\ (up => paused' = FALSE)
    BY <1>8 DEF FinishWake, WakeCompletes, HasAnswers, resume, vars, workerVars
  <2>2. up => \A i \in Positions : engine[workers[i]] = "ready"
    BY <1>1, <2>1 DEF PoolInv, WokenSoFar
  <2> QED
    BY <1>1, <1>2, <1>4, <1>5, <2>1, <2>2, Left DEF SkipOps
<1>9. CASE FinishReset(c)
  <2>1. op[c] = "reset" /\ UNCHANGED <<available, paused, sleeping>>
    BY <1>9 DEF FinishReset, reset_affinity, workerVars, gateVars
  <2> QED
    BY <1>1, <1>2, <1>4, <1>5, <1>6, <2>1, Left DEF SkipOps, DrainOps
<1>10. CASE FinishSync(c)
  <2>1. op[c] \in {"sync_drain", "ipc_drain", "sync_skip", "ipc_skip"} /\ UNCHANGED sleeping
    BY <1>10 DEF FinishSync, Undoes
  <2>2. CASE op[c] \in DrainOps
    <3>1. paused' = FALSE /\ UNCHANGED available
      BY <1>10, <2>2 DEF FinishSync, resume, workerVars
    <3>2. op[c] \notin SkipOps /\ op[c] # "sleep"
      BY <2>1, <2>2 DEF DrainOps, SkipOps
    <3> QED
      BY <1>1, <1>2, <1>4, <1>5, <1>6, <2>1, <3>1, <3>2, Left
  <2>3. CASE op[c] \notin DrainOps
    <3>1. /\ UNCHANGED paused
          /\ available' = [w \in WorkerIds |-> available[w] \/ w \in Elements(workers)]
      BY <1>10, <2>3 DEF FinishSync, PutAllBack, gateVars
    <3>2. available' \in [WorkerIds -> BOOLEAN]
      BY <3>1
    <3>3. \A i \in Positions : available'[workers[i]]
      <4>1. ASSUME NEW i \in Positions
            PROVE  workers[i] \in WorkerIds /\ workers[i] \in Elements(workers)
        BY DEF PoolInv, PoolTyped, Positions, Elements
      <4> QED
        BY <3>1, <4>1
    <3> QED
      BY <1>1, <1>2, <1>5, <1>6, <2>1, <2>3, <3>1, <3>2, <3>3, Left DEF DrainOps
  <2> QED
    BY <2>2, <2>3
<1>11. CASE FinishPlain(c)
  <2>1. /\ op[c] # "sleep" /\ UNCHANGED <<available, paused, sleeping>>
        /\ up => ~Undoes(c)
    BY <1>11 DEF FinishPlain, vars, workerVars, gateVars
  <2>2. GateProtected /\ up => op[c] \notin {"ipc_drain", "ipc_skip"}
    BY <1>1, <1>4, <2>1 DEF PoolInv, IpcFailed, GateProtected, Undoes, IpcOps
  <2>3. GateProtected /\ up => op[c] \notin DrainOps \cup SkipOps
    BY <2>1, <2>2 DEF DrainOps, SkipOps, Undoes
  <2> QED
    BY <1>1, <1>2, <1>4, <1>5, <1>6, <2>1, <2>3, Left
<1> QED
  BY <1>7, <1>8, <1>9, <1>10, <1>11

\* A call that found the pool shut down when it got the lock.
LEMMA TooLate == ASSUME PoolInv, NEW c \in Calls, AcquireTooLate(c)
                 PROVE  PoolInv'
PROOF
<1>1. /\ lockHolder = NoCall /\ ~up /\ Leave(c)
      /\ UNCHANGED <<poolWorkers, workers, created, available, up, awaiting, engine, closing>>
  BY DEF AcquireTooLate, HasTurn, vars, workerVars, engineVars
<1>2. available \in [WorkerIds -> BOOLEAN]
  BY DEF PoolInv, PoolTyped
<1> QED
  BY <1>1, <1>2, Left

\* A scaling call ends.
LEMMA ScaleEnds == ASSUME PoolInv, NEW c \in Calls, FinishScale(c)
                   PROVE  PoolInv'
PROOF
<1>1. /\ at[c] \in Holding /\ at[c] \notin {"remote", "draining"} /\ Leave(c)
      /\ up => at[c] # "draining_worker"
      /\ awaiting' = {}
      /\ UNCHANGED <<poolWorkers, workers, created, available, paused, up, sleeping, engine, closing>>
  BY DEF FinishScale, vars, workerVars, gateVars, engineVars, Holding
<1>2. \A d \in Calls : d # c => at[d] \notin Holding
  BY <1>1, Alone
<1>3. available \in [WorkerIds -> BOOLEAN]
  BY DEF PoolInv, PoolTyped
<1>4. GateProtected /\ up /\ closing = "no" =>
        (paused => sleeping) /\ \A i \in Positions : available[workers[i]]
  BY <1>1, <1>2 DEF PoolInv, GateHeld, Pausing, Skipping, Retiring, Holding
<1>5. up => \A i \in Positions : engine[workers[i]] = "ready" \/ sleeping
  BY <1>1, <1>2 DEF PoolInv, EnginesHeld, Sending, Holding
<1> QED
  BY <1>1, <1>3, <1>4, <1>5, Left

-----------------------------------------------------------------------------
(* A call asks the workers. *)

\* The call goes on to its remote calls, with the gate and the engines in order
\* but for what the call itself has changed.
LEMMA Asks ==
  ASSUME PoolInv, NEW c \in Calls, at[c] \in Holding \/ lockHolder = NoCall,
         AskWorkers(c), ~MissesReplica(c), lockHolder' = c,
         UNCHANGED <<poolWorkers, workers, created, engine, up, sleeping, closing, op, goal>>,
         available' \in [WorkerIds -> BOOLEAN], at[c] # "remote",
         op[c] \in {"sleep", "reset"} \cup WakeOps \cup SyncOps \cup IpcOps,
         GateProtected /\ up /\ closing = "no" =>
           /\ paused' => sleeping \/ op[c] \in DrainOps
           /\ op[c] \in SkipOps \/ \A i \in Positions : available'[workers[i]]
  PROVE  PoolInv'
PROOF
<1>1. at' = [at EXCEPT ![c] = "remote"] /\ failed' = {}
  BY DEF AskWorkers
<1>2. \A d \in Calls : d # c => at[d] \notin Holding /\ at'[d] = at[d]
  BY <1>1, Alone, Nobody DEF PoolInv, PoolTyped
<1>3. at'[c] = "remote"
  BY <1>1 DEF PoolInv, PoolTyped
<1>4. PoolTyped' /\ Distinct' /\ ListsAgree'
  <2>1. awaiting' \subseteq WorkerIds
    <3>1. Elements(poolWorkers) \subseteq WorkerIds
      BY DEF PoolInv, PoolTyped, Elements
    <3>2. CASE op[c] \in IpcOps
      <4>1. goal[c] \in 1 .. Len(poolWorkers)
        BY <3>2 DEF MissesReplica, PoolInv, PoolTyped, Sized
      <4>2. poolWorkers[goal[c]] \in WorkerIds
        BY <4>1 DEF PoolInv, PoolTyped
      <4> QED
        BY <3>2, <4>2 DEF AskWorkers, Asked
    <3>3. CASE op[c] \notin IpcOps
      BY <3>1, <3>3 DEF AskWorkers, Asked
    <3> QED
      BY <3>2, <3>3
  <2> QED
    BY <1>1, <2>1 DEF PoolInv, PoolTyped, Distinct, ListsAgree, Positions, Elements, Holding
<1>5. LockHeld' /\ IpcFailed'
  BY <1>1, <1>2 DEF LockHeld, IpcFailed
<1>6. Purposes' /\ Sized'
  BY <1>2, <1>3 DEF PoolInv, Purposes, Sized, Holding
<1>7. (GateProtected => GateHeld)'
  BY <1>3 DEF GateProtected, GateHeld, Positions, Pausing, Skipping
<1>8. EnginesHeld'
  BY <1>2, <1>3 DEF PoolInv, EnginesHeld, Positions, Sending, Holding
<1>9. WokenSoFar'
  <2>1. up /\ op[c] \in {"wake_up", "wake_kv"} => awaiting' = Elements(workers)
    BY DEF AskWorkers, Asked, IpcOps, PoolInv, ListsAgree, Elements
  <2>2. ASSUME up, NEW d \in Calls, at'[d] = "remote", op[d] \in {"wake_up", "wake_kv"},
               NEW i \in Positions
        PROVE  workers[i] \in awaiting'
    <3>1. d = c
      BY <1>2, <2>2 DEF Holding
    <3> QED
      BY <2>1, <2>2, <3>1 DEF Positions, Elements
  <2> QED
    BY <2>2 DEF WokenSoFar, Positions
<1> QED
  BY <1>4, <1>5, <1>6, <1>7, <1>8, <1>9 DEF PoolInv

\* A sync that misses a replica raises: nothing is asked.
LEMMA MissesOnly ==
  ASSUME PoolInv, up, NEW c \in Calls, MissesReplica(c), GateProtected
  PROVE  op[c] \notin DrainOps \cup SkipOps
PROOF
<1>1. Len(poolWorkers) \in Nat /\ goal[c] \in Nat /\ op[c] \in PoolOps \cup {"none"}
  BY DEF PoolInv, PoolTyped
<1>2. CASE op[c] \in SyncOps /\ Len(poolWorkers) > goal[c]
  <2>1. PoolOps \cap Scales # {} \/ PartialGroups
    BY <1>1, <1>2 DEF PoolInv, Sized
  <2>2. op[c] \in PoolOps
    BY <1>1, <1>2 DEF SyncOps
  <2>3. op[c] \notin {"sync_drain", "sync_skip"}
    BY <2>1, <2>2, PoolSwitches DEF GateProtected
  <2> QED
    BY <1>2, <2>3 DEF SyncOps, DrainOps, SkipOps
<1>3. CASE op[c] \in IpcOps /\ Len(poolWorkers) < goal[c]
  <2>1. PoolOps \cap Scales # {}
    BY <1>1, <1>3 DEF PoolInv, Sized
  <2>2. op[c] \in PoolOps
    BY <1>1, <1>3 DEF IpcOps
  <2>3. op[c] \notin {"ipc_drain", "ipc_skip"}
    BY <2>1, <2>2 DEF GateProtected
  <2> QED
    BY <1>3, <2>3 DEF IpcOps, DrainOps, SkipOps
<1> QED
  BY <1>2, <1>3 DEF MissesReplica

LEMMA AskSteps ==
  ASSUME PoolInv, NEW c \in Calls, DrainReturns(c) \/ AcquireAndSkip(c) \/ AcquireAndAsk(c)
  PROVE  PoolInv'
PROOF
<1>1. /\ AskOrRaise(c)
      /\ \/ at[c] = "draining" /\ at[c] \in Holding
         \/ at[c] = "locking" /\ lockHolder = NoCall
      /\ UNCHANGED <<poolWorkers, workers, created, paused, up, sleeping, engine, closing>>
  BY DEF DrainReturns, AcquireAndSkip, AcquireAndAsk, HasTurn, TakeAllOut, vars, workerVars,
         gateVars, Holding
<1>2. available' \in [WorkerIds -> BOOLEAN]
  BY DEF PoolInv, PoolTyped, DrainReturns, AcquireAndSkip, AcquireAndAsk, TakeAllOut, vars,
         workerVars
<1>3. UNCHANGED available \/ op[c] \in SkipOps
  BY DEF DrainReturns, AcquireAndSkip, AcquireAndAsk, vars, workerVars
<1>4. \A d \in Calls : d # c => at[d] \notin Holding
  BY <1>1, Alone, Nobody
<1>5. GateProtected /\ up /\ closing = "no" =>
        /\ paused => sleeping \/ op[c] \in DrainOps
        /\ \A i \in Positions : available[workers[i]]
  BY <1>1, <1>4 DEF PoolInv, GateHeld, Pausing, Skipping, Retiring, Holding
<1>6. up => \A i \in Positions : engine[workers[i]] = "ready" \/ sleeping
  BY <1>1, <1>4 DEF PoolInv, EnginesHeld, Sending, Holding
<1>7. CASE MissesReplica(c)
  <2>1. Leave(c) /\ UNCHANGED awaiting
    BY <1>1, <1>7 DEF AskOrRaise
  <2>2. GateProtected /\ up => op[c] \notin DrainOps \cup SkipOps
    BY <1>7, MissesOnly
  <2> QED
    BY <1>1, <1>2, <1>3, <1>5, <1>6, <2>1, <2>2, Left
<1>8. CASE ~MissesReplica(c)
  <2>2. op[c] \in {"sleep", "reset"} \cup WakeOps \cup SyncOps \cup IpcOps
    BY <1>1 DEF PoolInv, Purposes, DrainReturns, AcquireAndSkip, AcquireAndAsk, HasTurn, WakeOps,
                SyncOps, IpcOps, DrainOps, SkipOps
  <2>1. AskWorkers(c) /\ lockHolder' = c /\ UNCHANGED <<op, goal>>
    BY <1>1, <1>8 DEF AskOrRaise
  <2> QED
    BY <1>1, <1>2, <1>3, <1>5, <1>8, <2>1, <2>2, Asks
<1> QED
  BY <1>7, <1>8

-----------------------------------------------------------------------------
(* Entering a call, and its first wait. *)

LEMMA Enters ==
  ASSUME PoolInv, NEW c \in Calls, NEW o \in PoolOps, NEW n \in Targets(o), Enter(c, o, n)
  PROVE  PoolInv'
PROOF
<1>1. /\ at[c] = "idle"
      /\ at' = [at EXCEPT ![c] = "locking"] /\ op' = [op EXCEPT ![c] = o]
      /\ goal' = [goal EXCEPT ![c] = n]
      /\ UNCHANGED <<poolWorkers, workers, created, available, paused, up, sleeping, lockHolder,
                     awaiting, failed, engine, closing>>
  BY DEF Enter, vars, workerVars, gateVars, engineVars
<1>2. /\ n \in Nat
      /\ o \in SyncOps /\ ~PartialGroups => n = Len(poolWorkers)
      /\ o \in IpcOps => n \in 1 .. Len(poolWorkers)
  <2>1. Len(poolWorkers) \in Nat /\ o \in AllPoolOps
    BY PoolOpsKnown DEF PoolInv, PoolTyped
  <2>2. CASE o \in Scales
    BY <2>2 DEF Targets, Scales, SyncOps, IpcOps
  <2>3. CASE o \in SyncOps
    BY <2>1, <2>3, PoolSwitches DEF Targets, SyncOps, IpcOps
  <2>4. CASE o \in IpcOps
    BY <2>1, <2>4 DEF Targets, SyncOps, IpcOps
  <2>5. CASE o \notin Scales \cup SyncOps \cup IpcOps
    BY <2>1, <2>5 DEF Targets, Scales, SyncOps, IpcOps
  <2> QED
    BY <2>2, <2>3, <2>4, <2>5
<1>3. \A d \in Calls : at'[d] \in Holding => at'[d] = at[d] /\ op'[d] = op[d]
  BY <1>1 DEF PoolInv, PoolTyped, Holding
<1>4. \A d \in Calls : at[d] \in Holding => at'[d] = at[d] /\ op'[d] = op[d]
  BY <1>1 DEF PoolInv, PoolTyped, Holding
<1>5. PoolTyped' /\ Distinct' /\ ListsAgree'
  BY <1>1, <1>2 DEF PoolInv, PoolTyped, Distinct, ListsAgree, Positions, Elements
<1>6. LockHeld' /\ Purposes' /\ IpcFailed'
  BY <1>1, <1>3 DEF PoolInv, LockHeld, Purposes, IpcFailed, Holding
<1>7. Sized'
  BY <1>1, <1>2 DEF PoolInv, PoolTyped, Sized
<1>8. (GateProtected => GateHeld)'
  <2>1. SUFFICES ASSUME GateProtected, up, closing = "no"
                 PROVE  /\ paused => sleeping \/ \E d \in Calls : Pausing(d)'
                        /\ \A i \in Positions :
                             \/ available[workers[i]]
                             \/ \E d \in Calls : Skipping(d)' \/ (Retiring(d)' /\ i = Len(workers))
    BY <1>1 DEF GateProtected, GateHeld, Positions
  <2>2. GateHeld
    BY <2>1 DEF PoolInv
  <2>3. paused => sleeping \/ \E d \in Calls : Pausing(d)'
    BY <1>4, <2>1, <2>2 DEF GateHeld, Pausing, Holding
  <2>4. ASSUME NEW i \in Positions, ~available[workers[i]]
        PROVE  \E d \in Calls : Skipping(d)' \/ (Retiring(d)' /\ i = Len(workers))
    BY <1>4, <2>1, <2>2, <2>4 DEF GateHeld, Skipping, Retiring, Holding
  <2> QED
    BY <2>3, <2>4
<1>9. EnginesHeld' /\ WokenSoFar'
  BY <1>1, <1>3, <1>4 DEF PoolInv, EnginesHeld, WokenSoFar, Positions, Sending, Holding
<1> QED
  BY <1>5, <1>6, <1>7, <1>8, <1>9 DEF PoolInv

\* sleep() and the drain strategies pause, scaling calls change nothing yet.
LEMMA Acquires ==
  ASSUME PoolInv, NEW c \in Calls, AcquireAndPause(c) \/ AcquireAndScale(c)
  PROVE  PoolInv'
PROOF
<1>1. /\ lockHolder = NoCall /\ lockHolder' = c
      /\ UNCHANGED <<poolWorkers, workers, created, available, up, sleeping, op, goal, awaiting,
                     failed, engine, closing>>
  BY DEF AcquireAndPause, AcquireAndScale, HasTurn, TakeLock, pause, vars, workerVars, engineVars
<1>2. \/ /\ at' = [at EXCEPT ![c] = "draining"] /\ op[c] \in DrainOps
      \/ /\ at' = [at EXCEPT ![c] = "scaling"] /\ op[c] \in Scales /\ UNCHANGED paused
  BY DEF AcquireAndPause, AcquireAndScale, vars, gateVars, Scales
<1>3. \A d \in Calls : at[d] \notin Holding /\ (d # c => at'[d] = at[d])
  BY <1>1, <1>2, Nobody DEF PoolInv, PoolTyped
<1>4. \/ at'[c] = "draining" /\ op[c] \in DrainOps
      \/ at'[c] = "scaling" /\ op[c] \in Scales /\ UNCHANGED paused
  BY <1>2 DEF PoolInv, PoolTyped
<1>5. PoolTyped' /\ Distinct' /\ ListsAgree'
  BY <1>1, <1>2 DEF PoolInv, PoolTyped, Distinct, ListsAgree, Positions, Elements, Holding
<1>6. LockHeld' /\ Purposes' /\ IpcFailed' /\ Sized'
  BY <1>1, <1>3, <1>4 DEF PoolInv, LockHeld, Purposes, IpcFailed, Sized, Holding
<1>7. (GateProtected => GateHeld)'
  <2>1. GateProtected /\ up /\ closing = "no" =>
          (paused => sleeping) /\ \A i \in Positions : available[workers[i]]
    BY <1>3, InOrder
  <2> QED
    BY <1>1, <1>4, <2>1 DEF GateProtected, GateHeld, Positions, Pausing
<1>8. EnginesHeld' /\ WokenSoFar'
  <2>1. up => \A i \in Positions : engine[workers[i]] = "ready" \/ sleeping
    BY <1>3, InOrder
  <2> QED
    BY <1>1, <1>3, <1>4, <2>1 DEF EnginesHeld, WokenSoFar, Positions, Holding
<1> QED
  BY <1>5, <1>6, <1>7, <1>8 DEF PoolInv

-----------------------------------------------------------------------------
(* The workers' answers. *)

LEMMA WorkerSteps ==
  ASSUME PoolInv, NEW c \in Calls, NEW w \in WorkerIds, WorkerDone(c, w) \/ WorkerRaises(c, w)
  PROVE  PoolInv'
PROOF
<1>1. /\ at[c] = "remote" /\ w \in awaiting /\ awaiting' = awaiting \ {w}
      /\ UNCHANGED <<poolWorkers, workers, created, available, paused, up, sleeping, lockHolder,
                     op, at, goal, closing>>
  BY DEF WorkerDone, WorkerRaises, vars, workerVars, gateVars, callVars
<1>2. \A d \in Calls : d # c => at[d] \notin Holding
  BY <1>1, Alone DEF Holding
<1>3. Distinct' /\ ListsAgree' /\ LockHeld' /\ Purposes' /\ Sized' /\ (GateProtected => GateHeld)'
  BY <1>1 DEF PoolInv, Distinct, ListsAgree, LockHeld, Purposes, Sized, GateProtected, GateHeld,
              Positions, Elements, Pausing, Skipping, Retiring
<1>4. /\ op[c] \in {"sleep", "reset"} \cup WakeOps \cup SyncOps \cup IpcOps
      /\ engine[w] \in EngineStates /\ engine \in [WorkerIds -> EngineStates]
      /\ \A i \in Positions : workers[i] \in WorkerIds
  BY <1>1 DEF PoolInv, PoolTyped, Purposes, Positions
<1>5. CASE WorkerDone(c, w)
  <2> DEFINE after == EngineAfter(op[c], engine[w])
  <2>1. after # Refused /\ engine' = [engine EXCEPT ![w] = after] /\ UNCHANGED failed
    BY <1>5 DEF WorkerDone
  <2>2. /\ after \in EngineStates
        /\ op[c] \in {"wake_up", "wake_kv"} => after = "ready"
        /\ engine[w] = "ready" /\ op[c] # "sleep" => after = "ready"
    BY <1>4, <2>1 DEF EngineStates, EngineAfter, SleepTarget, WakeTarget, ResetTarget, Refused,
                      WakeOps, SyncOps, IpcOps
  <2> HIDE DEF after
  <2>3. PoolTyped' /\ IpcFailed'
    BY <1>1, <1>4, <2>1, <2>2 DEF PoolInv, PoolTyped, IpcFailed
  <2>4. \A i \in Positions :
          \/ workers[i] = w /\ engine'[w] = after
          \/ workers[i] # w /\ engine'[workers[i]] = engine[workers[i]]
    BY <1>4, <2>1
  <2>5. EnginesHeld'
    BY <1>1, <2>2, <2>4 DEF PoolInv, EnginesHeld, Positions, Sending
  <2>6. WokenSoFar'
    BY <1>1, <1>2, <2>1, <2>2, <2>4 DEF PoolInv, WokenSoFar, Positions, Holding
  <2> QED
    BY <1>3, <2>3, <2>5, <2>6 DEF PoolInv
<1>6. CASE WorkerRaises(c, w)
  <2>1. failed' = failed \cup {w} /\ UNCHANGED engine
    BY <1>6 DEF WorkerRaises, engineVars
  <2>2. op[c] \in IpcOps => TRUE \in WorkerErrors
    BY <1>4, <1>6 DEF WorkerRaises, EngineAfter, IpcOps, SyncOps, EngineStates, Refused
  <2>3. PoolTyped' /\ IpcFailed'
    BY <1>1, <1>2, <2>1, <2>2 DEF PoolInv, PoolTyped, IpcFailed, Holding
  <2>4. EnginesHeld' /\ WokenSoFar'
    BY <1>1, <2>1 DEF PoolInv, EnginesHeld, WokenSoFar, Positions, Sending
  <2> QED
    BY <1>3, <2>3, <2>4 DEF PoolInv
<1> QED
  BY <1>5, <1>6

-----------------------------------------------------------------------------
(* Scaling. *)

\* What scaling leaves alone, in a step that keeps the lock and stays a scaling.
LEMMA Scaling ==
  ASSUME PoolInv, NEW c \in Calls, at[c] \in {"scaling", "draining_worker", "building"},
         NEW to \in {"scaling", "draining_worker", "building"}, at' = [at EXCEPT ![c] = to],
         UNCHANGED <<up, sleeping, lockHolder, op, goal, failed, paused, closing>>
  PROVE  /\ \A d \in Calls : /\ at'[d] \in Holding => d = c
                             /\ at'[d] \notin {"draining", "remote"}
         /\ at'[c] = to /\ op[c] \in Scales
         /\ at' \in [Calls -> {"idle", "locking"} \cup Holding]
         /\ LockHeld' /\ Purposes' /\ IpcFailed' /\ WokenSoFar'
         /\ PoolOps \cap Scales # {}
PROOF
<1>1. at[c] \in Holding /\ at \in [Calls -> {"idle", "locking"} \cup Holding] /\ op[c] \in Scales
  BY DEF PoolInv, PoolTyped, Purposes, Holding
<1>2. \A d \in Calls : d # c => at[d] \notin Holding /\ at'[d] = at[d]
  BY <1>1, Alone
<1>3. at'[c] = to
  BY <1>1
<1>4. \A d \in Calls : at'[d] \in Holding => d = c
  BY <1>2
<1>5. \A d \in Calls : at'[d] \notin {"draining", "remote"}
  BY <1>2, <1>3 DEF Holding
<1>6. at' \in [Calls -> {"idle", "locking"} \cup Holding]
  BY <1>1 DEF Holding
<1>7. LockHeld' /\ Purposes'
  BY <1>1, <1>3, <1>4, <1>5 DEF PoolInv, LockHeld, Purposes, Holding
<1>8. IpcFailed' /\ WokenSoFar'
  BY <1>5 DEF IpcFailed, WokenSoFar
<1>9. PoolOps \cap Scales # {}
  BY <1>1 DEF PoolInv, PoolTyped, Scales
<1> QED
  BY <1>1, <1>3, <1>4, <1>5, <1>6, <1>7, <1>8, <1>9

LEMMA RetireSteps ==
  ASSUME PoolInv, NEW c \in Calls, RetireLast(c) \/ BuildWorker(c)
  PROVE  PoolInv'
PROOF
<1>1. /\ at[c] = "scaling" /\ up
      /\ UNCHANGED <<poolWorkers, workers, created, paused, up, sleeping, lockHolder, op, goal,
                     failed, engine, closing>>
  BY DEF RetireLast, BuildWorker, mark_worker, vars, workerVars, gateVars, engineVars
<1>2. PICK to \in {"draining_worker", "building"} : at' = [at EXCEPT ![c] = to]
  BY DEF RetireLast, BuildWorker
<1>3. /\ LockHeld' /\ Purposes' /\ IpcFailed' /\ WokenSoFar' /\ at'[c] = to
      /\ at' \in [Calls -> {"idle", "locking"} \cup Holding]
      /\ PoolOps \cap Scales # {}
  BY <1>1, <1>2, Scaling
<1>4. /\ GateProtected /\ up /\ closing = "no" =>
           (paused => sleeping) /\ \A i \in Positions : available[workers[i]]
      /\ up => \A i \in Positions : engine[workers[i]] = "ready" \/ sleeping
  <2>1. \A d \in Calls : d # c => at[d] \notin Holding
    BY <1>1, Alone DEF Holding
  <2> QED
    BY <1>1, <2>1 DEF PoolInv, GateHeld, EnginesHeld, Pausing, Skipping, Retiring, Sending,
                      Holding
<1>5. \/ UNCHANGED available
      \/ to = "draining_worker" /\ available' = [available EXCEPT ![workers[Len(workers)]] = FALSE]
  <2>1. CASE RetireLast(c)
    <3>1. to = "draining_worker"
      BY <1>1, <1>2, <2>1 DEF RetireLast, PoolInv, PoolTyped
    <3> QED
      BY <1>1, <2>1, <3>1 DEF RetireLast, mark_worker, PoolInv, ListsAgree
  <2>2. CASE BuildWorker(c)
    BY <2>2 DEF BuildWorker, vars, workerVars
  <2> QED
    BY <2>1, <2>2
<1>6. PoolTyped'
  <2>1. awaiting' \subseteq WorkerIds
    <3>1. CASE RetireLast(c)
      BY <3>1 DEF RetireLast, PoolInv, PoolTyped
    <3>2. CASE BuildWorker(c)
      <4>1. awaiting' = {} \/ \E w \in WorkerIds : awaiting' = {w}
        BY <3>2 DEF BuildWorker
      <4> QED
        BY <4>1
    <3> QED
      BY <3>1, <3>2
  <2> QED
    BY <1>1, <1>3, <1>5, <2>1 DEF PoolInv, PoolTyped
<1>7. Distinct' /\ ListsAgree' /\ Sized'
  BY <1>1, <1>3 DEF PoolInv, Distinct, ListsAgree, Sized, Positions, Elements
<1>8. (GateProtected => GateHeld)'
  <2>1. SUFFICES ASSUME GateProtected, closing = "no"
                 PROVE  GateHeld'
    BY <1>1 DEF GateProtected, GateHeld
  <2>2. ASSUME NEW i \in Positions, ~available'[workers[i]]
        PROVE  at'[c] = "draining_worker" /\ i = Len(workers)
    <3>1. workers \in Seq(WorkerIds) /\ available \in [WorkerIds -> BOOLEAN]
      BY DEF PoolInv, PoolTyped
    <3>2. workers[i] \in WorkerIds /\ Len(workers) \in Positions /\ available[workers[i]]
      BY <1>1, <1>4, <2>1, <3>1 DEF Positions
    <3>3. to = "draining_worker" /\ workers[i] = workers[Len(workers)]
      BY <1>5, <2>2, <3>1, <3>2
    <3> QED
      BY <1>3, <3>2, <3>3 DEF PoolInv, Distinct
  <2> QED
    BY <1>1, <1>4, <2>1, <2>2 DEF GateHeld, Positions, Pausing, Skipping, Retiring
<1>9. EnginesHeld'
  BY <1>1, <1>4 DEF EnginesHeld, Positions
<1> QED
  BY <1>3, <1>6, <1>7, <1>8, <1>9 DEF PoolInv

\* The last worker goes from both lists.
LEMMA DropsLast == ASSUME PoolInv, NEW c \in Calls, DropLast(c)
                   PROVE  PoolInv'
PROOF
<1>1. /\ at[c] = "draining_worker" /\ up /\ at' = [at EXCEPT ![c] = "scaling"]
      /\ workers # <<>>
      /\ workers' = SubSeq(workers, 1, Len(workers) - 1)
      /\ poolWorkers' = SubSeq(poolWorkers, 1, Len(poolWorkers) - 1)
      /\ engine' = [engine EXCEPT ![poolWorkers[Len(poolWorkers)]] = "uninitialized"]
      /\ UNCHANGED <<created, available, paused, up, sleeping, lockHolder, op, goal,
                     awaiting, failed, closing>>
  BY DEF DropLast, remove_last_worker, gateVars
<1>2. /\ LockHeld' /\ Purposes' /\ IpcFailed' /\ WokenSoFar'
      /\ at' \in [Calls -> {"idle", "locking"} \cup Holding]
      /\ PoolOps \cap Scales # {}
  BY <1>1, Scaling
<1>3. /\ workers \in Seq(WorkerIds) /\ Len(workers) \in Nat \ {0} /\ poolWorkers = workers
      /\ Positions = 1 .. Len(workers)
  BY <1>1 DEF PoolInv, PoolTyped, ListsAgree, Positions
<1>4. /\ workers' \in Seq(WorkerIds) /\ Positions' = 1 .. Len(workers) - 1
      /\ \A i \in 1 .. Len(workers) - 1 : workers'[i] = workers[i]
  BY <1>1, <1>3 DEF Positions
<1>5. /\ GateProtected /\ up /\ closing = "no" =>
           /\ paused => sleeping
           /\ \A i \in Positions : available[workers[i]] \/ i = Len(workers)
      /\ up => \A i \in Positions : engine[workers[i]] = "ready" \/ sleeping
  <2>1. \A d \in Calls : d # c => at[d] \notin Holding
    BY <1>1, Alone DEF Holding
  <2> QED
    BY <1>1, <2>1 DEF PoolInv, GateHeld, EnginesHeld, Pausing, Skipping, Retiring, Sending,
                      Holding
<1>6. PoolTyped'
  BY <1>1, <1>2, <1>3, <1>4 DEF PoolInv, PoolTyped, EngineStates
<1>7. Distinct' /\ ListsAgree' /\ Sized'
  BY <1>1, <1>2, <1>3, <1>4 DEF PoolInv, Distinct, ListsAgree, Sized, Elements, Positions
<1>8. (GateProtected => GateHeld)'
  <2>1. SUFFICES ASSUME GateProtected, closing = "no"
                 PROVE  (paused => sleeping) /\ \A i \in Positions' : available[workers'[i]]
    BY <1>1 DEF GateProtected, GateHeld
  <2>2. ASSUME NEW i \in Positions'
        PROVE  i \in Positions /\ i # Len(workers) /\ workers'[i] = workers[i]
    BY <1>3, <1>4
  <2> QED
    BY <1>1, <1>5, <2>1, <2>2
<1>9. EnginesHeld'
  <2>1. SUFFICES ASSUME NEW i \in Positions'
                 PROVE  engine'[workers'[i]] = "ready" \/ sleeping
    BY <1>1 DEF EnginesHeld
  <2>2. i \in Positions /\ workers'[i] = workers[i] /\ Len(workers) \in Positions /\ i # Len(workers)
    BY <1>3, <1>4
  <2>3. workers[i] # workers[Len(workers)] /\ workers[i] \in WorkerIds
    BY <1>3, <2>2 DEF PoolInv, Distinct
  <2>4. engine'[workers[i]] = engine[workers[i]]
    BY <1>1, <1>3, <2>3 DEF PoolInv, PoolTyped
  <2> QED
    BY <1>1, <1>5, <2>2, <2>4
<1> QED
  BY <1>2, <1>6, <1>7, <1>8, <1>9 DEF PoolInv

\* A worker that is new to both lists joins them, ready.
LEMMA Builds == ASSUME PoolInv, NEW c \in Calls, WorkerBuilt(c)
                PROVE  PoolInv'
PROOF
<1>1. PICK w \in awaiting, l \in Limits :
        /\ poolWorkers' = Append(poolWorkers, w)
        /\ add_worker(w, l)
        /\ engine' = [engine EXCEPT ![w] = "ready"]
  BY DEF WorkerBuilt
<1>2. /\ at[c] = "building" /\ up /\ at' = [at EXCEPT ![c] = "scaling"]
      /\ UNCHANGED <<up, sleeping, lockHolder, op, goal, failed, closing>>
  BY DEF WorkerBuilt
<1>3. /\ w \notin created /\ created' = created \cup {w} /\ workers' = Append(workers, w)
      /\ available' = [available EXCEPT ![w] = TRUE] /\ UNCHANGED paused
  BY <1>1 DEF add_worker, gateVars
<1>4. /\ LockHeld' /\ Purposes' /\ IpcFailed' /\ WokenSoFar'
      /\ at' \in [Calls -> {"idle", "locking"} \cup Holding]
      /\ PoolOps \cap Scales # {}
  BY <1>2, <1>3, Scaling
<1>5. /\ GateProtected /\ up /\ closing = "no" =>
           (paused => sleeping) /\ \A i \in Positions : available[workers[i]]
      /\ up => \A i \in Positions : engine[workers[i]] = "ready" \/ sleeping
  <2>1. \A d \in Calls : d # c => at[d] \notin Holding
    BY <1>2, Alone DEF Holding
  <2> QED
    BY <1>2, <2>1 DEF PoolInv, GateHeld, EnginesHeld, Pausing, Skipping, Retiring, Sending,
                      Holding
<1>6. /\ workers \in Seq(WorkerIds) /\ Len(workers) \in Nat /\ poolWorkers = workers
      /\ Positions = 1 .. Len(workers) /\ w \in WorkerIds /\ awaiting' = {}
  BY <1>1, <1>2 DEF WorkerBuilt, PoolInv, PoolTyped, ListsAgree, Positions
<1>7. /\ workers' \in Seq(WorkerIds) /\ Positions' = 1 .. Len(workers) + 1
      /\ \A i \in Positions : workers'[i] = workers[i] /\ workers[i] # w
      /\ workers'[Len(workers) + 1] = w
  <2>1. \A i \in Positions : workers[i] # w
    BY <1>3 DEF PoolInv, Distinct, Elements, Positions
  <2> QED
    BY <1>3, <1>6, <2>1 DEF Positions
<1>8. \A i \in Positions' : i \in Positions \/ i = Len(workers) + 1
  BY <1>6, <1>7
<1>9. PoolTyped'
  BY <1>1, <1>2, <1>3, <1>4, <1>6, <1>7 DEF PoolInv, PoolTyped, EngineStates
<1>10. Distinct'
  <2>1. \A i \in Positions' : workers'[i] \in created'
    BY <1>3, <1>7, <1>8 DEF PoolInv, Distinct, Elements, Positions
  <2>2. \A i, j \in Positions' : workers'[i] = workers'[j] => i = j
    BY <1>7, <1>8 DEF PoolInv, Distinct
  <2> QED
    BY <2>1, <2>2 DEF Distinct, Elements, Positions
<1>11. ListsAgree' /\ Sized'
  BY <1>1, <1>2, <1>3, <1>4, <1>6 DEF PoolInv, ListsAgree, Sized
<1>12. (GateProtected => GateHeld)'
  <2>1. SUFFICES ASSUME GateProtected, closing = "no"
                 PROVE  (paused => sleeping) /\ \A i \in Positions' : available'[workers'[i]]
    BY <1>2, <1>3 DEF GateProtected, GateHeld
  <2>2. available \in [WorkerIds -> BOOLEAN] /\ \A i \in Positions : workers[i] \in WorkerIds
    BY <1>6 DEF PoolInv, PoolTyped
  <2>3. \A i \in Positions : available'[workers'[i]]
    BY <1>2, <1>3, <1>5, <1>7, <2>1, <2>2
  <2>4. available'[w]
    BY <1>3, <1>6, <2>2
  <2> QED
    BY <1>2, <1>5, <1>7, <1>8, <2>1, <2>3, <2>4
<1>13. EnginesHeld'
  <2>1. SUFFICES ASSUME NEW i \in Positions'
                 PROVE  engine'[workers'[i]] = "ready" \/ sleeping
    BY <1>2 DEF EnginesHeld
  <2>2. engine \in [WorkerIds -> EngineStates] /\ \A j \in Positions : workers[j] \in WorkerIds
    BY <1>6 DEF PoolInv, PoolTyped
  <2>3. CASE i \in Positions
    BY <1>1, <1>2, <1>5, <1>7, <2>2, <2>3
  <2>4. CASE i = Len(workers) + 1
    BY <1>1, <1>6, <1>7, <2>2, <2>4
  <2> QED
    BY <1>8, <2>3, <2>4
<1> QED
  BY <1>4, <1>9, <1>10, <1>11, <1>12, <1>13 DEF PoolInv

-----------------------------------------------------------------------------
(* shutdown() *)

LEMMA Closes == ASSUME PoolInv, CancelScaling \/ StopScheduler \/ ForgetWorkers
                PROVE  PoolInv'
PROOF
<1>1. UNCHANGED <<workers, created, available, paused, sleeping, failed>>
  BY DEF CancelScaling, StopScheduler, ForgetWorkers, shutdown, vars, workerVars, gateVars
<1>2. closing' # "no"
  BY DEF CancelScaling, StopScheduler, ForgetWorkers
<1>3. Distinct' /\ (GateProtected => GateHeld)'
  BY <1>1, <1>2 DEF PoolInv, Distinct, GateHeld, Elements, Positions
<1>4. CASE CancelScaling
  <2> DEFINE scaling == {c \in Calls : op[c] = "scale_up"}
  <2>1. /\ at' = [c \in Calls |-> IF c \in scaling THEN "idle" ELSE at[c]]
        /\ op' = [c \in Calls |-> IF c \in scaling THEN "none" ELSE op[c]]
        /\ goal' = [c \in Calls |-> IF c \in scaling THEN 0 ELSE goal[c]]
        /\ lockHolder' = IF lockHolder \in scaling THEN NoCall ELSE lockHolder
        /\ awaiting' = IF lockHolder \in scaling THEN {} ELSE awaiting
        /\ UNCHANGED <<poolWorkers, up, engine>>
    BY <1>4 DEF CancelScaling, engineVars
  <2>2. \A c \in Calls : \/ at'[c] = "idle" /\ op'[c] = "none" /\ op[c] = "scale_up"
                         \/ /\ at'[c] = at[c] /\ op'[c] = op[c] /\ goal'[c] = goal[c]
                            /\ c \notin scaling
    BY <2>1
  <2>3. PoolTyped' /\ ListsAgree'
    BY <1>1, <2>1 DEF PoolInv, PoolTyped, ListsAgree
  <2>4. LockHeld' /\ Purposes' /\ IpcFailed' /\ Sized'
    BY <1>1, <2>1, <2>2 DEF PoolInv, LockHeld, Purposes, IpcFailed, Sized, Holding, SyncOps,
                            IpcOps
  <2>5. EnginesHeld'
    BY <1>1, <2>1, <2>2 DEF PoolInv, EnginesHeld, Positions, Sending
  <2>6. WokenSoFar'
    <3>1. SUFFICES ASSUME up, NEW c \in Calls, at'[c] = "remote", op'[c] \in {"wake_up", "wake_kv"},
                          NEW i \in Positions
                   PROVE  workers[i] \in awaiting' \cup failed \/ engine[workers[i]] = "ready"
      BY <1>1, <2>1 DEF WokenSoFar, Positions
    <3>2. at[c] = "remote" /\ op[c] = op'[c] /\ lockHolder = c /\ c \notin scaling
      BY <2>2, <3>1 DEF PoolInv, LockHeld, Holding
    <3> QED
      BY <2>1, <3>1, <3>2 DEF PoolInv, WokenSoFar
  <2> QED
    BY <1>3, <2>3, <2>4, <2>5, <2>6 DEF PoolInv
<1>5. CASE StopScheduler
  <2>1. UNCHANGED <<poolWorkers, up, lockHolder, op, at, goal, awaiting, engine>>
    BY <1>5 DEF StopScheduler, callVars, engineVars
  <2> QED
    BY <1>1, <1>3, <2>1 DEF PoolInv, PoolTyped, ListsAgree, LockHeld, Purposes, Sized, IpcFailed,
                            EnginesHeld, WokenSoFar, Positions, Sending
<1>6. CASE ForgetWorkers
  <2>1. /\ poolWorkers' = <<>> /\ up' = FALSE
        /\ engine' = [w \in WorkerIds |-> IF w \in Elements(poolWorkers) THEN "uninitialized"
                                          ELSE engine[w]]
        /\ UNCHANGED <<lockHolder, op, at, goal, awaiting>>
    BY <1>6 DEF ForgetWorkers, callVars
  <2>2. PoolTyped'
    BY <1>1, <2>1 DEF PoolInv, PoolTyped, EngineStates
  <2>3. ListsAgree' /\ LockHeld' /\ Purposes' /\ IpcFailed' /\ EnginesHeld' /\ WokenSoFar'
    BY <1>1, <2>1 DEF PoolInv, ListsAgree, LockHeld, Purposes, IpcFailed, EnginesHeld, WokenSoFar
  <2>4. Sized'
    BY <2>1 DEF PoolInv, PoolTyped, Sized
  <2> QED
    BY <1>3, <2>2, <2>3, <2>4 DEF PoolInv
<1> QED
  BY <1>4, <1>5, <1>6

-----------------------------------------------------------------------------

LEMMA PoolStep == PoolInv /\ [PoolNext]_allVars => PoolInv'
PROOF
<1> SUFFICES ASSUME PoolInv, [PoolNext]_allVars
             PROVE  PoolInv'
  OBVIOUS
<1>1. CASE UNCHANGED allVars
  <2>1. UNCHANGED readVars
    BY <1>1 DEF allVars, vars, workerVars, gateVars, poolVars, callVars, engineVars, readVars
  <2> QED
    BY <2>1, PoolStill
<1>2. CASE \E r \in Requests : generate(r) \/ RequestStep(r)
  BY <1>2, RequestSteps
<1>3. ASSUME NEW c \in Calls, CallStep(c)
      PROVE  PoolInv'
  BY <1>3, Acquires, AskSteps, TooLate, Finishes, RetireSteps, DropsLast, Builds, ScaleEnds
     DEF CallStep
<1>4. ASSUME NEW c \in Calls, WorkerStep(c)
      PROVE  PoolInv'
  BY <1>4, WorkerSteps DEF WorkerStep
<1>5. ASSUME NEW c \in Calls, NEW o \in PoolOps \ {"shutdown"}, NEW n \in Targets(o),
             Enter(c, o, n)
      PROVE  PoolInv'
  BY <1>5, Enters
<1>6. CASE CancelScaling \/ ClosingStep
  BY <1>6, Closes DEF ClosingStep
<1> QED
  BY <1>1, <1>2, <1>3, <1>4, <1>5, <1>6 DEF PoolNext

(***************************************************************************)
(* The pool and its scheduler list the same workers at every await,        *)
(* whatever calls overlap, fail or are cancelled by shutdown().            *)
(***************************************************************************)
THEOREM PoolListsAgree == PoolSpec => []ListsAgree
PROOF
<1>1. PoolInv => ListsAgree
  BY DEF PoolInv
<1> QED
  BY <1>1, PoolFirst, PoolStep, PTL DEF PoolSpec

(***************************************************************************)
(* When nobody has the lock, a pool that lets requests in has only engines *)
(* that can serve them, for any number of overlapping calls, staged and    *)
(* failed wake-ups included.                                               *)
(***************************************************************************)
THEOREM PoolAwakeReady == PoolSpec => []AwakeEnginesReady
PROOF
<1>1. PoolInv => AwakeEnginesReady
  <2>1. ASSUME PoolInv, LockFree
        PROVE  up /\ ~sleeping => \A i \in Positions : engine[workers[i]] = "ready"
    BY <2>1, Nobody, InOrder DEF LockFree
  <2> QED
    BY <2>1 DEF AwakeEnginesReady
<1> QED
  BY <1>1, PoolFirst, PoolStep, PTL DEF PoolSpec

(***************************************************************************)
(* Unless a shared-memory sync raises or finds its replica scaled away, or *)
(* the groups of a sync do not name every replica there is, a pool with a  *)
(* free lock is paused only if it sleeps, and routes to every worker it    *)
(* has: no order of overlapping sleeps, staged or failed wake-ups, syncs,  *)
(* resets, scalings and a shutdown leaves the gate shut.                   *)
(***************************************************************************)
THEOREM PoolGateRestored == ASSUME GateProtected
                            PROVE  PoolSpec => []GateRestored
PROOF
<1>1. PoolInv => GateRestored
  <2>1. ASSUME PoolInv, LockFree, up, closing = "no"
        PROVE  (paused => sleeping) /\ \A i \in Positions : available[workers[i]]
    BY <2>1, Nobody, InOrder DEF LockFree
  <2> QED
    BY <2>1 DEF GateRestored
<1> QED
  BY <1>1, PoolFirst, PoolStep, PTL DEF PoolSpec

-----------------------------------------------------------------------------
(* Weight syncs. *)

\* Every replica has answered with the new weights, failed or is waited for.
SyncedSoFar ==
  \A c \in Calls : at[c] = "remote" /\ op[c] \in SyncOps =>
    \A i \in DOMAIN poolWorkers :
      poolWorkers[i] \in awaiting \cup failed \/ version[poolWorkers[i]] = published

SyncInv == PoolInv /\ SyncedSoFar /\ version \in [WorkerIds -> Nat] /\ published \in Nat

\* The call with the lock has no answers to wait for, and it is the only one.
LEMMA NotSending ==
  ASSUME PoolInv, NEW c \in Calls, at[c] \in Holding \/ lockHolder = NoCall,
         \A d \in Calls : d # c => at'[d] = at[d],
         at'[c] # "remote"
  PROVE  SyncedSoFar'
PROOF
  BY Alone, Nobody DEF SyncedSoFar, Holding

\* Nothing that a sync waits for or has sent is lost.
LEMMA StillSynced ==
  ASSUME SyncedSoFar, UNCHANGED <<poolWorkers, version, published>>,
         \A c \in Calls : at'[c] = "remote" /\ op'[c] \in SyncOps =>
           /\ at[c] = "remote" /\ op'[c] = op[c]
           /\ awaiting \cup failed \subseteq awaiting' \cup failed'
  PROVE  SyncedSoFar'
PROOF
  BY DEF SyncedSoFar

LEMMA SyncAsks ==
  ASSUME PoolInv, NEW c \in Calls,
         AcquireAndSkip(c) \/ AcquireAndAsk(c) \/ DrainReturns(c)
  PROVE  SyncedSoFar'
PROOF
<1>1. /\ at[c] \in Holding \/ lockHolder = NoCall
      /\ AskOrRaise(c) /\ UNCHANGED <<poolWorkers, version>>
  BY DEF AcquireAndSkip, AcquireAndAsk, DrainReturns, HasTurn, Holding
<1>2. CASE Leave(c)
  BY <1>1, <1>2, NotSending DEF Leave, PoolInv, PoolTyped
<1>3. CASE AskWorkers(c) /\ UNCHANGED op
  <2>1. \A d \in Calls : d # c => at'[d] # "remote"
    BY <1>1, <1>3, Alone, Nobody DEF AskWorkers, PoolInv, PoolTyped, Holding
  <2>2. op[c] \in SyncOps => awaiting' = Elements(poolWorkers)
    BY <1>3 DEF AskWorkers, Asked, SyncOps, IpcOps
  <2> QED
    BY <1>1, <1>3, <2>1, <2>2 DEF SyncedSoFar, Elements
<1> QED
  BY <1>1, <1>2, <1>3 DEF AskOrRaise

LEMMA SyncAnswered ==
  ASSUME SyncInv, NEW c \in Calls, NEW w \in WorkerIds, WorkerDone(c, w)
  PROVE  SyncedSoFar'
PROOF
<1>1. /\ at[c] = "remote" /\ awaiting' = awaiting \ {w}
      /\ UNCHANGED <<poolWorkers, at, op, failed, published>>
      /\ version' = IF op[c] \in SyncOps \cup IpcOps THEN [version EXCEPT ![w] = published]
                                                     ELSE version
  BY DEF WorkerDone, callVars
<1>2. SUFFICES ASSUME NEW d \in Calls, at[d] = "remote", op[d] \in SyncOps,
                      NEW i \in DOMAIN poolWorkers
               PROVE  poolWorkers[i] \in awaiting' \cup failed \/ version'[poolWorkers[i]] = published
  BY <1>1 DEF SyncedSoFar
<1>3. d = c
  BY <1>1, <1>2, Alone DEF SyncInv, Holding
<1>4. version' = [version EXCEPT ![w] = published] /\ poolWorkers[i] \in WorkerIds
  BY <1>1, <1>2, <1>3 DEF SyncInv, PoolInv, PoolTyped
<1>5. poolWorkers[i] \in awaiting \cup failed \/ version[poolWorkers[i]] = published
  BY <1>2 DEF SyncInv, SyncedSoFar
<1> QED
  BY <1>1, <1>4, <1>5 DEF SyncInv

LEMMA SyncCallSteps ==
  ASSUME SyncInv, NEW c \in Calls, CallStep(c)
  PROVE  SyncedSoFar'
PROOF
<1>0. at \in [Calls -> {"idle", "locking"} \cup Holding] /\ PoolInv
  BY DEF SyncInv, PoolInv, PoolTyped
<1>1. CASE AcquireAndSkip(c) \/ AcquireAndAsk(c) \/ DrainReturns(c)
  BY <1>0, <1>1, SyncAsks
<1>2. CASE AcquireAndPause(c) \/ AcquireAndScale(c)
  BY <1>0, <1>2, NotSending DEF AcquireAndPause, AcquireAndScale, HasTurn
<1>3. CASE AcquireTooLate(c)
  BY <1>0, <1>3, NotSending DEF AcquireTooLate, HasTurn, Leave
<1>4. CASE FinishSleep(c) \/ FinishWake(c) \/ FinishPlain(c) \/ FinishReset(c) \/ FinishSync(c)
  BY <1>0, <1>4, NotSending DEF FinishSleep, FinishWake, FinishPlain, FinishReset, FinishSync,
     HasAnswers, Leave, Holding
<1>5. CASE FinishScale(c)
  BY <1>0, <1>5, NotSending DEF FinishScale, Leave, Holding
<1>6. CASE RetireLast(c) \/ DropLast(c) \/ BuildWorker(c) \/ WorkerBuilt(c)
  BY <1>0, <1>6, NotSending DEF RetireLast, DropLast, BuildWorker, WorkerBuilt, Holding
<1> QED
  BY <1>1, <1>2, <1>3, <1>4, <1>5, <1>6 DEF CallStep

LEMMA SyncOtherSteps ==
  ASSUME SyncInv, NEW c \in Calls,
         \/ \E o \in PoolOps : \E n \in Targets(o) : Enter(c, o, n)
         \/ \E w \in WorkerIds : WorkerRaises(c, w)
  PROVE  SyncedSoFar'
PROOF
<1>0. SyncedSoFar /\ PoolInv
  BY DEF SyncInv
<1>1. CASE \E o \in PoolOps : \E n \in Targets(o) : Enter(c, o, n)
  <2>1. PICK o \in PoolOps : /\ at' = [at EXCEPT ![c] = "locking"]
                             /\ op' = [op EXCEPT ![c] = o]
                             /\ UNCHANGED <<poolWorkers, version, published, awaiting, failed>>
    BY <1>1 DEF Enter, engineVars
  <2>2. \A d \in Calls : at'[d] = "remote" => at[d] = "remote" /\ op'[d] = op[d]
    BY <1>0, <2>1 DEF PoolInv, PoolTyped
  <2> QED
    BY <1>0, <2>1, <2>2, StillSynced
<1>2. CASE \E w \in WorkerIds : WorkerRaises(c, w)
  BY <1>0, <1>2, StillSynced DEF WorkerRaises, callVars, engineVars
<1> QED
  BY <1>1, <1>2

LEMMA SyncCloses ==
  ASSUME SyncInv, CancelScaling \/ StopScheduler \/ ForgetWorkers
  PROVE  SyncedSoFar'
PROOF
<1>0. SyncedSoFar /\ PoolInv
  BY DEF SyncInv
<1>1. CASE CancelScaling
  <2> DEFINE scaling == {c \in Calls : op[c] = "scale_up"}
  <2>1. /\ at' = [c \in Calls |-> IF c \in scaling THEN "idle" ELSE at[c]]
        /\ op' = [c \in Calls |-> IF c \in scaling THEN "none" ELSE op[c]]
        /\ awaiting' = IF lockHolder \in scaling THEN {} ELSE awaiting
        /\ UNCHANGED <<poolWorkers, version, published, failed>>
    BY <1>1 DEF CancelScaling, engineVars
  <2>2. ASSUME NEW c \in Calls, at'[c] = "remote"
        PROVE  c \notin scaling /\ at[c] = "remote" /\ op'[c] = op[c] /\ lockHolder = c
    BY <1>0, <2>1, <2>2 DEF PoolInv, LockHeld, Holding
  <2> QED
    BY <1>0, <2>1, <2>2, StillSynced
<1>2. CASE StopScheduler
  BY <1>0, <1>2, StillSynced DEF StopScheduler, callVars, engineVars
<1>3. CASE ForgetWorkers
  BY <1>3 DEF ForgetWorkers, SyncedSoFar
<1> QED
  BY <1>1, <1>2, <1>3

LEMMA VersionsTyped == SyncInv /\ [PoolNext]_allVars =>
                         version' \in [WorkerIds -> Nat] /\ published' \in Nat
PROOF
<1> SUFFICES ASSUME SyncInv, [PoolNext]_allVars
             PROVE  version' \in [WorkerIds -> Nat] /\ published' \in Nat
  OBVIOUS
<1>0. version \in [WorkerIds -> Nat] /\ published \in Nat
  BY DEF SyncInv
<1>1. CASE \E r \in Requests : generate(r) \/ RequestStep(r)
  BY <1>0, <1>1 DEF generate, RequestStep, poolVars, engineVars
<1>2. ASSUME NEW c \in Calls, CallStep(c)
      PROVE  version' \in [WorkerIds -> Nat] /\ published' \in Nat
  <2>1. CASE AcquireAndSkip(c) \/ AcquireAndAsk(c) \/ DrainReturns(c)
    BY <1>0, <2>1 DEF AcquireAndSkip, AcquireAndAsk, DrainReturns, AskOrRaise, AskWorkers
  <2>2. CASE WorkerBuilt(c)
    <3>1. PICK w : version' = [version EXCEPT ![w] = 0] /\ UNCHANGED published
      BY <2>2 DEF WorkerBuilt
    <3> QED
      BY <1>0, <3>1
  <2>3. CASE DropLast(c)
    BY <1>0, <2>3 DEF DropLast
  <2>4. CASE \/ AcquireAndPause(c) \/ AcquireAndScale(c) \/ AcquireTooLate(c) \/ FinishScale(c)
             \/ FinishSleep(c) \/ FinishWake(c) \/ FinishPlain(c) \/ FinishReset(c) \/ FinishSync(c)
             \/ RetireLast(c) \/ BuildWorker(c)
    <3>1. UNCHANGED engineVars
      BY <2>4 DEF AcquireAndPause, AcquireAndScale, AcquireTooLate, FinishScale, FinishSleep,
         FinishWake, FinishPlain, FinishReset, FinishSync, RetireLast, BuildWorker
    <3> QED
      BY <1>0, <3>1 DEF engineVars
  <2> QED
    BY <1>2, <2>1, <2>2, <2>3, <2>4 DEF CallStep
<1>3. ASSUME NEW c \in Calls, WorkerStep(c)
      PROVE  version' \in [WorkerIds -> Nat] /\ published' \in Nat
  BY <1>0, <1>3 DEF WorkerStep, WorkerDone, WorkerRaises, engineVars
<1>4. ASSUME NEW c \in Calls, NEW o, NEW n, Enter(c, o, n)
      PROVE  version' \in [WorkerIds -> Nat] /\ published' \in Nat
  BY <1>0, <1>4 DEF Enter, engineVars
<1>5. CASE CancelScaling \/ ClosingStep \/ UNCHANGED allVars
  BY <1>0, <1>5 DEF CancelScaling, ClosingStep, StopScheduler, ForgetWorkers, allVars, poolVars,
     engineVars
<1> QED
  BY <1>1, <1>2, <1>3, <1>4, <1>5 DEF PoolNext

LEMMA SyncStep == SyncInv /\ [PoolNext]_allVars => SyncInv'
PROOF
<1> SUFFICES ASSUME SyncInv, [PoolNext]_allVars
             PROVE  SyncedSoFar'
  BY PoolStep, VersionsTyped DEF SyncInv
<1>0. SyncedSoFar
  BY DEF SyncInv
<1>1. CASE UNCHANGED poolVars
  BY <1>0, <1>1, StillSynced DEF poolVars, callVars, engineVars
<1>2. ASSUME NEW c \in Calls, CallStep(c) PROVE SyncedSoFar'
  BY <1>2, SyncCallSteps
<1>3. ASSUME NEW c \in Calls, WorkerStep(c) PROVE SyncedSoFar'
  BY <1>3, SyncAnswered, SyncOtherSteps DEF WorkerStep
<1>4. ASSUME NEW c \in Calls, NEW o \in PoolOps \ {"shutdown"}, NEW n \in Targets(o), Enter(c, o, n)
      PROVE  SyncedSoFar'
  BY <1>4, SyncOtherSteps
<1>5. CASE CancelScaling \/ ClosingStep
  BY <1>5, SyncCloses DEF ClosingStep
<1> QED
  BY <1>1, <1>2, <1>3, <1>4, <1>5 DEF PoolNext, generate, RequestStep, allVars

(***************************************************************************)
(* A weight sync that no worker failed returns with its version on every   *)
(* replica, for any workers, and any calls and scaling that overlap it.    *)
(***************************************************************************)
THEOREM SyncsReachAll == PoolSpec => SyncReachesAll
PROOF
<1> DEFINE Reached == \A c \in Calls :
             HasAnswers(c) /\ op[c] \in SyncOps /\ failed = {} /\ at'[c] = "idle" =>
               \A i \in DOMAIN poolWorkers : version[poolWorkers[i]] = published
<1>1. PoolInit => SyncInv
  <2>1. PoolInit => SyncedSoFar /\ version \in [WorkerIds -> Nat] /\ published \in Nat
    BY DEF PoolInit, SyncedSoFar
  <2> QED
    BY <2>1, PoolFirst DEF SyncInv
<1>2. SyncInv => Reached
  BY DEF SyncInv, SyncedSoFar, HasAnswers
<1> QED
  BY <1>1, <1>2, SyncStep, PTL DEF PoolSpec, SyncReachesAll

-----------------------------------------------------------------------------
(***************************************************************************)
(* The scheduler of a pool.  Seen from the scheduler, a step of the pool   *)
(* is a step of a request, a management call, or a skip strategy that      *)
(* marks all workers at once; so its books stay exact under the pool.      *)
(***************************************************************************)
ManagedByPool ==
  \/ UNCHANGED vars \/ pause \/ resume \/ reset_affinity
  \/ TakeAllOut \/ PutAllBack
  \/ \E i \in Positions : mark_worker(i, FALSE)
  \/ \E w \in WorkerIds, l \in Limits : add_worker(w, l)
  \/ remove_last_worker /\ \E c \in Calls : at[c] = "draining_worker"
  \/ shutdown /\ closing = "cancelled"

LEMMA CallsManage ==
  ASSUME PoolInv, NEW c \in Calls, CallStep(c)
  PROVE  ManagedByPool
<1>1. CASE AcquireAndPause(c) \/ AcquireAndSkip(c) \/ AcquireAndAsk(c) \/ AcquireAndScale(c)
           \/ AcquireTooLate(c) \/ DrainReturns(c)
  BY <1>1 DEF AcquireAndPause, AcquireAndSkip, AcquireAndAsk, AcquireAndScale, AcquireTooLate,
              DrainReturns, ManagedByPool
<1>2. CASE FinishSleep(c) \/ FinishWake(c) \/ FinishPlain(c) \/ FinishReset(c) \/ FinishSync(c)
           \/ FinishScale(c)
  BY <1>2 DEF FinishSleep, FinishWake, FinishPlain, FinishReset, FinishSync, FinishScale,
              ManagedByPool
<1>3. CASE RetireLast(c)
  <2>1. /\ mark_worker(Len(poolWorkers), FALSE) /\ poolWorkers = workers
        /\ Len(poolWorkers) > goal[c]
    BY <1>3 DEF RetireLast, PoolInv, ListsAgree
  <2>2. workers \in Seq(WorkerIds) /\ goal[c] \in Nat
    BY DEF PoolInv, PoolTyped
  <2>3. Len(workers) \in Positions
    BY <2>1, <2>2 DEF Positions
  <2> QED
    BY <2>1, <2>3 DEF ManagedByPool
<1>4. CASE DropLast(c)
  BY <1>4 DEF DropLast, ManagedByPool
<1>5. CASE BuildWorker(c)
  BY <1>5 DEF BuildWorker, ManagedByPool
<1>6. CASE WorkerBuilt(c)
  <2>1. PICK w \in awaiting, l \in Limits : add_worker(w, l)
    BY <1>6 DEF WorkerBuilt
  <2>2. w \in WorkerIds
    BY <2>1 DEF PoolInv, PoolTyped
  <2> QED
    BY <2>1, <2>2 DEF ManagedByPool
<1> QED
  BY <1>1, <1>2, <1>3, <1>4, <1>5, <1>6 DEF CallStep

LEMMA PoolManages ==
  ASSUME PoolInv, [PoolNext]_allVars
  PROVE  \/ \E r \in Requests : generate(r) \/ RequestStep(r)
         \/ ManagedByPool
<1>1. CASE UNCHANGED allVars
  BY <1>1 DEF allVars, ManagedByPool
<1>2. CASE \E c \in Calls : CallStep(c)
  BY <1>2, CallsManage
<1>3. CASE \E c \in Calls : WorkerStep(c)
  BY <1>3 DEF WorkerStep, WorkerDone, WorkerRaises, ManagedByPool
<1>4. CASE \E c \in Calls : \E o \in PoolOps \ {"shutdown"} : \E n \in Targets(o) : Enter(c, o, n)
  BY <1>4 DEF Enter, ManagedByPool
<1>5. CASE CancelScaling \/ ClosingStep
  BY <1>5 DEF CancelScaling, ClosingStep, StopScheduler, ForgetWorkers, ManagedByPool
<1> QED
  BY <1>1, <1>2, <1>3, <1>4, <1>5 DEF PoolNext

Books == Linked /\ SlotsAccounted

\* Marking all workers at once keeps the books, with their tasks cancelled or not.
LEMMA AllMarked ==
  ASSUME Books, TakeAllOut \/ PutAllBack
  PROVE  Books'
<1>0. WellTyped /\ TypeOK /\ pc \in [Requests -> TaskStates]
  BY DEF Books, Linked, WellTyped, TypeOK
<1>1. /\ UNCHANGED <<workers, created, limit, gateVars, groupVars, reqVars, metricVars, loadVars,
                     ws, tracked, future>>
      /\ pc' = pc \/ CancelTasks(Positions)
  BY DEF TakeAllOut, PutAllBack, taskVars
<1>2. available' \in [WorkerIds -> BOOLEAN]
  BY <1>0 DEF TakeAllOut, PutAllBack, TypeOK
<1>3. pc' \in [Requests -> TaskStates]
  BY <1>0, <1>1 DEF CancelTasks, TaskStates
<1>4. WellTyped'
  BY <1>0, <1>1, <1>2, <1>3 DEF WellTyped, TypeOK, gateVars, groupVars, reqVars, metricVars,
                                loadVars
<1>5. /\ \A r \in Requests : Running(r)' <=> Running(r)
      /\ \A r \in Requests : pc'[r] = "generating" => pc[r] = "generating"
  <2>1. CASE pc' = pc
    BY <2>1 DEF Running
  <2>2. CASE CancelTasks(Positions)
    BY <1>0, <2>2, CancelKeepsRunning
  <2> QED
    BY <1>1, <2>1, <2>2
<1>6. Linked' /\ \A w : Holders(w)' = Holders(w)
  BY <1>1, <1>4, <1>5, SameRunning DEF Books, loadVars
<1>7. SlotsAccounted'
  BY <1>1, <1>6, SlotsKept DEF Books, loadVars, Positions
<1> QED
  BY <1>6, <1>7 DEF Books

LEMMA PoolBooks ==
  ASSUME PoolInv, Books, [PoolNext]_allVars
  PROVE  Books'
<1>1. CASE \E r \in Requests : generate(r) \/ RequestStep(r)
  <2>1. Next
    BY <1>1 DEF generate, RequestStep, Next
  <2> QED
    BY <2>1, NextLinked, NextSlots DEF Books
<1>2. CASE TakeAllOut \/ PutAllBack
  BY <1>2, AllMarked
<1>3. CASE ManagedByPool /\ ~TakeAllOut /\ ~PutAllBack
  <2>1. [Next]_vars
    BY <1>3 DEF ManagedByPool, Next, Manage
  <2> QED
    BY <2>1, NextLinked, NextSlots DEF Books
<1> QED
  BY <1>1, <1>2, <1>3, PoolManages

(***************************************************************************)
(* Under every interleaving of calls, scaling, failures and a shutdown of  *)
(* the pool: the in-flight set of a position is the set of tasks on its    *)
(* worker, no request waits for a worker that was removed, and no slot is  *)
(* counted that nobody holds (replica_pool.py drives scheduler.py).        *)
(***************************************************************************)
THEOREM PoolKeepsBooks == PoolSpec => [](InflightExact /\ NoOrphans /\ SlotsAccounted)
<1>1. PoolInit => PoolInv /\ Books
  BY PoolFirst, InitLinked, InitSlots DEF PoolInit, Books
<1>2. PoolInv /\ Books /\ [PoolNext]_allVars => (PoolInv /\ Books)'
  BY PoolStep, PoolBooks
<1>3. Books => InflightExact /\ NoOrphans /\ SlotsAccounted
  BY DEF Books, Linked
<1> QED
  BY <1>1, <1>2, <1>3, PTL DEF PoolSpec

-----------------------------------------------------------------------------
(***************************************************************************)
(* What a drain leaves.  A task that was sent to a worker is counted there *)
(* until it ends, so when drain() returns nothing runs; and the gate stays *)
(* shut until the call that drained ends.  Both need the worker to stay in *)
(* the list and the scheduler to run: drain() looks at the list alone, and *)
(* a removed worker leaves cancelled tasks there that it does not see, as  *)
(* stopping gives back slots that were not taken (scheduler.py:295).       *)
(***************************************************************************)
KeepsWorkers == PoolOps \cap {"scale_down", "shutdown"} = {}

PoolOpen == up /\ closing = "no" /\ \A c \in Calls : at[c] # "draining_worker"

\* Every task on a worker is on a worker of the list, every pin is in the list,
\* and no slot was given back that had not been taken.
AllHere ==
  /\ ~stopped /\ misreleased = {} /\ workers # <<>>
  /\ \A k \in Keys : groupWorker[k] # 0 => groupWorker[k] \in Positions
  /\ \A r \in Requests : Running(r) => ws[r] \in Elements(workers)

Underway(r) == pc[r] = "queued" \/ Running(r)

PausedHeld == \A c \in Calls : Pausing(c) => paused

Drained == Quiet => \A r \in Requests : Underway(r) => r \in backlog

QuietInv == PoolInv /\ Books /\ PoolOpen /\ AllHere /\ PausedHeld /\ Drained

LEMMA PinsStayHere ==
  ASSUME AllHere, TypeOK, NEW r \in Requests, NEW i \in Positions, RememberGroup(r, i)
  PROVE  \A k \in Keys : groupWorker'[k] # 0 => groupWorker'[k] \in Positions
<1>1. groupWorker \in [Keys -> Nat]
  BY DEF TypeOK
<1>2. UNCHANGED groupWorker \/ groupWorker' = [groupWorker EXCEPT ![key[r]] = i]
  BY DEF RememberGroup, groupVars
<1> QED
  BY <1>1, <1>2 DEF AllHere

\* A task moves: it is routed to a worker of the list, or it ends.
LEMMA TasksMoveHere ==
  ASSUME Books, AllHere, NEW r \in Requests, generate(r) \/ RequestStep(r)
  PROVE  /\ AllHere'
         /\ RequestStep(r) => \A q \in Requests : Underway(q)' => Underway(q)
<1>1. TypeOK
  BY DEF Books, Linked, WellTyped
<1>2. pc \in [Requests -> TaskStates] /\ ws \in [Requests -> WorkerIds \cup {NoWorker}]
      /\ key \in [Requests -> Keys \cup {NoKey}]
  BY <1>1 DEF TypeOK
<1>3. ~RouteRaises(r)
  BY <1>2 DEF AllHere, RouteRaises, Grouped, PinOf
<1>4. ASSUME NEW k, NEW b, submit(r, k, b) PROVE AllHere'
  <2>1. /\ pc' = [pc EXCEPT ![r] = "queued"] /\ pc[r] = "new"
        /\ UNCHANGED <<stopped, misreleased, workers, groupWorker, ws>>
    BY <1>4 DEF submit, workerVars, gateVars, groupVars, loadVars
  <2> QED
    BY <1>2, <2>1 DEF AllHere, Running, Positions, Elements
<1>5. CASE Dispatch(r)
  <2>1. PICK i \in Positions : ws' = [ws EXCEPT ![r] = workers[i]] /\ RememberGroup(r, i)
    BY <1>5 DEF Dispatch
  <2>2. /\ pc' = [pc EXCEPT ![r] = "generating"] /\ pc[r] = "queued"
        /\ UNCHANGED <<stopped, misreleased, workers>>
    BY <1>5 DEF Dispatch, workerVars, gateVars
  <2>3. \A k \in Keys : groupWorker'[k] # 0 => groupWorker'[k] \in Positions
    BY <1>1, <2>1, PinsStayHere
  <2>4. \A q \in Requests : Running(q)' => ws'[q] \in Elements(workers)
    BY <1>2, <2>1, <2>2 DEF AllHere, Running, Elements, Positions
  <2>5. \A q \in Requests : Underway(q)' => Underway(q)
    BY <1>2, <2>2 DEF Underway, Running
  <2> QED
    BY <2>2, <2>3, <2>4, <2>5 DEF AllHere, Positions, Elements
<1>6. CASE Backoff(r)
  <2>1. PICK i \in Positions : ws' = [ws EXCEPT ![r] = workers[i]] /\ RememberGroup(r, i)
    BY <1>6 DEF Backoff
  <2>2. pc[r] = "queued" /\ UNCHANGED <<pc, stopped, misreleased, workers>>
    BY <1>6 DEF Backoff, workerVars, gateVars, loadVars
  <2>3. \A k \in Keys : groupWorker'[k] # 0 => groupWorker'[k] \in Positions
    BY <1>1, <2>1, PinsStayHere
  <2>4. \A q \in Requests : Running(q)' => ws'[q] \in Elements(workers)
    BY <1>2, <2>1, <2>2 DEF AllHere, Running
  <2>5. \A q \in Requests : Underway(q)' => Underway(q)
    BY <2>2 DEF Underway, Running
  <2> QED
    BY <2>2, <2>3, <2>4, <2>5 DEF AllHere, Positions, Elements
<1>7. ASSUME NEW o, EndDispatched(r, o), pc[r] \in {"generating", "cancelling"}
      PROVE  AllHere' /\ \A q \in Requests : Underway(q)' => Underway(q)
  <2>1. /\ pc' = [pc EXCEPT ![r] = "done"] /\ ws' = [ws EXCEPT ![r] = NoWorker]
        /\ UNCHANGED <<stopped, misreleased, workers, groupWorker>>
    BY <1>7 DEF EndDispatched, EndTask, workerVars, gateVars, groupVars
  <2> QED
    BY <1>2, <2>1 DEF AllHere, Underway, Running, Positions, Elements
<1>8. CASE RequestStep(r)
  <2>1. Dispatch(r) \/ Backoff(r) \/ Cancelled(r) \/ Complete(r) \/ Fail(r)
    BY <1>3, <1>8 DEF RequestStep, TaskStep, Answer, RouteError, StopQueued, AllHere
  <2> QED
    BY <1>5, <1>6, <1>7, <2>1 DEF Cancelled, Complete, Fail
<1>9. CASE generate(r)
  <2>1. \E k \in Keys \cup {NoKey}, b \in BOOLEAN : submit(r, k, b)
    BY <1>9 DEF generate, Submit
  <2>2. ~RequestStep(r)
    BY <2>1, <1>2 DEF submit, RequestStep, TaskStep, Answer, Dispatch, Backoff, RouteError,
                      StopQueued, Cancelled, Complete, Fail
  <2> QED
    BY <1>4, <2>1, <2>2
<1> QED
  BY <1>8, <1>9

\* The pool's own steps start no task.
LEMMA NothingStarts ==
  ASSUME PoolInv, Books, PoolOpen, AllHere, ManagedByPool
  PROVE  AllHere' /\ \A q \in Requests : Underway(q)' => Underway(q)
<1>1. TypeOK
  BY DEF Books, Linked, WellTyped
<1>2. pc \in [Requests -> TaskStates] /\ workers \in Seq(WorkerIds)
  BY <1>1 DEF TypeOK
<1>3. CASE UNCHANGED vars \/ pause \/ resume \/ PutAllBack \/ \E i \in Positions : mark_worker(i, FALSE)
  <2>1. UNCHANGED <<pc, ws, stopped, misreleased, workers, groupWorker>>
    BY <1>3 DEF vars, workerVars, gateVars, groupVars, taskVars, loadVars, pause, resume,
                PutAllBack, mark_worker
  <2> QED
    BY <2>1 DEF AllHere, Underway, Running, Positions, Elements
<1>4. CASE reset_affinity
  <2>1. /\ groupWorker' = [k \in Keys |-> 0]
        /\ UNCHANGED <<pc, ws, stopped, misreleased, workers>>
    BY <1>4 DEF reset_affinity, workerVars, gateVars, taskVars, loadVars
  <2> QED
    BY <2>1 DEF AllHere, Underway, Running, Positions, Elements
<1>5. CASE TakeAllOut
  <2>1. /\ CancelTasks(Positions)
        /\ UNCHANGED <<ws, stopped, misreleased, workers, groupWorker>>
    BY <1>5 DEF TakeAllOut, gateVars, groupVars, loadVars
  <2>2. \A q \in Requests : (Running(q)' <=> Running(q))
    BY <1>2, <2>1, CancelKeepsRunning
  <2>3. \A q \in Requests : pc'[q] = "queued" => pc[q] = "queued"
    BY <2>1 DEF CancelTasks
  <2> QED
    BY <2>1, <2>2, <2>3 DEF AllHere, Underway, Positions, Elements
<1>6. CASE \E w \in WorkerIds, l \in Limits : add_worker(w, l)
  <2>1. PICK w \in WorkerIds : /\ workers' = Append(workers, w)
                               /\ UNCHANGED <<pc, ws, stopped, misreleased, groupWorker>>
    BY <1>6 DEF add_worker, gateVars, groupVars, taskVars
  <2>2. /\ \A i \in DOMAIN workers : i \in DOMAIN workers' /\ workers'[i] = workers[i]
        /\ workers' # <<>>
    BY <1>2, <2>1
  <2>3. Elements(workers) \subseteq Elements(workers') /\ Positions \subseteq Positions'
    BY <2>2 DEF Elements, Positions
  <2> QED
    BY <2>1, <2>2, <2>3 DEF AllHere, Underway, Running
<1> QED
  BY <1>3, <1>4, <1>5, <1>6 DEF ManagedByPool, PoolOpen

\* With every slot given back, nobody runs.
LEMMA NobodyRuns ==
  ASSUME Books, AllHere, \A i \in Positions : active[workers[i]] = 0,
         NEW r \in Requests
  PROVE  ~Running(r)
<1> SUFFICES ASSUME Running(r) PROVE FALSE
  OBVIOUS
<1>1. PICK i \in Positions : ws[r] = workers[i]
  BY DEF AllHere, Elements, Positions
<1>2. Cardinality(Holders(workers[i])) = 0
  BY DEF Books, SlotsAccounted, AllHere
<1>3. Holders(workers[i]) = {}
  BY <1>2, HoldersFinite, FS_EmptySet
<1> QED
  BY <1>1, <1>3 DEF Holders

\* A call that moves has the lock or takes it, and leaves the others where they are.
LEMMA OneMoves ==
  ASSUME PoolInv, NEW c \in Calls, CallStep(c)
  PROVE  /\ \A d \in Calls : d # c => at[d] \notin Holding /\ at'[d] = at[d]
         /\ at' \in [Calls -> {"idle", "locking"} \cup Holding]
<1>1. at \in [Calls -> {"idle", "locking"} \cup Holding] /\ PoolInv'
  <2>1. PoolNext
    BY DEF PoolNext
  <2> QED
    BY <2>1, PoolStep DEF PoolInv, PoolTyped
<1>2. at' \in [Calls -> {"idle", "locking"} \cup Holding]
  BY <1>1 DEF PoolInv, PoolTyped
<1>3. CASE AcquireAndPause(c) \/ AcquireAndSkip(c) \/ AcquireAndAsk(c) \/ AcquireAndScale(c)
           \/ AcquireTooLate(c)
  <2>1. lockHolder = NoCall
    BY <1>3 DEF AcquireAndPause, AcquireAndSkip, AcquireAndAsk, AcquireAndScale, AcquireTooLate,
                HasTurn
  <2>2. \E x : at' = [at EXCEPT ![c] = x]
    BY <1>3 DEF AcquireAndPause, AcquireAndSkip, AcquireAndAsk, AcquireAndScale, AcquireTooLate,
                AskOrRaise, AskWorkers, Leave
  <2> QED
    BY <1>1, <1>2, <2>1, <2>2, Nobody
<1>4. CASE DrainReturns(c) \/ FinishSleep(c) \/ FinishWake(c) \/ FinishPlain(c) \/ FinishReset(c)
           \/ FinishSync(c) \/ RetireLast(c) \/ DropLast(c) \/ BuildWorker(c) \/ WorkerBuilt(c)
           \/ FinishScale(c)
  <2>1. at[c] \in Holding
    BY <1>4 DEF DrainReturns, FinishSleep, FinishWake, FinishPlain, FinishReset, FinishSync,
                RetireLast, DropLast, BuildWorker, WorkerBuilt, FinishScale, HasAnswers, Holding
  <2>2. \E x : at' = [at EXCEPT ![c] = x]
    BY <1>4 DEF DrainReturns, FinishSleep, FinishWake, FinishPlain, FinishReset, FinishSync,
                RetireLast, DropLast, BuildWorker, WorkerBuilt, FinishScale, AskOrRaise,
                AskWorkers, Leave
  <2> QED
    BY <1>1, <1>2, <2>1, <2>2, Alone
<1> QED
  BY <1>3, <1>4 DEF CallStep

\* How a call comes to be draining or asking the workers.
LEMMA ComesToAsk ==
  ASSUME PoolInv, NEW c \in Calls, CallStep(c), at'[c] \in {"draining", "remote"},
         op'[c] \in DrainOps
  PROVE  \/ AcquireAndPause(c) /\ at'[c] = "draining"
         \/ DrainReturns(c) /\ AskWorkers(c)
<1>0. at \in [Calls -> {"idle", "locking"} \cup Holding] /\ op \in [Calls -> PoolOps \cup {"none"}]
  BY DEF PoolInv, PoolTyped
<1>1. ~Leave(c)
  BY <1>0 DEF Leave
<1>2. CASE AcquireAndSkip(c) \/ AcquireAndAsk(c)
  <2>1. op'[c] = op[c] /\ op[c] \in SkipOps \cup WakeOps \cup {"sync_hotswap", "ipc_hotswap", "reset"}
    BY <1>1, <1>2 DEF AcquireAndSkip, AcquireAndAsk, AskOrRaise
  <2> QED
    BY <2>1 DEF SkipOps, WakeOps, DrainOps
<1>3. CASE AcquireAndScale(c) \/ RetireLast(c) \/ DropLast(c) \/ BuildWorker(c) \/ WorkerBuilt(c)
  BY <1>0, <1>3 DEF AcquireAndScale, RetireLast, DropLast, BuildWorker, WorkerBuilt
<1>4. CASE AcquireAndPause(c)
  BY <1>0, <1>4 DEF AcquireAndPause
<1>5. CASE DrainReturns(c)
  BY <1>1, <1>5 DEF DrainReturns, AskOrRaise
<1> QED
  BY <1>1, <1>2, <1>3, <1>4, <1>5 DEF CallStep, AcquireTooLate, FinishSleep, FinishWake,
     FinishPlain, FinishReset, FinishSync, FinishScale

LEMMA QuietAfterCall ==
  ASSUME QuietInv, NEW c \in Calls, CallStep(c)
  PROVE  PausedHeld' /\ Drained'
<1>0. PoolInv /\ Books /\ AllHere /\ PausedHeld
  BY DEF QuietInv
<1>1. \A d \in Calls : d # c => at'[d] \notin Holding
  BY <1>0, OneMoves
<1>2. PausedHeld'
  <2>1. SUFFICES ASSUME NEW d \in Calls, Pausing(d)' PROVE paused'
    BY DEF PausedHeld
  <2>2. d = c /\ at'[c] \in {"draining", "remote"} /\ op'[c] \in DrainOps
    BY <1>1, <2>1 DEF Pausing, Holding
  <2>3. CASE AcquireAndPause(c)
    BY <2>3 DEF AcquireAndPause, pause
  <2>4. CASE DrainReturns(c)
    <3>1. at[c] = "draining" /\ UNCHANGED paused
      BY <2>4 DEF DrainReturns, vars, gateVars
    <3>2. op[c] \in DrainOps
      BY <1>0, <3>1 DEF PoolInv, Purposes
    <3> QED
      BY <1>0, <3>1, <3>2 DEF PausedHeld, Pausing
  <2> QED
    BY <1>0, <2>2, <2>3, <2>4, ComesToAsk
<1>3. Drained'
  <2>1. SUFFICES ASSUME Quiet', NEW r \in Requests, Underway(r)' PROVE r \in backlog'
    BY DEF Drained
  <2>2. at'[c] = "remote" /\ op'[c] \in DrainOps
    BY <1>1, <2>1 DEF Quiet, Holding
  <2>3. DrainReturns(c) /\ AskWorkers(c)
    BY <1>0, <2>2, ComesToAsk
  <2>4. ~Running(r)
    BY <1>0, <2>3, NobodyRuns DEF DrainReturns
  <2>5. UNCHANGED pc
    BY <2>3 DEF DrainReturns, vars, taskVars
  <2> QED
    BY <2>1, <2>3, <2>4, <2>5 DEF AskWorkers, Underway, Running
<1> QED
  BY <1>2, <1>3

LEMMA StillQuiet ==
  ASSUME QuietInv, UNCHANGED <<paused, backlog>>,
         \A c \in Calls : at'[c] \in {"draining", "remote"} => at'[c] = at[c] /\ op'[c] = op[c],
         Quiet => \A r \in Requests : Underway(r)' => Underway(r)
  PROVE  PausedHeld' /\ Drained'
<1>1. Quiet' => Quiet
  BY DEF Quiet
<1>2. PausedHeld'
  BY DEF QuietInv, PausedHeld, Pausing
<1> QED
  BY <1>1, <1>2 DEF QuietInv, Drained

LEMMA QuietStep ==
  ASSUME KeepsWorkers, QuietInv, [PoolNext]_allVars
  PROVE  QuietInv'
<1>0. PoolInv /\ Books /\ PoolOpen /\ AllHere /\ PausedHeld /\ Drained
  BY DEF QuietInv
<1>1. PoolInv' /\ Books'
  BY <1>0, PoolStep, PoolBooks
<1>2. at \in [Calls -> {"idle", "locking"} \cup Holding] /\ op \in [Calls -> PoolOps \cup {"none"}]
  BY <1>0 DEF PoolInv, PoolTyped
<1>3. CASE UNCHANGED allVars
  <2>1. UNCHANGED <<vars, at, op, up, closing, backlog, paused, pc>>
    BY <1>3 DEF allVars, poolVars, callVars, vars, gateVars, taskVars
  <2>2. AllHere' /\ \A r \in Requests : Underway(r)' => Underway(r)
    BY <1>0, <2>1, NothingStarts DEF ManagedByPool
  <2>3. PausedHeld' /\ Drained'
    BY <2>1, <2>2, StillQuiet
  <2> QED
    BY <1>0, <1>1, <2>1, <2>2, <2>3 DEF QuietInv, PoolOpen
<1>4. ASSUME NEW r \in Requests, generate(r) \/ RequestStep(r)
      PROVE  QuietInv'
  <2>1. UNCHANGED <<at, op, up, closing, backlog>>
    BY <1>4 DEF generate, RequestStep, poolVars, callVars
  <2>2. UNCHANGED paused
    <3>1. CASE generate(r)
      BY <3>1 DEF generate, Submit, submit, gateVars
    <3>2. CASE RequestStep(r)
      BY <3>2 DEF RequestStep, TaskStep, Answer, Dispatch, Backoff, RouteError, StopQueued,
                  EndUndispatched, Cancelled, Complete, Fail, EndDispatched, gateVars
    <3> QED
      BY <1>4, <3>1, <3>2
  <2>3. AllHere' /\ (RequestStep(r) => \A q \in Requests : Underway(q)' => Underway(q))
    BY <1>0, <1>4, TasksMoveHere
  <2>4. Quiet => ~generate(r)
    <3>1. Quiet => paused
      BY <1>0 DEF Quiet, PausedHeld, Pausing
    <3> QED
      BY <3>1 DEF generate, Submit, submit
  <2>5. PausedHeld' /\ Drained'
    BY <1>4, <2>1, <2>2, <2>3, <2>4, StillQuiet
  <2> QED
    BY <1>0, <1>1, <2>1, <2>3, <2>5 DEF QuietInv, PoolOpen
<1>5. ASSUME NEW c \in Calls, CallStep(c)
      PROVE  QuietInv'
  <2>1. PausedHeld' /\ Drained'
    BY <1>5, QuietAfterCall
  <2>2. AllHere'
    BY <1>0, <1>5, CallsManage, NothingStarts
  <2>3. UNCHANGED <<up, closing>>
    BY <1>5 DEF CallStep, AcquireAndPause, AcquireAndSkip, AcquireAndAsk, AcquireAndScale,
       AcquireTooLate, DrainReturns, FinishSleep, FinishWake, FinishPlain, FinishReset, FinishSync,
       RetireLast, DropLast, BuildWorker, WorkerBuilt, FinishScale
  <2>4. at'[c] # "draining_worker"
    <3>1. ~RetireLast(c)
      BY <1>2 DEF RetireLast, KeepsWorkers
    <3> QED
      BY <1>2, <1>5, <3>1 DEF CallStep, AcquireAndPause, AcquireAndSkip, AcquireAndAsk,
         AcquireAndScale, AcquireTooLate, DrainReturns, FinishSleep, FinishWake, FinishPlain,
         FinishReset, FinishSync, DropLast, BuildWorker, WorkerBuilt, FinishScale, AskOrRaise,
         AskWorkers, Leave
  <2>5. PoolOpen'
    BY <1>0, <1>5, <2>3, <2>4, OneMoves DEF PoolOpen
  <2> QED
    BY <1>1, <2>1, <2>2, <2>5 DEF QuietInv
<1>6. ASSUME NEW c \in Calls,
             WorkerStep(c) \/ \E o \in PoolOps \ {"shutdown"} : \E n \in Targets(o) : Enter(c, o, n)
      PROVE  QuietInv'
  <2>1. UNCHANGED <<vars, up, closing, backlog>>
    BY <1>6 DEF WorkerStep, WorkerDone, WorkerRaises, Enter
  <2>2. \A d \in Calls : at'[d] # "locking" => at'[d] = at[d] /\ op'[d] = op[d]
    <3>1. CASE WorkerStep(c)
      BY <3>1 DEF WorkerStep, WorkerDone, WorkerRaises, callVars
    <3>2. CASE \E o \in PoolOps \ {"shutdown"} : \E n \in Targets(o) : Enter(c, o, n)
      <4>1. PICK o : at' = [at EXCEPT ![c] = "locking"] /\ op' = [op EXCEPT ![c] = o]
        BY <3>2 DEF Enter
      <4> QED
        BY <1>2, <4>1
    <3> QED
      BY <1>6, <3>1, <3>2
  <2>3. AllHere' /\ \A r \in Requests : Underway(r)' => Underway(r)
    BY <1>0, <2>1, NothingStarts DEF ManagedByPool
  <2>4. PausedHeld' /\ Drained'
    BY <2>1, <2>2, <2>3, StillQuiet DEF vars, gateVars
  <2> QED
    BY <1>0, <1>1, <2>1, <2>2, <2>3, <2>4 DEF QuietInv, PoolOpen
<1>7. ~CancelScaling /\ ~ClosingStep
  BY <1>0 DEF CancelScaling, ClosingStep, StopScheduler, ForgetWorkers, PoolOpen, KeepsWorkers
<1> QED
  BY <1>3, <1>4, <1>5, <1>6, <1>7 DEF PoolNext

(***************************************************************************)
(* From the return of drain() to the end of the sleep or weight sync that  *)
(* waited for it, no request runs that was not queued before: for any      *)
(* overlap of sleeps, wake-ups, syncs, scale-ups and resets, with workers  *)
(* that fail, as long as no worker is removed and the pool is not shut     *)
(* down (scheduler.py:295).                                                *)
(***************************************************************************)
THEOREM DrainsAreQuiet ==
  ASSUME KeepsWorkers
  PROVE  PoolSpec => []OnlyBacklogRuns
<1>1. PoolInit => QuietInv
  <2> SUFFICES ASSUME PoolInit PROVE QuietInv
    OBVIOUS
  <2>1. PoolInv /\ Books
    BY PoolFirst, InitLinked, InitSlots DEF PoolInit, Books
  <2>2. AllHere
    BY InitialWorkersDistinct DEF PoolInit, Init, AllHere, Running
  <2>3. PoolOpen /\ PausedHeld /\ Drained
    BY DEF PoolInit, PoolOpen, PausedHeld, Pausing, Drained, Quiet
  <2> QED
    BY <2>1, <2>2, <2>3 DEF QuietInv
<1>2. QuietInv => OnlyBacklogRuns
  BY DEF QuietInv, Drained, Underway, OnlyBacklogRuns
<1>3. QuietInv /\ [PoolNext]_allVars => QuietInv'
  BY QuietStep
<1> QED
  BY <1>1, <1>2, <1>3, PTL DEF PoolSpec

=============================================================================
