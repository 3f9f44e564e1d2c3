-------------------------- MODULE SpeculationProofs --------------------------
(***************************************************************************)
(* Theorems about speculative decoding, for any requests, lengths, modes   *)
(* of the engine and sizes of the suffix cache, whatever is accepted and   *)
(* however the scheduler batches: the places reserved for tokens are those *)
(* of the batches in flight, and the copies of a response agree.           *)
(***************************************************************************)
EXTENDS Speculation, VocabShards, Int32Map, ProofLemmas, SequenceTheorems

\* Numbers for some of the requests.
Counts == UNION {[S -> Nat] : S \in SUBSET Requests}

RequestType == [st : {"prefill", "decode", "done"}, out : Nat, spec : Nat,
                holders : Int, drafted : Nat \cup {Nil}]

BatchType == [reqs : SUBSET Requests, pre : SUBSET Requests, spec : Counts,
              out : Counts \cup {Nil}, drafts : Counts \cup {Nil}]

\* A batch has places for the requests that decode in it, an output for all, which
\* is empty for those whose prompt goes on, and drafts for all.
BatchExact(b) ==
  /\ b.pre \subseteq b.reqs /\ DOMAIN b.spec = b.reqs \ b.pre
  /\ b.out # Nil => /\ DOMAIN b.out = b.reqs
                    /\ \A r \in b.reqs : b.out[r] = 0 <=> r \in b.pre
  /\ b.drafts # Nil => DOMAIN b.drafts = b.reqs

SpecTyped ==
  /\ mode \in Modes
  /\ req \in [Requests -> RequestType]
  /\ flight \in Seq(BatchType)
  /\ \A i \in DOMAIN flight : BatchExact(flight[i])
  /\ gen \in [Requests -> Nat]
  /\ rows \in Counts

Counted(r) == IsFiniteSet(Places(r)) /\
              (mode.async /\ req[r].st # "done" => req[r].holders = Cardinality(Places(r)))

PlacesInv == SpecTyped /\ \A r \in Requests : Counted(r)

-----------------------------------------------------------------------------
(* Numbers. *)

LEMMA MaxOfTwo ==
  ASSUME NEW a \in Int, NEW b \in Int
  PROVE  Max({a, b}) \in {a, b} /\ Max({a, b}) >= a /\ Max({a, b}) >= b
<1>1. \E x \in {a, b} : \A y \in {a, b} : x >= y
  OBVIOUS
<1>2. Max({a, b}) \in {a, b} /\ \A y \in {a, b} : Max({a, b}) >= y
  BY <1>1 DEF Max
<1> QED
  BY <1>2

LEMMA MinOfTwo ==
  ASSUME NEW a \in Int, NEW b \in Int
  PROVE  Min({a, b}) \in {a, b} /\ Min({a, b}) <= a /\ Min({a, b}) <= b
<1>1. \E x \in {a, b} : \A y \in {a, b} : x =< y
  OBVIOUS
<1>2. Min({a, b}) \in {a, b} /\ \A y \in {a, b} : Min({a, b}) =< y
  BY <1>1 DEF Min
<1> QED
  BY <1>2

LEMMA TypesOfTwo ==
  \A a, b \in Nat : Max({a, b}) \in Nat /\ Min({a, b}) \in Nat
<1> TAKE a, b \in Nat
<1>1. a \in Int /\ b \in Int
  OBVIOUS
<1>2. Max({a, b}) \in {a, b} /\ Min({a, b}) \in {a, b}
  BY <1>1, MaxOfTwo, MinOfTwo
<1> QED
  BY <1>2

LEMMA CountsIn ==
  /\ \A c \in Counts : DOMAIN c \subseteq Requests /\ \A r \in DOMAIN c : c[r] \in Nat
  /\ \A S \in SUBSET Requests : \A c \in [S -> Nat] : c \in Counts
BY DEF Counts

\* The order of a batch has all its requests.
LEMMA OrderHasAll ==
  ASSUME NEW S \in SUBSET Requests, NEW ids \in SetToSeqs(S)
  PROVE  /\ ids \in [1 .. Cardinality(S) -> S] /\ Cardinality(S) \in Nat
         /\ ids \in Seq(S) /\ Len(ids) = Cardinality(S)
         /\ \A i, j \in DOMAIN ids : ids[i] = ids[j] => i = j
         /\ ToSet(ids) = S
<1> DEFINE D == 1 .. Cardinality(S)
<1>1. IsFiniteSet(S) /\ Cardinality(S) \in Nat
  BY SpecConstants, FS_Subset, FS_CardinalityType
<1>2. ids \in [D -> S] /\ \A i, j \in D : i # j => ids[i] # ids[j]
  BY DEF SetToSeqs
<1>3. IsFiniteSet(D) /\ Cardinality(D) = Cardinality(S)
  BY <1>1, FS_Interval
<1>4. ids \in Injection(D, S)
  BY <1>2 DEF Injection, IsInjective
<1>5. ids \in Surjection(D, S)
  BY <1>1, <1>3, <1>4, FS_Injection
<1>6. \A r \in S : \E i \in D : ids[i] = r
  BY <1>5 DEF Surjection
<1> QED
  BY <1>1, <1>2, <1>6 DEF ToSet

-----------------------------------------------------------------------------
(* Types. *)

LEMMA AfterScheduleTyped ==
  ASSUME NEW q \in RequestType, NEW place
  PROVE  /\ AfterSchedule(q, place) \in RequestType
         /\ AfterSchedule(q, place).st = "decode"
         /\ mode.async => AfterSchedule(q, place).holders = q.holders + 1 + q.spec
<1>1. NumSpec \in Nat /\ 1 \in Nat /\ q.drafted \in Nat \cup {Nil}
  BY SpecConstants DEF RequestType
<1>2. q.drafted # Nil => Min({Max({q.drafted, 1}), NumSpec}) \in Nat
  BY <1>1, TypesOfTwo, Zenon
<1>3. PICK m : m = IF ~mode.async \/ place > SoftLimit THEN 0
                   ELSE IF q.drafted = Nil THEN NumSpec
                   ELSE Min({Max({q.drafted, 1}), NumSpec})
  OBVIOUS
<1>4. m \in Nat
  BY <1>1, <1>2, <1>3
<1>5. PICK h : h = IF mode.async THEN q.holders + 1 + q.spec ELSE q.holders
  OBVIOUS
<1>6. AfterSchedule(q, place) = [q EXCEPT !.st = "decode", !.holders = h, !.spec = m]
  BY <1>3, <1>5, Zenon DEF AfterSchedule
<1>7. h \in Int
  BY <1>5 DEF RequestType
<1> QED
  BY <1>4, <1>5, <1>6, <1>7 DEF RequestType

LEMMA InferredTyped ==
  ASSUME NEW q \in RequestType, NEW n \in Nat, NEW k \in Nat
  PROVE  Inferred(q, n, k) \in Nat \cup {Nil}
<1> DEFINE was  == IF q.drafted = Nil THEN 0 ELSE q.drafted
           grow == IF n - 1 >= k THEN Min({k * 2, NumSpec}) ELSE Min({n, NumSpec})
<1>1. was \in Nat /\ q.drafted \in Nat \cup {Nil}
  BY DEF RequestType
<1>2. NumSpec \in Nat /\ k * 2 \in Nat /\ n \in Nat
  BY SpecConstants
<1>3. Min({k * 2, NumSpec}) \in Nat /\ Min({n, NumSpec}) \in Nat
  BY <1>2, TypesOfTwo, Zenon
<1>4. grow \in Nat
  BY <1>3
<1> HIDE DEF was, grow
<1>5. Max({was, grow}) \in Nat
  BY <1>1, <1>4, TypesOfTwo, Zenon
<1>6. Inferred(q, n, k) = IF k = 0 THEN q.drafted
                          ELSE IF n > 1 THEN Max({was, grow})
                          ELSE IF q.drafted = Nil THEN 1 ELSE q.drafted
  BY Zenon DEF Inferred, was, grow
<1> QED
  BY <1>1, <1>5, <1>6

LEMMA ReceivedTyped ==
  ASSUME NEW q \in RequestType, NEW n \in Nat, NEW k \in Nat, NEW report \in Nat \cup {Nil}
  PROVE  /\ Received(q, n, k, report) \in RequestType
         /\ n = 0 => Received(q, n, k, report) = q
         /\ q.st = "done" => Received(q, n, k, report) = q
         /\ mode.async /\ n # 0 /\ q.st # "done" =>
              Received(q, n, k, report).holders = q.holders - (k + 1)
<1>1. CASE q.st = "done" \/ n = 0
  BY <1>1 DEF Received
<1>2. CASE ~(q.st = "done" \/ n = 0)
  <2>1. q.out + n \in Nat /\ MaxOut \in Nat /\ q.drafted \in Nat \cup {Nil} /\ q.holders \in Int
    BY SpecConstants DEF RequestType
  <2>2. PICK m : m = Min({q.out + n, MaxOut})
    OBVIOUS
  <2>3. m \in Nat
    BY <2>1, <2>2, TypesOfTwo, Zenon
  <2>4. PICK d : d = IF ~mode.async THEN q.drafted
                     ELSE IF report # Nil THEN report ELSE Inferred(q, n, k)
    OBVIOUS
  <2>5. d \in Nat \cup {Nil}
    BY <2>1, <2>4, InferredTyped
  <2>6. PICK h : h = IF mode.async THEN q.holders - ((k - (n - 1)) + n) ELSE q.holders
    OBVIOUS
  <2>7. h \in Int /\ (mode.async => h = q.holders - (k + 1))
    BY <2>1, <2>6
  <2>8. PICK s : s = IF mode.async THEN q.spec ELSE 0
    OBVIOUS
  <2>9. s \in Nat
    BY <2>8 DEF RequestType
  <2>10. PICK t : t = IF m = MaxOut THEN "done" ELSE "decode"
    OBVIOUS
  <2>11. Received(q, n, k, report) =
           [q EXCEPT !.out = m, !.st = t, !.holders = h, !.drafted = d, !.spec = s]
    BY <1>2, <2>2, <2>4, <2>6, <2>8, <2>10, Zenon DEF Received
  <2>12. t \in {"prefill", "decode", "done"}
    BY <2>10
  <2> QED
    BY <1>2, <2>3, <2>5, <2>7, <2>9, <2>11, <2>12 DEF RequestType
<1> QED
  BY <1>1, <1>2

LEMMA PostStepTyped ==
  ASSUME NEW q \in RequestType, NEW r, NEW running, rows \in Counts
  PROVE  /\ PostStep(q, r, running) \in RequestType
         /\ PostStep(q, r, running).st = q.st
         /\ mode.async => PostStep(q, r, running) = q
<1>1. r \in DOMAIN rows => rows[r] \in Nat
  BY CountsIn
<1> QED
  BY <1>1 DEF PostStep, RequestType

LEMMA InitTyped == Init => SpecTyped
<1> SUFFICES ASSUME Init PROVE SpecTyped
  OBVIOUS
<1>1. req \in [Requests -> RequestType] /\ gen \in [Requests -> Nat]
  BY DEF Init, RequestType
<1>2. flight \in Seq(BatchType) /\ DOMAIN flight = {}
  BY DEF Init
<1>3. rows \in Counts
  <2>1. rows \in [{} -> Nat]
    BY DEF Init
  <2> QED
    BY <2>1, CountsIn
<1> QED
  BY <1>1, <1>2, <1>3 DEF Init, SpecTyped

NewBatch(S, pre) ==
  [reqs |-> S, pre |-> pre, spec |-> [r \in S \ pre |-> req[r].spec], out |-> Nil, drafts |-> Nil]

LEMMA ScheduleTyped ==
  ASSUME SpecTyped, NEW S \in SUBSET Requests, NEW pre \in SUBSET S, Schedule(S, pre)
  PROVE  /\ SpecTyped'
         /\ flight' = Append(flight, NewBatch(S, pre)) /\ NewBatch(S, pre) \in BatchType
         /\ \A r \in S \ pre : mode.async => req'[r].holders = req[r].holders + 1 + req[r].spec
         /\ \A r \in S : req[r].st # "done"
         /\ \A r \in Requests \ (S \ pre) : req'[r] = req[r]
<1>1. /\ mode \in Modes /\ req \in [Requests -> RequestType] /\ flight \in Seq(BatchType)
      /\ \A i \in DOMAIN flight : BatchExact(flight[i])
      /\ gen \in [Requests -> Nat] /\ rows \in Counts
  BY DEF SpecTyped
<1>2. /\ flight' = Append(flight, NewBatch(S, pre))
      /\ mode' = mode /\ gen' = gen /\ rows' = rows
  BY DEF Schedule, NewBatch
<1>3. PICK place : req' = [r \in Requests |-> IF r \in S \ pre THEN AfterSchedule(req[r], place[r])
                                              ELSE req[r]]
  <2> DEFINE place == [r \in Requests |-> Cardinality({x \in S \ pre : x <= r})]
  <2>1. req' = [r \in Requests |-> IF r \in S \ pre THEN AfterSchedule(req[r], place[r])
                                   ELSE req[r]]
    BY DEF Schedule
  <2> HIDE DEF place
  <2> QED
    BY <2>1
<1>4. req' \in [Requests -> RequestType]
  BY <1>1, <1>3, AfterScheduleTyped
<1>5. NewBatch(S, pre) \in BatchType /\ BatchExact(NewBatch(S, pre))
  <2> DEFINE spec == [r \in S \ pre |-> req[r].spec]
  <2>1. spec \in [S \ pre -> Nat]
    BY <1>1 DEF RequestType
  <2>2. spec \in Counts
    BY <2>1, CountsIn
  <2> HIDE DEF spec
  <2>3. NewBatch(S, pre) =
          [reqs |-> S, pre |-> pre, spec |-> spec, out |-> Nil, drafts |-> Nil]
    BY DEF NewBatch, spec
  <2> QED
    BY <2>1, <2>2, <2>3 DEF BatchType, BatchExact
<1>6. /\ flight' \in Seq(BatchType)
      /\ \A i \in DOMAIN flight' : BatchExact(flight'[i])
  <2> PICK b : b = NewBatch(S, pre)
    OBVIOUS
  <2>1. flight' = Append(flight, b) /\ b \in BatchType /\ BatchExact(b)
    BY <1>2, <1>5
  <2> QED
    BY <1>1, <2>1
<1>7. SpecTyped'
  BY <1>1, <1>2, <1>4, <1>6 DEF SpecTyped, BatchExact
<1>8. \A r \in S \ pre : mode.async => req'[r].holders = req[r].holders + 1 + req[r].spec
  BY <1>1, <1>3, AfterScheduleTyped
<1>9. \A r \in S : req[r].st # "done"
  BY DEF Schedule, Schedulable
<1>10. \A r \in Requests \ (S \ pre) : req'[r] = req[r]
  BY <1>3
<1> QED
  BY <1>2, <1>5, <1>7, <1>8, <1>9, <1>10

\* What a step of the worker leaves behind.
Executed(i, ids, n, d) ==
  /\ i \in DOMAIN flight /\ ids \in SetToSeqs(flight[i].reqs)
  /\ n \in [flight[i].reqs -> Nat] /\ \A r \in flight[i].reqs : n[r] = 0 <=> r \in flight[i].pre
  /\ d = Nil \/ d \in [flight[i].reqs -> Nat]
  /\ flight' = [flight EXCEPT ![i].out = n, ![i].drafts = d]
  /\ rows' \in Counts /\ UNCHANGED <<mode, req>>
  /\ gen' = [r \in Requests |-> IF r \in flight[i].reqs THEN gen[r] + n[r] ELSE gen[r]]
  /\ IF HasSuffix THEN /\ cache' = UpdateSuffixCache(ids, n).cache
                       /\ response' = UpdateSuffixCache(ids, n).response
     ELSE UNCHANGED <<cache, response>>

LEMMA ExecuteParts ==
  ASSUME SpecTyped, Execute
  PROVE  \E i, ids, n, d : Executed(i, ids, n, d)
<1>1. PICK i \in DOMAIN flight :
        \E ids \in SetToSeqs(flight[i].reqs) :
        \E acc \in [flight[i].reqs -> 0 .. Max({NumSpec, MaxSpecLen})] :
          Sample(i, ids, Sampled(flight[i], acc))
  BY Zenon DEF Execute
<1>0. PICK ids \in SetToSeqs(flight[i].reqs) :
        \E acc \in [flight[i].reqs -> 0 .. Max({NumSpec, MaxSpecLen})] :
          Sample(i, ids, Sampled(flight[i], acc))
  BY <1>1
<1>20. PICK acc \in [flight[i].reqs -> 0 .. Max({NumSpec, MaxSpecLen})] :
         Sample(i, ids, Sampled(flight[i], acc))
  BY <1>0
<1>2. flight[i] \in BatchType /\ flight[i].reqs \in SUBSET Requests
  <2>1. flight[i] \in BatchType
    BY DEF SpecTyped
  <2> QED
    BY <2>1 DEF BatchType
<1>3. PICK R : R = flight[i].reqs
  OBVIOUS
<1>4. PICK n : n = Sampled(flight[i], acc)
  OBVIOUS
<1>5. n \in [R -> Nat] /\ \A r \in R : n[r] = 0 <=> r \in flight[i].pre
  <2>1. NumSpec \in Nat /\ MaxSpecLen \in Nat
    BY SpecConstants
  <2>2. Max({NumSpec, MaxSpecLen}) \in Nat
    BY <2>1, TypesOfTwo, Zenon
  <2>3. acc \in [R -> Nat]
    BY <1>3, <2>2
  <2> QED
    BY <1>3, <1>4, <2>3 DEF Sampled
<1>6. PICK suffix \in [R -> 0 .. MaxSpecLen] :
        /\ rows' = Rows(Merged(ids, suffix))
        /\ flight' = [flight EXCEPT ![i].out = n, ![i].drafts = Reported(Merged(ids, suffix))]
  BY <1>20, <1>3, <1>4 DEF Sample
<1>7. Merged(ids, suffix) \in [R -> Nat]
  <2>1. ids \in Seq(R) /\ ToSet(ids) = R
    BY <1>2, <1>3, OrderHasAll
  <2>2. \A r \in R : (CHOOSE j \in DOMAIN ids : ids[j] = r) \in DOMAIN ids
    BY <2>1 DEF ToSet
  <2>3. ArcticLengths(ids) \in [DOMAIN ids -> Nat]
    BY SpecConstants DEF ArcticLengths
  <2>4. suffix \in [R -> Nat]
    BY SpecConstants
  <2>5. ASSUME NEW a \in Nat, NEW c \in Nat PROVE Preferred(a, c) \in Nat
    BY DEF Preferred
  <2>6. ASSUME NEW r \in R
        PROVE  Preferred(suffix[r], ArcticLengths(ids)[CHOOSE j \in DOMAIN ids : ids[j] = r]) \in Nat
    <3>1. suffix[r] \in Nat /\ ArcticLengths(ids)[CHOOSE j \in DOMAIN ids : ids[j] = r] \in Nat
      BY <2>2, <2>3, <2>4
    <3> QED
      BY <2>5, <3>1
  <2> QED
    BY <2>1, <2>6 DEF Merged
<1>8. PICK m : m = Merged(ids, suffix)
  OBVIOUS
<1>9. m \in [R -> Nat]
  BY <1>7, <1>8
<1>10. Rows(m) \in Counts
  <2>1. ASSUME NEW r \in R PROVE Min({m[r], NumSpec}) \in Nat
    <3>1. m[r] \in Nat /\ NumSpec \in Nat
      BY <1>9, SpecConstants
    <3> QED
      BY <3>1, TypesOfTwo, Zenon
  <2>2. Rows(m) \in [R -> Nat]
    BY <1>9, <2>1 DEF Rows
  <2> QED
    BY <1>2, <1>3, <2>2, CountsIn
<1>11. PICK d : d = Reported(m)
  OBVIOUS
<1>12. d = Nil \/ d \in [R -> Nat]
  BY <1>9, <1>11 DEF Reported
<1>13. /\ gen' = [r \in Requests |-> IF r \in R THEN gen[r] + n[r] ELSE gen[r]]
       /\ IF HasSuffix THEN /\ cache' = UpdateSuffixCache(ids, n).cache
                            /\ response' = UpdateSuffixCache(ids, n).response
          ELSE UNCHANGED <<cache, response>>
  BY <1>20, <1>3, <1>4 DEF Sample
<1>14. UNCHANGED <<mode, req>>
  BY DEF Execute
<1>15. Executed(i, ids, n, d)
  BY <1>1, <1>3, <1>5, <1>6, <1>8, <1>10, <1>11, <1>12, <1>13, <1>14 DEF Executed
<1> QED
  BY <1>15

LEMMA ExecutedTyped ==
  ASSUME SpecTyped, NEW i, NEW ids, NEW n, NEW d, Executed(i, ids, n, d)
  PROVE  /\ SpecTyped' /\ DOMAIN flight' = DOMAIN flight
         /\ \A j \in DOMAIN flight : flight'[j].spec = flight[j].spec
<1> DEFINE b == flight[i]
<1>1. b \in BatchType /\ BatchExact(b) /\ flight \in Seq(BatchType) /\ i \in DOMAIN flight
  BY DEF SpecTyped, Executed
<1>2. n \in Counts /\ d \in Counts \cup {Nil}
  <2>1. b.reqs \in SUBSET Requests
    BY <1>1 DEF BatchType
  <2> QED
    BY <2>1, CountsIn DEF Executed
<1>3. PICK c : c = [b EXCEPT !.out = n, !.drafts = d]
  OBVIOUS
<1>4. /\ c \in BatchType /\ BatchExact(c) /\ c.spec = b.spec
  BY <1>1, <1>2, <1>3 DEF BatchType, BatchExact, Executed
<1>5. flight' = [flight EXCEPT ![i] = c]
  BY <1>3 DEF Executed
<1> HIDE DEF b
<1>6. /\ flight' \in Seq(BatchType) /\ DOMAIN flight' = DOMAIN flight
      /\ \A j \in DOMAIN flight : flight'[j] = IF j = i THEN c ELSE flight[j]
  BY <1>1, <1>4, <1>5
<1>7. \A j \in DOMAIN flight' : BatchExact(flight'[j])
  BY <1>4, <1>6 DEF SpecTyped
<1>8. gen' \in [Requests -> Nat]
  BY DEF SpecTyped, Executed
<1>9. SpecTyped'
  BY <1>6, <1>7, <1>8, SMTT(40) DEF SpecTyped, Executed, BatchExact
<1> QED
  BY <1>4, <1>6, <1>9 DEF b

LEMMA UpdateTyped ==
  ASSUME SpecTyped, UpdateFromOutput
  PROVE  /\ SpecTyped' /\ flight # <<>> /\ flight' = Tail(flight)
         /\ \A r \in Requests \ DOMAIN Head(flight).spec : mode.async => req'[r] = req[r]
         /\ \A r \in DOMAIN Head(flight).spec : mode.async /\ req'[r].st # "done" =>
              /\ req[r].st # "done"
              /\ req'[r].holders = req[r].holders - (Head(flight).spec[r] + 1)
<1>1. flight \in Seq(BatchType) /\ flight # <<>> /\ Head(flight).out # Nil
  BY DEF SpecTyped, UpdateFromOutput
<1>2. PICK b : b = Head(flight)
  OBVIOUS
<1>3. b \in BatchType /\ BatchExact(b) /\ b.out # Nil
  <2>1. b = flight[1] /\ 1 \in DOMAIN flight
    BY <1>1, <1>2
  <2> QED
    BY <1>1, <1>2, <2>1 DEF SpecTyped
<1>4. /\ DOMAIN b.out = b.reqs /\ DOMAIN b.spec = b.reqs \ b.pre /\ b.reqs \in SUBSET Requests
      /\ b.out \in Counts /\ b.spec \in Counts /\ b.drafts \in Counts \cup {Nil}
      /\ \A r \in b.reqs : b.out[r] = 0 <=> r \in b.pre
      /\ b.drafts # Nil => DOMAIN b.drafts = b.reqs
  <2>1. /\ b.reqs \in SUBSET Requests /\ b.out \in Counts \cup {Nil} /\ b.spec \in Counts
        /\ b.drafts \in Counts \cup {Nil}
    BY <1>3 DEF BatchType
  <2> QED
    BY <1>3, <2>1 DEF BatchExact
<1> DEFINE n(r) == b.out[r]
           k(r) == IF r \in DOMAIN b.spec THEN b.spec[r] ELSE 0
           report(r) == IF b.drafts = Nil THEN Nil ELSE b.drafts[r]
           upd == [r \in Requests |-> IF r \notin DOMAIN b.out THEN req[r]
                                      ELSE Received(req[r], n(r), k(r), report(r))]
<1>5. \A r \in b.reqs : n(r) \in Nat /\ k(r) \in Nat /\ report(r) \in Nat \cup {Nil}
  BY <1>4, CountsIn
<1>6. PICK running : req' = [r \in Requests |-> PostStep(upd[r], r, running)]
  BY <1>2, Zenon DEF UpdateFromOutput
<1> HIDE DEF n, k, report
<1>7. upd \in [Requests -> RequestType]
  <2>1. ASSUME NEW r \in Requests PROVE upd[r] \in RequestType
    BY <1>4, <1>5, ReceivedTyped DEF SpecTyped
  <2> QED
    BY <2>1
<1>8. \A r \in Requests : /\ req'[r] \in RequestType /\ req'[r].st = upd[r].st
                          /\ mode.async => req'[r] = upd[r]
  <2>1. rows \in Counts
    BY DEF SpecTyped
  <2> TAKE r \in Requests
  <2>2. upd[r] \in RequestType
    BY <1>7
  <2>3. req'[r] = PostStep(upd[r], r, running)
    BY <1>6
  <2> QED
    BY <2>1, <2>2, <2>3, PostStepTyped
<1>9. ASSUME NEW r \in Requests \ DOMAIN b.spec, mode.async PROVE req'[r] = req[r]
  <2>1. CASE r \notin b.reqs
    BY <1>4, <1>8, <1>9, <2>1
  <2>2. CASE r \in b.reqs
    <3>1. n(r) = 0
      BY <1>4, <1>9, <2>2 DEF n
    <3>2. Received(req[r], n(r), k(r), report(r)) = req[r]
      BY <3>1, Zenon DEF Received
    <3> QED
      BY <1>4, <1>8, <1>9, <2>2, <3>2
  <2> QED
    BY <2>1, <2>2
<1>10. ASSUME NEW r \in DOMAIN b.spec, mode.async, req'[r].st # "done"
       PROVE  req[r].st # "done" /\ req'[r].holders = req[r].holders - (b.spec[r] + 1)
  <2>1. r \in b.reqs /\ r \notin b.pre /\ r \in Requests
    BY <1>4
  <2>2. n(r) # 0 /\ k(r) = b.spec[r]
    BY <1>4, <2>1 DEF n, k
  <2>3. req[r] \in RequestType
    BY <2>1 DEF SpecTyped
  <2>4. req'[r] = Received(req[r], n(r), k(r), report(r))
    BY <1>4, <1>8, <1>10, <2>1
  <2>5. req[r].st # "done"
    BY <1>5, <1>10, <2>1, <2>3, <2>4, ReceivedTyped, ZenonT(60)
  <2>6. req'[r].holders = req[r].holders - (k(r) + 1)
    <3>1. n(r) \in Nat /\ k(r) \in Nat /\ report(r) \in Nat \cup {Nil}
      BY <1>5, <2>1
    <3>2. mode.async
      BY <1>10
    <3>3. Received(req[r], n(r), k(r), report(r)).holders = req[r].holders - (k(r) + 1)
      BY <2>2, <2>3, <2>5, <3>1, <3>2, ReceivedTyped, ZenonT(60)
    <3> QED
      BY <2>4, <3>3
  <2> QED
    BY <2>2, <2>5, <2>6
<1>11. SpecTyped'
  <2>1. req' \in [Requests -> RequestType]
    BY <1>6, <1>8
  <2>2. flight' = Tail(flight) /\ UNCHANGED <<mode, gen, rows>>
    BY DEF UpdateFromOutput
  <2>3. /\ flight' \in Seq(BatchType)
        /\ \A i \in DOMAIN flight' : BatchExact(flight'[i])
    <3>1. \A i \in DOMAIN flight' : i + 1 \in DOMAIN flight /\ flight'[i] = flight[i + 1]
      BY <1>1, <2>2
    <3> QED
      BY <1>1, <2>2, <3>1 DEF SpecTyped
  <2> QED
    BY <2>1, <2>2, <2>3 DEF SpecTyped, BatchExact
<1> QED
  BY <1>1, <1>2, <1>9, <1>10, <1>11 DEF UpdateFromOutput

-----------------------------------------------------------------------------
(* Places. *)

LEMMA PlacesOfBatch ==
  ASSUME NEW i, NEW k \in Nat
  PROVE  IsFiniteSet({i} \X (0 .. k)) /\ Cardinality({i} \X (0 .. k)) = k + 1
<1>1. IsFiniteSet({i}) /\ Cardinality({i}) = 1
  BY FS_Singleton
<1>2. IsFiniteSet(0 .. k) /\ Cardinality(0 .. k) = k + 1
  <2>1. k - 0 + 1 = k + 1 /\ 0 \in Int /\ k \in Int /\ ~(0 > k)
    OBVIOUS
  <2> QED
    BY <2>1, FS_Interval
<1>3. /\ IsFiniteSet({i} \X (0 .. k))
      /\ Cardinality({i} \X (0 .. k)) = 1 * (k + 1)
  BY <1>1, <1>2, FS_Product
<1> QED
  BY <1>3

\* A batch scheduled brings its places ...
LEMMA ScheduleCounts ==
  ASSUME SpecTyped, NEW S \in SUBSET Requests, NEW pre \in SUBSET S, Schedule(S, pre),
         NEW r \in Requests, Counted(r)
  PROVE  Counted(r)'
<1> DEFINE b == NewBatch(S, pre)
           N == Len(flight)
<1>1. /\ flight' = Append(flight, b) /\ flight \in Seq(BatchType)
      /\ DOMAIN b.spec = S \ pre /\ \A x \in S \ pre : b.spec[x] = req[x].spec
  BY ScheduleTyped DEF NewBatch, SpecTyped
<1> HIDE DEF b
<1>2. /\ N \in Nat /\ DOMAIN flight = 1 .. N /\ DOMAIN flight' = 1 .. N + 1
      /\ \A i \in 1 .. N : flight'[i] = flight[i]
      /\ flight'[N + 1] = b
  <2>1. flight \in Seq(BatchType \cup {b}) /\ b \in BatchType \cup {b}
    BY <1>1
  <2> QED
    BY <1>1, <2>1
<1> HIDE DEF N
<1>3. mode' = mode /\ req[r] \in RequestType
  BY DEF Schedule, SpecTyped
<1>4. CASE r \notin S \ pre
  <2>1. req'[r] = req[r]
    BY <1>4, ScheduleTyped
  <2>2. Places(r)' = Places(r)
    BY <1>1, <1>2, <1>4 DEF Places
  <2> QED
    BY <1>3, <2>1, <2>2 DEF Counted
<1>5. CASE r \in S \ pre
  <2> DEFINE X == {N + 1} \X (0 .. req[r].spec)
             W == Places(r)
  <2>0. r \in DOMAIN b.spec /\ b.spec[r] = req[r].spec
    BY <1>1, <1>5
  <2>1. Places(r)' = W \cup X
    <3>1. DOMAIN flight' = DOMAIN flight \cup {N + 1}
      BY <1>2
    <3>2. {j \in DOMAIN flight' : r \in DOMAIN flight'[j].spec} =
            {j \in DOMAIN flight : r \in DOMAIN flight[j].spec} \cup {N + 1}
      BY <1>2, <2>0, <3>1
    <3> DEFINE old == {j \in DOMAIN flight : r \in DOMAIN flight[j].spec}
               new == {j \in DOMAIN flight' : r \in DOMAIN flight'[j].spec}
               at(j) == {j} \X (0 .. flight[j].spec[r])
               atNew(j) == {j} \X (0 .. flight'[j].spec[r])
    <3>3. \A j \in old : atNew(j) = at(j)
      BY <1>2
    <3>4. atNew(N + 1) = X
      BY <1>2, <2>0
    <3>5. Places(r)' = UNION {atNew(j) : j \in new} /\ W = UNION {at(j) : j \in old}
      BY DEF Places
    <3>6. new = old \cup {N + 1}
      BY <3>2
    <3> HIDE DEF at, atNew, new, old, X, W
    <3> QED
      BY <3>3, <3>4, <3>5, <3>6
  <2>2. W \cap X = {}
    BY <1>2 DEF Places
  <2>3. req[r].spec \in Nat /\ req[r].holders \in Int
    BY <1>3 DEF RequestType
  <2>4. IsFiniteSet(X) /\ Cardinality(X) = req[r].spec + 1
    BY <2>3, PlacesOfBatch
  <2>5. IsFiniteSet(W)
    BY DEF Counted
  <2>6. mode.async => req[r].holders = Cardinality(W)
    BY <1>5, ScheduleTyped DEF Counted
  <2> HIDE DEF W, X
  <2>7. IsFiniteSet(W \cup X) /\ Cardinality(W \cup X) = Cardinality(W) + Cardinality(X)
    <3>1. /\ IsFiniteSet(W \cup X)
          /\ Cardinality(W \cup X) = Cardinality(W) + Cardinality(X) - Cardinality(W \cap X)
      BY <2>4, <2>5, FS_Union
    <3>2. Cardinality(W \cap X) = 0
      BY <2>2, FS_EmptySet
    <3>3. Cardinality(W) \in Nat /\ Cardinality(X) \in Nat
      BY <2>4, <2>5, FS_CardinalityType
    <3> QED
      BY <3>1, <3>2, <3>3
  <2>8. mode.async => req'[r].holders = req[r].holders + 1 + req[r].spec
    BY <1>5, ScheduleTyped, ZenonT(60)
  <2>9. Cardinality(W) \in Nat
    BY <2>5, FS_CardinalityType
  <2>10. mode.async => req'[r].holders = Cardinality(W \cup X)
    BY <2>3, <2>4, <2>6, <2>7, <2>8, <2>9
  <2> QED
    BY <1>3, <2>1, <2>7, <2>10 DEF Counted
<1> QED
  BY <1>4, <1>5

\* ... and takes them along when it comes back.
LEMMA UpdateCounts ==
  ASSUME SpecTyped, UpdateFromOutput, NEW r \in Requests, Counted(r)
  PROVE  Counted(r)'
<1> DEFINE b == Head(flight)
           N == Len(flight)
           next == Places(r)'
<1>1. flight \in Seq(BatchType) /\ flight # <<>> /\ flight' = Tail(flight)
  BY UpdateTyped DEF SpecTyped
<1>2. /\ N \in Nat \ {0} /\ DOMAIN flight = 1 .. N /\ DOMAIN flight' = 1 .. N - 1
      /\ \A i \in 1 .. N - 1 : flight'[i] = flight[i + 1]
      /\ b = flight[1] /\ b \in BatchType
  BY <1>1
<1>3. mode' = mode /\ req[r] \in RequestType /\ IsFiniteSet(Places(r))
  BY DEF UpdateFromOutput, SpecTyped, Counted
<1> DEFINE mine == IF r \in DOMAIN b.spec THEN {1} \X (0 .. b.spec[r]) ELSE {}
           rest == Places(r) \ mine
           moved == [p \in rest |-> <<p[1] - 1, p[2]>>]
<1>4. mine \subseteq Places(r)
  BY <1>2 DEF Places
<1>5. ASSUME NEW p \in rest
      PROVE  \E i \in 1 .. N - 1, j \in Nat :
               /\ r \in DOMAIN flight[i + 1].spec /\ j \in 0 .. flight[i + 1].spec[r]
               /\ p = <<i + 1, j>>
  <2>1. PICK i \in DOMAIN flight : r \in DOMAIN flight[i].spec /\ p \in {i} \X (0 .. flight[i].spec[r])
    BY DEF Places
  <2>2. i # 1
    BY <1>2, <2>1
  <2>3. i - 1 \in 1 .. N - 1 /\ (i - 1) + 1 = i
    BY <1>2, <2>1, <2>2
  <2>4. PICK j \in 0 .. flight[i].spec[r] : p = <<i, j>>
    BY <2>1
  <2> QED
    BY <2>1, <2>3, <2>4
<1>6. moved \in [rest -> next]
  <2>1. ASSUME NEW p \in rest PROVE <<p[1] - 1, p[2]>> \in next
    <3>1. PICK i \in 1 .. N - 1, j \in Nat :
            /\ r \in DOMAIN flight[i + 1].spec /\ j \in 0 .. flight[i + 1].spec[r]
            /\ p = <<i + 1, j>>
      BY <1>5
    <3>2. <<p[1] - 1, p[2]>> = <<i, j>>
      BY <3>1
    <3>3. i \in DOMAIN flight' /\ flight'[i] = flight[i + 1]
      BY <1>2
    <3>4. <<i, j>> \in {i} \X (0 .. flight'[i].spec[r]) /\ r \in DOMAIN flight'[i].spec
      BY <3>1, <3>3
    <3> QED
      BY <3>2, <3>3, <3>4 DEF Places
  <2> QED
    BY <2>1
<1>7. \A p, q \in rest : moved[p] = moved[q] => p = q
  <2> SUFFICES ASSUME NEW p \in rest, NEW q \in rest, moved[p] = moved[q] PROVE p = q
    OBVIOUS
  <2>1. PICK i \in 1 .. N - 1, j \in Nat : p = <<i + 1, j>>
    BY <1>5
  <2>2. PICK k \in 1 .. N - 1, l \in Nat : q = <<k + 1, l>>
    BY <1>5
  <2>3. <<p[1] - 1, p[2]>> = <<q[1] - 1, q[2]>>
    OBVIOUS
  <2>4. p[1] - 1 = q[1] - 1 /\ p[2] = q[2]
    BY <2>3
  <2> QED
    BY <2>1, <2>2, <2>4
<1>8. \A z \in next : \E p \in rest : moved[p] = z
  <2> SUFFICES ASSUME NEW z \in next PROVE \E p \in rest : moved[p] = z
    OBVIOUS
  <2>1. PICK i \in DOMAIN flight' :
          r \in DOMAIN flight'[i].spec /\ z \in {i} \X (0 .. flight'[i].spec[r])
    BY DEF Places
  <2>2. PICK j \in 0 .. flight'[i].spec[r] : z = <<i, j>>
    BY <2>1
  <2>3. i + 1 \in DOMAIN flight /\ flight'[i] = flight[i + 1] /\ i + 1 # 1 /\ i \in Nat
    BY <1>2, <2>1
  <2>4. <<i + 1, j>> \in Places(r)
    BY <2>1, <2>2, <2>3 DEF Places
  <2>5. <<i + 1, j>> \notin mine
    BY <2>3
  <2>6. moved[<<i + 1, j>>] = <<i, j>>
    BY <2>3, <2>4, <2>5
  <2> QED
    BY <2>2, <2>4, <2>5, <2>6
<1>9. IsFiniteSet(rest)
  BY <1>3, FS_Subset
<1> HIDE DEF rest, moved, next
<1>10. IsFiniteSet(next) /\ Cardinality(next) = Cardinality(rest)
  <2>1. moved \in Bijection(rest, next)
    BY <1>6, <1>7, <1>8 DEF Bijection, Injection, Surjection, IsInjective
  <2>2. ExistsBijection(rest, next)
    BY <2>1 DEF ExistsBijection
  <2> QED
    BY <1>9, <2>2, FS_Bijection
<1>11. CASE r \notin DOMAIN b.spec
  <2>1. rest = Places(r)
    BY <1>11 DEF rest
  <2>2. mode.async => req'[r] = req[r]
    BY <1>11, UpdateTyped
  <2> QED
    BY <1>3, <1>10, <2>1, <2>2 DEF Counted, next
<1>12. CASE r \in DOMAIN b.spec
  <2>1. b.spec[r] \in Nat /\ req[r].holders \in Int
    <3>1. b.spec \in Counts
      BY <1>2 DEF BatchType
    <3> QED
      BY <1>3, <1>12, <3>1, CountsIn DEF RequestType
  <2>2. IsFiniteSet(mine) /\ Cardinality(mine) = b.spec[r] + 1
    BY <1>12, <2>1, PlacesOfBatch
  <2> DEFINE W == Places(r)
  <2>3. rest = W \ mine /\ W \cap mine = mine
    BY <1>4 DEF rest
  <2> HIDE DEF mine, W
  <2>4. Cardinality(rest) = Cardinality(W) - Cardinality(mine)
    <3>1. IsFiniteSet(W)
      BY <1>3 DEF W
    <3>2. Cardinality(W \ mine) = Cardinality(W) - Cardinality(W \cap mine)
      BY <3>1, FS_Difference
    <3> QED
      BY <2>3, <3>2
  <2>5. Cardinality(W) \in Nat
    BY <1>3, FS_CardinalityType DEF W
  <2>6. mode.async /\ req'[r].st # "done" =>
          req'[r].holders = req[r].holders - (b.spec[r] + 1) /\ req[r].st # "done"
    BY <1>12, UpdateTyped
  <2>7. mode.async /\ req'[r].st # "done" => req[r].holders = Cardinality(W)
    BY <2>6 DEF Counted, W
  <2>8. mode.async /\ req'[r].st # "done" => req'[r].holders = Cardinality(next)
    BY <1>10, <2>1, <2>2, <2>4, <2>5, <2>6, <2>7
  <2> QED
    BY <1>3, <1>10, <2>8 DEF Counted, next
<1> QED
  BY <1>11, <1>12

LEMMA PlacesStep ==
  ASSUME PlacesInv, [Next]_specVars
  PROVE  PlacesInv'
<1>1. SpecTyped /\ \A r \in Requests : Counted(r)
  BY DEF PlacesInv
<1>2. CASE UNCHANGED specVars
  BY <1>1, <1>2, SMTT(40) DEF PlacesInv, SpecTyped, BatchExact, Counted, Places, specVars
<1>3. ASSUME NEW S \in SUBSET Requests, NEW pre \in SUBSET S, Schedule(S, pre)
      PROVE  PlacesInv'
  BY <1>1, <1>3, ScheduleTyped, ScheduleCounts DEF PlacesInv
<1>4. CASE UpdateFromOutput
  BY <1>1, <1>4, UpdateTyped, UpdateCounts DEF PlacesInv
<1>5. CASE Execute
  <2>1. PICK i, ids, n, d : Executed(i, ids, n, d)
    BY <1>1, <1>5, ExecuteParts
  <2>2. /\ SpecTyped' /\ DOMAIN flight' = DOMAIN flight
        /\ \A j \in DOMAIN flight : flight'[j].spec = flight[j].spec
    BY <1>1, <2>1, ExecutedTyped
  <2>3. \A r \in Requests : Places(r)' = Places(r)
    BY <2>2 DEF Places
  <2>4. mode' = mode /\ req' = req
    BY <2>1 DEF Executed
  <2> QED
    BY <1>1, <2>2, <2>3, <2>4 DEF PlacesInv, Counted
<1> QED
  BY <1>2, <1>3, <1>4, <1>5 DEF Next

\* The places a request has reserved are those of the batches in flight, whatever
\* is drafted, accepted and rejected, and however two batches overlap
\* (patches.py:66-130; vLLM's update_from_output as it is patched there).
THEOREM PlacesStayExact == Spec => []PlacesExact
<1>1. Init => PlacesInv
  <2> SUFFICES ASSUME Init PROVE PlacesInv
    OBVIOUS
  <2>1. SpecTyped
    BY InitTyped
  <2>2. ASSUME NEW r \in Requests PROVE Counted(r)
    <3>1. Places(r) = {}
      BY DEF Init, Places
    <3>2. req[r].holders = 0
      BY DEF Init
    <3> QED
      BY <3>1, <3>2, FS_EmptySet DEF Counted
  <2> QED
    BY <2>1, <2>2 DEF PlacesInv
<1>2. PlacesInv /\ [Next]_specVars => PlacesInv'
  BY PlacesStep
<1>3. PlacesInv => PlacesExact
  BY DEF PlacesInv, Counted, PlacesExact
<1> QED
  BY <1>1, <1>2, <1>3, PTL DEF Spec

-----------------------------------------------------------------------------
(* The suffix cache: what holds for it and the kept responses, step by step of *)
(* _update_suffix_cache().                                                     *)

SeqIds == 0 .. SeqSpace - 1

EntryType == [req : Requests, seq : SeqIds]

\* The entries of _req_to_seq_id.
Entries(c) == ToSet(c.cached)

IsCache(c) ==
  /\ c = [max |-> c.max, local |-> c.local, cached |-> c.cached, owner |-> c.owner,
          global |-> c.global, next |-> c.next]
  /\ c.max \in Nat \cup {Unlimited}
  /\ Active(c) \subseteq Requests /\ c.local \in [Active(c) -> Seq(Nat)]
  /\ c.cached \in Seq(EntryType)
  /\ c.owner \in [DOMAIN c.owner -> Requests]
  /\ c.global \in [DOMAIN c.global -> Seq(Nat)]
  /\ c.next \in SeqIds

\* The two maps between requests and ids are inverse.
Mapped(c) ==
  /\ \A i, j \in DOMAIN c.cached :
       c.cached[i].req = c.cached[j].req \/ c.cached[i].seq = c.cached[j].seq => i = j
  /\ DOMAIN c.owner = {e.seq : e \in Entries(c)}
  /\ \A e \in Entries(c) : c.owner[e.seq] = e.req

Roomy(c) == c.max = Unlimited \/ c.max >= Cardinality(Requests)

Bounded(c) == c.max # Unlimited => Len(c.cached) <= c.max

\* The tokens 1 .. n end with s.
Recent(s, n) == s = [i \in DOMAIN s |-> n - Len(s) + i]

\* Cache c and the kept responses fit the tokens sampled so far; the requests in F
\* were started just now and have nothing in the global tree yet.
Holding(c, resp, sampled, F) ==
  /\ IsCache(c) /\ Mapped(c)
  /\ F \subseteq Active(c) /\ \A r \in F : resp[r] = <<>>
  /\ resp \in [Active(c) -> Seq(Nat)]
  /\ \A r \in Active(c) : c.local[r] = <<0>> \o resp[r] /\ Recent(resp[r], sampled[r])
  /\ \A e \in Entries(c) : e.req \in Active(c) \ F => c.global[e.seq] = resp[e.req]
  /\ DOMAIN c.global = {e.seq : e \in {x \in Entries(c) : x.req \notin F}}
  /\ Roomy(c) => Active(c) \ F \subseteq CachedRequests(c)

-----------------------------------------------------------------------------
LEMMA RemoveAtFacts ==
  ASSUME NEW T, NEW s \in Seq(T), NEW i \in DOMAIN s
  PROVE  /\ RemoveAt(s, i) \in Seq(T) /\ Len(RemoveAt(s, i)) = Len(s) - 1
         /\ \A j \in 1 .. Len(s) - 1 : RemoveAt(s, i)[j] = IF j < i THEN s[j] ELSE s[j + 1]
<1> DEFINE a == SubSeq(s, 1, i - 1)
           b == SubSeq(s, i + 1, Len(s))
<1>1. a \in Seq(T) /\ Len(a) = i - 1 /\ \A j \in 1 .. i - 1 : a[j] = s[j]
  BY SubSeqProperties
<1>2. b \in Seq(T) /\ Len(b) = Len(s) - i /\ \A j \in 1 .. Len(s) - i : b[j] = s[i + j]
  BY SubSeqProperties
<1>3. RemoveAt(s, i) = a \o b
  BY DEF RemoveAt
<1> HIDE DEF a, b
<1> QED
  BY <1>1, <1>2, <1>3, ConcatProperties, SMTT(40)

LEMMA EntryOf ==
  ASSUME NEW c, IsCache(c), Mapped(c), NEW i \in DOMAIN c.cached
  PROVE  /\ Entry(c, c.cached[i].req) = i /\ SeqId(c, c.cached[i].req) = c.cached[i].seq
         /\ c.cached[i] \in Entries(c) /\ c.cached[i] \in EntryType
<1>1. c.cached[i] \in EntryType
  BY DEF IsCache
<1>2. Entry(c, c.cached[i].req) = i
  BY DEF Entry, Mapped
<1> QED
  BY <1>1, <1>2 DEF SeqId, Entries, ToSet

\* evict_cached_response() takes one entry out of all three maps.
LEMMA Evicted ==
  ASSUME NEW c, IsCache(c), Mapped(c), NEW i \in DOMAIN c.cached
  PROVE  LET d == EvictCachedResponse(c, c.cached[i].req)
             e == c.cached[i]
         IN /\ IsCache(d) /\ Mapped(d)
            /\ d.max = c.max /\ d.local = c.local /\ d.next = c.next
            /\ Len(d.cached) = Len(c.cached) - 1
            /\ Entries(d) = Entries(c) \ {e}
            /\ DOMAIN d.owner = DOMAIN c.owner \ {e.seq}
            /\ DOMAIN d.global = DOMAIN c.global \ {e.seq}
            /\ \A s \in DOMAIN d.global : d.global[s] = c.global[s]
<1> DEFINE e == c.cached[i]
           cs == RemoveAt(c.cached, i)
           ow == Without(c.owner, e.seq)
           gl == Without(c.global, e.seq)
<1>1. PICK d : d = EvictCachedResponse(c, e.req)
  OBVIOUS
<1>2. Entry(c, e.req) = i /\ SeqId(c, e.req) = e.seq /\ e \in Entries(c) /\ e \in EntryType
  BY EntryOf
<1>3. c = [max |-> c.max, local |-> c.local, cached |-> c.cached, owner |-> c.owner,
           global |-> c.global, next |-> c.next]
  BY DEF IsCache
<1>4. d = [c EXCEPT !.cached = cs, !.owner = ow, !.global = gl]
  BY <1>1, <1>2 DEF EvictCachedResponse
<1> HIDE DEF cs, ow, gl
<1>5. d = [max |-> c.max, local |-> c.local, cached |-> cs, owner |-> ow,
           global |-> gl, next |-> c.next]
  BY <1>3, <1>4
<1>6. /\ cs \in Seq(EntryType) /\ Len(cs) = Len(c.cached) - 1
      /\ \A j \in 1 .. Len(c.cached) - 1 : cs[j] = IF j < i THEN c.cached[j] ELSE c.cached[j + 1]
  BY RemoveAtFacts DEF IsCache, cs
<1>7. /\ DOMAIN ow = DOMAIN c.owner \ {e.seq} /\ \A s \in DOMAIN ow : ow[s] = c.owner[s]
      /\ DOMAIN gl = DOMAIN c.global \ {e.seq} /\ \A s \in DOMAIN gl : gl[s] = c.global[s]
      /\ ow \in [DOMAIN ow -> Requests] /\ gl \in [DOMAIN gl -> Seq(Nat)]
  BY DEF ow, gl, Without, Restrict, IsCache
<1>8. IsCache(d)
  BY <1>5, <1>6, <1>7 DEF IsCache, Active
<1> DEFINE N == Len(c.cached)
           from(j) == IF j < i THEN j ELSE j + 1
<1>9. /\ N \in Nat /\ DOMAIN c.cached = 1 .. N /\ DOMAIN cs = 1 .. N - 1
      /\ \A j \in 1 .. N - 1 : cs[j] = c.cached[from(j)] /\ from(j) \in 1 .. N /\ from(j) # i
      /\ \A j, k \in 1 .. N - 1 : from(j) = from(k) => j = k
      /\ \A j \in 1 .. N : j # i => \E k \in 1 .. N - 1 : from(k) = j
  <2>1. N \in Nat /\ DOMAIN c.cached = 1 .. N /\ DOMAIN cs = 1 .. N - 1
    BY <1>6 DEF IsCache
  <2>2. \A j \in 1 .. N : j # i => \E k \in 1 .. N - 1 : from(k) = j
    <3> SUFFICES ASSUME NEW j \in 1 .. N, j # i PROVE \E k \in 1 .. N - 1 : from(k) = j
      OBVIOUS
    <3>1. CASE j < i
      BY <2>1, <3>1
    <3>2. CASE j > i
      <4>1. j - 1 \in 1 .. N - 1 /\ from(j - 1) = j
        BY <2>1, <3>2
      <4> QED
        BY <4>1
    <3> QED
      BY <2>1, <3>1, <3>2
  <2>3. \A j, k \in 1 .. N - 1 : from(j) = from(k) => j = k
    BY <2>1
  <2>4. \A j \in 1 .. N - 1 : from(j) \in 1 .. N /\ from(j) # i
    BY <2>1
  <2>5. \A j \in 1 .. N - 1 : cs[j] = c.cached[from(j)]
    BY <1>6
  <2> HIDE DEF N, from
  <2> QED
    BY <2>1, <2>2, <2>3, <2>4, <2>5
<1> HIDE DEF N, from
<1>10. \A j, k \in DOMAIN c.cached :
         c.cached[j].req = c.cached[k].req \/ c.cached[j].seq = c.cached[k].seq => j = k
  BY DEF Mapped
<1>11. Entries(d) = Entries(c) \ {e}
  <2>1. \A j \in DOMAIN c.cached : c.cached[j] = e => j = i
    BY <1>10
  <2>2. d.cached = cs /\ e = c.cached[i] /\ i \in DOMAIN c.cached
    BY <1>5
  <2> HIDE DEF e
  <2>3. \A x \in Entries(d) : x \in Entries(c) /\ x # e
    BY <1>9, <2>1, <2>2 DEF Entries, ToSet
  <2>4. ASSUME NEW x \in Entries(c), x # e PROVE x \in Entries(d)
    <3>1. PICK j \in 1 .. N : x = c.cached[j]
      BY <1>9 DEF Entries, ToSet
    <3>2. j # i
      BY <2>2, <2>4, <3>1
    <3>3. PICK k \in 1 .. N - 1 : from(k) = j
      BY <1>9, <3>2
    <3>4. cs[k] = x /\ k \in DOMAIN cs
      BY <1>9, <3>1, <3>3
    <3> QED
      BY <2>2, <3>4 DEF Entries, ToSet
  <2> QED
    BY <1>2, <2>3, <2>4
<1>12. Mapped(d)
  <2>1. ASSUME NEW j \in DOMAIN cs, NEW k \in DOMAIN cs,
               cs[j].req = cs[k].req \/ cs[j].seq = cs[k].seq
        PROVE  j = k
    <3>1. /\ from(j) \in DOMAIN c.cached /\ cs[j] = c.cached[from(j)]
          /\ from(k) \in DOMAIN c.cached /\ cs[k] = c.cached[from(k)]
      BY <1>9
    <3>2. from(j) = from(k)
      BY <1>10, <2>1, <3>1
    <3> QED
      BY <1>9, <3>2
  <2>2. \A x \in Entries(c) : x # e => x.seq # e.seq
    BY <1>10, SMTT(30) DEF Entries, ToSet
  <2>3. DOMAIN c.owner = {x.seq : x \in Entries(c)} /\ \A x \in Entries(c) : c.owner[x.seq] = x.req
    BY DEF Mapped
  <2>4. DOMAIN ow = {x.seq : x \in Entries(d)}
    BY <1>2, <1>7, <1>11, <2>2, <2>3
  <2>5. \A x \in Entries(d) : ow[x.seq] = x.req
    BY <1>7, <1>11, <2>3, <2>4
  <2> QED
    BY <1>5, <2>1, <2>4, <2>5 DEF Mapped
<1> QED
  BY <1>1, <1>5, <1>6, <1>7, <1>8, <1>11, <1>12

\* So what the cache holds stays, if the request is not active or there was no room
\* for all.
LEMMA EvictHolds ==
  ASSUME NEW c, NEW resp, NEW sampled, NEW F, Holding(c, resp, sampled, F),
         NEW i \in DOMAIN c.cached, c.cached[i].req \notin F,
         c.cached[i].req \in Active(c) => ~Roomy(c)
  PROVE  Holding(EvictCachedResponse(c, c.cached[i].req), resp, sampled, F)
<1>1. PICK e : e = c.cached[i]
  OBVIOUS
<1>2. PICK d : d = EvictCachedResponse(c, e.req)
  OBVIOUS
<1>3. IsCache(c) /\ Mapped(c)
  BY DEF Holding
<1>4. /\ IsCache(d) /\ Mapped(d) /\ d.max = c.max /\ d.local = c.local
      /\ Entries(d) = Entries(c) \ {e}
      /\ DOMAIN d.global = DOMAIN c.global \ {e.seq}
      /\ \A s \in DOMAIN d.global : d.global[s] = c.global[s]
      /\ e \in Entries(c)
  BY <1>1, <1>2, <1>3, Evicted, EntryOf
<1>5. \A x \in Entries(c) : (x.seq = e.seq \/ x.req = e.req) => x = e
  BY <1>1, <1>3 DEF Mapped, Entries, ToSet
<1>6. Active(d) = Active(c) /\ (Roomy(d) <=> Roomy(c))
  BY <1>4 DEF Active, Roomy
<1>7. DOMAIN d.global = {x.seq : x \in {y \in Entries(d) : y.req \notin F}}
  <2>1. DOMAIN c.global = {x.seq : x \in {y \in Entries(c) : y.req \notin F}}
    BY DEF Holding
  <2>2. \A s \in DOMAIN d.global : \E x \in Entries(d) : x.req \notin F /\ s = x.seq
    BY <1>4, <2>1
  <2>3. \A x \in Entries(d) : x.req \notin F => x.seq \in DOMAIN d.global
    BY <1>4, <1>5, <2>1
  <2> QED
    BY <2>2, <2>3
<1>8. \A x \in Entries(d) : x.req \in Active(d) \ F => d.global[x.seq] = resp[x.req]
  <2>1. \A x \in Entries(d) : x.req \in Active(d) \ F => x.seq \in DOMAIN d.global
    BY <1>7
  <2> QED
    BY <1>4, <1>6, <2>1 DEF Holding
<1>9. Roomy(d) => Active(d) \ F \subseteq CachedRequests(d)
  <2> SUFFICES ASSUME Roomy(d), NEW r \in Active(d) \ F PROVE r \in CachedRequests(d)
    OBVIOUS
  <2>1. r # e.req
    BY <1>1, <1>6
  <2>2. PICK x \in Entries(c) : x.req = r
    <3>1. r \in CachedRequests(c)
      BY <1>6 DEF Holding
    <3> QED
      BY <3>1 DEF CachedRequests, Entries, ToSet
  <2>3. x \in Entries(d)
    BY <1>4, <2>1, <2>2
  <2> QED
    BY <2>2, <2>3 DEF CachedRequests, Entries, ToSet
<1>10. Holding(d, resp, sampled, F)
  <2>1. /\ F \subseteq Active(d) /\ \A r \in F : resp[r] = <<>>
        /\ resp \in [Active(d) -> Seq(Nat)]
        /\ \A r \in Active(d) : d.local[r] = <<0>> \o resp[r] /\ Recent(resp[r], sampled[r])
    BY <1>4, <1>6 DEF Holding
  <2> QED
    BY <1>4, <1>7, <1>8, <1>9, <2>1 DEF Holding
<1> QED
  BY <1>1, <1>2, <1>10

\* There is no more than one entry per request.
LEMMA FewEntries ==
  ASSUME NEW c, IsCache(c), Mapped(c)
  PROVE  /\ Len(c.cached) \in Nat /\ Cardinality(Requests) \in Nat
         /\ Len(c.cached) <= Cardinality(Requests)
<1> DEFINE N == Len(c.cached)
           who == [i \in 1 .. N |-> c.cached[i].req]
<1>1. N \in Nat /\ DOMAIN c.cached = 1 .. N /\ \A i \in 1 .. N : c.cached[i].req \in Requests
  <2>1. c.cached \in Seq(EntryType)
    BY DEF IsCache
  <2>2. DOMAIN c.cached = 1 .. N /\ N \in Nat /\ \A i \in 1 .. N : c.cached[i] \in EntryType
    BY <2>1
  <2> QED
    BY <2>2 DEF EntryType
<1>2. who \in Injection(1 .. N, Requests)
  BY <1>1 DEF Injection, IsInjective, Mapped
<1> HIDE DEF who
<1>3. IsFiniteSet(Requests)
  BY SpecConstants
<1>4. Cardinality(1 .. N) <= Cardinality(Requests)
  BY <1>2, <1>3, FS_Injection
<1>5. Cardinality(1 .. N) = N
  BY <1>1, FS_Interval
<1> QED
  BY <1>1, <1>3, <1>4, <1>5, FS_CardinalityType

\* The ids of active requests, r not among them, leave one for r.
LEMMA SomeIdFree ==
  ASSUME NEW c, IsCache(c), Mapped(c), NEW r \in Requests, r \notin CachedRequests(c)
  PROVE  LET taken == {s \in DOMAIN c.owner : c.owner[s] \in Active(c)}
         IN \E s \in SeqIds : s \notin taken
<1> DEFINE taken == {s \in DOMAIN c.owner : c.owner[s] \in Active(c)}
<1> SUFFICES ASSUME SeqIds \subseteq taken PROVE FALSE
  OBVIOUS
<1>1. \A s \in DOMAIN c.owner : \E e \in Entries(c) : e.seq = s /\ c.owner[s] = e.req
  BY DEF Mapped
<1>2. \A s \in SeqIds : \E i \in DOMAIN c.cached : c.cached[i].seq = s /\ c.owner[s] = c.cached[i].req
  BY <1>1 DEF Entries, ToSet
<1> DEFINE whose == [s \in SeqIds |-> c.owner[s]]
<1>3. whose \in Injection(SeqIds, Requests \ {r})
  <2>1. \A s \in SeqIds : c.owner[s] \in Requests \ {r}
    <3>1. \A i \in DOMAIN c.cached : c.cached[i] \in EntryType
      BY DEF IsCache
    <3>2. \A i \in DOMAIN c.cached : c.cached[i].req \in Requests /\ c.cached[i].req # r
      BY <3>1 DEF EntryType, CachedRequests
    <3> QED
      BY <1>2, <3>2
  <2>2. \A s, t \in SeqIds : c.owner[s] = c.owner[t] => s = t
    BY <1>2 DEF Mapped
  <2> QED
    BY <2>1, <2>2 DEF Injection, IsInjective
<1> HIDE DEF whose
<1>4. IsFiniteSet(Requests) /\ Cardinality(Requests) \in Nat
  BY SpecConstants, FS_CardinalityType
<1>5. IsFiniteSet(Requests \ {r}) /\ Cardinality(Requests \ {r}) = Cardinality(Requests) - 1
  BY <1>4, FS_RemoveElement
<1>6. Cardinality(SeqIds) <= Cardinality(Requests) - 1
  BY <1>3, <1>5, FS_Injection
<1>7. Cardinality(SeqIds) = SeqSpace /\ SeqSpace \in Nat \ {0}
  <2>1. SeqSpace \in Nat \ {0}
    BY CacheConstants
  <2>2. 0 \in Int /\ SeqSpace - 1 \in Int /\ ~(0 > SeqSpace - 1) /\ SeqSpace - 1 - 0 + 1 = SeqSpace
    BY <2>1
  <2>3. Cardinality(0 .. SeqSpace - 1) = SeqSpace - 1 - 0 + 1
    BY <2>2, FS_Interval
  <2> QED
    BY <2>1, <2>2, <2>3 DEF SeqIds
<1> QED
  BY <1>4, <1>6, <1>7, IdsSuffice

\* Counting on from next comes to it.
CountedFrom(next, taken) ==
  LET skip == CHOOSE k \in 0 .. SeqSpace - 1 :
                /\ (next + k) % SeqSpace \notin taken
                /\ \A j \in 0 .. k - 1 : (next + j) % SeqSpace \in taken
  IN  (next + skip) % SeqSpace

LEMMA CountingFindsIt ==
  ASSUME NEW next \in SeqIds, NEW taken, NEW s \in SeqIds, s \notin taken
  PROVE  CountedFrom(next, taken) \in SeqIds \ taken
<1>1. SeqSpace \in Nat \ {0} /\ next \in Nat /\ s \in 0 .. SeqSpace - 1 /\ next \in 0 .. SeqSpace - 1
  BY CacheConstants DEF SeqIds
<1> DEFINE K == {k \in 0 .. SeqSpace - 1 : (next + k) % SeqSpace \notin taken}
<1>2. \E k \in 0 .. SeqSpace - 1 : (next + k) % SeqSpace = s
  <2>1. CASE s >= next
    <3>1. s - next \in 0 .. SeqSpace - 1 /\ next + (s - next) = 0 * SeqSpace + s
      BY <1>1, <2>1
    <3>2. (0 * SeqSpace + s) % SeqSpace = s
      BY <1>1, ModUnique
    <3> QED
      BY <3>1, <3>2
  <2>2. CASE s < next
    <3>1. /\ SeqSpace + s - next \in 0 .. SeqSpace - 1
          /\ next + (SeqSpace + s - next) = 1 * SeqSpace + s
      BY <1>1, <2>2
    <3>2. (1 * SeqSpace + s) % SeqSpace = s
      BY <1>1, ModUnique
    <3> QED
      BY <3>1, <3>2
  <2> QED
    BY <1>1, <2>1, <2>2
<1>3. K # {} /\ K \in SUBSET Nat
  <2>1. PICK k \in 0 .. SeqSpace - 1 : (next + k) % SeqSpace = s
    BY <1>2
  <2>2. k \in K
    BY <2>1
  <2>3. 0 .. SeqSpace - 1 \subseteq Nat
    BY <1>1
  <2> QED
    BY <2>2, <2>3
<1>4. PICK k \in K : \A m \in K : k <= m
  <2> HIDE DEF K
  <2> QED
    BY <1>3, Smallest
<1>5. \A j \in 0 .. k - 1 : (next + j) % SeqSpace \in taken
  BY <1>1, <1>4
<1> DEFINE First(n) == /\ (next + n) % SeqSpace \notin taken
                       /\ \A j \in 0 .. n - 1 : (next + j) % SeqSpace \in taken
           skip == CHOOSE n \in 0 .. SeqSpace - 1 : First(n)
<1>6. \E n \in 0 .. SeqSpace - 1 : First(n)
  BY <1>4, <1>5
<1>7. skip \in 0 .. SeqSpace - 1 /\ First(skip)
  <2> HIDE DEF First
  <2> QED
    BY <1>6
<1>8. \A n \in 0 .. SeqSpace - 1 : (next + n) % SeqSpace \in SeqIds
  BY <1>1, DivMod DEF SeqIds
<1>9. CountedFrom(next, taken) = (next + skip) % SeqSpace
  BY DEF CountedFrom
<1> HIDE DEF skip
<1> QED
  BY <1>7, <1>8, <1>9

LEMMA Overriding ==
  ASSUME NEW f, NEW x, NEW v
  PROVE  /\ DOMAIN With(f, x, v) = DOMAIN f \cup {x} /\ With(f, x, v)[x] = v
         /\ \A y \in DOMAIN f : y # x => With(f, x, v)[y] = f[y]
BY DEF With

WithEntry(c, r, s) == [c EXCEPT !.next = (s + 1) % SeqSpace,
                                !.cached = Append(@, [req |-> r, seq |-> s]),
                                !.owner = With(@, s, r)]

\* A request in F gets an id nobody has.
LEMMA AddEntry ==
  ASSUME NEW c, NEW resp, NEW sampled, NEW r, Holding(c, resp, sampled, {r}),
         r \in Requests \ CachedRequests(c), NEW s \in SeqIds, s \notin DOMAIN c.owner
  PROVE  Holding(WithEntry(c, r, s), resp, sampled, {r})
<1> DEFINE e == [req |-> r, seq |-> s]
           cs == Append(c.cached, e)
           ow == With(c.owner, s, r)
           nx == (s + 1) % SeqSpace
<1>1. SUFFICES ASSUME NEW d, d = [c EXCEPT !.next = nx, !.cached = cs, !.owner = ow]
               PROVE  Holding(d, resp, sampled, {r})
  BY DEF WithEntry
<1>2. IsCache(c) /\ Mapped(c)
  BY DEF Holding
<1>3. nx \in SeqIds
  BY CacheConstants, DivMod DEF SeqIds
<1>4. e \in EntryType /\ e.req = r /\ e.seq = s
  BY DEF EntryType
<1> HIDE DEF e
<1>5. /\ cs \in Seq(EntryType) /\ Len(cs) = Len(c.cached) + 1
      /\ DOMAIN c.cached = 1 .. Len(c.cached) /\ Len(c.cached) \in Nat
      /\ DOMAIN cs = 1 .. Len(c.cached) + 1
      /\ \A j \in 1 .. Len(c.cached) : cs[j] = c.cached[j]
      /\ cs[Len(c.cached) + 1] = e
  <2>1. c.cached \in Seq(EntryType)
    BY <1>2 DEF IsCache
  <2> QED
    BY <1>4, <2>1, AppendProperties
<1>6. /\ DOMAIN ow = DOMAIN c.owner \cup {s} /\ ow[s] = r
      /\ \A y \in DOMAIN c.owner : ow[y] = c.owner[y]
      /\ ow \in [DOMAIN ow -> Requests]
  <2>1. /\ DOMAIN ow = DOMAIN c.owner \cup {s} /\ ow[s] = r
        /\ \A y \in DOMAIN c.owner : y # s => ow[y] = c.owner[y]
    BY DEF With
  <2>2. c.owner \in [DOMAIN c.owner -> Requests]
    BY <1>2 DEF IsCache
  <2>3. ow = [y \in DOMAIN ow |-> ow[y]]
    BY DEF With
  <2> HIDE DEF ow
  <2>4. \A y \in DOMAIN ow : ow[y] \in Requests
    BY <2>1, <2>2
  <2> QED
    BY <2>1, <2>3, <2>4
<1> HIDE DEF cs, ow, nx
<1>7. d = [max |-> c.max, local |-> c.local, cached |-> cs, owner |-> ow,
           global |-> c.global, next |-> nx]
  <2>1. c = [max |-> c.max, local |-> c.local, cached |-> c.cached, owner |-> c.owner,
             global |-> c.global, next |-> c.next]
    BY <1>2 DEF IsCache
  <2> QED
    BY <1>1, <2>1
<1>8. Active(d) = Active(c) /\ (Roomy(d) <=> Roomy(c))
  BY <1>7 DEF Active, Roomy
<1>9. IsCache(d)
  BY <1>2, <1>3, <1>5, <1>6, <1>7 DEF IsCache, Active
<1>10. Entries(d) = Entries(c) \cup {e}
  <2>1. \A j \in DOMAIN cs : j \in DOMAIN c.cached \/ j = Len(c.cached) + 1
    BY <1>5
  <2> QED
    BY <1>5, <1>7, <2>1 DEF Entries, ToSet
<1>11. \A j \in DOMAIN c.cached : c.cached[j].req # r /\ c.cached[j].seq # s
  BY <1>2 DEF CachedRequests, Mapped, Entries, ToSet
<1>12. Mapped(d)
  <2>1. \A i, j \in DOMAIN cs : cs[i].req = cs[j].req \/ cs[i].seq = cs[j].seq => i = j
    <3> SUFFICES ASSUME NEW i \in DOMAIN cs, NEW j \in DOMAIN cs,
                        cs[i].req = cs[j].req \/ cs[i].seq = cs[j].seq
                 PROVE  i = j
      OBVIOUS
    <3>1. CASE i \in DOMAIN c.cached /\ j \in DOMAIN c.cached
      BY <1>2, <1>5, <3>1 DEF Mapped
    <3>2. CASE i \notin DOMAIN c.cached \/ j \notin DOMAIN c.cached
      <4>1. /\ i \in DOMAIN c.cached \/ i = Len(c.cached) + 1
            /\ j \in DOMAIN c.cached \/ j = Len(c.cached) + 1
        BY <1>5
      <4>2. cs[Len(c.cached) + 1].req = r /\ cs[Len(c.cached) + 1].seq = s
        BY <1>4, <1>5
      <4>3. \A k \in DOMAIN c.cached : cs[k].req # r /\ cs[k].seq # s
        BY <1>5, <1>11
      <4> HIDE DEF cs
      <4> QED
        BY <3>2, <4>1, <4>2, <4>3
    <3> QED
      BY <3>1, <3>2
  <2>2. DOMAIN c.owner = {x.seq : x \in Entries(c)} /\ \A x \in Entries(c) : c.owner[x.seq] = x.req
    BY <1>2 DEF Mapped
  <2>3. DOMAIN ow = {x.seq : x \in Entries(d)}
    BY <1>4, <1>6, <1>10, <2>2
  <2>4. \A x \in Entries(d) : ow[x.seq] = x.req
    BY <1>4, <1>6, <1>10, <2>2
  <2> QED
    BY <1>7, <2>1, <2>3, <2>4 DEF Mapped
<1>13. Holding(d, resp, sampled, {r})
  <2>1. /\ {r} \subseteq Active(d) /\ \A x \in {r} : resp[x] = <<>>
        /\ resp \in [Active(d) -> Seq(Nat)]
        /\ \A x \in Active(d) : d.local[x] = <<0>> \o resp[x] /\ Recent(resp[x], sampled[x])
    BY <1>7, <1>8 DEF Holding
  <2>2. \A x \in Entries(d) : x.req \in Active(d) \ {r} => d.global[x.seq] = resp[x.req]
    BY <1>4, <1>7, <1>8, <1>10 DEF Holding
  <2>3. {y \in Entries(d) : y.req \notin {r}} = {y \in Entries(c) : y.req \notin {r}}
    BY <1>4, <1>10
  <2>4. DOMAIN d.global = {x.seq : x \in {y \in Entries(d) : y.req \notin {r}}}
    BY <1>7, <2>3 DEF Holding
  <2>5. CachedRequests(c) \subseteq CachedRequests(d)
    <3>1. \A z : CachedRequests(z) = {x.req : x \in Entries(z)}
      BY DEF CachedRequests, Entries, ToSet
    <3> QED
      BY <1>10, <3>1
  <2>6. Roomy(d) => Active(d) \ {r} \subseteq CachedRequests(d)
    BY <1>8, <2>5 DEF Holding
  <2> QED
    BY <1>9, <1>12, <2>1, <2>2, <2>4, <2>6 DEF Holding
<1> QED
  BY <1>13

LEMMA EntryAtTheEnd ==
  ASSUME NEW c, IsCache(c), NEW r \in Requests, NEW s \in SeqIds
  PROVE  LET d == WithEntry(c, r, s)
         IN /\ d.max = c.max /\ d.local = c.local
            /\ Len(d.cached) = Len(c.cached) + 1
            /\ d.cached[Len(d.cached)] = [req |-> r, seq |-> s]
<1>1. PICK e : e = [req |-> r, seq |-> s]
  OBVIOUS
<1>2. e \in EntryType /\ c.cached \in Seq(EntryType)
  BY <1>1 DEF IsCache, EntryType
<1>3. PICK d : d = WithEntry(c, r, s)
  OBVIOUS
<1>4. d.max = c.max /\ d.local = c.local /\ d.cached = Append(c.cached, e)
  <2>1. c = [max |-> c.max, local |-> c.local, cached |-> c.cached, owner |-> c.owner,
             global |-> c.global, next |-> c.next]
    BY DEF IsCache
  <2> QED
    BY <1>1, <1>3, <2>1 DEF WithEntry
<1> QED
  BY <1>1, <1>2, <1>3, <1>4, AppendProperties

\* The oldest request leaves when there are too many; it is not the newest.
LEMMA EvictsOldest ==
  ASSUME NEW c, NEW resp, NEW sampled, NEW r, Holding(c, resp, sampled, {r}),
         Len(c.cached) > 0, c.cached[Len(c.cached)].req = r,
         c.max \in Nat => c.max > 0 /\ Len(c.cached) <= c.max + 1
  PROVE  LET d == MaybeEvict(c)
         IN /\ Holding(d, resp, sampled, {r}) /\ Bounded(d)
            /\ Active(d) = Active(c) /\ r \in CachedRequests(d)
<1> DEFINE N == Len(c.cached)
<1>1. IsCache(c) /\ Mapped(c) /\ c.max \in Nat \cup {Unlimited} /\ Unlimited \notin Nat
  BY CacheConstants DEF Holding, IsCache
<1>2. N \in Nat /\ DOMAIN c.cached = 1 .. N /\ N \in DOMAIN c.cached
  BY <1>1 DEF IsCache
<1>3. r \in CachedRequests(c)
  BY <1>2 DEF CachedRequests
<1>4. CASE c.max = Unlimited \/ N <= c.max
  <2>1. MaybeEvict(c) = c
    BY <1>1, <1>2, <1>4 DEF MaybeEvict
  <2> QED
    BY <1>1, <1>3, <1>4, <2>1 DEF Bounded
<1>5. CASE ~(c.max = Unlimited \/ N <= c.max)
  <2>1. c.max \in Nat /\ N - c.max = 1 /\ N > 1
    BY <1>1, <1>2, <1>5
  <2> DEFINE evicted == [k \in 0 .. 1 |-> IF k = 0 THEN c
                                          ELSE EvictCachedResponse(c, c.cached[1].req)]
             Fixed(f) == f = [k \in 0 .. 1 |->
                                IF k = 0 THEN c
                                ELSE EvictCachedResponse(f[k - 1], f[k - 1].cached[1].req)]
  <2>2. Fixed(evicted)
    <3>1. \A k \in 0 .. 1 : k # 0 => k - 1 = 0 /\ evicted[k - 1] = c
      OBVIOUS
    <3> QED
      BY <3>1
  <2>3. \A f : Fixed(f) => f[1] = EvictCachedResponse(c, c.cached[1].req)
    <3> SUFFICES ASSUME NEW f, Fixed(f) PROVE f[1] = EvictCachedResponse(c, c.cached[1].req)
      OBVIOUS
    <3>1. f[0] = c
      OBVIOUS
    <3>2. f[1] = EvictCachedResponse(f[0], f[0].cached[1].req)
      OBVIOUS
    <3> QED
      BY <3>1, <3>2
  <2>4. MaybeEvict(c) = (CHOOSE f : Fixed(f))[1]
    <3>1. ~(c.max = Unlimited \/ Len(c.cached) - c.max <= 0) /\ Len(c.cached) - c.max = 1
      BY <1>5, <2>1
    <3> QED
      BY <3>1 DEF MaybeEvict
  <2>5. Fixed(CHOOSE f : Fixed(f))
    <3> HIDE DEF Fixed
    <3> QED
      BY <2>2
  <2>6. MaybeEvict(c) = EvictCachedResponse(c, c.cached[1].req)
    <3> HIDE DEF Fixed
    <3> QED
      BY <2>3, <2>4, <2>5
  <2>7. 1 \in DOMAIN c.cached /\ c.cached[1].req # r
    <3>1. 1 \in DOMAIN c.cached /\ N \in DOMAIN c.cached /\ N # 1
      BY <1>2, <2>1
    <3>2. c.cached[1].req = c.cached[N].req => 1 = N
      BY <1>1, <3>1 DEF Mapped
    <3> QED
      BY <3>1, <3>2
  <2>8. ~Roomy(c)
    BY <1>1, <2>1, FewEntries DEF Roomy
  <2> PICK d : d = EvictCachedResponse(c, c.cached[1].req)
    OBVIOUS
  <2>9. Holding(d, resp, sampled, {r})
    BY <2>7, <2>8, EvictHolds
  <2>10. /\ Len(d.cached) = N - 1 /\ d.max = c.max /\ d.local = c.local
         /\ Entries(d) = Entries(c) \ {c.cached[1]}
    BY <1>1, <2>7, Evicted
  <2>11. r \in CachedRequests(d)
    <3>1. \A z : CachedRequests(z) = {x.req : x \in Entries(z)}
      BY DEF CachedRequests, Entries, ToSet
    <3>2. c.cached[N] \in Entries(d) /\ c.cached[N].req = r
      BY <1>2, <2>7, <2>10 DEF Entries, ToSet
    <3> QED
      BY <3>1, <3>2
  <2>12. Bounded(d) /\ Active(d) = Active(c)
    BY <1>2, <2>1, <2>10 DEF Bounded, Active
  <2> QED
    BY <2>6, <2>9, <2>11, <2>12
<1> QED
  BY <1>4, <1>5

LEMMA GeneratesId ==
  ASSUME NEW c, NEW resp, NEW sampled, NEW r, Holding(c, resp, sampled, {r}), Bounded(c),
         r \in Requests \ CachedRequests(c), c.max # 0
  PROVE  LET d == GenerateSeqId(c, r)
         IN /\ Holding(d, resp, sampled, {r}) /\ Bounded(d)
            /\ Active(d) = Active(c) /\ r \in CachedRequests(d)
<1> DEFINE taken == {s \in DOMAIN c.owner : c.owner[s] \in Active(c)}
<1>1. IsCache(c) /\ Mapped(c) /\ c.next \in SeqIds /\ r \in Active(c)
  BY DEF Holding, IsCache
<1>2. PICK t \in SeqIds : t \notin taken
  BY <1>1, SomeIdFree
<1>3. PICK s : s = CountedFrom(c.next, taken)
  OBVIOUS
<1>4. s \in SeqIds \ taken
  <2> HIDE DEF taken
  <2> QED
    BY <1>1, <1>2, <1>3, CountingFindsIt
<1>5. PICK b : b = IF s \in DOMAIN c.owner THEN EvictCachedResponse(c, c.owner[s]) ELSE c
  OBVIOUS
<1>6. GenerateSeqId(c, r) = MaybeEvict(WithEntry(b, r, s))
  <2>1. FreeId(c) = s
    BY <1>3 DEF FreeId, CountedFrom
  <2> QED
    BY <1>5, <2>1, Zenon DEF GenerateSeqId, TakeId, WithEntry
<1>7. /\ Holding(b, resp, sampled, {r}) /\ b.max = c.max /\ Active(b) = Active(c)
      /\ Len(b.cached) <= Len(c.cached) /\ Len(b.cached) \in Nat
      /\ r \notin CachedRequests(b) /\ s \notin DOMAIN b.owner
  <2>1. Len(c.cached) \in Nat
    BY <1>1 DEF IsCache
  <2>2. CASE s \notin DOMAIN c.owner
    BY <1>5, <2>1, <2>2
  <2>3. CASE s \in DOMAIN c.owner
    <3>1. PICK i \in DOMAIN c.cached : c.cached[i].seq = s /\ c.cached[i].req = c.owner[s]
      BY <1>1, <2>3 DEF Mapped, Entries, ToSet
    <3>2. c.owner[s] \notin Active(c)
      BY <1>4, <2>3
    <3>3. c.cached[i].req \notin Active(c) /\ c.cached[i].req \notin {r}
      BY <1>1, <3>1, <3>2
    <3>4. b = EvictCachedResponse(c, c.cached[i].req)
      BY <1>5, <2>3, <3>1
    <3>5. Holding(b, resp, sampled, {r})
      BY <3>3, <3>4, EvictHolds
    <3>6. /\ b.max = c.max /\ b.local = c.local /\ Len(b.cached) = Len(c.cached) - 1
          /\ Entries(b) = Entries(c) \ {c.cached[i]} /\ DOMAIN b.owner = DOMAIN c.owner \ {s}
          /\ IsCache(b)
      BY <1>1, <3>1, <3>4, Evicted
    <3>7. \A z : CachedRequests(z) = {x.req : x \in Entries(z)}
      BY DEF CachedRequests, Entries, ToSet
    <3>8. r \notin CachedRequests(b)
      BY <3>6, <3>7
    <3>9. Len(b.cached) \in Nat /\ Len(b.cached) <= Len(c.cached)
      BY <2>1, <3>6 DEF IsCache
    <3> QED
      BY <3>5, <3>6, <3>8, <3>9 DEF Active
  <2> QED
    BY <2>2, <2>3
<1>8. PICK d : d = WithEntry(b, r, s)
  OBVIOUS
<1>9. /\ Holding(d, resp, sampled, {r}) /\ d.max = b.max /\ Active(d) = Active(b)
      /\ Len(d.cached) = Len(b.cached) + 1
      /\ d.cached[Len(d.cached)] = [req |-> r, seq |-> s]
  <2>1. /\ Holding(b, resp, sampled, {r}) /\ r \in Requests \ CachedRequests(b)
        /\ s \in SeqIds /\ s \notin DOMAIN b.owner
    BY <1>4, <1>7
  <2> HIDE DEF taken
  <2>2. Holding(WithEntry(b, r, s), resp, sampled, {r})
    BY <2>1, AddEntry
  <2>3. IsCache(b) /\ r \in Requests
    BY <2>1 DEF Holding
  <2>4. /\ d.max = b.max /\ d.local = b.local /\ Len(d.cached) = Len(b.cached) + 1
        /\ d.cached[Len(d.cached)] = [req |-> r, seq |-> s]
    BY <1>8, <2>1, <2>3, EntryAtTheEnd
  <2> QED
    BY <1>8, <2>2, <2>4 DEF Active
<1>10. /\ Len(d.cached) > 0 /\ d.cached[Len(d.cached)].req = r
       /\ d.max \in Nat => d.max > 0 /\ Len(d.cached) <= d.max + 1
  <2>1. d.max \in Nat => Len(c.cached) <= c.max
    BY <1>7, <1>9, CacheConstants DEF Bounded
  <2>2. Len(c.cached) \in Nat
    BY <1>1 DEF IsCache
  <2> QED
    BY <1>7, <1>9, <2>1, <2>2
<1>11. /\ Holding(MaybeEvict(d), resp, sampled, {r}) /\ Bounded(MaybeEvict(d))
       /\ Active(MaybeEvict(d)) = Active(d) /\ r \in CachedRequests(MaybeEvict(d))
  BY <1>9, <1>10, EvictsOldest
<1> QED
  BY <1>6, <1>7, <1>8, <1>9, <1>11

\* start_request()
LEMMA Starts ==
  ASSUME NEW c, NEW resp, NEW sampled, Holding(c, resp, sampled, {}), Bounded(c),
         NEW r \in Requests \ Active(c), r \notin CachedRequests(c), sampled[r] \in Nat
  PROVE  LET d == StartRequest(c, r, <<0>>)
         IN /\ Holding(d, With(resp, r, <<>>), sampled, {r}) /\ Bounded(d)
            /\ Active(d) = Active(c) \cup {r}
            /\ Roomy(d) => r \in CachedRequests(d)
<1> DEFINE lo == With(c.local, r, <<0>>)
           re == With(resp, r, <<>>)
<1>1. PICK d : d = [c EXCEPT !.local = lo]
  OBVIOUS
<1>2. IsCache(c) /\ Mapped(c) /\ resp \in [Active(c) -> Seq(Nat)]
  BY DEF Holding
<1>3. /\ lo = [x \in Active(c) \cup {r} |-> IF x = r THEN <<0>> ELSE c.local[x]]
      /\ re = [x \in Active(c) \cup {r} |-> IF x = r THEN <<>> ELSE resp[x]]
  BY <1>2 DEF With, IsCache, Active
<1>4. <<0>> \in Seq(Nat) /\ <<>> \in Seq(Nat)
  OBVIOUS
<1>5. /\ lo \in [Active(c) \cup {r} -> Seq(Nat)] /\ re \in [Active(c) \cup {r} -> Seq(Nat)]
      /\ lo[r] = <<0>> /\ re[r] = <<>>
      /\ \A x \in Active(c) : lo[x] = c.local[x] /\ re[x] = resp[x]
  <2>1. c.local \in [Active(c) -> Seq(Nat)]
    BY <1>2 DEF IsCache
  <2> HIDE DEF lo, re
  <2> QED
    BY <1>2, <1>3, <1>4, <2>1
<1> HIDE DEF lo, re
<1>6. d = [max |-> c.max, local |-> lo, cached |-> c.cached, owner |-> c.owner,
           global |-> c.global, next |-> c.next]
  <2>1. c = [max |-> c.max, local |-> c.local, cached |-> c.cached, owner |-> c.owner,
             global |-> c.global, next |-> c.next]
    BY <1>2 DEF IsCache
  <2> QED
    BY <1>1, <2>1
<1>7. Active(d) = Active(c) \cup {r} /\ (Roomy(d) <=> Roomy(c)) /\ Bounded(d)
  BY <1>5, <1>6 DEF Active, Roomy, Bounded
<1>8. IsCache(d)
  <2>1. Active(d) \subseteq Requests /\ d.local \in [Active(d) -> Seq(Nat)]
    BY <1>2, <1>5, <1>6, <1>7 DEF IsCache
  <2> QED
    BY <1>2, <1>6, <2>1 DEF IsCache
<1>9. Entries(d) = Entries(c) /\ CachedRequests(d) = CachedRequests(c)
  BY <1>6 DEF Entries, CachedRequests
<1>10. Mapped(d)
  BY <1>2, <1>6, <1>9 DEF Mapped
<1>11. \A x \in Entries(c) : x.req # r
  BY DEF CachedRequests, Entries, ToSet
<1>12. Holding(d, re, sampled, {r})
  <2>1. <<>> = [i \in DOMAIN <<>> |-> sampled[r] - Len(<<>>) + i] /\ <<0>> = <<0>> \o <<>>
    BY <1>4, ConcatEmptySeq
  <2>2. \A x \in Active(d) : d.local[x] = <<0>> \o re[x] /\ Recent(re[x], sampled[x])
    <3>1. \A x \in Active(c) : c.local[x] = <<0>> \o resp[x] /\ Recent(resp[x], sampled[x])
      BY DEF Holding
    <3>2. d.local[r] = <<0>> \o re[r] /\ Recent(re[r], sampled[r])
      BY <1>5, <1>6, <2>1 DEF Recent
    <3> QED
      BY <1>5, <1>6, <1>7, <3>1, <3>2
  <2>3. \A x \in Entries(d) : x.req \in Active(d) \ {r} => d.global[x.seq] = re[x.req]
    BY <1>5, <1>6, <1>7, <1>9 DEF Holding
  <2>4. DOMAIN d.global = {x.seq : x \in {y \in Entries(d) : y.req \notin {r}}}
    <3>1. DOMAIN c.global = {x.seq : x \in {y \in Entries(c) : y.req \notin {}}}
      BY DEF Holding
    <3>2. {y \in Entries(d) : y.req \notin {r}} = {y \in Entries(c) : y.req \notin {}}
      BY <1>9, <1>11
    <3> QED
      BY <1>6, <3>1, <3>2
  <2>5. Roomy(d) => Active(d) \ {r} \subseteq CachedRequests(d)
    BY <1>7, <1>9 DEF Holding
  <2> QED
    BY <1>5, <1>7, <1>8, <1>10, <2>2, <2>3, <2>4, <2>5 DEF Holding
<1>13. CASE c.max = 0
  <2>1. StartRequest(c, r, <<0>>) = d
    BY <1>1, <1>13 DEF StartRequest, lo
  <2>2. ~Roomy(d)
    <3>1. Cardinality(Requests) # 0 /\ Cardinality(Requests) \in Nat
      BY SpecConstants, FS_EmptySet, FS_CardinalityType
    <3> QED
      BY <1>6, <1>13, <3>1, CacheConstants DEF Roomy
  <2> QED
    BY <1>7, <1>12, <2>1, <2>2 DEF re
<1>14. CASE c.max # 0
  <2>1. r \notin CachedRequests(d)
    BY <1>9
  <2>2. StartRequest(c, r, <<0>>) = GenerateSeqId(d, r)
    BY <1>1, <1>14, <2>1 DEF StartRequest, lo
  <2>3. d.max # 0
    BY <1>6, <1>14
  <2>4. /\ Holding(GenerateSeqId(d, r), re, sampled, {r}) /\ Bounded(GenerateSeqId(d, r))
        /\ Active(GenerateSeqId(d, r)) = Active(d) /\ r \in CachedRequests(GenerateSeqId(d, r))
    BY <1>7, <1>12, <2>1, <2>3, GeneratesId
  <2> QED
    BY <1>7, <2>2, <2>4 DEF re
<1> QED
  BY <1>13, <1>14

\* The next k tokens after the first n.
Following(n, k) == [i \in 1 .. k |-> n + i]

LEMMA Associates == \A s, t, u \in Seq(Nat) : (s \o t) \o u = s \o (t \o u)
BY SMTT(40)

\* The kept responses with that of r made longer, and the counts of tokens to fit.
Grown(resp, r, toks) == [resp EXCEPT ![r] = @ \o toks]
Ahead(sampled, r, k) == [sampled EXCEPT ![r] = @ + k]

LEMMA RecentGrows ==
  ASSUME NEW s \in Seq(Nat), NEW n \in Nat, NEW k \in Nat, Recent(s, n)
  PROVE  s \o Following(n, k) \in Seq(Nat) /\ Recent(s \o Following(n, k), n + k)
<1>1. PICK t : t = Following(n, k)
  OBVIOUS
<1>2. t \in Seq(Nat) /\ Len(t) = k /\ \A i \in 1 .. k : t[i] = n + i
  BY <1>1 DEF Following
<1>3. Len(s) \in Nat /\ \A i \in 1 .. Len(s) : s[i] = n - Len(s) + i
  BY DEF Recent
<1>4. PICK u : u = s \o t
  OBVIOUS
<1>5. /\ u \in Seq(Nat) /\ Len(u) = Len(s) + k
      /\ \A i \in 1 .. Len(s) + k : u[i] = IF i <= Len(s) THEN s[i] ELSE t[i - Len(s)]
  BY <1>2, <1>4, ConcatProperties
<1>6. \A i \in 1 .. Len(u) : u[i] = (n + k) - Len(u) + i
  <2> TAKE i \in 1 .. Len(u)
  <2>1. CASE i <= Len(s)
    BY <1>3, <1>5, <2>1, SMTT(40)
  <2>2. CASE i > Len(s)
    <3>1. i - Len(s) \in 1 .. k
      BY <1>3, <1>5, <2>2
    <3>2. u[i] = n + (i - Len(s))
      BY <1>2, <1>3, <1>5, <2>2, <3>1
    <3> QED
      BY <1>3, <1>5, <3>1, <3>2
  <2> QED
    BY <1>3, <1>5, <2>1, <2>2
<1>7. u = [i \in 1 .. Len(u) |-> u[i]] /\ DOMAIN u = 1 .. Len(u)
  BY <1>5
<1>8. Recent(u, n + k)
  BY <1>6, <1>7 DEF Recent
<1> QED
  BY <1>1, <1>4, <1>5, <1>8

\* add_active_response() makes all copies of the response longer.
LEMMA Adds ==
  ASSUME NEW c, NEW resp, NEW sampled \in [Requests -> Nat], NEW F, Holding(c, resp, sampled, F),
         Bounded(c), NEW r \in Active(c), F \subseteq {r}, NEW k \in Nat,
         Roomy(c) => r \in CachedRequests(c), NEW toks, toks = Following(sampled[r], k)
  PROVE  LET d == AddActiveResponse(c, r, toks)
         IN /\ Holding(d, Grown(resp, r, toks), Ahead(sampled, r, k), {})
            /\ Bounded(d) /\ Active(d) = Active(c)
<1>2. SUFFICES ASSUME NEW d, d = AddActiveResponse(c, r, toks),
                      NEW re, re = Grown(resp, r, toks),
                      NEW sa, sa = Ahead(sampled, r, k)
               PROVE  Holding(d, re, sa, {}) /\ Bounded(d) /\ Active(d) = Active(c)
  BY DEF Grown, Ahead
<1>1. /\ IsCache(c) /\ Mapped(c) /\ r \in Requests /\ sampled[r] \in Nat
      /\ resp \in [Active(c) -> Seq(Nat)] /\ c.local \in [Active(c) -> Seq(Nat)]
      /\ \A x \in Active(c) : c.local[x] = <<0>> \o resp[x] /\ Recent(resp[x], sampled[x])
  BY DEF Holding, IsCache
<1>3. /\ toks \in Seq(Nat) /\ resp[r] \o toks \in Seq(Nat)
      /\ Recent(resp[r] \o toks, sampled[r] + k)
  BY <1>1, RecentGrows DEF Following
<1>6. /\ re \in [Active(c) -> Seq(Nat)] /\ re[r] = resp[r] \o toks
      /\ \A x \in Active(c) : x # r => re[x] = resp[x]
      /\ sa[r] = sampled[r] + k /\ \A x \in Requests : x # r => sa[x] = sampled[x]
  BY <1>1, <1>2, <1>3 DEF Grown, Ahead
<1> DEFINE lo == [c.local EXCEPT ![r] = @ \o toks]
           s  == SeqId(c, r)
           old == IF s \in DOMAIN c.global THEN c.global[s] ELSE <<>>
           gl == IF r \notin CachedRequests(c) THEN c.global ELSE With(c.global, s, old \o toks)
<1>8. c = [max |-> c.max, local |-> c.local, cached |-> c.cached, owner |-> c.owner,
           global |-> c.global, next |-> c.next]
  BY <1>1 DEF IsCache
<1>9. d = [max |-> c.max, local |-> lo, cached |-> c.cached, owner |-> c.owner,
           global |-> gl, next |-> c.next]
  <2>1. PICK l : l = lo
    OBVIOUS
  <2>2. PICK g : g = With(c.global, s, old \o toks)
    OBVIOUS
  <2>3. d = IF r \notin CachedRequests(c) THEN [c EXCEPT !.local = l]
            ELSE [[c EXCEPT !.local = l] EXCEPT !.global = g]
    BY <1>2, <1>8, <2>1, <2>2 DEF AddActiveResponse
  <2> HIDE DEF lo, s, old
  <2> QED
    BY <1>8, <2>1, <2>2, <2>3
<1>10. /\ lo \in [Active(c) -> Seq(Nat)] /\ \A x \in Active(c) : lo[x] = <<0>> \o re[x]
  <2>1. c.local[r] \o toks = <<0>> \o re[r]
    <3>1. <<0>> \in Seq(Nat) /\ resp[r] \in Seq(Nat)
      BY <1>1
    <3>2. (<<0>> \o resp[r]) \o toks = <<0>> \o (resp[r] \o toks)
      <4>1. PICK a : a = <<0>>
        OBVIOUS
      <4>2. a \in Seq(Nat) /\ resp[r] \in Seq(Nat) /\ toks \in Seq(Nat)
        BY <1>3, <3>1, <4>1
      <4>3. (a \o resp[r]) \o toks = a \o (resp[r] \o toks)
        BY <4>2, Associates, Zenon
      <4> QED
        BY <4>1, <4>3
    <3> QED
      BY <1>1, <1>6, <3>2
  <2>2. c.local[r] \o toks \in Seq(Nat)
    BY <1>1, <1>3, ConcatProperties
  <2> QED
    BY <1>1, <1>6, <2>1, <2>2
<1> HIDE DEF lo
<1>11. Active(d) = Active(c) /\ Entries(d) = Entries(c) /\ CachedRequests(d) = CachedRequests(c)
  BY <1>9, <1>10 DEF Active, Entries, CachedRequests
<1>12. /\ Bounded(d) /\ (Roomy(d) <=> Roomy(c)) /\ Mapped(d)
  <2>1. d.max = c.max /\ d.cached = c.cached /\ d.owner = c.owner
    BY <1>9
  <2> HIDE DEF gl
  <2>2. Mapped(d)
    BY <1>1, <1>11, <2>1 DEF Mapped
  <2> QED
    BY <2>1, <2>2 DEF Bounded, Roomy
<1>13. DOMAIN c.global = {x.seq : x \in {y \in Entries(c) : y.req \notin F}}
  BY DEF Holding
<1>14. \A x, y \in Entries(c) : x.req = y.req \/ x.seq = y.seq => x = y
  <2> TAKE x, y \in Entries(c)
  <2>1. PICK i \in DOMAIN c.cached : x = c.cached[i]
    BY DEF Entries, ToSet
  <2>2. PICK j \in DOMAIN c.cached : y = c.cached[j]
    BY DEF Entries, ToSet
  <2> QED
    BY <1>1, <2>1, <2>2 DEF Mapped
<1>15. r \in CachedRequests(c) =>
         \E e \in Entries(c) : e.req = r /\ e.seq = s /\ old = resp[r]
  <2> SUFFICES ASSUME r \in CachedRequests(c)
               PROVE  \E e \in Entries(c) : e.req = r /\ e.seq = s /\ old = resp[r]
    OBVIOUS
  <2>1. PICK i \in DOMAIN c.cached : c.cached[i].req = r
    BY DEF CachedRequests
  <2>2. PICK e : e = c.cached[i]
    OBVIOUS
  <2>3. e \in Entries(c) /\ e.req = r /\ e.seq = s
    BY <1>1, <2>1, <2>2, EntryOf
  <2>4. CASE r \in F
    <3>1. s \notin DOMAIN c.global
      BY <1>13, <1>14, <2>3, <2>4
    <3>2. resp[r] = <<>>
      BY <2>4 DEF Holding
    <3> QED
      BY <2>3, <3>1, <3>2
  <2>5. CASE r \notin F
    <3>1. s \in DOMAIN c.global
      BY <1>13, <2>3, <2>5
    <3>2. c.global[s] = resp[r]
      BY <2>3, <2>5 DEF Holding
    <3> QED
      BY <2>3, <3>1, <3>2
  <2> QED
    BY <2>4, <2>5
<1>16. /\ DOMAIN gl = {x.seq : x \in Entries(c)} /\ gl \in [DOMAIN gl -> Seq(Nat)]
       /\ \A x \in Entries(c) : x.req \in Active(c) => gl[x.seq] = re[x.req]
  <2>1. c.global \in [DOMAIN c.global -> Seq(Nat)]
    BY <1>1 DEF IsCache
  <2>2. CASE r \notin CachedRequests(c)
    <3>1. \A x \in Entries(c) : x.req # r /\ x.req \notin F
      BY <2>2 DEF CachedRequests, Entries, ToSet
    <3>2. DOMAIN gl = {x.seq : x \in Entries(c)} /\ gl = c.global
      BY <1>13, <2>2, <3>1
    <3>3. \A x \in Entries(c) : x.req \in Active(c) => c.global[x.seq] = resp[x.req]
      BY <3>1 DEF Holding
    <3> QED
      BY <1>6, <2>1, <3>1, <3>2, <3>3
  <2>3. CASE r \in CachedRequests(c)
    <3>1. PICK e \in Entries(c) : e.req = r /\ e.seq = s /\ old = resp[r]
      BY <1>15, <2>3
    <3>2. gl = With(c.global, s, re[r])
      BY <1>6, <2>3, <3>1
    <3> HIDE DEF gl, s, old
    <3>3. gl = [y \in DOMAIN c.global \cup {s} |-> IF y = s THEN re[r] ELSE c.global[y]]
      BY <3>2 DEF With
    <3>4. DOMAIN gl = DOMAIN c.global \cup {s} /\ gl[s] = re[r]
          /\ \A y \in DOMAIN c.global : y # s => gl[y] = c.global[y]
      BY <3>3
    <3>5. gl \in [DOMAIN gl -> Seq(Nat)]
      <4>1. re[r] \in Seq(Nat)
        BY <1>6
      <4> QED
        BY <2>1, <3>3, <4>1
    <3>6. DOMAIN gl = {x.seq : x \in Entries(c)}
      BY <1>13, <1>14, <3>1, <3>4
    <3>7. \A x \in Entries(c) : x.req \in Active(c) => gl[x.seq] = re[x.req]
      <4> SUFFICES ASSUME NEW x \in Entries(c), x.req \in Active(c) PROVE gl[x.seq] = re[x.req]
        OBVIOUS
      <4>1. CASE x = e
        BY <3>1, <3>4, <4>1
      <4>2. CASE x # e
        <5>1. x.req # r /\ x.seq # s
          BY <1>14, <3>1, <4>2
        <5>2. x.req \notin F
          BY <5>1
        <5>3. x.seq \in DOMAIN c.global /\ c.global[x.seq] = resp[x.req]
          BY <1>13, <5>2 DEF Holding
        <5> QED
          BY <1>6, <3>4, <5>1, <5>3
      <4> QED
        BY <4>1, <4>2
    <3> QED
      BY <3>5, <3>6, <3>7
  <2> QED
    BY <2>2, <2>3
<1> HIDE DEF gl
<1>17. IsCache(d)
  BY <1>1, <1>9, <1>10, <1>11, <1>16 DEF IsCache
<1>18. Holding(d, re, sa, {})
  <2>1. \A x \in Active(d) : d.local[x] = <<0>> \o re[x] /\ Recent(re[x], sa[x])
    <3>1. Active(c) \subseteq Requests /\ d.local = lo /\ Active(d) = Active(c)
      BY <1>1, <1>9, <1>11 DEF IsCache
    <3>2. Recent(re[r], sa[r])
      BY <1>3, <1>6
    <3>3. \A x \in Active(c) : x # r => Recent(re[x], sa[x])
      BY <1>1, <1>6, <3>1
    <3> QED
      BY <1>10, <3>1, <3>2, <3>3
  <2>2. /\ DOMAIN d.global = {x.seq : x \in {y \in Entries(d) : y.req \notin {}}}
        /\ \A x \in Entries(d) : x.req \in Active(d) \ {} => d.global[x.seq] = re[x.req]
    <3>1. {y \in Entries(d) : y.req \notin {}} = Entries(c)
      BY <1>11
    <3> QED
      BY <1>9, <1>11, <1>16, <3>1
  <2>3. Roomy(d) => Active(d) \ {} \subseteq CachedRequests(d)
    BY <1>11, <1>12 DEF Holding
  <2> QED
    BY <1>6, <1>11, <1>12, <1>17, <2>1, <2>2, <2>3 DEF Holding
<1> QED
  BY <1>11, <1>12, <1>18

\* Feed(), of the next k tokens sampled for r.
LEMMA Feeds ==
  ASSUME NEW w, NEW sampled \in [Requests -> Nat], Holding(w.cache, w.response, sampled, {}),
         w = [cache |-> w.cache, response |-> w.response],
         Bounded(w.cache), NEW r \in Requests, NEW k \in Nat
  PROVE  LET v == Feed(w, r, Following(sampled[r], k))
         IN /\ Holding(v.cache, v.response, Ahead(sampled, r, k), {})
            /\ Bounded(v.cache) /\ v = [cache |-> v.cache, response |-> v.response]
<1>1. PICK toks : toks = Following(sampled[r], k)
  OBVIOUS
<1>2. toks \in Seq(Nat) /\ (toks = <<>> <=> k = 0)
  BY <1>1 DEF Following
<1>3. PICK c : c = w.cache
  OBVIOUS
<1>4. PICK resp : resp = w.response
  OBVIOUS
<1>5. PICK sa : sa = Ahead(sampled, r, k)
  OBVIOUS
<1>6. Holding(c, resp, sampled, {}) /\ Bounded(c) /\ IsCache(c) /\ Mapped(c)
  BY <1>3, <1>4 DEF Holding
<1>7. PICK v : v = Feed(w, r, toks)
  OBVIOUS
<1> SUFFICES Holding(v.cache, v.response, sa, {}) /\ Bounded(v.cache)
             /\ v = [cache |-> v.cache, response |-> v.response]
  BY <1>1, <1>5, <1>7
<1>8. CASE k = 0
  <2>1. v = w
    BY <1>2, <1>7, <1>8 DEF Feed
  <2>2. sa = sampled
    <3>1. sampled[r] \in Nat
      OBVIOUS
    <3>2. sampled[r] + 0 = sampled[r]
      BY <3>1
    <3> QED
      BY <1>5, <1>8, <3>2 DEF Ahead
  <2> QED
    BY <1>3, <1>4, <1>6, <2>1, <2>2
<1>9. CASE k # 0 /\ r \in Active(c)
  <2>1. v = [cache |-> AddActiveResponse(c, r, toks), response |-> Grown(resp, r, toks)]
    BY <1>2, <1>3, <1>4, <1>7, <1>9, Zenon DEF Feed, Grown
  <2>2. Roomy(c) => r \in CachedRequests(c)
    BY <1>6, <1>9 DEF Holding
  <2>3. {} \subseteq {r} /\ r \in Active(c)
    BY <1>9
  <2>4. PICK d : d = AddActiveResponse(c, r, toks)
    OBVIOUS
  <2>5. PICK re : re = Grown(resp, r, toks)
    OBVIOUS
  <2>6. Holding(d, re, sa, {}) /\ Bounded(d)
    <3>1. /\ Holding(c, resp, sampled, {}) /\ Bounded(c) /\ sampled \in [Requests -> Nat]
          /\ k \in Nat /\ toks = Following(sampled[r], k)
      BY <1>1, <1>6
    <3> QED
      BY <1>5, <2>2, <2>3, <2>4, <2>5, <3>1, Adds
  <2> QED
    BY <2>1, <2>4, <2>5, <2>6
<1>10. CASE k # 0 /\ r \notin Active(c)
  <2>1. PICK c0 : c0 = IF r \in CachedRequests(c) THEN EvictCachedResponse(c, r) ELSE c
    OBVIOUS
  <2>2. PICK c1 : c1 = StartRequest(c0, r, <<0>>)
    OBVIOUS
  <2>3. PICK re : re = With(resp, r, <<>>)
    OBVIOUS
  <2>4. v = [cache |-> AddActiveResponse(c1, r, toks), response |-> Grown(re, r, toks)]
    <3>1. PICK w1 : w1 = IF r \in Active(w.cache) THEN w
                         ELSE [cache |-> StartRequest(c0, r, <<0>>),
                               response |-> With(w.response, r, <<>>)]
      OBVIOUS
    <3>2. w1 = [cache |-> c1, response |-> re]
      BY <1>3, <1>4, <1>10, <2>2, <2>3, <3>1
    <3>3. v = [cache |-> AddActiveResponse(w1.cache, r, toks),
               response |-> [w1.response EXCEPT ![r] = @ \o toks]]
      BY <1>2, <1>3, <1>7, <1>10, <2>1, <3>1, Zenon DEF Feed
    <3> QED
      BY <3>2, <3>3 DEF Grown
  <2>5. /\ Holding(c0, resp, sampled, {}) /\ Bounded(c0) /\ Active(c0) = Active(c)
        /\ r \notin CachedRequests(c0)
    <3>1. CASE r \notin CachedRequests(c)
      BY <1>6, <2>1, <3>1
    <3>2. CASE r \in CachedRequests(c)
      <4>1. PICK i \in DOMAIN c.cached : c.cached[i].req = r
        BY <3>2 DEF CachedRequests
      <4>2. PICK e : e = c.cached[i]
        OBVIOUS
      <4>3. c0 = EvictCachedResponse(c, c.cached[i].req)
        BY <2>1, <3>2, <4>1
      <4>4. c.cached[i].req \notin {} /\ (c.cached[i].req \in Active(c) => ~Roomy(c))
        BY <1>10, <4>1
      <4>5. Holding(c0, resp, sampled, {})
        BY <1>6, <4>3, <4>4, EvictHolds
      <4>6. /\ IsCache(c0) /\ c0.max = c.max /\ c0.local = c.local
            /\ Len(c0.cached) = Len(c.cached) - 1 /\ Entries(c0) = Entries(c) \ {e}
        BY <1>6, <4>2, <4>3, Evicted
      <4>7. \A x \in Entries(c) : x.req = r => x = e
        BY <1>6, <4>1, <4>2 DEF Mapped, Entries, ToSet
      <4>8. r \notin CachedRequests(c0)
        BY <4>6, <4>7 DEF CachedRequests, Entries, ToSet
      <4>9. Bounded(c0)
        <5>1. Len(c.cached) \in Nat /\ c.max \in Nat \cup {Unlimited}
          BY <1>6 DEF IsCache
        <5> QED
          BY <1>6, <4>6, <5>1 DEF Bounded
      <4> QED
        BY <4>5, <4>6, <4>8, <4>9 DEF Active
    <3> QED
      BY <3>1, <3>2
  <2>6. r \in Requests \ Active(c0) /\ sampled[r] \in Nat
    BY <1>10, <2>5
  <2>7. /\ Holding(c1, re, sampled, {r}) /\ Bounded(c1)
        /\ Active(c1) = Active(c0) \cup {r} /\ (Roomy(c1) => r \in CachedRequests(c1))
    BY <2>2, <2>3, <2>5, <2>6, Starts
  <2>8. r \in Active(c1) /\ {r} \subseteq {r}
    BY <2>7
  <2>9. PICK d : d = AddActiveResponse(c1, r, toks)
    OBVIOUS
  <2>10. PICK re1 : re1 = Grown(re, r, toks)
    OBVIOUS
  <2>11. Holding(d, re1, sa, {}) /\ Bounded(d)
    BY <1>1, <1>5, <2>7, <2>8, <2>9, <2>10, Adds
  <2> QED
    BY <2>4, <2>9, <2>10, <2>11
<1> QED
  BY <1>8, <1>9, <1>10

-----------------------------------------------------------------------------
FedBody(f, k, ids, n) ==
  IF k = 0 THEN [cache |-> cache, response |-> response]
  ELSE Feed(f[k - 1], ids[k], NewTokens(ids[k], n[ids[k]]))

LEMMA FedRecursion ==
  ASSUME NEW ids, Len(ids) \in Nat, NEW n
  PROVE  FedUpTo(ids, n) = [k \in 0 .. Len(ids) |-> FedBody(FedUpTo(ids, n), k, ids, n)]
<1> DEFINE N == Len(ids)
           Fixed(f, m) == f = [k \in 0 .. m |-> FedBody(f, k, ids, n)]
           G == {m \in Nat : \E f : Fixed(f, m)}
<1>1. 0 \in G
  <2> DEFINE f == [k \in 0 .. 0 |-> [cache |-> cache, response |-> response]]
  <2>1. f = [k \in 0 .. 0 |-> FedBody(f, k, ids, n)]
    BY DEF FedBody
  <2> QED
    BY <2>1
<1>2. ASSUME NEW m \in Nat, m \in G PROVE m + 1 \in G
  <2>1. PICK f : Fixed(f, m)
    BY <1>2
  <2> DEFINE g == [k \in 0 .. m + 1 |-> IF k <= m THEN f[k] ELSE FedBody(f, k, ids, n)]
  <2>2. ASSUME NEW k \in 0 .. m + 1 PROVE g[k] = FedBody(g, k, ids, n)
    <3>1. CASE k = 0
      BY <2>1, <3>1 DEF FedBody
    <3>2. CASE k # 0
      <4>1. k - 1 \in 0 .. m + 1 /\ k - 1 <= m
        BY <2>2, <3>2
      <4>2. g[k - 1] = f[k - 1]
        BY <4>1
      <4>3. g[k] = FedBody(f, k, ids, n)
        BY <2>1, <2>2
      <4> HIDE DEF g
      <4> QED
        BY <3>2, <4>2, <4>3 DEF FedBody
    <3> QED
      BY <3>1, <3>2
  <2>3. Fixed(g, m + 1)
    <3> SUFFICES g = [k \in 0 .. m + 1 |-> FedBody(g, k, ids, n)]
      OBVIOUS
    <3> QED
      BY <2>2
  <2> HIDE DEF g
  <2>4. \E h : Fixed(h, m + 1)
    BY <2>3
  <2> QED
    BY <2>4
<1>3. N \in G
  <2> HIDE DEF G
  <2> QED
    BY <1>1, <1>2, NatInductionOnSet
<1>4. \E f : Fixed(f, N)
  BY <1>3
<1>5. FedUpTo(ids, n) = CHOOSE f : Fixed(f, N)
  BY DEF FedUpTo, FedBody
<1> QED
  BY <1>4, <1>5

\* The tokens sampled for the requests that the first k of the batch bring.
SampledUpTo(k, ids, n) ==
  [r \in Requests |-> IF \E j \in 1 .. k : ids[j] = r THEN gen[r] + n[r] ELSE gen[r]]

LEMMA FedHolds ==
  ASSUME gen \in [Requests -> Nat], Holding(cache, response, gen, {}), Bounded(cache),
         NEW S \in SUBSET Requests, NEW ids \in SetToSeqs(S), NEW n \in [S -> Nat]
  PROVE  LET fed == FedUpTo(ids, n)[Len(ids)]
         IN /\ Holding(fed.cache, fed.response,
                       [r \in Requests |-> IF r \in S THEN gen[r] + n[r] ELSE gen[r]], {})
            /\ Bounded(fed.cache)
<1> DEFINE N == Len(ids)
           fed == FedUpTo(ids, n)
           at(k) == SampledUpTo(k, ids, n)
           Good(k) == /\ Holding(fed[k].cache, fed[k].response, at(k), {})
                      /\ Bounded(fed[k].cache)
                      /\ fed[k] = [cache |-> fed[k].cache, response |-> fed[k].response]
           G == {k \in 0 .. N : Good(k)}
<1>1. /\ N \in Nat /\ ids \in Seq(S) /\ DOMAIN ids = 1 .. N /\ ToSet(ids) = S
      /\ \A i, j \in 1 .. N : ids[i] = ids[j] => i = j
  BY OrderHasAll
<1>2. fed = [k \in 0 .. N |-> FedBody(fed, k, ids, n)]
  BY <1>1, FedRecursion
<1> HIDE DEF fed, N
<1>3. 0 \in G
  <2>1. 0 \in 0 .. N /\ fed[0] = [cache |-> cache, response |-> response]
    BY <1>1, <1>2 DEF FedBody
  <2>2. at(0) = gen
    BY DEF SampledUpTo
  <2> QED
    BY <2>1, <2>2
<1>4. ASSUME NEW k \in 0 .. N - 1, k \in G PROVE k + 1 \in G
  <2>1. PICK r : r = ids[k + 1]
    OBVIOUS
  <2>2. k + 1 \in 1 .. N /\ r \in S /\ r \in Requests /\ n[r] \in Nat
    BY <1>1, <2>1
  <2>3. \A j \in 1 .. k : ids[j] # r
    BY <1>1, <2>1, <2>2
  <2>4. PICK sampled : sampled = at(k)
    OBVIOUS
  <2>5. sampled \in [Requests -> Nat] /\ sampled[r] = gen[r]
    <3>1. \A q \in Requests, j \in 1 .. k : ids[j] = q => n[q] \in Nat
      BY <1>1
    <3> QED
      BY <2>2, <2>3, <2>4, <3>1 DEF SampledUpTo
  <2>6. at(k + 1) = Ahead(sampled, r, n[r])
    <3>1. \A q \in Requests : (\E j \in 1 .. k + 1 : ids[j] = q)
                                 <=> (q = r \/ \E j \in 1 .. k : ids[j] = q)
      <4>1. 1 .. k + 1 = 1 .. k \cup {k + 1}
        BY <2>2
      <4> QED
        BY <2>1, <4>1
    <3>2. DOMAIN sampled = Requests
      BY <2>4 DEF SampledUpTo
    <3>3. ASSUME NEW q \in Requests PROVE at(k + 1)[q] = Ahead(sampled, r, n[r])[q]
      <4>1. CASE q = r
        BY <2>2, <2>5, <3>1, <3>2, <4>1 DEF SampledUpTo, Ahead
      <4>2. CASE q # r
        BY <2>4, <3>1, <3>2, <4>2 DEF SampledUpTo, Ahead
      <4> QED
        BY <4>1, <4>2
    <3>4. /\ DOMAIN at(k + 1) = Requests /\ DOMAIN Ahead(sampled, r, n[r]) = Requests
          /\ at(k + 1) = [q \in Requests |-> at(k + 1)[q]]
          /\ Ahead(sampled, r, n[r]) = [q \in Requests |-> Ahead(sampled, r, n[r])[q]]
      BY <3>2 DEF SampledUpTo, Ahead
    <3> HIDE DEF at
    <3> QED
      BY <3>3, <3>4
  <2>7. PICK w : w = fed[k]
    OBVIOUS
  <2>8. fed[k + 1] = Feed(w, r, Following(sampled[r], n[r]))
    <3>1. k + 1 \in 0 .. N /\ k + 1 # 0 /\ (k + 1) - 1 = k
      BY <2>2
    <3>2. NewTokens(r, n[r]) = Following(sampled[r], n[r])
      BY <2>5 DEF NewTokens, Following
    <3> QED
      BY <1>2, <2>1, <2>7, <3>1, <3>2 DEF FedBody
  <2>9. /\ Holding(w.cache, w.response, sampled, {}) /\ Bounded(w.cache)
        /\ w = [cache |-> w.cache, response |-> w.response]
    BY <1>4, <2>4, <2>7
  <2>10. PICK v : v = Feed(w, r, Following(sampled[r], n[r]))
    OBVIOUS
  <2>11. PICK m : m = n[r]
    OBVIOUS
  <2>12. /\ Holding(v.cache, v.response, Ahead(sampled, r, m), {})
         /\ Bounded(v.cache) /\ v = [cache |-> v.cache, response |-> v.response]
    <3>1. m \in Nat /\ v = Feed(w, r, Following(sampled[r], m)) /\ r \in Requests
      BY <2>2, <2>10, <2>11
    <3> QED
      BY <2>5, <2>9, <3>1, Feeds
  <2>13. fed[k + 1] = v /\ at(k + 1) = Ahead(sampled, r, m)
    BY <2>6, <2>8, <2>10, <2>11
  <2> HIDE DEF at
  <2>14. Good(k + 1)
    BY <2>12, <2>13
  <2> QED
    BY <2>2, <2>14
<1>5. N \in G
  <2> HIDE DEF G
  <2>1. \A k \in 0 .. N - 1 : k \in G => k + 1 \in G
    BY <1>4
  <2>2. 0 .. N \subseteq G
    BY <1>1, <1>3, <2>1, UpToInduction
  <2> QED
    BY <1>1, <2>2
<1>6. at(N) = [r \in Requests |-> IF r \in S THEN gen[r] + n[r] ELSE gen[r]]
  <2>1. \A r \in Requests : (\E j \in 1 .. N : ids[j] = r) <=> r \in S
    BY <1>1 DEF ToSet
  <2> QED
    BY <2>1 DEF SampledUpTo
<1>7. Good(N)
  BY <1>5
<1> HIDE DEF at
<1> QED
  BY <1>6, <1>7 DEF fed, N

\* stop_request() leaves the other requests as they are.
LEMMA Stops ==
  ASSUME NEW c, NEW resp, NEW sampled, Holding(c, resp, sampled, {}), Bounded(c), NEW S
  PROVE  /\ Holding(StopRequests(c, S), Restrict(resp, DOMAIN resp \ S), sampled, {})
         /\ Bounded(StopRequests(c, S))
<1>1. IsCache(c) /\ Mapped(c) /\ resp \in [Active(c) -> Seq(Nat)] /\ c.local \in [Active(c) -> Seq(Nat)]
  BY DEF Holding, IsCache
<1>2. PICK lo : lo = Restrict(c.local, DOMAIN c.local \ S)
  OBVIOUS
<1>3. PICK re : re = Restrict(resp, DOMAIN resp \ S)
  OBVIOUS
<1>4. /\ lo \in [Active(c) \ S -> Seq(Nat)] /\ re \in [Active(c) \ S -> Seq(Nat)]
      /\ \A r \in Active(c) \ S : lo[r] = c.local[r] /\ re[r] = resp[r]
  BY <1>1, <1>2, <1>3 DEF Restrict
<1>5. PICK d : d = StopRequests(c, S)
  OBVIOUS
<1>6. d = [max |-> c.max, local |-> lo, cached |-> c.cached, owner |-> c.owner,
           global |-> c.global, next |-> c.next]
  <2>1. c = [max |-> c.max, local |-> c.local, cached |-> c.cached, owner |-> c.owner,
             global |-> c.global, next |-> c.next]
    BY <1>1 DEF IsCache
  <2> QED
    BY <1>2, <1>5, <2>1 DEF StopRequests
<1>7. Active(d) = Active(c) \ S /\ (Roomy(d) <=> Roomy(c)) /\ Bounded(d)
  BY <1>4, <1>6 DEF Active, Roomy, Bounded
<1>8. Entries(d) = Entries(c) /\ CachedRequests(d) = CachedRequests(c)
  BY <1>6 DEF Entries, CachedRequests
<1>9. IsCache(d)
  <2>1. Active(d) \subseteq Requests /\ d.local \in [Active(d) -> Seq(Nat)]
    BY <1>1, <1>4, <1>6, <1>7 DEF IsCache
  <2> QED
    BY <1>1, <1>6, <2>1 DEF IsCache
<1>10. Mapped(d)
  BY <1>1, <1>6, <1>8 DEF Mapped
<1>11. Holding(d, re, sampled, {})
  <2>1. \A r \in Active(d) : d.local[r] = <<0>> \o re[r] /\ Recent(re[r], sampled[r])
    <3>1. \A r \in Active(c) : c.local[r] = <<0>> \o resp[r] /\ Recent(resp[r], sampled[r])
      BY DEF Holding
    <3> QED
      BY <1>4, <1>6, <1>7, <3>1
  <2>2. \A e \in Entries(d) : e.req \in Active(d) \ {} => d.global[e.seq] = re[e.req]
    <3>1. \A e \in Entries(c) : e.req \in Active(c) \ {} => c.global[e.seq] = resp[e.req]
      BY DEF Holding
    <3> QED
      BY <1>4, <1>6, <1>7, <1>8, <3>1
  <2>3. DOMAIN d.global = {e.seq : e \in {x \in Entries(d) : x.req \notin {}}}
    BY <1>6, <1>8 DEF Holding
  <2>4. Roomy(d) => Active(d) \ {} \subseteq CachedRequests(d)
    BY <1>7, <1>8 DEF Holding
  <2> QED
    BY <1>4, <1>7, <1>9, <1>10, <2>1, <2>2, <2>3, <2>4 DEF Holding
<1> QED
  BY <1>3, <1>5, <1>7, <1>11

\* The copies of the responses fit the tokens the worker has sampled; the drafter
\* that uses no suffixes leaves the cache as it was made.
CacheInv ==
  /\ SpecTyped /\ Holding(cache, response, gen, {}) /\ Bounded(cache)
  /\ ~HasSuffix => Active(cache) = {}

LEMMA InitCache == Init => CacheInv
<1> SUFFICES ASSUME Init PROVE CacheInv
  OBVIOUS
<1>1. PICK max \in CacheSizes : cache = EmptyCache(max)
  BY DEF Init
<1>2. /\ cache = [max |-> cache.max, local |-> cache.local, cached |-> cache.cached,
                  owner |-> cache.owner, global |-> cache.global, next |-> cache.next]
      /\ cache.max = max /\ cache.local = [r \in {} |-> <<>>] /\ cache.cached = <<>>
      /\ cache.owner = [s \in {} |-> 0] /\ cache.global = [s \in {} |-> <<>>] /\ cache.next = 0
  BY <1>1 DEF EmptyCache
<1>3. max \in Nat \cup {Unlimited} /\ 0 \in SeqIds
  BY SpecConstants, CacheConstants DEF SeqIds
<1>4. Active(cache) = {} /\ Entries(cache) = {} /\ CachedRequests(cache) = {}
  BY <1>2 DEF Active, Entries, CachedRequests, ToSet
<1>5. IsCache(cache)
  BY <1>2, <1>3, <1>4 DEF IsCache
<1>6. Mapped(cache)
  BY <1>2, <1>4 DEF Mapped
<1>7. Bounded(cache)
  BY <1>2, <1>3 DEF Bounded
<1>8. Holding(cache, response, gen, {})
  <2>1. response \in [Active(cache) -> Seq(Nat)]
    BY <1>4 DEF Init
  <2>2. DOMAIN cache.global = {e.seq : e \in {x \in Entries(cache) : x.req \notin {}}}
    BY <1>2, <1>4
  <2> QED
    BY <1>4, <1>5, <1>6, <2>1, <2>2 DEF Holding
<1> QED
  BY <1>4, <1>7, <1>8, InitTyped DEF CacheInv

LEMMA CacheStep ==
  ASSUME CacheInv, [Next]_specVars
  PROVE  CacheInv'
<1>1. SpecTyped /\ Holding(cache, response, gen, {}) /\ Bounded(cache)
  BY DEF CacheInv
<1>2. ASSUME SpecTyped', UNCHANGED <<mode, cache, response, gen>> PROVE CacheInv'
  <2>1. Holding(cache', response', gen', {}) /\ Bounded(cache')
    BY <1>1, <1>2
  <2>2. ~HasSuffix' => Active(cache') = {}
    BY <1>2 DEF CacheInv, HasSuffix
  <2>3. Holding(cache, response, gen, {})' /\ Bounded(cache)' /\ Active(cache)' = Active(cache')
    BY <1>1, <1>2 DEF Holding, Bounded, Active
  <2> QED
    BY <1>2, <2>2, <2>3 DEF CacheInv, HasSuffix
<1>3. CASE UNCHANGED specVars
  <2>1. SpecTyped'
    BY <1>1, <1>3 DEF SpecTyped, BatchExact, specVars
  <2> QED
    BY <1>2, <1>3, <2>1 DEF specVars
<1>4. ASSUME NEW S \in SUBSET Requests, NEW pre \in SUBSET S, Schedule(S, pre)
      PROVE  CacheInv'
  <2>1. SpecTyped'
    BY <1>1, <1>4, ScheduleTyped
  <2> QED
    BY <1>2, <1>4, <2>1 DEF Schedule
<1>5. CASE UpdateFromOutput
  <2>1. SpecTyped'
    BY <1>1, <1>5, UpdateTyped
  <2> QED
    BY <1>2, <1>5, <2>1 DEF UpdateFromOutput
<1>6. CASE Execute
  <2>1. PICK i, ids, n, d : Executed(i, ids, n, d)
    BY <1>1, <1>6, ExecuteParts
  <2>2. SpecTyped'
    BY <1>1, <2>1, ExecutedTyped
  <2>3. mode' = mode
    BY <2>1 DEF Executed
  <2>4. PICK S : S = flight[i].reqs
    OBVIOUS
  <2>5. S \in SUBSET Requests /\ ids \in SetToSeqs(S) /\ n \in [S -> Nat]
        /\ gen \in [Requests -> Nat]
        /\ gen' = [r \in Requests |-> IF r \in S THEN gen[r] + n[r] ELSE gen[r]]
    <3>1. flight[i] \in BatchType
      BY <1>1, <2>1 DEF SpecTyped, Executed
    <3> QED
      BY <1>1, <2>1, <2>4, <3>1 DEF Executed, BatchType, SpecTyped
  <2>6. CASE HasSuffix
    <3>1. PICK fed : fed = FedUpTo(ids, n)[Len(ids)]
      OBVIOUS
    <3>2. PICK sampled : sampled = [r \in Requests |-> IF r \in S THEN gen[r] + n[r] ELSE gen[r]]
      OBVIOUS
    <3>3. Holding(fed.cache, fed.response, sampled, {}) /\ Bounded(fed.cache)
      BY <1>1, <2>5, <3>1, <3>2, FedHolds
    <3>4. PICK gone : gone = Active(fed.cache) \ ToSet(ids)
      OBVIOUS
    <3>5. /\ cache' = StopRequests(fed.cache, gone)
          /\ response' = Restrict(fed.response, DOMAIN fed.response \ gone)
      BY <2>1, <2>6, <3>1, <3>4 DEF Executed, UpdateSuffixCache
    <3>6. Holding(cache', response', sampled, {}) /\ Bounded(cache')
      BY <3>3, <3>5, Stops
    <3>7. Holding(cache', response', gen', {})
      BY <2>5, <3>2, <3>6
    <3> QED
      BY <2>2, <2>3, <2>6, <3>6, <3>7 DEF CacheInv, HasSuffix
  <2>7. CASE ~HasSuffix
    <3>1. cache' = cache /\ response' = response /\ Active(cache) = {}
      BY <2>1, <2>7 DEF Executed, CacheInv
    <3>2. Holding(cache, response, gen', {})
      BY <1>1, <3>1 DEF Holding
    <3>3. Holding(cache', response', gen', {}) /\ Bounded(cache')
      BY <1>1, <3>1, <3>2
    <3> QED
      BY <2>2, <2>3, <2>7, <3>1, <3>3 DEF CacheInv, HasSuffix
  <2> QED
    BY <2>6, <2>7
<1> QED
  BY <1>3, <1>4, <1>5, <1>6 DEF Next

LEMMA HoldingAgrees == CacheInv => ResponsesAgree
<1> SUFFICES ASSUME CacheInv PROVE ResponsesAgree
  OBVIOUS
<1> DEFINE c == cache
<1>1. Holding(c, response, gen, {}) /\ Bounded(c) /\ IsCache(c) /\ Mapped(c)
  BY DEF CacheInv, Holding
<1>2. \A r \in Active(c) : c.local[r] = <<0>> \o response[r] /\ Recent(response[r], gen[r])
  BY <1>1 DEF Holding
<1>3. ASSUME NEW r \in Active(c), r \in CachedRequests(c)
      PROVE  c.global[SeqId(c, r)] = response[r]
  <2>1. PICK i \in DOMAIN c.cached : c.cached[i].req = r
    BY <1>3 DEF CachedRequests
  <2>2. PICK e : e = c.cached[i]
    OBVIOUS
  <2>3. SeqId(c, r) = e.seq /\ e \in Entries(c) /\ e.req = r
    BY <1>1, <2>1, <2>2, EntryOf
  <2>4. \A x \in Entries(c) : x.req \in Active(c) \ {} => c.global[x.seq] = response[x.req]
    BY <1>1 DEF Holding
  <2> QED
    BY <2>3, <2>4
<1>4. /\ DOMAIN c.owner = {e.seq : e \in Entries(c)}
      /\ \A e \in Entries(c) : c.owner[e.seq] = e.req
      /\ DOMAIN c.global = DOMAIN c.owner
  <2>1. DOMAIN c.global = {e.seq : e \in {x \in Entries(c) : x.req \notin {}}}
    BY <1>1 DEF Holding
  <2>2. {x \in Entries(c) : x.req \notin {}} = Entries(c)
    OBVIOUS
  <2> QED
    BY <1>1, <2>1, <2>2 DEF Mapped
<1>5. c.max = Unlimited \/ c.max >= Cardinality(Requests) => Active(c) \subseteq CachedRequests(c)
  BY <1>1 DEF Holding, Roomy
<1>6. c.max # Unlimited => Len(c.cached) <= c.max
  BY <1>1 DEF Bounded
<1> QED
  BY <1>2, <1>3, <1>4, <1>5, <1>6 DEF ResponsesAgree, Recent, Entries

\* The copies of every response agree, its own tree, the tokens kept for patterns and
\* the global tree, and ids and requests map to each other, for any limit of the
\* cache and any space of ids that is enough for the active requests, also after
\* the ids have wrapped around and when a response is evicted while its request runs
\* (suffix_decoding/cache.py; model_runner.py, _update_suffix_cache()).
THEOREM ResponsesStayEqual == Spec => []ResponsesAgree
<1>1. Init => CacheInv
  BY InitCache
<1>2. CacheInv /\ [Next]_specVars => CacheInv'
  BY CacheStep
<1>3. CacheInv => ResponsesAgree
  BY HoldingAgrees
<1> QED
  BY <1>1, <1>2, <1>3, PTL DEF Spec

-----------------------------------------------------------------------------
(***************************************************************************)
(* The vocabulary of the drafter: whatever divide() accepts, every id is   *)
(* embedded by exactly one rank, at a row that rank has, and no two ids of *)
(* a rank share a row.                                                     *)
(*                                                                         *)
(* The argument: with q rows of original vocabulary and r rows of added    *)
(* tokens per rank, both paddings together are q * tp_size and r * tp_size *)
(* ids, so id i < org is between k * q and (k + 1) * q for k = i \div q    *)
(* only, and is in row i - k * q; id org + j is between k * r and          *)
(* (k + 1) * r for k = j \div r only, and is in row q + j - k * r.         *)
(***************************************************************************)
\* The vocabularies the classes can be built for.
Vocabularies ==
  {v \in [org : Nat \ {0}, added : Nat, pad : Nat \ {0}, tp_size : Nat \ {0}] : Divides(v)}

-----------------------------------------------------------------------------
\* Padding a vocabulary keeps it and adds less than a whole multiple.
LEMMA Padded ==
  ASSUME NEW n \in Nat, NEW p \in Nat \ {0}
  PROVE  pad_vocab_size(n, p) \in Nat /\ n <= pad_vocab_size(n, p)
<1> DEFINE m == n + p - 1
<1>1. m \in Nat
  OBVIOUS
<1>2. /\ m \div p \in Nat /\ m % p \in 0 .. p - 1 /\ m = (m \div p) * p + (m % p)
  BY <1>1, DivMod
<1>3. pad_vocab_size(n, p) = (m \div p) * p
  BY DEF pad_vocab_size
<1> HIDE DEF m
<1>4. (m \div p) * p \in Nat
  BY <1>2
<1>5. (m \div p) * p >= m - (p - 1)
  BY <1>1, <1>2, <1>4
<1> QED
  BY <1>3, <1>4, <1>5 DEF m

\* A stretch of ids is cut into equal pieces: each is in a piece, and in one only.
LEMMA InAPiece ==
  ASSUME NEW q \in Nat, NEW t \in Nat, NEW i \in Nat, i < q * t
  PROVE  \E k \in 0 .. t - 1 : k * q <= i /\ i < (k + 1) * q
<1>1. q # 0
  OBVIOUS
<1> DEFINE c == i \div q
<1>2. c \in Nat /\ i % q \in 0 .. q - 1 /\ i = c * q + (i % q)
  BY <1>1, DivMod
<1> HIDE DEF c
<1>3. c * q \in Nat /\ (c + 1) * q = c * q + q
  BY <1>2, TimesNext
<1>4. c * q <= i /\ i < (c + 1) * q
  BY <1>2, <1>3
<1>5. c * q < t * q
  BY <1>3, <1>4
<1>6. c < t
  BY <1>1, <1>2, <1>5, TimesCancel
<1>7. c \in 0 .. t - 1
  BY <1>2, <1>6
<1> QED
  BY <1>4, <1>7

LEMMA InOnePiece ==
  ASSUME NEW q \in Nat, NEW i \in Nat, NEW j \in Nat, NEW k \in Nat,
         j * q <= i, i < (j + 1) * q, k * q <= i, i < (k + 1) * q
  PROVE  j = k
<1>1. q # 0
  OBVIOUS
<1>2. j * q < (k + 1) * q /\ k * q < (j + 1) * q
  OBVIOUS
<1>3. j < k + 1 /\ k < j + 1
  BY <1>1, <1>2, TimesCancel
<1> QED
  BY <1>3

-----------------------------------------------------------------------------
(***************************************************************************)
(* The pieces of a vocabulary.                                             *)
(***************************************************************************)
OrgRows(v) == OrgPadded(v) \div v.tp_size
AddedRows(v) == (NumPadded(v) - OrgPadded(v)) \div v.tp_size

LEMMA Exact ==
  ASSUME NEW n \in Nat, NEW t \in Nat \ {0}, n % t = 0
  PROVE  n \div t \in Nat /\ n = (n \div t) * t
BY DivMod

LEMMA Sizes ==
  ASSUME NEW v \in Vocabularies
  PROVE  /\ v.org \in Nat \ {0} /\ v.added \in Nat /\ v.tp_size \in Nat \ {0}
         /\ OrgRows(v) \in Nat /\ AddedRows(v) \in Nat
         /\ v.org <= OrgRows(v) * v.tp_size
         /\ v.added <= AddedRows(v) * v.tp_size
         /\ PerPartition(v) = OrgRows(v) + AddedRows(v)
<1>1. /\ v.org \in Nat \ {0} /\ v.added \in Nat /\ v.tp_size \in Nat \ {0}
      /\ v.pad \in Nat \ {0} /\ Divides(v)
  BY DEF Vocabularies
<1>2. OrgPadded(v) \in Nat /\ v.org <= OrgPadded(v)
  BY <1>1, Padded DEF OrgPadded
<1>3. NumPadded(v) \in Nat /\ OrgPadded(v) + v.added <= NumPadded(v)
  BY <1>1, <1>2, Padded DEF NumPadded
<1> DEFINE more == NumPadded(v) - OrgPadded(v)
           t == v.tp_size
<1>4. more \in Nat /\ v.added <= more
  BY <1>1, <1>2, <1>3
<1>5. OrgRows(v) \in Nat /\ OrgPadded(v) = OrgRows(v) * t
  BY <1>1, <1>2, Exact DEF OrgRows, Divides
<1>6. AddedRows(v) \in Nat /\ more = AddedRows(v) * t
  BY <1>1, <1>4, Exact DEF AddedRows, Divides
<1>7. NumPadded(v) = (OrgRows(v) + AddedRows(v)) * t
  BY <1>1, <1>2, <1>3, <1>5, <1>6
<1>8. \A n \in Nat : (n * t) \div t = n
  <2> SUFFICES ASSUME NEW n \in Nat PROVE (n * t) \div t = n
    OBVIOUS
  <2> DEFINE d == (n * t) \div t
  <2>1. n * t \in Nat
    BY <1>1
  <2>2. d \in Nat /\ (n * t) % t \in 0 .. t - 1 /\ n * t = d * t + ((n * t) % t)
    BY <1>1, <2>1, DivMod
  <2> HIDE DEF d
  <2>3. t \in Nat
    BY <1>1
  <2> HIDE DEF t
  <2>4. d * t \in Nat /\ (d + 1) * t = d * t + t /\ (n + 1) * t = n * t + t
    BY <2>2, <2>3, TimesNext
  <2>5. n * t < (d + 1) * t /\ d * t < (n + 1) * t
    BY <2>1, <2>2, <2>3, <2>4
  <2>6. n < d + 1 /\ d < n + 1
    BY <2>2, <2>3, <2>5, TimesCancel
  <2> QED
    BY <2>2, <2>6 DEF d
<1>9. PerPartition(v) = OrgRows(v) + AddedRows(v)
  BY <1>5, <1>6, <1>7, <1>8 DEF PerPartition
<1> QED
  BY <1>1, <1>2, <1>4, <1>5, <1>6, <1>9

\* What a rank holds, and where: an original id in its piece, or an added one.
LEMMA Shards ==
  ASSUME NEW v \in Vocabularies, NEW k \in TpRanks(v), NEW id \in Ids(v)
  PROVE  LET s == _get_indices(v, k)
             q == OrgRows(v)
             r == AddedRows(v)
             j == id - v.org
         IN /\ id < v.org => /\ Holds(s, id) <=> k * q <= id /\ id < (k + 1) * q
                             /\ Holds(s, id) => masked_input(s, id) = id - k * q
            /\ id >= v.org => /\ Holds(s, id) <=> k * r <= j /\ j < (k + 1) * r
                              /\ Holds(s, id) => masked_input(s, id) = q + j - k * r
<1> DEFINE s == _get_indices(v, k)
           q == OrgRows(v)
           r == AddedRows(v)
           all == v.org + v.added
<1>1. /\ v.org \in Nat \ {0} /\ v.added \in Nat /\ q \in Nat /\ r \in Nat /\ k \in Nat
      /\ id \in Nat /\ id < all
  BY Sizes DEF TpRanks, Ids
<1>2. k * q \in Nat /\ (k + 1) * q \in Nat /\ k * r \in Nat /\ (k + 1) * r \in Nat
  BY <1>1
<1>3. /\ s.org_start = AtMost(k * q + 0, v.org) /\ s.org_end = AtMost((k + 1) * q + 0, v.org)
      /\ s.added_start = AtMost(k * r + v.org, all)
      /\ s.added_end = AtMost((k + 1) * r + v.org, all)
      /\ s.org_padded = q
  BY DEF _get_indices, RangeStart, RangeEnd, OrgRows, AddedRows
<1> HIDE DEF s, q, r
<1>4. CASE id < v.org
  <2>1. ~InAdded(s, id)
    BY <1>1, <1>2, <1>3, <1>4 DEF InAdded, AtMost
  <2>2. InOrg(s, id) <=> k * q <= id /\ id < (k + 1) * q
    BY <1>1, <1>2, <1>3, <1>4 DEF InOrg, AtMost
  <2>3. InOrg(s, id) => s.org_start = k * q
    BY <1>1, <1>2, <1>3, <1>4, <2>2 DEF AtMost
  <2>4. InOrg(s, id) => masked_input(s, id) = id - k * q
    BY <1>1, <1>2, <2>1, <2>3 DEF masked_input, Holds
  <2> QED
    BY <1>1, <1>4, <2>1, <2>2, <2>4 DEF Holds, s, q, r
<1>5. CASE id >= v.org
  <2>1. ~InOrg(s, id)
    BY <1>1, <1>2, <1>3, <1>5 DEF InOrg, AtMost
  <2>2. InAdded(s, id) <=> k * r <= id - v.org /\ id - v.org < (k + 1) * r
    BY <1>1, <1>2, <1>3, <1>5 DEF InAdded, AtMost
  <2>3. InAdded(s, id) => s.added_start = k * r + v.org
    BY <1>1, <1>2, <1>3, <1>5, <2>2 DEF AtMost
  <2>4. s.org_end - s.org_start \in Int
    BY <1>1, <1>2, <1>3 DEF AtMost
  <2>5. InAdded(s, id) => masked_input(s, id) = q + (id - v.org) - k * r
    BY <1>1, <1>2, <1>3, <2>1, <2>3, <2>4 DEF masked_input, Holds
  <2> QED
    BY <1>1, <1>5, <2>1, <2>2, <2>5 DEF Holds, s, q, r
<1> QED
  BY <1>1, <1>4, <1>5 DEF s, q, r

-----------------------------------------------------------------------------
\* Every id is embedded by exactly one rank, at a row that rank has.
THEOREM OneRankPerId == \A v \in Vocabularies : HeldOnce(v)
<1> SUFFICES ASSUME NEW v \in Vocabularies, NEW id \in Ids(v)
             PROVE  \E k \in TpRanks(v) :
                      /\ Holds(_get_indices(v, k), id)
                      /\ masked_input(_get_indices(v, k), id) \in 0 .. PerPartition(v) - 1
                      /\ \A j \in TpRanks(v) : Holds(_get_indices(v, j), id) => j = k
  BY DEF HeldOnce
<1> DEFINE q == OrgRows(v)
           r == AddedRows(v)
           t == v.tp_size
<1>1. /\ v.org \in Nat \ {0} /\ v.added \in Nat /\ q \in Nat /\ r \in Nat /\ t \in Nat \ {0}
      /\ v.org <= q * t /\ v.added <= r * t
      /\ PerPartition(v) = q + r /\ q * t \in Nat /\ r * t \in Nat
  BY Sizes
<1>2. id \in Nat /\ id < v.org + v.added
  BY <1>1 DEF Ids
<1>3. TpRanks(v) = 0 .. t - 1
  BY DEF TpRanks
<1> HIDE DEF q, r, t
<1>4. CASE id < v.org
  <2>1. id < q * t
    BY <1>1, <1>2, <1>4
  <2>2. PICK k \in 0 .. t - 1 : k * q <= id /\ id < (k + 1) * q
    BY <1>1, <1>2, <2>1, InAPiece
  <2>3. \A j \in 0 .. t - 1 : Holds(_get_indices(v, j), id) <=> j * q <= id /\ id < (j + 1) * q
    BY <1>3, <1>4, Shards DEF q
  <2>4. masked_input(_get_indices(v, k), id) = id - k * q
    BY <1>3, <1>4, <2>2, <2>3, Shards DEF q
  <2>5. ASSUME NEW j \in 0 .. t - 1, j * q <= id, id < (j + 1) * q
        PROVE  j = k
    <3>1. j \in Nat /\ k \in Nat
      BY <1>1, <2>2
    <3> QED
      BY <1>1, <1>2, <2>1, <2>2, <2>5, <3>1, InOnePiece
  <2>6. k \in Nat /\ k * q \in Nat /\ (k + 1) * q = k * q + q
    BY <1>1, <2>2, TimesNext
  <2>7. id - k * q \in 0 .. PerPartition(v) - 1
    BY <1>1, <1>2, <2>2, <2>6
  <2> QED
    BY <1>3, <2>2, <2>3, <2>4, <2>5, <2>7
<1>5. CASE id >= v.org
  <2> DEFINE i == id - v.org
  <2>1. i \in Nat /\ i < r * t
    BY <1>1, <1>2, <1>5
  <2> HIDE DEF i
  <2>2. PICK k \in 0 .. t - 1 : k * r <= i /\ i < (k + 1) * r
    BY <1>1, <2>1, InAPiece
  <2>3. \A j \in 0 .. t - 1 : Holds(_get_indices(v, j), id) <=> j * r <= i /\ i < (j + 1) * r
    BY <1>3, <1>5, Shards DEF r, i
  <2>4. masked_input(_get_indices(v, k), id) = q + i - k * r
    BY <1>3, <1>5, <2>2, <2>3, Shards DEF q, r, i
  <2>5. ASSUME NEW j \in 0 .. t - 1, j * r <= i, i < (j + 1) * r
        PROVE  j = k
    <3>1. j \in Nat /\ k \in Nat
      BY <1>1, <2>2
    <3> QED
      BY <1>1, <1>2, <2>1, <2>2, <2>5, <3>1, InOnePiece
  <2>6. k \in Nat /\ k * r \in Nat /\ (k + 1) * r = k * r + r
    BY <1>1, <2>2, TimesNext
  <2>7. q + i - k * r \in 0 .. PerPartition(v) - 1
    BY <1>1, <2>1, <2>2, <2>6
  <2> QED
    BY <1>3, <2>2, <2>3, <2>4, <2>5, <2>7
<1> QED
  BY <1>1, <1>2, <1>4, <1>5

\* No row of a rank is for two ids.
THEOREM OneIdPerRow == \A v \in Vocabularies : RowsDistinct(v)
<1> SUFFICES ASSUME NEW v \in Vocabularies, NEW k \in TpRanks(v),
                    NEW x \in Ids(v), NEW y \in Ids(v),
                    Holds(_get_indices(v, k), x), Holds(_get_indices(v, k), y),
                    masked_input(_get_indices(v, k), x) = masked_input(_get_indices(v, k), y)
             PROVE  x = y
  BY DEF RowsDistinct
<1> DEFINE q == OrgRows(v)
           r == AddedRows(v)
           row(id) == masked_input(_get_indices(v, k), id)
<1>1. /\ v.org \in Nat /\ q \in Nat /\ r \in Nat /\ k \in Nat /\ x \in Nat /\ y \in Nat
  BY Sizes DEF TpRanks, Ids
<1> HIDE DEF q, r, row
<1>2. /\ k * q \in Nat /\ (k + 1) * q = k * q + q
      /\ k * r \in Nat /\ (k + 1) * r = k * r + r
  BY <1>1, TimesNext
<1>3. \A id \in {x, y} :
        \/ id < v.org /\ id < (k + 1) * q /\ row(id) = id - k * q
        \/ id >= v.org /\ k * r <= id - v.org /\ row(id) = q + (id - v.org) - k * r
  <2> SUFFICES ASSUME NEW id \in {x, y}
               PROVE  \/ id < v.org /\ id < (k + 1) * q /\ row(id) = id - k * q
                      \/ id >= v.org /\ k * r <= id - v.org /\ row(id) = q + (id - v.org) - k * r
    OBVIOUS
  <2>1. id \in Ids(v) /\ Holds(_get_indices(v, k), id)
    OBVIOUS
  <2>2. CASE id < v.org
    BY <2>1, <2>2, Shards DEF q, r, row
  <2>3. CASE id >= v.org
    BY <2>1, <2>3, Shards DEF q, r, row
  <2> QED
    BY <1>1, <2>2, <2>3
<1>4. row(x) = row(y)
  BY DEF row
<1>5. CASE x < v.org /\ y < v.org
  BY <1>1, <1>2, <1>3, <1>4, <1>5
<1>6. CASE x >= v.org /\ y >= v.org
  BY <1>1, <1>2, <1>3, <1>4, <1>6
<1>7. CASE x < v.org /\ y >= v.org
  BY <1>1, <1>2, <1>3, <1>4, <1>7
<1>8. CASE x >= v.org /\ y < v.org
  BY <1>1, <1>2, <1>3, <1>4, <1>8
<1> QED
  BY <1>1, <1>5, <1>6, <1>7, <1>8

-----------------------------------------------------------------------------
(***************************************************************************)
(* The hash map of the suffix tree, for any keys, values and hash: its     *)
(* counters and its probing are exact, it is never full, and it implements *)
(* a map.  First why probing in triangular steps reaches every slot when   *)
(* their number is a power of two.                                         *)
(***************************************************************************)
Odd(m) == \E x \in Int : m = 2 * x + 1

\* Exactly the powers of two: an odd factor never helps them to divide.
PowerOfTwo(c) ==
  /\ c \in Nat \ {0}
  /\ \A m, y, q \in Int : Odd(m) /\ m * y = c * q => \E z \in Int : y = c * z

LEMMA Distribute ==
  \A a, b, c \in Int : /\ (a + b) * c = a * c + b * c /\ c * (a + b) = c * a + c * b
                       /\ (a - b) * c = a * c - b * c /\ c * (a - b) = c * a - c * b
                       /\ a * b = b * a /\ a * (b * c) = (a * b) * c /\ a * b \in Int
OBVIOUS

LEMMA CancelFactor == \A a, b \in Int, c \in Nat \ {0} : c * a = c * b => a = b
OBVIOUS

LEMMA TwoIsPower == PowerOfTwo(2)
<1>1. ASSUME NEW m \in Int, NEW y \in Int, NEW q \in Int, Odd(m), m * y = 2 * q
      PROVE  \E z \in Int : y = 2 * z
  <2>1. PICK x \in Int : m = 2 * x + 1
    BY <1>1 DEF Odd
  <2>2. PICK w \in Int : w = x * y
    OBVIOUS
  <2>3. m * y = 2 * w + y
    <3>1. 2 * x \in Int /\ 1 * y = y /\ (2 * x) * y = 2 * w
      BY <2>2, Distribute
    <3>2. m * y = (2 * x) * y + 1 * y
      BY <2>1, <3>1, Distribute
    <3> QED
      BY <3>1, <3>2
  <2>4. y = 2 * (q - w) /\ q - w \in Int
    BY <1>1, <2>2, <2>3
  <2> QED
    BY <2>4
<1> QED
  BY <1>1 DEF PowerOfTwo

LEMMA PowerDoubled ==
  ASSUME NEW c, PowerOfTwo(c)
  PROVE  PowerOfTwo(2 * c)
<1>1. c \in Nat \ {0}
  BY DEF PowerOfTwo
<1>2. PICK d \in Nat \ {0} : d = 2 * c
  BY <1>1
<1>3. ASSUME NEW m \in Int, NEW y \in Int, NEW q \in Int, Odd(m), m * y = d * q
      PROVE  \E z \in Int : y = d * z
  <2>1. d * q = c * (2 * q) /\ 2 * q \in Int
    BY <1>1, <1>2, Distribute
  <2>2. PICK z \in Int : y = c * z
    <3>1. m * y = c * (2 * q)
      BY <1>3, <2>1
    <3> QED
      BY <1>3, <2>1, <3>1, Zenon DEF PowerOfTwo
  <2>3. m * (c * z) = c * (m * z) /\ m * z \in Int
    BY <1>1, Distribute
  <2>4. c * (m * z) = c * (2 * q)
    BY <1>3, <2>1, <2>2, <2>3, Zenon
  <2>5. m * z = 2 * q
    BY <1>1, <2>1, <2>3, <2>4, CancelFactor, Zenon
  <2>6. PICK u \in Int : z = 2 * u
    BY <1>3, <2>5, TwoIsPower, ZenonT(60) DEF PowerOfTwo
  <2>7. y = d * u
    BY <1>1, <1>2, <2>2, <2>6, Distribute
  <2> QED
    BY <2>7
<1>4. PowerOfTwo(d)
  BY <1>2, <1>3, Zenon DEF PowerOfTwo
<1> QED
  BY <1>2, <1>4, Zenon

LEMMA PowerHalved ==
  ASSUME NEW c \in Nat \ {0}, PowerOfTwo(2 * c)
  PROVE  PowerOfTwo(c)
<1>1. ASSUME NEW m \in Int, NEW y \in Int, NEW q \in Int, Odd(m), m * y = c * q
      PROVE  \E z \in Int : y = c * z
  <2>1. PICK d \in Int : d = 2 * c
    OBVIOUS
  <2>2. m * (2 * y) = 2 * (m * y) /\ 2 * (c * q) = d * q /\ 2 * y \in Int
    BY <2>1, Distribute
  <2>3. m * (2 * y) = d * q
    BY <1>1, <2>2, Zenon
  <2>4. PowerOfTwo(d)
    BY <2>1, Zenon
  <2>5. PICK u \in Int : 2 * y = d * u
    BY <1>1, <2>2, <2>3, <2>4, ZenonT(60) DEF PowerOfTwo
  <2>6. PICK w \in Int : w = c * u
    BY Distribute
  <2>7. d * u = 2 * w
    BY <2>1, <2>6, Distribute
  <2>8. y = w
    BY <2>5, <2>7
  <2> QED
    BY <2>6, <2>8, Zenon
<1> QED
  BY <1>1, ZenonT(60) DEF PowerOfTwo

\* Nothing between 0 and d is a multiple of d.
LEMMA NoSmallMultiple ==
  ASSUME NEW d \in Nat, NEW n \in Int, 0 < n, n < d, NEW q \in Int, n = d * q
  PROVE  FALSE
<1>1. CASE q <= 0
  <2>1. PICK p \in Nat : p = 0 - q
    BY <1>1
  <2>2. d * (0 - q) = d * 0 - d * q /\ d * 0 = 0 /\ d * q \in Int
    BY Distribute
  <2>3. d * p \in Nat
    BY <2>1, TimesCommute
  <2>4. d * p = 0 - n
    BY <2>1, <2>2
  <2> QED
    BY <2>3, <2>4
<1>2. CASE q >= 1
  <2>1. PICK p \in Nat : p = q - 1
    BY <1>2
  <2>2. d * (q - 1) = d * q - d * 1 /\ d * 1 = d /\ d * q \in Int
    BY Distribute
  <2>3. d * p \in Nat
    BY <2>1, TimesCommute
  <2>4. d * p = n - d
    BY <2>1, <2>2
  <2> QED
    BY <2>3, <2>4
<1> QED
  BY <1>1, <1>2

LEMMA Parity == \A n \in Int : (\E h \in Int : n = 2 * h) \/ Odd(n)
<1> SUFFICES ASSUME NEW n \in Int PROVE (\E h \in Int : n = 2 * h) \/ Odd(n)
  OBVIOUS
<1>1. n \div 2 \in Int /\ (n = 2 * (n \div 2) \/ n = 2 * (n \div 2) + 1)
  OBVIOUS
<1> QED
  BY <1>1 DEF Odd

LEMMA PowerIsEven ==
  ASSUME NEW c, PowerOfTwo(c), c >= 2
  PROVE  c \div 2 \in Nat \ {0} /\ c = 2 * (c \div 2)
<1>1. c \in Nat
  BY DEF PowerOfTwo
<1>2. PICK h \in Nat : h = c \div 2 /\ (c = 2 * h \/ c = 2 * h + 1)
  BY <1>1
<1>3. ASSUME c = 2 * h + 1 PROVE FALSE
  <2>1. Odd(c) /\ c * 1 = c /\ c * 1 = 1 * c
    BY <1>1, <1>3 DEF Odd
  <2>2. PICK q \in Int : 1 = c * q
    <3>1. 1 \in Int /\ c \in Int /\ c * 1 = c * 1
      BY <1>1
    <3> QED
      BY <2>1, <3>1, Zenon DEF PowerOfTwo
  <2> QED
    BY <1>1, <2>2, NoSmallMultiple
<1> QED
  BY <1>1, <1>2, <1>3

-----------------------------------------------------------------------------
LEMMA Triangle ==
  ASSUME NEW i \in Nat
  PROVE  (i * (i + 1)) \div 2 \in Nat /\ 2 * ((i * (i + 1)) \div 2) = i * (i + 1)
<1>1. PICK w \in Nat : i * (i + 1) = 2 * w
  <2>1. PICK h \in Nat : i = 2 * h \/ i + 1 = 2 * h
    <3>1. PICK h \in Nat : i = 2 * h \/ i = 2 * h + 1
      <4>1. i \div 2 \in Nat /\ (i = 2 * (i \div 2) \/ i = 2 * (i \div 2) + 1)
        OBVIOUS
      <4> QED
        BY <4>1
    <3>2. h + 1 \in Nat /\ 2 * (h + 1) = 2 * h + 2
      OBVIOUS
    <3> QED
      BY <3>1, <3>2
  <2>2. PICK j \in Nat : j = i + 1
    OBVIOUS
  <2>3. i * j = j * i
    BY Distribute
  <2>4. (2 * h) * j = 2 * (h * j) /\ (2 * h) * i = 2 * (h * i)
    BY Distribute
  <2>5. h * j \in Nat /\ h * i \in Nat
    BY <2>2, TimesCommute
  <2>6. i * j = 2 * (h * j) \/ i * j = 2 * (h * i)
    BY <2>1, <2>2, <2>3, <2>4, Zenon
  <2> QED
    BY <2>2, <2>5, <2>6, Zenon
<1>2. (2 * w) \div 2 = w
  OBVIOUS
<1> QED
  BY <1>1, <1>2, Zenon

LEMMA SameRemainder ==
  ASSUME NEW a \in Nat, NEW b \in Nat, NEW n \in Nat \ {0}, a % n = b % n
  PROVE  \E q \in Int : b - a = n * q
<1>1. PICK x \in Nat, z \in Nat : x = a \div n /\ z = a % n /\ a = (x * n) + z
  <2> DEFINE d == a \div n
             e == a % n
  <2>1. d \in Nat /\ e \in 0 .. n - 1 /\ a = (d * n) + e
    BY DivMod
  <2> HIDE DEF d, e
  <2>2. e \in Nat
    BY <2>1
  <2> QED
    BY <2>1, <2>2, Zenon DEF d, e
<1>2. PICK y \in Nat, u \in Nat : y = b \div n /\ u = b % n /\ b = (y * n) + u
  <2> DEFINE d == b \div n
             e == b % n
  <2>1. d \in Nat /\ e \in 0 .. n - 1 /\ b = (d * n) + e
    BY DivMod
  <2> HIDE DEF d, e
  <2>2. e \in Nat
    BY <2>1
  <2> QED
    BY <2>1, <2>2, Zenon DEF d, e
<1>3. u = z
  BY <1>1, <1>2, Zenon
<1>4. x * n \in Nat /\ y * n \in Nat
  BY TimesCommute
<1>5. b - a = y * n - x * n
  <2>1. PICK v \in Nat, w \in Nat : v = x * n /\ w = y * n
    BY <1>4
  <2>2. a = v + z /\ b = w + z
    BY <1>1, <1>2, <1>3, <2>1, Zenon
  <2>3. b - a = w - v
    BY <2>2
  <2> QED
    BY <2>1, <2>3, Zenon
<1>6. n * (y - x) = y * n - x * n
  BY Distribute
<1>7. y - x \in Int
  OBVIOUS
<1> QED
  BY <1>5, <1>6, <1>7, Zenon

\* i(i+1) and j(j+1) differ by the product of i-j and i+j+1, one of them odd.
LEMMA TrianglesApart ==
  ASSUME NEW c, PowerOfTwo(c), NEW i \in Nat, NEW j \in Nat, i < j, j < c,
         NEW q \in Int, ((j * (j + 1)) \div 2) - ((i * (i + 1)) \div 2) = c * q
  PROVE  FALSE
<1>1. c \in Nat \ {0}
  BY DEF PowerOfTwo
<1>2. PICK d \in Nat : d = 2 * c
  BY <1>1
<1>3. PowerOfTwo(d)
  BY <1>2, PowerDoubled, Zenon
<1>4. PICK a \in Int : a = j - i
  OBVIOUS
<1>5. PICK b \in Int : b = j + i + 1
  OBVIOUS
<1>6. a * b = d * q
  <2>1. PICK s \in Nat : s = (i * (i + 1)) \div 2 /\ 2 * s = i * (i + 1)
    BY Triangle
  <2>2. PICK t \in Nat : t = (j * (j + 1)) \div 2 /\ 2 * t = j * (j + 1)
    BY Triangle
  <2>3. t - s = c * q
    BY <2>1, <2>2
  <2>4. d * q = 2 * (c * q) /\ c * q \in Int
    BY <1>1, <1>2, Distribute
  <2>5. d * q = j * (j + 1) - i * (i + 1)
    BY <2>1, <2>2, <2>3, <2>4
  <2>6. a * b = j * b - i * b
    BY <1>4, <1>5, Distribute
  <2>7. PICK e \in Int, f \in Int : e = j + 1 /\ f = i + 1
    OBVIOUS
  <2>8. b = e + i /\ b = f + j
    BY <1>5, <2>7
  <2>9. j * b = j * e + j * i /\ i * b = i * f + i * j /\ j * i = i * j
    <3>1. j * (e + i) = j * e + j * i /\ i * (f + j) = i * f + i * j /\ j * i = i * j
      BY <2>7, Distribute
    <3> QED
      BY <2>8, <3>1, Zenon
  <2>10. j * e \in Int /\ i * f \in Int /\ j * i \in Int
    BY Distribute
  <2>11. a * b = j * e - i * f
    <3> HIDE DEF Odd
    <3>1. PICK u \in Int, v \in Int, w \in Int : u = j * e /\ v = i * f /\ w = j * i
      BY <2>10
    <3>2. a * b = (u + w) - (v + w)
      BY <2>6, <2>9, <3>1, Zenon
    <3>3. (u + w) - (v + w) = u - v
      OBVIOUS
    <3> QED
      BY <3>1, <3>2, <3>3, Zenon
  <2> QED
    BY <2>5, <2>7, <2>11, Zenon
<1>7. CASE Odd(a)
  <2>1. PICK z \in Int : b = d * z
    BY <1>3, <1>6, <1>7, ZenonT(60) DEF PowerOfTwo
  <2>2. 0 < b /\ b < d
    BY <1>1, <1>2, <1>5
  <2> QED
    BY <2>1, <2>2, NoSmallMultiple
<1>8. CASE \E h \in Int : a = 2 * h
  <2>1. PICK h \in Int : a = 2 * h
    BY <1>8
  <2>2. b = 2 * (h + i) + 1 /\ h + i \in Int
    BY <1>4, <1>5, <2>1
  <2>3. Odd(b)
    BY <2>2 DEF Odd
  <2>4. b * a = d * q
    BY <1>6, Distribute
  <2>5. PICK z \in Int : a = d * z
    BY <1>3, <2>3, <2>4, ZenonT(60) DEF PowerOfTwo
  <2>6. 0 < a /\ a < d
    BY <1>1, <1>2, <1>4
  <2> QED
    BY <2>5, <2>6, NoSmallMultiple
<1> QED
  BY <1>7, <1>8, Parity, Zenon

LEMMA ProbeInSlots ==
  ASSUME NEW k, Hash[k] \in Nat, NEW c \in Nat \ {0}, NEW i \in Nat
  PROVE  Probe(k, c, i) \in 0 .. c - 1
<1>1. (i * (i + 1)) \div 2 \in Nat
  BY Triangle
<1>2. Hash[k] + ((i * (i + 1)) \div 2) \in Nat
  BY <1>1
<1> QED
  BY <1>2, DivMod DEF Probe

LEMMA ProbesDiffer ==
  ASSUME NEW k, Hash[k] \in Nat, NEW c, PowerOfTwo(c),
         NEW i \in 0 .. c - 1, NEW j \in 0 .. c - 1, i < j
  PROVE  Probe(k, c, i) # Probe(k, c, j)
<1>1. c \in Nat \ {0} /\ i \in Nat /\ j \in Nat /\ j < c
  BY DEF PowerOfTwo
<1>2. PICK s \in Nat : s = (i * (i + 1)) \div 2
  BY <1>1, Triangle
<1>3. PICK t \in Nat : t = (j * (j + 1)) \div 2
  BY <1>1, Triangle
<1>4. PICK h \in Nat : h = Hash[k]
  OBVIOUS
<1>5. ASSUME Probe(k, c, i) = Probe(k, c, j) PROVE FALSE
  <2>1. (h + s) % c = (h + t) % c
    BY <1>2, <1>3, <1>4, <1>5, Zenon DEF Probe
  <2>2. h + s \in Nat /\ h + t \in Nat
    OBVIOUS
  <2>3. PICK q \in Int : (h + t) - (h + s) = c * q
    BY <1>1, <2>1, <2>2, SameRemainder, ZenonT(60)
  <2>4. t - s = c * q
    <3>1. (h + t) - (h + s) = t - s
      OBVIOUS
    <3> QED
      BY <2>3, <3>1, Zenon
  <2>5. ((j * (j + 1)) \div 2) - ((i * (i + 1)) \div 2) = c * q
    BY <1>2, <1>3, <2>4, Zenon
  <2> QED
    BY <1>1, <2>5, TrianglesApart, Zenon
<1> QED
  BY <1>5

\* So every slot is probed.
LEMMA ProbesReachAll ==
  ASSUME NEW k, Hash[k] \in Nat, NEW c, PowerOfTwo(c), NEW p \in 0 .. c - 1
  PROVE  \E i \in 0 .. c - 1 : Probe(k, c, i) = p
<1>1. c \in Nat \ {0}
  BY DEF PowerOfTwo
<1> DEFINE S == 0 .. c - 1
           f == [i \in S |-> Probe(k, c, i)]
           T == {f[i] : i \in S}
<1>2. IsFiniteSet(S)
  BY <1>1, FS_Interval
<1>3. f \in [S -> S]
  <2>1. ASSUME NEW i \in S PROVE Probe(k, c, i) \in S
    <3>1. i \in Nat
      BY <1>1
    <3> QED
      BY <1>1, <3>1, ProbeInSlots
  <2> QED
    BY <2>1
<1>4. ASSUME NEW i \in S, NEW j \in S, f[i] = f[j] PROVE i = j
  <2>1. Probe(k, c, i) = Probe(k, c, j)
    BY <1>4
  <2>2. ~(i < j) /\ ~(j < i)
    BY <2>1, ProbesDiffer
  <2> QED
    BY <1>1, <2>2
<1>5. f \in Injection(S, S)
  <2> HIDE DEF f, S
  <2>1. DOMAIN f = S
    BY <1>3
  <2> QED
    BY <1>3, <1>4, <2>1 DEF Injection, IsInjective
<1>6. Cardinality(S) <= Cardinality(S)
  BY <1>2, FS_CardinalityType
<1>7. f \in Surjection(S, S)
  BY <1>2, <1>5, <1>6, FS_Injection
<1>8. \E i \in S : f[i] = p
  BY <1>7 DEF Surjection
<1> QED
  BY <1>8

-----------------------------------------------------------------------------
(***************************************************************************)
(* Tables: the slots that the operations leave.  An entry is where a probe *)
(* for its key lands without meeting an empty slot before.                 *)
(***************************************************************************)
Slots == [key : Keys \union {Empty, Tomb}, val : Values \union {Empty}]

Lands(sl, c, k, n, p) == /\ Probe(k, c, n) = p
                         /\ \A m \in 0 .. n - 1 : sl[Probe(k, c, m)].key # Empty

Table(sl, c) ==
  /\ PowerOfTwo(c) /\ c >= 2
  /\ sl \in [0 .. c - 1 -> Slots]
  /\ \A i, j \in Filled(sl) : sl[i].key = sl[j].key => i = j
  /\ \A i \in Filled(sl) : \E n \in 0 .. c - 1 : Lands(sl, c, sl[i].key, n, i)

Pairs(sl) == {sl[i] : i \in Filled(sl)}

Absent(sl, k) == \A i \in Filled(sl) : sl[i].key # k

LEMMA SlotFields ==
  /\ \A e \in Slots : e.key \in Keys \union {Empty, Tomb}
  /\ \A k \in Keys \union {Empty, Tomb}, v \in Values \union {Empty} :
       /\ [key |-> k, val |-> v] \in Slots
       /\ [key |-> k, val |-> v].key = k /\ [key |-> k, val |-> v].val = v
BY DEF Slots

LEMMA TableShape ==
  ASSUME NEW sl, NEW c, Table(sl, c)
  PROVE  /\ c \in Nat \ {0} /\ DOMAIN sl = 0 .. c - 1 /\ Cardinality(DOMAIN sl) = c
         /\ \A p \in 0 .. c - 1 : sl[p] \in Slots
         /\ \A i \in Filled(sl) : i \in 0 .. c - 1 /\ sl[i].key \in Keys
<1>1. c \in Nat \ {0} /\ sl \in [0 .. c - 1 -> Slots]
  BY DEF Table, PowerOfTwo
<1>2. Cardinality(0 .. c - 1) = c
  BY <1>1, FS_Interval
<1>3. DOMAIN sl = 0 .. c - 1 /\ \A p \in 0 .. c - 1 : sl[p] \in Slots
  BY <1>1
<1>4. ASSUME NEW i \in Filled(sl) PROVE i \in 0 .. c - 1 /\ sl[i].key \in Keys
  <2>1. i \in 0 .. c - 1 /\ sl[i].key \notin {Empty, Tomb}
    BY <1>3 DEF Filled
  <2> QED
    BY <1>3, <2>1, SlotFields
<1> QED
  BY <1>1, <1>2, <1>3, <1>4, Zenon

LEMMA FirstOf ==
  ASSUME NEW S \in SUBSET Nat, S # {}
  PROVE  Min(S) \in S /\ \A m \in S : Min(S) <= m
BY Smallest DEF Min

\* The slot that a probe for a key of the map meets.
LEMMA ProbeSlot ==
  ASSUME HashedKeys, NEW sl, NEW c, Table(sl, c), NEW k \in Keys, NEW n \in 0 .. c - 1
  PROVE  /\ Probe(k, c, n) \in 0 .. c - 1
         /\ \A m \in 0 .. c - 1 : Probe(k, c, m) = Probe(k, c, n) => m = n
<1>1. Hash[k] \in Nat /\ c \in Nat \ {0} /\ n \in Nat
  BY TableShape DEF HashedKeys
<1>2. Probe(k, c, n) \in 0 .. c - 1
  BY <1>1, ProbeInSlots
<1>3. ASSUME NEW m \in 0 .. c - 1, Probe(k, c, m) = Probe(k, c, n) PROVE m = n
  <2>1. PowerOfTwo(c)
    BY DEF Table
  <2>2. ~(m < n) /\ ~(n < m)
    BY <1>1, <1>3, <2>1, ProbesDiffer
  <2> QED
    BY <1>1, <2>2
<1> QED
  BY <1>2, <1>3

EndsProbe(sl, c, k) == {i \in 0 .. c - 1 : sl[Probe(k, c, i)].key \in {k, Empty}}
TombsBefore(sl, c, k, end) == {i \in 0 .. end - 1 : sl[Probe(k, c, i)].key = Tomb}

LEMMA FindStops ==
  ASSUME NEW sl, NEW c, Cardinality(DOMAIN sl) = c, NEW k, NEW end,
         EndsProbe(sl, c, k) # {}, end = Min(EndsProbe(sl, c, k)), end < c
  PROVE  Find(sl, k) =
           IF sl[Probe(k, c, end)].key = k THEN [found |-> TRUE, idx |-> Probe(k, c, end)]
           ELSE [found |-> FALSE,
                 idx |-> IF TombsBefore(sl, c, k, end) # {}
                         THEN Probe(k, c, Min(TombsBefore(sl, c, k, end)))
                         ELSE Probe(k, c, end)]
BY DEF Find, EndsProbe, TombsBefore

LEMMA FindStored ==
  ASSUME HashedKeys, NEW sl, NEW c, Table(sl, c), NEW i \in Filled(sl), NEW k, sl[i].key = k
  PROVE  Find(sl, k) = [found |-> TRUE, idx |-> i]
<1>1. /\ c \in Nat \ {0} /\ DOMAIN sl = 0 .. c - 1 /\ Cardinality(DOMAIN sl) = c
      /\ i \in 0 .. c - 1 /\ k \in Keys
  BY TableShape
<1>2. PICK n \in 0 .. c - 1 : Lands(sl, c, k, n, i)
  BY DEF Table
<1>3. n \in EndsProbe(sl, c, k)
  BY <1>2 DEF Lands, EndsProbe
<1>4. ASSUME NEW m \in EndsProbe(sl, c, k) PROVE n <= m
  <2>1. m \in 0 .. c - 1 /\ Probe(k, c, m) \in 0 .. c - 1 /\ sl[Probe(k, c, m)].key \in {k, Empty}
    BY <1>1, ProbeSlot DEF EndsProbe
  <2>2. CASE sl[Probe(k, c, m)].key = k
    <3>1. Probe(k, c, m) \in Filled(sl)
      BY <1>1, <2>1, <2>2 DEF Filled, HashedKeys
    <3>2. Probe(k, c, m) = i
      BY <2>2, <3>1 DEF Table
    <3>3. m = n
      BY <1>1, <1>2, <2>1, <3>2, ProbeSlot DEF Lands
    <3> QED
      BY <1>1, <3>3
  <2>3. CASE sl[Probe(k, c, m)].key = Empty
    <3>1. m \notin 0 .. n - 1
      BY <1>2, <2>3 DEF Lands
    <3> QED
      BY <1>1, <2>1, <3>1
  <2> QED
    BY <2>1, <2>2, <2>3
<1>5. EndsProbe(sl, c, k) \in SUBSET Nat
  BY <1>1 DEF EndsProbe
<1>6. Min(EndsProbe(sl, c, k)) = n
  <2>1. PICK e : e = Min(EndsProbe(sl, c, k))
    OBVIOUS
  <2>2. e \in EndsProbe(sl, c, k) /\ e <= n
    BY <1>3, <1>5, <2>1, FirstOf
  <2>3. n <= e /\ e \in Nat /\ n \in Nat
    BY <1>1, <1>4, <1>5, <2>2
  <2> QED
    BY <2>1, <2>2, <2>3
<1>7. n < c
  BY <1>1
<1>8. sl[Probe(k, c, n)].key = k
  BY <1>2 DEF Lands
<1>9. Find(sl, k) = [found |-> TRUE, idx |-> Probe(k, c, n)]
  BY <1>1, <1>3, <1>6, <1>7, <1>8, FindStops
<1> QED
  BY <1>2, <1>9 DEF Lands

LEMMA FindAbsent ==
  ASSUME HashedKeys, NEW sl, NEW c, Table(sl, c), NEW k \in Keys, Absent(sl, k),
         NEW p \in 0 .. c - 1, sl[p].key = Empty
  PROVE  \E n \in 0 .. c - 1, q \in 0 .. c - 1 :
           /\ Find(sl, k) = [found |-> FALSE, idx |-> q]
           /\ Lands(sl, c, k, n, q)
           /\ sl[q].key \in {Empty, Tomb}
<1>1. c \in Nat \ {0} /\ DOMAIN sl = 0 .. c - 1 /\ Cardinality(DOMAIN sl) = c
  BY TableShape
<1>2. PICK t \in 0 .. c - 1 : Probe(k, c, t) = p
  BY ProbesReachAll DEF Table, HashedKeys
<1>3. t \in EndsProbe(sl, c, k) /\ EndsProbe(sl, c, k) \in SUBSET Nat
  BY <1>1, <1>2 DEF EndsProbe
<1>4. PICK e : e = Min(EndsProbe(sl, c, k))
  OBVIOUS
<1>5. e \in EndsProbe(sl, c, k) /\ \A m \in EndsProbe(sl, c, k) : e <= m
  BY <1>3, <1>4, FirstOf
<1>6. e \in 0 .. c - 1 /\ e \in Nat /\ e < c
  BY <1>1, <1>5 DEF EndsProbe
<1>7. ASSUME NEW m \in 0 .. c - 1, sl[Probe(k, c, m)].key = k PROVE FALSE
  <2>1. Probe(k, c, m) \in 0 .. c - 1
    BY ProbeSlot
  <2>2. Probe(k, c, m) \in Filled(sl)
    BY <1>1, <1>7, <2>1 DEF Filled, HashedKeys
  <2> QED
    BY <1>7, <2>2 DEF Absent
<1>8. sl[Probe(k, c, e)].key = Empty /\ sl[Probe(k, c, e)].key # k
  BY <1>5, <1>6, <1>7 DEF EndsProbe
<1>9. ASSUME NEW m \in 0 .. e - 1 PROVE sl[Probe(k, c, m)].key # Empty
  <2>1. m \in 0 .. c - 1 /\ ~(e <= m)
    BY <1>1, <1>6
  <2> QED
    BY <1>5, <2>1 DEF EndsProbe
<1>10. Find(sl, k) = [found |-> FALSE,
                      idx |-> IF TombsBefore(sl, c, k, e) # {}
                              THEN Probe(k, c, Min(TombsBefore(sl, c, k, e)))
                              ELSE Probe(k, c, e)]
  BY <1>1, <1>3, <1>4, <1>6, <1>8, FindStops
<1>11. CASE TombsBefore(sl, c, k, e) = {}
  <2>1. Find(sl, k) = [found |-> FALSE, idx |-> Probe(k, c, e)]
    BY <1>10, <1>11
  <2>2. Probe(k, c, e) \in 0 .. c - 1
    BY <1>6, ProbeSlot
  <2>3. Lands(sl, c, k, e, Probe(k, c, e))
    BY <1>9 DEF Lands
  <2> QED
    BY <1>6, <1>8, <2>1, <2>2, <2>3
<1>12. CASE TombsBefore(sl, c, k, e) # {}
  <2>1. PICK n : n = Min(TombsBefore(sl, c, k, e))
    OBVIOUS
  <2>2. TombsBefore(sl, c, k, e) \in SUBSET Nat
    BY DEF TombsBefore
  <2>3. n \in TombsBefore(sl, c, k, e)
    BY <1>12, <2>1, <2>2, FirstOf
  <2>4. n \in 0 .. e - 1 /\ n \in 0 .. c - 1 /\ sl[Probe(k, c, n)].key = Tomb
    BY <1>1, <1>6, <2>3 DEF TombsBefore
  <2>5. Find(sl, k) = [found |-> FALSE, idx |-> Probe(k, c, n)]
    BY <1>10, <1>12, <2>1
  <2>6. Lands(sl, c, k, n, Probe(k, c, n))
    <3>1. \A m \in 0 .. n - 1 : m \in 0 .. e - 1
      BY <1>6, <2>4
    <3> QED
      BY <1>9, <3>1 DEF Lands
  <2>7. Probe(k, c, n) \in 0 .. c - 1
    BY <2>4, ProbeSlot
  <2> QED
    BY <2>4, <2>5, <2>6, <2>7
<1> QED
  BY <1>11, <1>12

-----------------------------------------------------------------------------
(***************************************************************************)
(* What putting an entry into a slot and marking one as erased do.         *)
(***************************************************************************)
Put(sl, q, e) == [sl EXCEPT ![q] = e]

LEMMA InsertKeeps ==
  ASSUME HashedKeys, NEW sl, NEW c, Table(sl, c), NEW e \in Slots, e.key \in Keys,
         Absent(sl, e.key), NEW n \in 0 .. c - 1, NEW q \in 0 .. c - 1,
         Lands(sl, c, e.key, n, q), sl[q].key \in {Empty, Tomb},
         NEW tl, tl = Put(sl, q, e)
  PROVE  /\ Table(tl, c)
         /\ Filled(tl) = Filled(sl) \union {q} /\ q \notin Filled(sl)
         /\ Pairs(tl) = Pairs(sl) \union {e}
<1>1. /\ c \in Nat \ {0} /\ DOMAIN sl = 0 .. c - 1
      /\ \A p \in 0 .. c - 1 : sl[p] \in Slots
      /\ \A i \in Filled(sl) : i \in 0 .. c - 1 /\ sl[i].key \in Keys
  BY TableShape
<1>2. DOMAIN tl = 0 .. c - 1 /\ tl[q] = e /\ \A p \in 0 .. c - 1 : p # q => tl[p] = sl[p]
  BY <1>1 DEF Put
<1>3. tl \in [0 .. c - 1 -> Slots]
  BY <1>1, <1>2 DEF Put
<1>4. Filled(tl) = Filled(sl) \union {q} /\ q \notin Filled(sl)
  BY <1>1, <1>2 DEF Filled, HashedKeys
<1>5. Pairs(tl) = Pairs(sl) \union {e}
  <2>1. \A i \in Filled(sl) : tl[i] = sl[i]
    BY <1>1, <1>2, <1>4
  <2>2. {tl[i] : i \in Filled(sl) \union {q}} = {sl[i] : i \in Filled(sl)} \union {e}
    BY <1>2, <2>1
  <2> QED
    BY <1>4, <2>2 DEF Pairs
<1>6. \A i, j \in Filled(tl) : tl[i].key = tl[j].key => i = j
  BY <1>1, <1>2, <1>4 DEF Table, Absent
<1>7. ASSUME NEW k \in Keys, NEW m \in 0 .. c - 1, NEW p, Lands(sl, c, k, m, p)
      PROVE  Lands(tl, c, k, m, p)
  <2>1. ASSUME NEW x \in 0 .. m - 1 PROVE tl[Probe(k, c, x)].key # Empty
    <3>1. x \in 0 .. c - 1
      BY <1>1
    <3>2. Probe(k, c, x) \in 0 .. c - 1
      BY <3>1, ProbeSlot
    <3>3. sl[Probe(k, c, x)].key # Empty
      BY <1>7 DEF Lands
    <3> QED
      BY <1>2, <3>2, <3>3 DEF HashedKeys
  <2> QED
    BY <1>7, <2>1 DEF Lands
<1>8. ASSUME NEW i \in Filled(tl) PROVE \E m \in 0 .. c - 1 : Lands(tl, c, tl[i].key, m, i)
  <2>1. CASE i = q
    BY <1>2, <1>7, <2>1
  <2>2. CASE i # q
    <3>1. i \in Filled(sl) /\ tl[i] = sl[i] /\ sl[i].key \in Keys
      BY <1>1, <1>2, <1>4, <2>2
    <3>2. PICK m \in 0 .. c - 1 : Lands(sl, c, sl[i].key, m, i)
      BY <3>1 DEF Table
    <3> QED
      BY <1>7, <3>1, <3>2
  <2> QED
    BY <2>1, <2>2
<1>9. PowerOfTwo(c) /\ c >= 2
  BY DEF Table
<1>10. Table(tl, c)
  BY <1>3, <1>6, <1>8, <1>9 DEF Table
<1> QED
  BY <1>4, <1>5, <1>10

LEMMA EraseKeeps ==
  ASSUME HashedKeys, NEW sl, NEW c, Table(sl, c), NEW q \in Filled(sl),
         NEW tl, tl = Put(sl, q, [key |-> Tomb, val |-> Empty])
  PROVE  /\ Table(tl, c)
         /\ Filled(tl) = Filled(sl) \ {q}
         /\ Pairs(tl) = Pairs(sl) \ {sl[q]}
<1>1. /\ c \in Nat \ {0} /\ DOMAIN sl = 0 .. c - 1
      /\ \A p \in 0 .. c - 1 : sl[p] \in Slots
      /\ \A i \in Filled(sl) : i \in 0 .. c - 1 /\ sl[i].key \in Keys
  BY TableShape
<1>2. PICK e \in Slots : e = [key |-> Tomb, val |-> Empty] /\ e.key = Tomb
  BY SlotFields
<1>3. /\ DOMAIN tl = 0 .. c - 1 /\ tl[q] = e /\ \A p \in 0 .. c - 1 : p # q => tl[p] = sl[p]
      /\ tl \in [0 .. c - 1 -> Slots]
  <2>1. tl = [sl EXCEPT ![q] = e] /\ q \in 0 .. c - 1
    BY <1>1, <1>2 DEF Put
  <2> QED
    BY <1>1, <2>1
<1>4. Filled(tl) = Filled(sl) \ {q}
  BY <1>1, <1>2, <1>3 DEF Filled
<1>5. \A i \in Filled(sl) : i # q => sl[i] # sl[q]
  BY DEF Table
<1>6. Pairs(tl) = Pairs(sl) \ {sl[q]}
  <2>1. \A i \in Filled(sl) \ {q} : tl[i] = sl[i]
    BY <1>1, <1>3
  <2>2. {tl[i] : i \in Filled(sl) \ {q}} = {sl[i] : i \in Filled(sl)} \ {sl[q]}
    BY <1>5, <2>1
  <2> QED
    BY <1>4, <2>2 DEF Pairs
<1>7. \A i, j \in Filled(tl) : tl[i].key = tl[j].key => i = j
  BY <1>1, <1>3, <1>4 DEF Table
<1>8. ASSUME NEW i \in Filled(tl) PROVE \E m \in 0 .. c - 1 : Lands(tl, c, tl[i].key, m, i)
  <2>1. i \in Filled(sl) /\ tl[i] = sl[i] /\ sl[i].key \in Keys
    BY <1>1, <1>3, <1>4
  <2>2. PICK m \in 0 .. c - 1 : Lands(sl, c, sl[i].key, m, i)
    BY <2>1 DEF Table
  <2>3. ASSUME NEW x \in 0 .. m - 1 PROVE tl[Probe(sl[i].key, c, x)].key # Empty
    <3>1. x \in 0 .. c - 1
      BY <1>1
    <3>2. Probe(sl[i].key, c, x) \in 0 .. c - 1
      BY <2>1, <3>1, ProbeSlot
    <3>3. sl[Probe(sl[i].key, c, x)].key # Empty
      BY <2>2 DEF Lands
    <3> QED
      BY <1>2, <1>3, <3>2, <3>3 DEF HashedKeys
  <2> QED
    BY <2>1, <2>2, <2>3 DEF Lands
<1>9. PowerOfTwo(c) /\ c >= 2
  BY DEF Table
<1>10. Table(tl, c)
  BY <1>3, <1>7, <1>8, <1>9 DEF Table
<1> QED
  BY <1>4, <1>6, <1>10

TombSlots(sl) == {i \in DOMAIN sl : sl[i].key = Tomb}

LEMMA BlankTable ==
  ASSUME HashedKeys, NEW c, PowerOfTwo(c), c >= 2
  PROVE  /\ Table(Blank(c), c) /\ Filled(Blank(c)) = {} /\ Pairs(Blank(c)) = {}
         /\ TombSlots(Blank(c)) = {}
<1>1. PICK e \in Slots : e = [key |-> Empty, val |-> Empty] /\ e.key = Empty
  BY SlotFields
<1>2. PICK b : b = Blank(c)
  OBVIOUS
<1>3. b = [i \in 0 .. c - 1 |-> e]
  BY <1>1, <1>2 DEF Blank
<1>4. b \in [0 .. c - 1 -> Slots] /\ DOMAIN b = 0 .. c - 1
  BY <1>3
<1>5. Filled(b) = {} /\ TombSlots(b) = {}
  BY <1>1, <1>3 DEF Filled, TombSlots, HashedKeys
<1>6. Pairs(b) = {}
  BY <1>5 DEF Pairs
<1>7. Table(b, c)
  BY <1>4, <1>5 DEF Table
<1> QED
  BY <1>2, <1>5, <1>6, <1>7

LEMMA NoSlots ==
  /\ DOMAIN Blank(0) = {} /\ Filled(Blank(0)) = {} /\ Pairs(Blank(0)) = {}
  /\ TombSlots(Blank(0)) = {}
<1>1. DOMAIN Blank(0) = {}
  BY DEF Blank
<1> QED
  BY <1>1 DEF Filled, Pairs, TombSlots

-----------------------------------------------------------------------------
(***************************************************************************)
(* Counting slots.                                                         *)
(***************************************************************************)
LEMMA TrueCounts ==
  ASSUME NEW sl, NEW c, Table(sl, c)
  PROVE  /\ IsFiniteSet(Filled(sl)) /\ IsFiniteSet(TombSlots(sl))
         /\ Cardinality(Filled(sl)) \in Nat /\ Cardinality(TombSlots(sl)) \in Nat
<1>1. c \in Nat \ {0} /\ DOMAIN sl = 0 .. c - 1
  BY TableShape
<1>2. IsFiniteSet(DOMAIN sl)
  BY <1>1, FS_Interval
<1>3. Filled(sl) \subseteq DOMAIN sl /\ TombSlots(sl) \subseteq DOMAIN sl
  BY DEF Filled, TombSlots
<1> QED
  BY <1>2, <1>3, FS_Subset, FS_CardinalityType

\* A slot with each entry, an entry in each filled slot.
LEMMA EntriesCounted ==
  ASSUME NEW sl, NEW c, Table(sl, c)
  PROVE  IsFiniteSet(Pairs(sl)) /\ Cardinality(Pairs(sl)) = Cardinality(Filled(sl))
<1> DEFINE f == [i \in Filled(sl) |-> sl[i]]
<1>1. f \in [Filled(sl) -> Pairs(sl)] /\ \A e \in Pairs(sl) : \E i \in Filled(sl) : f[i] = e
  BY DEF Pairs
<1>2. \A i, j \in Filled(sl) : f[i] = f[j] => i = j
  BY DEF Table
<1>3. f \in Injection(Filled(sl), Pairs(sl)) /\ f \in Surjection(Filled(sl), Pairs(sl))
  <2>1. DOMAIN f = Filled(sl)
    OBVIOUS
  <2> HIDE DEF f
  <2> QED
    BY <1>1, <1>2, <2>1 DEF Injection, IsInjective, Surjection
<1>4. IsFiniteSet(Filled(sl))
  BY TrueCounts
<1>5. IsFiniteSet(Pairs(sl))
  BY <1>3, <1>4, FS_Surjection
<1>6. Cardinality(Pairs(sl)) = Cardinality(Filled(sl))
  <2> HIDE DEF f
  <2> QED
    BY <1>3, <1>4, FS_Surjection
<1> QED
  BY <1>5, <1>6

LEMMA RoomLeft ==
  ASSUME NEW sl, NEW c, Table(sl, c),
         Cardinality(Filled(sl)) + Cardinality(TombSlots(sl)) < c
  PROVE  \E p \in 0 .. c - 1 : sl[p].key = Empty
<1>1. c \in Nat \ {0} /\ DOMAIN sl = 0 .. c - 1
  BY TableShape
<1>2. SUFFICES ASSUME \A p \in 0 .. c - 1 : sl[p].key # Empty PROVE FALSE
  OBVIOUS
<1>3. 0 .. c - 1 = Filled(sl) \union TombSlots(sl)
  BY <1>1, <1>2 DEF Filled, TombSlots
<1>4. Cardinality(0 .. c - 1) = c
  BY <1>1, FS_Interval
<1>5. Filled(sl) \intersect TombSlots(sl) = {}
  BY DEF Filled, TombSlots
<1>6. /\ IsFiniteSet(Filled(sl)) /\ IsFiniteSet(TombSlots(sl))
      /\ Cardinality(Filled(sl)) \in Nat /\ Cardinality(TombSlots(sl)) \in Nat
  BY TrueCounts
<1>7. Cardinality(Filled(sl) \union TombSlots(sl))
        = Cardinality(Filled(sl)) + Cardinality(TombSlots(sl))
  <2>1. Cardinality({}) = 0
    BY FS_EmptySet
  <2>2. Cardinality(Filled(sl) \union TombSlots(sl))
          = Cardinality(Filled(sl)) + Cardinality(TombSlots(sl))
              - Cardinality(Filled(sl) \intersect TombSlots(sl))
    BY <1>6, FS_Union
  <2>3. PICK a \in Nat, b \in Nat : a = Cardinality(Filled(sl)) /\ b = Cardinality(TombSlots(sl))
    BY <1>6
  <2>4. Cardinality(Filled(sl) \intersect TombSlots(sl)) = 0
    BY <1>5, <2>1
  <2>5. PICK u : u = Cardinality(Filled(sl) \union TombSlots(sl))
    OBVIOUS
  <2>6. u = (a + b) - 0
    BY <2>2, <2>3, <2>4, <2>5
  <2>7. u = a + b
    BY <2>6
  <2> QED
    BY <2>3, <2>5, <2>7, Zenon
<1>8. c = Cardinality(Filled(sl)) + Cardinality(TombSlots(sl))
  BY <1>3, <1>4, <1>7, Zenon
<1> QED
  BY <1>1, <1>6, <1>8

-----------------------------------------------------------------------------
(***************************************************************************)
(* rehash_() keeps the entries and leaves no tombstone, if they fit.       *)
(***************************************************************************)
PlaceBody(f, i, sl, d) ==
  IF i = -1 THEN Blank(d)
  ELSE IF i \notin Filled(sl) THEN f[i - 1]
  ELSE LET done == f[i - 1]
           free == {j \in 0 .. d - 1 : done[Probe(sl[i].key, d, j)].key \in {Empty, Tomb}}
       IN [done EXCEPT ![Probe(sl[i].key, d, Min(free))] = sl[i]]

Placing(f, n, sl, d) == f = [i \in -1 .. n - 1 |-> PlaceBody(f, i, sl, d)]

PlaceOf(n, sl, d) == CHOOSE f : Placing(f, n, sl, d)

LEMMA PlacingExists ==
  ASSUME NEW sl, NEW d, NEW n \in Nat
  PROVE  \E f : Placing(f, n, sl, d)
<1> DEFINE G == {m \in Nat : \E f : Placing(f, m, sl, d)}
<1>1. 0 \in G
  <2> DEFINE f == [i \in -1 .. 0 - 1 |-> Blank(d)]
  <2>1. ASSUME NEW i \in -1 .. 0 - 1 PROVE f[i] = PlaceBody(f, i, sl, d)
    <3>1. i = -1
      OBVIOUS
    <3>2. f[i] = Blank(d)
      OBVIOUS
    <3> QED
      BY <3>1, <3>2 DEF PlaceBody
  <2>2. f = [i \in -1 .. 0 - 1 |-> PlaceBody(f, i, sl, d)]
    BY <2>1
  <2> HIDE DEF f
  <2> QED
    BY <2>2 DEF Placing
<1>2. ASSUME NEW m \in Nat, m \in G PROVE m + 1 \in G
  <2>1. PICK f : f = [i \in -1 .. m - 1 |-> PlaceBody(f, i, sl, d)]
    BY <1>2 DEF Placing
  <2> DEFINE g == [i \in -1 .. (m + 1) - 1 |-> IF i <= m - 1 THEN f[i] ELSE PlaceBody(f, i, sl, d)]
  <2>2. ASSUME NEW i \in -1 .. (m + 1) - 1 PROVE g[i] = PlaceBody(g, i, sl, d)
    <3>1. g[i] = PlaceBody(f, i, sl, d)
      <4>1. CASE i <= m - 1
        <5>1. i \in -1 .. m - 1
          BY <4>1
        <5> QED
          BY <2>1, <4>1, <5>1
      <4>2. CASE ~(i <= m - 1)
        BY <4>2
      <4> QED
        BY <4>1, <4>2
    <3>2. CASE i = -1
      BY <3>1, <3>2 DEF PlaceBody
    <3>3. CASE i # -1
      <4>1. i - 1 \in -1 .. (m + 1) - 1 /\ i - 1 <= m - 1
        BY <3>3
      <4>2. g[i - 1] = f[i - 1]
        BY <4>1
      <4> HIDE DEF g
      <4> QED
        BY <3>1, <3>3, <4>2, Zenon DEF PlaceBody
    <3> QED
      BY <3>2, <3>3
  <2>3. g = [i \in -1 .. (m + 1) - 1 |-> PlaceBody(g, i, sl, d)]
    BY <2>2
  <2> HIDE DEF g
  <2> QED
    BY <2>3 DEF Placing
<1>3. n \in G
  <2> HIDE DEF G
  <2> QED
    BY <1>1, <1>2, NatInductionOnSet, SMTT(40)
<1> QED
  BY <1>3

LEMMA RehashPlaces ==
  ASSUME NEW sl, NEW c, Cardinality(DOMAIN sl) = c, NEW d
  PROVE  Rehash(sl, d) = PlaceOf(c, sl, d)[c - 1]
BY DEF Rehash, PlaceOf, Placing, PlaceBody

LEMMA RehashKeeps ==
  ASSUME HashedKeys, NEW sl, NEW c, Table(sl, c), NEW d, PowerOfTwo(d), d >= 2,
         Cardinality(Filled(sl)) < d
  PROVE  /\ Table(Rehash(sl, d), d)
         /\ TombSlots(Rehash(sl, d)) = {}
         /\ Pairs(Rehash(sl, d)) = Pairs(sl)
<1>1. /\ c \in Nat \ {0} /\ DOMAIN sl = 0 .. c - 1 /\ Cardinality(DOMAIN sl) = c
      /\ \A p \in 0 .. c - 1 : sl[p] \in Slots
      /\ \A i \in Filled(sl) : i \in 0 .. c - 1 /\ sl[i].key \in Keys
  BY TableShape
<1>2. PICK f : f = [i \in -1 .. c - 1 |-> PlaceBody(f, i, sl, d)]
               /\ Rehash(sl, d) = f[c - 1]
  <2>1. c \in Nat /\ \E f : Placing(f, c, sl, d)
    BY <1>1, PlacingExists
  <2>2. Placing(PlaceOf(c, sl, d), c, sl, d)
    BY <2>1, Zenon DEF PlaceOf
  <2>3. Rehash(sl, d) = PlaceOf(c, sl, d)[c - 1]
    BY <1>1, RehashPlaces, Zenon
  <2> QED
    BY <2>2, <2>3, Zenon DEF Placing
<1> DEFINE First(i) == {x \in Filled(sl) : x < i}
           Good(tl, i) == /\ Table(tl, d) /\ TombSlots(tl) = {}
                          /\ Pairs(tl) = {sl[j] : j \in First(i)}
           G == {i \in 0 .. c : Good(f[i - 1], i)}
<1>3. 0 \in G
  <2>1. First(0) = {}
    BY <1>1
  <2>2. f[0 - 1] = Blank(d)
    <3>1. 0 - 1 \in -1 .. c - 1 /\ 0 - 1 = -1
      BY <1>1
    <3>2. f[0 - 1] = PlaceBody(f, 0 - 1, sl, d)
      BY <1>2, <3>1
    <3> QED
      BY <3>1, <3>2, Zenon DEF PlaceBody
  <2>3. Good(Blank(d), 0)
    BY <2>1, BlankTable
  <2>4. 0 \in 0 .. c
    BY <1>1
  <2> HIDE DEF Good
  <2> QED
    BY <2>2, <2>3, <2>4
<1>4. ASSUME NEW i \in 0 .. c - 1, i \in G PROVE i + 1 \in G
  <2>1. i + 1 \in 0 .. c /\ (i + 1) - 1 = i /\ i \in -1 .. c - 1 /\ i # -1 /\ i - 1 \in -1 .. c - 1
    BY <1>1
  <2>2. f[i] = PlaceBody(f, i, sl, d)
    BY <1>2, <2>1
  <2>3. PICK done : done = f[i - 1]
    OBVIOUS
  <2>4. Good(done, i)
    <3> HIDE DEF Good
    <3> QED
      BY <1>4, <2>3
  <2>5. CASE i \notin Filled(sl)
    <3>1. f[i] = done
      BY <2>1, <2>2, <2>3, <2>5, Zenon DEF PlaceBody
    <3>2. First(i + 1) = First(i)
      BY <1>1, <2>5
    <3>3. Good(done, i + 1)
      <4> HIDE DEF First
      <4> QED
        BY <2>4, <3>2
    <3> HIDE DEF Good
    <3> QED
      BY <2>1, <3>1, <3>3
  <2>6. CASE i \in Filled(sl)
    <3>1. PICK e \in Slots : e = sl[i] /\ e.key \in Keys
      BY <1>1, <2>6
    <3>2. PICK k \in Keys : k = e.key
      BY <3>1
    <3>3. Absent(done, k)
      <4>1. SUFFICES ASSUME NEW x \in Filled(done), done[x].key = k PROVE FALSE
        BY DEF Absent
      <4>2. done[x] \in {sl[j] : j \in First(i)}
        BY <2>4 DEF Pairs
      <4>3. PICK j \in Filled(sl) : j < i /\ sl[j].key = k
        BY <4>1, <4>2
      <4>4. j = i
        BY <2>6, <3>1, <3>2, <4>3 DEF Table
      <4> QED
        BY <1>1, <4>3, <4>4
    <3>4. d \in Nat \ {0} /\ DOMAIN done = 0 .. d - 1 /\ Table(done, d)
      BY <2>4, TableShape
    <3>5. PICK p \in 0 .. d - 1 : done[p].key = Empty
      <4>1. Pairs(done) \in SUBSET Pairs(sl)
        BY <2>4 DEF Pairs
      <4>2. IsFiniteSet(Pairs(sl)) /\ Cardinality(Pairs(sl)) = Cardinality(Filled(sl))
        BY EntriesCounted
      <4>3. Cardinality(Pairs(done)) = Cardinality(Filled(done))
        BY <3>4, EntriesCounted
      <4>4. Cardinality(Pairs(done)) <= Cardinality(Pairs(sl))
        BY <4>1, <4>2, FS_Subset
      <4>5. Cardinality(Filled(sl)) \in Nat /\ Cardinality(Filled(done)) \in Nat
        BY <3>4, TrueCounts
      <4>6. Cardinality(Filled(done)) < d
        BY <3>4, <4>2, <4>3, <4>4, <4>5
      <4>7. Cardinality(TombSlots(done)) = 0
        BY <2>4, FS_EmptySet
      <4>8. Cardinality(Filled(done)) + Cardinality(TombSlots(done)) < d
        BY <3>4, <4>5, <4>6, <4>7
      <4> QED
        BY <3>4, <4>8, RoomLeft
    <3> DEFINE free == {j \in 0 .. d - 1 : done[Probe(e.key, d, j)].key \in {Empty, Tomb}}
    <3>6. PICK t \in 0 .. d - 1 : Probe(k, d, t) = p
      BY ProbesReachAll DEF HashedKeys
    <3>7. free \in SUBSET Nat /\ t \in free
      BY <3>2, <3>4, <3>5, <3>6
    <3>8. PICK n : n = Min(free)
      OBVIOUS
    <3>9. n \in free /\ \A m \in free : n <= m
      <4> HIDE DEF free
      <4> QED
        BY <3>7, <3>8, FirstOf
    <3>10. PICK q : q = Probe(e.key, d, n)
      OBVIOUS
    <3>11. n \in 0 .. d - 1 /\ q \in 0 .. d - 1 /\ done[q].key \in {Empty, Tomb}
      BY <3>2, <3>4, <3>9, <3>10, ProbeSlot
    <3>12. Lands(done, d, e.key, n, q)
      <4>1. ASSUME NEW m \in 0 .. n - 1 PROVE done[Probe(e.key, d, m)].key # Empty
        <5>1. m \in 0 .. d - 1 /\ ~(n <= m)
          BY <3>4, <3>11
        <5> QED
          BY <3>9, <5>1
      <4> QED
        BY <3>10, <4>1 DEF Lands
    <3>13. PICK tl : tl = Put(done, q, e)
      OBVIOUS
    <3>14. f[i] = tl
      <4>1. PlaceBody(f, i, sl, d) = [done EXCEPT ![Probe(sl[i].key, d, Min(free))] = sl[i]]
        BY <2>1, <2>3, <2>6, <3>1 DEF PlaceBody
      <4> HIDE DEF free
      <4> QED
        BY <2>2, <3>1, <3>8, <3>10, <3>13, <4>1, Zenon DEF Put
    <3>15. Table(tl, d) /\ Pairs(tl) = Pairs(done) \union {e}
      <4>1. Absent(done, e.key) /\ e.key \in Keys
        BY <3>1, <3>2, <3>3
      <4> QED
        BY <3>1, <3>4, <3>11, <3>12, <3>13, <4>1, InsertKeeps
    <3>16. TombSlots(tl) = {}
      <4>1. DOMAIN tl = DOMAIN done /\ tl[q] = e
            /\ \A x \in DOMAIN done : x # q => tl[x] = done[x]
        BY <3>4, <3>11, <3>13 DEF Put
      <4>2. e.key # Tomb
        BY <3>1 DEF HashedKeys
      <4> QED
        BY <2>4, <4>1, <4>2 DEF TombSlots
    <3>17. Pairs(tl) = {sl[j] : j \in First(i + 1)}
      <4>1. First(i + 1) = First(i) \union {i}
        <5>1. \A x \in Filled(sl) : x < i + 1 <=> (x < i \/ x = i)
          BY <1>1
        <5> QED
          BY <2>6, <5>1
      <4> HIDE DEF First
      <4> QED
        BY <2>4, <3>1, <3>15, <4>1
    <3>18. Good(tl, i + 1)
      BY <3>15, <3>16, <3>17
    <3> HIDE DEF Good
    <3> QED
      BY <2>1, <3>14, <3>18
  <2> QED
    BY <2>5, <2>6
<1>5. c \in G
  <2> HIDE DEF G
  <2>1. 0 .. c \subseteq G
    BY <1>1, <1>3, <1>4, UpToInduction
  <2> QED
    BY <1>1, <2>1
<1>6. {sl[j] : j \in First(c)} = Pairs(sl)
  <2>1. First(c) = Filled(sl)
    BY <1>1
  <2> HIDE DEF First
  <2> QED
    BY <2>1 DEF Pairs
<1> QED
  BY <1>2, <1>5, <1>6

-----------------------------------------------------------------------------
(***************************************************************************)
(* The invariant: a table whose counters are exact and which is not full.  *)
(***************************************************************************)
Loaded(sl, n, t, c) ==
  /\ n = Cardinality(Filled(sl)) /\ t = Cardinality(TombSlots(sl))
  /\ (n + t) * 100 <= c * MaxLoad

Kept(sl, n, t) == \/ sl = Blank(0) /\ n = 0 /\ t = 0
                  \/ \E c : Table(sl, c) /\ Loaded(sl, n, t, c)

MapInv == Kept(slot, size, tombstones)

LEMMA LoadedRoom ==
  ASSUME NEW sl, NEW c, Table(sl, c), NEW n, NEW t, Loaded(sl, n, t, c)
  PROVE  n \in Nat /\ t \in Nat /\ \E p \in 0 .. c - 1 : sl[p].key = Empty
<1>1. n \in Nat /\ t \in Nat /\ n = Cardinality(Filled(sl)) /\ t = Cardinality(TombSlots(sl))
  BY TrueCounts DEF Loaded
<1>2. c \in Nat \ {0} /\ (n + t) * 100 <= c * 75
  BY TableShape DEF Loaded, MaxLoad
<1>3. n + t < c
  BY <1>1, <1>2
<1>4. \E p \in 0 .. c - 1 : sl[p].key = Empty
  BY <1>1, <1>3, RoomLeft
<1> QED
  BY <1>1, <1>4

\* The slots that emplace() starts from.
LEMMA Allocated ==
  ASSUME HashedKeys, MapInv, NEW sl, sl = IF Cap = 0 THEN Blank(MinCapacity) ELSE slot
  PROVE  /\ \E c : Table(sl, c) /\ Loaded(sl, size, tombstones, c)
         /\ Pairs(sl) = Pairs(slot)
<1>1. CASE slot = Blank(0) /\ size = 0 /\ tombstones = 0
  <2>1. Cap = 0
    BY <1>1, NoSlots, FS_EmptySet DEF Cap
  <2>2. sl = Blank(2)
    BY <2>1 DEF MinCapacity
  <2>3. Table(sl, 2) /\ Filled(sl) = {} /\ Pairs(sl) = {} /\ TombSlots(sl) = {}
    BY <2>2, TwoIsPower, BlankTable
  <2>4. Loaded(sl, size, tombstones, 2)
    <3>1. Cardinality({}) = 0
      BY FS_EmptySet
    <3> QED
      BY <1>1, <2>3, <3>1 DEF Loaded, MaxLoad
  <2>5. Pairs(slot) = {}
    BY <1>1, NoSlots
  <2> QED
    BY <2>3, <2>4, <2>5
<1>2. CASE \E c : Table(slot, c) /\ Loaded(slot, size, tombstones, c)
  <2>1. PICK c : Table(slot, c) /\ Loaded(slot, size, tombstones, c)
    BY <1>2
  <2>2. Cap = c /\ c # 0
    BY <2>1, TableShape DEF Cap
  <2>3. sl = slot
    BY <2>2
  <2> QED
    BY <2>1, <2>3
<1> QED
  BY <1>1, <1>2 DEF MapInv, Kept

\* Reserving a slot keeps the entries; a new table has no tombstones.
LEMMA ReservedKeeps ==
  ASSUME HashedKeys, NEW sl, NEW c, Table(sl, c), Loaded(sl, size, tombstones, c),
         NEW r, r = Reserved(sl)
  PROVE  /\ r = sl \/ TombSlots(r) = {}
         /\ \E d : /\ Table(r, d) /\ Pairs(r) = Pairs(sl)
                   /\ Loaded(r, size, IF r = sl THEN tombstones ELSE 0, d)
                   /\ (size + 1 + (IF r = sl THEN tombstones ELSE 0)) * 100 <= d * MaxLoad
<1>1. c \in Nat \ {0} /\ c >= 2 /\ PowerOfTwo(c) /\ Cardinality(DOMAIN sl) = c
  BY TableShape DEF Table
<1>2. /\ size \in Nat /\ tombstones \in Nat /\ size = Cardinality(Filled(sl))
      /\ tombstones = Cardinality(TombSlots(sl)) /\ (size + tombstones) * 100 <= c * 75
  BY LoadedRoom DEF Loaded, MaxLoad
<1>3. r = IF c * 75 >= (size + tombstones + 1) * 100 THEN sl
          ELSE IF (size + 1) * 100 <= c * 75 THEN Rehash(sl, c) ELSE Rehash(sl, c * 2)
  BY <1>1 DEF Reserved, MaxLoad
<1>4. ASSUME c * 75 >= (size + tombstones + 1) * 100, r = sl
      PROVE  /\ Loaded(r, size, IF r = sl THEN tombstones ELSE 0, c)
             /\ (size + 1 + (IF r = sl THEN tombstones ELSE 0)) * 100 <= c * MaxLoad
  BY <1>1, <1>2, <1>4 DEF MaxLoad
<1>5. ASSUME NEW d \in Nat, PowerOfTwo(d), d >= 2, r = Rehash(sl, d), (size + 1) * 100 <= d * 75
      PROVE  /\ TombSlots(r) = {} /\ Table(r, d) /\ Pairs(r) = Pairs(sl)
             /\ Loaded(r, size, IF r = sl THEN tombstones ELSE 0, d)
             /\ (size + 1 + (IF r = sl THEN tombstones ELSE 0)) * 100 <= d * MaxLoad
  <2>1. Cardinality(Filled(sl)) < d
    BY <1>2, <1>5
  <2>2. TombSlots(r) = {} /\ Table(r, d) /\ Pairs(r) = Pairs(sl)
    BY <1>5, <2>1, RehashKeeps
  <2>3. Cardinality(Filled(r)) = size
    BY <1>2, <2>2, EntriesCounted
  <2>4. Cardinality(TombSlots(r)) = 0
    BY <2>2, FS_EmptySet
  <2>5. PICK t : t = IF r = sl THEN tombstones ELSE 0
    OBVIOUS
  <2>6. t = 0
    BY <1>2, <2>4, <2>5
  <2>7. Loaded(r, size, t, d) /\ (size + 1 + t) * 100 <= d * MaxLoad
    BY <1>2, <1>5, <2>3, <2>4, <2>6 DEF Loaded, MaxLoad
  <2> QED
    BY <2>2, <2>5, <2>7, Zenon
<1>6. CASE c * 75 >= (size + tombstones + 1) * 100
  <2>1. r = sl
    BY <1>3, <1>6
  <2> QED
    BY <1>4, <1>6, <2>1
<1>7. CASE ~(c * 75 >= (size + tombstones + 1) * 100) /\ (size + 1) * 100 <= c * 75
  <2>1. r = Rehash(sl, c)
    BY <1>3, <1>7
  <2> QED
    BY <1>1, <1>5, <1>7, <2>1
<1>8. CASE ~(c * 75 >= (size + tombstones + 1) * 100) /\ ~((size + 1) * 100 <= c * 75)
  <2>1. r = Rehash(sl, c * 2)
    BY <1>3, <1>8
  <2>2. PICK d \in Nat : d = c * 2
    BY <1>1
  <2>3. c * 2 = 2 * c
    BY <1>1
  <2>4. PowerOfTwo(d) /\ d >= 2
    BY <1>1, <2>2, <2>3, PowerDoubled
  <2>5. (size + 1) * 100 <= d * 75
    BY <1>1, <1>2, <2>2
  <2>6. r = Rehash(sl, d)
    BY <2>1, <2>2
  <2> QED
    BY <1>5, <2>4, <2>5, <2>6
<1> QED
  BY <1>6, <1>7, <1>8

-----------------------------------------------------------------------------
(***************************************************************************)
(* What a step does to the entries.                                        *)
(***************************************************************************)
LEMMA EmplaceCases ==
  ASSUME NEW k, NEW v, Emplace(k, v),
         NEW sl, sl = IF Cap = 0 THEN Blank(MinCapacity) ELSE slot,
         NEW r, r = Reserved(sl)
  PROVE  \/ UNCHANGED mapVars
         \/ /\ ~Find(sl, k).found /\ sl[Find(sl, k).idx].key = Tomb
            /\ slot' = Put(sl, Find(sl, k).idx, [key |-> k, val |-> v])
            /\ tombstones' = tombstones - 1 /\ size' = size + 1
         \/ /\ ~Find(sl, k).found /\ sl[Find(sl, k).idx].key = Empty
            /\ slot' = Put(r, Find(r, k).idx, [key |-> k, val |-> v])
            /\ (tombstones' = IF r = sl THEN tombstones ELSE 0) /\ size' = size + 1
BY Zenon DEF Emplace, Put

LEMMA EraseCases ==
  ASSUME NEW k, Erase(k),
         NEW left, left = Put(slot, Find(slot, k).idx, [key |-> Tomb, val |-> Empty])
  PROVE  /\ Cap > 0 /\ Find(slot, k).found /\ size' = size - 1
         /\ \/ size = 1 /\ slot' = Blank(0) /\ tombstones' = 0
            \/ /\ size # 1 /\ (size - 1) * 100 < Cap * MinLoad /\ Cap \div 2 >= MinCapacity
               /\ slot' = Rehash(left, Cap \div 2) /\ tombstones' = 0
            \/ size # 1 /\ slot' = left /\ tombstones' = tombstones + 1
BY Zenon DEF Erase, Put

\* A key that find() does not find is in no slot.
LEMMA NotFound ==
  ASSUME HashedKeys, NEW sl, NEW c, Table(sl, c), NEW k, ~Find(sl, k).found
  PROVE  Absent(sl, k)
<1>1. SUFFICES ASSUME NEW i \in Filled(sl), sl[i].key = k PROVE FALSE
  BY DEF Absent
<1>2. Find(sl, k) = [found |-> TRUE, idx |-> i]
  BY <1>1, FindStored
<1> QED
  BY <1>2

\* Absent and found keys, in terms of the entries.
LEMMA AbsentEntries ==
  ASSUME NEW sl, NEW k
  PROVE  Absent(sl, k) <=> \A e \in Pairs(sl) : e.key # k
BY DEF Absent, Pairs

LEMMA InsertCounts ==
  ASSUME NEW sl, NEW c, Table(sl, c), NEW tl, NEW q \in 0 .. c - 1, NEW e, e.key \notin {Empty, Tomb},
         tl = Put(sl, q, e), Filled(tl) = Filled(sl) \union {q}, q \notin Filled(sl)
  PROVE  /\ Cardinality(Filled(tl)) = Cardinality(Filled(sl)) + 1
         /\ TombSlots(tl) = TombSlots(sl) \ {q}
<1>1. IsFiniteSet(Filled(sl))
  BY TrueCounts
<1>2. Cardinality(Filled(tl)) = Cardinality(Filled(sl)) + 1
  BY <1>1, FS_AddElement
<1>3. DOMAIN sl = 0 .. c - 1
  BY TableShape
<1>4. DOMAIN tl = DOMAIN sl /\ tl[q] = e /\ \A x \in DOMAIN sl : x # q => tl[x] = sl[x]
  BY <1>3 DEF Put
<1>5. TombSlots(tl) = TombSlots(sl) \ {q}
  BY <1>4 DEF TombSlots
<1> QED
  BY <1>2, <1>5

LEMMA EmplaceStep ==
  ASSUME HashedKeys, MapInv, NEW k \in Keys, NEW v \in Values, Emplace(k, v)
  PROVE  /\ MapInv'
         /\ \/ UNCHANGED mapVars
            \/ /\ \A e \in Pairs(slot) : e.key # k
               /\ Pairs(slot') = Pairs(slot) \union {[key |-> k, val |-> v]}
<1>1. PICK sl : sl = IF Cap = 0 THEN Blank(MinCapacity) ELSE slot
  OBVIOUS
<1>2. PICK c : Table(sl, c) /\ Loaded(sl, size, tombstones, c)
  BY <1>1, Allocated
<1>3. Pairs(sl) = Pairs(slot)
  BY <1>1, Allocated
<1>4. PICK r : r = Reserved(sl)
  OBVIOUS
<1>5. PICK e \in Slots : e = [key |-> k, val |-> v] /\ e.key = k
  BY SlotFields, ZenonT(60)
<1>6. e.key \in Keys /\ e.key \notin {Empty, Tomb}
  BY <1>5 DEF HashedKeys
<1>7. c \in Nat \ {0} /\ size \in Nat /\ tombstones \in Nat
  BY <1>2, LoadedRoom, TableShape
<1>8. CASE UNCHANGED mapVars
  BY <1>8 DEF MapInv, Kept, Loaded, mapVars
<1>9. ASSUME ~Find(sl, k).found, NEW x, NEW d, Table(x, d), NEW n, NEW t, Loaded(x, n, t, d),
             Pairs(x) = Pairs(sl)
      PROVE  \E m \in 0 .. d - 1, q \in 0 .. d - 1 :
                /\ Find(x, k).idx = q /\ x[q].key \in {Empty, Tomb}
                /\ Table(Put(x, q, e), d) /\ Pairs(Put(x, q, e)) = Pairs(slot) \union {e}
                /\ Cardinality(Filled(Put(x, q, e))) = n + 1
                /\ TombSlots(Put(x, q, e)) = TombSlots(x) \ {q}
  <2>1. Absent(sl, k)
    BY <1>2, <1>9, NotFound
  <2>2. Absent(x, k)
    BY <1>9, <2>1, AbsentEntries
  <2>3. PICK p \in 0 .. d - 1 : x[p].key = Empty
    BY <1>9, LoadedRoom
  <2>4. PICK m \in 0 .. d - 1, q \in 0 .. d - 1 :
          /\ Find(x, k) = [found |-> FALSE, idx |-> q]
          /\ Lands(x, d, k, m, q)
          /\ x[q].key \in {Empty, Tomb}
    BY <1>9, <2>2, <2>3, FindAbsent
  <2>5. Lands(x, d, e.key, m, q) /\ Absent(x, e.key)
    BY <1>5, <2>2, <2>4
  <2>6. PICK tl : tl = Put(x, q, e)
    OBVIOUS
  <2>7. /\ Table(tl, d) /\ Filled(tl) = Filled(x) \union {q} /\ q \notin Filled(x)
        /\ Pairs(tl) = Pairs(x) \union {e}
    BY <1>5, <1>6, <1>9, <2>4, <2>5, <2>6, InsertKeeps
  <2>8. Cardinality(Filled(tl)) = Cardinality(Filled(x)) + 1 /\ TombSlots(tl) = TombSlots(x) \ {q}
    <3> USE <1>6, <1>9, <2>4, <2>6, <2>7
    <3>1. Cardinality(Filled(tl)) = Cardinality(Filled(x)) + 1
      BY InsertCounts, SMTT(20)
    <3>2. TombSlots(tl) = TombSlots(x) \ {q}
      BY InsertCounts, SMTT(20)
    <3> QED
      BY <3>1, <3>2
  <2>9. Cardinality(Filled(x)) = n
    BY <1>9 DEF Loaded
  <2>10. Find(x, k).idx = q
    BY <2>4
  <2> QED
    BY <1>3, <1>9, <2>4, <2>6, <2>7, <2>8, <2>9, <2>10
<1>10. CASE /\ ~Find(sl, k).found /\ sl[Find(sl, k).idx].key = Tomb
            /\ slot' = Put(sl, Find(sl, k).idx, [key |-> k, val |-> v])
            /\ tombstones' = tombstones - 1 /\ size' = size + 1
  <2>1. PICK q \in 0 .. c - 1 :
                /\ Find(sl, k).idx = q
                /\ Table(Put(sl, q, e), c) /\ Pairs(Put(sl, q, e)) = Pairs(slot) \union {e}
                /\ Cardinality(Filled(Put(sl, q, e))) = size + 1
                /\ TombSlots(Put(sl, q, e)) = TombSlots(sl) \ {q}
    BY <1>2, <1>9, <1>10
  <2>2. slot' = Put(sl, q, e)
    BY <1>5, <1>10, <2>1, Zenon
  <2>3. q \in TombSlots(sl)
    BY <1>2, <1>10, <2>1, TableShape DEF TombSlots
  <2>4. IsFiniteSet(TombSlots(sl)) /\ Cardinality(TombSlots(sl)) = tombstones
    BY <1>2, TrueCounts DEF Loaded
  <2>5. Cardinality(TombSlots(sl) \ {q}) = tombstones - 1
    BY <2>3, <2>4, FS_RemoveElement
  <2>6. (size + tombstones) * 100 <= c * MaxLoad
    BY <1>2 DEF Loaded
  <2>7. size' + tombstones' = size + tombstones
    BY <1>7, <1>10
  <2>8. Loaded(slot', size', tombstones', c)
    BY <1>10, <2>1, <2>2, <2>5, <2>6, <2>7 DEF Loaded
  <2>9. Table(slot', c) /\ Pairs(slot') = Pairs(slot) \union {e}
    BY <2>1, <2>2
  <2>10. MapInv'
    BY <2>8, <2>9 DEF MapInv, Kept
  <2>11. \A f \in Pairs(slot) : f.key # k
    BY <1>2, <1>3, <1>10, NotFound, AbsentEntries
  <2> QED
    BY <1>5, <2>9, <2>10, <2>11
<1>11. CASE /\ ~Find(sl, k).found /\ sl[Find(sl, k).idx].key = Empty
            /\ slot' = Put(r, Find(r, k).idx, [key |-> k, val |-> v])
            /\ (tombstones' = IF r = sl THEN tombstones ELSE 0) /\ size' = size + 1
  <2>1. PICK d : /\ Table(r, d) /\ Pairs(r) = Pairs(sl)
                 /\ Loaded(r, size, tombstones', d)
                 /\ (size + 1 + tombstones') * 100 <= d * MaxLoad
    BY <1>2, <1>4, <1>11, ReservedKeeps
  <2>2. PICK q \in 0 .. d - 1 :
                /\ Find(r, k).idx = q /\ r[q].key \in {Empty, Tomb}
                /\ Table(Put(r, q, e), d) /\ Pairs(Put(r, q, e)) = Pairs(slot) \union {e}
                /\ Cardinality(Filled(Put(r, q, e))) = size + 1
                /\ TombSlots(Put(r, q, e)) = TombSlots(r) \ {q}
    BY <1>9, <1>11, <2>1
  <2>3. slot' = Put(r, q, e)
    BY <1>5, <1>11, <2>2, Zenon
  <2>4. q \notin TombSlots(r)
    <3>1. CASE r = sl
      BY <1>11, <2>2, <3>1 DEF TombSlots, HashedKeys
    <3>2. CASE TombSlots(r) = {}
      BY <3>2
    <3> QED
      BY <1>2, <1>4, <3>1, <3>2, ReservedKeeps
  <2>5. TombSlots(slot') = TombSlots(r)
    BY <2>2, <2>3, <2>4
  <2>6. Cardinality(TombSlots(slot')) = tombstones'
    BY <2>1, <2>5 DEF Loaded
  <2>7. Loaded(slot', size', tombstones', d)
    BY <1>11, <2>1, <2>2, <2>3, <2>6 DEF Loaded
  <2>8. Table(slot', d) /\ Pairs(slot') = Pairs(slot) \union {e}
    BY <2>2, <2>3
  <2>9. MapInv'
    BY <2>7, <2>8 DEF MapInv, Kept
  <2>10. \A f \in Pairs(slot) : f.key # k
    BY <1>2, <1>3, <1>11, NotFound, AbsentEntries
  <2> QED
    BY <1>5, <2>8, <2>9, <2>10
<1> QED
  BY <1>1, <1>4, <1>8, <1>10, <1>11, EmplaceCases

LEMMA FoundIn ==
  ASSUME HashedKeys, NEW sl, NEW c, Table(sl, c), NEW n, NEW t, Loaded(sl, n, t, c),
         NEW k \in Keys, Find(sl, k).found
  PROVE  \E i \in Filled(sl) : sl[i].key = k /\ Find(sl, k).idx = i
<1>1. SUFFICES ASSUME Absent(sl, k) PROVE FALSE
  <2>1. ASSUME NEW i \in Filled(sl), sl[i].key = k PROVE Find(sl, k).idx = i
    <3>1. Find(sl, k) = [found |-> TRUE, idx |-> i]
      BY <2>1, FindStored
    <3> QED
      BY <3>1
  <2> QED
    BY <2>1 DEF Absent
<1>2. PICK p \in 0 .. c - 1 : sl[p].key = Empty
  BY LoadedRoom
<1>3. PICK q : Find(sl, k) = [found |-> FALSE, idx |-> q]
  BY <1>1, <1>2, FindAbsent
<1> QED
  BY <1>3

LEMMA EraseStep ==
  ASSUME HashedKeys, MapInv, NEW k \in Keys, Erase(k)
  PROVE  /\ MapInv'
         /\ \E e \in Pairs(slot) : e.key = k /\ Pairs(slot') = Pairs(slot) \ {e}
<1>1. PICK left : left = Put(slot, Find(slot, k).idx, [key |-> Tomb, val |-> Empty])
  OBVIOUS
<1>2. Cap > 0 /\ Find(slot, k).found /\ size' = size - 1
  BY <1>1, EraseCases
<1>3. PICK c : Table(slot, c) /\ Loaded(slot, size, tombstones, c)
  <2>1. slot # Blank(0)
    BY <1>2, NoSlots, FS_EmptySet DEF Cap
  <2> QED
    BY <2>1 DEF MapInv, Kept
<1>4. c \in Nat \ {0} /\ c >= 2 /\ PowerOfTwo(c) /\ Cap = c /\ DOMAIN slot = 0 .. c - 1
  BY <1>3, TableShape DEF Table, Cap
<1>5. /\ size \in Nat /\ tombstones \in Nat /\ size = Cardinality(Filled(slot))
      /\ tombstones = Cardinality(TombSlots(slot)) /\ (size + tombstones) * 100 <= c * 75
  BY <1>3, LoadedRoom DEF Loaded, MaxLoad
<1>6. PICK i \in Filled(slot) : slot[i].key = k /\ Find(slot, k).idx = i
  BY <1>2, <1>3, FoundIn
<1>7. left = Put(slot, i, [key |-> Tomb, val |-> Empty])
  BY <1>1, <1>6
<1>8. /\ Table(left, c) /\ Filled(left) = Filled(slot) \ {i}
      /\ Pairs(left) = Pairs(slot) \ {slot[i]}
  BY <1>3, <1>7, EraseKeeps
<1>9. Cardinality(Filled(left)) = size - 1
  <2>1. IsFiniteSet(Filled(slot))
    BY <1>3, TrueCounts
  <2> QED
    BY <1>5, <1>6, <1>8, <2>1, FS_RemoveElement
<1>10. slot[i] \in Pairs(slot) /\ slot[i].key = k
  BY <1>6 DEF Pairs
<1>11. CASE size = 1 /\ slot' = Blank(0) /\ tombstones' = 0
  <2>1. Cardinality(Pairs(left)) = 0 /\ IsFiniteSet(Pairs(left))
    BY <1>8, <1>9, <1>11, EntriesCounted
  <2>2. Pairs(left) = {}
    BY <2>1, FS_EmptySet
  <2>3. Pairs(slot') = Pairs(slot) \ {slot[i]}
    BY <1>8, <1>11, <2>2, NoSlots
  <2>4. MapInv'
    BY <1>2, <1>11 DEF MapInv, Kept
  <2> QED
    BY <1>10, <2>3, <2>4
<1>12. CASE /\ size # 1 /\ (size - 1) * 100 < Cap * MinLoad /\ Cap \div 2 >= MinCapacity
            /\ slot' = Rehash(left, Cap \div 2) /\ tombstones' = 0
  <2>1. PICK d \in Nat \ {0} : d = c \div 2 /\ c = 2 * d
    BY <1>4, PowerIsEven
  <2>2. PowerOfTwo(d)
    BY <1>4, <2>1, PowerHalved
  <2>3. d >= 2 /\ (size - 1) * 100 < c * 25 /\ slot' = Rehash(left, d)
    BY <1>4, <1>12, <2>1 DEF MinLoad, MinCapacity
  <2>4. Cardinality(Filled(left)) < d /\ (size - 1) * 100 <= d * 75
    BY <1>5, <1>9, <2>1, <2>3
  <2>5. Table(slot', d) /\ TombSlots(slot') = {} /\ Pairs(slot') = Pairs(left)
    BY <1>8, <2>2, <2>3, <2>4, RehashKeeps
  <2>6. Cardinality(Filled(slot')) = size - 1
    BY <1>8, <1>9, <2>5, EntriesCounted
  <2>7. Cardinality(TombSlots(slot')) = 0
    BY <2>5, FS_EmptySet
  <2>8. Loaded(slot', size', tombstones', d)
    BY <1>2, <1>5, <1>12, <2>4, <2>6, <2>7 DEF Loaded, MaxLoad
  <2>9. MapInv'
    BY <2>5, <2>8 DEF MapInv, Kept
  <2> QED
    BY <1>8, <1>10, <2>5, <2>9
<1>13. CASE size # 1 /\ slot' = left /\ tombstones' = tombstones + 1
  <2>1. i \in DOMAIN slot /\ i \notin TombSlots(slot)
    BY <1>6 DEF Filled, TombSlots
  <2>2. TombSlots(left) = TombSlots(slot) \union {i}
    <3>1. [key |-> Tomb, val |-> Empty].key = Tomb
      OBVIOUS
    <3>2. DOMAIN left = DOMAIN slot /\ left[i].key = Tomb
          /\ \A x \in DOMAIN slot : x # i => left[x] = slot[x]
      BY <1>7, <2>1, <3>1 DEF Put
    <3> QED
      BY <2>1, <3>2 DEF TombSlots
  <2>3. Cardinality(TombSlots(left)) = tombstones + 1
    <3>1. IsFiniteSet(TombSlots(slot))
      BY <1>3, TrueCounts
    <3> QED
      BY <1>5, <2>1, <2>2, <3>1, FS_AddElement
  <2>4. Loaded(slot', size', tombstones', c)
    BY <1>2, <1>5, <1>9, <1>13, <2>3 DEF Loaded, MaxLoad
  <2>5. MapInv'
    BY <1>8, <1>13, <2>4 DEF MapInv, Kept
  <2> QED
    BY <1>8, <1>10, <1>13, <2>5
<1> QED
  BY <1>1, <1>11, <1>12, <1>13, EraseCases

-----------------------------------------------------------------------------
(***************************************************************************)
(* What the iterators see, from the entries.                               *)
(***************************************************************************)
KeysOf(sl) == {sl[i].key : i \in Filled(sl)}
ContentsOf(sl) == [k \in KeysOf(sl) |-> sl[CHOOSE i \in DOMAIN sl : sl[i].key = k].val]

LEMMA ContentsAreEntries ==
  ASSUME HashedKeys, NEW sl, NEW n, NEW t, Kept(sl, n, t)
  PROVE  /\ KeysOf(sl) = {e.key : e \in Pairs(sl)}
         /\ \A e \in Pairs(sl) : ContentsOf(sl)[e.key] = e.val
         /\ \A e, f \in Pairs(sl) : e.key = f.key => e = f
<1>1. KeysOf(sl) = {e.key : e \in Pairs(sl)}
  BY DEF KeysOf, Pairs
<1>2. CASE sl = Blank(0)
  BY <1>1, <1>2, NoSlots
<1>3. CASE \E c : Table(sl, c)
  <2>1. PICK c : Table(sl, c)
    BY <1>3
  <2>2. ASSUME NEW e \in Pairs(sl) PROVE ContentsOf(sl)[e.key] = e.val
    <3>1. PICK i \in Filled(sl) : e = sl[i]
      BY DEF Pairs
    <3>2. i \in DOMAIN sl /\ sl[i].key \in Keys
      BY <2>1, TableShape
    <3>3. PICK x : x = CHOOSE y \in DOMAIN sl : sl[y].key = e.key
      OBVIOUS
    <3>4. x \in DOMAIN sl /\ sl[x].key = e.key
      BY <3>1, <3>2, <3>3
    <3>5. x \in Filled(sl)
      BY <3>1, <3>2, <3>4 DEF Filled, HashedKeys
    <3>6. x = i
      BY <2>1, <3>1, <3>4, <3>5 DEF Table
    <3>7. e.key \in KeysOf(sl)
      BY <1>1
    <3> QED
      BY <3>1, <3>3, <3>6, <3>7 DEF ContentsOf
  <2>3. ASSUME NEW e \in Pairs(sl), NEW f \in Pairs(sl), e.key = f.key PROVE e = f
    BY <2>1, <2>3 DEF Pairs, Table
  <2> QED
    BY <1>1, <2>2, <2>3
<1> QED
  BY <1>2, <1>3 DEF Kept

\* Of the entries: e = (k, v) is new.  Of the contents: k was not there, and has v now.
EntryAdded(sl, tl, k, v, e) ==
  /\ \A f \in Pairs(sl) : f.key # k
  /\ e.key = k /\ e.val = v /\ Pairs(tl) = Pairs(sl) \union {e}

KeyAdded(sl, tl, k, v) ==
  /\ k \notin KeysOf(sl)
  /\ ContentsOf(tl) = [j \in KeysOf(sl) \union {k} |-> IF j = k THEN v ELSE ContentsOf(sl)[j]]

LEMMA ContentsGrow ==
  ASSUME HashedKeys, NEW sl, NEW n, NEW t, Kept(sl, n, t), NEW tl, NEW m, NEW u, Kept(tl, m, u),
         NEW k, NEW v, NEW e, EntryAdded(sl, tl, k, v, e)
  PROVE  KeyAdded(sl, tl, k, v)
<1>0. /\ \A f \in Pairs(sl) : f.key # k
      /\ e.key = k /\ e.val = v /\ Pairs(tl) = Pairs(sl) \union {e}
  BY DEF EntryAdded
<1>1. /\ KeysOf(sl) = {f.key : f \in Pairs(sl)} /\ KeysOf(tl) = {f.key : f \in Pairs(tl)}
      /\ \A f \in Pairs(sl) : ContentsOf(sl)[f.key] = f.val
      /\ \A f \in Pairs(tl) : ContentsOf(tl)[f.key] = f.val
  BY ContentsAreEntries
<1>2. k \notin KeysOf(sl)
  BY <1>0, <1>1
<1>3. KeysOf(tl) = KeysOf(sl) \union {k}
  BY <1>0, <1>1
<1>4. ASSUME NEW j \in KeysOf(tl)
      PROVE  ContentsOf(tl)[j] = IF j = k THEN v ELSE ContentsOf(sl)[j]
  <2>1. PICK f \in Pairs(tl) : f.key = j
    BY <1>1
  <2>2. CASE f = e
    BY <1>0, <1>1, <2>1, <2>2
  <2>3. CASE f # e
    BY <1>0, <1>1, <2>1, <2>3
  <2> QED
    BY <2>2, <2>3
<1>5. ContentsOf(tl) = [j \in KeysOf(tl) |-> ContentsOf(tl)[j]]
  BY DEF ContentsOf
<1>6. ContentsOf(tl) = [j \in KeysOf(tl) |-> IF j = k THEN v ELSE ContentsOf(sl)[j]]
  BY <1>4, <1>5
<1> QED
  BY <1>2, <1>3, <1>6 DEF KeyAdded

LEMMA ContentsShrink ==
  ASSUME HashedKeys, NEW sl, NEW n, NEW t, Kept(sl, n, t), NEW tl, NEW m, NEW u, Kept(tl, m, u),
         NEW e \in Pairs(sl), Pairs(tl) = Pairs(sl) \ {e}
  PROVE  /\ e.key \in KeysOf(sl)
         /\ ContentsOf(tl) = [j \in KeysOf(sl) \ {e.key} |-> ContentsOf(sl)[j]]
<1>1. /\ KeysOf(sl) = {f.key : f \in Pairs(sl)} /\ KeysOf(tl) = {f.key : f \in Pairs(tl)}
      /\ \A f \in Pairs(sl) : ContentsOf(sl)[f.key] = f.val
      /\ \A f \in Pairs(tl) : ContentsOf(tl)[f.key] = f.val
      /\ \A f, g \in Pairs(sl) : f.key = g.key => f = g
  BY ContentsAreEntries
<1>2. KeysOf(tl) = KeysOf(sl) \ {e.key}
  BY <1>1
<1>3. ASSUME NEW j \in KeysOf(tl) PROVE ContentsOf(tl)[j] = ContentsOf(sl)[j]
  <2>1. PICK f \in Pairs(tl) : f.key = j
    BY <1>1
  <2> QED
    BY <1>1, <2>1
<1>4. ContentsOf(tl) = [j \in KeysOf(tl) |-> ContentsOf(tl)[j]]
  BY DEF ContentsOf
<1>5. ContentsOf(tl) = [j \in KeysOf(tl) |-> ContentsOf(sl)[j]]
  BY <1>3, <1>4
<1> QED
  BY <1>1, <1>2, <1>5

-----------------------------------------------------------------------------
LEMMA MapFirst == MapInit => MapInv
BY DEF MapInit, MapInv, Kept

LEMMA MapStep ==
  ASSUME HashedKeys
  PROVE  MapInv /\ [MapNext]_mapVars => MapInv'
<1>1. ASSUME MapInv, MapNext PROVE MapInv'
  <2>1. PICK k \in Keys : Erase(k) \/ \E v \in Values : Emplace(k, v)
    BY <1>1 DEF MapNext
  <2> QED
    BY <1>1, <2>1, EraseStep, EmplaceStep
<1>2. ASSUME MapInv, UNCHANGED mapVars PROVE MapInv'
  BY <1>2 DEF MapInv, Kept, Loaded, mapVars
<1> QED
  BY <1>1, <1>2

LEMMA InvCounts ==
  ASSUME HashedKeys, MapInv
  PROVE  MapCountsExact
<1>1. Stored = KeysOf(slot) /\ Stored = {e.key : e \in Pairs(slot)}
  BY DEF Stored, KeysOf, Pairs
<1>2. CASE slot = Blank(0) /\ size = 0 /\ tombstones = 0
  <2>1. Filled(slot) = {} /\ Stored = {} /\ TombSlots(slot) = {} /\ Cap = 0
    BY <1>1, <1>2, NoSlots, FS_EmptySet DEF Cap
  <2>2. Cardinality({}) = 0
    BY FS_EmptySet
  <2>3. (size + tombstones) * 100 <= Cap * MaxLoad
    BY <1>2, <2>1 DEF MaxLoad
  <2> QED
    BY <1>2, <2>1, <2>2, <2>3 DEF MapCountsExact, TombSlots
<1>3. CASE \E c : Table(slot, c) /\ Loaded(slot, size, tombstones, c)
  <2>1. PICK c : Table(slot, c) /\ Loaded(slot, size, tombstones, c)
    BY <1>3
  <2>2. Cap = c /\ DOMAIN slot = 0 .. c - 1
    BY <2>1, TableShape DEF Cap
  <2>3. size = Cardinality(Filled(slot)) /\ tombstones = Cardinality(TombSlots(slot))
        /\ (size + tombstones) * 100 <= Cap * MaxLoad
    BY <2>1, <2>2 DEF Loaded
  <2>4. Cardinality(Stored) = Cardinality(Filled(slot))
    <3> DEFINE f == [i \in Filled(slot) |-> slot[i].key]
    <3>1. f \in [Filled(slot) -> Stored] /\ \A x \in Stored : \E i \in Filled(slot) : f[i] = x
      BY DEF Stored
    <3>2. \A i, j \in Filled(slot) : f[i] = f[j] => i = j
      BY <2>1 DEF Table
    <3>3. DOMAIN f = Filled(slot)
      OBVIOUS
    <3>4. IsFiniteSet(Filled(slot))
      BY <2>1, TrueCounts
    <3> HIDE DEF f
    <3>5. f \in Injection(Filled(slot), Stored) /\ f \in Surjection(Filled(slot), Stored)
      BY <3>1, <3>2, <3>3 DEF Injection, IsInjective, Surjection
    <3> QED
      BY <3>4, <3>5, FS_Surjection
  <2>5. ASSUME NEW k \in Keys
        PROVE  /\ Find(slot, k).idx # -1
               /\ (Find(slot, k).found <=> k \in Stored)
               /\ Find(slot, k).found => slot[Find(slot, k).idx].key = k
    <3>1. CASE \E i \in Filled(slot) : slot[i].key = k
      <4>1. PICK i \in Filled(slot) : slot[i].key = k
        BY <3>1
      <4>2. Find(slot, k) = [found |-> TRUE, idx |-> i]
        BY <2>1, <4>1, FindStored
      <4>3. k \in Stored /\ i \in 0 .. c - 1 /\ c \in Nat
        BY <2>1, <4>1, TableShape DEF Stored
      <4>4. i # -1
        BY <4>3
      <4> QED
        BY <4>1, <4>2, <4>3, <4>4
    <3>2. CASE ~\E i \in Filled(slot) : slot[i].key = k
      <4>1. Absent(slot, k)
        BY <3>2 DEF Absent
      <4>2. PICK p \in 0 .. c - 1 : slot[p].key = Empty
        BY <2>1, LoadedRoom
      <4>3. PICK q \in 0 .. c - 1 : Find(slot, k) = [found |-> FALSE, idx |-> q]
        BY <2>1, <4>1, <4>2, FindAbsent
      <4>4. k \notin Stored
        BY <3>2 DEF Stored
      <4>5. c \in Nat
        BY <2>1, TableShape
      <4>6. q # -1
        BY <4>5
      <4> QED
        BY <4>3, <4>4, <4>6
    <3> QED
      BY <3>1, <3>2
  <2> QED
    BY <2>3, <2>4, <2>5 DEF MapCountsExact, TombSlots
<1> QED
  BY <1>2, <1>3 DEF MapInv, Kept

(***************************************************************************)
(* However keys collide and tombstones pile up, the counters of the map    *)
(* are exact, find() finds what the iterators see, and emplace() never     *)
(* throws "Int32Map is full".                                              *)
(***************************************************************************)
THEOREM MapCountsAreExact == ASSUME HashedKeys PROVE MapSpec => []MapCountsExact
<1>1. MapInv => MapCountsExact
  BY InvCounts
<1> QED
  BY <1>1, MapFirst, MapStep, PTL DEF MapSpec

LEMMA ContentsIs == Contents = ContentsOf(slot) /\ Contents' = ContentsOf(slot')
BY DEF Contents, ContentsOf, Stored, KeysOf

LEMMA MapRefines ==
  ASSUME HashedKeys
  PROVE  MapInv /\ MapInv' /\ [MapNext]_mapVars => [Store!Next]_Contents
<1>1. ASSUME MapInv, MapInv', NEW k \in Keys, Erase(k) PROVE Store!Next
  <2>1. PICK e \in Pairs(slot) : e.key = k /\ Pairs(slot') = Pairs(slot) \ {e}
    BY <1>1, EraseStep
  <2>2. Kept(slot, size, tombstones) /\ Kept(slot', size', tombstones')
    BY <1>1 DEF MapInv
  <2>3. k \in KeysOf(slot) /\ ContentsOf(slot') = [j \in KeysOf(slot) \ {k} |-> ContentsOf(slot)[j]]
    BY <2>1, <2>2, ContentsShrink
  <2>4. DOMAIN Contents = KeysOf(slot)
    BY ContentsIs DEF ContentsOf
  <2>5. Contents' = [j \in DOMAIN Contents \ {k} |-> Contents[j]]
    BY <2>3, <2>4, ContentsIs
  <2>6. Store!Erase(k)
    BY <2>3, <2>4, <2>5 DEF Store!Erase, Store!Restrict
  <2> QED
    BY <2>6 DEF Store!Next
<1>2. ASSUME MapInv, MapInv', NEW k \in Keys, NEW v \in Values, Emplace(k, v)
      PROVE  Store!Next \/ UNCHANGED Contents
  <2>1. CASE UNCHANGED mapVars
    <3>1. slot' = slot
      BY <2>1 DEF mapVars
    <3> QED
      BY <3>1, ContentsIs
  <2>2. CASE /\ \A e \in Pairs(slot) : e.key # k
             /\ Pairs(slot') = Pairs(slot) \union {[key |-> k, val |-> v]}
    <3>1. Kept(slot, size, tombstones) /\ Kept(slot', size', tombstones')
      BY <1>2 DEF MapInv
    <3>2. /\ k \notin KeysOf(slot)
          /\ ContentsOf(slot') =
              [j \in KeysOf(slot) \union {k} |-> IF j = k THEN v ELSE ContentsOf(slot)[j]]
      <4>1. PICK e : e = [key |-> k, val |-> v] /\ e.key = k /\ e.val = v
        <5>1. [key |-> k, val |-> v].key = k /\ [key |-> k, val |-> v].val = v
          OBVIOUS
        <5> QED
          BY <5>1, Zenon
      <4>2. \A f \in Pairs(slot) : f.key # k
        BY <2>2
      <4>3. Pairs(slot') = Pairs(slot) \union {e}
        BY <2>2, <4>1, Zenon
      <4>4. PICK sl, n, t, tl, m, u : /\ sl = slot /\ n = size /\ t = tombstones
                                      /\ tl = slot' /\ m = size' /\ u = tombstones'
        OBVIOUS
      <4>5. /\ HashedKeys /\ Kept(sl, n, t) /\ Kept(tl, m, u)
            /\ EntryAdded(sl, tl, k, v, e)
        BY <3>1, <4>1, <4>2, <4>3, <4>4, Zenon DEF EntryAdded
      <4>6. KeyAdded(sl, tl, k, v)
        BY <4>5, ContentsGrow
      <4> QED
        BY <4>4, <4>6, Zenon DEF KeyAdded
    <3>3. DOMAIN Contents = KeysOf(slot)
      BY ContentsIs DEF ContentsOf
    <3>4. Store!Emplace(k, v)
      BY <3>2, <3>3, ContentsIs DEF Store!Emplace
    <3> QED
      BY <3>4 DEF Store!Next
  <2> QED
    BY <1>2, <2>1, <2>2, EmplaceStep
<1>3. ASSUME UNCHANGED mapVars PROVE UNCHANGED Contents
  <2>1. slot' = slot
    BY <1>3 DEF mapVars
  <2> QED
    BY <2>1, ContentsIs
<1> QED
  BY <1>1, <1>2, <1>3 DEF MapNext

(***************************************************************************)
(* Whatever was erased, moved or rehashed before, the table is the map     *)
(* from keys to values that its calls describe.                            *)
(***************************************************************************)
THEOREM TableIsAMap == ASSUME HashedKeys PROVE MapSpec => ImplementsMap
<1>1. MapInit => Store!Init
  <2>1. ASSUME MapInit PROVE Contents = [k \in {} |-> {}]
    <3>1. Stored = {}
      BY <2>1, NoSlots DEF MapInit, Stored
    <3> QED
      BY <3>1 DEF Contents
  <2> QED
    BY <2>1 DEF Store!Init
<1> QED
  BY <1>1, MapFirst, MapStep, MapRefines, PTL DEF MapSpec, ImplementsMap, Store!Spec

=============================================================================
